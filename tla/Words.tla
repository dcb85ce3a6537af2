-------------------------------- MODULE Words --------------------------------
(***************************************************************************)
(* Machine words as the sets of their bits, and what apply_mask is for.        *)
(***************************************************************************)
EXTENDS Integers, FiniteSets

CONSTANT Width    \* bits of a std::uint64_t: 64

ASSUME WidthAssumption == Width \in Nat

Bits == 0 .. Width - 1

\* How many bits of the mask are below b.
Rank(m, b) == Cardinality({x \in m : x < b})

\* The low bits of v, in order, at the bits of m.
Deposit(v, m) == {b \in m : Rank(m, b) \in v}
=============================================================================
