------------------------------- MODULE BitMask -------------------------------
(***************************************************************************)
(* apply_mask: the loop that deposits the low bits of a value at the bits set  *)
(* in a mask, with the two counters of the code.  See Words.                   *)
(***************************************************************************)
EXTENDS Words

VARIABLES value, mask,             \* the parameters
          mask_bit, value_bit, res \* the locals

vars == <<value, mask, mask_bit, value_bit, res>>

Init ==
  /\ value \in SUBSET Bits /\ mask \in SUBSET Bits
  /\ mask_bit = 0 /\ value_bit = 0 /\ res = {}

\* Mutant: the bit of the value is that at mask_bit.
DepositSamePlace ==
  /\ mask_bit < Width /\ mask_bit \in mask
  /\ res' = IF mask_bit \in value THEN res \cup {mask_bit} ELSE res
  /\ value_bit' = value_bit + 1 /\ mask_bit' = mask_bit + 1
  /\ UNCHANGED <<value, mask>>

\* A bit of the mask takes the next bit of the value.
DepositBit ==
  /\ mask_bit < Width /\ mask_bit \in mask
  /\ res' = IF value_bit \in value THEN res \cup {mask_bit} ELSE res
  /\ value_bit' = value_bit + 1 /\ mask_bit' = mask_bit + 1
  /\ UNCHANGED <<value, mask>>

\* Mutant: mask_bit only moves where the mask has a bit.
SkipStandsStill ==
  /\ mask_bit < Width /\ mask_bit \notin mask
  /\ UNCHANGED vars

\* Mutant: the loop has one turn too many.
SkipPastTheEnd ==
  /\ mask_bit <= Width /\ mask_bit \notin mask
  /\ mask_bit' = mask_bit + 1
  /\ UNCHANGED <<value, mask, value_bit, res>>

\* A bit outside the mask is passed over.
SkipBit ==
  /\ mask_bit < Width /\ mask_bit \notin mask
  /\ mask_bit' = mask_bit + 1
  /\ UNCHANGED <<value, mask, value_bit, res>>

Next == DepositBit \/ SkipBit

Spec == Init /\ [][Next]_vars /\ WF_vars(Next)

-----------------------------------------------------------------------------
(* Properties *)

TypeOK ==
  /\ value \subseteq Bits /\ mask \subseteq Bits /\ res \subseteq Bits
  /\ mask_bit \in 0 .. Width /\ value_bit \in 0 .. Width

(* The word returned has the value's low bits at the bits of the mask, in      *)
(* order, and nothing elsewhere.                                              *)
ReturnsDeposit == mask_bit = Width => res = Deposit(value, mask)

(* Nothing that fits is lost and nothing is made up: read back through the     *)
(* mask, the word returned gives the low bits of the value, as many as the     *)
(* mask has room for.                                                         *)
ReadsBack ==
  mask_bit = Width =>
    {Rank(mask, b) : b \in res} = {i \in value : i < Cardinality(mask)}

(* The loop ends. *)
LoopEnds == <>(mask_bit = Width)
=============================================================================
