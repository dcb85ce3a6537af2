---------------------------- MODULE BitMaskProofs ----------------------------
(***************************************************************************)
(* Theorems about apply_mask, for words of any width.  The loop invariant:     *)
(* value_bit counts the bits of the mask that have been passed (Counted), and   *)
(* below mask_bit the result is what it will be (Deposited).                   *)
(***************************************************************************)
EXTENDS BitMask, FiniteSetTheorems, WellFoundedInduction, TLAPS

Counted == value_bit = Rank(mask, mask_bit)

Deposited ==
  /\ res = {b \in Deposit(value, mask) : b < mask_bit}
  /\ {Rank(mask, b) : b \in res} = {i \in value : i < value_bit}

MaskInv == TypeOK /\ value_bit <= mask_bit /\ Counted /\ Deposited

-----------------------------------------------------------------------------
LEMMA BelowIsFinite ==
  ASSUME NEW m \in SUBSET Bits, NEW n \in Nat
  PROVE  IsFiniteSet({x \in m : x < n})
<1>1. IsFiniteSet(Bits)
  BY WidthAssumption, FS_Interval DEF Bits
<1> QED BY <1>1, FS_Subset

\* Ranks count the bits of a mask.
LEMMA RankNext ==
  ASSUME NEW m \in SUBSET Bits, NEW n \in Nat
  PROVE  Rank(m, n) \in Nat /\ Rank(m, n + 1) = Rank(m, n) + (IF n \in m THEN 1 ELSE 0)
<1>1. \A x \in m : x \in Nat /\ (x < n + 1 <=> x < n \/ x = n)
  BY WidthAssumption DEF Bits
<1>2. IsFiniteSet({x \in m : x < n}) /\ Rank(m, n) \in Nat
  BY BelowIsFinite, FS_CardinalityType DEF Rank
<1>3. CASE n \in m
  <2>1. {x \in m : x < n + 1} = {x \in m : x < n} \cup {n}
    <3> DEFINE now == {x \in m : x < n + 1}
               before == {x \in m : x < n}
    <3>1. \A x : x \in now <=> x \in before \/ x = n
      BY <1>1, <1>3
    <3> QED BY <3>1, Zenon
  <2>2. n \notin {x \in m : x < n}
    OBVIOUS
  <2> QED BY <1>2, <1>3, <2>1, <2>2, FS_AddElement DEF Rank
<1>4. CASE n \notin m
  <2>1. {x \in m : x < n + 1} = {x \in m : x < n}
    BY <1>1, <1>4
  <2> QED BY <1>2, <1>4, <2>1 DEF Rank
<1> QED BY <1>2, <1>3, <1>4

LEMMA RankEnds ==
  ASSUME NEW m \in SUBSET Bits
  PROVE  Rank(m, 0) = 0 /\ Rank(m, Width) = Cardinality(m)
<1>1. \A x \in m : x < Width /\ ~(x < 0)
  BY WidthAssumption DEF Bits
<1>2. {x \in m : x < 0} = {} /\ {x \in m : x < Width} = m
  BY <1>1, Zenon
<1> QED BY <1>2, FS_EmptySet DEF Rank

-----------------------------------------------------------------------------
LEMMA InitMaskInv == Init => MaskInv
<1> SUFFICES ASSUME Init PROVE MaskInv
  OBVIOUS
<1>1. \A b \in Bits : b \in Nat
  BY WidthAssumption DEF Bits
<1>2. Counted
  BY RankEnds DEF Init, Counted
<1>3. Deposited
  BY <1>1 DEF Init, Deposited, Deposit
<1> QED BY <1>2, <1>3, WidthAssumption DEF Init, MaskInv, TypeOK

LEMMA NextKeepsMaskInv == MaskInv /\ [Next]_vars => MaskInv'
<1> SUFFICES ASSUME MaskInv, [Next]_vars PROVE MaskInv'
  OBVIOUS
<1> USE DEF MaskInv, TypeOK
<1>1. /\ \A b \in Bits : b \in Nat
      /\ mask_bit \in Nat /\ value_bit \in Nat
  BY WidthAssumption DEF Bits
<1>2. CASE DepositBit
  <2>1. /\ mask_bit < Width /\ mask_bit \in mask
        /\ res' = IF value_bit \in value THEN res \cup {mask_bit} ELSE res
        /\ value_bit' = value_bit + 1 /\ mask_bit' = mask_bit + 1
        /\ UNCHANGED <<value, mask>>
    BY <1>2 DEF DepositBit
  <2>2. TypeOK' /\ value_bit' <= mask_bit'
    BY <1>1, <2>1, WidthAssumption
  <2>3. Counted'
    BY <1>1, <2>1, RankNext DEF Counted
  <2>4. Rank(mask, mask_bit) = value_bit
    BY DEF Counted
  <2>5. res' = {b \in Deposit(value, mask) : b < mask_bit + 1}
    <3>1. \A b \in mask : b < mask_bit + 1 <=> b < mask_bit \/ b = mask_bit
      BY <1>1
    <3>2. mask_bit \in Deposit(value, mask) <=> value_bit \in value
      BY <2>1, <2>4 DEF Deposit
    <3>3. Deposit(value, mask) \subseteq mask
      BY DEF Deposit
    <3>4. \A b : b \in res' <=> b \in res \/ (b = mask_bit /\ value_bit \in value)
      BY <2>1
    <3>5. res = {b \in Deposit(value, mask) : b < mask_bit}
      BY DEF Deposited
    <3>6. \A b : b \in res' <=> b \in Deposit(value, mask) /\ b < mask_bit + 1
      BY <3>1, <3>2, <3>3, <3>4, <3>5
    <3> QED BY <3>6, Zenon
  <2>6. {Rank(mask, b) : b \in res'} = {i \in value : i < value_bit + 1}
    <3>1. CASE value_bit \in value
      <4>1. {Rank(mask, b) : b \in res'} = {Rank(mask, b) : b \in res} \cup {value_bit}
        <5>1. res' = res \cup {mask_bit}
          BY <2>1, <3>1
        <5>2. \A r : r \in {Rank(mask, b) : b \in res'}
                      <=> r \in {Rank(mask, b) : b \in res} \/ r = value_bit
          BY <5>1, <2>4, Zenon
        <5> QED BY <5>2, Zenon
      <4>2. {i \in value : i < value_bit + 1} = {i \in value : i < value_bit} \cup {value_bit}
        <5>1. \A i \in value : i < value_bit + 1 <=> i < value_bit \/ i = value_bit
          BY <1>1
        <5>2. \A i : i \in {j \in value : j < value_bit + 1}
                      <=> i \in {j \in value : j < value_bit} \/ i = value_bit
          BY <3>1, <5>1, Zenon
        <5> QED BY <5>2, Zenon
      <4> QED BY <4>1, <4>2 DEF Deposited
    <3>2. CASE value_bit \notin value
      <4>1. {i \in value : i < value_bit + 1} = {i \in value : i < value_bit}
        BY <1>1, <3>2
      <4> QED BY <2>1, <3>2, <4>1 DEF Deposited
    <3> QED BY <3>1, <3>2
  <2>7. Deposited'
    BY <2>1, <2>5, <2>6 DEF Deposited
  <2> QED BY <2>2, <2>3, <2>7
<1>3. CASE SkipBit
  <2>1. /\ mask_bit < Width /\ mask_bit \notin mask /\ mask_bit' = mask_bit + 1
        /\ UNCHANGED <<value, mask, value_bit, res>>
    BY <1>3 DEF SkipBit
  <2>2. TypeOK' /\ value_bit' <= mask_bit'
    BY <1>1, <2>1, WidthAssumption
  <2>3. Counted'
    BY <1>1, <2>1, RankNext DEF Counted
  <2>4. Deposited'
    BY <1>1, <2>1 DEF Deposited, Deposit
  <2> QED BY <2>2, <2>3, <2>4
<1>4. CASE UNCHANGED vars
  BY <1>4 DEF vars, Counted, Deposited
<1> QED BY <1>2, <1>3, <1>4 DEF Next

-----------------------------------------------------------------------------
(* The deposit as an operator: SysfsEvent builds its configurations with it *)

LEMMA LeastNumber ==
  ASSUME NEW S \in SUBSET Nat, S # {}
  PROVE  \E x \in S : \A y \in S : x <= y
<1>1. IsWellFoundedOn(OpToRel(<, Nat), Nat)
  BY NatLessThanWellFounded, Zenon
<1>2. PICK x \in S : \A y \in S : <<y, x>> \notin OpToRel(<, Nat)
  BY <1>1, WFMin, Zenon
<1>3. \A y \in S : ~ (y < x)
  BY <1>2, Zenon DEF OpToRel
<1> QED BY <1>3

\* The ranks of the bits of a mask are the numbers below their number.
LEMMA RankIsOnto ==
  ASSUME NEW m \in SUBSET Bits, NEW k \in Nat
  PROVE  k < Cardinality(m) <=> \E b \in m : Rank(m, b) = k
<1>0. IsFiniteSet(Bits)
  BY WidthAssumption, FS_Interval DEF Bits
<1>1. IsFiniteSet(m) /\ Cardinality(m) \in Nat
  BY <1>0, FS_Subset, FS_CardinalityType
<1>2. ASSUME k < Cardinality(m) PROVE \E b \in m : Rank(m, b) = k
  <2> DEFINE S == {n \in Nat : k < Rank(m, n)}
  <2>1. Width \in S
    BY <1>2, RankEnds, WidthAssumption
  <2>2. PICK n \in S : \A y \in S : n <= y
    BY <2>1, LeastNumber
  <2>3. n \in Nat \ {0} /\ k < Rank(m, n)
    BY <2>2, RankEnds
  <2>4. n - 1 \in Nat /\ ~ (k < Rank(m, n - 1))
    BY <2>2, <2>3
  <2>5. /\ Rank(m, n - 1) \in Nat
        /\ Rank(m, n) = Rank(m, n - 1) + (IF n - 1 \in m THEN 1 ELSE 0)
    <3>1. (n - 1) + 1 = n
      BY <2>3
    <3> QED BY <2>4, <3>1, RankNext
  <2> QED BY <2>3, <2>4, <2>5
<1>3. ASSUME NEW b \in m, Rank(m, b) = k PROVE k < Cardinality(m)
  <2>1. b \in Nat
    BY WidthAssumption DEF Bits
  <2>2. {x \in m : x < b} \subseteq m \ {b}
    BY <2>1
  <2>3. Rank(m, b) <= Cardinality(m \ {b}) /\ Cardinality(m \ {b}) = Cardinality(m) - 1
    BY <1>1, <2>2, FS_Subset, FS_RemoveElement DEF Rank
  <2> QED BY <1>1, <1>3, <2>3
<1> QED BY <1>2, <1>3

(* Whatever the value and the mask, a mask of n bits takes the low n bits of the   *)
(* value and drops the others: just the bits of the value below the size of the    *)
(* mask can be read back, each from its own place (apply_mask).                   *)
THEOREM DepositReadsBack ==
  ASSUME NEW v \in SUBSET Bits, NEW m \in SUBSET Bits
  PROVE  {Rank(m, b) : b \in Deposit(v, m)} = {i \in v : i < Cardinality(m)}
<1>1. \A i \in v : i \in Nat
  BY WidthAssumption DEF Bits
<1>2. ASSUME NEW b \in Deposit(v, m)
      PROVE  Rank(m, b) \in v /\ Rank(m, b) < Cardinality(m)
  <2>1. b \in m /\ Rank(m, b) \in v
    BY DEF Deposit
  <2> QED BY <1>1, <2>1, RankIsOnto
<1>3. ASSUME NEW i \in v, i < Cardinality(m)
      PROVE  \E b \in Deposit(v, m) : Rank(m, b) = i
  BY <1>1, <1>3, RankIsOnto DEF Deposit
<1> QED BY <1>2, <1>3

(* Two values a mask deposits alike differ only in bits it has no room for: a      *)
(* setting of a sysfs term that fits its field is never mistaken for another one.  *)
THEOREM DepositTellsApart ==
  ASSUME NEW v \in SUBSET Bits, NEW w \in SUBSET Bits, NEW m \in SUBSET Bits,
         Deposit(v, m) = Deposit(w, m)
  PROVE  {i \in v : i < Cardinality(m)} = {i \in w : i < Cardinality(m)}
<1>1. /\ {Rank(m, b) : b \in Deposit(v, m)} = {i \in v : i < Cardinality(m)}
      /\ {Rank(m, b) : b \in Deposit(w, m)} = {i \in w : i < Cardinality(m)}
  BY DepositReadsBack
<1> QED BY <1>1

-----------------------------------------------------------------------------
(* The theorems *)

(* Every variable of the loop keeps its type. *)
THEOREM MaskTypeCorrect == Spec => []TypeOK
<1>1. MaskInv => TypeOK
  BY DEF MaskInv
<1> QED BY <1>1, InitMaskInv, NextKeepsMaskInv, PTL DEF Spec

(* apply_mask computes the deposit of the value under the mask. *)
THEOREM ApplyMaskDeposits == Spec => []ReturnsDeposit
<1>1. MaskInv => ReturnsDeposit
  <2> SUFFICES ASSUME MaskInv, mask_bit = Width PROVE res = Deposit(value, mask)
    BY DEF ReturnsDeposit
  <2>1. \A b \in Deposit(value, mask) : b < Width
    BY WidthAssumption DEF MaskInv, TypeOK, Deposit, Bits
  <2> QED BY <2>1 DEF MaskInv, Deposited, Deposit
<1> QED BY <1>1, InitMaskInv, NextKeepsMaskInv, PTL DEF Spec

(* The low bits of the value can be read back from the word returned. *)
THEOREM ApplyMaskLosesNothing == Spec => []ReadsBack
<1>1. MaskInv => ReadsBack
  BY RankEnds DEF MaskInv, TypeOK, Counted, Deposited, ReadsBack
<1> QED BY <1>1, InitMaskInv, NextKeepsMaskInv, PTL DEF Spec
=============================================================================
