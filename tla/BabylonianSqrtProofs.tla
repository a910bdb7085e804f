------------------------ MODULE BabylonianSqrtProofs ------------------------
(***************************************************************************)
(* Math.sqrt returns the integer square root of every unsigned argument.   *)
(* The invariant AboveRoot is inductive because the mean of a guess and    *)
(* y / guess, rounded down twice, is never below the integer root.         *)
(***************************************************************************)
EXTENDS BabylonianSqrt, TLAPS

(* Products of naturals are ordered as their factors.                      *)
LEMMA ProductMonotone ==
  ASSUME NEW a \in Nat, NEW b \in Nat, NEW c \in Nat, NEW d \in Nat, a <= c, b <= d
  PROVE  a * b <= c * d
<1>1. a * b <= c * b
  <2>1. (c - a) * b >= 0
    BY SMT
  <2> QED BY <2>1, SMT
<1>2. c * b <= c * d
  <2>1. c * (d - b) >= 0
    BY SMT
  <2> QED BY <2>1, SMT
<1> QED BY <1>1, <1>2, SMT

(* One Newton step from any positive guess stays at or above the root: the *)
(* square of its successor exceeds the argument.                           *)
LEMMA IterateAboveRoot ==
  ASSUME NEW Y \in Nat, NEW g \in Nat, g > 0
  PROVE  Y < ((Y \div g + g) \div 2 + 1) * ((Y \div g + g) \div 2 + 1)
<1> DEFINE q == Y \div g
           m == (q + g) \div 2 + 1
<1>1. q \in Nat /\ Y < (q + 1) * g
  BY SMT
<1>2. m \in Nat /\ 2 * m >= q + g + 1
  BY <1>1, SMT
<1>3. 4 * ((q + 1) * g) <= (q + 1 + g) * (q + 1 + g)
  <2>1. (q + 1 - g) * (q + 1 - g) >= 0
    BY <1>1, SMT
  <2> QED BY <1>1, <2>1, SMT
<1>4. (q + 1 + g) * (q + 1 + g) <= (2 * m) * (2 * m)
  BY <1>1, <1>2, ProductMonotone, SMT
<1>5. 4 * Y < 4 * (m * m)
  BY <1>1, <1>2, <1>3, <1>4, SMT
<1> QED BY <1>2, <1>5, SMT

(* A guess whose next iterate is no smaller is not above the root.         *)
LEMMA FixedGuessBelowRoot ==
  ASSUME NEW Y \in Nat, NEW g \in Nat, g > 0, (Y \div g + g) \div 2 >= g
  PROVE  g * g <= Y
<1>1. Y \div g >= g /\ Y \div g \in Nat /\ (Y \div g) * g <= Y
  BY SMT
<1>2. g * g <= (Y \div g) * g
  BY <1>1, ProductMonotone
<1> QED BY <1>1, <1>2, SMT

IInv == TypeOK /\ AboveRoot /\ ReturnsSqrt

LEMMA InitIInv == Init => IInv
<1> SUFFICES ASSUME Init PROVE IInv
  OBVIOUS
<1> USE InputsAssumption DEF IInv, TypeOK, AboveRoot, ReturnsSqrt, IsSqrt, Init
<1>1. CASE y > 3
  <2>1. /\ y \in Nat /\ z = y /\ x = y \div 2 + 1 /\ pc = "loop"
        /\ x \in Nat /\ x > 0 /\ x < z
    BY <1>1, SMT
  <2>2. y < (z + 1) * (z + 1)
    BY <2>1, ProductMonotone, SMT
  <2>3. y < (x + 1) * (x + 1)
    <3>1. 2 * (x + 1) > y + 2
      BY <2>1, SMT
    <3>2. 2 * (x + 1) <= (x + 1) * (x + 1)
      BY <2>1, ProductMonotone, SMT
    <3> QED BY <2>1, <3>1, <3>2, SMT
  <2> QED BY <1>1, <2>1, <2>2, <2>3
<1>2. CASE ~(y > 3)
  BY <1>2, SMT
<1> QED BY <1>1, <1>2

LEMMA LoopIInv == IInv /\ Loop => IInv'
<1> SUFFICES ASSUME IInv, Loop PROVE IInv'
  OBVIOUS
<1>1. /\ y \in Nat /\ x \in Nat /\ x > 0 /\ x < z /\ y > 3 /\ pc = "loop"
      /\ y < (x + 1) * (x + 1)
      /\ z' = x /\ x' = (y \div x + x) \div 2 /\ y' = y /\ pc' = pc /\ y \in Inputs
  BY InputsAssumption DEF IInv, TypeOK, AboveRoot, Loop, Iterate, Improves
<1>2. x' \in Nat /\ y < (x' + 1) * (x' + 1)
  BY <1>1, IterateAboveRoot, SMT
<1>3. x' > 0
  BY <1>1, <1>2, SMT
<1>4. x' >= z' => z' < y'
  <2> SUFFICES ASSUME x' >= x, x >= y PROVE FALSE
    BY <1>1, SMT
  <2>1. x * x <= y
    BY <1>1, FixedGuessBelowRoot
  <2>2. x > 1
    BY <1>1, SMT
  <2>3. 2 * x <= x * x
    BY <1>1, <2>2, ProductMonotone, SMT
  <2> QED BY <1>1, <2>1, <2>2, <2>3, SMT
<1> QED BY <1>1, <1>2, <1>3, <1>4 DEF IInv, TypeOK, AboveRoot, ReturnsSqrt, Iterate

LEMMA ReturnIInv == IInv /\ Return => IInv'
<1> SUFFICES ASSUME IInv, Return PROVE IInv'
  OBVIOUS
<1>1. /\ y \in Nat /\ z \in Nat /\ z > 0 /\ x >= z /\ pc = "loop" /\ z < y
      /\ x = (y \div z + z) \div 2 /\ y < (z + 1) * (z + 1)
  BY InputsAssumption, SMT DEF IInv, TypeOK, AboveRoot, Return, Iterate, Improves
<1>2. z * z <= y
  BY <1>1, FixedGuessBelowRoot
<1> QED BY <1>1, <1>2 DEF IInv, TypeOK, AboveRoot, ReturnsSqrt, IsSqrt, Return

(* Math.sqrt computes the integer square root (Math.sol:14-25): whatever   *)
(* the argument, the value it returns is the largest whose square does not *)
(* exceed it.                                                              *)
THEOREM SqrtCorrect == Spec => []ReturnsSqrt
<1>1. IInv /\ [Next]_vars => IInv'
  <2>1. IInv /\ UNCHANGED vars => IInv'
    BY DEF IInv, TypeOK, AboveRoot, ReturnsSqrt, Iterate, vars
  <2> QED BY <2>1, LoopIInv, ReturnIInv DEF Next
<1>2. IInv => ReturnsSqrt
  BY DEF IInv
<1> QED BY InitIInv, <1>1, <1>2, PTL DEF Spec
=============================================================================
