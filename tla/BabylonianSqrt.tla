--------------------------- MODULE BabylonianSqrt ---------------------------
(***************************************************************************)
(* The loop of Math.sqrt (core/libraries/Math.sol), one action per         *)
(* iteration.  mint and _mintFee size every LP issuance with it, and no    *)
(* test compares it with the square root it is meant to be.  Inputs are    *)
(* products of two uint112 (or of two amounts SafeMath let through), so    *)
(* y / 2 + 1 and y / x + x stay below 2^256 and never wrap.                *)
(***************************************************************************)
EXTENDS AmmMath

CONSTANT Inputs            \* the arguments sqrt is called with
ASSUME InputsAssumption == Inputs \subseteq Nat

VARIABLES y, z, x, pc
vars == <<y, z, x, pc>>

(* The entry of the function: the small arguments never reach the loop.    *)
Init ==
  /\ y \in Inputs
  /\ IF y > 3
     THEN /\ z = y
          /\ x = y \div 2 + 1
          /\ pc = "loop"
     ELSE /\ z = IF y # 0 THEN 1 ELSE 0
          /\ x = 0
          /\ pc = "done"

(* The Newton step, and the same step with the mean one too low.           *)
IterateLow(old) == (y \div old + old - 1) \div 2
Iterate(old) == (y \div old + old) \div 2

(* The condition of the while loop, and the same with <= for <.            *)
ImprovesOrEqual == x <= z
Improves == x < z

Loop ==
  /\ pc = "loop"
  /\ Improves
  /\ z' = x
  /\ x' = Iterate(x)
  /\ UNCHANGED <<y, pc>>

Return ==
  /\ pc = "loop"
  /\ ~Improves
  /\ pc' = "done"
  /\ UNCHANGED <<y, z, x>>

Next == Loop \/ Return
Spec == Init /\ [][Next]_vars /\ WF_vars(Next)

TypeOK ==
  /\ y \in Inputs
  /\ z \in Nat
  /\ x \in Nat
  /\ pc \in {"loop", "done"}

(* The result is the integer square root of the argument: what mint and    *)
(* _mintFee take sqrt(k) to be (ArkSwapPair.sol:101-102, 126).             *)
ReturnsSqrt == pc = "done" => IsSqrt(z, y)

(* The inductive core: neither the current value nor the next guess ever   *)
(* drops below the root, and the next guess is the iterate of the current. *)
AboveRoot ==
  pc = "loop" =>
    /\ y > 3
    /\ z > 0 /\ x > 0
    /\ y < (z + 1) * (z + 1)
    /\ y < (x + 1) * (x + 1)
    /\ z < y => x = Iterate(z)
    /\ x >= z => z < y

(* No division by zero and no endless loop: the function returns for every *)
(* argument.                                                               *)
Terminates == <>(pc = "done")
=============================================================================
