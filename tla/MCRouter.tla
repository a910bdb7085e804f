------------------------------ MODULE MCRouter ------------------------------
(***************************************************************************)
(* Instances of Router.  Amounts are single units, so that every rounding  *)
(* of the formulas matters; Unlimited is larger than any balance.          *)
(***************************************************************************)
EXTENDS Router

CONSTANTS W, A, B, alice, bob

(* One pool of wrapped KASH, two users of whom one starts with anything.   *)
GenesisLiquidity ==
  [tok |-> [t \in Token |-> [u \in User |-> IF t = A /\ u = alice THEN 4 ELSE 0]],
   kash |-> [u \in User |-> IF u = alice THEN 4 ELSE 0]]
LiquidityKash == {<<A, W>>}
PathsKash == {<<A, W>>, <<W, A>>}

(* Two pools and paths across both.                                        *)
GenesisSwaps ==
  [tok |-> [t \in Token |-> [u \in User |-> IF t = A THEN 12 ELSE IF t = B THEN 6 ELSE 0]],
   kash |-> [u \in User |-> 7]]
LiquidityBoth == {<<A, W>>, <<A, B>>}
PathsBoth == {<<A, W>>, <<W, A>>, <<W, A, B>>, <<B, A, W>>, <<A, W, A>>}

(* One pool of wrapped KASH and a taxed token.                             *)
GenesisTaxed ==
  [tok |-> [t \in Token |-> [u \in User |-> IF t = A THEN 9 ELSE 0]],
   kash |-> [u \in User |-> 6]]

ToFirstPool == {PairFor(A, W)}
ToPoolsAndRouter == Pool \cup {Router}
=============================================================================
