-------------------------- MODULE MCLiquidityForm ---------------------------
(***************************************************************************)
(* Instances of LiquidityForm.                                             *)
(***************************************************************************)
EXTENDS LiquidityForm

Bounds(o, r, t, fail) == [others |-> o, requests |-> r, turns |-> t, failures |-> fail]

MCCreated == PoolWith(30, 40, 34)

(* The user holds part of a pool that others trade in.                     *)
Holder ==
  [pool |-> PoolWith(40, 60, 48), lp |-> 20, native |-> "none", approved |-> 0, mode |-> "remove",
   bounds |-> Bounds(1, 2, 1, FALSE)]

(* A holder who turns to depositing while a signature is awaited, with an  *)
(* approval left from a deposit that failed.                               *)
Undecided ==
  [pool |-> PoolWith(40, 60, 48), lp |-> 20, native |-> "b", approved |-> 10, mode |-> "remove",
   bounds |-> Bounds(0, 3, 1, FALSE)]

(* Deposits of a token with native KASH, on a node whose reads may fail.   *)
Depositor ==
  [pool |-> PoolWith(40, 60, 48), lp |-> 0, native |-> "b", approved |-> 0, mode |-> "add",
   bounds |-> Bounds(1, 2, 1, TRUE)]

(* A first deposit that somebody else may be ahead of.                     *)
Founder ==
  [pool |-> NoPool, lp |-> 0, native |-> "b", approved |-> 0, mode |-> "add",
   bounds |-> Bounds(1, 2, 1, FALSE)]

MCOpenings == {Holder, Undecided, Depositor, Founder}
=============================================================================
