----------------------------- MODULE MCSwapForm -----------------------------
(***************************************************************************)
(* Instances of SwapForm.  Reserves are about a hundred units, so that the *)
(* amounts typed reach every severity and rounding matters.                *)
(***************************************************************************)
EXTENDS SwapForm, TLC

W == 1
A == 2
H == 3
B == 4
KASH == 0

MCHubs == <<W, H>>
MCToken == {KASH, A, B}

PoolOf(a, ra, b, rb) ==
  LET p == ComputePairAddress(a, b)
  IN  p :> IF a < b THEN [token0 |-> a, reserve0 |-> ra, reserve1 |-> rb]
                    ELSE [token0 |-> b, reserve0 |-> rb, reserve1 |-> ra]

Bounds(t, r, f, s, fail) ==
  [trades |-> t, requests |-> r, flips |-> f, switches |-> s, failures |-> fail]

MCWallet == [t \in MCToken |-> 30]
MCUnread == [t \in MCToken |-> Unread]

(* A direct pool that a large amount makes worse than the way through H.   *)
KashForA ==
  [pools |-> PoolOf(W, 100, A, 80) @@ PoolOf(W, 120, H, 120) @@ PoolOf(A, 90, H, 100),
   wallet |-> MCWallet, tokenIn |-> KASH, tokenOut |-> A, feeOnTransfer |-> FALSE,
   seenWallet |-> MCUnread, bounds |-> Bounds(1, 2, 1, 0, FALSE)]

(* No direct pool: one way through both hubs, one through W.               *)
AForB ==
  [pools |-> PoolOf(A, 100, W, 70) @@ PoolOf(W, 90, H, 120) @@ PoolOf(H, 100, B, 90)
               @@ PoolOf(W, 60, B, 50),
   wallet |-> MCWallet, tokenIn |-> A, tokenOut |-> B, feeOnTransfer |-> FALSE,
   seenWallet |-> MCWallet, bounds |-> Bounds(1, 2, 0, 0, FALSE)]

(* Out of an approved token into native KASH, with a failing node and a    *)
(* pair that was never funded.                                             *)
AForKash ==
  [pools |-> PoolOf(W, 100, A, 80) @@ PoolOf(W, 0, H, 0),
   wallet |-> MCWallet, tokenIn |-> A, tokenOut |-> KASH, feeOnTransfer |-> FALSE,
   seenWallet |-> MCWallet, bounds |-> Bounds(1, 2, 1, 0, TRUE)]

(* The wallet changes its network; the fee-on-transfer setting is on.      *)
Elsewhere ==
  [pools |-> PoolOf(W, 100, A, 80),
   wallet |-> MCWallet, tokenIn |-> KASH, tokenOut |-> A, feeOnTransfer |-> TRUE,
   seenWallet |-> MCWallet, bounds |-> Bounds(0, 2, 0, 2, FALSE)]

MCOpenings == {KashForA, AForB, AForKash, Elsewhere}

MCTrades == {[pair |-> <<W, A>>, token |-> A, amount |-> 12],
             [pair |-> <<W, B>>, token |-> B, amount |-> 12]}
=============================================================================
