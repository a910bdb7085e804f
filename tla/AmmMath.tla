------------------------------ MODULE AmmMath ------------------------------
(***************************************************************************)
(* The integer arithmetic the exchange is built on: the two functions of   *)
(* core/libraries/Math.sol and the three pricing formulas of               *)
(* periphery/libraries/ArkSwapLibrary.sol.  Every division is Solidity's   *)
(* truncating division of unsigned integers, which is \div on Nat.  A      *)
(* SafeMath overflow of uint256 reverts the call, so a formula is only     *)
(* ever evaluated where it does not overflow.                              *)
(***************************************************************************)
EXTENDS Integers

Min(x, y) == IF x < y THEN x ELSE y

(* What Math.sqrt returns: the integer square root.  That the Babylonian   *)
(* loop computes it is theorem SqrtCorrect of module BabylonianSqrtProofs. *)
IsSqrt(r, y) == r * r <= y /\ y < (r + 1) * (r + 1)
Sqrt(y) == CHOOSE r \in 0 .. y : IsSqrt(r, y)

(* The pool fee: an input amount counts for 997/1000 of itself.            *)
FeeBase == 1000
FeeCut == 3
FeeKept == FeeBase - FeeCut

Quote(amountA, reserveA, reserveB) == (amountA * reserveB) \div reserveA

GetAmountOut(amountIn, reserveIn, reserveOut) ==
  LET amountInWithFee == amountIn * FeeKept
  IN  (amountInWithFee * reserveOut) \div (reserveIn * FeeBase + amountInWithFee)

(* The input formula without the final "+ 1" that rounds it up.            *)
GetAmountInFloor(amountOut, reserveIn, reserveOut) ==
  (reserveIn * amountOut * FeeBase) \div ((reserveOut - amountOut) * FeeKept)

GetAmountIn(amountOut, reserveIn, reserveOut) ==
  (reserveIn * amountOut * FeeBase) \div ((reserveOut - amountOut) * FeeKept) + 1

(* The constant-product check of ArkSwapPair.swap, on the balances the     *)
(* pair is left with and the inputs it inferred from them.                 *)
KHolds(balance0, balance1, amount0In, amount1In, reserve0, reserve1) ==
  (balance0 * FeeBase - amount0In * FeeCut) * (balance1 * FeeBase - amount1In * FeeCut)
    >= reserve0 * reserve1 * FeeBase * FeeBase
=============================================================================
