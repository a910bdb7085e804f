------------------------------- MODULE AmmSdk -------------------------------
(***************************************************************************)
(* packages/sdk/amm.ts: the mirror of the pricing formulas with which the  *)
(* web application renders quotes.  It keeps the guards of the source; a   *)
(* guard that throws gives 0, which every caller treats as it treats the   *)
(* exception: the candidate it was computing is unusable.                  *)
(*                                                                         *)
(* Token addresses are natural numbers, so that they have the order        *)
(* sortTokens gives them.  A pair's address is a hash of the factory and   *)
(* the sorted tokens, that is, an injective function of those tokens, and  *)
(* the sorted tokens stand for it.                                         *)
(***************************************************************************)
EXTENDS AmmMath

SortTokens(tokenA, tokenB) == IF tokenA < tokenB THEN <<tokenA, tokenB>> ELSE <<tokenB, tokenA>>
ComputePairAddress(tokenA, tokenB) == SortTokens(tokenA, tokenB)

AmountOut(amountIn, reserveIn, reserveOut) ==
  IF amountIn > 0 /\ reserveIn > 0 /\ reserveOut > 0
  THEN GetAmountOut(amountIn, reserveIn, reserveOut)
  ELSE 0

(* Variant: the rounding up forgotten.                                     *)
AmountInFloor(amountOut, reserveIn, reserveOut) ==
  IF amountOut > 0 /\ reserveIn > 0 /\ reserveOut > amountOut
  THEN GetAmountInFloor(amountOut, reserveIn, reserveOut)
  ELSE 0

AmountIn(amountOut, reserveIn, reserveOut) ==
  IF amountOut > 0 /\ reserveIn > 0 /\ reserveOut > amountOut
  THEN GetAmountIn(amountOut, reserveIn, reserveOut)
  ELSE 0

QuoteAmount(amountA, reserveA, reserveB) ==
  IF amountA > 0 /\ reserveA > 0 /\ reserveB > 0 THEN Quote(amountA, reserveA, reserveB) ELSE 0

-----------------------------------------------------------------------------
Bps == 10000

MinimumReceived(amountOut, slippageBps) == (amountOut * (Bps - slippageBps)) \div Bps
MaximumSold(amountIn, slippageBps) == (amountIn * (Bps + slippageBps)) \div Bps

(* How far `worse' falls short of `better', in basis points of `better'.   *)
ShortfallBps(worse, better) ==
  IF better > 0 /\ better > worse THEN ((better - worse) * Bps) \div better ELSE 0

PriceImpactBps(amountIn, reserveIn, reserveOut) ==
  IF amountIn > 0 /\ reserveIn > 0 /\ reserveOut > 0
  THEN ShortfallBps(AmountOut(amountIn, reserveIn, reserveOut), (amountIn * reserveOut) \div reserveIn)
  ELSE 0

Warn == 100
High == 300
Severe == 1500
ImpactSeverity(bps) ==
  IF bps >= Severe THEN "severe" ELSE IF bps >= High THEN "high"
  ELSE IF bps >= Warn THEN "warn" ELSE "none"
=============================================================================
