---------------------------- MODULE RouterCalls ----------------------------
(***************************************************************************)
(* The external functions of periphery/ArkSwapRouter02.sol and the path    *)
(* arithmetic of periphery/libraries/ArkSwapLibrary.sol, as calls on the   *)
(* worlds of TokenLedger.  `from' is msg.sender; the check of the deadline *)
(* (modifier ensure) is in module Router, with the clock it reads.         *)
(*                                                                         *)
(* A path is a sequence of tokens; a pair of tokens that makes no pool     *)
(* has no reserves.  An amount of 0 stands for a quote that reverts: the   *)
(* library refuses an input or an output of 0, and a pair refuses to pay   *)
(* out 0, so no call goes on with one.                                     *)
(***************************************************************************)
EXTENDS PairCalls, Lists

First(path) == PairFor(path[1], path[2])
Reserve(w, p, t) == IF p \in w.pairs THEN w.reserve[p][t] ELSE 0

(* getAmountOut and getAmountIn with their requires                        *)
QuoteOut(w, amountIn, input, output) ==
  LET p == PairFor(input, output)
  IN  IF amountIn > 0 /\ Reserve(w, p, input) > 0 /\ Reserve(w, p, output) > 0
      THEN GetAmountOut(amountIn, w.reserve[p][input], w.reserve[p][output])
      ELSE 0

QuoteIn(w, amountOut, input, output) ==
  LET p == PairFor(input, output)
  IN  IF amountOut > 0 /\ Reserve(w, p, input) > 0 /\ amountOut < Reserve(w, p, output)
      THEN GetAmountIn(amountOut, w.reserve[p][input], w.reserve[p][output])
      ELSE 0

GetAmountsOut(w, amountIn, path) ==
  LET amounts[i \in 1 .. Len(path)] ==
        IF i = 1 THEN amountIn ELSE QuoteOut(w, amounts[i - 1], path[i - 1], path[i])
  IN  amounts

GetAmountsIn(w, amountOut, path) ==
  LET amounts[i \in 1 .. Len(path)] ==
        IF i = Len(path) THEN amountOut ELSE QuoteIn(w, amounts[i + 1], path[i], path[i + 1])
  IN  amounts

-----------------------------------------------------------------------------
(* Adding liquidity.                                                       *)

(* _addLiquidity: the amounts it settles on, and whether it accepts them;  *)
(* and accepting any, whatever the minimums.                               *)
OptimalAmounts(reserveA, reserveB, desiredA, desiredB) ==
  IF reserveA = 0 /\ reserveB = 0 THEN <<desiredA, desiredB>>
  ELSE IF Quote(desiredA, reserveA, reserveB) <= desiredB
       THEN <<desiredA, Quote(desiredA, reserveA, reserveB)>>
       ELSE <<Quote(desiredB, reserveB, reserveA), desiredB>>

AnyAmounts(reserveA, reserveB, desiredA, desiredB, minA, minB) ==
  (reserveA = 0 <=> reserveB = 0) /\ desiredA > 0

AddAccepted(reserveA, reserveB, desiredA, desiredB, minA, minB) ==
  \/ reserveA = 0 /\ reserveB = 0
  \/ /\ reserveA > 0 /\ reserveB > 0 /\ desiredA > 0
     /\ IF Quote(desiredA, reserveA, reserveB) <= desiredB
        THEN Quote(desiredA, reserveA, reserveB) >= minB
        ELSE /\ desiredB > 0
             /\ Quote(desiredB, reserveB, reserveA) <= desiredA
             /\ Quote(desiredB, reserveB, reserveA) >= minA

AddLiquidity(w0, from, a, b, desiredA, desiredB, minA, minB, to) ==
  LET p == PairFor(a, b)
      w == EnsurePair(w0, p)
      amount == OptimalAmounts(w.reserve[p][a], w.reserve[p][b], desiredA, desiredB)
  IN  IF AddAccepted(w.reserve[p][a], w.reserve[p][b], desiredA, desiredB, minA, minB)
      THEN Then(Then(Transfer(w, a, from, p, amount[1]),
                     LAMBDA v : Transfer(v, b, from, p, amount[2])),
                LAMBDA v : PairMint(v, p, to))
      ELSE Failed

(* What is left of msg.value goes back; and a router that keeps it.        *)
NoRefund(w, to, rest) == w
Refund(w, to, rest) == IF rest > 0 THEN SendKash(w, Router, to, rest) ELSE w

AddLiquidityETH(w0, from, t, desired, value, minT, minKash, to) ==
  LET p == PairFor(t, WKASH)
      w == EnsurePair(w0, p)
      amount == OptimalAmounts(w.reserve[p][t], w.reserve[p][WKASH], desired, value)
      wrapped(v) == Then(Deposit(v, Router, amount[2]),
                         LAMBDA u : Transfer(u, WKASH, Router, p, amount[2]))
  IN  IF AddAccepted(w.reserve[p][t], w.reserve[p][WKASH], desired, value, minT, minKash)
      THEN Then(Then(Then(Then(PayIn(w, from, value),
                               LAMBDA v : Transfer(v, t, from, p, amount[1])),
                          wrapped),
                     LAMBDA v : PairMint(v, p, to)),
                LAMBDA v : Refund(v, from, value - amount[2]))
      ELSE Failed

-----------------------------------------------------------------------------
(* Removing liquidity.                                                     *)

(* The minimums are checked against what burn returned.                    *)
RemoveLiquidity(w, from, a, b, shares, minA, minB, to) ==
  LET p == PairFor(a, b)
      burn(v) == Then(PairBurn(v, p, to),
                      LAMBDA u : Require(/\ BurnAmount(v, p, a) >= minA
                                         /\ BurnAmount(v, p, b) >= minB, u))
  IN  IF p \in w.pairs THEN Then(PullShares(w, p, from, shares), burn) ELSE Failed

(* Unwrap and send on to the caller's recipient.                           *)
PayOutKash(w, to, amount) ==
  Then(Withdraw(w, Router, amount), LAMBDA v : SendKash(v, Router, to, amount))

(* What removeLiquidity returned: the share of the pool before the burn.   *)
Returned(w, p, shares, t) ==
  ((w.lp[p][p] + shares) * Balance(w, p, t)) \div w.supply[p]

RemoveLiquidityETH(w, from, t, shares, minT, minKash, to) ==
  LET p == PairFor(t, WKASH)
  IN  Then(Then(RemoveLiquidity(w, from, t, WKASH, shares, minT, minKash, Router),
                LAMBDA v : Transfer(v, t, Router, to, Returned(w, p, shares, t))),
           LAMBDA v : PayOutKash(v, to, Returned(w, p, shares, WKASH)))

(* ... for a taxed token the router sends on all it has of it.             *)
RemoveLiquidityETHSupportingFee(w, from, t, shares, minT, minKash, to) ==
  LET p == PairFor(t, WKASH)
  IN  Then(Then(RemoveLiquidity(w, from, t, WKASH, shares, minT, minKash, Router),
                LAMBDA v : Transfer(v, t, Router, to, v.tok[t][Router])),
           LAMBDA v : PayOutKash(v, to, Returned(w, p, shares, WKASH)))

-----------------------------------------------------------------------------
(* Swaps.                                                                  *)

(* Where hop i sends its output: the next pair, or the recipient.          *)
HopTo(path, i, to) == IF i < Len(path) - 1 THEN PairFor(path[i + 1], path[i + 2]) ELSE to

(* _swap: the first pair has been paid; the amounts were fixed beforehand. *)
FixedHop(w, amounts, path, i, to) ==
  PairSwap(w, PairFor(path[i], path[i + 1]), path[i + 1], amounts[i + 1], HopTo(path, i, to))

SwapAlong(w, amounts, path, to) ==
  LET after[i \in 0 .. Len(path) - 1] ==
        IF i = 0 THEN w ELSE Then(after[i - 1], LAMBDA v : FixedHop(v, amounts, path, i, to))
  IN  after[Len(path) - 1]

(* _swapSupportingFeeOnTransferTokens: each hop swaps what has arrived.    *)
Arrived(w, p, t) == Balance(w, p, t) - w.reserve[p][t]

ArrivedHop(w, path, i, to) ==
  LET p == PairFor(path[i], path[i + 1])
  IN  IF p \in w.pairs
      THEN PairSwap(w, p, path[i + 1],
                    QuoteOut(w, Arrived(w, p, path[i]), path[i], path[i + 1]),
                    HopTo(path, i, to))
      ELSE Failed

SwapArrived(w, path, to) ==
  LET after[i \in 0 .. Len(path) - 1] ==
        IF i = 0 THEN w ELSE Then(after[i - 1], LAMBDA v : ArrivedHop(v, path, i, to))
  IN  after[Len(path) - 1]

(* What the first pair is paid with: the caller's tokens, or msg.value     *)
(* wrapped on the way.                                                     *)
PayTokens(w, from, path, amount) == Transfer(w, path[1], from, First(path), amount)

PayWrapped(w, path, amount) ==
  Then(Deposit(w, Router, amount), LAMBDA v : Transfer(v, WKASH, Router, First(path), amount))

(* The minimum of a swap with a quote; and a quote of anything accepted.   *)
AnyOut(amounts, minOut) == Seqs!Last(amounts) > 0
EnoughOut(amounts, minOut) == Seqs!Last(amounts) >= minOut

SwapExactTokensForTokens(w, from, amountIn, minOut, path, to) ==
  LET amounts == GetAmountsOut(w, amountIn, path)
  IN  IF EnoughOut(amounts, minOut)
      THEN Then(PayTokens(w, from, path, amountIn),
                LAMBDA v : SwapAlong(v, amounts, path, to))
      ELSE Failed

SwapTokensForExactTokens(w, from, amountOut, maxIn, path, to) ==
  LET amounts == GetAmountsIn(w, amountOut, path)
  IN  IF 0 < amounts[1] /\ amounts[1] <= maxIn
      THEN Then(PayTokens(w, from, path, amounts[1]),
                LAMBDA v : SwapAlong(v, amounts, path, to))
      ELSE Failed

SwapExactETHForTokens(w, from, value, minOut, path, to) ==
  LET amounts == GetAmountsOut(w, value, path)
  IN  IF path[1] = WKASH /\ EnoughOut(amounts, minOut)
      THEN Then(Then(PayIn(w, from, value), LAMBDA v : PayWrapped(v, path, value)),
                LAMBDA v : SwapAlong(v, amounts, path, to))
      ELSE Failed

SwapTokensForExactETH(w, from, amountOut, maxIn, path, to) ==
  IF Seqs!Last(path) = WKASH
  THEN Then(SwapTokensForExactTokens(w, from, amountOut, maxIn, path, Router),
            LAMBDA v : PayOutKash(v, to, amountOut))
  ELSE Failed

SwapExactTokensForETH(w, from, amountIn, minOut, path, to) ==
  IF Seqs!Last(path) = WKASH
  THEN Then(SwapExactTokensForTokens(w, from, amountIn, minOut, path, Router),
            LAMBDA v : PayOutKash(v, to, Seqs!Last(GetAmountsOut(w, amountIn, path))))
  ELSE Failed

SwapETHForExactTokens(w, from, amountOut, value, path, to) ==
  LET amounts == GetAmountsIn(w, amountOut, path)
  IN  IF path[1] = WKASH /\ 0 < amounts[1] /\ amounts[1] <= value
      THEN Then(Then(Then(PayIn(w, from, value),
                          LAMBDA v : PayWrapped(v, path, amounts[1])),
                     LAMBDA v : SwapAlong(v, amounts, path, to)),
                LAMBDA v : Refund(v, from, value - amounts[1]))
      ELSE Failed

(* The minimum of a swap of taxed tokens, on what really arrived.          *)
Received(w, v, t, to) == v.tok[t][to] - w.tok[t][to]

(* The swap, once the first pair has been paid in world w; and the same    *)
(* without the minimum.                                                    *)
SwapPaidAnyAmount(w, minOut, path, to) == SwapArrived(w, path, to)
SwapPaid(w, minOut, path, to) ==
  Then(SwapArrived(w, path, to),
       LAMBDA v : Require(Received(w, v, Seqs!Last(path), to) >= minOut, v))

SwapExactTokensForTokensSupportingFee(w, from, amountIn, minOut, path, to) ==
  Then(PayTokens(w, from, path, amountIn), LAMBDA v : SwapPaid(v, minOut, path, to))

SwapExactETHForTokensSupportingFee(w, from, value, minOut, path, to) ==
  IF path[1] = WKASH
  THEN Then(Then(PayIn(w, from, value), LAMBDA v : PayWrapped(v, path, value)),
            LAMBDA v : SwapPaid(v, minOut, path, to))
  ELSE Failed

(* ... where the router pays out all the wrapped KASH it has.              *)
SwapExactTokensForETHSupportingFee(w, from, amountIn, minOut, path, to) ==
  IF Seqs!Last(path) = WKASH
  THEN Then(Then(PayTokens(w, from, path, amountIn),
                 LAMBDA v : SwapArrived(v, path, Router)),
            LAMBDA v : Then(Require(v.tok[WKASH][Router] >= minOut, v),
                            LAMBDA u : PayOutKash(u, to, u.tok[WKASH][Router])))
  ELSE Failed
=============================================================================
