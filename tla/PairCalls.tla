----------------------------- MODULE PairCalls -----------------------------
(***************************************************************************)
(* The functions of core/ArkSwapPair.sol that the router calls, on the     *)
(* worlds of TokenLedger.  Module Pair models the contract on its own,     *)
(* with callbacks, price accumulators, the width of its integers and the   *)
(* protocol fee; a transaction of the router reaches none of these: it     *)
(* passes no callback data, and the factory is deployed with feeTo unset.  *)
(***************************************************************************)
EXTENDS TokenLedger, AmmMath

CONSTANT MINIMUM_LIQUIDITY

ASSUME MinimumAssumption == MINIMUM_LIQUIDITY \in Nat \ {0}

Balance(w, p, t) == w.tok[t][p]

(* _update *)
Update(w, p) ==
  [w EXCEPT !.reserve[p] = [t \in Token |-> IF t \in p THEN Balance(w, p, t) ELSE 0]]

(* factory.createPair, when _addLiquidity finds getPair empty              *)
EnsurePair(w, p) == [w EXCEPT !.pairs = @ \cup {p}]

(* mint(to): the shares for the smaller of two contributions               *)
PairMint(w, p, to) ==
  LET amount(t) == Balance(w, p, t) - w.reserve[p][t]
      share(t) == (amount(t) * w.supply[p]) \div w.reserve[p][t]
      a == CHOOSE t \in p : TRUE
      b == CHOOSE t \in p : t # a
      first == w.supply[p] = 0
      locked == IF first THEN MINIMUM_LIQUIDITY ELSE 0
      shares == IF first THEN Sqrt(amount(a) * amount(b)) - MINIMUM_LIQUIDITY
                         ELSE Min(share(a), share(b))
  IN  Require(/\ p \in w.pairs
              /\ \A t \in p : amount(t) >= 0 /\ (~first => w.reserve[p][t] > 0)
              /\ shares > 0,
        Update([w EXCEPT !.supply[p] = @ + locked + shares,
                         !.lp[p][Zero] = @ + locked,
                         !.lp[p][to] = @ + shares], p))

(* burn(to): what it returns, and what it does                             *)
BurnAmount(w, p, t) == (w.lp[p][p] * Balance(w, p, t)) \div w.supply[p]

PairBurn(w, p, to) ==
  LET a == CHOOSE t \in p : TRUE
      b == CHOOSE t \in p : t # a
      burnt == [w EXCEPT !.supply[p] = @ - w.lp[p][p], !.lp[p][p] = 0]
      pay(v, t) == Transfer(v, t, p, to, BurnAmount(w, p, t))
  IN  IF /\ p \in w.pairs
         /\ w.supply[p] > 0
         /\ \A t \in p : BurnAmount(w, p, t) > 0
      THEN Then(Then(pay(burnt, a), LAMBDA v : pay(v, b)), LAMBDA v : Update(v, p))
      ELSE Failed

(* The input swap infers from the balance it is left with.                 *)
Inferred(v, w, p, t, out) ==
  LET kept == w.reserve[p][t] - out
  IN  IF Balance(v, p, t) > kept THEN Balance(v, p, t) - kept ELSE 0

(* The check of the product, and none at all.                              *)
NotChecked(b0, b1, in0, in1, r0, r1) == TRUE
ProductKept(b0, b1, in0, in1, r0, r1) == KHolds(b0, b1, in0, in1, r0, r1)

(* swap with amountOut of one token and nothing of the other               *)
PairSwap(w, p, output, amountOut, to) ==
  LET input == CHOOSE t \in p : t # output
      paid == Transfer(w, output, p, to, amountOut)
      check(v) ==
        LET in1 == Inferred(v, w, p, input, 0)
            in2 == Inferred(v, w, p, output, amountOut)
        IN  Require(/\ in1 > 0 \/ in2 > 0
                    /\ ProductKept(Balance(v, p, input), Balance(v, p, output), in1, in2,
                                   w.reserve[p][input], w.reserve[p][output]),
              Update(v, p))
  IN  IF p \in w.pairs /\ 0 < amountOut /\ amountOut < w.reserve[p][output]
      THEN Then(paid, check)
      ELSE Failed

(* sync() *)
PairSync(w, p) == Require(p \in w.pairs, Update(w, p))
=============================================================================
