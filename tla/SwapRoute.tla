----------------------------- MODULE SwapRoute ------------------------------
(***************************************************************************)
(* hooks/useSwapRoute.ts: the choice of a path from the reserves the page  *)
(* has read.  `pools' is that reading: a function from the addresses of    *)
(* the pairs that answered to records [token0, reserve0, reserve1].        *)
(***************************************************************************)
EXTENDS AmmSdk, Lists

CONSTANTS
  Native,              \* native KASH; every other token is its address
  Wkash,
  Hubs                 \* routingHubs(ARK_CHAIN_ID): addresses, in order of preference

RoutedAddress(token) == IF token = Native THEN Wkash ELSE token

-----------------------------------------------------------------------------
(* Candidate paths: direct, through each hub, through two distinct hubs.   *)

UsableHubs(tokenIn, tokenOut) ==
  Without(Hubs, {RoutedAddress(tokenIn), RoutedAddress(tokenOut)})

Candidates(tokenIn, tokenOut) ==
  LET a == RoutedAddress(tokenIn)
      b == RoutedAddress(tokenOut)
      hubs == UsableHubs(tokenIn, tokenOut)
      through == [i \in DOMAIN hubs |-> <<a, hubs[i], b>>]
      throughTwo == Seqs!FlattenSeq([i \in DOMAIN hubs |->
                      [j \in DOMAIN hubs |-> <<a, hubs[i], hubs[j], b>>]])
  IN  IF a = b THEN <<>>
      ELSE <<<<a, b>>>> \o through
             \o Without(throughTwo, {<<a, hubs[i], hubs[i], b>> : i \in DOMAIN hubs})

Pairs(path) == {ComputePairAddress(path[i], path[i + 1]) : i \in 1 .. Len(path) - 1}

(* Every pair some candidate needs: the batch that is read.                *)
PairSet(tokenIn, tokenOut) ==
  UNION {Pairs(Candidates(tokenIn, tokenOut)[i]) : i \in DOMAIN Candidates(tokenIn, tokenOut)}

(* The pairs of a batch whose reads succeeded and which hold both tokens.  *)
Answered(chainPools, pairs, failed) ==
  LET usable == {p \in (pairs \cap DOMAIN chainPools) \ failed :
                   chainPools[p].reserve0 > 0 /\ chainPools[p].reserve1 > 0}
  IN  [p \in usable |-> chainPools[p]]

-----------------------------------------------------------------------------
(* The quotes along a path.                                                *)

Oriented(pool, tokenIn) ==
  IF pool.token0 = tokenIn
  THEN [reserveIn |-> pool.reserve0, reserveOut |-> pool.reserve1]
  ELSE [reserveIn |-> pool.reserve1, reserveOut |-> pool.reserve0]

Hop(pools, path, i) == Oriented(pools[ComputePairAddress(path[i], path[i + 1])], path[i])

(* Each hop carries the amount so far, and the fee-free amount as the      *)
(* exact fraction num/den.                                                 *)
QuoteExactIn(pools, path, amountIn) ==
  LET step[i \in 1 .. Len(path)] ==
        IF i = 1 THEN [amount |-> amountIn, num |-> amountIn, den |-> 1]
        ELSE LET hop == Hop(pools, path, i - 1)
                 before == step[i - 1]
             IN  [amount |-> AmountOut(before.amount, hop.reserveIn, hop.reserveOut),
                  num |-> before.num * hop.reserveOut, den |-> before.den * hop.reserveIn]
      end == step[Len(path)]
  IN  [path |-> path, amountIn |-> amountIn, amountOut |-> end.amount,
       impactBps |-> ShortfallBps(end.amount, end.num \div end.den)]

QuoteExactOut(pools, path, amountOut) ==
  LET step[i \in 1 .. Len(path)] ==
        IF i = Len(path) THEN [amount |-> amountOut, num |-> amountOut, den |-> 1]
        ELSE LET hop == Hop(pools, path, i)
                 after == step[i + 1]
             IN  [amount |-> AmountIn(after.amount, hop.reserveIn, hop.reserveOut),
                  num |-> after.num * hop.reserveIn, den |-> after.den * hop.reserveOut]
      start == step[1]
  IN  [path |-> path, amountIn |-> start.amount, amountOut |-> amountOut,
       impactBps |-> ShortfallBps(start.num \div start.den, start.amount)]

QuoteAlong(pools, path, side, amount) ==
  IF side = "in" THEN QuoteExactIn(pools, path, amount) ELSE QuoteExactOut(pools, path, amount)

-----------------------------------------------------------------------------
(* The search keeps the first of the best.                                 *)

NoRoute == [path |-> <<>>, amountIn |-> 0, amountOut |-> 0, impactBps |-> 0]

Better(side, route, best) ==
  IF side = "in" THEN route.amountOut > best.amountOut ELSE route.amountIn < best.amountIn

(* A path is usable when all its pairs answered and no formula threw.      *)
Usable(pools, path, side, amount) ==
  /\ Pairs(path) \subseteq DOMAIN pools
  /\ LET q == QuoteAlong(pools, path, side, amount) IN q.amountIn > 0 /\ q.amountOut > 0

BestRoute(pools, tokenIn, tokenOut, side, amount) ==
  LET keep(best, path) ==
        IF ~Usable(pools, path, side, amount) THEN best
        ELSE LET route == QuoteAlong(pools, path, side, amount)
             IN  IF best = NoRoute \/ Better(side, route, best) THEN route ELSE best
  IN  Seqs!FoldLeft(keep, NoRoute, Candidates(tokenIn, tokenOut))
=============================================================================
