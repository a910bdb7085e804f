------------------------------ MODULE PoolList ------------------------------
(***************************************************************************)
(* What the pages make of the reads of every pool: the rows and values of  *)
(* the pools table, the positions, and the figures of the landing page     *)
(* (usePools.ts, usePositions.ts, valuation.ts, useProtocolStats.ts).      *)
(*                                                                         *)
(* A batch of reads is a flat list of calls, a few for each pair or token, *)
(* answered by a list of results in the same order in which each call may  *)
(* have failed; the code finds a result by its position.  The operators    *)
(* below keep that layout.                                                 *)
(***************************************************************************)
EXTENDS TokenList, Integers

CONSTANTS
  STABLE_DECIMALS,     \* 6: of the values shown
  Failed,              \* the result of a call that failed
  NoData,              \* a batch that has not been answered
  Unpriced             \* the value of what has no price

(* A failure is not an answer, a missing batch is not a batch, and no price*)
(* is not an amount.                                                       *)
ASSUME AnswersAssumption ==
  /\ STABLE_DECIMALS \in Nat /\ Unpriced \notin Nat
  /\ Failed \notin Nat \cup (Nat \X Nat)
  /\ NoData \notin Seq(Nat \cup (Nat \X Nat))

Sdk == INSTANCE AmmSdk

(* Of a batch with n calls for each pair or token: the place of the one the*)
(* m-th call is about, and which of its calls it is.                       *)
About(m, n) == ((m - 1) \div n) + 1
Which(m, n) == ((m - 1) % n) + 1

ResultOf(batch, i) == IF batch = NoData \/ i \notin DOMAIN batch THEN Failed ELSE batch[i]

PairAddresses(addresses) ==
  IF addresses = NoData THEN <<>> ELSE Without(addresses, {Failed})

(* The address lists of the second and later batches, first come first.    *)
Once(list) ==
  LET first == Without([i \in DOMAIN list |-> i],
                       {i \in DOMAIN list : \E j \in 1 .. (i - 1) : list[j] = list[i]})
  IN  [n \in DOMAIN first |-> list[first[n]]]

Unknown(tokens, pairs, details) ==
  LET mentioned == [m \in 1 .. (2 * Len(pairs)) |->
                      ResultOf(details, 4 * (About(m, 2) - 1) + Which(m, 2))]
  IN  Once(Without(mentioned, {a \in Seqs!ToSet(mentioned) :
                                 a = Failed \/ TokenByAddress(tokens, a) # NoToken}))

-----------------------------------------------------------------------------
(* Rows.                                                                   *)

(* A symbol that cannot be read is shown as the shortened address.         *)
Shortened == "0x"

(* An address is unknown once only.                                        *)
MetaOf(unknown, meta, address, field) ==
  LET at == {i \in DOMAIN unknown : unknown[i] = address}
  IN  IF at = {} THEN Failed ELSE ResultOf(meta, 2 * ((CHOOSE i \in at : TRUE) - 1) + field)

Resolve(tokens, unknown, meta, address) ==
  LET listed == TokenByAddress(tokens, address)
      symbol == MetaOf(unknown, meta, address, 1)
      decimals == MetaOf(unknown, meta, address, 2)
  IN  IF listed # NoToken
      THEN [address |-> address, symbol |-> listed.symbol, decimals |-> listed.decimals,
            isStable |-> listed.isStable, known |-> TRUE]
      ELSE [address |-> address, symbol |-> IF symbol = Failed THEN Shortened ELSE symbol,
            decimals |-> IF decimals = Failed THEN DEFAULT_DECIMALS ELSE decimals,
            isStable |-> FALSE, known |-> FALSE]

(* A pair any of whose four reads failed has no row.                       *)
Answered(details, i) == \A k \in 1 .. 4 : ResultOf(details, 4 * (i - 1) + k) # Failed

Row(tokens, unknown, meta, pairs, details, i) ==
  LET answer(k) == details[4 * (i - 1) + k]
  IN  [pair |-> pairs[i],
       token0 |-> Resolve(tokens, unknown, meta, answer(1)),
       token1 |-> Resolve(tokens, unknown, meta, answer(2)),
       reserve0 |-> answer(3)[1], reserve1 |-> answer(3)[2], totalSupply |-> answer(4)]

Rows(tokens, unknown, meta, pairs, details) ==
  LET whole == Without([i \in DOMAIN pairs |-> i], {i \in DOMAIN pairs : ~Answered(details, i)})
  IN  [n \in DOMAIN whole |-> Row(tokens, unknown, meta, pairs, details, whole[n])]

-----------------------------------------------------------------------------
(* Values, in units of the stablecoins, with STABLE_DECIMALS.              *)

TenToThe(n) ==
  LET power[i \in 0 .. n] == IF i = 0 THEN 1 ELSE 10 * power[i - 1]
  IN  power[n]

Rescale(raw, from, to) ==
  IF from > to THEN raw \div TenToThe(from - to) ELSE raw * TenToThe(to - from)

(* The pools that hold a token, each seen from that token's side.          *)
SidesOf(pools, token) ==
  LET seen(p) ==
        IF p.token0.address = token.address
        THEN [other |-> p.token1, reserveToken |-> p.reserve0, reserveOther |-> p.reserve1]
        ELSE [other |-> p.token0, reserveToken |-> p.reserve1, reserveOther |-> p.reserve0]
      holding == Without(pools, {p \in Seqs!ToSet(pools) :
                   \/ token.address \notin {p.token0.address, p.token1.address}
                   \/ p.reserve0 = 0 \/ p.reserve1 = 0})
  IN  [i \in DOMAIN holding |-> seen(holding[i])]

(* A token is worth what the pool deepest in priced tokens gives for it,   *)
(* the first of them when several are; `deeper' is what the other tokens of*)
(* the pools are worth.                                                    *)
Worth(pools, token, amount, deeper) ==
  IF amount = 0 THEN 0
  ELSE IF token.isStable THEN Rescale(amount, token.decimals, STABLE_DECIMALS)
  ELSE LET sides == SidesOf(pools, token)
           worth == [i \in DOMAIN sides |-> deeper[<<sides[i].other, sides[i].reserveOther>>]]
           priced == {i \in DOMAIN sides : worth[i] # Unpriced}
           deepest == {i \in priced : \A j \in priced : worth[j] <= worth[i]}
       IN  IF priced = {} THEN Unpriced
           ELSE LET i == CHOOSE k \in deepest : \A j \in deepest : k <= j
                IN  (amount * worth[i]) \div sides[i].reserveToken

(* Below MaxDepth pools, only stablecoins have a value.                    *)
MaxDepth == 1

ValueInStable(pools, token, amount) ==
  LET tokens == {token} \cup UNION {{pools[i].token0, pools[i].token1} : i \in DOMAIN pools}
      amounts == {amount} \cup UNION {{pools[i].reserve0, pools[i].reserve1} : i \in DOMAIN pools}
      asked == tokens \X amounts
      value[left \in 0 .. MaxDepth + 1] ==
        [z \in asked |-> Worth(pools, z[1], z[2],
                               IF left = 0 THEN [y \in asked |-> Unpriced] ELSE value[left - 1])]
  IN  value[MaxDepth + 1][<<token, amount>>]

(* Both sides priced: their sum; one: twice that one; none: unpriced.      *)
Both(v0, v1) ==
  IF v0 # Unpriced /\ v1 # Unpriced THEN v0 + v1
  ELSE IF v0 # Unpriced THEN 2 * v0 ELSE IF v1 # Unpriced THEN 2 * v1 ELSE Unpriced

ValueOf(pools, p, amount0, amount1) ==
  Both(ValueInStable(pools, p.token0, amount0), ValueInStable(pools, p.token1, amount1))

PoolTvl(pools, p) == ValueOf(pools, p, p.reserve0, p.reserve1)

(* The positions of the wallet whose LP balances were read for the rows.   *)
Position(pools, p, lp) ==
  LET amount0 == (lp * p.reserve0) \div p.totalSupply
      amount1 == (lp * p.reserve1) \div p.totalSupply
  IN  [pair |-> p.pair, token0 |-> p.token0, token1 |-> p.token1, lpBalance |-> lp,
       shareBps |-> (lp * 10000) \div p.totalSupply, amount0 |-> amount0, amount1 |-> amount1,
       value |-> ValueOf(pools, p, amount0, amount1)]

Positions(pools, balances) ==
  {Position(pools, pools[i], balances[i]) :
     i \in {j \in DOMAIN pools : ResultOf(balances, j) \notin {Failed, 0}
                               /\ pools[j].totalSupply > 0}}

-----------------------------------------------------------------------------
(* The landing page, which asks for three things of each pair and knows    *)
(* only the listed tokens.                                                 *)

Summaries(pairs, figures) ==
  LET answered == Without([i \in DOMAIN pairs |-> i],
                          {i \in DOMAIN pairs : ResultOf(figures, 3 * i) = Failed})
      answer(n, k) == figures[3 * (answered[n] - 1) + k]
      token(a) == IF a = Failed THEN NoToken ELSE TokenByAddress(TOKEN_LIST, a)
  IN  [n \in DOMAIN answered |->
         [pair |-> pairs[answered[n]], token0 |-> token(answer(n, 1)), token1 |-> token(answer(n, 2)),
          reserve0 |-> answer(n, 3)[1], reserve1 |-> answer(n, 3)[2]]]

(* Amounts of tokens of different decimals are put on one scale first.     *)
InStable(token, reserve) == Rescale(reserve, token.decimals, STABLE_DECIMALS)

SumOf(amounts) ==
  LET sum[i \in 0 .. Len(amounts)] == IF i = 0 THEN 0 ELSE sum[i - 1] + amounts[i]
  IN  sum[Len(amounts)]

Sides(summaries) ==
  [k \in 1 .. (2 * Len(summaries)) |->
     LET s == summaries[(k + 1) \div 2]
     IN  IF k % 2 = 1 THEN [token |-> s.token0, reserve |-> s.reserve0]
                      ELSE [token |-> s.token1, reserve |-> s.reserve1]]

KashLocked(summaries) ==
  LET sides == Sides(summaries)
      isKash(token) == token # NoToken /\ token.address = Wkash
  IN  SumOf([k \in DOMAIN sides |-> IF isKash(sides[k].token) THEN sides[k].reserve ELSE 0])

StablesLocked(summaries) ==
  LET sides == Sides(summaries)
      isStable(token) == token # NoToken /\ token.address # Wkash /\ token.isStable
  IN  SumOf([k \in DOMAIN sides |->
               IF isStable(sides[k].token) THEN InStable(sides[k].token, sides[k].reserve) ELSE 0])

(* What one unit of `token' buys of `quote' in the first pool of the two.  *)
Holds(s, t0, t1) ==
  s.token0 # NoToken /\ s.token1 # NoToken /\ s.token0.address = t0 /\ s.token1.address = t1

ReservesFrom(s, a, b) ==
  IF Holds(s, a, b) THEN <<s.reserve0, s.reserve1>> ELSE <<s.reserve1, s.reserve0>>

PoolPrice(summaries, token, quote) ==
  LET a == IF token.address = Native THEN Wkash ELSE token.address
      b == IF quote.address = Native THEN Wkash ELSE quote.address
      between == {s \in Seqs!ToSet(summaries) : Holds(s, a, b) \/ Holds(s, b, a)}
  IN  IF between = {} THEN Unpriced
      ELSE LET reserves == ReservesFrom(FirstIn(summaries, between, NoData), a, b)
           IN  IF reserves[1] = 0 \/ reserves[2] = 0 THEN Unpriced
               ELSE Sdk!AmountOut(TenToThe(token.decimals), reserves[1], reserves[2])
=============================================================================
