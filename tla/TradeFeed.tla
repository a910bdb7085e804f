----------------------------- MODULE TradeFeed ------------------------------
(***************************************************************************)
(* The list of recent trades, put together from the analytics API's page   *)
(* of swaps of each of a few pools (useRecentTrades.ts, sdk/analytics.ts). *)
(* The service is not modelled: a request is answered or it is not.        *)
(***************************************************************************)
EXTENDS Lists, FiniteSets

CONSTANTS
  POOLS_SAMPLED,       \* 4
  PAGE_LIMIT_DEFAULT, PAGE_LIMIT_MAX,
  Unavailable          \* the result of a request that was not answered, or badly

Swap == [pair : Nat, timestamp : Nat, blockNumber : Nat, logIndex : Nat]

ASSUME FeedAssumption ==
  /\ POOLS_SAMPLED \in Nat \ {0}
  /\ PAGE_LIMIT_DEFAULT \in Nat /\ PAGE_LIMIT_MAX \in Nat
  /\ Unavailable \notin Seq(Swap)

ClampLimit(limit) ==
  IF limit < 1 THEN PAGE_LIMIT_DEFAULT
  ELSE IF limit > PAGE_LIMIT_MAX THEN PAGE_LIMIT_MAX ELSE limit

(* A client without a URL, a refused connection, a timeout, an error       *)
(* status and a body without data all give a result, and never throw.      *)
Get(answered, body) == IF answered THEN body ELSE Unavailable

FirstN(list, n) == SubSeq(list, 1, IF Len(list) < n THEN Len(list) ELSE n)

(* Newest first, by time, then block, then position in the block.          *)
Later(a, b) ==
  \/ a.timestamp > b.timestamp
  \/ a.timestamp = b.timestamp /\ a.blockNumber > b.blockNumber
  \/ a.timestamp = b.timestamp /\ a.blockNumber = b.blockNumber /\ a.logIndex > b.logIndex

(* Each swap has the place that the number of later ones gives it.         *)
Sorted(swaps) ==
  [n \in 1 .. Cardinality(swaps) |->
     CHOOSE s \in swaps : Cardinality({r \in swaps : Later(r, s)}) = n - 1]

PairSwaps(swaps, limit) == FirstN(Sorted(swaps), ClampLimit(limit))

(* Pools whose page is missing are left out.                               *)
AllOf(pages) == UNION {Seqs!ToSet(pages[n]) : n \in {m \in DOMAIN pages : pages[m] # Unavailable}}

Merge(pages, limit) == FirstN(Sorted(AllOf(pages)), limit)
=============================================================================
