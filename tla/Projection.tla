----------------------------- MODULE Projection -----------------------------
(***************************************************************************)
(* What the indexer promises of its event tables: a cursor over the chain  *)
(* and, at all times, exactly the swaps and liquidity events of the blocks *)
(* up to it.  The cursor advances over settled blocks only; when the chain *)
(* has moved from under it, it goes back to a block that is still there.   *)
(***************************************************************************)
EXTENDS Chain

CONSTANTS
  Confirmations,       \* blocks behind the head before one is considered settled
  NoCursor

VARIABLES
  cursor,              \* the last processed block, or NoCursor
  rows                 \* swaps and liquidity events

Row(e, number, hash) ==
  [tx |-> e.tx, index |-> e.index, number |-> number, hash |-> hash,
   pair |-> e.pair, kind |-> e.kind, origin |-> e.origin]

(* The rows a rebuild from the canonical chain up to height n would hold.  *)
RowsUpTo(n) ==
  {Row(e, e.block, HeaderHash(e.block)) :
     e \in {x \in Logs(1, n) : x.kind \in {"Swap", "Mint", "Burn"}}}

OnChain == cursor = NoCursor \/ HeaderHash(cursor.number) = cursor.hash

PInit == ChainInit /\ cursor = NoCursor /\ rows = {}

MoveTo(n) ==
  /\ cursor' = [number |-> n, hash |-> HeaderHash(n)]
  /\ rows' = RowsUpTo(n)
  /\ UNCHANGED <<chain, fork>>

Advance ==
  /\ OnChain
  /\ \E n \in FactoryDeployBlock .. BlockNumber - Confirmations :
       /\ cursor # NoCursor => n > cursor.number
       /\ MoveTo(n)

Rewind ==
  /\ ~OnChain
  /\ \E n \in FactoryDeployBlock .. cursor.number - 1 :
       /\ rows' = {r \in rows : r.number <= n}
       /\ MoveTo(n)

ChainStep ==
  /\ \/ \E events \in Contents : Mine(events)
     \/ \E n \in Settled .. BlockNumber - 1 : Reorg(n)
  /\ UNCHANGED <<cursor, rows>>

PNext == Advance \/ Rewind \/ ChainStep

PSpec == PInit /\ [][PNext]_<<chain, fork, cursor, rows>>
=============================================================================
