------------------------------ MODULE Indexer -------------------------------
(***************************************************************************)
(* The event indexer: packages/gointernal/indexer/indexer.go over the      *)
(* store of Store and the chain of Chain.                                  *)
(*                                                                         *)
(* One goroutine runs Tick in a loop.  The chain may change between any    *)
(* two of its requests, so every request is a step of its own; what it     *)
(* computes from an answer, and the database transaction that follows it,  *)
(* belong to the same step, because nobody else writes the database.       *)
(*                                                                         *)
(* Prices, token metadata and the LP supply are left out.  Of the in-      *)
(* memory state that leaves the pair set with its mirror of the reserves   *)
(* (knownPairs) and the adaptive batch size.                               *)
(***************************************************************************)
EXTENDS Chain, Store

CONSTANTS
  Confirmations,
  BlockBatchSize,      \* the batch the indexer starts with
  Faults,              \* subset of {"rpc", "range", "tx", "reload", "crash"}: what may fail,
                       \* until the faults cease
  QuietTicks           \* reorganisations come only between ticks

VARIABLES
  faults,              \* what still may fail: Faults, then nothing
  db,
  knownPairs,          \* the pairs in memory, with their reserves
  batchSize,
  pc,                  \* the request the goroutine makes next
  safe,                \* Tick: the settled height it read
  ancestor,            \* checkReorg: the block the walk back is at
  to,                  \* processRange: the end of the range
  logs                 \* processRange: the fetched logs not yet written

outside == <<chain, fork, faults>>
memory == <<knownPairs, batchSize>>
locals == <<safe, ancestor, to, logs>>
vars == <<chain, fork, faults, db, knownPairs, batchSize, pc, safe, ancestor, to, logs>>

ASSUME IndexerAssumption ==
  /\ Confirmations \in Nat
  /\ BlockBatchSize \in Nat \ {0}
  /\ Faults \subseteq {"rpc", "range", "tx", "reload", "crash"}
  /\ QuietTicks \in BOOLEAN
  /\ NoCursor \notin [number : 1 .. MaxHeight, hash : Hash]

(* checkReorg never asks whether the block of the factory is still there.  *)
ASSUME FactoryIsSettled == FactoryDeployBlock <= Settled

P == INSTANCE Projection WITH cursor <- db.cursor, rows <- db.rows

TypeOK ==
  /\ faults \in {Faults, {}}
  /\ db.cursor # NoCursor => db.cursor.number \in 1 .. MaxHeight /\ db.cursor.hash \in Hash
  /\ \A b \in db.blocks : b.number \in 1 .. MaxHeight /\ b.hash \in Hash
  /\ batchSize \in 1 .. BlockBatchSize
  /\ pc \in {"down", "idle", "check", "walk", "rollback", "reload", "start", "pairlogs", "blocks"}
  /\ safe \in 0 .. MaxHeight /\ ancestor \in 0 .. MaxHeight /\ to \in 0 .. MaxHeight
  /\ \A l \in logs : l.block \in 1 .. to

Reset == safe' = 0 /\ ancestor' = 0 /\ to' = 0 /\ logs' = {}

Init ==
  /\ ChainInit
  /\ faults = Faults
  /\ db = EmptyDatabase
  /\ knownPairs = <<>>
  /\ batchSize = BlockBatchSize
  /\ pc = "down"
  /\ safe = 0 /\ ancestor = 0 /\ to = 0 /\ logs = {}

(* SELECT ... FROM pairs, as the map the indexer keeps.                    *)
StoredPairs == [p \in DOMAIN db.pairs |-> db.pairs[p].reserve]

(* Preflight, after a start or restart of the process.                     *)
Preflight ==
  /\ pc = "down"
  /\ knownPairs' = StoredPairs
  /\ batchSize' = BlockBatchSize
  /\ pc' = "idle"
  /\ UNCHANGED <<outside, db, locals>>

-----------------------------------------------------------------------------
(* Tick and checkReorg.                                                    *)

SafeBlock(head) == IF head < Confirmations THEN 0 ELSE head - Confirmations

TickStart ==
  /\ pc = "idle"
  /\ safe' = SafeBlock(BlockNumber)
  /\ pc' = "check"
  /\ UNCHANGED <<outside, db, memory, ancestor, to, logs>>

CheckReorg ==
  /\ pc = "check"
  /\ IF db.cursor = NoCursor \/ HeaderHash(db.cursor.number) = db.cursor.hash
     THEN pc' = "start" /\ UNCHANGED ancestor
     ELSE pc' = "walk" /\ ancestor' = db.cursor.number
  /\ UNCHANGED <<outside, db, memory, safe, to, logs>>

(* Does the walk back stop at block n?  And with the comparison forgotten. *)
AnyStored(n) == \E b \in db.blocks : b.number = n
StillCanonical(n) == BlockStored(db, n, HeaderHash(n))

(* One turn of the loop: a block that held no event has no stored hash and *)
(* is stepped over.                                                        *)
WalkBack ==
  /\ pc = "walk"
  /\ IF ancestor > FactoryDeployBlock
     THEN /\ ancestor' = ancestor - 1
          /\ pc' = IF StillCanonical(ancestor - 1) THEN "rollback" ELSE "walk"
     ELSE pc' = "rollback" /\ UNCHANGED ancestor
  /\ UNCHANGED <<outside, db, memory, safe, to, logs>>

(* One transaction; the ancestor's header is read inside it.               *)
Rollback ==
  /\ pc = "rollback"
  /\ db' = SetIndexerState(RollbackFrom(db, ancestor + 1), ancestor, HeaderHash(ancestor))
  /\ pc' = "reload"
  /\ UNCHANGED <<outside, memory, locals>>

(* The commit goes through but its answer is lost: checkReorg returns an   *)
(* error and knownPairs keeps the pairs that were rolled back.             *)
RollbackUnacknowledged ==
  /\ "tx" \in faults
  /\ pc = "rollback"
  /\ db' = SetIndexerState(RollbackFrom(db, ancestor + 1), ancestor, HeaderHash(ancestor))
  /\ pc' = "idle"
  /\ Reset
  /\ UNCHANGED <<outside, memory>>

(* knownPairs is emptied, then read back from the database.                *)
Reload ==
  /\ pc = "reload"
  /\ knownPairs' = StoredPairs
  /\ pc' = "start"
  /\ UNCHANGED <<outside, db, batchSize, locals>>

ReloadFails ==
  /\ "reload" \in faults
  /\ pc = "reload"
  /\ knownPairs' = <<>>
  /\ pc' = "idle"
  /\ Reset
  /\ UNCHANGED <<outside, db, batchSize>>

-----------------------------------------------------------------------------
(* processRange.                                                           *)

StartBlock == IF db.cursor = NoCursor THEN FactoryDeployBlock ELSE db.cursor.number + 1

(* Nothing to process up to the safe block; and stopping one block short.  *)
StoppedShort == StartBlock >= safe
NothingLeft == StartBlock > safe

CaughtUp ==
  /\ pc = "start"
  /\ NothingLeft
  /\ pc' = "idle"
  /\ Reset
  /\ UNCHANGED <<outside, db, memory>>

(* The first query: PairCreated events of the factory.                     *)
FetchFactoryLogs ==
  /\ pc = "start"
  /\ ~NothingLeft
  /\ LET last == StartBlock + batchSize - 1
         end == IF last > safe THEN safe ELSE last
     IN  /\ to' = end
         /\ logs' = {l \in Logs(StartBlock, end) : l.kind = "PairCreated"}
  /\ pc' = "pairlogs"
  /\ UNCHANGED <<outside, db, memory, safe, ancestor>>

(* Addresses of the second query, and without the pairs of this range.     *)
KnownAddresses == DOMAIN knownPairs
PairAddresses == DOMAIN knownPairs \cup {l.pair : l \in logs}

FetchPairLogs ==
  /\ pc = "pairlogs"
  /\ logs' = logs \cup {l \in Logs(StartBlock, to) : l.kind # "PairCreated" /\ l.pair \in PairAddresses}
  /\ pc' = "blocks"
  /\ UNCHANGED <<outside, db, memory, safe, ancestor, to>>

(* The node refuses the range: halve the batch, unless it is down to one   *)
(* block, and wait for the next tick.                                      *)
Halved(n) == n \div 2
NextBatchSize(n) == IF n > 1 THEN n \div 2 ELSE n

RangeTooLarge ==
  /\ "range" \in faults
  /\ \/ pc = "start" /\ ~NothingLeft
     \/ pc = "pairlogs"
  /\ batchSize' = NextBatchSize(batchSize)
  /\ pc' = "idle"
  /\ Reset
  /\ UNCHANGED <<outside, db, knownPairs>>

(* The pairs with a Sync among these logs, and the reserves their last one *)
(* leaves; or their first one.                                             *)
SyncsOf(p, ls) == {l \in ls : l.kind = "Sync" /\ l.pair = p}
SyncedPairs(ls) == {l.pair : l \in {x \in ls : x.kind = "Sync"}}
ReserveSetBy(l) == [origin |-> l.origin, index |-> l.index]
FirstSync(ls) ==
  [p \in SyncedPairs(ls) |->
     ReserveSetBy(CHOOSE l \in SyncsOf(p, ls) : \A m \in SyncsOf(p, ls) : l.index <= m.index)]
LastSync(ls) ==
  [p \in SyncedPairs(ls) |->
     ReserveSetBy(CHOOSE l \in SyncsOf(p, ls) : \A m \in SyncsOf(p, ls) : m.index <= l.index)]

Created(ls) == {l.pair : l \in {x \in ls : x.kind = "PairCreated"}}

(* knownPairs once applyLog has seen these logs.                           *)
Remembered(ls) ==
  LET reserve == LastSync(ls)
  IN  [p \in DOMAIN knownPairs \cup Created(ls) |->
         IF p \in DOMAIN reserve THEN reserve[p]
         ELSE IF p \in Created(ls) THEN Zero ELSE knownPairs[p]]

(* The rows applyLog inserts for block n.  A Swap of a pair that is not    *)
(* known is not canonical and is skipped.                                  *)
EventRows(n, ls) ==
  {P!Row(l, n, HeaderHash(n)) :
     l \in {x \in ls : \/ x.kind \in {"Mint", "Burn"}
                       \/ x.kind = "Swap" /\ x.pair \in DOMAIN Remembered(ls)}}

(* snapshotPairs: the reserves to store for each pair that had a Sync.     *)
Closes(ls) ==
  [p \in SyncedPairs(ls) \cap DOMAIN Remembered(ls) |-> Remembered(ls)[p]]

(* The transaction of block n: block row, pairs and reserves, event rows,  *)
(* snapshots, cursor.                                                      *)
Committed(n, ls) ==
  LET withBlock == InsertBlock(db, n, HeaderHash(n))
      withPairs == WritePairs(withBlock, n, Created(ls), LastSync(ls))
      withRows == InsertRows(withPairs, EventRows(n, ls))
  IN  SetIndexerState(UpsertSnapshots(withRows, n, Closes(ls)), n, HeaderHash(n))

FirstBlock == CHOOSE n \in {l.block : l \in logs} : \A l \in logs : n <= l.block
OfBlock(n) == {l \in logs : l.block = n}

ProcessBlock ==
  /\ pc = "blocks"
  /\ logs # {}
  /\ LET n == FirstBlock
         ls == OfBlock(n)
     IN  /\ ForeignKeys(Committed(n, ls))
         /\ db' = Committed(n, ls)
         /\ knownPairs' = Remembered(ls)
         /\ logs' = logs \ ls
  /\ UNCHANGED <<outside, batchSize, pc, safe, ancestor, to>>

(* The transaction fails at some log: what it wrote is rolled back, what   *)
(* it remembered is not.  A commit whose answer is lost is ProcessBlock    *)
(* followed by RequestFails.                                               *)
ProcessBlockFails ==
  /\ pc = "blocks"
  /\ logs # {}
  /\ LET n == FirstBlock
         ls == OfBlock(n)
     IN  /\ "tx" \in faults \/ ~ForeignKeys(Committed(n, ls))
         /\ \E k \in {0} \cup {l.index : l \in ls} :
              knownPairs' = Remembered({l \in ls : l.index <= k})
  /\ pc' = "idle"
  /\ Reset
  /\ UNCHANGED <<outside, db, batchSize>>

FinishRange ==
  /\ pc = "blocks"
  /\ logs = {}
  /\ db' = SetIndexerState(db, to, HeaderHash(to))
  /\ pc' = "idle"
  /\ Reset
  /\ UNCHANGED <<outside, memory>>

-----------------------------------------------------------------------------
(* A request to the node or the database fails for good: the tick ends.    *)
RequestFails ==
  /\ "rpc" \in faults
  /\ pc \notin {"down", "idle", "reload"}
  /\ pc' = "idle"
  /\ Reset
  /\ UNCHANGED <<outside, db, memory>>

(* The process dies; the supervisor starts it again.                       *)
Crash ==
  /\ "crash" \in faults
  /\ pc # "down"
  /\ pc' = "down"
  /\ knownPairs' = <<>>
  /\ batchSize' = BlockBatchSize
  /\ Reset
  /\ UNCHANGED <<outside, db>>

Fault ==
  \/ RollbackUnacknowledged \/ ReloadFails \/ RangeTooLarge \/ ProcessBlockFails
  \/ RequestFails \/ Crash

Step ==
  \/ Preflight \/ TickStart \/ CheckReorg \/ WalkBack \/ Rollback \/ Reload
  \/ CaughtUp \/ FetchFactoryLogs \/ FetchPairLogs \/ ProcessBlock \/ FinishRange

ChainMoves ==
  /\ \/ \E events \in Contents : Mine(events)
     \/ /\ QuietTicks => pc \in {"down", "idle"}
        /\ \E n \in Settled .. BlockNumber - 1 : Reorg(n)
  /\ UNCHANGED <<faults, db, memory, pc, locals>>

(* The node, the database and the process fail no more.                    *)
FaultsCease ==
  /\ faults # {}
  /\ faults' = {}
  /\ UNCHANGED <<chain, fork, db, memory, pc, locals>>

Next == Step \/ Fault \/ ChainMoves \/ FaultsCease

Spec == Init /\ [][Next]_vars

-----------------------------------------------------------------------------
Canonical == P!OnChain
Position == IF db.cursor = NoCursor THEN 0 ELSE db.cursor.number

(* No event row is lost, duplicated or left over: while the committed      *)
(* cursor is on the canonical chain, the tables are exactly what replaying *)
(* the chain up to it gives, whatever was retried, restarted or rolled     *)
(* back before.                                                            *)
RowsFollowChain == Canonical => db.rows = P!RowsUpTo(Position)

(* No event row is left over from blocks that are gone, and none is there  *)
(* twice or with another block's data: short of losing some, the tables    *)
(* agree with the chain even when the pairs could not be read back after a *)
(* rollback.                                                               *)
NoStaleRows == Canonical => db.rows \subseteq P!RowsUpTo(Position)

(* And so are the pairs, each with the reserves of its last Sync.          *)
SyncsUpTo(p, n) == SyncsOf(p, Logs(1, n))
LastReserve(syncs) ==
  IF syncs = {} THEN Zero
  ELSE ReserveSetBy(CHOOSE l \in syncs : \A m \in syncs :
                      m.block < l.block \/ (m.block = l.block /\ m.index <= l.index))

ReservesFollowSync ==
  Canonical =>
    StoredPairs = [p \in Created(Logs(1, Position)) |-> LastReserve(SyncsUpTo(p, Position))]

(* And so are the snapshots: every bucket in which a pair had a Sync has   *)
(* the reserves it closed with.                                            *)
SnapshotsAreCloses ==
  Canonical =>
    db.snapshots =
      {[pair |-> l.pair, bucket |-> FloorBucket(l.block),
        reserve |-> LastReserve({m \in SyncsUpTo(l.pair, Position) :
                                   FloorBucket(m.block) = FloorBucket(l.block)})] :
         l \in {x \in Logs(1, Position) : x.kind = "Sync"}}

(* Between ticks the process knows every pair it has stored, so that the   *)
(* next range asks for the events of all of them.                          *)
NoPairForgotten == pc = "idle" => DOMAIN db.pairs \subseteq DOMAIN knownPairs

(* What is kept of the pairs beside their events follows the chain as well,*)
(* however many Syncs a block, a bucket or a retried range holds.          *)
PairStateFollowsChain == ReservesFollowSync /\ SnapshotsAreCloses /\ NoPairForgotten

(* After a rollback the pairs may lag until the lost blocks are replayed:  *)
(* Sync is authoritative.  Once the replay has reached the settled head    *)
(* again, their reserves are what a rebuild would give.                    *)
Replayed == pc = "idle" /\ Position = SafeBlock(BlockNumber)
ReplayRestoresReserves == Replayed => ReservesFollowSync

(* A rollback undoes no more than it has to: no step ever deletes the row  *)
(* of an event that is still in the canonical chain.                       *)
CanonicalRowsKept == [][(db.rows \ db'.rows) \cap P!RowsUpTo(BlockNumber) = {}]_vars

(* The event tables implement the projection.                              *)
ImplementsProjection == P!PSpec
=============================================================================
