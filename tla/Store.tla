------------------------------- MODULE Store --------------------------------
(***************************************************************************)
(* The database of packages/gointernal/database/store.go, as operators on  *)
(* its tables.  A transaction is a composition of them: it commits whole   *)
(* or not at all (InBlockTx), so no state in between is ever seen.         *)
(*                                                                         *)
(*   cursor     indexer_state: the last processed block, or NoCursor       *)
(*   blocks     number and hash of each block that held an event           *)
(*   pairs      per pair: created_block, reserves, last_sync_block         *)
(*   rows       swaps and liquidity_events, keyed by (tx_hash, log_index)  *)
(*   snapshots  pair_snapshots, keyed by pair and time bucket              *)
(***************************************************************************)
EXTENDS Integers, FiniteSets, Functions

CONSTANTS
  BucketSize,          \* blocks whose times share a snapshot bucket
  NoCursor             \* a fresh database

ASSUME StoreAssumption == BucketSize \in Nat \ {0}

Zero == [origin |-> <<0, 0>>, index |-> 0]   \* the reserves of a new pair
Never == 0             \* last_sync_block IS NULL: block numbers start at 1

EmptyDatabase ==
  [cursor |-> NoCursor, blocks |-> {}, pairs |-> <<>>, rows |-> {}, snapshots |-> {}]

FloorBucket(time) == time - (time % BucketSize)

InsertBlock(db, number, hash) ==
  [db EXCEPT !.blocks = {b \in @ : b.number # number} \cup {[number |-> number, hash |-> hash]}]

(* ON CONFLICT (tx_hash, log_index) DO NOTHING                             *)
InsertRows(db, rows) ==
  [db EXCEPT !.rows = @ \cup {r \in rows : \A s \in @ : ~(s.tx = r.tx /\ s.index = r.index)}]

(* The guard that keeps an out-of-order write from moving reserves back.   *)
InOrder(lastSync, block) == lastSync = Never \/ lastSync <= block

(* UpsertPair of the pairs created in a block, then SetPairReserves with   *)
(* what its Syncs leave; reserve maps the pairs that had one.              *)
WritePairs(db, block, created, reserve) ==
  LET row(p) == IF p \in DOMAIN db.pairs THEN db.pairs[p]
                ELSE [created |-> block, reserve |-> Zero, lastSync |-> Never]
      synced(p) == p \in DOMAIN reserve /\ InOrder(row(p).lastSync, block)
  IN  [db EXCEPT !.pairs =
         [p \in DOMAIN db.pairs \cup created |->
            [created |-> row(p).created,
             reserve |-> IF synced(p) THEN reserve[p] ELSE row(p).reserve,
             lastSync |-> IF synced(p) THEN block ELSE row(p).lastSync]]]

(* UpsertPairSnapshot: the last write in the bucket wins.                  *)
UpsertSnapshots(db, block, reserve) ==
  LET bucket == FloorBucket(block)
      new == {[pair |-> p, bucket |-> bucket, reserve |-> reserve[p]] : p \in DOMAIN reserve}
  IN  [db EXCEPT !.snapshots =
         {s \in @ : ~(s.pair \in DOMAIN reserve /\ s.bucket = bucket)} \cup new]

(* The stored block hash, if the block held an event.                      *)
BlockStored(db, number, hash) == [number |-> number, hash |-> hash] \in db.blocks

(* RollbackFrom(block): delete every row at or above a block, and every    *)
(* snapshot bucket from the first deleted block's on; the same from one    *)
(* block too late, or one too early.                                       *)
DeletedFrom(db, block) ==
  LET cutoff == {b.number : b \in {x \in db.blocks : x.number >= block}}
      gone(s) == \E n \in cutoff : s.bucket >= FloorBucket(n)
      left == {p \in DOMAIN db.pairs : db.pairs[p].created < block}
  IN  [db EXCEPT !.snapshots = {s \in @ : ~gone(s) /\ s.pair \in left},
                 !.rows = {r \in @ : r.number < block /\ r.pair \in left},
                 !.pairs = Restrict(@, left),
                 !.blocks = {b \in @ : b.number < block}]
DeletedAfter(db, block) == DeletedFrom(db, block + 1)
DeletedBefore(db, block) == DeletedFrom(db, block - 1)
RollbackFrom(db, block) == DeletedFrom(db, block)

SetIndexerState(db, number, hash) ==
  [db EXCEPT !.cursor = [number |-> number, hash |-> hash]]

(* Rows and snapshots reference a pair; a commit that breaks this fails.   *)
ForeignKeys(db) ==
  /\ \A r \in db.rows : r.pair \in DOMAIN db.pairs
  /\ \A s \in db.snapshots : s.pair \in DOMAIN db.pairs
=============================================================================
