--------------------------- MODULE IndexerProofs ----------------------------
EXTENDS Indexer, SequenceTheorems, WellFoundedInduction, NaturalsInduction, TLAPS

(***************************************************************************)
(* What the indexer keeps true for every chain, every fault and every      *)
(* order of the two.  The argument: the blocks the database vouches for    *)
(* are those it stores a hash of, its cursor, and the block of the         *)
(* factory.  As long as one of them is on the chain, everything stored up  *)
(* to its height is what the chain holds up to that height (MarksInv).     *)
(* The walk back passes no stored block that is on the chain (WalkInv), so *)
(* the height it rolls back to is such a mark, and nothing is kept above.  *)
(* The logs a tick holds are those of blocks that stay (TickInv, LogsInv), *)
(* so a processed block becomes a mark for which the same is true.         *)
(***************************************************************************)

(* The regime of the theorems: either the chain reorganises only between   *)
(* ticks, or never deeper than the confirmations.                          *)
Regime == QuietTicks \/ ReorgDepth <= Confirmations

(* Complete: the pairs can be read back after every rollback, or there is  *)
(* never one.                                                              *)
Complete == "reload" \notin Faults \/ ReorgDepth <= Confirmations

(***************************************************************************)
(* The chain: each height has a hash of that height, the block of the      *)
(* factory is never replaced, and nothing happens before it.               *)
(***************************************************************************)
BlockType == [hash : Hash, events : Seq(Events)]

ChainInv ==
  /\ fork \in 0 .. MaxForks
  /\ chain \in Seq(BlockType)
  /\ BlockNumber \in FactoryDeployBlock .. MaxHeight
  /\ \A n \in 1 .. BlockNumber : \E f \in 0 .. fork : HeaderHash(n) = <<n, f>>
  /\ HeaderHash(FactoryDeployBlock) = <<FactoryDeployBlock, 0>>
  /\ \A n \in 1 .. FactoryDeployBlock - 1 : chain[n].events = <<>>
  /\ Executable(chain)

(***************************************************************************)
(* The blocks the database vouches for: those with a stored hash, the      *)
(* cursor, and the block of the factory, at which the walk back stops.     *)
(***************************************************************************)
FactoryMark == [number |-> FactoryDeployBlock, hash |-> <<FactoryDeployBlock, 0>>]
Marks == IF db.cursor = NoCursor THEN {} ELSE db.blocks \cup {db.cursor, FactoryMark}
IsCanonical(m) == HeaderHash(m.number) = m.hash

IsDatabase(d) ==
  d = [cursor |-> d.cursor, blocks |-> d.blocks, pairs |-> d.pairs,
       rows |-> d.rows, snapshots |-> d.snapshots]

DatabaseInv ==
  /\ IsDatabase(db)
  /\ db.cursor = NoCursor => db.blocks = {} /\ db.rows = {} /\ DOMAIN db.pairs = {}
  /\ db.cursor # NoCursor =>
       db.cursor \in [number : FactoryDeployBlock .. SafeBlock(BlockNumber), hash : Hash]
  /\ \A m \in Marks :
       /\ m \in [number : FactoryDeployBlock .. Position, hash : Hash]
       /\ \E f \in 0 .. fork : m.hash = <<m.number, f>>
       /\ m.number = FactoryDeployBlock => m = FactoryMark
  /\ \A a, b \in db.blocks : a.number = b.number => a = b
  /\ \A r \in db.rows : [number |-> r.number, hash |-> r.hash] \in db.blocks
  /\ \A p \in DOMAIN db.pairs : db.pairs[p].created \in FactoryDeployBlock .. Position

(* The variables of a tick.                                                *)
InRange == pc \in {"pairlogs", "blocks"}
LocalsInv ==
  /\ faults \in {Faults, {}}
  /\ batchSize \in 1 .. BlockBatchSize
  /\ pc \in {"down", "idle", "check", "walk", "rollback", "reload", "start", "pairlogs", "blocks"}
  /\ safe \in 0 .. SafeBlock(BlockNumber)
  /\ ancestor \in 0 .. BlockNumber
  /\ to \in 0 .. safe
  /\ InRange => to \in FactoryDeployBlock .. safe /\ StartBlock <= to + 1
  /\ ~InRange => logs = {}
  /\ \A l \in logs : l.block \in StartBlock .. to
  /\ pc \in {"walk", "rollback"} => db.cursor # NoCursor /\ ancestor \in FactoryDeployBlock .. Position

TypeInv == ChainInv /\ DatabaseInv /\ LocalsInv

(***************************************************************************)
(* What is stored of the blocks up to height k is what the chain holds:    *)
(* no other row, no row too few, and the same pairs.                       *)
(***************************************************************************)
Recorded == {"Swap", "Mint", "Burn"}
RowsTo(k) == {r \in db.rows : r.number <= k}
PairsTo(k) == {p \in DOMAIN db.pairs : db.pairs[p].created <= k}
Agrees(k) ==
  /\ RowsTo(k) \subseteq P!RowsUpTo(k)
  /\ Complete => RowsTo(k) = P!RowsUpTo(k)
  /\ PairsTo(k) = Created(Logs(1, k))

MarksInv ==
  /\ \A m \in Marks : IsCanonical(m) => Agrees(m.number)
  /\ \A b \in db.blocks : b.number = Position => b = db.cursor

(* The walk back has passed no stored block that is still there.           *)
Passed(k) == \A n \in k .. Position : ~StillCanonical(n)
WalkInv ==
  /\ pc \in {"walk", "rollback"} => ~Canonical
  /\ pc = "walk" => Passed(ancestor)
  /\ pc = "rollback" =>
       /\ Passed(ancestor + 1)
       /\ ancestor < Position
       /\ ancestor = FactoryDeployBlock \/ StillCanonical(ancestor)

TickInv ==
  /\ pc \in {"reload", "start", "pairlogs", "blocks"} => Canonical
  /\ ReorgDepth <= Confirmations => Canonical /\ pc # "reload"

NewPairs == {l \in Logs(StartBlock, to) : l.kind = "PairCreated"}
LogsInv ==
  /\ pc = "pairlogs" => logs = NewPairs
  /\ pc = "blocks" =>
       /\ NewPairs \subseteq logs /\ logs \subseteq Logs(StartBlock, to)
       /\ Complete => logs = Logs(StartBlock, to)

KnownInv == Complete /\ pc # "down" => DOMAIN db.pairs \subseteq DOMAIN knownPairs

FollowInv == MarksInv /\ WalkInv /\ TickInv /\ LogsInv /\ KnownInv

-----------------------------------------------------------------------------
(* Events, ranges of them, and the rows they stand for.                    *)

LEMMA EventOfBlock ==
  ASSUME NEW c, NEW n, NEW e \in EventsIn(c, n)
  PROVE  e.block = n /\ e.origin = c[n].hash
  BY DEF EventsIn

LEMMA LogsMember ==
  \A i, j, e : e \in Logs(i, j) <=> e.block \in i .. j /\ e \in EventsIn(chain, e.block)
  BY EventOfBlock DEF Logs

LEMMA LogsSplit ==
  ASSUME NEW i \in Int, NEW j \in Int, NEW k \in Int, i <= j + 1, j <= k
  PROVE  /\ Logs(i, k) = Logs(i, j) \cup Logs(j + 1, k)
         /\ Logs(i, j) = {e \in Logs(i, k) : e.block <= j}
  BY LogsMember

(* A block that is still there still holds the same events.                *)
LEMMA SameBlocksSameLogs ==
  ASSUME NEW i \in Int, NEW j \in Int, \A n \in i .. j : chain'[n] = chain[n]
  PROVE  Logs(i, j)' = Logs(i, j)
  BY DEF Logs, EventsIn

LEMMA ChainHashes ==
  ASSUME ChainInv, NEW n \in 1 .. BlockNumber
  PROVE  /\ HeaderHash(n) \in Hash
         /\ chain[n].events \in Seq(Events)
<1>1. chain \in Seq(BlockType) /\ n \in 1 .. Len(chain)
  BY DEF ChainInv, BlockNumber
<1>2. chain[n] \in BlockType
  BY <1>1, ElementOfSeq
<1> QED
  BY <1>2 DEF BlockType, HeaderHash

LEMMA EventIndex ==
  ASSUME ChainInv, NEW k \in 0 .. BlockNumber, NEW e \in Logs(1, k)
  PROVE  e.index \in Nat /\ e.block \in 1 .. k
<1>1. e.block \in 1 .. k /\ e \in EventsIn(chain, e.block)
  BY LogsMember
<1>2. BlockNumber \in Nat
  BY DEF ChainInv, BlockNumber
<1>3. chain[e.block].events \in Seq(Events)
  BY <1>1, <1>2, ChainHashes
<1> QED
  BY <1>1, <1>3 DEF EventsIn

LEMMA ExecutableFacts ==
  ASSUME ChainInv, NEW k \in 0 .. BlockNumber, NEW e \in Logs(1, k)
  PROVE  /\ \A d \in Logs(1, BlockNumber) : d.tx = e.tx => d.block = e.block
         /\ \E d \in Logs(1, k) : d.kind = "PairCreated" /\ d.pair = e.pair
         /\ \A d \in Logs(1, BlockNumber) :
              d.kind = "PairCreated" /\ d.pair = e.pair => d = e \/ Before(d, e)
<1> DEFINE all == UNION {EventsIn(chain, n) : n \in DOMAIN chain}
<1>1. BlockNumber \in Nat /\ DOMAIN chain = 1 .. BlockNumber
  BY DEF ChainInv, BlockNumber
<1>2. all = Logs(1, BlockNumber)
  BY <1>1 DEF Logs
<1>3. e \in all
  BY <1>1, <1>2, LogsSplit
<1>4. /\ \A d \in all : d.tx = e.tx => d.block = e.block
      /\ \E d \in all : d.kind = "PairCreated" /\ d.pair = e.pair
      /\ \A d \in all : d.kind = "PairCreated" /\ d.pair = e.pair => d = e \/ Before(d, e)
  <2> HIDE DEF all
  <2> QED
    BY <1>3 DEF ChainInv, Executable, all
<1>5. PICK d \in all : d.kind = "PairCreated" /\ d.pair = e.pair
  BY <1>4
<1>6. d.block <= e.block
  <2>1. d = e \/ Before(d, e)
    BY <1>4, <1>5
  <2>2. d.block \in Nat /\ e.block \in Nat
    BY <1>1, <1>2, <1>3, EventIndex
  <2> QED
    BY <2>1, <2>2 DEF Before
<1>7. d \in Logs(1, k)
  <2>1. d.block \in 1 .. BlockNumber /\ d \in EventsIn(chain, d.block)
    BY <1>2, <1>5, LogsMember
  <2>2. e.block \in 1 .. k
    BY LogsMember
  <2>3. d.block \in 1 .. k
    BY <1>1, <1>6, <2>1, <2>2
  <2> QED
    BY <2>1, <2>3, LogsMember
<1> QED
  BY <1>2, <1>4, <1>5, <1>7

-----------------------------------------------------------------------------
(* What the chain may do.                                                  *)

MovesAbove(n) ==
  /\ n \in FactoryDeployBlock .. BlockNumber
  /\ BlockNumber' \in BlockNumber .. MaxHeight
  /\ fork' \in fork .. MaxForks
  /\ \A h \in 1 .. n : chain'[h] = chain[h]
  /\ \A h \in n + 1 .. BlockNumber : HeaderHash(h)' = <<h, fork + 1>>

LEMMA SafeBlockFacts ==
  /\ \A h \in Nat : SafeBlock(h) \in 0 .. h
  /\ \A g, h \in Nat : g <= h => SafeBlock(g) <= SafeBlock(h)
  BY IndexerAssumption DEF SafeBlock

LEMMA BlockIsTyped ==
  ASSUME NEW h \in 1 .. MaxHeight, NEW f \in 0 .. MaxForks, NEW events \in Seq(Events)
  PROVE  Block(h, f, events) \in BlockType
  BY DEF Block, BlockType, Hash

LEMMA ChainInitInv == ChainInit => ChainInv
<1> SUFFICES ASSUME ChainInit PROVE ChainInv
  OBVIOUS
<1> DEFINE D == FactoryDeployBlock
<1>1. D \in Nat /\ D >= 1 /\ D <= MaxHeight /\ MaxForks \in Nat /\ MaxHeight \in Nat
  BY ChainAssumption
<1>2. PICK events \in DeployContents :
        chain = [n \in 1 .. D |-> Block(n, 0, IF n = D THEN events ELSE <<>>)]
  BY DEF ChainInit
<1>3. events \in Seq(Events) /\ <<>> \in Seq(Events)
  BY ChainAssumption
<1> HIDE DEF D
<1>4. chain \in [1 .. D -> BlockType]
  <2>1. \A n \in 1 .. D : /\ n \in 1 .. MaxHeight /\ 0 \in 0 .. MaxForks
                        /\ (IF n = D THEN events ELSE <<>>) \in Seq(Events)
    BY <1>1, <1>3
  <2>2. \A n \in 1 .. D : Block(n, 0, IF n = D THEN events ELSE <<>>) \in BlockType
    BY <2>1, BlockIsTyped
  <2> HIDE DEF BlockType
  <2> QED
    BY <1>2, <2>2
<1>5. chain \in Seq(BlockType) /\ BlockNumber = D
  <2> HIDE DEF BlockType
  <2> QED
    BY <1>1, <1>4, SeqDef, LenProperties DEF BlockNumber
<1>6. \A n \in 1 .. D : HeaderHash(n) = <<n, 0>>
  BY <1>2 DEF Block, HeaderHash
<1>7. \A n \in 1 .. D - 1 : chain[n].events = <<>>
  BY <1>1, <1>2 DEF Block
<1> QED
  <2>1. fork = 0 /\ Executable(chain)
    BY DEF ChainInit
  <2>2. HeaderHash(D) = <<D, 0>> /\ \A n \in 1 .. BlockNumber : \E f \in 0 .. fork : HeaderHash(n) = <<n, f>>
    BY <1>1, <1>5, <1>6, <2>1
  <2>3. fork \in 0 .. MaxForks /\ BlockNumber \in D .. MaxHeight
    BY <1>1, <1>5, <2>1
  <2> QED
    BY <1>5, <1>7, <2>1, <2>2, <2>3 DEF ChainInv, D

LEMMA MineMoves ==
  ASSUME ChainInv, NEW events \in Contents, Mine(events)
  PROVE  ChainInv' /\ MovesAbove(BlockNumber)
<1>1. /\ BlockNumber \in Nat /\ BlockNumber < MaxHeight /\ MaxHeight \in Nat /\ MaxForks \in Nat
      /\ FactoryDeployBlock \in 1 .. MaxHeight /\ BlockNumber >= FactoryDeployBlock
      /\ fork \in 0 .. MaxForks /\ fork' = fork
      /\ chain \in Seq(BlockType) /\ BlockNumber = Len(chain)
      /\ Executable(chain')
  BY ChainAssumption DEF ChainInv, BlockNumber, Mine
<1> DEFINE new == Block(BlockNumber + 1, fork, events)
<1>2. new \in BlockType
  BY <1>1, ChainAssumption, BlockIsTyped
<1>3. new.hash = <<BlockNumber + 1, fork>>
  BY DEF Block
<1>4. chain' = Append(chain, new)
  BY DEF Mine
<1> HIDE DEF new, BlockType
<1>5. /\ chain' \in Seq(BlockType)
      /\ BlockNumber' = BlockNumber + 1
      /\ \A h \in 1 .. BlockNumber : chain'[h] = chain[h]
      /\ chain'[BlockNumber + 1] = new
  BY <1>1, <1>2, <1>4, AppendProperties DEF BlockNumber
<1>6. \A n \in 1 .. BlockNumber' : \E f \in 0 .. fork' : HeaderHash(n)' = <<n, f>>
  <2> SUFFICES ASSUME NEW n \in 1 .. BlockNumber + 1
               PROVE  \E f \in 0 .. fork : chain'[n].hash = <<n, f>>
    BY <1>1, <1>5 DEF HeaderHash
  <2>1. CASE n \in 1 .. BlockNumber
    BY <1>5, <2>1 DEF ChainInv, HeaderHash
  <2>2. CASE n = BlockNumber + 1
    BY <1>1, <1>3, <1>5, <2>2
  <2> QED
    BY <1>1, <2>1, <2>2
<1>7. /\ HeaderHash(FactoryDeployBlock)' = <<FactoryDeployBlock, 0>>
      /\ \A n \in 1 .. FactoryDeployBlock - 1 : chain'[n].events = <<>>
  BY <1>1, <1>5 DEF ChainInv, HeaderHash
<1>8. ChainInv'
  BY <1>1, <1>5, <1>6, <1>7 DEF ChainInv
<1>9. MovesAbove(BlockNumber)
  BY <1>1, <1>5 DEF MovesAbove
<1> QED
  BY <1>8, <1>9

LEMMA ReorgMoves ==
  ASSUME ChainInv, NEW n \in Settled .. BlockNumber - 1, Reorg(n)
  PROVE  ChainInv' /\ MovesAbove(n)
<1>1. /\ BlockNumber \in Nat /\ BlockNumber <= MaxHeight /\ MaxHeight \in Nat /\ MaxForks \in Nat
      /\ FactoryDeployBlock \in 1 .. MaxHeight /\ n >= FactoryDeployBlock
      /\ n \in Nat /\ n < BlockNumber
      /\ fork \in 0 .. MaxForks /\ fork' = fork + 1 /\ fork' <= MaxForks
      /\ chain \in Seq(BlockType) /\ BlockNumber = Len(chain)
      /\ Executable(chain')
  BY ChainAssumption, FactoryIsSettled DEF ChainInv, BlockNumber, Reorg
<1>2. PICK contents \in [n + 1 .. BlockNumber -> Contents] :
        chain' = [h \in 1 .. BlockNumber |->
                    IF h <= n THEN chain[h] ELSE Block(h, fork + 1, contents[h])]
  BY DEF Reorg
<1>3. \A h \in n + 1 .. BlockNumber : Block(h, fork + 1, contents[h]) \in BlockType
  <2> SUFFICES ASSUME NEW h \in n + 1 .. BlockNumber
               PROVE  Block(h, fork + 1, contents[h]) \in BlockType
    OBVIOUS
  <2>1. contents[h] \in Seq(Events)
    BY <1>2, ChainAssumption
  <2>2. h \in 1 .. MaxHeight /\ fork + 1 \in 0 .. MaxForks
    BY <1>1
  <2> QED
    BY <2>1, <2>2, BlockIsTyped
<1>4. \A h \in n + 1 .. BlockNumber : chain'[h].hash = <<h, fork + 1>>
  BY <1>1, <1>2 DEF Block
<1>5. \A h \in 1 .. n : chain'[h] = chain[h]
  BY <1>1, <1>2
<1>6. chain' \in [1 .. BlockNumber -> BlockType]
  <2>1. \A h \in 1 .. BlockNumber : chain[h] \in BlockType
    BY <1>1, ElementOfSeq
  <2> HIDE DEF BlockType
  <2> QED
    BY <1>1, <1>2, <1>3, <2>1
<1>7. chain' \in Seq(BlockType) /\ BlockNumber' = BlockNumber
  <2> HIDE DEF BlockType
  <2> QED
    BY <1>1, <1>6, SeqDef, LenProperties DEF BlockNumber
<1>8. \A h \in 1 .. BlockNumber' : \E f \in 0 .. fork' : HeaderHash(h)' = <<h, f>>
  <2> SUFFICES ASSUME NEW h \in 1 .. BlockNumber
               PROVE  \E f \in 0 .. fork + 1 : chain'[h].hash = <<h, f>>
    BY <1>1, <1>7 DEF HeaderHash
  <2>1. CASE h \in 1 .. n
    <3>1. \E f \in 0 .. fork : chain[h].hash = <<h, f>>
      BY DEF ChainInv, HeaderHash
    <3> QED
      BY <1>1, <1>5, <2>1, <3>1
  <2>2. CASE h \in n + 1 .. BlockNumber
    BY <1>1, <1>4, <2>2
  <2> QED
    BY <1>1, <2>1, <2>2
<1>9. /\ HeaderHash(FactoryDeployBlock)' = <<FactoryDeployBlock, 0>>
      /\ \A h \in 1 .. FactoryDeployBlock - 1 : chain'[h].events = <<>>
  BY <1>1, <1>5 DEF ChainInv, HeaderHash
<1>10. ChainInv'
  BY <1>1, <1>7, <1>8, <1>9 DEF ChainInv
<1>11. MovesAbove(n)
  <2>1. n \in FactoryDeployBlock .. BlockNumber /\ BlockNumber' \in BlockNumber .. MaxHeight
    BY <1>1, <1>7
  <2>2. fork' \in fork .. MaxForks
    BY <1>1
  <2>3. \A h \in n + 1 .. BlockNumber : HeaderHash(h)' = <<h, fork + 1>>
    BY <1>4 DEF HeaderHash
  <2> QED
    BY <1>5, <2>1, <2>2, <2>3 DEF MovesAbove
<1> QED
  BY <1>10, <1>11

(* Whatever the chain does, it keeps its settled blocks; and in the regime *)
(* of the theorems it keeps what the tick that runs has called safe.       *)
LEMMA ChainMovesAbove ==
  ASSUME ChainInv, ChainMoves
  PROVE  /\ ChainInv'
         /\ \E n \in Nat :
              /\ MovesAbove(n)
              /\ Regime /\ (ReorgDepth <= Confirmations \/ pc \notin {"down", "idle"})
                   => SafeBlock(BlockNumber) <= n
<1>1. BlockNumber \in Nat
  BY DEF ChainInv, BlockNumber
<1>2. CASE \E events \in Contents : Mine(events)
  BY <1>1, <1>2, MineMoves, SafeBlockFacts
<1>3. CASE /\ QuietTicks => pc \in {"down", "idle"}
           /\ \E n \in Settled .. BlockNumber - 1 : Reorg(n)
  <2>1. PICK n \in Settled .. BlockNumber - 1 : Reorg(n)
    BY <1>3
  <2>2. n \in Nat
    BY <1>1, ChainAssumption
  <2>3. Regime /\ (ReorgDepth <= Confirmations \/ pc \notin {"down", "idle"})
          => SafeBlock(BlockNumber) <= n
    <3>1. CASE ReorgDepth <= Confirmations
      <4>1. BlockNumber - n <= ReorgDepth
        BY <2>1 DEF Reorg
      <4> QED
        BY <1>1, <2>2, <3>1, <4>1, ChainAssumption, IndexerAssumption DEF SafeBlock
    <3>2. CASE ~(ReorgDepth <= Confirmations)
      BY <1>3, <3>2 DEF Regime
    <3> QED
      BY <3>1, <3>2
  <2> QED
    BY <2>1, <2>2, <2>3, ReorgMoves
<1> QED
  BY <1>2, <1>3 DEF ChainMoves

-----------------------------------------------------------------------------
(* What the transactions of Store leave in each table.                     *)

LEMMA UpdatedRows ==
  ASSUME NEW d, IsDatabase(d), NEW v
  PROVE  [d EXCEPT !.rows = v] = [cursor |-> d.cursor, blocks |-> d.blocks, pairs |-> d.pairs,
                                  rows |-> v, snapshots |-> d.snapshots]
  BY DEF IsDatabase

LEMMA UpdatedSnapshots ==
  ASSUME NEW d, IsDatabase(d), NEW v
  PROVE  [d EXCEPT !.snapshots = v] = [cursor |-> d.cursor, blocks |-> d.blocks, pairs |-> d.pairs,
                                       rows |-> d.rows, snapshots |-> v]
  BY DEF IsDatabase

LEMMA RolledBack ==
  ASSUME NEW d, IsDatabase(d), NEW v, NEW w, NEW x, NEW y
  PROVE  [d EXCEPT !.snapshots = v, !.rows = w, !.pairs = x, !.blocks = y]
           = [cursor |-> d.cursor, blocks |-> y, pairs |-> x, rows |-> w, snapshots |-> v]
<1> DEFINE e == [d EXCEPT !.snapshots = v, !.rows = w, !.pairs = x, !.blocks = y]
<1>1. DOMAIN d = {"cursor", "blocks", "pairs", "rows", "snapshots"}
  BY DEF IsDatabase
<1>2. e = [f \in DOMAIN d |-> CASE f = "snapshots" -> v [] f = "rows" -> w [] f = "pairs" -> x
                              [] f = "blocks" -> y [] OTHER -> d[f]]
  OBVIOUS
<1>3. /\ e.snapshots = v /\ e.rows = w /\ e.pairs = x /\ e.blocks = y /\ e.cursor = d.cursor
      /\ e = [f \in DOMAIN d |-> e[f]]
  BY <1>1, <1>2
<1> HIDE DEF e
<1>4. e = [cursor |-> d.cursor, blocks |-> y, pairs |-> x, rows |-> w, snapshots |-> v]
  BY <1>1, <1>3
<1> QED
  BY <1>4 DEF e

LEMMA SetIndexerStateFields ==
  ASSUME NEW d, IsDatabase(d), NEW n, NEW h
  PROVE  LET e == SetIndexerState(d, n, h)
         IN  /\ IsDatabase(e)
             /\ e.cursor = [number |-> n, hash |-> h]
             /\ e.blocks = d.blocks /\ e.pairs = d.pairs /\ e.rows = d.rows
             /\ e.snapshots = d.snapshots
  BY DEF IsDatabase, SetIndexerState

LEMMA RollbackFields ==
  ASSUME NEW d, IsDatabase(d), NEW k, NEW h
  PROVE  LET e == SetIndexerState(RollbackFrom(d, k + 1), k, h)
             left == {p \in DOMAIN d.pairs : d.pairs[p].created < k + 1}
         IN  /\ IsDatabase(e)
             /\ e.cursor = [number |-> k, hash |-> h]
             /\ e.blocks = {b \in d.blocks : b.number < k + 1}
             /\ e.rows = {r \in d.rows : r.number < k + 1 /\ r.pair \in left}
             /\ DOMAIN e.pairs = left
             /\ \A p \in left : e.pairs[p] = d.pairs[p]
<1> DEFINE e == RollbackFrom(d, k + 1)
           left == {p \in DOMAIN d.pairs : d.pairs[p].created < k + 1}
<1>1. /\ IsDatabase(e)
      /\ e.blocks = {b \in d.blocks : b.number < k + 1}
      /\ e.rows = {r \in d.rows : r.number < k + 1 /\ r.pair \in left}
      /\ e.pairs = Restrict(d.pairs, left)
  <2> DEFINE cutoff == {b.number : b \in {x \in d.blocks : x.number >= k + 1}}
             gone(s) == \E n \in cutoff : s.bucket >= FloorBucket(n)
             snapshots == {s \in d.snapshots : ~gone(s) /\ s.pair \in left}
             rows == {r \in d.rows : r.number < k + 1 /\ r.pair \in left}
             pairs == Restrict(d.pairs, left)
             blocks == {b \in d.blocks : b.number < k + 1}
  <2>1. e = [d EXCEPT !.snapshots = snapshots, !.rows = rows, !.pairs = pairs, !.blocks = blocks]
    BY DEF RollbackFrom, DeletedFrom
  <2> HIDE DEF snapshots, rows, pairs, blocks, e
  <2>2. e = [cursor |-> d.cursor, blocks |-> blocks, pairs |-> pairs, rows |-> rows, snapshots |-> snapshots]
    BY <2>1, RolledBack
  <2>3. IsDatabase(e) /\ e.blocks = blocks /\ e.rows = rows /\ e.pairs = pairs
    BY <2>2 DEF IsDatabase
  <2> QED
    BY <2>3 DEF blocks, rows, pairs
<1>2. DOMAIN e.pairs = left /\ \A p \in left : e.pairs[p] = d.pairs[p]
  BY <1>1 DEF Restrict
<1> HIDE DEF e
<1> QED
  BY <1>1, <1>2, SetIndexerStateFields DEF e

LEMMA CommittedFields ==
  ASSUME IsDatabase(db), NEW n, NEW ls
  PROVE  LET e == Committed(n, ls)
         IN  /\ IsDatabase(e)
             /\ e.cursor = [number |-> n, hash |-> HeaderHash(n)]
             /\ e.blocks = {b \in db.blocks : b.number # n} \cup {[number |-> n, hash |-> HeaderHash(n)]}
             /\ e.rows = db.rows \cup {r \in EventRows(n, ls) :
                                         \A s \in db.rows : ~(s.tx = r.tx /\ s.index = r.index)}
             /\ e.pairs = WritePairs(db, n, Created(ls), LastSync(ls)).pairs
             /\ e.snapshots = UpsertSnapshots(db, n, Closes(ls)).snapshots
<1> DEFINE withBlock == InsertBlock(db, n, HeaderHash(n))
           withPairs == WritePairs(withBlock, n, Created(ls), LastSync(ls))
           withRows == InsertRows(withPairs, EventRows(n, ls))
           withSnapshots == UpsertSnapshots(withRows, n, Closes(ls))
<1>1. /\ IsDatabase(withBlock)
      /\ withBlock.blocks = {b \in db.blocks : b.number # n} \cup {[number |-> n, hash |-> HeaderHash(n)]}
      /\ withBlock.rows = db.rows /\ withBlock.pairs = db.pairs /\ withBlock.snapshots = db.snapshots
  BY DEF IsDatabase, InsertBlock
<1> HIDE DEF withBlock
<1>2. /\ IsDatabase(withPairs)
      /\ withPairs.pairs = WritePairs(db, n, Created(ls), LastSync(ls)).pairs
      /\ withPairs.blocks = withBlock.blocks /\ withPairs.rows = db.rows
      /\ withPairs.snapshots = db.snapshots
  BY <1>1 DEF IsDatabase, WritePairs
<1> HIDE DEF withPairs
<1>3. /\ IsDatabase(withRows)
      /\ withRows.rows = db.rows \cup {r \in EventRows(n, ls) :
                                         \A s \in db.rows : ~(s.tx = r.tx /\ s.index = r.index)}
      /\ withRows.blocks = withPairs.blocks /\ withRows.pairs = withPairs.pairs
      /\ withRows.snapshots = db.snapshots
  <2> DEFINE rows == db.rows \cup {r \in EventRows(n, ls) :
                                      \A s \in db.rows : ~(s.tx = r.tx /\ s.index = r.index)}
  <2>1. withRows = [withPairs EXCEPT !.rows = rows]
    BY <1>2 DEF InsertRows
  <2> HIDE DEF rows, withRows
  <2>2. withRows = [cursor |-> withPairs.cursor, blocks |-> withPairs.blocks, pairs |-> withPairs.pairs,
                    rows |-> rows, snapshots |-> withPairs.snapshots]
    BY <1>2, <2>1, UpdatedRows
  <2>3. IsDatabase(withRows) /\ withRows.rows = rows
    BY <2>2 DEF IsDatabase
  <2>4. withRows.blocks = withPairs.blocks /\ withRows.pairs = withPairs.pairs /\ withRows.snapshots = db.snapshots
    BY <1>2, <2>2
  <2> QED
    BY <2>3, <2>4 DEF rows
<1> HIDE DEF withRows
<1>4. /\ IsDatabase(withSnapshots)
      /\ withSnapshots.rows = withRows.rows /\ withSnapshots.pairs = withRows.pairs
      /\ withSnapshots.blocks = withRows.blocks
      /\ withSnapshots.snapshots = UpsertSnapshots(db, n, Closes(ls)).snapshots
  <2> DEFINE snapshots == UpsertSnapshots(db, n, Closes(ls)).snapshots
  <2>1. snapshots =
          {s \in db.snapshots : ~(s.pair \in DOMAIN Closes(ls) /\ s.bucket = FloorBucket(n))}
            \cup {[pair |-> p, bucket |-> FloorBucket(n), reserve |-> Closes(ls)[p]] : p \in DOMAIN Closes(ls)}
    <3> DEFINE new == {s \in db.snapshots : ~(s.pair \in DOMAIN Closes(ls) /\ s.bucket = FloorBucket(n))}
            \cup {[pair |-> p, bucket |-> FloorBucket(n), reserve |-> Closes(ls)[p]] : p \in DOMAIN Closes(ls)}
    <3>1. UpsertSnapshots(db, n, Closes(ls)) = [db EXCEPT !.snapshots = new]
      BY DEF UpsertSnapshots
    <3> HIDE DEF new
    <3>2. snapshots = new
      BY <3>1, UpdatedSnapshots
    <3> QED
      BY <3>2 DEF new
  <2>2. withSnapshots = [withRows EXCEPT !.snapshots = snapshots]
    BY <1>3, <2>1 DEF UpsertSnapshots
  <2> HIDE DEF snapshots, withSnapshots
  <2>3. withSnapshots = [cursor |-> withRows.cursor, blocks |-> withRows.blocks, pairs |-> withRows.pairs,
                         rows |-> withRows.rows, snapshots |-> snapshots]
    BY <1>3, <2>2, UpdatedSnapshots
  <2>4. IsDatabase(withSnapshots) /\ withSnapshots.snapshots = snapshots
    BY <2>3 DEF IsDatabase
  <2>5. /\ withSnapshots.rows = withRows.rows /\ withSnapshots.pairs = withRows.pairs
        /\ withSnapshots.blocks = withRows.blocks
    BY <2>3
  <2> QED
    BY <2>4, <2>5 DEF snapshots
<1> HIDE DEF withSnapshots
<1>5. Committed(n, ls) = SetIndexerState(withSnapshots, n, HeaderHash(n))
  BY DEF Committed, withSnapshots, withRows, withPairs, withBlock
<1> QED
  BY <1>1, <1>2, <1>3, <1>4, <1>5, SetIndexerStateFields

(* A pair keeps the block that created it.                                 *)
LEMMA WritePairsFields ==
  ASSUME IsDatabase(db), NEW n, NEW created, NEW reserve
  PROVE  LET pairs == WritePairs(db, n, created, reserve).pairs
         IN  /\ DOMAIN pairs = DOMAIN db.pairs \cup created
             /\ \A p \in DOMAIN pairs :
                  pairs[p].created = IF p \in DOMAIN db.pairs THEN db.pairs[p].created ELSE n
<1>1. WritePairs(db, n, created, reserve).pairs =
        LET row(p) == IF p \in DOMAIN db.pairs THEN db.pairs[p]
                      ELSE [created |-> n, reserve |-> Zero, lastSync |-> Never]
            synced(p) == p \in DOMAIN reserve /\ InOrder(row(p).lastSync, n)
        IN  [p \in DOMAIN db.pairs \cup created |->
               [created |-> row(p).created,
                reserve |-> IF synced(p) THEN reserve[p] ELSE row(p).reserve,
                lastSync |-> IF synced(p) THEN n ELSE row(p).lastSync]]
  BY DEF IsDatabase, WritePairs
<1> QED
  BY <1>1

(* A pair takes the reserves of the newest Sync.                           *)
LEMMA WrittenPair ==
  ASSUME IsDatabase(db), NEW n, NEW created, NEW reserve,
         NEW p \in DOMAIN WritePairs(db, n, created, reserve).pairs
  PROVE  LET written == WritePairs(db, n, created, reserve).pairs[p]
             old == IF p \in DOMAIN db.pairs THEN db.pairs[p]
                    ELSE [created |-> n, reserve |-> Zero, lastSync |-> Never]
             synced == p \in DOMAIN reserve /\ InOrder(old.lastSync, n)
         IN  /\ written.reserve = IF synced THEN reserve[p] ELSE old.reserve
             /\ written.lastSync = IF synced THEN n ELSE old.lastSync
<1>1. WritePairs(db, n, created, reserve).pairs =
        LET row(q) == IF q \in DOMAIN db.pairs THEN db.pairs[q]
                      ELSE [created |-> n, reserve |-> Zero, lastSync |-> Never]
            synced(q) == q \in DOMAIN reserve /\ InOrder(row(q).lastSync, n)
        IN  [q \in DOMAIN db.pairs \cup created |->
               [created |-> row(q).created,
                reserve |-> IF synced(q) THEN reserve[q] ELSE row(q).reserve,
                lastSync |-> IF synced(q) THEN n ELSE row(q).lastSync]]
  BY DEF IsDatabase, WritePairs
<1> QED
  BY <1>1

LEMMA UpsertedSnapshots ==
  ASSUME IsDatabase(db), NEW n, NEW reserve
  PROVE  UpsertSnapshots(db, n, reserve).snapshots =
           {s \in db.snapshots : ~(s.pair \in DOMAIN reserve /\ s.bucket = FloorBucket(n))}
             \cup {[pair |-> p, bucket |-> FloorBucket(n), reserve |-> reserve[p]] : p \in DOMAIN reserve}
<1> DEFINE new == {s \in db.snapshots : ~(s.pair \in DOMAIN reserve /\ s.bucket = FloorBucket(n))}
             \cup {[pair |-> p, bucket |-> FloorBucket(n), reserve |-> reserve[p]] : p \in DOMAIN reserve}
<1>1. UpsertSnapshots(db, n, reserve) = [db EXCEPT !.snapshots = new]
  BY DEF UpsertSnapshots
<1> HIDE DEF new
<1>2. UpsertSnapshots(db, n, reserve).snapshots = new
  BY <1>1, UpdatedSnapshots
<1> QED
  BY <1>2 DEF new

-----------------------------------------------------------------------------
(* Types.                                                                  *)

LEMMA Numbers ==
  ASSUME TypeInv
  PROVE  /\ BlockNumber \in Nat /\ fork \in Nat /\ FactoryDeployBlock \in Nat /\ FactoryDeployBlock > 0
         /\ SafeBlock(BlockNumber) \in Nat /\ SafeBlock(BlockNumber) <= BlockNumber
         /\ BlockNumber <= MaxHeight /\ MaxHeight \in Nat
         /\ safe \in Nat /\ to \in Nat /\ ancestor \in Nat
         /\ safe <= SafeBlock(BlockNumber) /\ to <= safe
         /\ Position \in Nat /\ Position <= SafeBlock(BlockNumber)
         /\ StartBlock \in Nat /\ FactoryDeployBlock <= StartBlock
         /\ db.cursor = NoCursor => Position = 0 /\ StartBlock = FactoryDeployBlock
         /\ db.cursor # NoCursor => /\ Position = db.cursor.number /\ FactoryDeployBlock <= Position
                                    /\ StartBlock = Position + 1
<1>1. /\ BlockNumber \in Nat /\ fork \in Nat /\ FactoryDeployBlock \in Nat /\ FactoryDeployBlock > 0
      /\ BlockNumber <= MaxHeight /\ MaxHeight \in Nat
  BY ChainAssumption DEF TypeInv, ChainInv
<1>2. SafeBlock(BlockNumber) \in Nat /\ SafeBlock(BlockNumber) <= BlockNumber
  BY <1>1, SafeBlockFacts
<1>3. db.cursor # NoCursor =>
        db.cursor.number \in Nat /\ FactoryDeployBlock <= db.cursor.number /\ db.cursor.number <= SafeBlock(BlockNumber)
  BY <1>1, <1>2 DEF TypeInv, DatabaseInv
<1>4. /\ safe \in Nat /\ to \in Nat /\ ancestor \in Nat
      /\ safe <= SafeBlock(BlockNumber) /\ to <= safe
  BY <1>1, <1>2 DEF TypeInv, LocalsInv
<1> QED
  BY <1>1, <1>2, <1>3, <1>4 DEF Position, StartBlock

LEMMA FirstBlockFacts ==
  ASSUME TypeInv, logs # {}
  PROVE  /\ FirstBlock \in StartBlock .. to
         /\ OfBlock(FirstBlock) # {}
         /\ \A l \in logs : FirstBlock <= l.block
<1> DEFINE S == {l.block : l \in logs}
<1>1. S \subseteq StartBlock .. to /\ S # {} /\ StartBlock \in Nat /\ to \in Nat
  BY Numbers DEF TypeInv, LocalsInv
<1>2. S \subseteq Nat
  BY <1>1
<1> HIDE DEF S
<1>3. PICK n \in S : \A k \in S : ~(<<k, n>> \in OpToRel(<, Nat))
  BY <1>1, <1>2, WFMin, NatLessThanWellFounded
<1>4. \A k \in S : n <= k
  <2> SUFFICES ASSUME NEW k \in S, ~(n <= k) PROVE FALSE
    OBVIOUS
  <2>1. k \in Nat /\ n \in Nat /\ k < n
    BY <1>2
  <2> QED
    BY <1>3, <2>1 DEF OpToRel
<1>5. FirstBlock \in S /\ \A l \in logs : FirstBlock <= l.block
  BY <1>3, <1>4 DEF FirstBlock, S
<1> QED
  BY <1>1, <1>5 DEF OfBlock, S

LEMMA InitType == Init => TypeInv
<1> SUFFICES ASSUME Init PROVE TypeInv
  OBVIOUS
<1>1. ChainInv /\ BlockNumber \in Nat
  BY ChainInitInv, ChainAssumption DEF Init, ChainInv
<1>2. db.cursor = NoCursor /\ db.blocks = {} /\ db.rows = {} /\ db.pairs = <<>> /\ IsDatabase(db)
  BY DEF Init, EmptyDatabase, IsDatabase
<1>3. DatabaseInv
  BY <1>2 DEF DatabaseInv, Marks
<1>4. LocalsInv
  BY <1>1, SafeBlockFacts, IndexerAssumption DEF Init, LocalsInv, InRange
<1> QED
  BY <1>1, <1>3, <1>4 DEF TypeInv

(* The chain moves under an unchanged database.                            *)
LEMMA DatabaseOutlivesChain ==
  ASSUME TypeInv, ChainInv', db' = db, BlockNumber <= BlockNumber', fork <= fork'
  PROVE  DatabaseInv'
<1>1. /\ BlockNumber \in Nat /\ BlockNumber' \in Nat /\ fork \in Nat /\ fork' \in Nat
      /\ SafeBlock(BlockNumber) \in Nat /\ SafeBlock(BlockNumber') \in Nat
      /\ SafeBlock(BlockNumber) <= SafeBlock(BlockNumber')
  <2>1. BlockNumber \in Nat /\ fork \in Nat
    BY Numbers
  <2>2. BlockNumber' \in Nat /\ fork' \in Nat
    BY ChainAssumption DEF ChainInv
  <2> QED
    BY <2>1, <2>2, SafeBlockFacts
<1>2. SafeBlock(BlockNumber)' = SafeBlock(BlockNumber') /\ Position' = Position /\ Marks' = Marks
  BY DEF SafeBlock, Position, Marks
<1>3. db.cursor # NoCursor => db.cursor \in [number : FactoryDeployBlock .. SafeBlock(BlockNumber'), hash : Hash]
  BY <1>1, Numbers DEF TypeInv, DatabaseInv
<1>4. \A m \in Marks : \E f \in 0 .. fork' : m.hash = <<m.number, f>>
  BY <1>1 DEF TypeInv, DatabaseInv
<1> QED
  BY <1>2, <1>3, <1>4 DEF TypeInv, DatabaseInv

LEMMA CursorIsNone ==
  ASSUME TypeInv, NEW n \in 1 .. MaxHeight, NEW h \in Hash
  PROVE  [number |-> n, hash |-> h] # NoCursor
  BY IndexerAssumption

LEMMA DatabaseMovesTo ==
  ASSUME TypeInv, chain' = chain, fork' = fork,
         NEW n \in FactoryDeployBlock .. SafeBlock(BlockNumber),
         IsDatabase(db'), db'.cursor = [number |-> n, hash |-> HeaderHash(n)],
         \A b \in db'.blocks : /\ b \in db.blocks \/ b = db'.cursor
                               /\ b.number <= n,
         \A a, b \in db'.blocks : a.number = b.number => a = b,
         \A r \in db'.rows : [number |-> r.number, hash |-> r.hash] \in db'.blocks,
         \A p \in DOMAIN db'.pairs : db'.pairs[p].created \in FactoryDeployBlock .. n
  PROVE  DatabaseInv' /\ Position' = n /\ StartBlock' = n + 1 /\ db'.cursor # NoCursor
<1>1. n \in 1 .. BlockNumber /\ n \in 1 .. MaxHeight /\ n \in Nat /\ FactoryDeployBlock \in 1 .. BlockNumber
  BY Numbers, ChainAssumption
<1>2. /\ HeaderHash(n) \in Hash /\ \E f \in 0 .. fork : HeaderHash(n) = <<n, f>>
      /\ n = FactoryDeployBlock => HeaderHash(n) = <<FactoryDeployBlock, 0>>
      /\ <<FactoryDeployBlock, 0>> \in Hash
  BY <1>1, ChainHashes DEF TypeInv, ChainInv
<1>3. db'.cursor # NoCursor /\ Position' = n /\ StartBlock' = n + 1
  BY <1>1, <1>2, CursorIsNone DEF Position, StartBlock
<1>4. SafeBlock(BlockNumber)' = SafeBlock(BlockNumber)
  BY DEF SafeBlock, BlockNumber
<1>5. \A m \in Marks' : /\ m \in [number : FactoryDeployBlock .. n, hash : Hash]
                        /\ \E f \in 0 .. fork : m.hash = <<m.number, f>>
                        /\ m.number = FactoryDeployBlock => m = FactoryMark
  <2> SUFFICES ASSUME NEW m \in Marks'
               PROVE  /\ m \in [number : FactoryDeployBlock .. n, hash : Hash]
                      /\ \E f \in 0 .. fork : m.hash = <<m.number, f>>
                      /\ m.number = FactoryDeployBlock => m = FactoryMark
    OBVIOUS
  <2>1. CASE m = db'.cursor
    BY <1>1, <1>2, <2>1 DEF FactoryMark
  <2>2. CASE m = FactoryMark
    BY <1>1, <1>2, <2>2, Numbers DEF FactoryMark
  <2>3. CASE m \in db.blocks /\ m.number <= n
    <3>1. m \in Marks
      BY <2>3 DEF TypeInv, DatabaseInv, Marks
    <3>2. /\ m \in [number : FactoryDeployBlock .. Position, hash : Hash]
          /\ \E f \in 0 .. fork : m.hash = <<m.number, f>>
          /\ m.number = FactoryDeployBlock => m = FactoryMark
      BY <3>1 DEF TypeInv, DatabaseInv
    <3> QED
      BY <1>1, <2>3, <3>2, Numbers
  <2> QED
    BY <1>3, <2>1, <2>2, <2>3 DEF Marks
<1> QED
  BY <1>2, <1>3, <1>4, <1>5 DEF DatabaseInv, FactoryMark

(* A tick that ends forgets its variables.                                 *)
LEMMA TickEnds ==
  ASSUME TypeInv, chain' = chain, faults' = faults, Reset, pc' \in {"idle", "down"},
         batchSize' \in 1 .. BlockBatchSize
  PROVE  LocalsInv'
<1>1. SafeBlock(BlockNumber)' \in Nat /\ BlockNumber' \in Nat
  BY Numbers DEF SafeBlock, BlockNumber
<1>2. faults' \in {Faults, {}}
  BY DEF TypeInv, LocalsInv
<1> QED
  BY <1>1, <1>2 DEF LocalsInv, Reset, InRange

LEMMA ChainUnmoved ==
  ASSUME TypeInv, UNCHANGED <<chain, fork>>
  PROVE  /\ ChainInv' /\ BlockNumber' = BlockNumber
         /\ SafeBlock(BlockNumber)' = SafeBlock(BlockNumber)
         /\ db' = db => DatabaseInv' /\ Position' = Position /\ StartBlock' = StartBlock
  BY DEF TypeInv, ChainInv, DatabaseInv, BlockNumber, HeaderHash, SafeBlock, Marks, Position, StartBlock

LEMMA RollbackMovesTo ==
  ASSUME TypeInv, pc = "rollback", UNCHANGED <<chain, fork>>,
         db' = SetIndexerState(RollbackFrom(db, ancestor + 1), ancestor, HeaderHash(ancestor))
  PROVE  DatabaseInv' /\ Position' = ancestor /\ StartBlock' = ancestor + 1 /\ db'.cursor # NoCursor
<1>1. db.cursor # NoCursor /\ ancestor \in FactoryDeployBlock .. Position /\ IsDatabase(db)
  BY DEF TypeInv, LocalsInv, DatabaseInv
<1>2. ancestor \in FactoryDeployBlock .. SafeBlock(BlockNumber) /\ ancestor \in Nat
  BY <1>1, Numbers
<1> DEFINE left == {p \in DOMAIN db.pairs : db.pairs[p].created < ancestor + 1}
<1>3. /\ IsDatabase(db')
      /\ db'.cursor = [number |-> ancestor, hash |-> HeaderHash(ancestor)]
      /\ db'.blocks = {b \in db.blocks : b.number < ancestor + 1}
      /\ db'.rows = {r \in db.rows : r.number < ancestor + 1 /\ r.pair \in left}
      /\ DOMAIN db'.pairs = left
      /\ \A p \in left : db'.pairs[p] = db.pairs[p]
  BY <1>1, RollbackFields
<1>4. \A b \in db.blocks : b \in Marks
  BY <1>1 DEF Marks
<1>5. \A b \in db'.blocks : b \in db.blocks /\ b.number <= ancestor
  BY <1>2, <1>3, <1>4, Numbers DEF TypeInv, DatabaseInv
<1>6. \A r \in db'.rows : [number |-> r.number, hash |-> r.hash] \in db'.blocks
  BY <1>3 DEF TypeInv, DatabaseInv
<1>7. \A p \in DOMAIN db'.pairs : db'.pairs[p].created \in FactoryDeployBlock .. ancestor
  BY <1>2, <1>3, Numbers DEF TypeInv, DatabaseInv
<1>8. \A a, b \in db'.blocks : a.number = b.number => a = b
  BY <1>5 DEF TypeInv, DatabaseInv
<1> QED
  BY <1>2, <1>3, <1>5, <1>6, <1>7, <1>8, DatabaseMovesTo

LEMMA EventRowsAreOfBlock ==
  ASSUME NEW n, NEW ls
  PROVE  \A r \in EventRows(n, ls) : r.number = n /\ r.hash = HeaderHash(n)
  BY DEF EventRows, P!Row

LEMMA ProcessBlockMovesTo ==
  ASSUME TypeInv, ProcessBlock
  PROVE  DatabaseInv' /\ Position' = FirstBlock /\ StartBlock' = FirstBlock + 1 /\ db'.cursor # NoCursor
<1> DEFINE n == FirstBlock
           ls == OfBlock(n)
<1>1. db' = Committed(n, ls) /\ UNCHANGED <<chain, fork>> /\ logs # {}
  BY DEF ProcessBlock, outside
<1>2. n \in StartBlock .. to
  BY <1>1, FirstBlockFacts
<1>3. n \in FactoryDeployBlock .. SafeBlock(BlockNumber) /\ n \in Nat /\ n > Position
  BY <1>2, Numbers
<1>4. IsDatabase(db)
  BY DEF TypeInv, DatabaseInv
<1> HIDE DEF n, ls
<1>5. /\ IsDatabase(db')
      /\ db'.cursor = [number |-> n, hash |-> HeaderHash(n)]
      /\ db'.blocks = {b \in db.blocks : b.number # n} \cup {db'.cursor}
      /\ \A r \in db'.rows : r \in db.rows \/ r \in EventRows(n, ls)
      /\ db'.pairs = WritePairs(db, n, Created(ls), LastSync(ls)).pairs
  BY <1>1, <1>4, CommittedFields
<1>6. \A b \in db.blocks : b.number \in Nat /\ b.number < n
  <2>1. \A b \in db.blocks : b \in Marks
    BY DEF TypeInv, DatabaseInv, Marks
  <2> QED
    BY <1>3, <2>1, Numbers DEF TypeInv, DatabaseInv
<1>7. \A b \in db'.blocks : (b \in db.blocks \/ b = db'.cursor) /\ b.number <= n
  BY <1>3, <1>5, <1>6
<1>8. \A a, b \in db'.blocks : a.number = b.number => a = b
  BY <1>5, <1>6 DEF TypeInv, DatabaseInv
<1>9. \A r \in db'.rows : [number |-> r.number, hash |-> r.hash] \in db'.blocks
  <2> SUFFICES ASSUME NEW r \in db'.rows
               PROVE  [number |-> r.number, hash |-> r.hash] \in db'.blocks
    OBVIOUS
  <2>1. CASE r \in EventRows(n, ls)
    BY <1>5, <2>1, EventRowsAreOfBlock
  <2>2. CASE r \in db.rows
    <3>1. [number |-> r.number, hash |-> r.hash] \in db.blocks
      BY <2>2 DEF TypeInv, DatabaseInv
    <3> QED
      BY <1>3, <1>5, <1>6, <3>1
  <2> QED
    BY <1>5, <2>1, <2>2
<1>10. \A p \in DOMAIN db'.pairs : db'.pairs[p].created \in FactoryDeployBlock .. n
  <2>1. /\ DOMAIN db'.pairs = DOMAIN db.pairs \cup Created(ls)
        /\ \A p \in DOMAIN db'.pairs :
             db'.pairs[p].created = IF p \in DOMAIN db.pairs THEN db.pairs[p].created ELSE n
    BY <1>4, <1>5, WritePairsFields
  <2>2. \A p \in DOMAIN db.pairs : db.pairs[p].created \in FactoryDeployBlock .. Position
    BY DEF TypeInv, DatabaseInv
  <2> QED
    BY <1>3, <2>1, <2>2, Numbers
<1> QED
  BY <1>1, <1>3, <1>5, <1>7, <1>8, <1>9, <1>10, DatabaseMovesTo DEF n

LEMMA FinishRangeMovesTo ==
  ASSUME TypeInv, FinishRange
  PROVE  DatabaseInv' /\ Position' = to /\ StartBlock' = to + 1 /\ db'.cursor # NoCursor
<1>1. /\ db' = SetIndexerState(db, to, HeaderHash(to)) /\ UNCHANGED <<chain, fork>>
      /\ to \in FactoryDeployBlock .. safe /\ StartBlock <= to + 1 /\ IsDatabase(db)
  BY DEF FinishRange, outside, TypeInv, LocalsInv, InRange, DatabaseInv
<1>2. to \in FactoryDeployBlock .. SafeBlock(BlockNumber) /\ to \in Nat /\ Position <= to
  BY <1>1, Numbers
<1>3. /\ IsDatabase(db')
      /\ db'.cursor = [number |-> to, hash |-> HeaderHash(to)]
      /\ db'.blocks = db.blocks /\ db'.rows = db.rows /\ db'.pairs = db.pairs
  BY <1>1, SetIndexerStateFields
<1>4. \A b \in db.blocks : b.number <= to
  <2>1. \A b \in db.blocks : b \in Marks
    BY DEF TypeInv, DatabaseInv, Marks
  <2> QED
    BY <1>2, <2>1, Numbers DEF TypeInv, DatabaseInv
<1>5. \A p \in DOMAIN db.pairs : db.pairs[p].created \in FactoryDeployBlock .. to
  BY <1>2, Numbers DEF TypeInv, DatabaseInv
<1>6. /\ \A r \in db.rows : [number |-> r.number, hash |-> r.hash] \in db.blocks
      /\ \A a, b \in db.blocks : a.number = b.number => a = b
  BY DEF TypeInv, DatabaseInv
<1> QED
  BY <1>1, <1>2, <1>3, <1>4, <1>5, <1>6, DatabaseMovesTo

LEMMA TypeStep == TypeInv /\ [Next]_vars => TypeInv'
<1> SUFFICES ASSUME TypeInv, [Next]_vars PROVE TypeInv'
  OBVIOUS
<1> USE Numbers
<1>1. CASE Preflight
  <2>1. UNCHANGED <<chain, fork>> /\ db' = db
    BY <1>1 DEF Preflight, outside
  <2>2. LocalsInv'
    BY <1>1, <2>1, ChainUnmoved, IndexerAssumption
    DEF TypeInv, LocalsInv, Preflight, outside, locals, InRange
  <2> QED
    BY <2>1, <2>2, ChainUnmoved DEF TypeInv
<1>2. CASE TickStart
  <2>1. UNCHANGED <<chain, fork>> /\ db' = db
    BY <1>2 DEF TickStart, outside
  <2>2. LocalsInv'
    BY <1>2, <2>1, ChainUnmoved DEF TypeInv, LocalsInv, TickStart, outside, memory, InRange
  <2> QED
    BY <2>1, <2>2, ChainUnmoved DEF TypeInv
<1>3. CASE CheckReorg
  <2>1. UNCHANGED <<chain, fork>> /\ db' = db
    BY <1>3 DEF CheckReorg, outside
  <2>2. LocalsInv'
    BY <1>3, <2>1, ChainUnmoved DEF TypeInv, LocalsInv, CheckReorg, outside, memory, InRange
  <2> QED
    BY <2>1, <2>2, ChainUnmoved DEF TypeInv
<1>4. CASE WalkBack
  <2>1. UNCHANGED <<chain, fork>> /\ db' = db
    BY <1>4 DEF WalkBack, outside
  <2>2. LocalsInv'
    BY <1>4, <2>1, ChainUnmoved DEF TypeInv, LocalsInv, WalkBack, outside, memory, InRange
  <2> QED
    BY <2>1, <2>2, ChainUnmoved DEF TypeInv
<1>5. CASE Rollback
  <2>1. /\ UNCHANGED <<chain, fork>> /\ pc = "rollback"
        /\ db' = SetIndexerState(RollbackFrom(db, ancestor + 1), ancestor, HeaderHash(ancestor))
    BY <1>5 DEF Rollback, outside
  <2>2. LocalsInv'
    BY <1>5, <2>1, ChainUnmoved DEF TypeInv, LocalsInv, Rollback, outside, memory, locals, InRange
  <2> QED
    BY <2>1, <2>2, ChainUnmoved, RollbackMovesTo DEF TypeInv
<1>6. CASE RollbackUnacknowledged
  <2>1. /\ UNCHANGED <<chain, fork>> /\ pc = "rollback" /\ Reset /\ faults' = faults
        /\ batchSize' = batchSize /\ pc' = "idle"
        /\ db' = SetIndexerState(RollbackFrom(db, ancestor + 1), ancestor, HeaderHash(ancestor))
    BY <1>6 DEF RollbackUnacknowledged, outside, memory
  <2>2. LocalsInv'
    BY <2>1, TickEnds DEF TypeInv, LocalsInv
  <2> QED
    BY <2>1, <2>2, ChainUnmoved, RollbackMovesTo DEF TypeInv
<1>7. CASE Reload
  <2>1. UNCHANGED <<chain, fork>> /\ db' = db
    BY <1>7 DEF Reload, outside
  <2>2. LocalsInv'
    BY <1>7, <2>1, ChainUnmoved DEF TypeInv, LocalsInv, Reload, outside, locals, InRange
  <2> QED
    BY <2>1, <2>2, ChainUnmoved DEF TypeInv
<1>8. CASE ReloadFails \/ CaughtUp \/ RangeTooLarge \/ ProcessBlockFails \/ RequestFails \/ Crash
  <2>1. /\ UNCHANGED <<chain, fork>> /\ db' = db /\ Reset /\ faults' = faults /\ pc' \in {"idle", "down"}
        /\ batchSize' \in {batchSize, NextBatchSize(batchSize), BlockBatchSize}
    BY <1>8 DEF ReloadFails, CaughtUp, RangeTooLarge, ProcessBlockFails, RequestFails, Crash, outside, memory
  <2>2. batchSize \in 1 .. BlockBatchSize /\ BlockBatchSize \in Nat \ {0}
    BY IndexerAssumption DEF TypeInv, LocalsInv
  <2>3. batchSize' \in 1 .. BlockBatchSize
    BY <2>1, <2>2 DEF NextBatchSize
  <2> QED
    BY <2>1, <2>3, ChainUnmoved, TickEnds DEF TypeInv
<1>9. CASE FetchFactoryLogs
  <2>1. UNCHANGED <<chain, fork>> /\ db' = db
    BY <1>9 DEF FetchFactoryLogs, outside
  <2>2. /\ pc = "start" /\ StartBlock <= safe /\ pc' = "pairlogs"
        /\ to' = IF StartBlock + batchSize - 1 > safe THEN safe ELSE StartBlock + batchSize - 1
        /\ logs' \subseteq Logs(StartBlock, to')
        /\ UNCHANGED <<faults, batchSize, safe, ancestor>>
    BY <1>9 DEF FetchFactoryLogs, NothingLeft, outside, memory
  <2>3. to' \in StartBlock .. safe
    BY <2>2, IndexerAssumption DEF TypeInv, LocalsInv
  <2>4. \A l \in logs' : l.block \in StartBlock .. to'
    BY <2>2, LogsMember
  <2>5. LocalsInv'
    BY <2>1, <2>2, <2>3, <2>4, ChainUnmoved DEF TypeInv, LocalsInv, InRange
  <2> QED
    BY <2>1, <2>5, ChainUnmoved DEF TypeInv
<1>10. CASE FetchPairLogs
  <2>1. UNCHANGED <<chain, fork>> /\ db' = db
    BY <1>10 DEF FetchPairLogs, outside
  <2>2. /\ pc = "pairlogs" /\ pc' = "blocks"
        /\ logs' \subseteq logs \cup Logs(StartBlock, to)
        /\ UNCHANGED <<faults, batchSize, safe, ancestor, to>>
    BY <1>10 DEF FetchPairLogs, outside, memory
  <2>3. \A l \in logs' : l.block \in StartBlock .. to
    BY <2>2, LogsMember DEF TypeInv, LocalsInv
  <2>4. LocalsInv'
    BY <2>1, <2>2, <2>3, ChainUnmoved DEF TypeInv, LocalsInv, InRange
  <2> QED
    BY <2>1, <2>4, ChainUnmoved DEF TypeInv
<1>11. CASE ProcessBlock
  <2>1. /\ UNCHANGED <<chain, fork, faults, batchSize, pc, safe, ancestor, to>>
        /\ pc = "blocks" /\ logs # {} /\ logs' = logs \ OfBlock(FirstBlock)
    BY <1>11 DEF ProcessBlock, outside
  <2>2. StartBlock' = FirstBlock + 1 /\ FirstBlock \in StartBlock .. to
    BY <1>11, <2>1, FirstBlockFacts, ProcessBlockMovesTo
  <2>3. \A l \in logs' : l.block \in FirstBlock + 1 .. to
    <3> SUFFICES ASSUME NEW l \in logs' PROVE l.block \in FirstBlock + 1 .. to
      OBVIOUS
    <3>1. l \in logs /\ l.block # FirstBlock
      BY <2>1 DEF OfBlock
    <3>2. l.block \in StartBlock .. to /\ FirstBlock <= l.block
      BY <2>1, <3>1, FirstBlockFacts DEF TypeInv, LocalsInv
    <3> QED
      BY <2>2, <3>1, <3>2
  <2>4. LocalsInv'
    BY <2>1, <2>2, <2>3, ChainUnmoved DEF TypeInv, LocalsInv, InRange
  <2> QED
    BY <1>11, <2>1, <2>4, ChainUnmoved, ProcessBlockMovesTo DEF TypeInv
<1>12. CASE FinishRange
  <2>1. /\ UNCHANGED <<chain, fork>> /\ Reset /\ faults' = faults
        /\ batchSize' = batchSize /\ pc' = "idle"
    BY <1>12 DEF FinishRange, outside, memory
  <2>2. LocalsInv'
    BY <2>1, TickEnds DEF TypeInv, LocalsInv
  <2> QED
    BY <1>12, <2>1, <2>2, ChainUnmoved, FinishRangeMovesTo DEF TypeInv
<1>13. CASE ChainMoves
  <2>1. UNCHANGED <<faults, db, knownPairs, batchSize, pc, safe, ancestor, to, logs>>
    BY <1>13 DEF ChainMoves, memory, locals
  <2>2. ChainInv' /\ \E n \in Nat : MovesAbove(n)
    BY <1>13, ChainMovesAbove DEF TypeInv
  <2>3. BlockNumber \in Nat /\ BlockNumber' \in Nat /\ BlockNumber <= BlockNumber' /\ fork <= fork'
    BY <2>2, ChainAssumption DEF MovesAbove, ChainInv
  <2>4. DatabaseInv'
    BY <2>1, <2>2, <2>3, DatabaseOutlivesChain
  <2>5. SafeBlock(BlockNumber) <= SafeBlock(BlockNumber)' /\ SafeBlock(BlockNumber)' \in Nat
    <3>1. SafeBlock(BlockNumber)' = SafeBlock(BlockNumber')
      BY DEF SafeBlock
    <3> QED
      BY <2>3, <3>1, SafeBlockFacts
  <2>6. Position' = Position /\ StartBlock' = StartBlock
    BY <2>1 DEF Position, StartBlock
  <2>7. LocalsInv'
    BY <2>1, <2>3, <2>5, <2>6 DEF TypeInv, LocalsInv, InRange
  <2> QED
    BY <2>2, <2>4, <2>7 DEF TypeInv
<1>14. CASE FaultsCease
  <2>1. UNCHANGED <<chain, fork, db, knownPairs, batchSize, pc, safe, ancestor, to, logs>> /\ faults' = {}
    BY <1>14 DEF FaultsCease, memory, locals
  <2>2. LocalsInv'
    BY <2>1, ChainUnmoved DEF TypeInv, LocalsInv, InRange
  <2> QED
    BY <2>1, <2>2, ChainUnmoved DEF TypeInv
<1>15. CASE UNCHANGED vars
  <2>1. LocalsInv'
    BY <1>15, ChainUnmoved DEF TypeInv, LocalsInv, InRange, vars
  <2> QED
    BY <1>15, <2>1, ChainUnmoved DEF TypeInv, vars
<1> QED
  BY <1>1, <1>2, <1>3, <1>4, <1>5, <1>6, <1>7, <1>8, <1>9, <1>10, <1>11, <1>12, <1>13, <1>14, <1>15
  DEF Next, Step, Fault

(* Every execution, with any faults and however deep the chain             *)
(* reorganises, keeps the tables and the variables of a tick well-formed.  *)
THEOREM IndexerTypes == Spec => []TypeInv
<1>1. Init => TypeInv
  BY InitType
<1>2. TypeInv /\ [Next]_vars => TypeInv'
  BY TypeStep
<1> QED
  BY <1>1, <1>2, PTL DEF Spec

(* The type invariant of the model is a part of it.                        *)
THEOREM IndexerTypeOK == Spec => []TypeOK
<1>1. TypeInv => TypeOK
  <2> SUFFICES ASSUME TypeInv PROVE TypeOK
    OBVIOUS
  <2>1. db.cursor # NoCursor => db.cursor.number \in 1 .. MaxHeight /\ db.cursor.hash \in Hash
    BY Numbers DEF TypeInv, DatabaseInv
  <2>2. \A b \in db.blocks : b.number \in 1 .. MaxHeight /\ b.hash \in Hash
    <3>1. \A b \in db.blocks : b \in Marks
      BY DEF TypeInv, DatabaseInv, Marks
    <3> QED
      BY <3>1, Numbers DEF TypeInv, DatabaseInv
  <2>3. safe \in 0 .. MaxHeight /\ ancestor \in 0 .. MaxHeight /\ to \in 0 .. MaxHeight
    BY Numbers DEF TypeInv, LocalsInv
  <2>4. \A l \in logs : l.block \in 1 .. to
    BY Numbers DEF TypeInv, LocalsInv
  <2> QED
    BY <2>1, <2>2, <2>3, <2>4 DEF TypeOK, TypeInv, LocalsInv
<1> QED
  BY <1>1, IndexerTypes, PTL

-----------------------------------------------------------------------------
(* The rows of a chain.                                                    *)

ChainRow(e) == P!Row(e, e.block, HeaderHash(e.block))

LEMMA ChainRowFields ==
  ASSUME NEW e
  PROVE  /\ ChainRow(e).number = e.block /\ ChainRow(e).hash = HeaderHash(e.block)
         /\ ChainRow(e).tx = e.tx /\ ChainRow(e).index = e.index /\ ChainRow(e).pair = e.pair
  BY DEF ChainRow, P!Row

LEMMA ProjectionLogs == \A i, j : P!Logs(i, j) = Logs(i, j)
  BY DEF P!Logs, Logs, P!EventsIn, EventsIn

LEMMA RowMember ==
  \A k, r : r \in P!RowsUpTo(k) <=> \E e \in Logs(1, k) : e.kind \in Recorded /\ r = ChainRow(e)
  BY ProjectionLogs DEF P!RowsUpTo, P!HeaderHash, HeaderHash, ChainRow, Recorded

LEMMA RowsSplit ==
  ASSUME NEW j \in Int, NEW k \in Int, 0 <= j, j <= k
  PROVE  P!RowsUpTo(j) = {r \in P!RowsUpTo(k) : r.number <= j}
<1>1. Logs(1, j) = {e \in Logs(1, k) : e.block <= j}
  BY LogsSplit
<1> QED
  BY <1>1, RowMember, ChainRowFields

(* As long as its blocks stay, so do the rows and pairs of a prefix.       *)
LEMMA PrefixStays ==
  ASSUME NEW k, \A n \in 1 .. k : chain'[n] = chain[n]
  PROVE  /\ Logs(1, k)' = Logs(1, k)
         /\ P!RowsUpTo(k)' = P!RowsUpTo(k)
         /\ Created(Logs(1, k))' = Created(Logs(1, k))
<1>1. Logs(1, k)' = Logs(1, k)
  BY DEF Logs, EventsIn
<1>2. \A e \in Logs(1, k) : e.block \in 1 .. k
  BY LogsMember
<1>3. P!RowsUpTo(k)' = P!RowsUpTo(k)
  <2>1. P!RowsUpTo(k) = {P!Row(e, e.block, chain[e.block].hash) : e \in {x \in Logs(1, k) : x.kind \in {"Swap", "Mint", "Burn"}}}
    BY ProjectionLogs DEF P!RowsUpTo, P!HeaderHash
  <2>2. P!Logs(1, k)' = Logs(1, k)'
    BY DEF P!Logs, Logs, P!EventsIn, EventsIn
  <2>3. P!RowsUpTo(k)' = {P!Row(e, e.block, chain'[e.block].hash) : e \in {x \in Logs(1, k)' : x.kind \in {"Swap", "Mint", "Burn"}}}
    BY <2>2 DEF P!RowsUpTo, P!HeaderHash, P!Row
  <2> QED
    BY <1>1, <1>2, <2>1, <2>3
<1> QED
  BY <1>1, <1>3 DEF Created

LEMMA AgreementStays ==
  ASSUME NEW k, \A n \in 1 .. k : chain'[n] = chain[n], db' = db
  PROVE  Agrees(k)' <=> Agrees(k)
<1>1. RowsTo(k)' = RowsTo(k) /\ PairsTo(k)' = PairsTo(k)
  BY DEF RowsTo, PairsTo
<1> QED
  BY <1>1, PrefixStays DEF Agrees

LEMMA CanonicalMark == Canonical <=> (db.cursor = NoCursor \/ IsCanonical(db.cursor))
  BY DEF Canonical, P!OnChain, P!HeaderHash, IsCanonical, HeaderHash

LEMMA FactoryIsCanonical == ChainInv => IsCanonical(FactoryMark)
  BY DEF ChainInv, IsCanonical, FactoryMark

LEMMA StoredNumbers ==
  ASSUME TypeInv
  PROVE  /\ \A m \in Marks : m.number \in Nat /\ FactoryDeployBlock <= m.number /\ m.number <= Position
         /\ \A b \in db.blocks : b \in Marks
         /\ \A r \in db.rows : r.number \in Nat /\ FactoryDeployBlock <= r.number /\ r.number <= Position
         /\ \A p \in DOMAIN db.pairs : /\ db.pairs[p].created \in Nat /\ db.pairs[p].created <= Position
                                       /\ FactoryDeployBlock <= db.pairs[p].created
<1>1. \A m \in Marks : m.number \in Nat /\ FactoryDeployBlock <= m.number /\ m.number <= Position
  BY Numbers DEF TypeInv, DatabaseInv
<1>2. \A b \in db.blocks : b \in Marks
  BY DEF TypeInv, DatabaseInv, Marks
<1>3. \A r \in db.rows : r.number \in Nat /\ FactoryDeployBlock <= r.number /\ r.number <= Position
  <2> SUFFICES ASSUME NEW r \in db.rows
               PROVE  r.number \in Nat /\ FactoryDeployBlock <= r.number /\ r.number <= Position
    OBVIOUS
  <2> DEFINE m == [number |-> r.number, hash |-> r.hash]
  <2>1. m \in Marks
    BY <1>2 DEF TypeInv, DatabaseInv
  <2> QED
    BY <1>1, <2>1
<1> QED
  BY <1>1, <1>2, <1>3, Numbers DEF TypeInv, DatabaseInv

-----------------------------------------------------------------------------
(* The chain moves.                                                        *)

LEMMA StillThere ==
  ASSUME TypeInv, NEW n \in Nat, MovesAbove(n), NEW m \in Marks, HeaderHash(m.number)' = m.hash
  PROVE  m.number <= n /\ IsCanonical(m)
<1>1. m.number \in Nat /\ m.number >= 1 /\ m.number <= BlockNumber
  BY StoredNumbers, Numbers
<1>2. PICK f \in 0 .. fork : m.hash = <<m.number, f>>
  BY DEF TypeInv, DatabaseInv
<1>3. m.number <= n
  <2> SUFFICES ASSUME m.number > n PROVE FALSE
    BY <1>1
  <2>1. HeaderHash(m.number)' = <<m.number, fork + 1>>
    BY <1>1, Numbers DEF MovesAbove
  <2> QED
    BY <1>2, <2>1, Numbers
<1>4. chain'[m.number] = chain[m.number]
  BY <1>1, <1>3 DEF MovesAbove
<1> QED
  BY <1>3, <1>4 DEF IsCanonical, HeaderHash

LEMMA MarksOutliveChain ==
  ASSUME TypeInv, MarksInv, NEW n \in Nat, MovesAbove(n), db' = db
  PROVE  MarksInv'
<1>1. Marks' = Marks /\ Position' = Position
  BY DEF Marks, Position
<1>2. \A m \in Marks : HeaderHash(m.number)' = m.hash => Agrees(m.number)'
  <2> SUFFICES ASSUME NEW m \in Marks, HeaderHash(m.number)' = m.hash
               PROVE  Agrees(m.number)'
    OBVIOUS
  <2>1. m.number <= n /\ IsCanonical(m) /\ m.number \in Nat
    BY StillThere, StoredNumbers
  <2>2. \A h \in 1 .. m.number : chain'[h] = chain[h]
    BY <2>1 DEF MovesAbove
  <2> DEFINE k == m.number
  <2>3. Agrees(k)
    BY <2>1 DEF MarksInv
  <2> QED
    BY <2>2, <2>3, AgreementStays
<1> QED
  BY <1>1, <1>2 DEF MarksInv, IsCanonical, HeaderHash

-----------------------------------------------------------------------------
(* The cursor advances.                                                    *)

(* A canonical cursor vouches for everything below the next block.         *)
LEMMA BaseAgrees ==
  ASSUME TypeInv, MarksInv, Canonical
  PROVE  /\ Agrees(StartBlock - 1)
         /\ db.rows \subseteq P!RowsUpTo(StartBlock - 1)
         /\ Complete => db.rows = P!RowsUpTo(StartBlock - 1)
         /\ DOMAIN db.pairs = Created(Logs(1, StartBlock - 1))
<1> USE Numbers
<1>1. CASE db.cursor # NoCursor
  <2>1. db.cursor \in Marks /\ IsCanonical(db.cursor)
    BY <1>1, CanonicalMark DEF Marks
  <2>2. Agrees(Position) /\ Position = StartBlock - 1
    BY <1>1, <2>1 DEF MarksInv
  <2>3. RowsTo(Position) = db.rows /\ PairsTo(Position) = DOMAIN db.pairs
    BY StoredNumbers DEF RowsTo, PairsTo
  <2> QED
    BY <2>2, <2>3 DEF Agrees
<1>2. CASE db.cursor = NoCursor
  <2>1. db.rows = {} /\ DOMAIN db.pairs = {} /\ StartBlock = FactoryDeployBlock
    BY <1>2 DEF TypeInv, DatabaseInv
  <2>2. Logs(1, StartBlock - 1) = {}
    <3>1. \A n \in 1 .. StartBlock - 1 : chain[n].events = <<>>
      BY <2>1 DEF TypeInv, ChainInv
    <3>2. \A n \in 1 .. StartBlock - 1 : EventsIn(chain, n) = {}
      BY <3>1 DEF EventsIn
    <3> QED
      BY <3>2 DEF Logs
  <2>3. P!RowsUpTo(StartBlock - 1) = {} /\ Created(Logs(1, StartBlock - 1)) = {}
    BY <2>2, RowMember DEF Created
  <2>4. RowsTo(StartBlock - 1) = {} /\ PairsTo(StartBlock - 1) = {}
    BY <2>1 DEF RowsTo, PairsTo
  <2> QED
    BY <2>1, <2>3, <2>4 DEF Agrees
<1> QED
  BY <1>1, <1>2

NewRows(n) == {ChainRow(e) : e \in {x \in Logs(n, n) : x.kind \in Recorded}}
Nothing(i, j) ==
  \A e \in Logs(i, j) : e.kind # "PairCreated" /\ (Complete => e.kind \notin Recorded)

(* Blocks that held nothing of interest change nothing.                    *)
LEMMA NothingHappens ==
  ASSUME TypeInv, NEW j \in Nat, NEW k \in Nat, j <= k, Nothing(j + 1, k)
  PROVE  /\ Created(Logs(1, k)) = Created(Logs(1, j))
         /\ P!RowsUpTo(j) \subseteq P!RowsUpTo(k)
         /\ Complete => P!RowsUpTo(k) = P!RowsUpTo(j)
<1>1. Logs(1, k) = Logs(1, j) \cup Logs(j + 1, k)
  BY LogsSplit
<1>2. Created(Logs(1, k)) = Created(Logs(1, j))
  BY <1>1 DEF Created, Nothing
<1>3. P!RowsUpTo(j) \subseteq P!RowsUpTo(k)
  BY <1>1, RowMember
<1>4. Complete => P!RowsUpTo(k) \subseteq P!RowsUpTo(j)
  BY <1>1, RowMember DEF Nothing
<1> QED
  BY <1>2, <1>3, <1>4

LEMMA CursorAdvances ==
  ASSUME TypeInv, MarksInv, Canonical, UNCHANGED <<chain, fork>>,
         NEW n \in StartBlock .. BlockNumber, DatabaseInv', Position' = n,
         db'.cursor = [number |-> n, hash |-> HeaderHash(n)],
         \A b \in db'.blocks : b \in db.blocks \/ b = db'.cursor,
         db.rows \subseteq db'.rows, db'.rows \subseteq db.rows \cup NewRows(n),
         Complete => db'.rows = db.rows \cup NewRows(n),
         DOMAIN db'.pairs = DOMAIN db.pairs \cup Created(Logs(n, n)),
         \A p \in DOMAIN db'.pairs :
           db'.pairs[p].created = IF p \in DOMAIN db.pairs THEN db.pairs[p].created ELSE n,
         Nothing(StartBlock, n - 1)
  PROVE  MarksInv' /\ (Complete => db'.rows = P!RowsUpTo(n))
<1> DEFINE base == StartBlock - 1
<1>1. /\ n \in Nat /\ base \in Nat /\ base < n /\ base + 1 = StartBlock /\ n - 1 \in Nat /\ base <= n - 1
      /\ Position <= base /\ n <= BlockNumber /\ BlockNumber \in Nat
      /\ FactoryDeployBlock - 1 <= base /\ FactoryDeployBlock \in Nat /\ FactoryDeployBlock >= 1
  BY Numbers
<1>2. /\ Agrees(base)
      /\ db.rows \subseteq P!RowsUpTo(base)
      /\ Complete => db.rows = P!RowsUpTo(base)
      /\ DOMAIN db.pairs = Created(Logs(1, base))
  BY BaseAgrees
<1>3. /\ \A r \in db.rows : r.number \in Nat /\ r.number <= base
      /\ \A p \in DOMAIN db.pairs : db.pairs[p].created \in Nat /\ db.pairs[p].created <= base
      /\ \A m \in Marks : m.number \in Nat /\ m.number <= base
  BY <1>1, StoredNumbers, Numbers
<1> HIDE DEF base
<1>4. \A r \in NewRows(n) : r.number = n
  <2>1. \A e \in Logs(n, n) : e.block = n
    BY <1>1, LogsMember
  <2> QED
    BY <2>1, ChainRowFields DEF NewRows
<1>5. ASSUME NEW k \in Nat, k < n, Agrees(k)
      PROVE  Agrees(k)'
  <2>1. RowsTo(k)' = RowsTo(k)
    BY <1>1, <1>4, <1>5 DEF RowsTo
  <2>2. PairsTo(k)' = PairsTo(k)
    BY <1>1, <1>5 DEF PairsTo
  <2> QED
    BY <1>5, <2>1, <2>2, PrefixStays DEF Agrees
<1>6. ASSUME NEW k \in Nat, base <= k, k < n
      PROVE  Agrees(k)
  <2>1. Nothing(base + 1, k)
    BY <1>1, <1>6, LogsSplit DEF Nothing
  <2>2. RowsTo(k) = db.rows /\ PairsTo(k) = DOMAIN db.pairs
    BY <1>1, <1>3, <1>6 DEF RowsTo, PairsTo
  <2> QED
    BY <1>1, <1>2, <1>6, <2>1, <2>2, NothingHappens DEF Agrees
<1>7. Agrees(n)' /\ (Complete => db'.rows = P!RowsUpTo(n))
  <2>1. RowsTo(n)' = db'.rows
    BY <1>1, <1>3, <1>4 DEF RowsTo
  <2>2. PairsTo(n)' = DOMAIN db'.pairs
    BY <1>1, <1>3 DEF PairsTo
  <2>3. Nothing(base + 1, n - 1)
    BY <1>1
  <2>4. /\ Created(Logs(1, n - 1)) = Created(Logs(1, base))
        /\ P!RowsUpTo(base) \subseteq P!RowsUpTo(n - 1)
        /\ Complete => P!RowsUpTo(n - 1) = P!RowsUpTo(base)
    BY <1>1, <2>3, NothingHappens
  <2>5. Logs(1, n) = Logs(1, n - 1) \cup Logs(n, n)
    <3>1. (n - 1) + 1 = n
      BY <1>1
    <3> QED
      BY <1>1, <3>1, LogsSplit
  <2>6. P!RowsUpTo(n) = P!RowsUpTo(n - 1) \cup NewRows(n)
    BY <2>5, RowMember DEF NewRows
  <2>7. Created(Logs(1, n)) = Created(Logs(1, n - 1)) \cup Created(Logs(n, n))
    BY <2>5 DEF Created
  <2>8. /\ db'.rows \subseteq P!RowsUpTo(n)
        /\ Complete => db'.rows = P!RowsUpTo(n)
        /\ DOMAIN db'.pairs = Created(Logs(1, n))
    BY <1>2, <2>4, <2>6, <2>7
  <2>9. Agrees(n)'
    BY <2>1, <2>2, <2>8, PrefixStays DEF Agrees
  <2> QED
    BY <2>8, <2>9
<1>8. ASSUME NEW m \in Marks' PROVE IsCanonical(m)' => Agrees(m.number)'
  <2>1. CASE m \in Marks
    <3>1. SUFFICES ASSUME IsCanonical(m)' PROVE Agrees(m.number)'
      OBVIOUS
    <3>2. m.number \in Nat /\ m.number < n
      BY <1>1, <1>3, <2>1
    <3>3. IsCanonical(m)
      BY <3>1 DEF IsCanonical, HeaderHash
    <3>4. Agrees(m.number)
      BY <2>1, <3>3 DEF MarksInv
    <3> DEFINE k == m.number
    <3> QED
      BY <1>5, <3>2, <3>4
  <2>2. CASE m = db'.cursor
    BY <1>7, <2>2
  <2>3. CASE m = FactoryMark /\ m \notin Marks
    <3>1. db.cursor = NoCursor /\ m.number = FactoryDeployBlock
      BY <2>3 DEF Marks, FactoryMark
    <3>2. StartBlock = FactoryDeployBlock
      BY <3>1, Numbers
    <3>3. base <= FactoryDeployBlock /\ FactoryDeployBlock <= n
      BY <1>1, <3>2
    <3>4. Agrees(FactoryDeployBlock)'
      <4>1. CASE FactoryDeployBlock < n
        BY <1>1, <1>5, <1>6, <3>3, <4>1
      <4>2. CASE FactoryDeployBlock = n
        BY <1>7, <4>2
      <4> QED
        BY <1>1, <3>3, <4>1, <4>2
    <3> QED
      BY <3>1, <3>4
  <2> QED
    BY <2>1, <2>2, <2>3, StoredNumbers DEF Marks
<1>9. \A b \in db'.blocks : b.number = n => b = db'.cursor
  BY <1>1, <1>3, StoredNumbers
<1> QED
  BY <1>7, <1>8, <1>9 DEF MarksInv

-----------------------------------------------------------------------------
(* The transactions that move the cursor.                                  *)

LEMMA RangeFacts ==
  ASSUME TypeInv, TickInv, LogsInv, pc = "blocks"
  PROVE  /\ Canonical /\ NewPairs \subseteq logs /\ logs \subseteq Logs(StartBlock, to)
         /\ Complete => logs = Logs(StartBlock, to)
         /\ to <= BlockNumber /\ StartBlock <= to + 1 /\ FactoryDeployBlock <= to
  BY Numbers DEF TypeInv, LocalsInv, TickInv, LogsInv, InRange

(* Every pair an event mentions has been created at or before it, so the   *)
(* indexer knows it by the time it applies the event.                      *)
LEMMA PairsAreRemembered ==
  ASSUME TypeInv, FollowInv, pc = "blocks", logs # {}, Complete,
         NEW e \in OfBlock(FirstBlock)
  PROVE  e.pair \in DOMAIN Remembered(OfBlock(FirstBlock))
<1> DEFINE n == FirstBlock
<1>1. /\ n \in StartBlock .. to /\ n \in Nat /\ n <= BlockNumber /\ n >= 1 /\ BlockNumber \in Nat /\ StartBlock >= 1
      /\ StartBlock \in Nat /\ to \in Nat
  BY FirstBlockFacts, Numbers
<1>2. \A l \in logs : n <= l.block
  BY FirstBlockFacts
<1>3. logs = Logs(StartBlock, to) /\ Canonical
  BY RangeFacts DEF FollowInv
<1> HIDE DEF n
<1>4. e \in Logs(1, n)
  <2>1. e \in logs /\ e.block = n
    BY DEF OfBlock, n
  <2> QED
    BY <1>1, <1>3, <2>1, LogsMember
<1>5. PICK d \in Logs(1, n) : d.kind = "PairCreated" /\ d.pair = e.pair
  BY <1>1, <1>4, ExecutableFacts DEF TypeInv
<1>6. d.block \in 1 .. n /\ d \in EventsIn(chain, d.block)
  BY LogsMember
<1>7. CASE d.block < StartBlock
  <2>1. d \in Logs(1, StartBlock - 1)
    BY <1>1, <1>6, <1>7, LogsMember
  <2>2. d.pair \in DOMAIN db.pairs
    BY <1>3, <1>5, <2>1, BaseAgrees DEF FollowInv, Created
  <2>3. d.pair \in DOMAIN knownPairs
    BY <2>2 DEF FollowInv, KnownInv
  <2> QED
    BY <1>5, <2>3 DEF Remembered
<1>8. CASE StartBlock <= d.block
  <2>1. d \in logs
    BY <1>1, <1>3, <1>6, <1>8, LogsMember
  <2>2. d \in OfBlock(n)
    BY <1>1, <1>2, <1>6, <2>1 DEF OfBlock
  <2> QED
    BY <1>5, <2>2 DEF Remembered, Created, n
<1> QED
  BY <1>1, <1>6, <1>7, <1>8

LEMMA ProcessBlockFollows ==
  ASSUME TypeInv, FollowInv, ProcessBlock
  PROVE  MarksInv' /\ (Complete => db'.rows = P!RowsUpTo(FirstBlock))
<1> DEFINE n == FirstBlock
           ls == OfBlock(n)
<1>1. pc = "blocks" /\ db' = Committed(n, ls) /\ UNCHANGED <<chain, fork>> /\ logs # {}
  BY DEF ProcessBlock, outside
<1>2. /\ Canonical /\ NewPairs \subseteq logs /\ logs \subseteq Logs(StartBlock, to)
      /\ Complete => logs = Logs(StartBlock, to)
  BY <1>1, RangeFacts DEF FollowInv
<1>3. /\ n \in StartBlock .. to /\ n \in StartBlock .. BlockNumber
      /\ n \in Nat /\ StartBlock \in Nat /\ StartBlock >= 1 /\ to \in Nat
  BY <1>1, FirstBlockFacts, Numbers
<1>4. \A l \in logs : n <= l.block
  BY <1>1, FirstBlockFacts
<1>5. DatabaseInv' /\ Position' = n
  BY ProcessBlockMovesTo
<1>6. Complete => \A e \in ls : e.pair \in DOMAIN Remembered(ls)
  BY <1>1, PairsAreRemembered
<1>7. IsDatabase(db)
  BY DEF TypeInv, DatabaseInv
<1> HIDE DEF n
<1>8. /\ ls \subseteq Logs(n, n)
      /\ \A e \in Logs(n, n) : e.kind = "PairCreated" => e \in ls
      /\ Complete => ls = Logs(n, n)
  <2>1. \A e : e \in Logs(n, n) <=> e \in Logs(StartBlock, to) /\ e.block = n
    BY <1>3, LogsMember
  <2> QED
    BY <1>2, <2>1 DEF OfBlock, NewPairs
<1> HIDE DEF ls
<1>9. Created(ls) = Created(Logs(n, n))
  BY <1>8 DEF Created
<1>10. Nothing(StartBlock, n - 1)
  <2>1. \A e \in Logs(StartBlock, n - 1) : e.block < n /\ e \in Logs(StartBlock, to)
    BY <1>3, LogsMember
  <2>2. \A e \in Logs(StartBlock, n - 1) : e \notin logs
    <3> SUFFICES ASSUME NEW e \in Logs(StartBlock, n - 1), e \in logs PROVE FALSE
      OBVIOUS
    <3>1. e.block \in StartBlock .. n - 1 /\ n <= e.block
      BY <1>4, LogsMember
    <3> QED
      BY <1>3, <3>1
  <2> QED
    BY <1>2, <2>1, <2>2 DEF Nothing, NewPairs
<1>11. \A e \in ls : P!Row(e, n, HeaderHash(n)) = ChainRow(e)
  <2>1. \A e \in ls : e.block = n
    BY <1>3, <1>8, LogsMember
  <2> QED
    BY <2>1 DEF ChainRow
<1>12. EventRows(n, ls) \subseteq NewRows(n) /\ (Complete => EventRows(n, ls) = NewRows(n))
  BY <1>6, <1>8, <1>11 DEF EventRows, NewRows, Recorded
<1>13. \A r \in NewRows(n), s \in db.rows : ~(s.tx = r.tx /\ s.index = r.index)
  <2> SUFFICES ASSUME NEW r \in NewRows(n), NEW s \in db.rows, s.tx = r.tx PROVE FALSE
    OBVIOUS
  <2>1. PICK e \in Logs(n, n) : r = ChainRow(e)
    BY DEF NewRows
  <2>2. PICK d \in Logs(1, StartBlock - 1) : s = ChainRow(d)
    BY <1>2, BaseAgrees, RowMember DEF FollowInv
  <2>3. e.block = n /\ d.block \in 1 .. StartBlock - 1
    BY <1>3, LogsMember
  <2>4. e \in Logs(1, BlockNumber) /\ d \in Logs(1, BlockNumber)
    BY <1>3, <2>3, LogsMember, Numbers
  <2>5. d.tx = e.tx
    BY <2>1, <2>2, ChainRowFields
  <2>6. d.block = e.block
    BY <2>4, <2>5, Numbers, ExecutableFacts DEF TypeInv
  <2> QED
    BY <1>3, <2>3, <2>6
<1>14. /\ db'.cursor = [number |-> n, hash |-> HeaderHash(n)]
       /\ db'.blocks = {b \in db.blocks : b.number # n} \cup {[number |-> n, hash |-> HeaderHash(n)]}
       /\ db'.rows = db.rows \cup {r \in EventRows(n, ls) :
                                     \A s \in db.rows : ~(s.tx = r.tx /\ s.index = r.index)}
       /\ db'.pairs = WritePairs(db, n, Created(ls), LastSync(ls)).pairs
  BY <1>1, <1>7, CommittedFields
<1>15. /\ \A b \in db'.blocks : b \in db.blocks \/ b = db'.cursor
       /\ db.rows \subseteq db'.rows /\ db'.rows \subseteq db.rows \cup NewRows(n)
       /\ Complete => db'.rows = db.rows \cup NewRows(n)
  BY <1>12, <1>13, <1>14
<1>16. /\ DOMAIN db'.pairs = DOMAIN db.pairs \cup Created(Logs(n, n))
       /\ \A p \in DOMAIN db'.pairs :
            db'.pairs[p].created = IF p \in DOMAIN db.pairs THEN db.pairs[p].created ELSE n
  BY <1>7, <1>9, <1>14, WritePairsFields
<1> QED
  <2>1. MarksInv' /\ (Complete => db'.rows = P!RowsUpTo(n))
    BY <1>1, <1>2, <1>3, <1>5, <1>10, <1>14, <1>15, <1>16, CursorAdvances DEF FollowInv
  <2> QED
    BY <2>1 DEF n

LEMMA FinishRangeFollows ==
  ASSUME TypeInv, FollowInv, FinishRange
  PROVE  MarksInv' /\ (Complete => db'.rows = P!RowsUpTo(to))
<1>1. /\ pc = "blocks" /\ logs = {} /\ UNCHANGED <<chain, fork>>
      /\ db' = SetIndexerState(db, to, HeaderHash(to)) /\ IsDatabase(db)
  BY DEF FinishRange, outside, TypeInv, DatabaseInv
<1>2. /\ Canonical /\ NewPairs = {}
      /\ Complete => Logs(StartBlock, to) = {}
      /\ to <= BlockNumber /\ StartBlock <= to + 1 /\ FactoryDeployBlock <= to
  BY <1>1, RangeFacts DEF FollowInv
<1>3. /\ to \in Nat /\ BlockNumber \in Nat /\ StartBlock \in Nat /\ Position \in Nat
      /\ db.cursor # NoCursor => db.cursor.number = Position /\ StartBlock = Position + 1
      /\ db.cursor = NoCursor => StartBlock = FactoryDeployBlock
  BY Numbers
<1>4. DatabaseInv' /\ Position' = to
  BY FinishRangeMovesTo
<1>5. /\ db'.cursor = [number |-> to, hash |-> HeaderHash(to)]
      /\ db'.blocks = db.blocks /\ db'.pairs = db.pairs /\ db'.rows = db.rows
  BY <1>1, SetIndexerStateFields
<1>6. CASE StartBlock <= to
  <2>1. Nothing(StartBlock, to)
    BY <1>2 DEF Nothing, NewPairs
  <2>2. Logs(StartBlock, to - 1) \subseteq Logs(StartBlock, to) /\ Logs(to, to) \subseteq Logs(StartBlock, to)
    BY <1>3, <1>6, LogsMember
  <2>3. Nothing(StartBlock, to - 1) /\ Created(Logs(to, to)) = {} /\ (Complete => NewRows(to) = {})
    BY <2>1, <2>2 DEF Nothing, Created, NewRows
  <2>4. to \in StartBlock .. BlockNumber
    BY <1>2, <1>3, <1>6
  <2>5. /\ DOMAIN db'.pairs = DOMAIN db.pairs \cup Created(Logs(to, to))
        /\ \A p \in DOMAIN db'.pairs :
             db'.pairs[p].created = IF p \in DOMAIN db.pairs THEN db.pairs[p].created ELSE to
    BY <1>5, <2>3
  <2>6. Complete => db'.rows = db.rows \cup NewRows(to)
    BY <1>5, <2>3
  <2> QED
    BY <1>1, <1>2, <1>4, <1>5, <2>3, <2>4, <2>5, <2>6, CursorAdvances DEF FollowInv
<1>7. CASE ~(StartBlock <= to)
  <2>1. db.cursor # NoCursor /\ Position = to /\ db.cursor.number = to
    BY <1>2, <1>3, <1>7
  <2>2. db.cursor.hash = HeaderHash(to)
    BY <1>2, <2>1, CanonicalMark DEF IsCanonical
  <2>3. db.cursor = [number |-> to, hash |-> HeaderHash(to)]
    BY <2>1, <2>2 DEF TypeInv, DatabaseInv
  <2>4. db'.cursor = db.cursor /\ Marks' = Marks
    BY <1>5, <2>3 DEF Marks
  <2>5. \A k : Agrees(k)' <=> Agrees(k)
    <3> SUFFICES ASSUME NEW k PROVE Agrees(k)' <=> Agrees(k)
      OBVIOUS
    <3>1. RowsTo(k)' = RowsTo(k) /\ PairsTo(k)' = PairsTo(k)
      BY <1>5 DEF RowsTo, PairsTo
    <3> QED
      BY <1>1, <3>1, PrefixStays DEF Agrees
  <2>6. \A m \in Marks : IsCanonical(m)' => Agrees(m.number)'
    <3> SUFFICES ASSUME NEW m \in Marks, IsCanonical(m)' PROVE Agrees(m.number)'
      OBVIOUS
    <3>1. IsCanonical(m)
      BY <1>1 DEF IsCanonical, HeaderHash
    <3> DEFINE k == m.number
    <3>2. Agrees(k)
      BY <3>1 DEF FollowInv, MarksInv
    <3> QED
      BY <2>5, <3>2
  <2>7. \A b \in db'.blocks : b.number = Position' => b = db'.cursor
    BY <1>4, <1>5, <2>1, <2>4 DEF FollowInv, MarksInv
  <2>8. Complete => db'.rows = P!RowsUpTo(to)
    BY <1>2, <1>3, <1>5, <2>1, BaseAgrees DEF FollowInv
  <2> QED
    BY <2>4, <2>6, <2>7, <2>8 DEF MarksInv
<1> QED
  BY <1>6, <1>7

LEMMA AncestorAgrees ==
  ASSUME TypeInv, FollowInv, pc = "rollback"
  PROVE  Agrees(ancestor) /\ ancestor \in Nat /\ FactoryDeployBlock <= ancestor /\ ancestor < Position
<1>1. db.cursor # NoCursor /\ ancestor \in FactoryDeployBlock .. Position
  BY DEF TypeInv, LocalsInv
<1>2. ancestor = FactoryDeployBlock \/ StillCanonical(ancestor)
  BY DEF FollowInv, WalkInv
<1>3. CASE ancestor = FactoryDeployBlock
  <2>1. FactoryMark \in Marks /\ IsCanonical(FactoryMark) /\ FactoryMark.number = ancestor
    BY <1>1, <1>3, FactoryIsCanonical DEF Marks, FactoryMark, TypeInv
  <2> QED
    BY <1>1, <2>1, Numbers DEF FollowInv, MarksInv, WalkInv
<1>4. CASE StillCanonical(ancestor)
  <2> DEFINE m == [number |-> ancestor, hash |-> HeaderHash(ancestor)]
  <2>1. m \in Marks /\ IsCanonical(m) /\ m.number = ancestor
    BY <1>1, <1>4 DEF StillCanonical, BlockStored, Marks, IsCanonical
  <2> HIDE DEF m
  <2> QED
    BY <1>1, <2>1, Numbers DEF FollowInv, MarksInv, WalkInv
<1> QED
  BY <1>2, <1>3, <1>4

LEMMA RollbackFollows ==
  ASSUME TypeInv, FollowInv, pc = "rollback", UNCHANGED <<chain, fork>>,
         db' = SetIndexerState(RollbackFrom(db, ancestor + 1), ancestor, HeaderHash(ancestor))
  PROVE  /\ MarksInv'
         /\ Canonical'
         /\ DOMAIN db'.pairs \subseteq DOMAIN db.pairs
         /\ db'.rows = RowsTo(ancestor)
<1>1. /\ Agrees(ancestor) /\ ancestor \in Nat /\ FactoryDeployBlock <= ancestor /\ ancestor < Position
      /\ IsDatabase(db) /\ ancestor \in 1 .. BlockNumber /\ BlockNumber \in Nat
      /\ Position \in Nat /\ db.cursor # NoCursor
  BY AncestorAgrees, Numbers DEF TypeInv, DatabaseInv
<1> DEFINE left == {p \in DOMAIN db.pairs : db.pairs[p].created < ancestor + 1}
<1>2. /\ db'.cursor = [number |-> ancestor, hash |-> HeaderHash(ancestor)]
      /\ db'.blocks = {b \in db.blocks : b.number < ancestor + 1}
      /\ db'.rows = {r \in db.rows : r.number < ancestor + 1 /\ r.pair \in left}
      /\ DOMAIN db'.pairs = left
      /\ \A p \in left : db'.pairs[p] = db.pairs[p]
  BY <1>1, RollbackFields
<1>3. Position' = ancestor /\ db'.cursor # NoCursor
  BY RollbackMovesTo
<1>4. left = PairsTo(ancestor)
  BY <1>1, StoredNumbers DEF PairsTo
<1> HIDE DEF left
<1>5. ASSUME NEW k \in Nat, k <= ancestor, Agrees(k)
      PROVE  RowsTo(k)' = RowsTo(k) /\ Agrees(k)'
  <2>1. \A r \in RowsTo(k) : r.pair \in left
    <3> SUFFICES ASSUME NEW r \in RowsTo(k) PROVE r.pair \in left
      OBVIOUS
    <3>1. PICK e \in Logs(1, k) : r = ChainRow(e)
      BY <1>5, RowMember DEF Agrees
    <3>2. k \in 0 .. BlockNumber
      BY <1>1, <1>5
    <3>3. PICK d \in Logs(1, k) : d.kind = "PairCreated" /\ d.pair = e.pair
      BY <3>2, ExecutableFacts DEF TypeInv
    <3>4. d.pair \in PairsTo(k)
      BY <1>5, <3>3 DEF Agrees, Created
    <3>5. d.pair \in PairsTo(ancestor)
      BY <1>1, <1>5, <3>4, StoredNumbers DEF PairsTo
    <3> QED
      BY <1>4, <3>1, <3>3, <3>5, ChainRowFields
  <2>2. RowsTo(k)' = RowsTo(k)
    BY <1>1, <1>2, <1>5, <2>1, StoredNumbers DEF RowsTo
  <2>3. PairsTo(k)' = PairsTo(k)
    <3>1. PairsTo(k) \subseteq left
      BY <1>1, <1>4, <1>5, StoredNumbers DEF PairsTo
    <3> QED
      BY <1>2, <1>4, <3>1 DEF PairsTo
  <2> QED
    BY <1>5, <2>2, <2>3, PrefixStays DEF Agrees
<1>6. PICK a \in Nat : a = ancestor
  BY <1>1
<1>7. RowsTo(a)' = RowsTo(a) /\ Agrees(a)'
  BY <1>1, <1>5, <1>6
<1>8. db'.rows = RowsTo(ancestor)
  <2>1. RowsTo(a)' = db'.rows
    BY <1>1, <1>2, <1>6, StoredNumbers DEF RowsTo
  <2> QED
    BY <1>6, <1>7, <2>1
<1>9. Canonical'
  <2>1. HeaderHash(db.cursor.number)' = HeaderHash(ancestor)
    BY <1>2 DEF HeaderHash
  <2> QED
    BY <1>2, <2>1 DEF Canonical, P!OnChain, P!HeaderHash, HeaderHash
<1>10. ASSUME NEW m \in Marks', IsCanonical(m)' PROVE Agrees(m.number)'
  <2>1. CASE m = db'.cursor
    BY <1>2, <1>6, <1>7, <2>1
  <2>2. CASE m \in Marks /\ m.number <= a
    <3>1. IsCanonical(m)
      BY <1>10 DEF IsCanonical, HeaderHash
    <3> DEFINE k == m.number
    <3>2. Agrees(k) /\ k \in Nat /\ k <= ancestor
      BY <1>6, <2>2, <3>1, StoredNumbers DEF FollowInv, MarksInv
    <3> QED
      BY <1>5, <3>2
  <2>3. FactoryMark \in Marks /\ FactoryMark.number <= a
    BY <1>1, <1>6 DEF Marks, FactoryMark
  <2>4. \A b \in db'.blocks : b \in Marks /\ b.number <= a
    BY <1>1, <1>2, <1>6, StoredNumbers
  <2> QED
    BY <1>3, <2>1, <2>2, <2>3, <2>4 DEF Marks
<1>11. ASSUME NEW b \in db'.blocks, b.number = ancestor PROVE b = db'.cursor
  <2>1. b \in db.blocks /\ b \in Marks
    BY <1>2, StoredNumbers
  <2>2. CASE ancestor = FactoryDeployBlock
    <3>1. b = FactoryMark
      BY <1>11, <2>1, <2>2 DEF TypeInv, DatabaseInv
    <3> QED
      BY <1>2, <2>2, <3>1, FactoryIsCanonical DEF IsCanonical, FactoryMark, TypeInv
  <2>3. CASE StillCanonical(ancestor)
    BY <1>2, <1>11, <2>1, <2>3 DEF StillCanonical, BlockStored, TypeInv, DatabaseInv
  <2> QED
    BY <2>2, <2>3 DEF FollowInv, WalkInv
<1> QED
  BY <1>2, <1>3, <1>4, <1>8, <1>9, <1>10, <1>11 DEF MarksInv, left

-----------------------------------------------------------------------------
(* The invariant is inductive.                                             *)

LEMMA Unmoved ==
  ASSUME UNCHANGED <<chain, fork, db>>
  PROVE  /\ MarksInv' <=> MarksInv
         /\ Canonical' <=> Canonical
         /\ Position' = Position /\ StartBlock' = StartBlock
         /\ \A i, j : Logs(i, j)' = Logs(i, j)
         /\ \A n : StillCanonical(n)' <=> StillCanonical(n)
<1>1. Marks' = Marks /\ Position' = Position /\ StartBlock' = StartBlock
  BY DEF Marks, Position, StartBlock
<1>2. \A k : Agrees(k)' <=> Agrees(k)
  BY AgreementStays
<1>3. \A i, j : Logs(i, j)' = Logs(i, j)
  BY DEF Logs, EventsIn
<1>4. Canonical' <=> Canonical
  BY DEF Canonical, P!OnChain, P!HeaderHash
<1>5. \A n : StillCanonical(n)' <=> StillCanonical(n)
  BY DEF StillCanonical, BlockStored, HeaderHash
<1>6. \A m : IsCanonical(m)' <=> IsCanonical(m)
  BY DEF IsCanonical, HeaderHash
<1>7. MarksInv' <=> MarksInv
  BY <1>1, <1>2, <1>6 DEF MarksInv
<1> QED
  BY <1>1, <1>3, <1>4, <1>5, <1>7

LEMMA InitFollows == Init => FollowInv
<1> SUFFICES ASSUME Init PROVE FollowInv
  OBVIOUS
<1>1. db.cursor = NoCursor /\ db.blocks = {} /\ db.pairs = <<>> /\ pc = "down" /\ Marks = {}
  BY DEF Init, EmptyDatabase, Marks
<1>2. Canonical
  BY <1>1 DEF Canonical, P!OnChain
<1> QED
  BY <1>1, <1>2 DEF FollowInv, MarksInv, WalkInv, TickInv, LogsInv, KnownInv

(* The walk back starts at a cursor that is gone, above the factory.       *)
LEMMA WalkStarts ==
  ASSUME TypeInv, FollowInv, ~Canonical
  PROVE  /\ ~StillCanonical(Position)
         /\ FactoryDeployBlock < Position
<1>1. db.cursor # NoCursor /\ ~IsCanonical(db.cursor) /\ db.cursor \in Marks /\ Position = db.cursor.number
  BY CanonicalMark, Numbers DEF Marks
<1>2. ~StillCanonical(Position)
  <2> SUFFICES ASSUME StillCanonical(Position) PROVE FALSE
    OBVIOUS
  <2> DEFINE b == [number |-> Position, hash |-> HeaderHash(Position)]
  <2>1. b \in db.blocks /\ b.number = Position
    BY DEF StillCanonical, BlockStored
  <2>2. b = db.cursor
    BY <2>1 DEF FollowInv, MarksInv
  <2> QED
    BY <1>1, <2>2 DEF IsCanonical
<1>3. Position # FactoryDeployBlock
  BY <1>1, FactoryIsCanonical DEF TypeInv, DatabaseInv
<1> QED
  BY <1>1, <1>2, <1>3, Numbers

LEMMA ChainMovesFollow ==
  ASSUME Regime, TypeInv, FollowInv, ChainMoves
  PROVE  FollowInv'
<1>1. PICK n \in Nat : /\ MovesAbove(n)
                       /\ (ReorgDepth <= Confirmations \/ pc \notin {"down", "idle"}) => SafeBlock(BlockNumber) <= n
  BY ChainMovesAbove DEF TypeInv
<1>2. UNCHANGED <<db, knownPairs, pc, safe, ancestor, to, logs>>
  BY DEF ChainMoves, memory, locals
<1>3. MarksInv'
  BY <1>1, <1>2, MarksOutliveChain DEF FollowInv
<1>4. Position' = Position /\ StartBlock' = StartBlock
  BY <1>2 DEF Position, StartBlock
<1>5. ASSUME ReorgDepth <= Confirmations \/ pc \notin {"down", "idle"}
      PROVE  \A h \in 1 .. SafeBlock(BlockNumber) : chain'[h] = chain[h]
  BY <1>1, <1>5, Numbers DEF MovesAbove
<1>6. ASSUME ReorgDepth <= Confirmations \/ pc \notin {"down", "idle"}
      PROVE  Canonical' <=> Canonical
  <2>1. db.cursor # NoCursor => db.cursor.number \in 1 .. SafeBlock(BlockNumber)
    BY Numbers
  <2> QED
    BY <1>2, <1>5, <1>6, <2>1 DEF Canonical, P!OnChain, P!HeaderHash
<1>7. WalkInv'
  <2>1. CASE pc \in {"walk", "rollback"}
    <3>1. \A h \in FactoryDeployBlock .. Position : StillCanonical(h)' <=> StillCanonical(h)
      <4>1. \A h \in FactoryDeployBlock .. Position : chain'[h] = chain[h]
        BY <1>5, <2>1, Numbers
      <4> QED
        BY <1>2, <4>1 DEF StillCanonical, BlockStored, HeaderHash
    <3>2. ancestor \in FactoryDeployBlock .. Position
      BY <2>1 DEF TypeInv, LocalsInv
    <3>3. Passed(ancestor)' <=> \A h \in ancestor .. Position : ~StillCanonical(h)'
      BY <1>2, <1>4 DEF Passed
    <3>4. Passed(ancestor + 1)' <=> \A h \in ancestor + 1 .. Position : ~StillCanonical(h)'
      BY <1>2, <1>4 DEF Passed
    <3>5. StillCanonical(ancestor)' <=> StillCanonical(ancestor)
      <4>1. chain'[ancestor] = chain[ancestor]
        BY <1>5, <2>1, <3>2, Numbers
      <4> QED
        BY <1>2, <4>1 DEF StillCanonical, BlockStored, HeaderHash
    <3>6. pc = "walk" => Passed(ancestor)'
      BY <3>1, <3>2, <3>3, Numbers DEF FollowInv, WalkInv, Passed
    <3>7. pc = "rollback" => Passed(ancestor + 1)'
      BY <3>1, <3>2, <3>4, Numbers DEF FollowInv, WalkInv, Passed
    <3> QED
      BY <1>2, <1>4, <1>6, <2>1, <3>5, <3>6, <3>7 DEF FollowInv, WalkInv
  <2>2. CASE pc \notin {"walk", "rollback"}
    BY <1>2, <2>2 DEF WalkInv
  <2> QED
    BY <2>1, <2>2
<1>8. TickInv'
  BY <1>2, <1>6 DEF FollowInv, TickInv
<1>9. LogsInv'
  <2>1. CASE InRange
    <3>1. \A h \in StartBlock .. to : chain'[h] = chain[h]
      BY <1>5, <2>1, Numbers DEF InRange
    <3>2. Logs(StartBlock, to)' = Logs(StartBlock, to)
      BY <1>2, <1>4, <3>1 DEF Logs, EventsIn
    <3> QED
      BY <1>2, <1>4, <3>2 DEF FollowInv, LogsInv, NewPairs
  <2>2. CASE ~InRange
    BY <1>2, <2>2 DEF LogsInv, InRange
  <2> QED
    BY <2>1, <2>2
<1>10. KnownInv'
  BY <1>2 DEF FollowInv, KnownInv
<1> QED
  BY <1>3, <1>7, <1>8, <1>9, <1>10 DEF FollowInv

LEMMA FollowStep == Regime /\ TypeInv /\ FollowInv /\ [Next]_vars => FollowInv'
<1> SUFFICES ASSUME Regime, TypeInv, FollowInv, [Next]_vars PROVE FollowInv'
  OBVIOUS
<1>1. CASE Preflight
  <2>1. UNCHANGED <<chain, fork, db>> /\ knownPairs' = StoredPairs /\ pc' = "idle"
    BY <1>1 DEF Preflight, outside
  <2>2. KnownInv'
    BY <2>1 DEF KnownInv, StoredPairs
  <2> QED
    BY <2>1, <2>2, Unmoved DEF FollowInv, WalkInv, TickInv, LogsInv
<1>2. CASE TickStart
  <2>1. UNCHANGED <<chain, fork, db, knownPairs>> /\ pc = "idle" /\ pc' = "check"
    BY <1>2 DEF TickStart, outside, memory
  <2> QED
    BY <2>1, Unmoved DEF FollowInv, WalkInv, TickInv, LogsInv, KnownInv
<1>3. CASE CheckReorg
  <2>1. /\ UNCHANGED <<chain, fork, db, knownPairs>> /\ pc = "check"
        /\ \/ Canonical /\ pc' = "start"
           \/ ~Canonical /\ pc' = "walk" /\ ancestor' = db.cursor.number
    BY <1>3 DEF CheckReorg, outside, memory, Canonical, P!OnChain, P!HeaderHash, HeaderHash
  <2>2. KnownInv'
    BY <2>1 DEF FollowInv, KnownInv
  <2>3. CASE Canonical /\ pc' = "start"
    BY <2>1, <2>2, <2>3, Unmoved DEF FollowInv, WalkInv, TickInv, LogsInv
  <2>4. CASE ~Canonical /\ pc' = "walk" /\ ancestor' = db.cursor.number
    <3>1. db.cursor # NoCursor
      BY <2>4, CanonicalMark
    <3>2. ancestor' = Position /\ Position \in Nat
      BY <2>4, <3>1, Numbers
    <3>3. Passed(ancestor)'
      BY <2>1, <2>4, <3>2, Unmoved, WalkStarts DEF Passed
    <3> QED
      BY <2>1, <2>2, <2>4, <3>3, Unmoved DEF FollowInv, WalkInv, TickInv, LogsInv
  <2> QED
    BY <2>1, <2>3, <2>4
<1>4. CASE WalkBack
  <2>1. /\ UNCHANGED <<chain, fork, db, knownPairs>> /\ pc = "walk"
        /\ \/ /\ ancestor > FactoryDeployBlock /\ ancestor' = ancestor - 1
              /\ pc' = IF StillCanonical(ancestor - 1) THEN "rollback" ELSE "walk"
           \/ /\ ~(ancestor > FactoryDeployBlock) /\ ancestor' = ancestor
              /\ pc' = "rollback"
    BY <1>4 DEF WalkBack, outside, memory
  <2>2. /\ ancestor \in FactoryDeployBlock .. Position /\ ancestor \in Nat /\ Position \in Nat
        /\ FactoryDeployBlock < Position /\ ~Canonical
        /\ \A n \in ancestor .. Position : ~StillCanonical(n)
    BY <2>1, Numbers, WalkStarts DEF TypeInv, LocalsInv, FollowInv, WalkInv, Passed
  <2>3. KnownInv'
    BY <2>1 DEF FollowInv, KnownInv
  <2>4. CASE /\ ancestor > FactoryDeployBlock /\ ancestor' = ancestor - 1
             /\ pc' = IF StillCanonical(ancestor - 1) THEN "rollback" ELSE "walk"
    <3>1. CASE StillCanonical(ancestor - 1)
      <4>1. StillCanonical(ancestor)'
        BY <2>1, <2>4, <3>1 DEF StillCanonical, BlockStored, HeaderHash
      <4>2. Passed(ancestor + 1)'
        BY <2>1, <2>2, <2>4, Numbers, Unmoved DEF Passed
      <4> QED
        BY <2>1, <2>2, <2>3, <2>4, <3>1, <4>1, <4>2, Unmoved DEF FollowInv, WalkInv, TickInv, LogsInv
    <3>2. CASE ~StillCanonical(ancestor - 1)
      <4>1. Passed(ancestor)'
        <5>1. \A n \in ancestor - 1 .. Position : n = ancestor - 1 \/ n \in ancestor .. Position
          BY <2>2, Numbers
        <5>2. \A n \in ancestor - 1 .. Position : ~StillCanonical(n)
          BY <2>2, <3>2, <5>1
        <5> QED
          BY <2>1, <2>4, <5>2, Unmoved DEF Passed
      <4> QED
        BY <2>1, <2>2, <2>3, <2>4, <3>2, <4>1, Unmoved DEF FollowInv, WalkInv, TickInv, LogsInv
    <3> QED
      BY <3>1, <3>2
  <2>5. CASE /\ ~(ancestor > FactoryDeployBlock) /\ ancestor' = ancestor
             /\ pc' = "rollback"
    <3>1. ancestor = FactoryDeployBlock
      BY <2>2, <2>5, Numbers
    <3>2. Passed(ancestor + 1)'
      BY <2>1, <2>2, <2>5, Numbers, Unmoved DEF Passed
    <3> QED
      BY <2>1, <2>2, <2>3, <2>5, <3>1, <3>2, Unmoved DEF FollowInv, WalkInv, TickInv, LogsInv
  <2> QED
    BY <2>1, <2>4, <2>5
<1>5. CASE Rollback \/ RollbackUnacknowledged
  <2>1. /\ UNCHANGED <<chain, fork, knownPairs>> /\ pc = "rollback" /\ pc' \in {"reload", "idle"}
        /\ db' = SetIndexerState(RollbackFrom(db, ancestor + 1), ancestor, HeaderHash(ancestor))
    BY <1>5 DEF Rollback, RollbackUnacknowledged, outside, memory
  <2>2. MarksInv' /\ Canonical' /\ DOMAIN db'.pairs \subseteq DOMAIN db.pairs
    BY <2>1, RollbackFollows
  <2>3. KnownInv'
    BY <2>1, <2>2 DEF FollowInv, KnownInv
  <2>4. ~(ReorgDepth <= Confirmations)
    BY <2>1 DEF FollowInv, WalkInv, TickInv
  <2> QED
    BY <2>1, <2>2, <2>3, <2>4 DEF FollowInv, WalkInv, TickInv, LogsInv
<1>6. CASE Reload
  <2>1. /\ UNCHANGED <<chain, fork, db>> /\ knownPairs' = StoredPairs
        /\ pc = "reload" /\ pc' = "start"
    BY <1>6 DEF Reload, outside
  <2>2. KnownInv'
    BY <2>1 DEF KnownInv, StoredPairs
  <2> QED
    BY <2>1, <2>2, Unmoved DEF FollowInv, WalkInv, TickInv, LogsInv
<1>7. CASE ReloadFails
  <2>1. /\ UNCHANGED <<chain, fork, db>> /\ pc = "reload" /\ pc' = "idle" /\ "reload" \in faults
    BY <1>7 DEF ReloadFails, outside
  <2>2. ~Complete
    BY <2>1 DEF TypeInv, LocalsInv, FollowInv, TickInv, Complete
  <2> QED
    BY <2>1, <2>2, Unmoved DEF FollowInv, WalkInv, TickInv, LogsInv, KnownInv
<1>8. CASE CaughtUp \/ RangeTooLarge \/ RequestFails
  <2>1. /\ UNCHANGED <<chain, fork, db, knownPairs>> /\ pc' = "idle" /\ pc # "down"
    BY <1>8 DEF CaughtUp, RangeTooLarge, RequestFails, outside, memory
  <2> QED
    BY <2>1, Unmoved DEF FollowInv, WalkInv, TickInv, LogsInv, KnownInv
<1>9. CASE Crash
  <2>1. /\ UNCHANGED <<chain, fork, db>> /\ pc' = "down"
    BY <1>9 DEF Crash, outside
  <2> QED
    BY <2>1, Unmoved DEF FollowInv, WalkInv, TickInv, LogsInv, KnownInv
<1>10. CASE ProcessBlockFails
  <2>1. /\ UNCHANGED <<chain, fork, db>> /\ pc = "blocks" /\ pc' = "idle"
        /\ \E ls : knownPairs' = Remembered(ls)
    BY <1>10 DEF ProcessBlockFails, outside
  <2>2. DOMAIN knownPairs \subseteq DOMAIN knownPairs'
    BY <2>1 DEF Remembered
  <2> QED
    BY <2>1, <2>2, Unmoved DEF FollowInv, WalkInv, TickInv, LogsInv, KnownInv
<1>11. CASE FetchFactoryLogs
  <2>1. /\ UNCHANGED <<chain, fork, db, knownPairs>> /\ pc = "start" /\ pc' = "pairlogs"
        /\ logs' = {l \in Logs(StartBlock, to') : l.kind = "PairCreated"}
    BY <1>11 DEF FetchFactoryLogs, outside, memory
  <2>2. LogsInv'
    <3>1. Logs(StartBlock, to)' = Logs(StartBlock, to')
      BY <2>1, Unmoved DEF Logs, EventsIn
    <3> QED
      BY <2>1, <3>1 DEF LogsInv, NewPairs
  <2> QED
    BY <2>1, <2>2, Unmoved DEF FollowInv, WalkInv, TickInv, KnownInv
<1>12. CASE FetchPairLogs
  <2>1. /\ UNCHANGED <<chain, fork, db, knownPairs, to>> /\ pc = "pairlogs" /\ pc' = "blocks"
        /\ logs' = logs \cup {l \in Logs(StartBlock, to) : l.kind # "PairCreated" /\ l.pair \in PairAddresses}
    BY <1>12 DEF FetchPairLogs, outside, memory
  <2>2. logs = NewPairs /\ Canonical
    BY <2>1 DEF FollowInv, LogsInv, TickInv
  <2>3. ASSUME Complete, NEW e \in Logs(StartBlock, to) PROVE e.pair \in PairAddresses
    <3>1. e.block \in StartBlock .. to /\ e \in EventsIn(chain, e.block)
      BY LogsMember
    <3>2. /\ StartBlock \in Nat /\ StartBlock >= 1 /\ to \in 0 .. BlockNumber /\ to \in Nat
      BY Numbers
    <3>3. e \in Logs(1, to)
      BY <3>1, <3>2, LogsMember
    <3>4. PICK d \in Logs(1, to) : d.kind = "PairCreated" /\ d.pair = e.pair
      BY <3>2, <3>3, ExecutableFacts DEF TypeInv
    <3>5. CASE d.block < StartBlock
      <4>1. d \in Logs(1, StartBlock - 1)
        BY <3>2, <3>4, <3>5, LogsMember
      <4>2. d.pair \in DOMAIN db.pairs
        BY <2>2, <3>4, <4>1, BaseAgrees DEF FollowInv, Created
      <4> QED
        BY <2>1, <2>3, <3>4, <4>2 DEF FollowInv, KnownInv, PairAddresses
    <3>6. CASE StartBlock <= d.block
      <4>1. d \in Logs(StartBlock, to)
        BY <3>2, <3>4, <3>6, LogsMember
      <4>2. d \in logs
        BY <2>2, <3>4, <4>1 DEF NewPairs
      <4> QED
        BY <3>4, <4>2 DEF PairAddresses
    <3>7. d.block \in Nat
      BY <3>2, <3>4, LogsMember
    <3> QED
      BY <3>2, <3>5, <3>6, <3>7
  <2>4. LogsInv'
    <3>1. Logs(StartBlock, to)' = Logs(StartBlock, to)
      BY <2>1, Unmoved DEF Logs, EventsIn
    <3>2. NewPairs \subseteq logs' /\ logs' \subseteq Logs(StartBlock, to)
      BY <2>1, <2>2 DEF NewPairs
    <3>3. Complete => logs' = Logs(StartBlock, to)
      BY <2>1, <2>2, <2>3 DEF NewPairs
    <3>4. NewPairs' = NewPairs
      BY <3>1 DEF NewPairs
    <3> QED
      BY <2>1, <3>1, <3>2, <3>3, <3>4 DEF LogsInv
  <2> QED
    BY <2>1, <2>4, Unmoved DEF FollowInv, WalkInv, TickInv, KnownInv
<1>13. CASE ProcessBlock
  <2>1. /\ UNCHANGED <<chain, fork, pc, to>> /\ pc = "blocks" /\ logs # {}
        /\ db' = Committed(FirstBlock, OfBlock(FirstBlock))
        /\ knownPairs' = Remembered(OfBlock(FirstBlock)) /\ logs' = logs \ OfBlock(FirstBlock)
    BY <1>13 DEF ProcessBlock, outside
  <2>2. MarksInv'
    BY <1>13, ProcessBlockFollows
  <2>3. /\ Position' = FirstBlock /\ StartBlock' = FirstBlock + 1
    BY <1>13, ProcessBlockMovesTo
  <2>4. Canonical'
    <3>1. db'.cursor = [number |-> FirstBlock, hash |-> HeaderHash(FirstBlock)]
      BY <2>1, CommittedFields DEF TypeInv, DatabaseInv
    <3>2. db'.cursor.hash = chain'[db'.cursor.number].hash
      BY <2>1, <3>1 DEF HeaderHash
    <3> QED
      BY <3>2 DEF Canonical, P!OnChain, P!HeaderHash
  <2>5. LogsInv'
    <3>1. /\ FirstBlock \in StartBlock .. to /\ FirstBlock \in Nat /\ StartBlock \in Nat /\ to \in Nat
          /\ \A l \in logs : FirstBlock <= l.block
      BY <2>1, FirstBlockFacts, Numbers
    <3>2. Logs(StartBlock, to)' = Logs(FirstBlock + 1, to)
      BY <2>1, <2>3 DEF Logs, EventsIn
    <3>3. \A e : e \in Logs(FirstBlock + 1, to) <=> e \in Logs(StartBlock, to) /\ FirstBlock < e.block
      BY <3>1, LogsMember
    <3>4. \A e \in Logs(StartBlock, to) : e.block \in Nat
      BY <3>1, LogsMember
    <3>5. NewPairs \subseteq logs /\ logs \subseteq Logs(StartBlock, to) /\ (Complete => logs = Logs(StartBlock, to))
      BY <2>1, RangeFacts DEF FollowInv
    <3>6. \A e \in logs : e \in logs' <=> FirstBlock < e.block
      BY <2>1, <3>1, <3>4, <3>5 DEF OfBlock
    <3>7. logs' \subseteq Logs(FirstBlock + 1, to) /\ (Complete => logs' = Logs(FirstBlock + 1, to))
      BY <2>1, <3>3, <3>5, <3>6
    <3>8. NewPairs' = {e \in Logs(FirstBlock + 1, to) : e.kind = "PairCreated"}
      BY <3>2 DEF NewPairs
    <3>9. NewPairs' \subseteq logs'
      BY <3>3, <3>5, <3>6, <3>8 DEF NewPairs
    <3> QED
      BY <2>1, <3>2, <3>7, <3>9 DEF LogsInv
  <2>6. KnownInv'
    <3>1. DOMAIN db'.pairs = DOMAIN db.pairs \cup Created(OfBlock(FirstBlock))
      <4> DEFINE n == FirstBlock
                 ls == OfBlock(n)
      <4>1. IsDatabase(db) /\ db' = Committed(n, ls)
        BY <2>1 DEF TypeInv, DatabaseInv
      <4> HIDE DEF n, ls
      <4>2. db'.pairs = WritePairs(db, n, Created(ls), LastSync(ls)).pairs
        BY <4>1, CommittedFields
      <4>3. DOMAIN db'.pairs = DOMAIN db.pairs \cup Created(ls)
        BY <4>1, <4>2, WritePairsFields
      <4> QED
        BY <4>3 DEF n, ls
    <3>2. DOMAIN knownPairs' = DOMAIN knownPairs \cup Created(OfBlock(FirstBlock))
      BY <2>1 DEF Remembered
    <3> QED
      BY <2>1, <3>1, <3>2 DEF FollowInv, KnownInv
  <2> QED
    BY <2>1, <2>2, <2>4, <2>5, <2>6 DEF FollowInv, WalkInv, TickInv
<1>14. CASE FinishRange
  <2>1. /\ UNCHANGED <<chain, fork, knownPairs>> /\ pc = "blocks" /\ pc' = "idle"
        /\ db' = SetIndexerState(db, to, HeaderHash(to)) /\ IsDatabase(db)
    BY <1>14 DEF FinishRange, outside, memory, TypeInv, DatabaseInv
  <2>2. MarksInv'
    BY <1>14, FinishRangeFollows
  <2>3. db'.cursor = [number |-> to, hash |-> HeaderHash(to)] /\ db'.pairs = db.pairs
    BY <2>1, SetIndexerStateFields
  <2>4. Canonical'
    <3>1. db'.cursor.hash = chain'[db'.cursor.number].hash
      BY <2>1, <2>3 DEF HeaderHash
    <3> QED
      BY <3>1 DEF Canonical, P!OnChain, P!HeaderHash
  <2> QED
    BY <2>1, <2>2, <2>3, <2>4 DEF FollowInv, WalkInv, TickInv, LogsInv, KnownInv
<1>15. CASE ChainMoves
  BY <1>15, ChainMovesFollow
<1>16. CASE FaultsCease \/ UNCHANGED vars
  <2>1. UNCHANGED <<chain, fork, db, knownPairs, pc, ancestor, to, logs>>
    BY <1>16 DEF FaultsCease, vars, memory, locals
  <2>2. NewPairs' = NewPairs /\ \A k : Passed(k)' <=> Passed(k)
    BY <2>1, Unmoved DEF NewPairs, Passed, Logs, EventsIn
  <2> QED
    BY <2>1, <2>2, Unmoved DEF FollowInv, WalkInv, TickInv, LogsInv, KnownInv, Logs, EventsIn,
       StillCanonical, BlockStored, HeaderHash, Passed
<1> QED
  BY <1>1, <1>2, <1>3, <1>4, <1>5, <1>6, <1>7, <1>8, <1>9, <1>10, <1>11, <1>12, <1>13, <1>14, <1>15, <1>16
  DEF Next, Step, Fault

-----------------------------------------------------------------------------
(* The whole inductive invariant: in the regime every step of the indexer, *)
(* of a failure and of the chain keeps what the marks vouch for.           *)
THEOREM IndexerFollowsChain ==
  ASSUME Regime
  PROVE  Spec => [](TypeInv /\ FollowInv)
<1>1. Init => TypeInv /\ FollowInv
  BY InitType, InitFollows
<1>2. TypeInv /\ FollowInv /\ [Next]_vars => (TypeInv /\ FollowInv)'
  BY TypeStep, FollowStep
<1> QED
  BY <1>1, <1>2, PTL DEF Spec

LEMMA CanonicalCursorAgrees ==
  ASSUME TypeInv, FollowInv, Canonical
  PROVE  /\ db.rows \subseteq P!RowsUpTo(Position)
         /\ Complete => db.rows = P!RowsUpTo(Position)
<1>1. CASE db.cursor # NoCursor
  <2>1. Position = StartBlock - 1
    BY <1>1, Numbers
  <2> QED
    BY <2>1, BaseAgrees DEF FollowInv
<1>2. CASE db.cursor = NoCursor
  <2>1. db.rows = {} /\ Position = 0
    BY <1>2, Numbers DEF TypeInv, DatabaseInv
  <2>2. P!RowsUpTo(0) = {}
    BY RowMember, LogsMember
  <2> QED
    BY <2>1, <2>2
<1> QED
  BY <1>1, <1>2

(* In the regime, and whatever fails, no event row outlives its block,     *)
(* doubles another or holds the data of another block: Tick, checkReorg,   *)
(* processRange, applyLog and RollbackFrom leave no stale row.             *)
THEOREM IndexerNoStaleRows ==
  ASSUME Regime
  PROVE  Spec => []NoStaleRows
<1>1. TypeInv /\ FollowInv => NoStaleRows
  BY CanonicalCursorAgrees DEF NoStaleRows
<1> QED
  BY <1>1, IndexerFollowsChain, PTL

(* When the pairs can be read back after each rollback, no row is lost     *)
(* either: the tables are those of a rebuild from the canonical chain.     *)
THEOREM IndexerRowsFollowChain ==
  ASSUME Regime, Complete
  PROVE  Spec => []RowsFollowChain
<1>1. TypeInv /\ FollowInv => RowsFollowChain
  BY CanonicalCursorAgrees DEF RowsFollowChain
<1> QED
  BY <1>1, IndexerFollowsChain, PTL

(* And between two ticks the process knows every pair it has stored.       *)
THEOREM IndexerForgetsNoPair ==
  ASSUME Regime, Complete
  PROVE  Spec => []NoPairForgotten
<1>1. FollowInv => NoPairForgotten
  BY DEF FollowInv, KnownInv, NoPairForgotten
<1> QED
  BY <1>1, IndexerFollowsChain, PTL

-----------------------------------------------------------------------------
(* What a step may do to the event tables.                                 *)

LEMMA OnlyRollbackDeletes ==
  ASSUME TypeInv, [Next]_vars,
         ~(Rollback \/ RollbackUnacknowledged)
  PROVE  db.rows \subseteq db'.rows
<1>1. CASE ProcessBlock
  <2>1. db' = Committed(FirstBlock, OfBlock(FirstBlock)) /\ IsDatabase(db)
    BY <1>1 DEF ProcessBlock, TypeInv, DatabaseInv
  <2> DEFINE n == FirstBlock
             ls == OfBlock(n)
  <2> HIDE DEF n, ls
  <2>2. db' = Committed(n, ls)
    BY <2>1 DEF n, ls
  <2>3. /\ db'.cursor = [number |-> n, hash |-> HeaderHash(n)]
        /\ db'.rows = db.rows \cup {r \in EventRows(n, ls) :
                                      \A s \in db.rows : ~(s.tx = r.tx /\ s.index = r.index)}
    BY <2>1, <2>2, CommittedFields
  <2> QED
    BY <2>3
<1>2. CASE FinishRange
  <2>1. db' = SetIndexerState(db, to, HeaderHash(to)) /\ IsDatabase(db)
    BY <1>2 DEF FinishRange, TypeInv, DatabaseInv
  <2>2. db'.cursor = [number |-> to, hash |-> HeaderHash(to)] /\ db'.rows = db.rows
    BY <2>1, SetIndexerStateFields
  <2> QED
    BY <2>2
<1>3. CASE ~ProcessBlock /\ ~FinishRange
  <2>1. db' = db
    BY <1>3 DEF Next, Step, Fault, Preflight, TickStart, CheckReorg, WalkBack, Reload, CaughtUp,
       FetchFactoryLogs, FetchPairLogs, ReloadFails, RangeTooLarge, ProcessBlockFails, RequestFails, Crash,
       ChainMoves, FaultsCease, vars
  <2> QED
    BY <2>1
<1> QED
  BY <1>1, <1>2, <1>3

LEMMA RollbackStep ==
  ASSUME Rollback \/ RollbackUnacknowledged
  PROVE  /\ pc = "rollback" /\ UNCHANGED <<chain, fork>>
         /\ db' = SetIndexerState(RollbackFrom(db, ancestor + 1), ancestor, HeaderHash(ancestor))
  BY DEF Rollback, RollbackUnacknowledged, outside

(* In the regime a rollback undoes no more than it has to: checkReorg and  *)
(* RollbackFrom never delete the row of an event still in the chain.       *)
THEOREM IndexerKeepsCanonicalRows ==
  ASSUME Regime
  PROVE  Spec => CanonicalRowsKept
<1>1. TypeInv /\ FollowInv /\ [Next]_vars
        => [(db.rows \ db'.rows) \cap P!RowsUpTo(BlockNumber) = {}]_vars
  <2> SUFFICES ASSUME TypeInv, FollowInv, [Next]_vars,
                      NEW r \in db.rows \ db'.rows, r \in P!RowsUpTo(BlockNumber)
               PROVE  FALSE
    OBVIOUS
  <2>1. Rollback \/ RollbackUnacknowledged
    BY OnlyRollbackDeletes
  <2>2. pc = "rollback" /\ db'.rows = RowsTo(ancestor)
    BY <2>1, RollbackStep, RollbackFollows
  <2>3. r.number \in Nat /\ r.number <= Position /\ ancestor \in Nat /\ Position \in Nat
    BY StoredNumbers, Numbers
  <2>4. ancestor < r.number
    BY <2>2, <2>3 DEF RowsTo
  <2>5. StillCanonical(r.number)
    <3>1. PICK e \in Logs(1, BlockNumber) : r = ChainRow(e)
      BY RowMember
    <3>2. r.hash = HeaderHash(r.number)
      BY <3>1, ChainRowFields
    <3> QED
      BY <3>2 DEF StillCanonical, BlockStored, TypeInv, DatabaseInv
  <2> QED
    BY <2>2, <2>3, <2>4, <2>5 DEF FollowInv, WalkInv, Passed
<1> QED
  BY <1>1, IndexerFollowsChain, PTL DEF Spec, CanonicalRowsKept

-----------------------------------------------------------------------------
(* The refinement of Projection.                                           *)

LEMMA InitImplements == Init => P!PInit
<1> SUFFICES ASSUME Init PROVE P!PInit
  OBVIOUS
<1>1. P!ChainInit
  BY DEF Init, ChainInit, P!ChainInit, P!Block, Block, Executable, P!Executable, P!EventsIn, EventsIn,
     P!Before, Before
<1>2. db.cursor = NoCursor /\ db.rows = {}
  BY DEF Init, EmptyDatabase
<1> QED
  BY <1>1, <1>2 DEF P!PInit

LEMMA ChainMovesImplement ==
  ASSUME ChainMoves
  PROVE  P!ChainStep
<1>1. UNCHANGED <<db.cursor, db.rows>>
  BY DEF ChainMoves
<1>2. \A events : Mine(events) => P!Mine(events)
  BY DEF Mine, P!Mine, P!Block, Block, P!BlockNumber, BlockNumber, Executable, P!Executable,
     P!EventsIn, EventsIn, P!Before, Before
<1>3. \A n : Reorg(n) => P!Reorg(n)
  BY DEF Reorg, P!Reorg, P!Block, Block, P!BlockNumber, BlockNumber, Executable, P!Executable,
     P!EventsIn, EventsIn, P!Before, Before
<1> QED
  BY <1>1, <1>2, <1>3 DEF ChainMoves, P!ChainStep, P!BlockNumber, BlockNumber

LEMMA RollbackImplements ==
  ASSUME Complete, TypeInv, FollowInv, Rollback \/ RollbackUnacknowledged
  PROVE  P!Rewind
<1>1. /\ pc = "rollback" /\ UNCHANGED <<chain, fork>>
      /\ db' = SetIndexerState(RollbackFrom(db, ancestor + 1), ancestor, HeaderHash(ancestor))
  BY RollbackStep
<1>2. db'.rows = RowsTo(ancestor)
  BY <1>1, RollbackFollows
<1>3. Agrees(ancestor) /\ ancestor \in Nat /\ FactoryDeployBlock <= ancestor /\ ancestor < Position
  BY <1>1, AncestorAgrees
<1>4. db'.cursor = [number |-> ancestor, hash |-> HeaderHash(ancestor)]
  BY <1>1, RollbackFields DEF TypeInv, DatabaseInv
<1>5. ~P!OnChain
  BY <1>1 DEF FollowInv, WalkInv, Canonical
<1>6. ancestor \in FactoryDeployBlock .. db.cursor.number - 1
  BY <1>3, Numbers
<1>7. P!MoveTo(ancestor)
  BY <1>1, <1>2, <1>3, <1>4 DEF P!MoveTo, P!HeaderHash, HeaderHash, Agrees
<1>8. db'.rows = {r \in db.rows : r.number <= ancestor}
  BY <1>2 DEF RowsTo
<1> QED
  BY <1>5, <1>6, <1>7, <1>8 DEF P!Rewind

LEMMA AdvanceImplements ==
  ASSUME TypeInv, Canonical, UNCHANGED <<chain, fork>>,
         NEW n \in StartBlock .. SafeBlock(BlockNumber),
         db'.cursor = [number |-> n, hash |-> HeaderHash(n)], db'.rows = P!RowsUpTo(n)
  PROVE  P!Advance
<1>1. n \in FactoryDeployBlock .. P!BlockNumber - Confirmations
  BY Numbers, IndexerAssumption DEF SafeBlock, P!BlockNumber, BlockNumber
<1>2. db.cursor # NoCursor => n > db.cursor.number
  BY Numbers
<1>3. P!MoveTo(n)
  BY DEF P!MoveTo, P!HeaderHash, HeaderHash
<1> QED
  BY <1>1, <1>2, <1>3 DEF P!Advance, Canonical

LEMMA StepImplements ==
  ASSUME Complete, TypeInv, FollowInv, [Next]_vars
  PROVE  [P!PNext]_<<chain, fork, db.cursor, db.rows>>
<1>1. CASE Rollback \/ RollbackUnacknowledged
  BY <1>1, RollbackImplements DEF P!PNext
<1>2. CASE ProcessBlock
  <2>1. /\ pc = "blocks" /\ logs # {} /\ UNCHANGED <<chain, fork>>
        /\ db' = Committed(FirstBlock, OfBlock(FirstBlock)) /\ IsDatabase(db)
    BY <1>2 DEF ProcessBlock, outside, TypeInv, DatabaseInv
  <2>2. FirstBlock \in StartBlock .. SafeBlock(BlockNumber)
    BY <2>1, FirstBlockFacts, Numbers
  <2>3. db'.cursor = [number |-> FirstBlock, hash |-> HeaderHash(FirstBlock)]
    BY <2>1, CommittedFields
  <2>4. Canonical /\ db'.rows = P!RowsUpTo(FirstBlock)
    BY <1>2, <2>1, ProcessBlockFollows DEF FollowInv, TickInv
  <2> QED
    BY <2>1, <2>2, <2>3, <2>4, AdvanceImplements DEF P!PNext
<1>3. CASE FinishRange
  <2>1. /\ pc = "blocks" /\ UNCHANGED <<chain, fork>>
        /\ db' = SetIndexerState(db, to, HeaderHash(to)) /\ IsDatabase(db)
    BY <1>3 DEF FinishRange, outside, TypeInv, DatabaseInv
  <2>2. db'.cursor = [number |-> to, hash |-> HeaderHash(to)] /\ db'.rows = db.rows
    BY <2>1, SetIndexerStateFields
  <2>3. Canonical /\ db'.rows = P!RowsUpTo(to) /\ StartBlock <= to + 1 /\ FactoryDeployBlock <= to
    BY <1>3, <2>1, FinishRangeFollows, RangeFacts DEF FollowInv
  <2>4. CASE StartBlock <= to
    <3>1. to \in StartBlock .. SafeBlock(BlockNumber)
      BY <2>4, Numbers
    <3> QED
      BY <2>1, <2>2, <2>3, <3>1, AdvanceImplements DEF P!PNext
  <2>5. CASE ~(StartBlock <= to)
    <3>1. db.cursor # NoCursor /\ db.cursor.number = to
      BY <2>3, <2>5, Numbers
    <3>2. db.cursor = [number |-> to, hash |-> HeaderHash(to)]
      BY <2>3, <3>1, CanonicalMark DEF IsCanonical, TypeInv, DatabaseInv
    <3> QED
      BY <2>1, <2>2, <3>2
  <2> QED
    BY <2>4, <2>5
<1>4. CASE ChainMoves
  BY <1>4, ChainMovesImplement DEF P!PNext
<1>5. CASE ~(Rollback \/ RollbackUnacknowledged \/ ProcessBlock \/ FinishRange \/ ChainMoves)
  <2>1. UNCHANGED <<chain, fork, db>>
    BY <1>5 DEF Next, Step, Fault, Preflight, TickStart, CheckReorg, WalkBack, Reload, CaughtUp,
       FetchFactoryLogs, FetchPairLogs, ReloadFails, RangeTooLarge, ProcessBlockFails, RequestFails, Crash,
       FaultsCease, vars, outside
  <2> QED
    BY <2>1
<1> QED
  BY <1>1, <1>2, <1>3, <1>4, <1>5

(* The event tables implement the projection: each step of the indexer     *)
(* advances the cursor over settled blocks with exactly their rows, goes   *)
(* back to a block that is still there, or changes neither.                *)
THEOREM IndexerImplementsProjection ==
  ASSUME Regime, Complete
  PROVE  Spec => ImplementsProjection
<1>1. Init => P!PInit
  BY InitImplements
<1>2. TypeInv /\ FollowInv /\ [Next]_vars => [P!PNext]_<<chain, fork, db.cursor, db.rows>>
  BY StepImplements
<1> QED
  BY <1>1, <1>2, IndexerFollowsChain, PTL DEF Spec, ImplementsProjection, P!PSpec

-----------------------------------------------------------------------------
(* What is kept of the pairs, when reorganisations stay within the         *)
(* confirmations: nothing is ever rolled back, and each transaction adds   *)
(* the Syncs of the next block.                                            *)

SyncEvents(k) == {x \in Logs(1, k) : x.kind = "Sync"}
ReserveAt(p, k) == LastReserve(SyncsUpTo(p, k))
CloseAt(p, bucket, k) == LastReserve({m \in SyncsUpTo(p, k) : FloorBucket(m.block) = bucket})
Snapshot(l, k) ==
  [pair |-> l.pair, bucket |-> FloorBucket(l.block), reserve |-> CloseAt(l.pair, FloorBucket(l.block), k)]

PairInv ==
  /\ \A p \in DOMAIN db.pairs : /\ db.pairs[p].lastSync \in 0 .. Position
                                /\ db.pairs[p].reserve = ReserveAt(p, Position)
  /\ db.snapshots = {Snapshot(l, Position) : l \in SyncEvents(Position)}

(* Of some events of one block one is the last.                            *)
LEMMA LastEvent ==
  ASSUME ChainInv, NEW n \in 1 .. BlockNumber, NEW S, S \subseteq Logs(n, n), S # {}
  PROVE  \E l \in S : \A m \in S : m.index <= l.index /\ (l.index <= m.index => m = l)
<1> DEFINE last == Len(chain[n].events)
           T == {last - l.index : l \in S}
<1>1. chain[n].events \in Seq(Events) /\ last \in Nat
  BY ChainHashes
<1>2. n \in Int /\ \A l \in S : l \in EventsIn(chain, n)
  BY LogsMember DEF Logs, ChainInv
<1>3. \A l \in S : l.index \in 1 .. last
  BY <1>1, <1>2 DEF EventsIn
<1>4. \A l, m \in S : l.index = m.index => l = m
  BY <1>2 DEF EventsIn
<1>5. T \subseteq Nat /\ T # {}
  BY <1>1, <1>3
<1>6. PICK t \in T : \A u \in T : ~(<<u, t>> \in OpToRel(<, Nat))
  BY <1>5, WFMin, NatLessThanWellFounded
<1>7. PICK l \in S : t = last - l.index
  BY <1>6
<1>8. \A m \in S : m.index <= l.index
  <2> SUFFICES ASSUME NEW m \in S, ~(m.index <= l.index) PROVE FALSE
    OBVIOUS
  <2>1. last - m.index \in T /\ last - m.index \in Nat /\ t \in Nat /\ last - m.index < t
    BY <1>1, <1>3, <1>5, <1>7
  <2> HIDE DEF T, last
  <2> QED
    BY <1>6, <2>1 DEF OpToRel
<1>9. \A m \in S : m.index \in Int
  BY <1>3
<1>10. \A m \in S : l.index <= m.index => m = l
  BY <1>4, <1>8, <1>9
<1> QED
  BY <1>8, <1>10

(* The last Sync of the newest block is the last of all.                   *)
LEMMA NewestSyncWins ==
  ASSUME ChainInv, NEW n \in 1 .. BlockNumber, NEW p, NEW older,
         \A m \in older : m.block \in Int /\ m.block < n,
         SyncsOf(p, Logs(n, n)) # {}
  PROVE  LastReserve(older \cup SyncsOf(p, Logs(n, n))) = LastSync(Logs(n, n))[p]
<1> DEFINE S == SyncsOf(p, Logs(n, n))
           U == older \cup S
           Newest(l) == \A m \in S : m.index <= l.index
           Latest(l) == \A m \in U : m.block < l.block \/ (m.block = l.block /\ m.index <= l.index)
<1>1. S \subseteq Logs(n, n) /\ S # {} /\ n \in Int
  BY DEF SyncsOf, ChainInv
<1>2. \A m \in S : m.block = n
  BY <1>1, LogsMember
<1> HIDE DEF S
<1>3. PICK l \in S : \A m \in S : m.index <= l.index /\ (l.index <= m.index => m = l)
  BY <1>1, LastEvent
<1>4. \A k \in S : Newest(k) <=> k = l
  BY <1>3
<1>5. \A k \in U : Latest(k) <=> k = l
  <2>1. Latest(l)
    BY <1>1, <1>2, <1>3
  <2>2. ASSUME NEW k \in U, Latest(k) PROVE k = l
    <3>1. l.block < k.block \/ (l.block = k.block /\ l.index <= k.index)
      BY <2>2
    <3>2. k \in S
      BY <1>1, <1>2, <3>1
    <3> QED
      BY <1>1, <1>2, <1>3, <3>1, <3>2
  <2> QED
    BY <2>1, <2>2
<1>6. (CHOOSE k \in S : Newest(k)) = l
  BY <1>4
<1>7. (CHOOSE k \in U : Latest(k)) = l
  BY <1>5
<1>8. LastReserve(U) = ReserveSetBy(l)
  BY <1>1, <1>7 DEF LastReserve
<1>9. p \in SyncedPairs(Logs(n, n))
  BY <1>1 DEF S, SyncsOf, SyncedPairs
<1>10. LastSync(Logs(n, n))[p] = ReserveSetBy(l)
  BY <1>6, <1>9 DEF LastSync, S
<1> QED
  BY <1>8, <1>10 DEF S

(* As long as its blocks stay, so does what a prefix says of the pairs.    *)
LEMMA PairFactsStay ==
  ASSUME NEW k, \A n \in 1 .. k : chain'[n] = chain[n]
  PROVE  /\ \A p : ReserveAt(p, k)' = ReserveAt(p, k)
         /\ {Snapshot(l, k) : l \in SyncEvents(k)}' = {Snapshot(l, k) : l \in SyncEvents(k)}
<1>1. Logs(1, k)' = Logs(1, k)
  BY PrefixStays
<1>2. \A p : SyncsUpTo(p, k)' = SyncsUpTo(p, k)
  BY <1>1 DEF SyncsUpTo
<1>3. \A p : ReserveAt(p, k)' = ReserveAt(p, k)
  BY <1>2 DEF ReserveAt
<1>4. \A l : Snapshot(l, k)' = Snapshot(l, k)
  BY <1>2 DEF Snapshot, CloseAt
<1>5. SyncEvents(k)' = SyncEvents(k)
  BY <1>1 DEF SyncEvents
<1> QED
  BY <1>3, <1>4, <1>5

LEMMA BaseLogs ==
  ASSUME TypeInv
  PROVE  Logs(1, StartBlock - 1) = Logs(1, Position)
<1>1. CASE db.cursor # NoCursor
  BY <1>1, Numbers
<1>2. CASE db.cursor = NoCursor
  <2>1. Position = 0 /\ StartBlock = FactoryDeployBlock
    BY <1>2, Numbers
  <2>2. \A n \in 1 .. StartBlock - 1 : chain[n].events = <<>>
    BY <2>1 DEF TypeInv, ChainInv
  <2>3. \A n \in 1 .. StartBlock - 1 : EventsIn(chain, n) = {}
    BY <2>2 DEF EventsIn
  <2> QED
    BY <2>1, <2>3 DEF Logs
<1> QED
  BY <1>1, <1>2

(* No pair has a Sync before the block that created it.                    *)
LEMMA SyncedPairsExist ==
  ASSUME TypeInv, FollowInv, Canonical, NEW p, SyncsUpTo(p, Position) # {}
  PROVE  p \in DOMAIN db.pairs
<1>1. PICK l \in Logs(1, Position) : l.pair = p
  BY DEF SyncsUpTo, SyncsOf
<1>2. Position \in 0 .. BlockNumber
  BY Numbers
<1>3. PICK d \in Logs(1, Position) : d.kind = "PairCreated" /\ d.pair = p
  BY <1>1, <1>2, ExecutableFacts DEF TypeInv
<1> QED
  BY <1>3, BaseAgrees, BaseLogs DEF FollowInv, Created

LEMMA ProcessBlockAddsSyncs ==
  ASSUME ReorgDepth <= Confirmations, TypeInv, FollowInv, PairInv, ProcessBlock
  PROVE  PairInv'
<1> DEFINE n == FirstBlock
           ls == OfBlock(n)
           k == Position
<1>1. /\ pc = "blocks" /\ logs # {} /\ UNCHANGED <<chain, fork>> /\ db' = Committed(n, ls) /\ IsDatabase(db)
      /\ Complete
  BY DEF ProcessBlock, outside, TypeInv, DatabaseInv, Complete
<1>2. /\ n \in StartBlock .. to /\ n \in 1 .. BlockNumber /\ n \in Nat /\ StartBlock \in Nat /\ to \in Nat
      /\ k \in Nat /\ k < n /\ StartBlock >= 1
  BY <1>1, FirstBlockFacts, Numbers
<1>3. Canonical /\ logs = Logs(StartBlock, to)
  BY <1>1, RangeFacts DEF FollowInv
<1>4. \A l \in logs : n <= l.block
  BY <1>1, FirstBlockFacts
<1>5. \A e \in ls : e.pair \in DOMAIN Remembered(ls)
  BY <1>1, PairsAreRemembered
<1>6. Position' = n
  BY ProcessBlockMovesTo
<1> HIDE DEF n, k
<1>7. ls = Logs(n, n)
  <2>1. \A e : e \in Logs(n, n) <=> e \in Logs(StartBlock, to) /\ e.block = n
    BY <1>2, LogsMember
  <2> QED
    BY <1>3, <2>1 DEF OfBlock
<1>8. Logs(1, n) = Logs(1, k) \cup ls
  <2>1. Logs(1, n) = Logs(1, StartBlock - 1) \cup Logs(StartBlock, n)
    BY <1>2, LogsSplit
  <2>2. Logs(StartBlock, n) = Logs(n, n)
    <3>1. \A e \in Logs(StartBlock, n) : e.block = n
      <4> SUFFICES ASSUME NEW e \in Logs(StartBlock, n) PROVE e.block = n
        OBVIOUS
      <4>1. e \in logs
        BY <1>2, <1>3, LogsMember
      <4>2. e.block \in StartBlock .. n /\ n <= e.block
        BY <1>4, <4>1, LogsMember
      <4> QED
        BY <1>2, <4>2
    <3>2. \A e : e \in Logs(n, n) <=> e.block = n /\ e \in EventsIn(chain, e.block)
      BY <1>2, LogsMember
    <3>3. \A e : e \in Logs(StartBlock, n) <=> e.block \in StartBlock .. n /\ e \in EventsIn(chain, e.block)
      BY LogsMember
    <3>4. \A e : e \in Logs(StartBlock, n) <=> e \in Logs(n, n)
      BY <1>2, <3>1, <3>2, <3>3
    <3> QED
      BY <3>4
  <2> QED
    BY <1>7, <2>1, <2>2, BaseLogs DEF k
<1>9. \A m \in Logs(1, k) : m.block \in Int /\ m.block < n
  BY <1>2, LogsMember
<1> HIDE DEF ls
<1> DEFINE reserve == LastSync(ls)
<1>10. DOMAIN reserve = SyncedPairs(ls)
  BY DEF LastSync
<1>11. \A p : p \in SyncedPairs(ls) <=> SyncsOf(p, ls) # {}
  BY DEF SyncedPairs, SyncsOf
<1>12. \A p : SyncsUpTo(p, n) = SyncsUpTo(p, k) \cup SyncsOf(p, ls)
  BY <1>8 DEF SyncsUpTo, SyncsOf
(* What the last Sync of this block leaves is what a rebuild would.        *)
<1>13. ASSUME NEW p \in SyncedPairs(ls), NEW older, older \subseteq Logs(1, k)
       PROVE  LastReserve(older \cup SyncsOf(p, ls)) = reserve[p]
  <2>1. SyncsOf(p, Logs(n, n)) # {}
    BY <1>7, <1>11
  <2>2. LastReserve(older \cup SyncsOf(p, Logs(n, n))) = LastSync(Logs(n, n))[p]
    BY <1>2, <1>9, <1>13, <2>1, NewestSyncWins DEF TypeInv
  <2> QED
    BY <1>7, <2>2
<1>14. \A p \in SyncedPairs(ls) : ReserveAt(p, n) = reserve[p]
  <2> SUFFICES ASSUME NEW p \in SyncedPairs(ls) PROVE ReserveAt(p, n) = reserve[p]
    OBVIOUS
  <2>1. SyncsUpTo(p, k) \subseteq Logs(1, k)
    BY DEF SyncsUpTo, SyncsOf
  <2> QED
    BY <1>12, <1>13, <2>1 DEF ReserveAt
<1>15. \A p : p \notin SyncedPairs(ls) => SyncsUpTo(p, n) = SyncsUpTo(p, k)
  BY <1>11, <1>12
<1>16. /\ db'.pairs = WritePairs(db, n, Created(ls), reserve).pairs
       /\ db'.snapshots = UpsertSnapshots(db, n, Closes(ls)).snapshots
       /\ db'.cursor = [number |-> n, hash |-> HeaderHash(n)]
  BY <1>1, CommittedFields
<1>17. ASSUME NEW p \in DOMAIN db'.pairs
       PROVE  db'.pairs[p].lastSync \in 0 .. n /\ db'.pairs[p].reserve = ReserveAt(p, n)
  <2> DEFINE old == IF p \in DOMAIN db.pairs THEN db.pairs[p]
                    ELSE [created |-> n, reserve |-> Zero, lastSync |-> Never]
             synced == p \in DOMAIN reserve /\ InOrder(old.lastSync, n)
  <2>1. /\ db'.pairs[p].reserve = IF synced THEN reserve[p] ELSE old.reserve
        /\ db'.pairs[p].lastSync = IF synced THEN n ELSE old.lastSync
    BY <1>1, <1>16, <1>17, WrittenPair
  <2>2. old.lastSync \in 0 .. k /\ old.reserve = ReserveAt(p, k)
    <3>1. CASE p \in DOMAIN db.pairs
      BY <3>1 DEF PairInv, k
    <3>2. CASE p \notin DOMAIN db.pairs
      <4>1. SyncsUpTo(p, k) = {}
        BY <1>3, <3>2, SyncedPairsExist DEF k
      <4> QED
        BY <1>2, <3>2, <4>1 DEF ReserveAt, LastReserve, Never
    <3> QED
      BY <3>1, <3>2
  <2>3. InOrder(old.lastSync, n)
    BY <1>2, <2>2 DEF InOrder
  <2> HIDE DEF old
  <2>4. CASE p \in SyncedPairs(ls)
    BY <1>2, <1>10, <1>14, <2>1, <2>3, <2>4
  <2>5. CASE p \notin SyncedPairs(ls)
    BY <1>2, <1>10, <1>15, <2>1, <2>2, <2>5 DEF ReserveAt
  <2> QED
    BY <2>4, <2>5
<1>18. DOMAIN Closes(ls) = SyncedPairs(ls) /\ \A p \in SyncedPairs(ls) : Closes(ls)[p] = reserve[p]
  <2>1. SyncedPairs(ls) \subseteq DOMAIN Remembered(ls)
    BY <1>5 DEF SyncedPairs
  <2>2. \A p \in SyncedPairs(ls) : Remembered(ls)[p] = reserve[p]
    BY <1>10, <2>1 DEF Remembered
  <2> QED
    BY <2>1, <2>2 DEF Closes
<1> HIDE DEF reserve
<1>19. ASSUME NEW p, NEW bucket, ~(p \in SyncedPairs(ls) /\ bucket = FloorBucket(n))
       PROVE  CloseAt(p, bucket, n) = CloseAt(p, bucket, k)
  <2>1. \A m \in SyncsOf(p, ls) : FloorBucket(m.block) # bucket
    <3>1. \A m \in SyncsOf(p, ls) : m.block = n /\ p \in SyncedPairs(ls)
      BY <1>2, <1>7, <1>11, LogsMember DEF SyncsOf
    <3> QED
      BY <1>19, <3>1
  <2>2. {m \in SyncsUpTo(p, n) : FloorBucket(m.block) = bucket}
          = {m \in SyncsUpTo(p, k) : FloorBucket(m.block) = bucket}
    BY <1>12, <2>1
  <2> QED
    BY <2>2 DEF CloseAt
<1>20. ASSUME NEW p \in SyncedPairs(ls)
       PROVE  CloseAt(p, FloorBucket(n), n) = reserve[p]
  <2> DEFINE older == {m \in SyncsUpTo(p, k) : FloorBucket(m.block) = FloorBucket(n)}
  <2>1. \A m \in SyncsOf(p, ls) : m.block = n
    BY <1>2, <1>7, LogsMember DEF SyncsOf
  <2>2. {m \in SyncsUpTo(p, n) : FloorBucket(m.block) = FloorBucket(n)} = older \cup SyncsOf(p, ls)
    BY <1>12, <2>1
  <2>3. older \subseteq Logs(1, k)
    BY DEF SyncsUpTo, SyncsOf
  <2> HIDE DEF older
  <2> QED
    BY <1>13, <2>2, <2>3 DEF CloseAt
<1>21. db'.snapshots = {Snapshot(l, n) : l \in SyncEvents(n)}
  <2> DEFINE kept == {s \in db.snapshots : ~(s.pair \in SyncedPairs(ls) /\ s.bucket = FloorBucket(n))}
             new == {[pair |-> p, bucket |-> FloorBucket(n), reserve |-> reserve[p]] : p \in SyncedPairs(ls)}
             target == {Snapshot(l, n) : l \in SyncEvents(n)}
  <2>1. db'.snapshots = kept \cup new
    BY <1>1, <1>16, <1>18, UpsertedSnapshots
  <2>2. db.snapshots = {Snapshot(l, k) : l \in SyncEvents(k)}
    BY DEF PairInv, k
  <2>3. /\ \A l : l \in SyncEvents(n) <=> l \in SyncEvents(k) \/ (l \in ls /\ l.kind = "Sync")
        /\ \A l \in ls : l.block = n
        /\ \A l \in ls : l.kind = "Sync" => l.pair \in SyncedPairs(ls)
    BY <1>2, <1>7, <1>8, LogsMember DEF SyncEvents, SyncedPairs
  <2>4. ASSUME NEW l, ~(l.pair \in SyncedPairs(ls) /\ FloorBucket(l.block) = FloorBucket(n))
        PROVE  Snapshot(l, n) = Snapshot(l, k)
    BY <1>19, <2>4 DEF Snapshot
  <2>5. ASSUME NEW l, l.pair \in SyncedPairs(ls), FloorBucket(l.block) = FloorBucket(n)
        PROVE  Snapshot(l, n) = [pair |-> l.pair, bucket |-> FloorBucket(n), reserve |-> reserve[l.pair]]
    BY <1>20, <2>5 DEF Snapshot
  <2>6. \A l, j : Snapshot(l, j).pair = l.pair /\ Snapshot(l, j).bucket = FloorBucket(l.block)
    BY DEF Snapshot
  <2>7. kept \subseteq target
    BY <2>2, <2>3, <2>4, <2>6
  <2>8. new \subseteq target
    <3> SUFFICES ASSUME NEW p \in SyncedPairs(ls)
                 PROVE  [pair |-> p, bucket |-> FloorBucket(n), reserve |-> reserve[p]] \in target
      OBVIOUS
    <3>1. PICK l \in ls : l.kind = "Sync" /\ l.pair = p
      BY DEF SyncedPairs
    <3>2. l \in SyncEvents(n) /\ FloorBucket(l.block) = FloorBucket(n)
      BY <2>3, <3>1
    <3>3. Snapshot(l, n) = [pair |-> p, bucket |-> FloorBucket(n), reserve |-> reserve[p]]
      BY <2>5, <3>1, <3>2
    <3> QED
      BY <3>2, <3>3
  <2>9. target \subseteq kept \cup new
    <3> SUFFICES ASSUME NEW l \in SyncEvents(n) PROVE Snapshot(l, n) \in kept \cup new
      OBVIOUS
    <3>1. CASE l.pair \in SyncedPairs(ls) /\ FloorBucket(l.block) = FloorBucket(n)
      BY <2>5, <3>1
    <3>2. CASE ~(l.pair \in SyncedPairs(ls) /\ FloorBucket(l.block) = FloorBucket(n))
      <4>1. l \in SyncEvents(k)
        BY <2>3, <3>2
      <4>2. Snapshot(l, k) \in kept
        BY <2>2, <2>6, <3>2, <4>1
      <4> QED
        BY <2>4, <3>2, <4>2
    <3> QED
      BY <3>1, <3>2
  <2> QED
    BY <2>1, <2>7, <2>8, <2>9
<1> QED
  BY <1>1, <1>2, <1>6, <1>17, <1>21, PairFactsStay DEF PairInv

LEMMA FinishRangeAddsNothing ==
  ASSUME ReorgDepth <= Confirmations, TypeInv, FollowInv, PairInv, FinishRange
  PROVE  PairInv'
<1>1. /\ pc = "blocks" /\ logs = {} /\ UNCHANGED <<chain, fork>>
      /\ db' = SetIndexerState(db, to, HeaderHash(to)) /\ IsDatabase(db) /\ Complete
  BY DEF FinishRange, outside, TypeInv, DatabaseInv, Complete
<1>2. /\ Logs(StartBlock, to) = {} /\ StartBlock <= to + 1 /\ to \in Nat /\ StartBlock \in Nat
      /\ StartBlock >= 1 /\ Position \in Nat /\ Position <= to
  BY <1>1, RangeFacts, Numbers DEF FollowInv
<1>3. Logs(1, to) = Logs(1, Position)
  <2>1. Logs(1, to) = Logs(1, StartBlock - 1) \cup Logs(StartBlock, to)
    BY <1>2, LogsSplit
  <2> QED
    BY <1>2, <2>1, BaseLogs
<1>4. /\ \A p : ReserveAt(p, to) = ReserveAt(p, Position)
      /\ SyncEvents(to) = SyncEvents(Position)
      /\ \A l : Snapshot(l, to) = Snapshot(l, Position)
  BY <1>3 DEF ReserveAt, SyncEvents, Snapshot, CloseAt, SyncsUpTo
<1>5. /\ db'.cursor = [number |-> to, hash |-> HeaderHash(to)]
      /\ db'.pairs = db.pairs /\ db'.snapshots = db.snapshots
  BY <1>1, SetIndexerStateFields
<1>6. PICK k \in Nat : k = to
  BY <1>2
<1>7. Position' = k
  BY <1>6, FinishRangeMovesTo
<1>8. /\ \A p : ReserveAt(p, k)' = ReserveAt(p, k)
      /\ {Snapshot(l, k) : l \in SyncEvents(k)}' = {Snapshot(l, k) : l \in SyncEvents(k)}
  BY <1>1, PairFactsStay
<1>9. \A p \in DOMAIN db'.pairs : /\ db'.pairs[p].lastSync \in 0 .. k
                                  /\ db'.pairs[p].reserve = ReserveAt(p, k)
  BY <1>2, <1>4, <1>5, <1>6 DEF PairInv
<1>10. db'.snapshots = {Snapshot(l, k) : l \in SyncEvents(k)}
  <2>1. {Snapshot(l, k) : l \in SyncEvents(k)} = {Snapshot(l, Position) : l \in SyncEvents(Position)}
    BY <1>4, <1>6
  <2> QED
    BY <1>5, <2>1 DEF PairInv
<1> QED
  BY <1>7, <1>8, <1>9, <1>10 DEF PairInv

LEMMA PairStep ==
  ReorgDepth <= Confirmations /\ TypeInv /\ FollowInv /\ PairInv /\ [Next]_vars => PairInv'
<1> SUFFICES ASSUME ReorgDepth <= Confirmations, TypeInv, FollowInv, PairInv, [Next]_vars PROVE PairInv'
  OBVIOUS
<1>1. CASE ProcessBlock
  BY <1>1, ProcessBlockAddsSyncs
<1>2. CASE FinishRange
  BY <1>2, FinishRangeAddsNothing
<1>3. ~Rollback /\ ~RollbackUnacknowledged
  BY RollbackStep DEF FollowInv, WalkInv, TickInv
<1>4. CASE ~ProcessBlock /\ ~FinishRange
  <2>1. db' = db /\ (ChainMoves \/ UNCHANGED <<chain, fork>>)
    BY <1>3, <1>4 DEF Next, Step, Fault, Preflight, TickStart, CheckReorg, WalkBack, Reload, CaughtUp,
       FetchFactoryLogs, FetchPairLogs, ReloadFails, RangeTooLarge, ProcessBlockFails, RequestFails, Crash,
       ChainMoves, FaultsCease, vars, outside
  <2>2. \A n \in 1 .. Position : chain'[n] = chain[n]
    <3>1. CASE ChainMoves
      <4>1. PICK n \in Nat : MovesAbove(n) /\ SafeBlock(BlockNumber) <= n
        BY <3>1, ChainMovesAbove DEF TypeInv, Regime
      <4> QED
        BY <4>1, Numbers DEF MovesAbove
    <3>2. CASE UNCHANGED <<chain, fork>>
      BY <3>2
    <3> QED
      BY <2>1, <3>1, <3>2
  <2>3. PICK k \in Nat : k = Position
    BY Numbers
  <2>4. Position' = k
    BY <2>1, <2>3 DEF Position
  <2>5. /\ \A p : ReserveAt(p, k)' = ReserveAt(p, k)
        /\ {Snapshot(l, k) : l \in SyncEvents(k)}' = {Snapshot(l, k) : l \in SyncEvents(k)}
    <3>1. \A n \in 1 .. k : chain'[n] = chain[n]
      BY <2>2, <2>3
    <3> QED
      BY <3>1, PairFactsStay
  <2> QED
    BY <2>1, <2>3, <2>4, <2>5 DEF PairInv
<1> QED
  BY <1>1, <1>2, <1>4

(* As long as no reorganisation is deeper than the confirmations, whatever *)
(* fails, the stored reserves are those of the last Sync of each pair, the *)
(* snapshots those each bucket closed with, and no pair is forgotten:      *)
(* applyLog, snapshotPairs, UpsertPair, SetPairReserves, UpsertPairSnapshot*)
(* through retries, restarts and half-applied blocks.                      *)
THEOREM IndexerPairStateFollowsChain ==
  ASSUME ReorgDepth <= Confirmations
  PROVE  Spec => []PairStateFollowsChain
<1>1. Regime /\ Complete
  BY DEF Regime, Complete
<1>2. Init => PairInv
  <2> SUFFICES ASSUME Init PROVE PairInv
    OBVIOUS
  <2>1. db.cursor = NoCursor /\ db.pairs = <<>> /\ db.snapshots = {} /\ Position = 0
    BY DEF Init, EmptyDatabase, Position
  <2>2. SyncEvents(0) = {}
    BY LogsMember DEF SyncEvents
  <2> QED
    BY <2>1, <2>2 DEF PairInv
<1>3. TypeInv /\ FollowInv /\ PairInv /\ [Next]_vars => PairInv'
  BY PairStep
<1>4. TypeInv /\ FollowInv /\ PairInv => PairStateFollowsChain
  <2> SUFFICES ASSUME TypeInv, FollowInv, PairInv PROVE PairStateFollowsChain
    OBVIOUS
  <2>1. Canonical
    BY DEF FollowInv, TickInv
  <2>2. DOMAIN db.pairs = Created(Logs(1, Position))
    BY <2>1, BaseAgrees, BaseLogs DEF FollowInv
  <2>3. ReservesFollowSync
    BY <2>2 DEF PairInv, ReservesFollowSync, StoredPairs, ReserveAt
  <2>4. SnapshotsAreCloses
    BY DEF PairInv, SnapshotsAreCloses, SyncEvents, Snapshot, CloseAt
  <2>5. NoPairForgotten
    BY <1>1 DEF FollowInv, KnownInv, NoPairForgotten
  <2> QED
    BY <2>3, <2>4, <2>5 DEF PairStateFollowsChain
<1>5. Spec => [](TypeInv /\ FollowInv)
  BY <1>1, IndexerFollowsChain
<1> QED
  BY <1>2, <1>3, <1>4, <1>5, PTL DEF Spec
====
