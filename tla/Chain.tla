------------------------------- MODULE Chain --------------------------------
(***************************************************************************)
(* The chain the indexer reads over JSON-RPC.  It lives outside the        *)
(* repository: this is what packages/gointernal/chain/client.go lets the   *)
(* rest of the code see of it.  It grows a block at a time and, when it    *)
(* reorganises, replaces its last blocks by as many others.                *)
(*                                                                         *)
(* A block is known by its hash.  Its height and the number of the         *)
(* reorganisation that produced it identify it, so they are the hash.  The *)
(* time of a block is its height.  Of a block only the events of the       *)
(* factory and its pairs are kept, in the order of their log indices.  A   *)
(* transaction that is mined again in another block keeps its transaction  *)
(* hash, but what it does to the reserves may differ, so an event carries  *)
(* the hash of the block that executed it.                                 *)
(***************************************************************************)
EXTENDS Integers, Sequences

CONSTANTS
  Events,              \* [tx, pair, kind]: what a transaction emits about a pair
  Contents,            \* sequences of Events: what a block may hold
  FactoryDeployBlock,  \* height of the block that deployed the factory
  DeployContents,      \* sequences of Events: what that block may hold
  Settled,             \* blocks up to this height are never replaced
  ReorgDepth,          \* how many blocks a reorganisation replaces at most
  MaxHeight,           \* bound: the chain stops growing here
  MaxForks             \* bound: reorganisations in a behaviour

VARIABLES
  chain,               \* the canonical chain, from height 1
  fork                 \* reorganisations so far

ASSUME ChainAssumption ==
  /\ MaxHeight \in Nat /\ FactoryDeployBlock \in 1 .. MaxHeight
  /\ Settled \in Nat /\ ReorgDepth \in Nat /\ MaxForks \in Nat
  /\ Contents \subseteq Seq(Events) /\ DeployContents \subseteq Seq(Events)
  /\ <<>> \in Contents

Hash == (1 .. MaxHeight) \X (0 .. MaxForks)

Block(height, f, events) == [hash |-> <<height, f>>, events |-> events]

BlockNumber == Len(chain)
HeaderHash(n) == chain[n].hash

(* Every event of block n of chain c, with its position in the block.      *)
EventsIn(c, n) ==
  LET events == c[n].events
  IN  {[block |-> n, index |-> i, tx |-> events[i].tx, pair |-> events[i].pair,
        kind |-> events[i].kind, origin |-> c[n].hash] : i \in DOMAIN events}

(* eth_getLogs over [from, to]: one atomic answer from the canonical chain. *)
Logs(from, to) == UNION {EventsIn(chain, n) : n \in from .. to}

(* What the factory and the pairs allow: no transaction in two blocks, and *)
(* a pair created once, before anything else happens to it.                *)
Before(d, e) == d.block < e.block \/ (d.block = e.block /\ d.index < e.index)
Executable(c) ==
  LET all == UNION {EventsIn(c, n) : n \in DOMAIN c}
      Creates(d, e) == d.kind = "PairCreated" /\ d.pair = e.pair
  IN  /\ \A d, e \in all : d.tx = e.tx => d.block = e.block
      /\ \A e \in all : \E d \in all : Creates(d, e)
      /\ \A d, e \in all : Creates(d, e) => d = e \/ Before(d, e)

ChainInit ==
  /\ fork = 0
  /\ \E events \in DeployContents :
       chain = [n \in 1 .. FactoryDeployBlock |->
                  Block(n, 0, IF n = FactoryDeployBlock THEN events ELSE <<>>)]
  /\ Executable(chain)

Mine(events) ==
  /\ BlockNumber < MaxHeight
  /\ chain' = Append(chain, Block(BlockNumber + 1, fork, events))
  /\ Executable(chain')
  /\ UNCHANGED fork

(* Replace the blocks above height n.                                      *)
Reorg(n) ==
  /\ fork < MaxForks
  /\ BlockNumber - n <= ReorgDepth
  /\ fork' = fork + 1
  /\ \E contents \in [n + 1 .. BlockNumber -> Contents] :
       /\ chain' = [h \in 1 .. BlockNumber |-> IF h <= n THEN chain[h] ELSE Block(h, fork + 1, contents[h])]
       /\ Executable(chain')
=============================================================================
