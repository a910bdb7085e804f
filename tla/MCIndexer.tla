----------------------------- MODULE MCIndexer ------------------------------
(* The indexer on chains of a few blocks: two pools, one opened by a       *)
(* transaction that also deposits and one created empty, a trade and a     *)
(* withdrawal, mined in any order the contracts allow.                     *)
EXTENDS Indexer, SequencesExt

Open == [name |-> "open", pair |-> "P", events |-> <<"PairCreated", "Sync", "Mint">>]
Trade == [name |-> "trade", pair |-> "P", events |-> <<"Sync", "Swap">>]
Withdraw == [name |-> "withdraw", pair |-> "P", events |-> <<"Sync", "Burn">>]
Create == [name |-> "create", pair |-> "Q", events |-> <<"PairCreated">>]
Deposit == [name |-> "deposit", pair |-> "Q", events |-> <<"Sync", "Mint">>]

Emitted(tx) == [i \in DOMAIN tx.events |-> [tx |-> tx.name, pair |-> tx.pair, kind |-> tx.events[i]]]
InBlock(txs) == FlattenSeq([k \in DOMAIN txs |-> Emitted(txs[k])])

MCEvents == UNION {Range(Emitted(tx)) : tx \in {Open, Trade, Withdraw, Create, Deposit}}
MCOneTx == {InBlock(txs) : txs \in {<<>>, <<Open>>, <<Trade>>}}
MCTwoTxs == {InBlock(txs) : txs \in {<<>>, <<Open>>, <<Trade>>, <<Open, Trade>>, <<Trade, Withdraw>>}}
MCTwoPools == {InBlock(txs) : txs \in {<<>>, <<Open>>, <<Create>>, <<Deposit>>, <<Trade, Deposit>>}}
MCNothing == {<<>>}
=============================================================================
