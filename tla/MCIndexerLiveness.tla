------------------------- MODULE MCIndexerLiveness --------------------------
(* One pool, opened and traded in once.                                    *)
EXTENDS IndexerLiveness, SequencesExt

Open == [name |-> "open", pair |-> "P", events |-> <<"PairCreated", "Sync", "Mint">>]
Trade == [name |-> "trade", pair |-> "P", events |-> <<"Sync", "Swap">>]

Emitted(tx) == [i \in DOMAIN tx.events |-> [tx |-> tx.name, pair |-> tx.pair, kind |-> tx.events[i]]]
InBlock(txs) == FlattenSeq([k \in DOMAIN txs |-> Emitted(txs[k])])

MCEvents == UNION {Range(Emitted(tx)) : tx \in {Open, Trade}}
MCOneTx == {InBlock(txs) : txs \in {<<>>, <<Open>>, <<Trade>>}}
MCNothing == {<<>>}
=============================================================================
