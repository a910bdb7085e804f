----------------------------- MODULE MCPairFee ------------------------------
EXTENDS Pair

MCTokenSupply == [t \in Token |-> 22]
MCDeposits == {11}
MCOutputs == {0, 5}
MCShareMoves == {10}
=============================================================================
