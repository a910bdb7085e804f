------------------------------- MODULE MCPair -------------------------------
EXTENDS PairOracle

MCTokenSupply == [t \in Token |-> IF t = 0 THEN 4 ELSE 3]
MCDeposits == 1 .. 3
MCOutputs == 0 .. 2
MCShareMoves == 1 .. 3
=============================================================================
