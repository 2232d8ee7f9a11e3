-------------------------- MODULE MCNetReduceLive ---------------------------
EXTENDS NetReduceLive, EvenSplit

CONSTANTS r1, r2

MCRanks == {r1, r2}

MCOp == [p \in Psns |-> [code |-> "ALL_REDUCE", root |-> r1]]
=============================================================================
