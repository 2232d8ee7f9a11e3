---------------------------- MODULE MCNetReduce -----------------------------
EXTENDS EvenSplit

\* Two ranks, and a stream that mixes the three kinds of collectives.
CONSTANTS r1, r2

MCRanks == {r1, r2}

MCOp == [p \in Psns |->
            [code |-> CASE p % 3 = 0 -> "ALL_REDUCE"
                        [] p % 3 = 1 -> "REDUCE"
                        [] OTHER -> "BROADCAST",
             root |-> r1]]
=============================================================================
