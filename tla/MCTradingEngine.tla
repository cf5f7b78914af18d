--------------------------- MODULE MCTradingEngine ---------------------------
EXTENDS TradingEngine

CONSTANTS A, B

MCOrders == 1..2

\* A file lists nothing, a long symbol after a short one, or a symbol twice.
MCFiles == {<<>>, <<A, Long>>, <<A, A>>}

\* The override may be refused, too.
MCOverrides == {<<>>, <<B, A>>, <<B, B>>, <<Long>>}

\* The first order has a partial fill, the other none.
MCMaxFills == [i \in MCOrders |-> IF i = 1 THEN 2 ELSE 0]
=============================================================================
