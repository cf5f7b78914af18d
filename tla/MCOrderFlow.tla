---------------------------- MODULE MCOrderFlow ----------------------------
(***************************************************************************)
(* Instances of OrderFlow for TLC.                                         *)
(***************************************************************************)
EXTENDS OrderFlow

\* Orders for one symbol, all buys, as the strategy makes them.
OneSymbol == [o \in Orders |-> "AAPL"]
AllBuys == [o \in Orders |-> "Buy"]

\* The first and the last order buy, the second sells.
BuySellBuy == [o \in Orders |-> IF o = 2 THEN "Sell" ELSE "Buy"]

\* Every order is for one share.
Ones == [o \in Orders |-> 1]

\* The first order may be filled in two parts, the others at once.
TwoThenOne == [o \in Orders |-> IF o = 1 THEN 2 ELSE 1]
=============================================================================
