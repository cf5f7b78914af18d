----------------------------- MODULE MCRiskGate -----------------------------
(***************************************************************************)
(* Instances of RiskGate for TLC.                                          *)
(***************************************************************************)
EXTENDS RiskGate

\* One symbol, which no other thread's subscription matches.
OneSymbol == {<<"T">>}

\* The thread of the first symbol also gets the events of the second, which
\* are the only ones.
TwoThreads == {<<"F">>, <<"F", "B">>}
Shared == {<<"F", "B">>}
=============================================================================
