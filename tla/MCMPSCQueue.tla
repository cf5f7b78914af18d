---------------------------- MODULE MCMPSCQueue ----------------------------
(***************************************************************************)
(* The instance of MPSCQueue for TLC.                                      *)
(***************************************************************************)
EXTENDS MPSCQueue

Busy == CHOOSE p \in Producers : TRUE

\* One producer pushes twice, so that its own orders have an order; the
\* others push once, so that up to three pushes are half done at a time.
OneTwice == [p \in Producers |-> IF p = Busy THEN 2 ELSE 1]
=============================================================================
