-------------------------- MODULE MCPositionLedger --------------------------
(***************************************************************************)
(* The instance of PositionLedger for TLC.                                 *)
(***************************************************************************)
EXTENDS PositionLedger
=============================================================================
