--------------------------- MODULE MCPositionTable ---------------------------
(***************************************************************************)
(* Instances of PositionTable for TLC.                                     *)
(***************************************************************************)
EXTENDS PositionTable, TLC

\* Two keys start at the last slot, so that probing wraps around; the third
\* starts at the slot they come to.
Collisions == [k \in Keys |-> IF k = 3 THEN 0 ELSE Size - 1]

ThreadSymmetry == Permutations(Threads)
=============================================================================
