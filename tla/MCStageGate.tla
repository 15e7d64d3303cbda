---------------------------- MODULE MCStageGate ------------------------------
(* Instances of StageGate for TLC.                                         *)
EXTENDS StageGate, TLC

\* Runs are interchangeable, and so are the ids: only safety runs use this.
Symmetry == Permutations(Runs) \cup Permutations(Ids)
=============================================================================
