--------------------------- MODULE MCAgentService ----------------------------
(* Instances of AgentService for TLC.                                      *)
EXTENDS AgentService, TLC

\* Session objects are interchangeable: only safety runs use this.
ObjSymmetry == Permutations(Objs)
=============================================================================
