---------------------------- MODULE PipelineGate -----------------------------
(***************************************************************************)
(* What the /meta-debug gate promises, with no threads, locks, events or   *)
(* registry: a pipeline stops after each stage but the last, and goes on   *)
(* only when a grant was given for the stage it has reached and not taken  *)
(* back.  It may give up at any time, and nobody has to grant anything.    *)
(* StageGate implements this module.                                       *)
(***************************************************************************)
EXTENDS Naturals

CONSTANTS Runs,       \* pipelines
          LastStage   \* the stage that is not gated

VARIABLES phase,      \* "unborn", "working", "gated" or "over"
          reached,    \* the last completed stage, 0 if none
          granted     \* the stages that grants were given for

vars == <<phase, reached, granted>>

Init ==
    /\ phase = [r \in Runs |-> "unborn"]
    /\ reached = [r \in Runs |-> 0]
    /\ granted = [r \in Runs |-> {}]

Moves(r, from, to) == phase[r] = from /\ phase' = [phase EXCEPT ![r] = to]

Start(r) == Moves(r, "unborn", "working") /\ UNCHANGED <<reached, granted>>

\* A stage completes: the pipeline is at its gate.
Reach(r) ==
    /\ Moves(r, "working", "gated")
    /\ reached' = [reached EXCEPT ![r] = @ + 1]
    /\ UNCHANGED granted

\* A grant is for the stage that was reached last when it is given.
Grant(r) ==
    /\ phase[r] # "unborn"
    /\ granted' = [granted EXCEPT ![r] = @ \cup {reached[r]}]
    /\ UNCHANGED <<phase, reached>>

\* At its gate a pipeline can lose the grant it has not used.
Revoke(r) ==
    /\ phase[r] = "gated"
    /\ granted' = [granted EXCEPT ![r] = @ \ {reached[r]}]
    /\ UNCHANGED <<phase, reached>>

Pass(r) ==
    /\ Moves(r, "gated", "working")
    /\ reached[r] < LastStage
    /\ reached[r] \in granted[r]
    /\ UNCHANGED <<reached, granted>>

End(r) ==
    /\ Moves(r, "working", "over") \/ Moves(r, "gated", "over")
    /\ UNCHANGED <<reached, granted>>

Next == \E r \in Runs : Start(r) \/ Reach(r) \/ Grant(r) \/ Revoke(r) \/ Pass(r) \/ End(r)

Spec == Init /\ [][Next]_vars
=============================================================================
