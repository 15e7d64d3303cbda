------------------------------- MODULE MCConsoles -------------------------------
(***************************************************************************)
(* What people use the system with, side by side: signing in, the command  *)
(* line, the debugger's action tester and its logs, and the first service. *)
(* A behaviour is one of the parts, chosen by its first step.              *)
(***************************************************************************)
EXTENDS RemoteAuth, OAuthCodes, KnowledgeConsole, TurnConsole, ActionTester, DebuggerLogs,
    FirstService, MetaDebugConsole, TLC

VARIABLE part   \* "none" or the part this behaviour is of

Init ==
    /\ part = "none" /\ AuthInit /\ OAuthInit /\ KbInit /\ TurnInit /\ TesterInit /\ DebugInit
    /\ FirstInit /\ MetaInit

Only(name, Move) == part \in {"none", name} /\ part' = name /\ Move

Next ==
    \/ Only("sign-in", AuthNext) /\ UNCHANGED <<oauthVars, kbVars, turnVars, testerVars, debugVars, firstVars, metaVars>>
    \/ Only("oauth", OAuthNext) /\ UNCHANGED <<authVars, kbVars, turnVars, testerVars, debugVars, firstVars, metaVars>>
    \/ Only("knowledge", KbNext) /\ UNCHANGED <<authVars, oauthVars, turnVars, testerVars, debugVars, firstVars, metaVars>>
    \/ Only("turns", TurnNext) /\ UNCHANGED <<authVars, oauthVars, kbVars, testerVars, debugVars, firstVars, metaVars>>
    \/ Only("tester", TesterNext) /\ UNCHANGED <<authVars, oauthVars, kbVars, turnVars, debugVars, firstVars, metaVars>>
    \/ Only("logs", DebugNext) /\ UNCHANGED <<authVars, oauthVars, kbVars, turnVars, testerVars, firstVars, metaVars>>
    \/ Only("first service", FirstNext) /\ UNCHANGED <<authVars, oauthVars, kbVars, turnVars, testerVars, debugVars, metaVars>>
    \/ Only("debug pipelines", MetaNext)
       /\ UNCHANGED <<authVars, oauthVars, kbVars, turnVars, testerVars, debugVars, firstVars>>

Spec == Init /\ [][Next]_<<part, authVars, oauthVars, kbVars, turnVars, testerVars, debugVars, firstVars, metaVars>>

-----------------------------------------------------------------------------
Question(mode, options, custom) == [mode |-> mode, options |-> options, custom |-> custom]
MCQuestions == {Question("single", 1, FALSE)}

(* The turns do not tell the other kinds of questions apart: each takes an *)
(* answer that fits it, or asks again.                                     *)
ASSUME OtherKindsFit ==
    \A mode \in {"free", "press", "exact", "multiple"}, options \in 0 .. 3, custom \in BOOLEAN :
        LET question == Question(mode, options, custom)
        IN  \A line \in Typed(question) : CollectInput(question, line) = AsksAgain \/ Fits(question, CollectInput(question, line))

MCTargetDomain == [s \in AuthSessions |-> "d"]

(* The log directory of the second session has a name of its own.          *)
MCDirectoryOf == [s \in PageSessions |-> IF s = "s1" THEN "s1" ELSE "dir"]
MCMatching == SetToSeq(Pieces)
=============================================================================
