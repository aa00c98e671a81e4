----------------------------- MODULE MCLifecycle -----------------------------
(* The stages of a load, and lifecycles that end in a mandatory cleanup: in  *)
(* Python an arm of a load sweep, an environment around a run and the cases  *)
(* of an e2e experiment; the tests of a Go run; the arms of a TypeScript     *)
(* sweep.  They never meet, so each behaviour moves one of them; PerfDrive   *)
(* composes the load with its scheduler.                                     *)
EXTENDS LoadController, ArmLifecycle, EnvironmentRun, CaseLifecycle, GoCase, TsEngine

VARIABLE subject
lifecycleVars == <<subject, ctlVars, armVars, environmentVars, caseVars, goVars, tsVars>>

\* A plan with every kind of stage: a ramp and a warmup that a cap can jump, a
\* hold, a second warmup that can jump to a second hold, and a last warmup that
\* has no hold to jump to.
St(kind, dur, rate, cap) == [kind |-> kind, dur |-> dur, rate |-> rate, cap |-> cap]
MCStages == << St("ramp", 2, 2, 3), St("warmup", 1, 2, 1), St("hold", 3, 2, 2),
               St("warmup", 2, 1, 1), St("hold", 2, 3, 1), St("warmup", 1, 1, 3) >>
MCOffset == <<0, 2, 3, 6, 8, 10, 11>>

\* Two arms on the same resources and one on others.
MCResources == <<"small", "small", "large">>
MCCases == << [face |-> "none", judge |-> FALSE, cleanup |-> FALSE],
              [face |-> "bound", judge |-> TRUE, cleanup |-> TRUE],
              [face |-> "filled", judge |-> TRUE, cleanup |-> FALSE],
              [face |-> "draft", judge |-> FALSE, cleanup |-> FALSE],
              [face |-> "bound", judge |-> FALSE, cleanup |-> FALSE] >>

\* One test is bound to an environment; the cleanup of the other has no budget.
AllPhases == {"prepare", "execute", "judge", "cleanup"}
MCGoCases == << [bound |-> TRUE, prepare |-> TRUE, judge |-> FALSE, cleanup |-> TRUE,
                 funded |-> AllPhases],
                [bound |-> FALSE, prepare |-> FALSE, judge |-> TRUE, cleanup |-> TRUE,
                 funded |-> AllPhases \ {"cleanup"}] >>

Init ==
    /\ subject \in {"load", "arm", "environment", "case", "go", "tsarm"}
    /\ CtlInit /\ ArmInit /\ EnvironmentInit /\ CaseInit /\ GoInit /\ TsInit
    /\ subject # "go" => \A c \in DOMAIN goCase : goCase[c] = GoFresh("start", TRUE)

\* Only the subject moves.
Turn(s) ==
    /\ subject = s /\ UNCHANGED subject
    /\ s # "load" => UNCHANGED ctlVars
    /\ s # "arm" => UNCHANGED armVars
    /\ s # "environment" => UNCHANGED environmentVars
    /\ s # "case" => UNCHANGED caseVars
    /\ s # "go" => UNCHANGED goVars
    /\ s # "tsarm" => UNCHANGED tsVars

Next ==
    \/ CtlNext /\ Turn("load")
    \/ ArmNext /\ Turn("arm")
    \/ EnvironmentNext /\ Turn("environment")
    \/ CaseNext /\ Turn("case")
    \/ GoNext /\ Turn("go")
    \/ TsEngineNext /\ Turn("tsarm")

Fairness ==
    /\ WF_lifecycleVars(Turn("arm") /\ Owner) /\ WF_lifecycleVars(Turn("arm") /\ TickBegins)
    /\ WF_lifecycleVars(Turn("arm") /\ TickEnds) /\ WF_lifecycleVars(Turn("arm") /\ ObserverCut)

Spec == Init /\ [][Next]_lifecycleVars /\ Fairness

(* A sweep tells the truth about its arms, in Python and in TypeScript: what *)
(* failed, what was cut short, and that nothing was left without cleanup.    *)
SweepsTrue == ArmIsTrue /\ TsRunIsTrue

(* A verdict is what the steps of its cases came to, in Python and in Go.    *)
VerdictsTrue == CaseVerdictIsTrue /\ GoVerdictIsTrue

(* Every sweep returns or raises: no arm waits for an observer that nothing *)
(* releases, however its hooks, its load and its owner end.                 *)
SweepTerminates == subject = "arm" ~> SweepOver

=============================================================================
