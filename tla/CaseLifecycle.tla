---------------------------- MODULE CaseLifecycle ----------------------------
(* e2e_harness: cases run one after the other through run_lifecycle         *)
(* (caserun.py), from the engine's data (engine.py) or bound by a project   *)
(* to an environment (environment.py), and their statuses are rolled up     *)
(* (harness_common/execution/verdict.py).  A step passes, raises Skip, Fail *)
(* or an error, or returns after its budget, which is an error too; an      *)
(* interrupt of the process is no Exception and escapes.                    *)
EXTENDS Naturals, Sequences

CONSTANTS Cases    \* the cases of an experiment, each with its face and steps

VARIABLES
    case,         \* the case that runs, or one past the last
    step,         \* the phase it is at, or "interrupt" on the way out
    results,       \* its PhaseResults
    status,       \* its status
    blocked,      \* a phase before cleanup did not pass
    facts,        \* what the environment's target facts say now
    prepared,     \* the snapshot taken when prepare ended
    raised,       \* what the steps called really ended in
    cases,        \* statuses of the cases that ended
    outcome       \* "open", the rolled up status, or "interrupted"

caseVars == <<case, step, results, status, blocked, facts, prepared, raised, cases, outcome>>

Precedence == <<"error", "fail", "pass", "skipped">>
Result == {"pass", "skipped", "fail", "error"}

\* "none" and "draft" end at once; the engine's "filled" case has execute and
\* judge, a "bound" one prepare, execute and what its plan defines.
ASSUME CaseShapes ==
    \A i \in DOMAIN Cases :
        /\ Cases[i] \in [face : {"none", "draft", "filled", "bound"}, judge : BOOLEAN,
                          cleanup : BOOLEAN]
        /\ Cases[i].face = "filled" => Cases[i].judge /\ ~Cases[i].cleanup

Rollup(statuses) ==
    IF \E i \in DOMAIN Precedence : Precedence[i] \in statuses
    THEN Precedence[CHOOSE i \in DOMAIN Precedence :
                      Precedence[i] \in statuses /\ \A j \in 1..(i - 1) : Precedence[j] \notin statuses]
    ELSE "skipped"

CaseInit ==
    /\ case = 1 /\ step = "start" /\ results = << >> /\ status = "pass" /\ blocked = FALSE
    /\ facts = "unknown" /\ prepared = "unknown" /\ raised = << >>
    /\ cases = << >> /\ outcome = "open"

This == Cases[case]
EndCase(s) ==
    /\ cases' = Append(cases, s) /\ case' = case + 1 /\ step' = "start"

\* A case with no e2e face is skipped and an unfilled draft is an error.
StartCase ==
    /\ outcome = "open" /\ step = "start" /\ case <= Len(Cases)
    /\ results' = << >> /\ status' = "pass" /\ blocked' = FALSE /\ raised' = << >>
    /\ facts' = "unknown" /\ prepared' = "unknown"
    /\ CASE This.face = "none" -> EndCase("skipped")
         [] This.face = "draft" -> EndCase("error")
         [] This.face = "filled" -> step' = "execute" /\ UNCHANGED <<case, cases>>
         [] OTHER -> step' = "prepare" /\ UNCHANGED <<case, cases>>
    /\ UNCHANGED outcome

\* apply(): the worse status stands; only cleanup does not block.
Apply(name, result) ==
    /\ results' = Append(results, [name |-> name, status |-> result])
    /\ status' = CASE result = "error" -> "error"
                   [] result = "fail" /\ status # "error" -> "fail"
                   [] result = "skipped" /\ status = "pass" -> "skipped"
                   [] OTHER -> status
    /\ blocked' = (blocked \/ (result # "pass" /\ name # "cleanup"))
    /\ raised' = Append(raised, result)

\* Mutant: the snapshot is the environment itself, which cleanup rewrites.
SnapshotShared(name) == facts'
Snapshot(name) == IF name = "prepare" THEN facts' ELSE prepared

\* _run_phase: prepare and cleanup rewrite the target facts; a prepare that
\* leaves them unmet is an error.
RunPhase(name, next) ==
    /\ step = name /\ step' = next
    /\ facts' \in IF name \in {"prepare", "cleanup"} THEN {"met", "unmet"} ELSE {facts}
    /\ \E result \in Result :
         /\ name = "prepare" /\ facts' = "unmet" => result # "pass"
         /\ Apply(name, result)
    /\ prepared' = Snapshot(name)
    /\ UNCHANGED <<case, cases, outcome>>

Skipping(name, next) ==
    /\ step = name /\ step' = next
    /\ UNCHANGED <<case, status, blocked, facts, prepared, raised, cases, outcome>>

PrepareCase == RunPhase("prepare", "execute")
Execute == ~blocked /\ RunPhase("execute", "judge")
ExecuteBlocked == blocked /\ Skipping("execute", "judge") /\ UNCHANGED results
JudgeCase == step = "judge" /\ This.judge /\ ~blocked /\ RunPhase("judge", "cleanup")
JudgeBlocked ==
    /\ Skipping("judge", "cleanup")
    /\ ~This.judge \/ blocked
    /\ results' = IF This.judge THEN Append(results, [name |-> "judge", status |-> "skipped"])
                 ELSE results
CleanCase == step = "cleanup" /\ This.cleanup /\ RunPhase("cleanup", "end")
NoCleanup == Skipping("cleanup", "end") /\ ~This.cleanup /\ UNCHANGED results

\* The process is interrupted in a step: cleanup still runs, then all ends.
Break ==
    /\ step \in {"prepare", "execute", "judge", "cleanup"}
    /\ step = "execute" => ~blocked
    /\ step = "judge" => This.judge /\ ~blocked
    /\ IF step # "cleanup" /\ This.cleanup
       THEN step' = "interrupt" /\ UNCHANGED outcome
       ELSE step' = "out" /\ outcome' = "interrupted"
    /\ UNCHANGED <<case, results, status, blocked, facts, prepared, raised, cases>>

CleanAndGo ==
    /\ step = "interrupt" /\ step' = "out" /\ outcome' = "interrupted"
    /\ results' = Append(results, [name |-> "cleanup", status |-> "pass"])
    /\ UNCHANGED <<case, status, blocked, facts, prepared, raised, cases>>

FinishCase ==
    /\ step = "end" /\ EndCase(status)
    /\ UNCHANGED <<results, status, blocked, facts, prepared, raised, outcome>>

RollUp ==
    /\ outcome = "open" /\ step = "start" /\ case > Len(Cases)
    /\ outcome' = Rollup({cases[i] : i \in DOMAIN cases})
    /\ UNCHANGED <<case, step, results, status, blocked, facts, prepared, raised, cases>>

CaseNext ==
    \/ StartCase \/ PrepareCase \/ Execute \/ ExecuteBlocked \/ JudgeCase \/ JudgeBlocked
    \/ CleanCase \/ NoCleanup \/ Break \/ CleanAndGo \/ FinishCase \/ RollUp

-----------------------------------------------------------------------------
Held(what) == \E i \in DOMAIN raised : raised[i] = what

(* The status of a case says how its steps ended, cleanup's among them: an  *)
(* error before a failure before a skip.  Its environment is the one that   *)
(* prepare left, met if it passed.  Cleanup was called if there is one, and *)
(* after everything else.  An error of one case marks the whole run.        *)
CaseVerdictIsTrue ==
    /\ step = "end" =>
         /\ status = IF Held("error") THEN "error" ELSE IF Held("fail") THEN "fail"
                     ELSE IF Held("skipped") THEN "skipped" ELSE "pass"
         /\ status = "pass" /\ This.face = "bound" => prepared = "met"
         /\ This.cleanup <=> results[Len(results)].name = "cleanup"
    /\ outcome \in Result => (outcome = "error" <=> \E i \in DOMAIN cases : cases[i] = "error")

=============================================================================
