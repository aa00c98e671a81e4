-------------------------------- MODULE GoCase --------------------------------
(* sdks/go: one `go test` invocation.  Its parallel subtests run cases       *)
(* (e2e/caserun/run.go), bound to an environment (e2e/environment/run.go) or *)
(* not, and record them in one Run (e2e/testrun/run.go), which rolls them    *)
(* up (report/verdict.go), writes them and decides the exit code.            *)
EXTENDS Naturals, Sequences

CONSTANTS GoCases    \* the shape of each case that the tests define

VARIABLES
    goCase,        \* each case: where it is, its Result and what really happened
    recorder,      \* Recorder.results, with the environments of bound cases
    invocation     \* testrun.Run: what Main has done and what it left on disk

goVars == <<goCase, recorder, invocation>>

GoPhase == <<"prepare", "execute", "judge", "cleanup", "report">>
GoEnd == {"pass", "skipped", "fail", "error"}

\* bound: run by environment.Run, which always prepares; funded: the phases with
\* a positive budget.
ASSUME GoShapes ==
    \A c \in DOMAIN GoCases :
        GoCases[c] \in [bound : BOOLEAN, prepare : BOOLEAN, judge : BOOLEAN, cleanup : BOOLEAN,
                        funded : SUBSET {"prepare", "execute", "judge", "cleanup"}]

\* Result{Status: Pass}; `facts` is what the environment's target says now, and
\* `truth` what really happened: what steps came to, which was the last, whether
\* there was a stimulus, and what the facts were when prepare ended.
GoFresh(at, valid) ==
    [at |-> at, valid |-> valid, status |-> "pass", blocked |-> FALSE, expired |-> FALSE, facts |-> "unmet",
     prepared |-> "unmet", cleaned |-> "none",
     truth |-> [came |-> {}, last |-> "none", sent |-> FALSE, facts |-> "unmet"]]

\* `go test -run` selects some of the tests; a valid one has a ref and a step to
\* execute.
GoInit ==
    /\ \E chosen \in SUBSET DOMAIN GoCases : \E valid \in SUBSET chosen :
         goCase = [c \in DOMAIN GoCases |->
                     GoFresh(IF c \in chosen THEN "start" ELSE "unselected", c \in valid)]
    /\ recorder = << >>
    /\ invocation = [state |-> "new", code |-> 0, verdict |-> "none", evidence |-> FALSE]

Testing == invocation.state = "tests"
GoPut(c, result) == goCase' = [goCase EXCEPT ![c] = result] /\ UNCHANGED <<recorder, invocation>>

\* Main: a run whose scope or id is no path segment starts no test.
GoMisconfigured ==
    /\ invocation.state = "new"
    /\ invocation' = [invocation EXCEPT !.state = "exited", !.code = 1]
    /\ UNCHANGED <<goCase, recorder>>
GoStart ==
    /\ invocation.state = "new" /\ invocation' = [invocation EXCEPT !.state = "tests"]
    /\ UNCHANGED <<goCase, recorder>>

GoDefines(c, phase) ==
    CASE phase = "prepare" -> GoCases[c].bound \/ GoCases[c].prepare
      [] phase = "judge" -> GoCases[c].judge
      [] phase = "cleanup" -> GoCases[c].cleanup
      [] OTHER -> TRUE

\* The phase that follows the n-th: a blocked case executes nothing.
GoAfter(c, n, blocked) ==
    LET due == {m \in (n + 1)..Len(GoPhase) :
                  GoDefines(c, GoPhase[m]) /\ ~(blocked /\ GoPhase[m] = "execute")}
    IN  GoPhase[CHOOSE m \in due : \A k \in due : m <= k]

GoBegin(c) ==
    /\ Testing /\ goCase[c].at = "start"
    /\ GoPut(c, IF goCase[c].valid THEN [goCase[c] EXCEPT !.at = GoAfter(c, 0, FALSE)]
                ELSE [goCase[c] EXCEPT !.at = "report", !.status = "error"])

\* The caller's context ends: the deadline of the test, or the test itself.
GoExpires(c) ==
    /\ Testing /\ goCase[c].at \in {"prepare", "execute", "judge", "cleanup"} /\ ~goCase[c].expired
    /\ GoPut(c, [goCase[c] EXCEPT !.expired = TRUE])

\* The context of a phase ends with the caller's, but for cleanup's.
Cancellable(phase) == phase # "cleanup"

\* runPhase: what a step returned (a panic is recovered as an error) stands,
\* unless it returned nil after its context was over.  A phase without a
\* budget is an error and its step is not called.
GoVerdictOf(c, phase, returned, late) ==
    IF phase \notin GoCases[c].funded
       \/ (returned = "pass" /\ (late \/ (goCase[c].expired /\ Cancellable(phase))))
    THEN "error" ELSE returned

\* applyPhase: an error stands, then a failure, then a skip.
GoApply(status, result) ==
    CASE result = "error" -> "error"
      [] result = "fail" /\ status # "error" -> "fail"
      [] result = "skipped" /\ status \notin {"error", "fail"} -> "skipped"
      [] OTHER -> status

\* What the step of a phase came to: late by its own budget, or by the caller's
\* context where that is its own business.
GoTruth(c, phase, returned, late, facts) ==
    LET truth == goCase[c].truth
        came == IF returned = "pass" /\ (late \/ (phase # "cleanup" /\ goCase[c].expired))
                THEN "error" ELSE returned
    IN  [came |-> truth.came \cup {came}, last |-> phase, sent |-> truth.sent \/ phase = "execute",
         facts |-> IF phase = "prepare" THEN facts ELSE truth.facts]

\* A phase runs.  Any step of a bound case may rewrite the environment; its
\* prepare passes only if it left the identity alone and the facts met, and
\* what prepare and cleanup left is copied as they end.
GoRuns(c, n) ==
    LET phase == GoPhase[n]
        this == goCase[c]
        called == phase \in GoCases[c].funded
    IN
    /\ Testing /\ this.at = phase
    /\ phase = "judge" => ~this.blocked
    /\ \E returned \in GoEnd, late \in BOOLEAN, facts \in {"met", "unmet"} :
         LET result == GoVerdictOf(c, phase, returned, late)
             blocked == this.blocked \/ (result # "pass" /\ phase # "cleanup") IN
         /\ late => returned = "pass"
         /\ facts # this.facts => called /\ GoCases[c].bound
         /\ GoCases[c].bound /\ phase = "prepare" /\ returned = "pass" => facts = "met"
         /\ ~called => returned = "error" /\ facts = this.facts
         /\ GoPut(c, [this EXCEPT
              !.at = GoAfter(c, n, blocked), !.blocked = blocked, !.facts = facts,
              !.status = GoApply(@, result),
              !.prepared = IF called /\ phase = "prepare" THEN facts ELSE @,
              !.cleaned = IF called /\ phase = "cleanup" THEN facts ELSE @,
              !.truth = GoTruth(c, phase, returned, late, facts)])

\* The judge of a blocked case is listed as skipped, which changes no status.
GoJudgeBlocked(c) ==
    /\ Testing /\ goCase[c].at = "judge" /\ goCase[c].blocked
    /\ GoPut(c, [goCase[c] EXCEPT !.at = GoAfter(c, 3, TRUE)])

\* Run.Assert: the result is recorded before the test passes, skips or fails.
GoReport(c) ==
    /\ Testing /\ goCase[c].at = "report"
    /\ recorder' = Append(recorder, [case |-> c, status |-> goCase[c].status,
                                     prepared |-> goCase[c].prepared])
    /\ goCase' = [goCase EXCEPT ![c].at = CASE goCase[c].status = "pass" -> "passed"
                                             [] goCase[c].status = "skipped" -> "skipped"
                                             [] OTHER -> "failed"]
    /\ UNCHANGED invocation

GoRollup(statuses) ==
    CASE "error" \in statuses -> "error"
      [] "fail" \in statuses -> "fail"
      [] "pass" \in statuses -> "pass"
      [] OTHER -> "skipped"

Reported == {"passed", "skipped", "failed"}

\* Main, once the tests are over.  m.Run answers 0 only if none failed; a run
\* without cases writes nothing; a file that cannot be written fails the run.
GoFinish ==
    LET failed == \E c \in DOMAIN goCase : goCase[c].at = "failed"
        bound == \E i \in DOMAIN recorder : GoCases[recorder[i].case].bound
        statuses == {recorder[i].status : i \in DOMAIN recorder}
    IN
    /\ Testing /\ \A c \in DOMAIN goCase : goCase[c].at \in Reported \cup {"unselected"}
    /\ \E code \in {0, 1}, written, copied \in BOOLEAN :
         /\ failed => code = 1
         /\ copied => written /\ bound
         /\ recorder = << >> => ~written
         /\ invocation' =
              [state |-> "exited", verdict |-> IF written THEN GoRollup(statuses) ELSE "none",
               evidence |-> copied,
               code |-> IF recorder # << >> /\ ~(written /\ (bound => copied)) THEN 1 ELSE code]
    /\ UNCHANGED <<goCase, recorder>>

GoNext ==
    \/ GoMisconfigured \/ GoStart \/ GoFinish
    \/ \E c \in DOMAIN GoCases :
         \/ GoBegin(c) \/ GoExpires(c) \/ GoJudgeBlocked(c) \/ GoReport(c)
         \/ \E n \in 1..4 : GoRuns(c, n)

-----------------------------------------------------------------------------
(* A reported case fails if any of its steps did, cleanup's too, and cleanup *)
(* only for reasons of its own; nothing is sent to an environment whose      *)
(* facts were not checked; cleanup is the last step of every case that has   *)
(* one, after whatever went wrong or expired.                                *)
GoCasesAreTrue ==
    \A c \in DOMAIN goCase :
        LET this == goCase[c] IN
        this.at \in Reported /\ this.valid =>
            /\ this.at = "passed" <=> this.truth.came = {"pass"}
            /\ this.at = "failed" <=> this.truth.came \cap {"error", "fail"} # {}
            /\ this.status = "error" <=> "error" \in this.truth.came
            /\ GoCases[c].cleanup => this.truth.last = "cleanup"
            /\ GoCases[c].bound /\ this.truth.sent => this.truth.facts = "met"

(* An invocation that exits with 0 has written a verdict that counts every   *)
(* case the tests ran, with the environment each was prepared in, and the    *)
(* verdict is neither a failure nor an error.                                *)
ExitZeroIsTrue ==
    invocation.state = "exited" /\ invocation.code = 0 =>
        /\ {c \in DOMAIN goCase : goCase[c].at # "unselected"} = {recorder[i].case : i \in DOMAIN recorder}
        /\ \A i, j \in DOMAIN recorder : recorder[i].case = recorder[j].case => i = j
        /\ recorder # << >> => invocation.verdict \in {"pass", "skipped"}
        /\ \A i \in DOMAIN recorder :
             LET c == recorder[i].case IN
             GoCases[c].bound =>
                invocation.evidence
                /\ recorder[i].prepared = goCase[c].truth.facts

GoVerdictIsTrue == GoCasesAreTrue /\ ExitZeroIsTrue

=============================================================================
