---------------------------- MODULE EvalReconcile ----------------------------
(***************************************************************************)
(* An evaluation and its resumable worksheet: run_experiment of            *)
(* eval_harness/engine.py, ReconcileEngine of schedule/reconcile.py and    *)
(* Checkpointer of worksheet/checkpoint.py.                                *)
(*                                                                         *)
(* The worksheet is filled cell by cell (provision, then solve, then       *)
(* scores) by concurrent tasks of one event loop while a checkpointer      *)
(* copies it to disk.  The process may crash or be cancelled at any        *)
(* moment; the next launch of the same experiment loads the checkpoint and *)
(* fills what is not yet OK.                                               *)
(*                                                                         *)
(* A producer call stands for a whole _attempt (see RateGate, which        *)
(* implements BoundedRetry).  The system under test is outside: it holds   *)
(* the provisioned resources, which outlive the process.                   *)
(***************************************************************************)
EXTENDS Naturals, FiniteSets

CONSTANTS
    Keys,           \* provision keys (Arm.key)
    Rows,           \* rows of the worksheet
    KeyOf,          \* Row.arm_key
    Metrics,        \* Worksheet.metric_names
    Known,          \* the metrics the engine was given
    Teardown,       \* run_experiment(teardown=...)
    MaxCrashes,     \* crashes and cancellations the model follows (bound)
    NoSheet         \* model value: no checkpoint on disk

ASSUME SheetAssumption ==
    /\ KeyOf \in [Rows -> Keys]
    /\ Known \subseteq Metrics
    /\ MaxCrashes \in Nat /\ Teardown \in BOOLEAN

VARIABLES
    ws,         \* the Worksheet in memory
    disk,       \* worksheet.jsonl
    verdict,    \* verdict.json: its run status
    main,       \* where run_experiment is
    broken,     \* an exception or a cancellation is on its way out of it
    prep, row, score,   \* the tasks of keys, rows and cells
    saver,      \* the loop of the checkpointer runs
    subject,    \* keys whose resource exists in the system under test
    cleaning,   \* keys the teardown has yet to clean
    crashes

fileVars == <<disk, verdict>>
taskVars == <<prep, row, score>>
vars == <<ws, fileVars, main, broken, taskVars, saver, subject, cleaning, crashes>>

-----------------------------------------------------------------------------
Cells == Rows \X Metrics
CellState == {"pending", "ok", "failed"}
Sheets == [prov : [Keys -> CellState], solve : [Rows -> CellState],
           scores : [Cells -> CellState]]

ASSUME NoSheetAssumption == NoSheet \notin Sheets

Blank == [prov |-> [k \in Keys |-> "pending"], solve |-> [r \in Rows |-> "pending"],
          scores |-> [c \in Cells |-> "pending"]]

NoPrep == [k \in Keys |-> "none"]
NoRow == [r \in Rows |-> "none"]
NoScore == [c \in Cells |-> "none"]
Idle == prep = NoPrep /\ row = NoRow /\ score = NoScore
TasksCut == prep' = NoPrep /\ row' = NoRow /\ score' = NoScore

Init ==
    /\ ws = Blank
    /\ disk = NoSheet /\ verdict = "none"
    /\ main = "down" /\ broken = FALSE
    /\ Idle
    /\ saver = FALSE /\ subject = {} /\ cleaning = {} /\ crashes = 0

\* to_jsonl: the whole worksheet, atomically.
Dump == disk' = ws

-----------------------------------------------------------------------------
(* Launch: build or resume the worksheet, start the checkpointer.          *)

\* Mutant: a rerun builds the worksheet anew.
Rebuilt == Blank
Loaded == IF disk = NoSheet THEN Blank ELSE disk

\* Mutant: only provisions that were never tried are prepared.
UntriedOnly(s) == {k \in Keys : s.prov[k] = "pending"}
ProvisionsPending(s) == {k \in Keys : s.prov[k] # "ok"}

Launch ==
    /\ main = "down"
    /\ ws' = Loaded
    /\ main' = "provision" /\ broken' = FALSE
    /\ prep' = [k \in Keys |-> IF k \in ProvisionsPending(Loaded) THEN "calling" ELSE "none"]
    /\ saver' = TRUE
    /\ UNCHANGED <<fileVars, row, score, subject, cleaning, crashes>>

-----------------------------------------------------------------------------
(* _provision                                                              *)

Prepared(k) ==
    /\ prep[k] = "calling"
    /\ prep' = [prep EXCEPT ![k] = "none"]
    /\ ws' = [ws EXCEPT !.prov[k] = "ok"]
    /\ subject' = subject \cup {k}
    /\ UNCHANGED <<fileVars, main, broken, row, score, saver, cleaning, crashes>>

\* A failed prepare may leave its resource behind.
PrepareFails(k) ==
    /\ prep[k] = "calling"
    /\ prep' = [prep EXCEPT ![k] = "none"]
    /\ ws' = [ws EXCEPT !.prov[k] = "failed"]
    /\ subject' \in {subject, subject \cup {k}}
    /\ UNCHANGED <<fileVars, main, broken, row, score, saver, cleaning, crashes>>

Provisioned == \A k \in Keys : prep[k] = "none"

\* gather of the provisions has returned: one task per row.
StartRows ==
    /\ main = "provision" /\ Provisioned
    /\ main' = "rows"
    /\ row' = [r \in Rows |-> "new"]
    /\ UNCHANGED <<ws, fileVars, broken, prep, score, saver, subject, cleaning, crashes>>

-----------------------------------------------------------------------------
(* _row_chain                                                              *)

\* Mutant: a row does not look at its provision.
AnyProvision(r) == TRUE
ProvisionOk(r) == ws.prov[KeyOf[r]] = "ok"

\* The provision is not available: the row is left as it is.
SkipRow(r) ==
    /\ row[r] = "new" /\ ~ProvisionOk(r)
    /\ row' = [row EXCEPT ![r] = "done"]
    /\ UNCHANGED <<ws, fileVars, main, broken, prep, score, saver, subject,
                   cleaning, crashes>>

Fetch(r) ==
    /\ row[r] = "new" /\ ProvisionOk(r) /\ ws.solve[r] # "ok"
    /\ row' = [row EXCEPT ![r] = "fetching"]
    /\ UNCHANGED <<ws, fileVars, main, broken, prep, score, saver, subject,
                   cleaning, crashes>>

\* Nothing stored: trigger the system under test.
Miss(r) ==
    /\ row[r] = "fetching"
    /\ row' = [row EXCEPT ![r] = "solving"]
    /\ UNCHANGED <<ws, fileVars, main, broken, prep, score, saver, subject,
                   cleaning, crashes>>

\* Mutant: every metric is scored again.
Everything(r) == Metrics
\* todo: the metrics whose cell is not OK.
Todo(r) == {m \in Metrics : ws.scores[<<r, m>>] # "ok"}

Scoring(r) ==
    /\ row' = [row EXCEPT ![r] = "scoring"]
    /\ score' = [c \in Cells |-> IF c[1] = r /\ c[2] \in Todo(r) THEN "new" ELSE score[c]]

\* fetch found a stored result, or solve returned one.
Solved(r) ==
    /\ row[r] \in {"fetching", "solving"}
    /\ ws' = [ws EXCEPT !.solve[r] = "ok"]
    /\ Scoring(r)
    /\ UNCHANGED <<fileVars, main, broken, prep, saver, subject, cleaning, crashes>>

AlreadySolved(r) ==
    /\ row[r] = "new" /\ ProvisionOk(r) /\ ws.solve[r] = "ok"
    /\ Scoring(r)
    /\ UNCHANGED <<ws, fileVars, main, broken, prep, saver, subject, cleaning, crashes>>

SolveFails(r) ==
    /\ row[r] \in {"fetching", "solving"}
    /\ ws' = [ws EXCEPT !.solve[r] = "failed"]
    /\ row' = [row EXCEPT ![r] = "done"]
    /\ UNCHANGED <<fileVars, main, broken, prep, score, saver, subject, cleaning, crashes>>

\* gather of the scores has returned.
RowEnds(r) ==
    /\ row[r] = "scoring" /\ \A m \in Metrics : score[<<r, m>>] = "none"
    /\ row' = [row EXCEPT ![r] = "done"]
    /\ UNCHANGED <<ws, fileVars, main, broken, prep, score, saver, subject,
                   cleaning, crashes>>

-----------------------------------------------------------------------------
(* _score_one                                                              *)

\* The cell is written and its task ends.
Fills(c, result) ==
    /\ score' = [score EXCEPT ![c] = "none"]
    /\ ws' = [ws EXCEPT !.scores[c] = result]
    /\ UNCHANGED <<fileVars, main, broken, prep, row, saver, subject, cleaning, crashes>>

UnknownMetric(c) == score[c] = "new" /\ c[2] \notin Known /\ Fills(c, "failed")

Abstain(c) == score[c] = "new" /\ c[2] \in Known /\ Fills(c, "ok")

ScoreStarts(c) ==
    /\ score[c] = "new" /\ c[2] \in Known
    /\ score' = [score EXCEPT ![c] = "calling"]
    /\ UNCHANGED <<ws, fileVars, main, broken, prep, row, saver, subject,
                   cleaning, crashes>>

\* applies_to raised: outside the try, so the row fails at once and with it
\* the whole run, while the other tasks go on.
AppliesRaises(c) ==
    /\ score[c] = "new" /\ c[2] \in Known
    /\ score' = [score EXCEPT ![c] = "none"]
    /\ row' = [row EXCEPT ![c[1]] = "raised"]
    /\ UNCHANGED <<ws, fileVars, main, broken, prep, saver, subject, cleaning, crashes>>

Scored(c) == score[c] = "calling" /\ Fills(c, "ok")
ScoreFails(c) == score[c] = "calling" /\ Fills(c, "failed")

-----------------------------------------------------------------------------
(* The end of the run and the checkpointer.                                *)

AllRowsDone == \A r \in Rows : row[r] = "done"

\* engine.run returns or raises; __aexit__ tells the checkpointer to stop.
Leave ==
    /\ main = "rows"
    /\ \/ AllRowsDone /\ broken' = FALSE
       \/ (\E r \in Rows : row[r] = "raised") /\ broken' = TRUE
    /\ main' = "leave"
    /\ UNCHANGED <<ws, fileVars, taskVars, saver, subject, cleaning, crashes>>

\* _loop: its wait timed out, or was ended by the stop.
Flush ==
    /\ saver
    /\ Dump
    /\ saver' = (main # "leave")
    /\ UNCHANGED <<ws, verdict, main, broken, taskVars, subject, cleaning, crashes>>

\* The last flush of __aexit__; a run that raised then ends the process,
\* whatever its tasks were doing.
LastFlush ==
    /\ main = "leave" /\ ~saver
    /\ Dump
    /\ IF broken THEN main' = "down" /\ TasksCut
                 ELSE main' = "report" /\ UNCHANGED taskVars
    /\ UNCHANGED <<ws, verdict, broken, saver, subject, cleaning, crashes>>

\* _row_status
RowStatus(r) ==
    LET cells == {ws.scores[<<r, m>>] : m \in Metrics}
    IN  CASE ws.solve[r] = "failed" -> "error"
          [] ws.solve[r] = "pending" -> "skipped"
          [] ws.solve[r] = "ok" ->
                IF "failed" \in cells THEN "error"
                ELSE IF "pending" \in cells THEN "skipped" ELSE "pass"

\* rollup_status; no row of an evaluation is ever "fail".
RunStatus ==
    LET present == {RowStatus(r) : r \in Rows}
    IN  IF "error" \in present THEN "error"
        ELSE IF "pass" \in present THEN "pass" ELSE "skipped"

\* write_verdict, the last to_jsonl, and the choice of a teardown.
Report ==
    /\ main = "report"
    /\ verdict' = RunStatus
    /\ Dump
    /\ main' = "reported"
    /\ cleaning' = IF Teardown THEN {k \in Keys : ws.prov[k] = "ok"} ELSE {}
    /\ UNCHANGED <<ws, broken, taskVars, saver, subject, crashes>>

\* teardown_provisions: best effort, the worksheet is not told.
Clean(k) ==
    /\ main = "reported" /\ k \in cleaning
    /\ cleaning' = cleaning \ {k}
    /\ subject' \in {subject, subject \ {k}}
    /\ UNCHANGED <<ws, fileVars, main, broken, taskVars, saver, crashes>>

Exit ==
    /\ main = "reported" /\ cleaning = {}
    /\ main' = "down"
    /\ TasksCut
    /\ UNCHANGED <<ws, fileVars, broken, saver, subject, cleaning, crashes>>

-----------------------------------------------------------------------------
(* Faults.                                                                 *)

\* The run is cancelled: gather cuts every task, no cell is written.
CancelRun ==
    /\ main \in {"provision", "rows"} /\ crashes < MaxCrashes
    /\ main' = "leave" /\ broken' = TRUE
    /\ TasksCut
    /\ subject' \in {subject, subject \cup {k \in Keys : prep[k] = "calling"}}
    /\ crashes' = crashes + 1
    /\ UNCHANGED <<ws, fileVars, saver, cleaning>>

\* The process dies: only the disk and the system under test remain.
Crash ==
    /\ main # "down" /\ crashes < MaxCrashes
    /\ main' = "down"
    /\ TasksCut
    /\ saver' = FALSE /\ cleaning' = {}
    /\ subject' \in {subject, subject \cup {k \in Keys : prep[k] = "calling"}}
    /\ crashes' = crashes + 1
    /\ UNCHANGED <<ws, fileVars, broken>>

-----------------------------------------------------------------------------
KeyTask(k) == Prepared(k) \/ PrepareFails(k)
RowTask(r) == SkipRow(r) \/ Fetch(r) \/ Miss(r) \/ Solved(r) \/ AlreadySolved(r)
              \/ SolveFails(r) \/ RowEnds(r)
CellTask(c) == UnknownMetric(c) \/ Abstain(c) \/ ScoreStarts(c) \/ AppliesRaises(c)
               \/ Scored(c) \/ ScoreFails(c)
Process == StartRows \/ Leave \/ LastFlush \/ Report \/ Exit
           \/ \E k \in Keys : Clean(k)

Tasks == \/ \E k \in Keys : KeyTask(k)
         \/ \E r \in Rows : RowTask(r)
         \/ \E c \in Cells : CellTask(c)

Next == Launch \/ Process \/ Flush \/ Tasks \/ CancelRun \/ Crash

Spec == Init /\ [][Next]_vars

\* The event loop runs some task while one is ready, and a call ends; the
\* stopped checkpointer writes; somebody launches the experiment again.
FairSpec == Spec /\ WF_vars(Tasks) /\ WF_vars(Flush) /\ WF_vars(Launch \/ Process)

\* A call, or a metric's applies_to, fails.
Failure == \/ \E k \in Keys : PrepareFails(k)
           \/ \E r \in Rows : SolveFails(r)
           \/ \E c \in Cells : ScoreFails(c) \/ AppliesRaises(c)

-----------------------------------------------------------------------------
(* Properties.                                                             *)

TypeOK ==
    /\ ws \in Sheets /\ disk \in Sheets \cup {NoSheet}
    /\ verdict \in {"none", "pass", "error", "skipped"}
    /\ main \in {"down", "provision", "rows", "leave", "report", "reported"}
    /\ broken \in BOOLEAN
    /\ prep \in [Keys -> {"none", "calling"}]
    /\ row \in [Rows -> {"none", "new", "fetching", "solving", "scoring", "done", "raised"}]
    /\ score \in [Cells -> {"none", "new", "calling"}]
    /\ saver \in BOOLEAN
    /\ subject \subseteq Keys /\ cleaning \subseteq Keys
    /\ crashes \in 0..MaxCrashes
    /\ main = "down" => Idle /\ ~saver

\* A worksheet in which every filled cell rests on what it depends on
\* (reconcile.py:3-6).
Grounded(sheet) ==
    /\ \A r \in Rows : sheet.solve[r] # "pending" => sheet.prov[KeyOf[r]] = "ok"
    /\ \A c \in Cells : sheet.scores[c] # "pending" => sheet.solve[c[1]] = "ok"

\* Neither in memory nor in a checkpoint, however the writes of the tasks,
\* the flushes and the crashes interleave, is there a score without its
\* solve or a solve without its provision: a resumed run never has to doubt
\* what it loads.
DependenciesFilledFirst ==
    Grounded(ws) /\ (disk # NoSheet => Grounded(disk))

\* What is OK in one worksheet is OK in the other.
Keeps(old, new) ==
    /\ \A k \in Keys : old.prov[k] = "ok" => new.prov[k] = "ok"
    /\ \A r \in Rows : old.solve[r] = "ok" => new.solve[r] = "ok"
    /\ \A c \in Cells : old.scores[c] = "ok" => new.scores[c] = "ok"

\* No work that reached the disk is lost: a cell that the checkpoint has as
\* OK stays OK there across flushes, crashes, cancellations and reruns.
CheckpointKeepsOk == [][disk # NoSheet => disk' # NoSheet /\ Keeps(disk, disk')]_vars

\* No work that reached the disk is paid for again (reconcile.py:6-7): no
\* producer is called for a cell that the checkpoint has as OK.
NothingRedone ==
    disk # NoSheet =>
        /\ \A k \in Keys : prep[k] = "calling" => disk.prov[k] # "ok"
        /\ \A r \in Rows : row[r] \in {"fetching", "solving"} => disk.solve[r] # "ok"
        /\ \A c \in Cells : score[c] = "calling" => disk.scores[c] # "ok"

\* A run that reports has tried every cell whose dependency is there, on
\* whatever checkpoint it started from, and its checkpoint says so.
NothingForgotten ==
    main = "reported" =>
        /\ disk = ws
        /\ \A k \in Keys : ws.prov[k] # "pending"
        /\ \A r \in Rows : ws.prov[KeyOf[r]] = "ok" => ws.solve[r] # "pending"
        /\ \A c \in Cells : ws.solve[c[1]] = "ok" => ws.scores[c] # "pending"

\* A row is solved on a resource that exists, torn down or not: the
\* docstring of teardown_provisions (engine.py:38-40) promises it with one.
SolvesLiveSubject == \A r \in Rows : row[r] = "solving" => KeyOf[r] \in subject

\* Every launch comes to an end, by a report or by an exception.
RunEnds == (main = "provision") ~> (main = "down")

\* Every cell is OK, but those of metrics that no launch knows.
Complete == [prov |-> [k \in Keys |-> "ok"], solve |-> [r \in Rows |-> "ok"],
             scores |-> [c \in Cells |-> IF c[2] \in Known THEN "ok" ELSE "failed"]]

\* Launched again and again, an evaluation whose calls fail finitely often
\* ends with every cell that can be filled OK on disk, and stays so.
EventuallyComplete == <>[][~Failure]_vars => <>[](disk = Complete)

\* A launch never stops short: it ends, its report has tried everything, and
\* launches repeated end with a complete sheet.
RunsComplete == []NothingForgotten /\ RunEnds /\ EventuallyComplete

=============================================================================
