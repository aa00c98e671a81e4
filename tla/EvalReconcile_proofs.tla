------------------------ MODULE EvalReconcile_proofs ------------------------
(***************************************************************************)
(* Proofs about EvalReconcile, for every set of keys, rows and metrics,    *)
(* every interval and any number of launches and crashes: the worksheet    *)
(* and its checkpoint are filled in the order of their dependencies, a     *)
(* checkpoint never loses a filled cell, and none is filled twice.         *)
(***************************************************************************)
EXTENDS EvalReconcile, TLAPS

\* What a task in flight may rely on: its cell is not OK and what it depends
\* on is.
Claims ==
    /\ \A k \in Keys : prep[k] = "calling" => ws.prov[k] # "ok"
    /\ \A r \in Rows : row[r] \in {"fetching", "solving"} =>
            ws.prov[KeyOf[r]] = "ok" /\ ws.solve[r] # "ok"
    /\ \A c \in Cells : score[c] # "none" => ws.solve[c[1]] = "ok" /\ ws.scores[c] # "ok"

\* While a launch runs, the memory has what the disk has.
Covered == main # "down" /\ disk # NoSheet => Keeps(disk, ws)

\* After the last flush the checkpointer is gone.
Stopped == main \in {"report", "reported"} => ~saver

IInv ==
    /\ TypeOK
    /\ DependenciesFilledFirst
    /\ Claims
    /\ Covered
    /\ Stopped

-----------------------------------------------------------------------------
LEMMA InitInv == Init => IInv
<1> USE SheetAssumption
    DEF Init, Idle, NoPrep, NoRow, NoScore, Sheets, Blank, CellState
<1>1. Init => TypeOK
  <2>1. Blank \in Sheets
    OBVIOUS
  <2>2. Init => Idle
    BY DEF Init
  <2>3. 0 \in 0..MaxCrashes
    BY SheetAssumption
  <2>4. Init => /\ verdict \in {"none", "pass", "error", "skipped"} /\ broken \in BOOLEAN
                /\ main \in {"down", "provision", "rows", "leave", "report", "reported"}
                /\ saver \in BOOLEAN /\ ~saver /\ subject \subseteq Keys /\ cleaning \subseteq Keys
    BY DEF Init
  <2>5. Init => ws = Blank /\ disk = NoSheet /\ crashes = 0
    BY DEF Init
  <2>6. QED
    BY <2>1, <2>2, <2>3, <2>4, <2>5 DEF TypeOK
<1>2. Init => DependenciesFilledFirst
  BY DEF DependenciesFilledFirst, Grounded, Cells
<1>3. Init => Claims /\ Covered /\ Stopped
  BY DEF Claims, Covered, Stopped, Cells
<1>4. QED
  BY <1>1, <1>2, <1>3 DEF IInv

\* The launch, the steps of run_experiment, the checkpointer and the faults.
LEMMA RunStep == IInv /\ (Launch \/ Process \/ Flush \/ CancelRun \/ Crash) => IInv'
<1> SUFFICES ASSUME IInv, Launch \/ Process \/ Flush \/ CancelRun \/ Crash PROVE IInv'
  OBVIOUS
<1> USE SheetAssumption, NoSheetAssumption
    DEF IInv, TypeOK, DependenciesFilledFirst, Claims, Covered, Stopped, Grounded, Keeps,
        Idle, NoPrep, NoRow, NoScore, TasksCut, Sheets, Blank, Cells, CellState, Dump,
        fileVars, taskVars
<1>1. CASE Launch
  <2>1. TypeOK'
    BY <1>1 DEF Launch, Loaded, ProvisionsPending
  <2>2. DependenciesFilledFirst'
    BY <1>1 DEF Launch, Loaded, ProvisionsPending
  <2>3. Claims'
    BY <1>1 DEF Launch, Loaded, ProvisionsPending
  <2>4. (Covered /\ Stopped)'
    BY <1>1 DEF Launch, Loaded, ProvisionsPending
  <2>5. QED
    BY <2>1, <2>2, <2>3, <2>4
<1>2. CASE StartRows
  <2>1. TypeOK'
    BY <1>2 DEF StartRows, Provisioned
  <2>2. DependenciesFilledFirst'
    BY <1>2 DEF StartRows, Provisioned
  <2>3. Claims'
    BY <1>2 DEF StartRows, Provisioned
  <2>4. (Covered /\ Stopped)'
    BY <1>2 DEF StartRows, Provisioned
  <2>5. QED
    BY <2>1, <2>2, <2>3, <2>4
<1>3. CASE Leave
  <2>1. TypeOK'
    BY <1>3 DEF Leave
  <2>2. DependenciesFilledFirst'
    BY <1>3 DEF Leave
  <2>3. Claims'
    BY <1>3 DEF Leave
  <2>4. (Covered /\ Stopped)'
    BY <1>3 DEF Leave
  <2>5. QED
    BY <2>1, <2>2, <2>3, <2>4
<1>4. CASE LastFlush
  <2>1. TypeOK'
    BY <1>4 DEF LastFlush
  <2>2. DependenciesFilledFirst'
    BY <1>4 DEF LastFlush
  <2>3. Claims'
    BY <1>4 DEF LastFlush
  <2>4. (Covered /\ Stopped)'
    BY <1>4 DEF LastFlush
  <2>5. QED
    BY <2>1, <2>2, <2>3, <2>4
<1>5. CASE Report
    BY <1>5 DEF Report, RunStatus, RowStatus
<1>6. CASE Exit
  <2>1. TypeOK'
    BY <1>6 DEF Exit
  <2>2. DependenciesFilledFirst'
    BY <1>6 DEF Exit
  <2>3. Claims'
    BY <1>6 DEF Exit
  <2>4. (Covered /\ Stopped)'
    BY <1>6 DEF Exit
  <2>5. QED
    BY <2>1, <2>2, <2>3, <2>4
<1>7. CASE Flush
    BY <1>7 DEF Flush
<1>8. CASE CancelRun
    BY <1>8 DEF CancelRun
<1>9. CASE Crash
  <2>1. TypeOK'
    <3>1. prep' = NoPrep /\ row' = NoRow /\ score' = NoScore /\ saver' = FALSE /\ cleaning' = {}
      BY <1>9 DEF Crash
    <3>2. crashes' \in 0..MaxCrashes /\ subject' \subseteq Keys /\ main' = "down"
      BY <1>9 DEF Crash
    <3>3. UNCHANGED <<ws, disk, verdict, broken>>
      BY <1>9 DEF Crash
    <3>4. QED
      BY <3>1, <3>2, <3>3
  <2>2. DependenciesFilledFirst'
    BY <1>9 DEF Crash
  <2>3. Claims'
    BY <1>9 DEF Crash
  <2>4. (Covered /\ Stopped)'
    BY <1>9 DEF Crash
  <2>5. QED
    BY <2>1, <2>2, <2>3, <2>4
<1>10. ASSUME NEW k \in Keys, Clean(k) PROVE IInv'
    BY <1>10 DEF Clean
<1>11. QED
  BY <1>1, <1>2, <1>3, <1>4, <1>5, <1>6, <1>7, <1>8, <1>9, <1>10 DEF Process

\* The provisions.
LEMMA KeyStep == ASSUME NEW k \in Keys PROVE IInv /\ KeyTask(k) => IInv'
<1> SUFFICES ASSUME IInv, KeyTask(k) PROVE IInv'
  OBVIOUS
<1> USE SheetAssumption, NoSheetAssumption
    DEF IInv, TypeOK, DependenciesFilledFirst, Claims, Covered, Stopped, Grounded, Keeps,
        Idle, NoPrep, NoRow, NoScore, TasksCut, Sheets, Blank, Cells, CellState, Dump,
        fileVars, taskVars
<1>1. CASE Prepared(k)
  <2>1. TypeOK'
    BY <1>1 DEF Prepared
  <2>2. DependenciesFilledFirst'
    BY <1>1 DEF Prepared
  <2>3. Claims'
    BY <1>1 DEF Prepared
  <2>4. (Covered /\ Stopped)'
    BY <1>1 DEF Prepared
  <2>5. QED
    BY <2>1, <2>2, <2>3, <2>4
<1>2. CASE PrepareFails(k)
  <2>1. TypeOK'
    <3>1. ws' = [ws EXCEPT !.prov[k] = "failed"] /\ prep' = [prep EXCEPT ![k] = "none"]
      BY <1>2 DEF PrepareFails
    <3>2. ws' \in Sheets
      BY <3>1
    <3>3. prep' \in [Keys -> {"none", "calling"}] /\ subject' \subseteq Keys /\ main # "down"
      BY <1>2, <3>1 DEF PrepareFails
    <3>4. UNCHANGED <<disk, verdict, main, broken, row, score, saver, cleaning, crashes>>
      BY <1>2 DEF PrepareFails
    <3>5. QED
      BY <3>2, <3>3, <3>4
  <2>2. DependenciesFilledFirst'
    BY <1>2 DEF PrepareFails
  <2>3. Claims'
    BY <1>2 DEF PrepareFails
  <2>4. (Covered /\ Stopped)'
    BY <1>2 DEF PrepareFails
  <2>5. QED
    BY <2>1, <2>2, <2>3, <2>4
<1>3. QED
  BY <1>1, <1>2 DEF KeyTask

\* The row chains.
LEMMA RowStep == ASSUME NEW r \in Rows PROVE IInv /\ RowTask(r) => IInv'
<1> SUFFICES ASSUME IInv, RowTask(r) PROVE IInv'
  OBVIOUS
<1> USE SheetAssumption, NoSheetAssumption
    DEF IInv, TypeOK, DependenciesFilledFirst, Claims, Covered, Stopped, Grounded, Keeps,
        Idle, NoPrep, NoRow, NoScore, TasksCut, Sheets, Blank, Cells, CellState, Dump,
        fileVars, taskVars
<1>1. CASE SkipRow(r)
    BY <1>1 DEF SkipRow, ProvisionOk
<1>2. CASE Fetch(r)
    BY <1>2 DEF Fetch, ProvisionOk
<1>3. CASE Miss(r)
    BY <1>3 DEF Miss
<1>4. CASE Solved(r)
  <2>1. TypeOK'
    <3>1. ws' \in Sheets
      <4>1. ws' = [ws EXCEPT !.solve[r] = "ok"]
        BY <1>4 DEF Solved
      <4>2. QED
        BY <4>1
    <3>6. main # "down"
      BY <1>4 DEF Solved
    <3>2. row' \in [Rows -> {"none", "new", "fetching", "solving", "scoring", "done", "raised"}]
      BY <1>4 DEF Solved, Scoring
    <3>3. score' \in [Cells -> {"none", "new", "calling"}]
      BY <1>4 DEF Solved, Scoring
    <3>4. UNCHANGED <<disk, verdict, main, broken, prep, saver, subject, cleaning, crashes>>
      BY <1>4 DEF Solved
    <3>5. QED
      BY <3>1, <3>2, <3>3, <3>4, <3>6
  <2>2. DependenciesFilledFirst'
    BY <1>4 DEF Solved, Scoring, Todo, ProvisionOk
  <2>3. Claims'
    BY <1>4 DEF Solved, Scoring, Todo, ProvisionOk
  <2>4. (Covered /\ Stopped)'
    BY <1>4 DEF Solved, Scoring, Todo, ProvisionOk
  <2>5. QED
    BY <2>1, <2>2, <2>3, <2>4
<1>5. CASE AlreadySolved(r)
    BY <1>5 DEF AlreadySolved, Scoring, Todo, ProvisionOk
<1>6. CASE SolveFails(r)
  <2>1. TypeOK'
    <3>1. ws' = [ws EXCEPT !.solve[r] = "failed"]
      BY <1>6 DEF SolveFails
    <3>2. ws' \in Sheets
      BY <3>1
    <3>3. row' \in [Rows -> {"none", "new", "fetching", "solving", "scoring", "done", "raised"}]
      BY <1>6 DEF SolveFails
    <3>4. main # "down"
      BY <1>6 DEF SolveFails
    <3>5. UNCHANGED <<disk, verdict, main, broken, prep, score, saver, subject, cleaning, crashes>>
      BY <1>6 DEF SolveFails
    <3>6. QED
      BY <3>2, <3>3, <3>4, <3>5
  <2>2. DependenciesFilledFirst'
    BY <1>6 DEF SolveFails
  <2>3. Claims'
    BY <1>6 DEF SolveFails
  <2>4. (Covered /\ Stopped)'
    BY <1>6 DEF SolveFails
  <2>5. QED
    BY <2>1, <2>2, <2>3, <2>4
<1>7. CASE RowEnds(r)
    BY <1>7 DEF RowEnds
<1>8. QED
  BY <1>1, <1>2, <1>3, <1>4, <1>5, <1>6, <1>7 DEF RowTask

\* A score cell is filled.
LEMMA FillStep ==
    ASSUME NEW c \in Cells, NEW result \in {"ok", "failed"}, IInv, score[c] # "none",
           Fills(c, result)
    PROVE  IInv'
<1> USE SheetAssumption, NoSheetAssumption
    DEF IInv, TypeOK, DependenciesFilledFirst, Claims, Covered, Stopped, Grounded, Keeps,
        Idle, NoPrep, NoRow, NoScore, TasksCut, Sheets, Blank, Cells, CellState, Dump,
        fileVars, taskVars
<1>1. TypeOK'
  <2>1. ws' \in Sheets
    <3>1. ws' = [ws EXCEPT !.scores[c] = result]
      BY DEF Fills
    <3>2. QED
      BY <3>1
  <2>2. score' \in [Cells -> {"none", "new", "calling"}]
    BY DEF Fills
  <2>3. main # "down"
    OBVIOUS
  <2>4. UNCHANGED <<disk, verdict, main, broken, prep, row, saver, subject, cleaning, crashes>>
    BY DEF Fills
  <2>5. QED
    BY <2>1, <2>2, <2>3, <2>4
<1>2. DependenciesFilledFirst'
  BY DEF Fills
<1>3. Claims'
  BY DEF Fills
<1>4. (Covered /\ Stopped)'
  BY DEF Fills
<1>5. QED
  BY <1>1, <1>2, <1>3, <1>4

\* The score tasks.
LEMMA CellStep == ASSUME NEW c \in Cells PROVE IInv /\ CellTask(c) => IInv'
<1> SUFFICES ASSUME IInv, CellTask(c) PROVE IInv'
  OBVIOUS
<1>1. CASE UnknownMetric(c)
  BY <1>1, FillStep DEF UnknownMetric
<1>2. CASE Abstain(c)
  BY <1>2, FillStep DEF Abstain
<1>3. CASE Scored(c)
  BY <1>3, FillStep DEF Scored
<1>4. CASE ScoreFails(c)
  BY <1>4, FillStep DEF ScoreFails
<1> USE SheetAssumption, NoSheetAssumption
    DEF IInv, TypeOK, DependenciesFilledFirst, Claims, Covered, Stopped, Grounded, Keeps,
        Idle, NoPrep, NoRow, NoScore, TasksCut, Sheets, Blank, Cells, CellState, Dump,
        fileVars, taskVars
<1>5. CASE ScoreStarts(c)
  BY <1>5 DEF ScoreStarts
<1>6. CASE AppliesRaises(c)
  BY <1>6 DEF AppliesRaises
<1>7. QED
  BY <1>1, <1>2, <1>3, <1>4, <1>5, <1>6 DEF CellTask

LEMMA StutterStep == IInv /\ UNCHANGED vars => IInv'
<1> USE SheetAssumption, NoSheetAssumption
    DEF IInv, TypeOK, DependenciesFilledFirst, Claims, Covered, Stopped, Grounded, Keeps,
        Idle, NoPrep, NoRow, NoScore, TasksCut, Sheets, Blank, Cells, CellState, Dump,
        fileVars, taskVars
<1>1. QED
  BY DEF vars

LEMMA StepInv == IInv /\ [Next]_vars => IInv'
<1> SUFFICES ASSUME IInv, [Next]_vars PROVE IInv'
  OBVIOUS
<1>1. CASE Tasks
  BY <1>1, KeyStep, RowStep, CellStep DEF Tasks
<1>2. CASE UNCHANGED vars
  BY <1>2, StutterStep
<1>3. QED
  BY <1>1, <1>2, RunStep DEF Next

-----------------------------------------------------------------------------
\* The inductive invariant of the evaluation: what is filled rests on what it
\* depends on, what is in flight is open, and memory has what the disk has.
THEOREM Inductive == Spec => []IInv
<1>1. QED
  BY InitInv, StepInv, PTL DEF Spec

\* Type correctness of the worksheet, the checkpoint, the verdict and the
\* tasks, and no task outlives the process.
THEOREM TypeCorrect == Spec => []TypeOK
<1>1. IInv => TypeOK
  BY DEF IInv
<1>2. QED
  BY <1>1, Inductive, PTL

\* Neither the worksheet nor a checkpoint holds a score without its solve or
\* a solve without its provision.
THEOREM FilledInOrder == Spec => []DependenciesFilledFirst
<1>1. IInv => DependenciesFilledFirst
  BY DEF IInv
<1>2. QED
  BY <1>1, Inductive, PTL

\* No producer is called for a cell that the checkpoint has as OK, in the
\* launch that filled it or in any later one.
THEOREM NoWorkTwice == Spec => []NothingRedone
<1>1. IInv => NothingRedone
  <2> SUFFICES ASSUME IInv, disk # NoSheet PROVE NothingRedone
    BY DEF NothingRedone
  <2>1. CASE main = "down"
    BY <2>1 DEF IInv, TypeOK, Idle, NoPrep, NoRow, NoScore, NothingRedone
  <2>2. CASE main # "down"
    <3>1. Keeps(disk, ws)
      BY <2>2 DEF IInv, Covered
    <3>2. QED
      BY <3>1 DEF IInv, Claims, Keeps, NothingRedone
  <2>3. QED
    BY <2>1, <2>2
<1>2. QED
  BY <1>1, Inductive, PTL

\* A cell that the checkpoint has as OK stays OK there, whatever crashes, is
\* cancelled or is launched again.
THEOREM NothingLost == Spec => CheckpointKeepsOk
<1>1. IInv /\ [Next]_vars => [disk # NoSheet => disk' # NoSheet /\ Keeps(disk, disk')]_vars
  <2> SUFFICES ASSUME IInv, Next, disk # NoSheet
               PROVE disk' # NoSheet /\ Keeps(disk, disk')
    OBVIOUS
  <2>1. CASE UNCHANGED disk
    BY <2>1 DEF Keeps
  <2>2. CASE Dump /\ main # "down"
    BY <2>2, NoSheetAssumption DEF Dump, IInv, TypeOK, Covered
  <2>3. UNCHANGED disk \/ (Dump /\ main # "down")
    BY DEF Next, Process, Tasks, KeyTask, RowTask, CellTask, Launch, StartRows, Leave,
       LastFlush, Report, Exit, Flush, CancelRun, Crash, Prepared, PrepareFails, Clean,
       SkipRow, Fetch, Miss, Solved, AlreadySolved, SolveFails, RowEnds, UnknownMetric,
       Abstain, ScoreStarts, AppliesRaises, Scored, ScoreFails, Fills, fileVars, IInv, TypeOK
  <2>4. QED
    BY <2>1, <2>2, <2>3
<1>2. QED
  BY <1>1, Inductive, PTL DEF Spec, CheckpointKeepsOk

=============================================================================
