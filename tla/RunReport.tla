------------------------------ MODULE RunReport ------------------------------
(* What a perf run says of its arms: the windows that _aggregate reduces    *)
(* (engine.py, metric/reduce.py), the SLO checks read from them (slo.py,     *)
(* metric/store.py), the gates of the run (engine.py, verdict.py and         *)
(* report/render.py), the capacity, and the files a run is kept in, in the   *)
(* order they are written (runio.py).  Metrics are one error rate and one    *)
(* resource that a cooldown should find released.                            *)
EXTENDS Naturals, Sequences, FiniteSets
LOCAL INSTANCE FiniteSetsExt
LOCAL INSTANCE Functions

CONSTANTS
    Sweeps,     \* plans: each a sequence of arms, each [group, levels of its holds]
    Settings,   \* [slos, strict, abort]: SLOs are [metric, kind, level], 0 any level
    Cohorts     \* what became of the requests of a hold: [ok, bad, unjudged, cut]

VARIABLES
    plan,       \* the arms and the settings of the experiment
    swept,      \* the arm runs so far: [arm, facts, windows, checks]
    passed,     \* Run.passed, the exit code
    filing,     \* what the owner writes next
    disk        \* each file: "none", "open" (written in part) or "whole"

reportVars == <<plan, swept, passed, filing, disk>>

\* The order of write_run.
Written == <<"run", "requests", "evaluations", "series", "verdict", "views">>

ReportInit ==
    /\ plan \in [arms : Sweeps, setting : Settings]
    /\ swept = << >> /\ passed = TRUE
    /\ filing = 0 /\ disk = [f \in Range(Written) |-> "none"]

Missing == "missing"
NoWindow == 0

-----------------------------------------------------------------------------
(* What is known of an arm once its lifecycle is over.                       *)

\* Holds are run in order; only a load that stopped early leaves the last one
\* incomplete and others out.  An arm that raised in its setup has no load,
\* one that tripped in its warmup has no hold.
Holds(arm) ==
    UNION {[1..n -> [cohort : Cohorts, limited : BOOLEAN]] : n \in 0..Len(arm.levels)}
Facts(arm) ==
    {f \in [holds : Holds(arm), early : BOOLEAN, raised : BOOLEAN,
            recovered : {Missing, "yes", "no"}] :
        /\ Len(f.holds) < Len(arm.levels) => f.early \/ f.raised
        /\ f.holds = << >> => f.raised \/ f.early
        /\ f.raised => f.recovered = Missing}

InterruptedIn(holds) == \E j \in DOMAIN holds : holds[j].cohort.cut > 0

\* reduce_requests on the dispatch cohort of a window.
Reduced(cohort) ==
    [n |-> cohort.ok + cohort.bad + cohort.unjudged, ok |-> cohort.ok, cut |-> cohort.cut,
     caveats |-> {c \in {"incomplete"} : cohort.cut > 0 \/ cohort.unjudged > 0}]

Merged(holds) ==
    LET total(part(_)) == SumFunction([j \in DOMAIN holds |-> part(holds[j].cohort)])
    IN  [ok |-> total(LAMBDA c : c.ok), bad |-> total(LAMBDA c : c.bad),
         unjudged |-> total(LAMBDA c : c.unjudged), cut |-> total(LAMBDA c : c.cut)]

Complete(f, j) == ~f.early \/ j < Len(f.holds)

\* _aggregate: the measurement, the stages that ran and the cooldown, each with
\* its own reduction of the requests.
WindowsOf(arm, f) ==
    LET window(id, kind, level, complete, limited, cohort, recovered) ==
            [id |-> id, kind |-> kind, level |-> level, complete |-> complete,
             limited |-> limited, stats |-> Reduced(cohort), recovered |-> recovered]
        none == [ok |-> 0, bad |-> 0, unjudged |-> 0, cut |-> 0]
        measurement ==
            window(1, "measurement", 0,
                   ~f.early /\ \E j \in DOMAIN f.holds : Complete(f, j),
                   \E j \in DOMAIN f.holds : f.holds[j].limited, Merged(f.holds), Missing)
        hold(j) == window(j + 1, "hold", arm.levels[j], Complete(f, j), f.holds[j].limited,
                          f.holds[j].cohort, Missing)
        cooldown == window(Len(f.holds) + 2, "cooldown", 0, ~InterruptedIn(f.holds),
                           FALSE, none, f.recovered)
    IN  {measurement} \cup {hold(j) : j \in DOMAIN f.holds}
        \cup {w \in {cooldown} : f.holds # << >> \/ f.early}

-----------------------------------------------------------------------------
(* The SLO.                                                                  *)

\* MetricStore.query and the comparison: an absent value is not a value.
Read(slo, w) ==
    IF slo.metric = "recovered" THEN w.recovered
    ELSE IF w.stats.n = 0 THEN Missing
    ELSE IF w.stats.ok = w.stats.n THEN "yes" ELSE "no"

\* Mutant: an absent value compares as zero.
CheckedAsZero(slo, w) ==
    [slo |-> slo, window |-> w.id, state |-> IF Read(slo, w) = "no" THEN "fail" ELSE "pass"]
Checked(slo, w) ==
    [slo |-> slo, window |-> w.id,
     state |-> CASE Read(slo, w) = Missing -> "skipped"
                 [] Read(slo, w) = "yes" -> "pass"
                 [] OTHER -> "fail"]

Selects(slo, w) == w.kind = slo.kind /\ slo.level \in {0, w.level}

\* One check per window an assertion selects, or one that says there is none.
EvaluateSlo(windows) ==
    UNION {LET mine == {w \in windows : Selects(slo, w)} IN
           IF mine = {} THEN {[slo |-> slo, window |-> NoWindow, state |-> "skipped"]}
           ELSE {Checked(slo, w) : w \in mine} : slo \in plan.setting.slos}

ChecksOf(runs) == UNION {runs[k].checks : k \in DOMAIN runs}
IsFail(c) == c.state = "fail"
IsSkip(c) == c.state = "skipped"
RecoverySkip(c) == IsSkip(c) /\ c.slo.kind = "cooldown"

-----------------------------------------------------------------------------
(* Engine.run: one arm after the other, until one raises or, with           *)
(* abort_on_fail, fails.                                                     *)

Failed(f, checks) ==
    \/ f.early \/ f.raised \/ InterruptedIn(f.holds)
    \/ \E c \in checks : IsFail(c) \/ RecoverySkip(c) \/ (IsSkip(c) /\ plan.setting.strict)

Ends(run) == run.facts.raised \/ (plan.setting.abort /\ Failed(run.facts, run.checks))
SweepOn ==
    /\ filing = 0 /\ Len(swept) < Len(plan.arms)
    /\ \A k \in DOMAIN swept : ~Ends(swept[k])

ArmRuns ==
    /\ SweepOn
    /\ LET arm == plan.arms[Len(swept) + 1] IN
       \E f \in Facts(arm) :
         LET windows == WindowsOf(arm, f)
             checks == IF f.raised THEN {} ELSE EvaluateSlo(windows)
         IN  /\ swept' = Append(swept, [arm |-> arm, facts |-> f, windows |-> windows,
                                        checks |-> checks])
             /\ passed' = (passed /\ ~Failed(f, checks))
    /\ UNCHANGED <<plan, filing, disk>>

\* Engine.run returned: write_run begins.  A file is there in part before it
\* is there; the process may be gone after any of these steps.
Returned == filing = 0 /\ ~SweepOn

FileOpens ==
    /\ Returned \/ (filing \in 1..(Len(Written) - 1) /\ disk[Written[filing]] = "whole")
    /\ filing' = filing + 1
    /\ disk' = [disk EXCEPT ![Written[filing']] = "open"]
    /\ UNCHANGED <<plan, swept, passed>>

FileIsWhole ==
    /\ filing > 0 /\ disk[Written[filing]] = "open"
    /\ disk' = [disk EXCEPT ![Written[filing]] = "whole"]
    /\ UNCHANGED <<plan, swept, passed, filing>>

ReportOver == disk["views"] = "whole"
ReportNext == ArmRuns \/ FileOpens \/ FileIsWhole \/ (ReportOver /\ UNCHANGED reportVars)

-----------------------------------------------------------------------------
(* What a reader is told.                                                    *)

Early == {k \in DOMAIN swept : swept[k].facts.early /\ ~swept[k].facts.raised}
Severed == {k \in DOMAIN swept : InterruptedIn(swept[k].facts.holds)}
Raised == {k \in DOMAIN swept : swept[k].facts.raised}

\* verdict.json.
VerdictStatus ==
    IF Raised # {} THEN "error"
    ELSE IF swept = << >> THEN "skipped"
    ELSE IF Early \cup Severed # {} THEN "fail"
    ELSE IF \E c \in ChecksOf(swept) : IsFail(c) \/ RecoverySkip(c) THEN "fail"
    ELSE IF \E c \in ChecksOf(swept) : c.state = "pass" THEN "pass"
    ELSE "skipped"

\* The first section of report.md and report.html; "none" when it is left out.
ReportSays ==
    LET short == (Early \cup Severed) \ Raised IN
    IF ChecksOf(swept) = {} /\ short = {} /\ Raised = {} THEN "none"
    ELSE IF Raised # {} THEN "error"
    ELSE IF short # {} \/ \E c \in ChecksOf(swept) : IsFail(c) \/ RecoverySkip(c) THEN "fail"
    ELSE "pass"

\* slo_aware_capacity: no load is saturated here.
Confirms(run, w) ==
    LET own == {c \in run.checks : c.window = w.id} IN
    /\ w.kind = "hold" /\ w.complete /\ ~w.limited
    /\ w.stats.n > 0 /\ w.stats.cut = 0 /\ "incomplete" \notin w.stats.caveats
    /\ own # {} /\ \A c \in own : c.state = "pass"
Capacity(group) ==
    Max({0} \cup UNION {{w.level : w \in {v \in swept[k].windows : Confirms(swept[k], v)}} :
                        k \in {i \in DOMAIN swept : swept[i].arm.group = group}})

\* load_run: a file it needs is absent or does not parse, or the run is read.
\* A requests.jsonl cut at the end of a line parses, and so do the samples.
Loads == /\ disk["run"] = "whole" /\ disk["requests"] \in {"open", "whole"}
         /\ disk["evaluations"] = "whole"

-----------------------------------------------------------------------------
(* The same told from the facts, without windows, checks or gates.           *)

Judged(cohort) == cohort.ok + cohort.bad + cohort.unjudged > 0
Clean(cohort) == cohort.bad = 0 /\ cohort.unjudged = 0
AsksOf(level) == {s \in plan.setting.slos : s.kind = "hold" /\ s.level \in {0, level}}

\* A hold that lasted its time at its rate, with every request judged, and met
\* at least one demand; the levels of a group that were sustained so.
Sustains(arm, f, j) ==
    /\ ~f.raised /\ ~f.holds[j].limited
    /\ f.early => j < Len(f.holds)
    /\ LET c == f.holds[j].cohort IN Judged(c) /\ Clean(c) /\ c.cut = 0
    /\ AsksOf(arm.levels[j]) # {}
Sustained(group) ==
    UNION {{swept[k].arm.levels[j] :
            j \in {h \in DOMAIN swept[k].facts.holds : Sustains(swept[k].arm, swept[k].facts, h)}} :
           k \in {i \in DOMAIN swept : swept[i].arm.group = group}}

\* An arm did all it was asked, as far as it could be seen.
DidAll(run) ==
    LET f == run.facts IN
    /\ ~f.raised /\ ~f.early /\ ~InterruptedIn(f.holds)
    /\ \A s \in plan.setting.slos :
         CASE s.kind = "cooldown" -> f.recovered = "yes"
           [] s.kind = "measurement" -> \A j \in DOMAIN f.holds : Clean(f.holds[j].cohort)
           [] OTHER -> \A j \in DOMAIN f.holds :
                         s.level \in {0, run.arm.levels[j]} => Clean(f.holds[j].cohort)

SomethingSkipped == \E c \in ChecksOf(swept) : IsSkip(c)

(* The exit code, verdict.json and the report are computed apart and never   *)
(* contradict each other: only strict_slo may fail a run whose record does   *)
(* not.  A run recorded as passed ran every arm and each did all it was      *)
(* asked; the capacity of a group is the highest level it was seen to        *)
(* sustain; and wherever the process stops, a directory that loads holds    *)
(* every request, and one with a verdict loads.                              *)
RunVerdictIsTrue ==
    /\ filing > 0 =>
        /\ passed => VerdictStatus \in {"pass", "skipped"}
        /\ ~passed /\ VerdictStatus \in {"pass", "skipped"} =>
               plan.setting.strict /\ SomethingSkipped
        /\ ReportSays \in {"error", "fail"} \/ VerdictStatus \in {"error", "fail"} =>
               ReportSays = VerdictStatus
        /\ VerdictStatus = "pass" =>
               /\ \A k \in DOMAIN swept : DidAll(swept[k])
               /\ Len(swept) = Len(plan.arms) \/ (~passed /\ plan.setting.abort)
    /\ \A group \in {plan.arms[k].group : k \in DOMAIN plan.arms} :
         Capacity(group) = Max({0} \cup Sustained(group))
    /\ Loads => disk["requests"] = "whole"
    /\ disk["verdict"] # "none" => Loads /\ disk["series"] = "whole"

=============================================================================
