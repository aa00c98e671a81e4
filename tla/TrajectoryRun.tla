---------------------------- MODULE TrajectoryRun ----------------------------
(* trajectory_harness/pipeline.py and what it calls: recordings become a     *)
(* dataset, its trajectories rows of an analysis, and both become files in    *)
(* the directory of the run, which a later launch under the same run id       *)
(* writes again.  Somebody reads the directory at any moment.  Sources,       *)
(* loaders, rules and policies are plugins, and a launch may be killed.       *)
EXTENDS Naturals, Sequences, FiniteSets

CONSTANTS
    Recordings,     \* what the source selects
    Held,           \* the trajectories each of them may turn out to hold
    TargetOf,       \* target_for of a trajectory
    Rules,          \* the measurers, detectors and verifiers
    RulesFor,       \* those of a target
    RuleAnswers,    \* what a rule may do to a trajectory, "raises" included
    Policies,       \* "none", "raises", or the statuses of the checks of a policy
    MaxLaunches

ASSUME TrajectoryBounds ==
    /\ MaxLaunches \in Nat \ {0}
    /\ \A t \in DOMAIN TargetOf : RulesFor[TargetOf[t]] \subseteq Rules

VARIABLES
    naming,         \* what the version of a dataset names: "contents" or "nothing"
    launch,         \* the number of the launch and where it is
    met,            \* what it met: recordings, answers of rules, the policy
    artifact,       \* TrajectoryRunArtifact, as far as it exists
    files,          \* the directory of the run
    visitor         \* load_run_artifact in another process, between its two reads

trajectoryVars == <<naming, launch, met, artifact, files, visitor>>

Absent == [by |-> 0]
Unmet == [recordings |-> << >>, rules |-> << >>, policy |-> "none"]
Unbuilt == [issues |-> {}, rows |-> {}, results |-> {}, metrics |-> << >>]

TrajectoryInit ==
    /\ naming \in {"contents", "nothing"}
    /\ launch = [number |-> 1, at |-> "build"]
    /\ met = Unmet /\ artifact = Unbuilt
    /\ files = [f \in {"dataset", "run", "report", "verdict"} |-> Absent]
    /\ visitor = [at |-> "away", dataset |-> Absent, run |-> Absent]

At(place) == launch.at = place
Reach(place) == launch' = [launch EXCEPT !.at = place]

Forgotten == met' = Unmet /\ artifact' = Unbuilt

\* An exception of select, assemble, target_for, the lists of rules, a history
\* directory or the report leaves run() at once.
Raises ==
    /\ launch.at \in {"build", "analyse", "history", "report"} /\ Reach("over") /\ Forgotten
    /\ UNCHANGED <<naming, files, visitor>>

-----------------------------------------------------------------------------
(* Dataset and analysis.                                                    *)

\* A recording that cannot be fetched or loaded is an issue, not the end.
Fates(r) == {[phase |-> "fetch", yields |-> {}], [phase |-> "load", yields |-> {}]}
            \cup {[phase |-> "loaded", yields |-> held] : held \in SUBSET Held[r]}
Issues(fate) == {r \in Recordings : fate[r].phase # "loaded"}
Loaded(fate) == UNION {fate[r].yields : r \in Recordings}
Duplicates(fate) ==
    \E r, q \in Recordings : r # q /\ fate[r].yields \cap fate[q].yields # {}

\* assemble() may leave trajectories out, but not name one twice.
BuildDataset ==
    /\ At("build")
    /\ \E fate \in {f \in [Recordings -> UNION {Fates(r) : r \in Recordings}] :
                      \A r \in Recordings : f[r] \in Fates(r)} :
        IF Duplicates(fate) THEN Reach("over") /\ Forgotten
        ELSE /\ met' = [met EXCEPT !.recordings = fate]
             /\ \E rows \in SUBSET Loaded(fate) :
                /\ artifact' = [Unbuilt EXCEPT !.issues = Issues(fate), !.rows = rows]
                /\ Reach("analyse")
    /\ UNCHANGED <<naming, files, visitor>>

\* measure, detect and verify: a plugin that raises leaves a result of its own.
\* Mutant: a rule that raises counts as one that does not apply.
GradedPassedOver(answer) == IF answer = "raises" THEN "not_applicable" ELSE answer
Graded(answer) == IF answer = "raises" THEN "error" ELSE answer

Pairs(rows) == {p \in rows \X Rules : p[2] \in RulesFor[TargetOf[p[1]]]}

\* The rates of one rule over the rows of one target.
Verified == {"pass", "fail", "scored"}
Rates(results, rows, target, rule) ==
    LET With(statuses) ==
          Cardinality({s \in results : s.rule = rule /\ TargetOf[s.row] = target
                                       /\ s.status \in statuses})
    IN  [total |-> Cardinality({t \in rows : TargetOf[t] = target}),
         applied |-> With(Verified \cup {"analyzed", "measured"}), errors |-> With({"error"}),
         judged |-> With({"pass", "fail"}), passed |-> With({"pass"})]

Analyse ==
    /\ At("analyse")
    /\ \E answers \in {f \in [Pairs(artifact.rows) -> UNION {RuleAnswers[r] : r \in Rules}] :
                         \A p \in DOMAIN f : f[p] \in RuleAnswers[p[2]]} :
        LET results == {[row |-> p[1], rule |-> p[2], status |-> Graded(answers[p])] :
                          p \in DOMAIN answers}
        IN  /\ met' = [met EXCEPT !.rules = answers]
            /\ artifact' = [artifact EXCEPT
                  !.results = results,
                  !.metrics = [k \in {<<TargetOf[s.row], s.rule>> : s \in results} |->
                                 Rates(results, artifact.rows, k[1], k[2])]]
    /\ Reach("dataset")
    /\ UNCHANGED <<naming, files, visitor>>

-----------------------------------------------------------------------------
(* Files.  dataset.json and run.json are replaced whole.                    *)

Version(rows) == IF naming = "contents" THEN rows ELSE {}

Writes(file, content, next) ==
    /\ files' = [files EXCEPT ![file] = content] /\ Reach(next)
    /\ UNCHANGED <<naming, artifact, visitor>>

WriteDataset ==
    /\ At("dataset")
    /\ Writes("dataset", [by |-> launch.number, version |-> Version(artifact.rows),
                          rows |-> artifact.rows], "run")
    /\ UNCHANGED met
WriteRun ==
    /\ At("run")
    /\ Writes("run", [by |-> launch.number, version |-> Version(artifact.rows),
                      rows |-> artifact.rows], "history")
    /\ UNCHANGED met
LoadHistory ==
    /\ At("history") /\ Reach("report")
    /\ UNCHANGED <<naming, met, artifact, files, visitor>>
WriteReport ==
    /\ At("report") /\ Writes("report", [by |-> launch.number], "verdict") /\ UNCHANGED met

\* build_trajectory_verdict: health before emptiness before the policy.
Unhealthy == artifact.issues # {} \/ \E s \in artifact.results : s.status = "error"
Precedence == <<"error", "fail", "pass", "skipped">>
Rollup(statuses) ==
    IF statuses = {} THEN "skipped"
    ELSE Precedence[CHOOSE i \in 1..4 : /\ Precedence[i] \in statuses
                                        /\ \A j \in 1..(i - 1) : Precedence[j] \notin statuses]
Verdict(policy) ==
    CASE Unhealthy -> "error"
      [] ~Unhealthy /\ (artifact.rows = {} \/ policy = {"none"}) -> "skipped"
      [] OTHER -> IF \A s \in policy : \E i \in 1..4 : Precedence[i] = s
                  THEN Rollup(policy) ELSE "error"

WriteTrajectoryVerdict ==
    /\ At("verdict")
    /\ \E policy \in Policies :
        /\ Writes("verdict", [by |-> launch.number, status |-> Verdict(policy)], "returned")
        /\ met' = [met EXCEPT !.policy = policy]

\* The process is killed; verdict.json is not replaced whole.
Killed ==
    /\ launch.at \notin {"over", "returned"} /\ Reach("over") /\ Forgotten
    /\ \/ UNCHANGED files
       \/ At("verdict") /\ files' = [files EXCEPT !["verdict"] = [by |-> launch.number,
                                                                status |-> "torn"]]
    /\ UNCHANGED <<naming, visitor>>

Relaunch ==
    /\ launch.at \in {"over", "returned"} /\ launch.number < MaxLaunches
    /\ launch' = [number |-> launch.number + 1, at |-> "build"]
    /\ Forgotten
    /\ UNCHANGED <<naming, files, visitor>>

-----------------------------------------------------------------------------
(* load_run_artifact, with the checks of __post_init__.                     *)

VisitorReadsDataset ==
    /\ visitor.at = "away" /\ files["dataset"] # Absent
    /\ visitor' = [visitor EXCEPT !.at = "between", !.dataset = files["dataset"]]
    /\ UNCHANGED <<naming, launch, met, artifact, files>>

Fits(dataset, run) == run.version = dataset.version /\ run.rows \subseteq dataset.rows

VisitorReadsRun ==
    /\ visitor.at = "between"
    /\ visitor' = IF files["run"] = Absent \/ ~Fits(visitor.dataset, files["run"])
                  THEN [visitor EXCEPT !.at = "refused"]
                  ELSE [visitor EXCEPT !.at = "holds", !.run = files["run"]]
    /\ UNCHANGED <<naming, launch, met, artifact, files>>

TrajectoryOver ==
    /\ launch.at \in {"over", "returned"} /\ launch.number = MaxLaunches
    /\ visitor.at \in {"refused", "holds"} \/ files["dataset"] = Absent

TrajectoryNext ==
    \/ Raises \/ BuildDataset \/ Analyse
    \/ WriteDataset \/ WriteRun \/ LoadHistory \/ WriteReport \/ WriteTrajectoryVerdict
    \/ Killed \/ Relaunch
    \/ VisitorReadsDataset \/ VisitorReadsRun
    \/ TrajectoryOver /\ UNCHANGED trajectoryVars

-----------------------------------------------------------------------------
(* The same told from what the launch met.                                  *)

Failures(rule) == {p \in DOMAIN met.rules : p[2] = rule /\ met.rules[p] \in {"error", "raises"}}
SomethingFailed ==
    \/ \E r \in DOMAIN met.recordings : met.recordings[r].phase # "loaded"
    \/ \E rule \in Rules : Failures(rule) # {}

Told(status) ==
    /\ status = "pass" => ~SomethingFailed /\ artifact.rows # {} /\ "pass" \in met.policy
                          /\ met.policy \subseteq {"pass", "skipped"}
    /\ status = "fail" => ~SomethingFailed /\ "fail" \in met.policy
    /\ status = "skipped" => ~SomethingFailed
    /\ SomethingFailed => status = "error"

(* The verdict of a launch says what happened in it: nothing that failed is  *)
(* taken for a pass, a fail or a skip.  A run that returned has left its own *)
(* four files, and a verdict never stands before its run nor a run before    *)
(* its dataset.  Every rule of a target has one result per row, failed ones  *)
(* are counted as errors and as nothing else.  And whoever reads the        *)
(* directory while launches write it gets a dataset that holds every row of  *)
(* the run, and the very dataset the run was made over when versions name    *)
(* contents.                                                                 *)
TrajectoriesTrue ==
    /\ launch.at = "returned" =>
        /\ \A f \in DOMAIN files : files[f].by = launch.number
        /\ Told(files["verdict"].status)
    /\ files["verdict"].by <= files["report"].by
    /\ files["report"].by <= files["run"].by /\ files["run"].by <= files["dataset"].by
    /\ \A k \in DOMAIN artifact.metrics :
        LET m == artifact.metrics[k] IN
        /\ m.applied + m.errors <= m.total /\ m.passed <= m.judged /\ m.judged <= m.applied
        /\ m.errors = Cardinality({p \in Failures(k[2]) : TargetOf[p[1]] = k[1]})
    /\ Cardinality(artifact.results) = Cardinality(DOMAIN met.rules)
    /\ visitor.at = "holds" =>
        /\ visitor.run.rows \subseteq visitor.dataset.rows
        /\ naming = "contents" => visitor.run.rows = visitor.dataset.rows

=============================================================================
