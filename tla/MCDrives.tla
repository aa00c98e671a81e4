------------------------------ MODULE MCDrives ------------------------------
(* Both twins of the scheduler on plans small enough to explore and rich      *)
(* enough to bite, what a run reports of arms that such drives left behind,   *)
(* and what a run reports of recorded trajectories: each behaviour is of one  *)
(* of the three subjects.                                                     *)
EXTENDS TsDrive, RunReport, TrajectoryRun

St(kind, dur, rate, cap) == [kind |-> kind, dur |-> dur, rate |-> rate, cap |-> cap]

\* A warmup whose cap can be met early, then a hold at a higher rate.
ShortStages == << St("warmup", 1, 1, 1), St("hold", 1, 2, 2) >>
ShortOffset == <<0, 1, 2>>

\* A hold, then a ramp that lowers rate and cap under the calls in flight.
RampStages == << St("hold", 1, 3, 3), St("ramp", 2, 1, 1) >>
RampOffset == <<0, 1, 3>>

VARIABLE subject
runVars == <<subject, twinVars, reportVars, trajectoryVars>>

\* Two loads of one hold that compare with each other, one load of two holds.
MCSweeps == { << [group |-> "flat", levels |-> <<1>>], [group |-> "flat", levels |-> <<2>>] >>,
              << [group |-> "stairs", levels |-> <<1, 2>>] >> }

Slo(metric, kind, level) == [metric |-> metric, kind |-> kind, level |-> level]
MCSettings ==
    { [slos |-> {}, strict |-> FALSE, abort |-> FALSE],
      [slos |-> {Slo("errors", "hold", 0), Slo("recovered", "cooldown", 0)},
       strict |-> FALSE, abort |-> TRUE],
      [slos |-> {Slo("errors", "hold", 1), Slo("errors", "measurement", 0)},
       strict |-> TRUE, abort |-> TRUE] }

\* No request, all well, one that failed, one nobody judged and one that was cut.
MCCohorts ==
    { [ok |-> 0, bad |-> 0, unjudged |-> 0, cut |-> 0],
      [ok |-> 2, bad |-> 0, unjudged |-> 0, cut |-> 0],
      [ok |-> 1, bad |-> 1, unjudged |-> 0, cut |-> 0],
      [ok |-> 1, bad |-> 0, unjudged |-> 1, cut |-> 0],
      [ok |-> 1, bad |-> 0, unjudged |-> 0, cut |-> 1] }

\* Two recordings, one of which may repeat the trajectory of the other; one
\* target is measured and verified, the other verified only.
MCHeld == [r \in {"r1", "r2"} |-> IF r = "r1" THEN {"t1"} ELSE {"t1", "t2"}]
MCTargetOf == [t \in {"t1", "t2"} |-> IF t = "t1" THEN "x" ELSE "y"]
MCRulesFor == [x \in {"x", "y"} |-> IF x = "x" THEN {"m", "v"} ELSE {"v"}]
MCRuleAnswers == [r \in {"m", "v"} |-> IF r = "m" THEN {"measured", "raises"}
                                      ELSE {"pass", "fail", "not_applicable", "error"}]
MCPolicies == {{"none"}, {"raises"}, {"pass", "skipped"}, {"pass", "fail"}}

RunInit ==
    /\ subject \in {"drive", "report", "trajectories"} /\ TsInit /\ ReportInit /\ TrajectoryInit
    /\ subject # "report" => plan = [arms |-> CHOOSE s \in MCSweeps : TRUE,
                                    setting |-> CHOOSE s \in MCSettings : TRUE]
    /\ subject # "drive" => twin = "python"
    /\ subject # "trajectories" => naming = "nothing"

RunNext ==
    \/ subject = "drive" /\ TsNext /\ UNCHANGED <<subject, reportVars, trajectoryVars>>
    \/ subject = "report" /\ ReportNext /\ UNCHANGED <<subject, twinVars, trajectoryVars>>
    \/ subject = "trajectories" /\ TrajectoryNext /\ UNCHANGED <<subject, twinVars, reportVars>>

\* drive() of perf_harness alone, on a plan of its own.
RampInit == RunInit /\ subject = "drive" /\ twin = "python"
RampSpec == RampInit /\ [][RunNext]_runVars

RunSpec == RunInit /\ [][RunNext]_runVars /\ (subject = "drive" => TsFairness)

(* The numbers of a run add up: the statistics of its windows with the       *)
(* calls, and its verdict, gates, capacity, rates and files with what its     *)
(* arms did and its rules found.                                             *)
ReportsTrue ==
    /\ subject = "drive" => StatisticsAddUp
    /\ subject = "report" => RunVerdictIsTrue
    /\ subject = "trajectories" => TrajectoriesTrue

(* drive() always comes to its end, in both twins, even when runners hang    *)
(* until they are cut and whatever cancels it.                               *)
DrivesEnd == subject = "drive" => Terminates

=============================================================================
