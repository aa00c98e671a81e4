------------------------------- MODULE BatchRun -------------------------------
(* trace_harness/batch.py run_batch and detectors.py plan_detectors: a run *)
(* plans its detectors, analyses every member of the dataset, then runs    *)
(* each planned dataset detector once, and leaves a manifest that says how *)
(* it ended.  Rows and statistics are abstracted to the traces that left   *)
(* some.                                                                   *)
EXTENDS Naturals, Sequences, FiniteSets, SequencesExt

CONSTANTS
    Members,      \* the traces of the dataset, in order
    Detectors,    \* ids that may be registered or named
    Registries,   \* the registries a run may meet: [order, requires]
    Selections    \* what a run may select: a sequence of ids, or All

All == <<"*">>

VARIABLES
    reg, selected,   \* fixed for the run
    plan,            \* resolved detectors, in order
    stage,           \* "plan", "traces", "detectors", "report" or "over"
    next,            \* the next member, then the next detector
    rows,            \* members with rows in the result tables
    coverage,        \* [succeeded, failed]
    nodeFailures,    \* node_detector_failures
    completed,       \* results of the dataset detectors, by id
    manifest         \* the status in manifest.json

batchVars == <<reg, selected, plan, stage, next, rows, coverage, nodeFailures, completed, manifest>>

-----------------------------------------------------------------------------
\* visit(): depth first, dependencies before the detector, each once.  A plan
\* is an order of ids, or Rejected.
Rejected == <<"rejected">>

RECURSIVE Visit(_, _, _, _), VisitAll(_, _, _, _)
Visit(r, name, visiting, order) ==
    IF order = Rejected \/ name \notin Range(r.order) \/ name \in visiting THEN Rejected
    ELSE IF name \in Range(order) THEN order
    ELSE LET below == VisitAll(r, r.requires[name], visiting \cup {name}, order)
         IN  IF below = Rejected THEN Rejected ELSE Append(below, name)
VisitAll(r, names, visiting, order) ==
    IF names = <<>> THEN order
    ELSE VisitAll(r, Tail(names), visiting, Visit(r, Head(names), visiting, order))

\* plan_detectors: duplicates are refused, the whole registry is walked first.
Plan(r, sel) ==
    IF ~IsInjective(r.order) \/ VisitAll(r, r.order, {}, <<>>) = Rejected THEN Rejected
    ELSE VisitAll(r, IF sel = All THEN r.order ELSE sel, {}, <<>>)

BatchInit ==
    /\ reg \in Registries /\ selected \in Selections
    /\ plan = <<>> /\ stage = "plan" /\ next = 1
    /\ rows = {} /\ coverage = [succeeded |-> 0, failed |-> 0]
    /\ nodeFailures = 0 /\ completed = [d \in {} |-> "succeeded"] /\ manifest = "none"

\* The plan is made before anything is read or written.
MakePlan ==
    /\ stage = "plan"
    /\ plan' = Plan(reg, selected)
    /\ IF plan' = Rejected THEN stage' = "over" /\ UNCHANGED manifest
       ELSE stage' = "traces" /\ manifest' = "running"
    /\ UNCHANGED <<reg, selected, next, rows, coverage, nodeFailures, completed>>

\* One member: analysed and written, or an exception is counted as its failure,
\* after it may have left rows.
Succeed ==
    /\ stage = "traces" /\ next <= Len(Members)
    /\ coverage' = [coverage EXCEPT !.succeeded = @ + 1]
    /\ nodeFailures' \in {nodeFailures, nodeFailures + 1}
    /\ rows' = rows \cup {Members[next]}
    /\ next' = next + 1
    /\ UNCHANGED <<reg, selected, plan, stage, completed, manifest>>

Fail ==
    /\ stage = "traces" /\ next <= Len(Members)
    /\ coverage' = [coverage EXCEPT !.failed = @ + 1]
    /\ \/ UNCHANGED <<rows, nodeFailures>>
       \/ rows' = rows \cup {Members[next]} /\ nodeFailures' \in {nodeFailures, nodeFailures + 1}
    /\ next' = next + 1
    /\ UNCHANGED <<reg, selected, plan, stage, completed, manifest>>

Summarise ==
    /\ stage = "traces" /\ next > Len(Members)
    /\ stage' = "detectors" /\ next' = 1
    /\ UNCHANGED <<reg, selected, plan, rows, coverage, nodeFailures, completed, manifest>>

\* execute_detector: an ordinary failure is a result like another.
Detect ==
    /\ stage = "detectors" /\ next <= Len(plan)
    /\ \E end \in {"succeeded", "failed"} :
          completed' = [d \in DOMAIN completed \cup {plan[next]} |->
                          IF d = plan[next] THEN end ELSE completed[d]]
    /\ next' = next + 1
    /\ UNCHANGED <<reg, selected, plan, stage, rows, coverage, nodeFailures, manifest>>

Failures == nodeFailures + Cardinality({d \in DOMAIN completed : completed[d] = "failed"})

\* Mutant: failures of the node detectors do not count.
Verdict0 == IF coverage.failed = 0 /\ (\A d \in DOMAIN completed : completed[d] = "succeeded")
            THEN "complete" ELSE "partial"
Verdict == IF coverage.failed = 0 /\ Failures = 0 THEN "complete" ELSE "partial"

Complete ==
    /\ stage = "detectors" /\ next > Len(plan)
    /\ manifest' = Verdict /\ stage' = "report"
    /\ UNCHANGED <<reg, selected, plan, next, rows, coverage, nodeFailures, completed>>

\* A cancellation, or an error outside the members and detectors.
Break ==
    /\ stage \in {"traces", "detectors"}
    /\ manifest' = "failed" /\ stage' = "over"
    /\ UNCHANGED <<reg, selected, plan, next, rows, coverage, nodeFailures, completed>>

\* The process dies: the manifest keeps what was last written.
Crash ==
    /\ stage \in {"traces", "detectors", "report"}
    /\ stage' = "over"
    /\ UNCHANGED <<reg, selected, plan, next, rows, coverage, nodeFailures, completed, manifest>>

\* The report and the verdict are written, or raise, after the manifest is final.
Report ==
    /\ stage = "report"
    /\ stage' = "over"
    /\ UNCHANGED <<reg, selected, plan, next, rows, coverage, nodeFailures, completed, manifest>>

BatchNext ==
    \/ MakePlan \/ Succeed \/ Fail \/ Summarise \/ Detect \/ Complete
    \/ Break \/ Crash \/ Report

-----------------------------------------------------------------------------
\* What a selection needs: the ids it names and whatever those require.
Needed(r, sel) ==
    LET names == Range(IF sel = All THEN r.order ELSE sel)
        within[n \in Nat] == IF n = 0 THEN names
                             ELSE within[n - 1] \cup UNION {Range(r.requires[d]) :
                                                    d \in within[n - 1] \cap DOMAIN r.requires}
    IN  within[Cardinality(Detectors)]

(* "Before reading trace evidence, the executor MUST reject duplicate IDs, *)
(* unknown dependencies, unknown selected IDs, and dependency cycles.      *)
(* Selection MUST expand transitive dependencies" (spec/trace-harness.md): *)
(* against a definition that knows nothing of the walk, a run that reads a *)
(* member has a sound registry and a plan that holds exactly what the      *)
(* selection needs, each detector once and after all it requires.          *)
PlanIsSound ==
    plan \notin {<<>>, Rejected} =>
        /\ IsInjective(reg.order)
        /\ \A d \in Range(reg.order) : Range(reg.requires[d]) \subseteq Range(reg.order)
        /\ \A d \in Range(reg.order) :
              ~\E e \in Range(reg.requires[d]) : d \in Needed(reg, <<e>>)
        /\ IsInjective(plan) /\ Range(plan) = Needed(reg, selected)
        /\ \A i \in DOMAIN plan : \A e \in Range(reg.requires[plan[i]]) :
              \E j \in 1..(i - 1) : plan[j] = e

(* The manifest tells the truth: complete means that every member was      *)
(* analysed and every detector of the plan, node detectors included, ran   *)
(* and succeeded; partial means that all of it was at least tried; a run   *)
(* cut short or crashed never looks finished.                              *)
ManifestIsTrue ==
    /\ manifest \in {"complete", "partial"} =>
          /\ coverage.succeeded + coverage.failed = Len(Members)
          /\ DOMAIN completed = Range(plan)
    /\ manifest = "complete" =>
          /\ coverage.failed = 0 /\ nodeFailures = 0 /\ rows = Range(Members)
          /\ \A d \in DOMAIN completed : completed[d] = "succeeded"
    /\ manifest = "partial" =>
          coverage.failed > 0 \/ nodeFailures > 0 \/ \E d \in DOMAIN completed : completed[d] = "failed"

(* What a run publishes rests on a plan that is sound and says how all of   *)
(* it went.                                                                *)
BatchSound == PlanIsSound /\ ManifestIsTrue

=============================================================================
