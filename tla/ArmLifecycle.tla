----------------------------- MODULE ArmLifecycle -----------------------------
(* perf_harness/engine.py: Engine.run sweeps the arms and _run_arm_run takes *)
(* one of them from setup to cleanup, while observe_loop (observe/base.py)   *)
(* samples beside it.  Any hook, the load and the observer may raise, and    *)
(* the owner may be cancelled at every await.  One probe with one series     *)
(* stands for them all.                                                      *)
EXTENDS Naturals, Sequences

CONSTANTS
    Resources,     \* the resources of each arm, in the order of the sweep
    Cooldown,      \* cooldown_s > 0
    AbortOnFail,   \* abort_on_fail
    MaxTicks,      \* ticks after the measurement that a run waits for
    MaxCancels     \* cancellations of the owner

VARIABLES
    stage,       \* where the owner stands, over the sweep and within an arm
    sweep,       \* Engine.run: the arm, the resources applied and passed
    exec,        \* _run_arm_run: its _ArmExecution, its windows and its result
    obs,         \* the observer task and the events it waits for
    ticks,       \* the ticks it began since the measurement ended
    trouble,     \* something raised or fell short in a run
    cancels      \* cancellations so far

armVars == <<stage, sweep, exec, obs, ticks, trouble, cancels>>

Open == MaxTicks + 2    \* the cooldown window while the load drains
Over == {"done", "failed", "cancelled"}

ASSUME ArmBounds == /\ MaxTicks \in Nat /\ MaxCancels \in Nat /\ Len(Resources) > 0
                    /\ Cooldown \in BOOLEAN /\ AbortOnFail \in BOOLEAN

FreshExec == [phase |-> "setup", errors |-> << >>, fatal |-> FALSE, cooling |-> FALSE,
              broken |-> "no", loadPhase |-> "warmup", window |-> 0,
              recovered |-> FALSE, cleanup |-> FALSE]
FreshObs == [state |-> "none", stop |-> FALSE, start |-> FALSE, cut |-> FALSE]

ArmInit ==
    /\ stage = "sweep" /\ sweep = [arm |-> 0, applied |-> "none", passed |-> TRUE]
    /\ exec = FreshExec /\ obs = FreshObs /\ ticks = << >>
    /\ trouble = FALSE /\ cancels = 0

Record(e, phase) == [e EXCEPT !.errors = Append(@, phase)]

-----------------------------------------------------------------------------
(* The sweep.                                                                *)

Deployed(arm) == sweep.applied = Resources[arm]

NextArm ==
    /\ stage = "sweep" /\ sweep.arm < Len(Resources)
    /\ sweep' = [sweep EXCEPT !.arm = @ + 1]
    /\ stage' = IF Deployed(sweep.arm + 1) THEN "setup" ELSE "deploy"
    /\ exec' = FreshExec /\ obs' = FreshObs /\ ticks' = << >>
    /\ UNCHANGED <<trouble, cancels>>

Deploy ==
    /\ stage = "deploy"
    /\ \/ /\ stage' = "setup" /\ sweep' = [sweep EXCEPT !.applied = Resources[sweep.arm]]
          /\ UNCHANGED trouble
       \/ stage' = "raising" /\ trouble' = TRUE /\ UNCHANGED sweep
    /\ UNCHANGED <<exec, obs, ticks, cancels>>

Failed(slo) == exec.broken # "no" \/ exec.errors # << >> \/ slo

\* A run is over: its SLO is evaluated if nothing raised, and the sweep goes on
\* unless something did.
Judge ==
    /\ stage = "judge"
    /\ \E slo \in BOOLEAN :
         /\ slo => exec.errors = << >>
         /\ sweep' = [sweep EXCEPT !.passed = @ /\ ~Failed(slo)]
         /\ trouble' = (trouble \/ slo)
         /\ stage' = IF exec.errors # << >> \/ (AbortOnFail /\ Failed(slo))
                     THEN "returning" ELSE "sweep"
    /\ UNCHANGED <<exec, obs, ticks, cancels>>

SweepEnds ==
    /\ stage = "sweep" /\ sweep.arm = Len(Resources) /\ stage' = "returning"
    /\ UNCHANGED <<sweep, exec, obs, ticks, trouble, cancels>>

\* The teardown of the finally clause, which may raise itself.
Teardown ==
    /\ stage \in {"returning", "raising"}
    /\ \/ stage' = IF stage = "returning" THEN "returned" ELSE "raised"
       \/ stage' = "raised"
    /\ UNCHANGED <<sweep, exec, obs, ticks, trouble, cancels>>

-----------------------------------------------------------------------------
(* The observer.                                                             *)

\* start.wait() is over: one more tick at once; or the interval or stop ends
\* the pause.  The probe answers or fails, and may leave the series out.
TickBegins ==
    /\ ~obs.cut
    /\ \/ obs.state = "held" /\ obs.start
       \/ obs.state = "idle" /\ (obs.stop \/ Len(ticks) < MaxTicks)
    /\ obs' = [obs EXCEPT !.state = "tick"]
    /\ IF exec.window = 0 THEN UNCHANGED ticks
       ELSE \E t \in [up : BOOLEAN, has : BOOLEAN] :
              (t.has => t.up) /\ ticks' = Append(ticks, t)
    /\ UNCHANGED <<stage, sweep, exec, trouble, cancels>>

\* Mutant: the stop is not looked at after a tick.
AfterTickForever == IF obs.state = "first" THEN "held" ELSE "idle"
AfterTick == IF obs.state = "first" THEN "held" ELSE IF obs.stop THEN "done" ELSE "idle"

\* A tick ends; or what a probe answered is no mapping, which no handler catches.
TickEnds ==
    /\ ~obs.cut /\ obs.state \in {"first", "tick"}
    /\ \/ obs' = [obs EXCEPT !.state = AfterTick] /\ UNCHANGED trouble
       \/ obs' = [obs EXCEPT !.state = "failed"] /\ trouble' = TRUE
    /\ UNCHANGED <<stage, sweep, exec, ticks, cancels>>

\* Cancelled, it raises where it waits: in a probe, for the start or in the pause.
ObserverCut ==
    /\ obs.cut /\ obs.state \notin Over
    /\ obs' = [obs EXCEPT !.state = "cancelled"]
    /\ UNCHANGED <<stage, sweep, exec, ticks, trouble, cancels>>

-----------------------------------------------------------------------------
(* One arm.                                                                  *)

\* What was awaited raises: it is recorded and the finally clause follows.
Raise(phase) == exec' = Record(exec, phase) /\ stage' = "ending" /\ trouble' = TRUE

Setup ==
    /\ stage = "setup"
    /\ \/ /\ stage' = "waiting" /\ exec' = [exec EXCEPT !.phase = "warmup"]
          /\ obs' = [obs EXCEPT !.state = "first"] /\ UNCHANGED trouble
       \/ Raise("setup") /\ UNCHANGED obs
    /\ UNCHANGED <<sweep, ticks, cancels>>

\* The first tick is over, or the observer is.
Wait ==
    /\ stage = "waiting" /\ obs.state # "first"
    /\ IF obs.state = "failed" THEN Raise(exec.loadPhase) /\ UNCHANGED obs
       ELSE stage' = "drive" /\ obs' = [obs EXCEPT !.start = TRUE] /\ UNCHANGED <<exec, trouble>>
    /\ UNCHANGED <<sweep, ticks, cancels>>

\* The load ends as planned or early, or the scheduler raises; the cooldown
\* window begins.
Measured ==
    /\ stage = "drive"
    /\ \E broken \in {"no", "early", "error"} :
         /\ exec' = [exec EXCEPT !.broken = broken, !.window = Open, !.loadPhase =
                        IF broken = "error" THEN "hold" ELSE "cooldown"]
         /\ trouble' = (trouble \/ broken # "no")
    /\ stage' = "drain"
    /\ UNCHANGED <<sweep, obs, ticks, cancels>>

\* The requests are joined, the window is closed, and drive returns or raises.
Drained ==
    /\ stage = "drain"
    /\ \E late \in {"no", "interrupted", "error"} :
       LET closed == [exec EXCEPT !.window = Len(ticks),
                                  !.broken = IF @ = "no" THEN late ELSE @] IN
         /\ trouble' = (trouble \/ late # "no")
         /\ CASE exec.broken = "cancel" ->
                   exec' = [closed EXCEPT !.fatal = TRUE] /\ stage' = "ending"
              [] exec.broken = "error" \/ (exec.broken # "cancel" /\ late = "error") ->
                   exec' = Record([closed EXCEPT !.phase = exec.loadPhase], exec.loadPhase)
                   /\ stage' = "ending"
              [] OTHER ->
                   exec' = [closed EXCEPT !.phase = "cooldown"] /\ stage' = "deactivate"
    /\ UNCHANGED <<sweep, obs, ticks, cancels>>

Deactivate ==
    /\ stage = "deactivate"
    /\ \/ /\ stage' = IF Cooldown THEN "cooling" ELSE "ending"
          /\ exec' = [exec EXCEPT !.cooling = Cooldown] /\ UNCHANGED trouble
       \/ Raise("cooldown")
    /\ UNCHANGED <<sweep, obs, ticks, cancels>>

\* Mutant: the window is closed as the sleep ends, before the final tick.
CooledEarly ==
    /\ stage = "cooling"
    /\ stage' = "ending" /\ exec' = [exec EXCEPT !.cooling = FALSE, !.window = Len(ticks)]
    /\ UNCHANGED <<sweep, obs, ticks, trouble, cancels>>
Cooled ==
    /\ stage = "cooling" /\ stage' = "ending"
    /\ UNCHANGED <<sweep, exec, obs, ticks, trouble, cancels>>

\* Mutant: the observer is told to stop and not awaited.
EndUnjoined ==
    /\ stage = "ending"
    /\ obs' = [obs EXCEPT !.stop = TRUE, !.start = TRUE, !.cut = exec.fatal]
    /\ stage' = "aggregate"
    /\ UNCHANGED <<sweep, exec, ticks, trouble, cancels>>
\* The finally clause: release the observer, cancel it after a cancellation.
End ==
    /\ stage = "ending"
    /\ IF obs.state = "none" THEN stage' = "aggregate" /\ UNCHANGED obs
       ELSE /\ stage' = "join"
            /\ obs' = [obs EXCEPT !.stop = TRUE, !.start = TRUE, !.cut = exec.fatal]
    /\ UNCHANGED <<sweep, exec, ticks, trouble, cancels>>

\* The observer is over; its final tick is in the window that now ends.
Join ==
    /\ stage = "join" /\ obs.state \in Over
    /\ exec' = CASE obs.state = "failed" -> Record(exec, exec.phase)
                 [] obs.state = "cancelled" -> [exec EXCEPT !.fatal = TRUE]
                 [] OTHER -> [exec EXCEPT !.window = IF exec.cooling THEN Len(ticks) ELSE @]
    /\ stage' = "aggregate"
    /\ UNCHANGED <<sweep, obs, ticks, trouble, cancels>>

\* The cooldown gates the recovered state: a failed scrape in its window, or a
\* series that vanished before the last one, reports nothing.
Recovered(e) ==
    LET seen == SubSeq(ticks, 1, e.window) IN
    /\ seen # << >> /\ \A i \in DOMAIN seen : seen[i].up
    /\ seen[Len(seen)].has

\* _aggregate, then the final queries of the probes unless a cancellation is
\* pending.
Aggregate ==
    /\ stage = "aggregate"
    /\ \/ /\ LET done == [exec EXCEPT !.recovered = Recovered(exec)] IN
             IF obs.state # "none" /\ ~exec.fatal
             THEN stage' = "finish" /\ exec' = done
             ELSE stage' = "cleanup" /\ exec' = [done EXCEPT !.cleanup = TRUE]
          /\ UNCHANGED trouble
       \/ /\ exec' = [Record(exec, "cooldown") EXCEPT !.cleanup = TRUE]
          /\ stage' = "cleanup" /\ trouble' = TRUE
    /\ UNCHANGED <<sweep, obs, ticks, cancels>>

\* A probe's own failure is an entry of probe_errors, never an error of the arm.
Finish ==
    /\ stage = "finish"
    /\ stage' = "cleanup" /\ exec' = [exec EXCEPT !.cleanup = TRUE]
    /\ UNCHANGED <<sweep, obs, ticks, trouble, cancels>>

\* The runner's cleanup returns or raises: its error is a note on a cancellation.
Cleanup ==
    /\ stage = "cleanup" /\ stage' = "closing"
    /\ \/ UNCHANGED <<exec, trouble>>
       \/ exec' = (IF exec.fatal THEN exec ELSE Record(exec, "cleanup")) /\ trouble' = TRUE
    /\ UNCHANGED <<sweep, obs, ticks, cancels>>

\* The ClientManager is closed and what is fatal is raised.
Close ==
    /\ stage = "closing"
    /\ stage' = IF exec.fatal THEN "raising" ELSE "judge"
    /\ UNCHANGED <<sweep, exec, obs, ticks, trouble, cancels>>

-----------------------------------------------------------------------------
(* Cancellation of the owner, at the await it stands at.                     *)

Doomed == [exec EXCEPT !.fatal = TRUE]

CancelRun ==
    /\ stage \in {"setup", "waiting", "deactivate", "cooling"}
    /\ exec' = Doomed /\ stage' = "ending" /\ UNCHANGED obs

\* drive() joins its requests first; a second cancellation stops that too.
CancelLoad ==
    /\ stage \in {"drive", "drain"} /\ UNCHANGED obs
    /\ IF exec.broken \in {"error", "cancel"}
       THEN stage' = "ending" /\ exec' = [Doomed EXCEPT !.window = 0]
       ELSE stage' = "drain" /\ exec' = [exec EXCEPT !.broken = "cancel", !.window = Open]

\* Whoever awaits a task passes its cancellation on, unless the task is over.
CancelJoin ==
    /\ stage = "join"
    /\ IF obs.state \in Over THEN exec' = Doomed /\ stage' = "aggregate" /\ UNCHANGED obs
       ELSE obs' = [obs EXCEPT !.cut = TRUE] /\ UNCHANGED <<stage, exec>>

\* In the final queries it passes every handler: cleanup is not called.
CancelEnd ==
    /\ stage \in {"finish", "cleanup", "closing"} /\ UNCHANGED obs
    /\ exec' = Doomed /\ stage' = "closing"

CancelSweep ==
    /\ stage \in {"deploy", "returning", "raising"} /\ UNCHANGED <<exec, obs>>
    /\ stage' = IF stage = "deploy" THEN "raising" ELSE "raised"

Cancel ==
    /\ cancels < MaxCancels /\ cancels' = cancels + 1 /\ trouble' = TRUE
    /\ CancelRun \/ CancelLoad \/ CancelJoin \/ CancelEnd \/ CancelSweep
    /\ UNCHANGED <<sweep, ticks>>

Owner ==
    \/ NextArm \/ Deploy \/ Judge \/ SweepEnds \/ Teardown
    \/ Setup \/ Wait \/ Measured \/ Drained \/ Deactivate \/ Cooled
    \/ End \/ Join \/ Aggregate \/ Finish \/ Cleanup \/ Close
ArmNext == Owner \/ TickBegins \/ TickEnds \/ ObserverCut \/ Cancel

-----------------------------------------------------------------------------
(* What went wrong reaches the caller, and what was measured is what was    *)
(* asked for: a sweep that returns was not cancelled; it passed only if     *)
(* every arm ran, without a raise, an early stop, an interrupted request or *)
(* a failed SLO; and every arm loads the resources it names.                *)
SweepIsTrue ==
    /\ stage = "returned" =>
         cancels = 0 /\ (sweep.passed <=> ~trouble) /\ (sweep.passed => sweep.arm = Len(Resources))
    /\ stage = "drive" => sweep.applied = Resources[sweep.arm]

(* The value an arm with a cooldown reports for the recovered state is that *)
(* of the observer's last look, which succeeded.                            *)
RecoveryIsFinal ==
    exec.recovered /\ exec.broken = "no" /\ exec.errors = << >> /\ ~exec.fatal
      /\ Cooldown /\ stage \notin {"aggregate"}
      => ticks[Len(ticks)].up /\ ticks[Len(ticks)].has

(* The runner's cleanup and the closing of the clients never run beside a   *)
(* tick of the observer.                                                    *)
QuietCleanup ==
    stage \in {"finish", "cleanup", "closing", "judge", "raising"} => obs.state \in Over \cup {"none"}

(* An arm that began ends with its cleanup called, as _ArmExecution         *)
(* ("its mandatory cleanup") and Runner.setup promise.                      *)
CleanupIsMandatory == stage = "closing" => exec.cleanup

(* Every sweep ends: no arm waits for an observer that nothing releases.    *)
SweepOver == stage \in {"returned", "raised"}

(* What is reported of an arm is what happened, at its end and in between,  *)
(* and its cleanup never runs beside the observer.                          *)
ArmIsTrue == SweepIsTrue /\ RecoveryIsFinal /\ QuietCleanup

=============================================================================
