------------------------------ MODULE PerfDrive ------------------------------
(***************************************************************************)
(* One arm run under load: drive() of perf_harness/drive/scheduler.py on   *)
(* top of the LoadController.                                              *)
(*                                                                         *)
(* drive() is the main task of an asyncio loop; every accepted arrival is  *)
(* a fire task.  The loop runs one task at a time, so main keeps the loop  *)
(* while pc is in MainRuns and all other tasks move only while main is     *)
(* parked at an await (pc in Parked).  Only the clock never waits.         *)
(* The runner, the judge and the task that may cancel drive() are outside: *)
(* they answer, fail, raise or cancel as they like.                        *)
(***************************************************************************)
EXTENDS LoadController, FiniteSets

CONSTANTS
    RateUnit,       \* a rate of r means r arrivals every RateUnit ticks
    Poisson,        \* LoadPlan.arrival = "poisson"
    MaxGap,         \* the longest poisson gap the model draws
    Poll,           \* the 20 ms bound of one wait, in ticks
    Breaker,        \* abort_on_error_rate is set ...
    ErrNum, ErrDen, \* ... to ErrNum / ErrDen
    BreakerMinN,    \* breaker_min_n
    CooldownTimeout,\* cooldown_timeout_s
    RunnerCancels,  \* a runner may raise CancelledError of its own accord
    MaxRequests,    \* arrivals the model follows (bound)
    MaxCancels      \* cancellations of drive() the model follows (bound)

ASSUME DriveAssumption ==
    /\ RateUnit \in Nat \ {0} /\ Poll \in Nat \ {0} /\ MaxGap \in Nat
    /\ Poisson \in BOOLEAN /\ Breaker \in BOOLEAN /\ RunnerCancels \in BOOLEAN
    /\ ErrNum \in Nat \ {0} /\ ErrDen \in Nat /\ ErrNum <= ErrDen
    /\ BreakerMinN \in Nat \ {0} /\ CooldownTimeout \in Nat
    /\ MaxRequests \in Nat /\ MaxCancels \in Nat
    /\ CooldownTimeout <= Horizon

VARIABLES
    pc,             \* where main is
    elapsed,        \* the loop's local clock reading
    due, lastDispatch, lastRate, wasFull,   \* pacing locals
    wake,           \* the asyncio.Event
    waitUntil,      \* when main's current timed wait gives up
    req,            \* execution.requests with the task and call of each
    inflight,       \* ctx.stats.inflight
    failures,       \* requests whose exception main can see
    state,          \* DriveState: [mStart, mEnd, phase, reason, atStop, interrupted, forced]
    reason,         \* the local stop reason
    cooldown,       \* end_reason of the cooldown window, "none" until appended
    cancels,        \* cancellations of main so far
    hard            \* cancelled again while joining the cut tasks

mainVars == <<elapsed, due, lastDispatch, lastRate, wasFull>>
driveVars == <<pc, mainVars, wake, waitUntil, req, inflight, failures, state,
               reason, cooldown, cancels, hard>>
vars == <<ctlVars, driveVars>>

-----------------------------------------------------------------------------
MainRuns == {"loop", "pace", "offer", "stop", "finally", "close"}
Parked == {"yield", "wait", "cooldown", "gather"}

Requests == DOMAIN req
Active == {i \in Requests : req[i].task # "settled"}
Live == {i \in Requests : req[i].task \in {"created", "running"}}
Completed == {i \in Requests : req[i].eval \in {"ok", "bad"}}
Errors == {i \in Requests : req[i].eval = "bad"}

Arrival(at) == [state |-> "arrived", at |-> at, task |-> "created", cut |-> FALSE,
                op |-> FALSE, eval |-> "none", exc |-> FALSE]

Never == Horizon + 1
Later(a, b) == IF a < b THEN b ELSE a
Sooner(a, b) == IF a < b THEN a ELSE b

\* 1 / rate, in whole ticks; gaps the arrival process may draw.
Gap(rate) == IF Saturated THEN 0
             ELSE IF rate = 0 THEN Never
             ELSE (RateUnit + rate - 1) \div rate
Gaps(rate) == IF Poisson /\ ~Saturated THEN 0..MaxGap ELSE {Gap(rate)}
Sends(rate) == Saturated \/ rate > 0
RateAt(c, at) == IF Saturated THEN 0 ELSE TargetRate(c, at)

\* ClientStats.start and done, on inflight.
StatsStart(n) == n + 1
StatsDone(n) == n - 1

Init ==
    /\ CtlInit
    /\ pc = "loop" /\ elapsed = 0
    /\ due = 0 /\ lastDispatch = NoTime /\ lastRate = NoTime /\ wasFull = FALSE
    /\ wake = FALSE /\ waitUntil = 0
    /\ req = << >> /\ inflight = 0 /\ failures = {}
    /\ state = [mStart |-> 0, mEnd |-> NoTime, phase |-> "warmup",
                reason |-> "aborted", atStop |-> 0, interrupted |-> 0, forced |-> FALSE]
    /\ reason = "deadline" /\ cooldown = "none" /\ cancels = 0 /\ hard = FALSE

-----------------------------------------------------------------------------
(* The fire tasks.                                                         *)

\* The task starts: the record is dispatched and the controller is told.
FireStart(i) ==
    /\ pc \in Parked /\ req[i].task = "created"
    /\ req' = [req EXCEPT ![i].task = "running", ![i].state = "dispatched"]
    /\ Advance(now, inflight, FALSE)
    /\ UNCHANGED <<now, pc, mainVars, wake, waitUntil, inflight, failures, state,
                   reason, cooldown, cancels, hard>>

\* What every ending of a fire has in common: the slot is free again.
FireEnds(i, answer) ==
    /\ pc \in Parked /\ req[i].task = "running"
    /\ req' = [req EXCEPT ![i] = answer]
    /\ inflight' = StatsDone(inflight)
    /\ UNCHANGED <<ctlVars, pc, mainVars, wake, waitUntil, state, reason, cooldown,
                   cancels, hard>>

\* The runner answered, or raised an Exception that becomes an outcome; the
\* judge passed or failed the outcome.
FireJudged(i, verdict) ==
    /\ FireEnds(i, [req[i] EXCEPT !.task = "ended", !.state = "finished",
                                  !.op = TRUE, !.eval = verdict])
    /\ UNCHANGED failures

\* The judge raised: published before the loop can run main again.
FireJudgeRaises(i) ==
    /\ FireEnds(i, [req[i] EXCEPT !.task = "ended", !.state = "finished",
                                  !.op = TRUE, !.eval = "raised", !.exc = TRUE])
    /\ failures' = failures \cup {i}

\* Mutant: stats.done() is not reached when the task dies.
FireDiesLeaking(i, last) ==
    /\ pc \in Parked /\ req[i].task = "running"
    /\ req' = [req EXCEPT ![i].task = "ended", ![i].state = last, ![i].exc = TRUE]
    /\ UNCHANGED <<ctlVars, pc, mainVars, wake, waitUntil, inflight, failures, state,
                   reason, cooldown, cancels, hard>>
\* The task dies outside the judge: the runner returned something that is no
\* Outcome (finished), or raised a BaseException (still dispatched).
FireDies(i, last) ==
    /\ FireEnds(i, [req[i] EXCEPT !.task = "ended", !.state = last, !.exc = TRUE])
    /\ UNCHANGED failures

\* CancelledError comes out of the runner: the call is kept, unjudged.
FireInterrupted(i) ==
    /\ req[i].cut \/ RunnerCancels
    /\ FireEnds(i, [req[i] EXCEPT !.task = "ended", !.state = "interrupted", !.op = TRUE])
    /\ UNCHANGED failures

FireReturns(i) ==
    \/ \E verdict \in {"ok", "bad"} : FireJudged(i, verdict)
    \/ FireJudgeRaises(i)
    \/ \E last \in {"finished", "dispatched"} : FireDies(i, last)
    \/ FireInterrupted(i)

\* The done callback of the task.
Settled(i) ==
    /\ pc \in Parked /\ req[i].task = "ended"
    /\ req' = [req EXCEPT ![i].task = "settled"]
    /\ failures' = IF req[i].exc THEN failures \cup {i} ELSE failures
    /\ wake' = TRUE
    /\ UNCHANGED <<ctlVars, pc, mainVars, waitUntil, inflight, state, reason,
                   cooldown, cancels, hard>>

-----------------------------------------------------------------------------
(* The main loop, from one await to the next.                              *)

\* The head of the loop: roll the stages, then leave on a failure or at the end.
LoopHead ==
    /\ pc = "loop"
    /\ elapsed' = now
    /\ Advance(now, inflight, inflight >= TargetCap(ctl, now) /\ now >= due)
    /\ state' = [state EXCEPT !.phase = Phase(ctl')]
    /\ pc' = IF failures # {} THEN "finally"
             ELSE IF Done(ctl') THEN "stop" ELSE "pace"
    /\ UNCHANGED <<now, due, lastDispatch, lastRate, wasFull, wake, waitUntil, req,
                   inflight, failures, reason, cooldown, cancels, hard>>

Tripped ==
    /\ Breaker
    /\ Cardinality(Completed) >= BreakerMinN
    /\ Cardinality(Errors) * ErrDen >= ErrNum * Cardinality(Completed)

TripBreaker ==
    /\ pc = "pace" /\ Tripped
    /\ reason' = "error_rate"
    /\ ctl' = Aborted(ctl, elapsed)
    /\ pc' = "stop"
    /\ UNCHANGED <<now, mainVars, wake, waitUntil, req, inflight, failures, state,
                   cooldown, cancels, hard>>

\* A new rate restarts the pacing clock from the last dispatch; a slot freed
\* after a full spell is due at once.
NextDue(rate, cap) ==
    LET paced == IF rate = lastRate THEN due
                 ELSE IF lastDispatch = NoTime THEN elapsed
                 ELSE Later(elapsed, lastDispatch + Gap(rate))
    IN  IF wasFull /\ inflight < cap THEN Later(paced, elapsed) ELSE paced

Pace ==
    LET rate == RateAt(ctl, elapsed)
        cap == TargetCap(ctl, elapsed)
        next == NextDue(rate, cap)
        ready == inflight < cap /\ Sends(rate) /\ next <= elapsed
                 /\ Len(req) < MaxRequests
        horizon == Sooner(elapsed + Poll, Deadline(ctl))
    IN  /\ pc = "pace" /\ ~Tripped
        /\ due' = next /\ lastRate' = rate
        /\ wasFull' = (inflight >= cap)
        /\ wake' = FALSE
        /\ pc' = IF ready THEN "offer" ELSE "wait"
        /\ waitUntil' = IF Sends(rate) /\ next > elapsed THEN Sooner(horizon, next)
                        ELSE horizon
        /\ UNCHANGED <<ctlVars, elapsed, lastDispatch, req, inflight, failures, state,
                       reason, cooldown, cancels, hard>>

\* Mutant: the deadline is not looked at again.
AdmitsLate(c, at, n) == n < TargetCap(c, at)
\* An arrival at this instant fits the stage and the cap.
Admits(c, at, n) == at < Deadline(c) /\ n < TargetCap(c, at)

\* offer(): the clock is read again, so the stage or the cap may have gone.
Refuse ==
    /\ pc = "offer"
    /\ ~Admits(ctl, now, inflight)
    /\ pc' = "loop"
    /\ UNCHANGED <<ctlVars, mainVars, wake, waitUntil, req, inflight, failures, state,
                   reason, cooldown, cancels, hard>>

\* Mutant: a stalled loop catches up on the arrivals it missed.
DueCatchingUp(gap) == due + gap
DueAfter(gap) == elapsed + gap

\* An arrival reserves its slot, gets its task, and main yields to it.
Offer ==
    /\ pc = "offer"
    /\ Admits(ctl, now, inflight)
    /\ req' = Append(req, Arrival(now))
    /\ inflight' = StatsStart(inflight)
    /\ lastDispatch' = elapsed
    /\ \E gap \in Gaps(lastRate) : due' = DueAfter(gap)
    /\ pc' = "yield"
    /\ UNCHANGED <<ctlVars, elapsed, lastRate, wasFull, wake, waitUntil, failures,
                   state, reason, cooldown, cancels, hard>>

\* The ready queue is first in, first out: a task created before sleep(0)
\* runs before main does.
Started == \A i \in Requests : req[i].task # "created"

\* Mutant: a wait has no timeout.
NeverExpires == FALSE
Expired == now >= waitUntil

Resume ==
    /\ \/ pc = "yield" /\ Started
       \/ pc = "wait" /\ (wake \/ Expired)
    /\ pc' = "loop"
    /\ UNCHANGED <<ctlVars, mainVars, wake, waitUntil, req, inflight, failures, state,
                   reason, cooldown, cancels, hard>>

-----------------------------------------------------------------------------
(* Winding down.                                                           *)

MeasureFrom(c) == IF c.holdStart # NoTime THEN c.holdStart ELSE c.end

\* After the loop: freeze the facts, then give the calls in flight their time.
Stop ==
    /\ pc = "stop"
    /\ state' = [state EXCEPT !.mEnd = ctl.end, !.mStart = MeasureFrom(ctl),
                              !.reason = reason, !.atStop = inflight,
                              !.phase = "cooldown"]
    /\ pc' = IF Active = {} THEN "finally" ELSE "cooldown"
    /\ waitUntil' = now + CooldownTimeout
    /\ UNCHANGED <<ctlVars, mainVars, wake, req, inflight, failures, reason, cooldown,
                   cancels, hard>>

CooldownOver ==
    /\ pc = "cooldown"
    /\ Active = {} \/ Expired
    /\ pc' = "finally"
    /\ UNCHANGED <<ctlVars, mainVars, wake, waitUntil, req, inflight, failures, state,
                   reason, cooldown, cancels, hard>>

\* Mutant: the finally block takes the facts again.
NeverFrozen == FALSE
Frozen == state.mEnd # NoTime

\* The finally block up to its await: facts first, then cut what is left.
Finally ==
    /\ pc = "finally"
    /\ IF ~Frozen
       THEN /\ ctl' = Aborted(ctl, now)
            /\ state' = [state EXCEPT !.mEnd = ctl'.end, !.mStart = MeasureFrom(ctl'),
                                      !.reason = "aborted", !.atStop = inflight]
       ELSE UNCHANGED <<ctl, state>>
    /\ req' = [i \in Requests |->
                  IF req[i].task \in {"created", "running"}
                  THEN [req[i] EXCEPT !.cut = TRUE] ELSE req[i]]
    /\ pc' = IF Active = {} THEN "close" ELSE "gather"
    /\ UNCHANGED <<now, mainVars, wake, waitUntil, inflight, failures, reason, cooldown,
                   cancels, hard>>

\* Every cut task is joined.  A second cancellation leaves right here.
Joined ==
    /\ pc = "gather" /\ Active = {}
    /\ pc' = IF hard THEN "ended" ELSE "close"
    /\ UNCHANGED <<ctlVars, mainVars, wake, waitUntil, req, inflight, failures, state,
                   reason, cooldown, cancels, hard>>

Interrupted == {i \in Requests : req[i].state = "interrupted"}

\* The rest of the finally block: the census and the cooldown window.
Close ==
    /\ pc = "close"
    /\ state' = [state EXCEPT !.interrupted = Cardinality(Interrupted),
                              !.forced = Interrupted # {}]
    /\ cooldown' = IF Interrupted = {} THEN "empty"
                   ELSE IF state.reason = "aborted" THEN "cancelled" ELSE "timeout"
    /\ pc' = "ended"
    /\ UNCHANGED <<ctlVars, mainVars, wake, waitUntil, req, inflight, failures, reason,
                   cancels, hard>>

\* The task that runs drive() is cancelled at one of its awaits.
Cancel ==
    /\ cancels < MaxCancels
    /\ \/ pc = "yield" /\ Started /\ pc' = "finally" /\ UNCHANGED hard
       \/ pc \in {"wait", "cooldown"} /\ pc' = "finally" /\ UNCHANGED hard
       \/ pc = "gather" /\ hard' = TRUE /\ UNCHANGED pc
    /\ cancels' = cancels + 1
    /\ UNCHANGED <<ctlVars, mainVars, wake, waitUntil, req, inflight, failures, state,
                   reason, cooldown>>

\* How drive() leaves, read once pc = "ended".
Result == IF cancels > 0 THEN "cancelled" ELSE IF failures # {} THEN "failed" ELSE "ok"

-----------------------------------------------------------------------------
\* The clock moves while main is parked, and between two readings main makes
\* in one run of the loop.  The load must leave CooldownTimeout ticks of Horizon.
Clock ==
    /\ pc \in {"yield", "wait", "cooldown", "offer", "finally"}
    /\ now < IF state.mEnd = NoTime THEN Horizon - CooldownTimeout ELSE Horizon
    /\ now' = now + 1
    /\ UNCHANGED <<ctl, driveVars>>

Main == \/ LoopHead \/ TripBreaker \/ Pace \/ Refuse \/ Offer \/ Resume
        \/ Stop \/ CooldownOver \/ Finally \/ Joined \/ Close

Tasks == \E i \in Requests : FireStart(i) \/ FireReturns(i) \/ Settled(i)

Ended == pc = "ended" /\ UNCHANGED vars

Next == Main \/ Tasks \/ Cancel \/ Clock \/ Ended

Spec == Init /\ [][Next]_vars

\* The loop runs whatever is ready, time passes, and a runner that is cut
\* reacts ("Runner must support cancellation", spec/perf-contract.md).  A call
\* nobody cuts may hang for ever.
Fairness ==
    /\ WF_vars(Main) /\ WF_vars(Clock)
    /\ \A i \in 1..MaxRequests :
        /\ WF_vars(i \in Requests /\ FireStart(i))
        /\ WF_vars(i \in Requests /\ Settled(i))
        /\ WF_vars(i \in Requests /\ req[i].cut /\ FireReturns(i))

FairSpec == Spec /\ Fairness

-----------------------------------------------------------------------------
TypeOK ==
    /\ CtlTypeOK
    /\ pc \in MainRuns \cup Parked \cup {"ended"}
    /\ elapsed \in Nat /\ due \in Nat
    /\ lastDispatch \in Nat \cup {NoTime} /\ lastRate \in Nat \cup {NoTime}
    /\ wasFull \in BOOLEAN /\ wake \in BOOLEAN /\ waitUntil \in Nat
    /\ req \in Seq([state : {"arrived", "dispatched", "finished", "interrupted"},
                    at : Nat, task : {"created", "running", "ended", "settled"},
                    cut : BOOLEAN, op : BOOLEAN,
                    eval : {"none", "ok", "bad", "raised"}, exc : BOOLEAN])
    /\ inflight \in Nat
    /\ failures \subseteq Requests
    /\ state \in [mStart : Nat, mEnd : Nat \cup {NoTime},
                  phase : {"warmup", "hold", "cooldown"},
                  reason : {"aborted", "deadline", "error_rate"}, atStop : Nat,
                  interrupted : Nat, forced : BOOLEAN]
    /\ reason \in {"deadline", "error_rate", "aborted"}
    /\ cooldown \in {"none", "empty", "cancelled", "timeout"}
    /\ cancels \in Nat /\ hard \in BOOLEAN

(* Every arrival belongs to a window that was open at that instant, however *)
(* late the loop woke up, and none lies after the measurement ended: the    *)
(* statistics can place every request.                                      *)
ArrivalsInsideWindows ==
    \A i \in Requests :
        /\ \E j \in StageId :
              /\ ctl.win[j].opened /\ ctl.win[j].start <= req[i].at
              /\ \/ req[i].at < ctl.win[j].end
                 \/ \A m \in StageId : m > j => ~ctl.win[m].opened
        /\ state.mEnd # NoTime => req[i].at <= state.mEnd

(* The calls really in flight never outnumber peak_inflight, by which      *)
(* engine.py sizes the client pools, even while a ramp lowers the cap.     *)
PeakInflight(n) == n <= Cap0 \/ \E j \in StageId : n <= Stages[j].cap
LiveWithinPeak == PeakInflight(Cardinality(Live))

(* However late the loop wakes up and whatever it has to finish, every call *)
(* starts inside an open window and within the size of the client pools.    *)
AdmittedByPlan == ArrivalsInsideWindows /\ LiveWithinPeak

(* ctx.stats.inflight is exactly the number of live calls at every await:  *)
(* no ending of a call, however it dies, leaks a slot or frees it twice.   *)
InflightExact == inflight = Cardinality(Live)

(* When drive() is over no call is left behind and each record is closed:  *)
(* a judged one has its call and its evaluation, an interrupted one has    *)
(* its call and none.  Only a call that died on an exception main re-raises*)
(* may lack them.  Unless it was cancelled while joining, drive() leaves a  *)
(* cooldown window too, "empty" exactly when no call was interrupted.       *)
RequestsAccounted ==
    pc = "ended" =>
        /\ inflight = 0
        /\ \A i \in Requests :
            /\ req[i].state = "interrupted" => req[i].op /\ req[i].eval = "none"
            /\ ~req[i].exc /\ req[i].state # "interrupted" =>
                  req[i].state = "finished" /\ req[i].op /\ req[i].eval \in {"ok", "bad"}
            /\ req[i].exc => Result # "ok"
        /\ ~hard =>
            /\ cooldown # "none"
            /\ (cooldown = "empty" <=> Interrupted = {})
            /\ (cooldown = "timeout" => state.reason # "aborted")

(* At every await the slots and at the end the records agree with the calls *)
(* that were made, however each of them died.                               *)
CallsAccounted == TypeOK /\ InflightExact /\ RequestsAccounted

(* "deadline" is reported only when the plan ran to its end, and a breaker *)
(* only when it cut a window: winding down never turns an early stop into  *)
(* a normal one.  (A failure or a cancellation met in the very pass that    *)
(* finds the plan over is still an "aborted" stop.)                         *)
StopReasonMatchesWindows ==
    LET cutWindow == \E j \in StageId : ctl.win[j].reason = "aborted"
    IN  state.mEnd # NoTime =>
            /\ state.reason = "deadline" => ~cutWindow
            /\ state.reason = "error_rate" => cutWindow

(* "a just-freed slot must not refill after Judge failure" (scheduler.py):  *)
(* once a judge has raised, no request arrives any more.                    *)
NoRefillAfterJudgeFailure ==
    [][(\E i \in Requests : req[i].eval = "raised") => Len(req') = Len(req)]_vars

(* "no queued arrivals while full, and no catch-up burst after a stall"     *)
(* (scheduler.py): under constant arrival two dispatches at one rate are a  *)
(* full gap apart, whatever blocked the loop between them.                  *)
NoBurst ==
    [][Len(req') > Len(req) /\ lastDispatch # NoTime /\ ~Poisson =>
          elapsed >= lastDispatch + Gap(RateAt(ctl, elapsed))]_vars

(* No stall, no freed slot and no failure starts a call that is not due.    *)
PacedArrivals == NoRefillAfterJudgeFailure /\ NoBurst

(* "Freeze load facts BEFORE waiting for cancellation; cleanup cannot       *)
(* rewrite them" (scheduler.py): once the measurement end is known, nothing *)
(* that happens while draining or joining changes the facts of the stop.    *)
FactsKept ==
    state.mEnd # NoTime =>
        /\ state'.mEnd = state.mEnd /\ state'.mStart = state.mStart
        /\ state'.atStop = state.atStop
        /\ ctl'.win = ctl.win /\ Len(req') = Len(req)

(* drive() always comes to its end, even when runners hang until they are   *)
(* cut and whatever cancels it.                                             *)
Terminates == <>(pc = "ended")

=============================================================================
