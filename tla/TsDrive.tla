------------------------------- MODULE TsDrive -------------------------------
(* The TypeScript twin of the scheduler: perf-harness/src/scheduler.ts and   *)
(* controller.ts, and the statistics reduce.ts makes of its records.  Pacing, *)
(* admission and the stages are those of PerfDrive; a call is a promise      *)
(* chain, nothing but an AbortSignal cuts it, and aborting the host's signal  *)
(* lets calls finish before the scheduler's own turn comes.                   *)
EXTENDS PerfDrive
LOCAL Seqs == INSTANCE SequencesExt

VARIABLES
    twin,       \* whose drive() this behaviour is: "python" or "typescript"
    census,     \* inflightAtCancellation
    stamp,      \* of each record: when it was due, dispatched and finished
    coolEnd     \* end_s of the cooldown window

tsVars == <<twin, census, stamp, coolEnd>>
twinVars == <<vars, tsVars>>

TsInit ==
    /\ Init /\ twin \in {"python", "typescript"}
    /\ census = NoTime /\ stamp = << >> /\ coolEnd = NoTime

HostAborted == cancels > 0
Census == IF census = NoTime THEN inflight ELSE census

-----------------------------------------------------------------------------
(* Calls.                                                                   *)

\* A call ends in one turn: the record, the judge, and its entry in `active`.
CallEnds(i, answer) ==
    /\ pc \in Parked /\ req[i].task = "running"
    /\ req' = [req EXCEPT ![i] = answer]
    /\ stamp' = [stamp EXCEPT ![i].done = now]
    /\ inflight' = inflight - 1 /\ wake' = TRUE
    /\ UNCHANGED <<ctlVars, pc, mainVars, waitUntil, state, reason, cooldown, cancels,
                   hard, twin, census, coolEnd>>

Signalled(i) == req[i].cut \/ HostAborted

\* The runner answered or threw, nobody had aborted, and the judge spoke.
CallJudged(i, verdict) ==
    /\ ~Signalled(i)
    /\ CallEnds(i, [req[i] EXCEPT !.task = "settled", !.state = "finished", !.op = TRUE,
                                  !.eval = verdict, !.exc = (verdict = "raised")])
    /\ failures' = IF verdict = "raised" THEN failures \cup {i} ELSE failures

\* Whatever the runner did about it, an aborted call is interrupted, not judged.
CallInterrupted(i) ==
    /\ Signalled(i)
    /\ CallEnds(i, [req[i] EXCEPT !.task = "settled", !.state = "interrupted", !.op = TRUE])
    /\ UNCHANGED failures

CallSettles(i) == CallInterrupted(i) \/ \E v \in {"ok", "bad", "raised"} : CallJudged(i, v)

-----------------------------------------------------------------------------
(* The scheduler.                                                           *)

HeadTurn == LoopHead /\ ~HostAborted /\ UNCHANGED tsVars
BreakerTurn == TripBreaker /\ UNCHANGED tsVars
PaceTurn == Pace /\ UNCHANGED tsVars
RefuseTurn == Refuse /\ UNCHANGED tsVars
ResumeTurn == Resume /\ UNCHANGED tsVars

\* offer(): slot, record and promise in one turn, then the controller is told.
TsOffer ==
    /\ pc = "offer" /\ Admits(ctl, now, inflight)
    /\ req' = Append(req, [Arrival(now) EXCEPT !.task = "running", !.state = "dispatched"])
    /\ stamp' = Append(stamp, [due |-> due, sent |-> now, done |-> NoTime])
    /\ inflight' = inflight + 1
    /\ lastDispatch' = elapsed
    /\ \E gap \in Gaps(lastRate) : due' = DueAfter(gap)
    /\ Advance(now, inflight', FALSE)
    /\ pc' = "yield"
    /\ UNCHANGED <<now, elapsed, lastRate, wasFull, wake, waitUntil, failures, state,
                   reason, cooldown, cancels, hard, twin, census, coolEnd>>

\* The host aborts: the census is taken in the event itself, until `finally`
\* removes the listener.
HostAbort ==
    /\ cancels < MaxCancels /\ ~HostAborted /\ pc \in Parked
    /\ cancels' = cancels + 1 /\ wake' = TRUE
    /\ census' = IF pc = "gather" THEN census ELSE inflight
    /\ UNCHANGED <<ctlVars, pc, mainVars, waitUntil, req, inflight, failures, state, reason,
                   cooldown, hard, twin, stamp, coolEnd>>

AbortSeen ==
    /\ pc = "loop" /\ HostAborted
    /\ reason' = "aborted" /\ ctl' = Aborted(ctl, now) /\ pc' = "stop"
    /\ UNCHANGED <<now, mainVars, wake, waitUntil, req, inflight, failures, state, cooldown,
                   cancels, hard, tsVars>>

\* Mutant: the calls are counted when the scheduler's turn comes.
CountedLate == inflight
AtStop == Census

TsStop ==
    /\ pc = "stop"
    /\ state' = [state EXCEPT !.mEnd = ctl.end, !.mStart = MeasureFrom(ctl),
                              !.reason = reason, !.atStop = AtStop, !.phase = "cooldown"]
    /\ pc' = IF Active = {} \/ HostAborted THEN "finally" ELSE "cooldown"
    /\ waitUntil' = now + CooldownTimeout
    /\ UNCHANGED <<ctlVars, mainVars, wake, req, inflight, failures, reason, cooldown,
                   cancels, hard, tsVars>>

TsCooldownOver ==
    /\ pc = "cooldown" /\ (Active = {} \/ Expired \/ HostAborted)
    /\ state' = IF HostAborted THEN [state EXCEPT !.reason = "aborted"] ELSE state
    /\ pc' = "finally"
    /\ UNCHANGED <<ctlVars, mainVars, wake, waitUntil, req, inflight, failures, reason,
                   cooldown, cancels, hard, tsVars>>

\* The finally block up to its await.
TsFinally ==
    /\ pc = "finally"
    /\ IF Frozen THEN UNCHANGED <<ctl, state>>
       ELSE /\ ctl' = Aborted(ctl, now)
            /\ state' = [state EXCEPT !.mEnd = ctl'.end, !.mStart = MeasureFrom(ctl'),
                                      !.reason = "aborted", !.atStop = AtStop]
    /\ req' = [i \in Requests |-> [req[i] EXCEPT !.cut = (@ \/ i \in Active)]]
    /\ pc' = IF Active = {} THEN "close" ELSE "gather"
    /\ UNCHANGED <<now, mainVars, wake, waitUntil, inflight, failures, reason, cooldown,
                   cancels, hard, tsVars>>

JoinedTurn == Joined /\ UNCHANGED tsVars
TsClose == Close /\ coolEnd' = now /\ UNCHANGED <<twin, census, stamp>>

TsMain == \/ HeadTurn \/ AbortSeen \/ BreakerTurn \/ PaceTurn \/ RefuseTurn \/ TsOffer
          \/ ResumeTurn \/ TsStop \/ TsCooldownOver \/ TsFinally \/ JoinedTurn \/ TsClose

TsNext ==
    \/ twin = "python" /\ Next /\ UNCHANGED tsVars
    \/ twin = "typescript" /\ (TsMain \/ HostAbort \/ \E i \in Requests : CallSettles(i))
    \/ twin = "typescript" /\ (Clock \/ Ended) /\ UNCHANGED tsVars

\* "Each Runner must cooperate with AbortSignal" (perf-harness/README.md); a
\* call nobody aborts may hang.  The other twin's fairness is PerfDrive's.
TsFairness ==
    /\ WF_twinVars(twin = "python" /\ Main /\ UNCHANGED tsVars)
    /\ WF_twinVars(Clock /\ UNCHANGED tsVars)
    /\ WF_twinVars(twin = "typescript" /\ TsMain)
    /\ \A i \in 1..MaxRequests :
        /\ WF_twinVars(twin = "python" /\ i \in Requests /\ UNCHANGED tsVars
                       /\ (FireStart(i) \/ Settled(i) \/ (req[i].cut /\ FireReturns(i))))
        /\ WF_twinVars(twin = "typescript" /\ i \in Requests /\ CallInterrupted(i))

TsSpec == TsInit /\ [][TsNext]_twinVars /\ TsFairness

-----------------------------------------------------------------------------
(* requestStats and the windows it is asked about.                          *)

Within(t, w) == t # NoTime /\ t >= w.from /\ t < w.to

Cohort(w) == {i \in Requests : Within(stamp[i].sent, w)}
Completions(w) == {i \in Requests : req[i].state = "finished" /\ Within(stamp[i].done, w)}
Carried(w) == {i \in Requests : /\ stamp[i].sent < w.from
                                /\ stamp[i].done = NoTime \/ stamp[i].done >= w.from}

\* Starts and ends by time, ends first; `current` and `peak` follow them.
Events(w) ==
    Seqs!SetToSortSeq(
        {<<stamp[i].sent, 1, i>> : i \in Cohort(w)}
            \cup {<<stamp[i].done, -1, i>> : i \in {j \in Requests : Within(stamp[j].done, w)}},
        LAMBDA a, b : a[1] < b[1] \/ (a[1] = b[1] /\ a[2] <= b[2]))
Follow(count, event) ==
    [current |-> count.current + event[2],
     peak    |-> Later(count.peak, count.current + event[2])]
Counted(w) ==
    Seqs!FoldLeft(Follow, [current |-> Cardinality(Carried(w)), peak |-> Cardinality(Carried(w))],
                  Events(w))

\* buildWindows: the stages passed through, then the cooldown.
WindowsBuilt ==
    LET opened == SelectSeq([j \in StageId |-> ctl.win[j]], LAMBDA w : w.opened)
    IN  Append([j \in DOMAIN opened |-> [from |-> opened[j].start, to |-> opened[j].end]],
               [from |-> state.mEnd, to |-> coolEnd])

-----------------------------------------------------------------------------
RunningAfter(t) ==
    {i \in Requests : stamp[i].sent <= t /\ (stamp[i].done = NoTime \/ stamp[i].done > t)}
InOneWindow(cohort(_), at(_)) ==
    \A i \in Requests :
        at(i) # NoTime /\ at(i) < coolEnd =>
            Cardinality({k \in DOMAIN WindowsBuilt : i \in cohort(WindowsBuilt[k])}) = 1

(* The reported statistics of all windows agree with each other and with the *)
(* calls: each call is dispatched in one window and completed in one, what   *)
(* one window leaves in flight the next one starts with, a peak is the most  *)
(* that ever ran at once and within the plan; and nothing is interrupted    *)
(* that the stop did not count as in flight.                                *)
StatisticsAddUp ==
    twin = "typescript" /\ pc = "ended" =>
        /\ InOneWindow(Cohort, LAMBDA i : stamp[i].sent)
        /\ InOneWindow(Completions, LAMBDA i : IF req[i].state = "finished" THEN stamp[i].done
                                               ELSE NoTime)
        /\ \A k \in DOMAIN WindowsBuilt :
             LET w == WindowsBuilt[k] IN
             /\ k < Len(WindowsBuilt) =>
                    Counted(w).current = Cardinality(Carried(WindowsBuilt[k + 1]))
             /\ PeakInflight(Counted(w).peak)
             /\ \A t \in w.from..(w.to - 1) : Cardinality(RunningAfter(t)) <= Counted(w).peak
             /\ Counted(w).peak = Cardinality(Carried(w))
                \/ \E t \in w.from..(w.to - 1) : Cardinality(RunningAfter(t)) = Counted(w).peak
        /\ state.interrupted <= state.atStop

(* A cancellation that arrives while calls drain is the one thing that may    *)
(* change what was written about the stop, in the TypeScript twin alone, and *)
(* nothing but its reason.                                                   *)
StopIsHistory ==
    [][FactsKept /\ (state.mEnd # NoTime /\ state'.reason # state.reason
                     => twin = "typescript" /\ HostAborted /\ state'.reason = "aborted")]_twinVars

=============================================================================
