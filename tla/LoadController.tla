--------------------------- MODULE LoadController ---------------------------
(***************************************************************************)
(* The stage clock of one perf arm run: LoadController of                  *)
(* perf_harness/drive/controller.py over the plan of drive/load.py.        *)
(*                                                                         *)
(* A LoadPlan is a sequence of stages.  The controller is told the time    *)
(* and the number of requests in flight; it opens and closes one Window    *)
(* per stage it really passes through.  A warmup stage that meets its      *)
(* inflight cap jumps straight to the next hold; a hold is never cut.      *)
(*                                                                         *)
(* Time is counted in integer ticks.  The while loop of advance() is       *)
(* given in closed form: it closes every stage whose deadline has passed   *)
(* (Lands), then possibly leaves the stage it lands in (Capped).           *)
(***************************************************************************)
EXTENDS Integers, Sequences

CONSTANTS
    Stages,     \* planned_stages: a sequence of [kind, dur, rate, cap]
    Offset,     \* Offset[j]: the sum of the durations of the stages before j
    Rate0,      \* LoadPlan.request_rate, requests per RateUnit ticks
    Cap0,       \* LoadPlan.max_inflight
    Saturated,  \* request_rate is inf: replenish whenever a slot is free
    MaxLoad,    \* the largest inflight count a caller of advance reports
    Horizon     \* the last tick of the clock (bounds the model, not the code)

N == Len(Stages)
Kinds == {"hold", "ramp", "warmup"}

ASSUME PlanAssumption ==
    /\ Stages \in Seq([kind : Kinds, dur : Nat \ {0}, rate : Nat, cap : Nat \ {0}])
    /\ N >= 1
    /\ Rate0 \in Nat
    /\ Cap0 \in Nat \ {0}
    /\ Saturated \in BOOLEAN
    /\ MaxLoad \in Nat
    /\ Horizon \in Nat

ASSUME OffsetAssumption ==
    /\ Offset \in [1..(N + 1) -> Nat]
    /\ Offset[1] = 0
    /\ \A j \in 1..N : Offset[j + 1] = Offset[j] + Stages[j].dur

VARIABLES
    now,        \* time.monotonic() - ctx.t0, in ticks
    ctl         \* the LoadController object

ctlVars == <<now, ctl>>

-----------------------------------------------------------------------------
NoTime == -1    \* a time attribute that is still None
StageId == 1..N

EndReasons == {"none", "inflight_limit", "target_rate", "duration", "aborted"}

Windows == [opened : BOOLEAN, start : Nat, end : Nat, complete : BOOLEAN,
            reason : EndReasons, limited : Nat]

\* The Window that _open appends; windows of stages never entered stay Unopened.
Fresh(at) == [opened |-> TRUE, start |-> at, end |-> at, complete |-> FALSE,
              reason |-> "none", limited |-> 0]
Unopened == [opened |-> FALSE, start |-> 0, end |-> 0, complete |-> FALSE,
             reason |-> "none", limited |-> 0]

CtlInit ==
    /\ now = 0
    /\ ctl = [index     |-> 1,
              start     |-> 0,
              prevRate  |-> Rate0,
              prevCap   |-> Cap0,
              win       |-> [j \in StageId |-> IF j = 1 THEN Fresh(0) ELSE Unopened],
              holdStart |-> IF Stages[1].kind = "hold" THEN 0 ELSE NoTime,
              end       |-> NoTime,
              last      |-> 0,
              limited   |-> FALSE]

-----------------------------------------------------------------------------
Done(c) == c.end # NoTime

Phase(c) == IF Done(c) THEN "cooldown"
            ELSE IF Stages[c.index].kind = "hold" THEN "hold" ELSE "warmup"

\* When stage j opens and ends if every stage from c.index on runs its full time.
OpensAt(c, j) == c.start + (Offset[j] - Offset[c.index])
Deadline(c) == c.start + Stages[c.index].dur

\* target(at): a ramp moves linearly from the previous stage's target.
Interpolate(from, to, at, c) ==
    LET dur == Stages[c.index].dur
        passed == IF at < c.start THEN 0
                  ELSE IF at - c.start > dur THEN dur ELSE at - c.start
    IN  from + (((to - from) * passed) \div dur)

TargetRate(c, at) ==
    IF Stages[c.index].kind = "ramp"
    THEN Interpolate(c.prevRate, Stages[c.index].rate, at, c)
    ELSE Stages[c.index].rate

TargetCap(c, at) ==
    IF Stages[c.index].kind = "ramp"
    THEN LET cap == Interpolate(c.prevCap, Stages[c.index].cap, at, c)
         IN  IF cap < 1 THEN 1 ELSE cap
    ELSE Stages[c.index].cap

-----------------------------------------------------------------------------
(* advance(at, inflight, limited)                                          *)

\* k is the stage whose interval holds `at`, or N+1 when the plan is over.
Lands(c, at, k) ==
    /\ \A j \in c.index..(k - 1) : at >= OpensAt(c, j + 1)
    /\ k <= N => at < OpensAt(c, k + 1)

\* The warmup stage the controller landed in has met its inflight cap.
Capped(k, inflight) ==
    k <= N /\ Stages[k].kind = "warmup" /\ inflight >= Stages[k].cap

\* h is the first hold after stage k, or N+1.
NextHold(k, h) ==
    /\ \A j \in (k + 1)..(h - 1) : Stages[j].kind # "hold"
    /\ h <= N => Stages[h].kind = "hold"

TimedReason(j) ==
    IF Stages[j].kind = "warmup" /\ j < N /\ Stages[j + 1].kind = "hold"
    THEN "target_rate" ELSE "duration"

\* Mutant: a crossed stage ends when the late call arrives.
ClosesLate(c, j, at) == at
\* end = min(at_s, deadline), for a stage crossed or current.
ClosesAt(c, j, at) == IF at < OpensAt(c, j + 1) THEN at ELSE OpensAt(c, j + 1)

\* Blocked time window j gains up to `at`; the stages crossed inside one call
\* are charged whole, with the flag of this call.
Accrued(c, j, at, limited) ==
    IF j = c.index
    THEN c.win[j].limited + (IF c.limited /\ at > c.last THEN at - c.last ELSE 0)
    ELSE IF limited THEN at - OpensAt(c, j) ELSE 0

\* The windows after an advance that lands in k; exit is the next hold when
\* stage k is capped, and k itself when it is not.
Rolled(c, at, k, exit, limited) ==
    [j \in StageId |->
        IF j < c.index THEN c.win[j]
        ELSE IF j < k
        THEN [opened |-> TRUE, start |-> OpensAt(c, j), end |-> ClosesAt(c, j, at),
              complete |-> TRUE, reason |-> TimedReason(j),
              limited |-> Accrued(c, j, ClosesAt(c, j, at), limited)]
        ELSE IF j = k
        THEN [opened |-> TRUE, start |-> OpensAt(c, k), end |-> at,
              complete |-> exit # k,
              reason |-> IF exit # k THEN "inflight_limit" ELSE "none",
              limited |-> Accrued(c, k, at, limited)]
        ELSE IF j = exit THEN Fresh(at)
        ELSE Unopened]

\* hold_start_s keeps the start of the first hold ever opened.
FirstHold(c, win) ==
    IF c.holdStart # NoTime THEN c.holdStart
    ELSE IF \E j \in StageId : win[j].opened /\ Stages[j].kind = "hold"
    THEN win[CHOOSE j \in StageId :
                /\ win[j].opened /\ Stages[j].kind = "hold"
                /\ \A m \in 1..(j - 1) : ~(win[m].opened /\ Stages[m].kind = "hold")].start
    ELSE NoTime

\* The controller after an advance that lands in k and leaves it for exit.
Moved(c, at, k, exit, limited) ==
    LET win == Rolled(c, at, k, exit, limited)
        over == exit = N + 1
        stop == IF k = N + 1 THEN OpensAt(c, N + 1) ELSE at
        left == IF exit = k THEN k - 1 ELSE k      \* the last stage left behind
    IN  [index     |-> IF ~over THEN exit ELSE IF k = N + 1 THEN N ELSE k,
         start     |-> IF over THEN stop ELSE IF exit = k THEN OpensAt(c, k) ELSE at,
         prevRate  |-> IF left < c.index THEN c.prevRate ELSE Stages[left].rate,
         prevCap   |-> IF left < c.index THEN c.prevCap ELSE Stages[left].cap,
         win       |-> win,
         holdStart |-> FirstHold(c, win),
         end       |-> IF over THEN stop ELSE NoTime,
         last      |-> IF over THEN stop ELSE at,
         limited   |-> IF over /\ left = c.index THEN c.limited ELSE limited]

Advance(at, inflight, limited) ==
    IF Done(ctl) THEN ctl' = ctl
    ELSE \E k \in ctl.index..(N + 1) :
            /\ Lands(ctl, at, k)
            /\ IF Capped(k, inflight)
               THEN \E h \in (k + 1)..(N + 1) :
                       NextHold(k, h) /\ ctl' = Moved(ctl, at, k, h, limited)
               ELSE ctl' = Moved(ctl, at, k, k, limited)

\* Mutant: abort leaves no end_reason.
AbortedSilently(c, at) ==
    IF Done(c) THEN c
    ELSE LET stop == IF at < Deadline(c) THEN at ELSE Deadline(c)
         IN  [c EXCEPT !.win[c.index].end = stop, !.end = stop]
\* abort(at): the open window ends now, or at its deadline if that has passed.
Aborted(c, at) ==
    IF Done(c) THEN c
    ELSE LET stop == IF at < Deadline(c) THEN at ELSE Deadline(c)
         IN  [c EXCEPT !.win[c.index].end = stop,
                       !.win[c.index].reason = "aborted",
                       !.end = stop]

-----------------------------------------------------------------------------
(* The controller alone, under every report its callers can make.          *)

Tick == now < Horizon /\ now' = now + 1 /\ UNCHANGED ctl

AdvanceAny ==
    /\ \E inflight \in 0..MaxLoad, limited \in BOOLEAN : Advance(now, inflight, limited)
    /\ UNCHANGED now

AbortAny == ctl' = Aborted(ctl, now) /\ UNCHANGED now

CtlNext == Tick \/ AdvanceAny \/ AbortAny

CtlSpec == CtlInit /\ [][CtlNext]_ctlVars

-----------------------------------------------------------------------------
(* The state the controller keeps has its type.                            *)
CtlTypeOK ==
    /\ now \in Nat
    /\ ctl \in [index : StageId, start : Nat, prevRate : Nat, prevCap : Nat \ {0},
                win : [StageId -> Windows], holdStart : Nat \cup {NoTime},
                end : Nat \cup {NoTime}, last : Nat, limited : BOOLEAN]

(* "cap feedback can shorten warmup, never the requested hold duration"    *)
(* (controller.py): a window closed as complete lasted exactly its planned *)
(* duration, unless it is a warmup that met its inflight cap.              *)
ExactStages ==
    \A j \in StageId :
        LET w == ctl.win[j]
        IN  w.complete => \/ w.end = w.start + Stages[j].dur
                          \/ /\ w.reason = "inflight_limit"
                             /\ Stages[j].kind = "warmup"
                             /\ w.end < w.start + Stages[j].dur

(* The windows of the stages really passed through follow each other with  *)
(* neither gap nor overlap, whatever was skipped or crossed in one call:   *)
(* every instant of the load belongs to exactly one half-open window, and  *)
(* the blocked time charged to a window (limited_s) fits into it.          *)
WindowsTile ==
    /\ \A i, j \in StageId :
        /\ i < j /\ ctl.win[i].opened /\ ctl.win[j].opened
        /\ \A m \in (i + 1)..(j - 1) : ~ctl.win[m].opened
        => ctl.win[i].end = ctl.win[j].start /\ ctl.win[i].complete
    /\ \A j \in StageId : ctl.win[j].limited <= ctl.win[j].end - ctl.win[j].start

(* A capped warmup jumps to the NEXT hold: no hold is ever jumped over or  *)
(* lost between two stages crossed by one late call.                       *)
NoHoldSkipped ==
    \A j \in 1..ctl.index : Stages[j].kind = "hold" => ctl.win[j].opened

(* A window once closed is history: no later call rewrites it, and once    *)
(* the load has ended nothing moves any more.                              *)
ClosedIsFinal ==
    [][/\ \A j \in StageId :
              ctl.win[j].complete => ctl'.win[j] = ctl.win[j]
       /\ Done(ctl) => ctl' = ctl]_ctlVars

(* Whatever advance() is told and however late it comes, what was measured *)
(* is the plan: windows of the planned length that tile the load, with     *)
(* every hold among them, and history that no later call rewrites.         *)
PlanKept == [](ExactStages /\ WindowsTile /\ NoHoldSkipped) /\ ClosedIsFinal

=============================================================================
