------------------------------ MODULE RateGate ------------------------------
(***************************************************************************)
(* The adaptive gate of one endpoint: RateGate of                          *)
(* eval_harness/schedule/ratelimit.py, as ReconcileEngine._attempt of      *)
(* schedule/reconcile.py drives it.                                        *)
(*                                                                         *)
(* A caller is one _attempt: up to Attempts producer calls, each under a   *)
(* slot of the gate.  The slots are guarded by an asyncio.Condition whose  *)
(* lock is first come, first served.  acquire sleeps through a pause WITH  *)
(* the lock, so that a caller that has finished cannot give its slot back  *)
(* before the pause is over.                                               *)
(*                                                                         *)
(* Time is kept as ticks left.  Producers are outside: they succeed, fail, *)
(* or are cut when the run is cancelled (and then let the cut through).    *)
(***************************************************************************)
EXTENDS Integers, Sequences, FiniteSets

CONSTANTS
    Callers,
    Attempts,               \* max_attempts, or provision_attempts
    Limit0, MinLimit, MaxLimit,
    Pause,                  \* pause_s, in ticks
    Backoff,                \* backoff_base, in ticks
    Nobody                  \* model value: the lock is free

ASSUME GateAssumption ==
    /\ Attempts \in Nat \ {0}
    /\ MinLimit \in Nat \ {0} /\ MaxLimit \in Nat /\ Limit0 \in MinLimit..MaxLimit
    /\ Pause \in Nat /\ Backoff \in Nat
    /\ Nobody \notin Callers /\ IsFiniteSet(Callers)

\* A fact of arithmetic, which types the growing backoff.
ASSUME PowersOfTwo == \A n \in 0..Attempts : 2^n \in Nat

VARIABLES
    limit, inflight, streak,    \* limit, _inflight, _ok_streak
    pause,                      \* ticks until _resume_at
    lock, queue,                \* the Condition's lock: who holds it, who waits
    at, timer,                  \* where each caller is; ticks left of its sleep
    calls, last,                \* calls made, and how the last one ended
    cut                         \* callers with a cancellation to receive

gateVars == <<limit, inflight, streak, pause>>
callVars == <<at, timer, calls, last>>
vars == <<gateVars, lock, queue, callVars, cut>>

-----------------------------------------------------------------------------
Ended == {"ok", "failed", "cut", "lost"}
Holding == {"calling", "backoff", "done", "lost"}  \* has counted in _inflight

Queued == {queue[i] : i \in DOMAIN queue}
\* A caller stands in the queue at most once.
Without(c) ==
    IF c \notin Queued THEN queue
    ELSE LET i == CHOOSE j \in DOMAIN queue : queue[j] = c
         IN  SubSeq(queue, 1, i - 1) \o SubSeq(queue, i + 1, Len(queue))

Init ==
    /\ limit = Limit0 /\ inflight = 0 /\ streak = 0 /\ pause = 0
    /\ lock = Nobody /\ queue = << >>
    /\ at = [c \in Callers |-> "ready"]
    /\ timer = [c \in Callers |-> 0]
    /\ calls = [c \in Callers |-> 0]
    /\ last = [c \in Callers |-> "none"]
    /\ cut = {}

-----------------------------------------------------------------------------
(* The lock.                                                               *)

\* async with self._cond, on the way in, on the way out, and after a wait:
\* only a lock that is not free suspends the caller.
AskLock(c) ==
    /\ at[c] \in {"ready", "notified", "done"} /\ c \notin Queued
    /\ lock # Nobody \/ queue # << >>
    /\ queue' = Append(queue, c)
    /\ UNCHANGED <<gateVars, lock, callVars, cut>>

\* c has the lock in hand: it was free, its turn has come, or a sleep is over.
Turn(c) ==
    \/ lock = c /\ timer[c] = 0
    \/ lock = Nobody /\ \A i \in DOMAIN queue : i = 1 => queue[i] = c

\* c uses its turn and leaves the lock to owner.
Locks(c, owner) ==
    /\ Turn(c)
    /\ queue' = IF c \in Queued THEN Tail(queue) ELSE queue
    /\ lock' = owner

\* acquire is deciding, before the loop or around it once more.
Acquiring(c) == at[c] \in {"ready", "notified", "pausing"} /\ c \notin cut

-----------------------------------------------------------------------------
(* acquire                                                                 *)

\* Mutant: a caller that slept does not look at the pause again.
PausedOnce(c) == pause > 0 /\ at[c] # "pausing"
Paused(c) == pause > 0

SleepWithLock(c) ==
    /\ Acquiring(c) /\ Paused(c)
    /\ Locks(c, c)
    /\ at' = [at EXCEPT ![c] = "pausing"]
    /\ timer' = [timer EXCEPT ![c] = pause]
    /\ UNCHANGED <<gateVars, calls, last, cut>>

\* The slot is taken and the producer called.
TakeSlot(c) ==
    /\ Acquiring(c) /\ ~Paused(c) /\ inflight < limit
    /\ Locks(c, Nobody)
    /\ inflight' = inflight + 1
    /\ at' = [at EXCEPT ![c] = "calling"]
    /\ calls' = [calls EXCEPT ![c] = @ + 1]
    /\ UNCHANGED <<limit, streak, pause, timer, last, cut>>

WaitForSlot(c) ==
    /\ Acquiring(c) /\ ~Paused(c) /\ inflight >= limit
    /\ Locks(c, Nobody)
    /\ at' = [at EXCEPT ![c] = "waiting"]
    /\ UNCHANGED <<gateVars, timer, calls, last, cut>>

-----------------------------------------------------------------------------
(* The producer, on_success and on_error.                                  *)

Succeeds(c) ==
    /\ at[c] = "calling" /\ c \notin cut
    /\ at' = [at EXCEPT ![c] = "done"]
    /\ last' = [last EXCEPT ![c] = "ok"]
    /\ LET grow == streak + 1 >= limit /\ limit < MaxLimit IN
         /\ limit' = IF grow THEN limit + 1 ELSE limit
         /\ streak' = IF grow THEN 0 ELSE streak + 1
    /\ UNCHANGED <<inflight, pause, lock, queue, timer, calls, cut>>

Halved(n) == IF n \div 2 < MinLimit THEN MinLimit ELSE n \div 2

\* With a backoff the caller sleeps before the finally, its slot in hand.
Fails(c) ==
    /\ at[c] = "calling" /\ c \notin cut
    /\ last' = [last EXCEPT ![c] = "error"]
    /\ limit' = Halved(limit) /\ streak' = 0 /\ pause' = Pause
    /\ LET sleeps == calls[c] < Attempts /\ Backoff > 0 IN
         /\ at' = [at EXCEPT ![c] = IF sleeps THEN "backoff" ELSE "done"]
         /\ timer' = [timer EXCEPT ![c] = IF sleeps THEN Backoff * 2^(calls[c] - 1) ELSE 0]
    /\ UNCHANGED <<inflight, lock, queue, calls, cut>>

BackedOff(c) ==
    /\ at[c] = "backoff" /\ timer[c] = 0 /\ c \notin cut
    /\ at' = [at EXCEPT ![c] = "done"]
    /\ UNCHANGED <<gateVars, lock, queue, timer, calls, last, cut>>

-----------------------------------------------------------------------------
(* release                                                                 *)

\* Mutant: another attempt is made whatever the last call gave.
AfterwardsAgain(c) ==
    IF last[c] = "cut" THEN "cut" ELSE IF calls[c] < Attempts THEN "ready" ELSE last[c]
\* Where _attempt goes once the slot is given back.
Afterwards(c) ==
    CASE last[c] = "ok" -> "ok"
      [] last[c] = "cut" -> "cut"
      [] last[c] = "error" -> IF calls[c] < Attempts THEN "ready" ELSE "failed"

\* Mutant: the slot is not given back.
FreedLeaking(n) == n
Freed(n) == IF n = 0 THEN 0 ELSE n - 1

\* Mutant: nobody is notified.
NotifyNone == {}
\* notify_all
Notified == {w \in Callers : at[w] = "waiting"}

GiveBack(c) ==
    /\ at[c] = "done" /\ c \notin cut
    /\ Locks(c, Nobody)
    /\ inflight' = Freed(inflight)
    /\ at' = [w \in Callers |-> IF w = c THEN Afterwards(c)
                                ELSE IF w \in Notified THEN "notified" ELSE at[w]]
    /\ UNCHANGED <<limit, streak, pause, timer, calls, last, cut>>

-----------------------------------------------------------------------------
(* The cancellation of the run: gather cancels every attempt once.         *)

Suspended(c) == at[c] \in {"ready", "done"} => c \in Queued \/ calls[c] = 0

CancelRun ==
    /\ cut = {} /\ \A c \in Callers : at[c] # "cut" /\ last[c] # "cut"
    /\ \A c \in Callers : Suspended(c)
    /\ cut' = {c \in Callers : at[c] \notin Ended}
    /\ cut' # {}
    /\ UNCHANGED <<gateVars, lock, queue, callVars>>

\* Cut while waiting for the lock or asleep with it: the attempt is over.  A
\* release that is cut while it waits for the lock never gives its slot back.
CutOutside(c) ==
    /\ c \in cut
    /\ \/ at[c] \in {"ready", "pausing"} /\ at' = [at EXCEPT ![c] = "cut"]
       \/ at[c] = "done" /\ c \in Queued /\ at' = [at EXCEPT ![c] = "lost"]
    /\ lock' = IF lock = c THEN Nobody ELSE lock
    /\ queue' = Without(c)
    /\ timer' = [timer EXCEPT ![c] = 0]
    /\ cut' = cut \ {c}
    /\ UNCHANGED <<gateVars, calls, last>>

\* Cut in cond.wait: it still takes the lock back before it leaves.
CutWaiting(c) ==
    /\ c \in cut
    /\ \/ at[c] = "waiting" /\ at' = [at EXCEPT ![c] = "notified"]
          /\ UNCHANGED <<lock, queue, cut>>
       \/ at[c] = "notified" /\ at' = [at EXCEPT ![c] = "cut"]
          /\ Locks(c, Nobody) /\ cut' = cut \ {c}
    /\ UNCHANGED <<gateVars, timer, calls, last>>

\* Cut in the producer or in its backoff: the finally releases the slot.
CutInside(c) ==
    /\ c \in cut /\ at[c] \in {"calling", "backoff"}
    /\ at' = [at EXCEPT ![c] = "done"]
    /\ last' = [last EXCEPT ![c] = "cut"]
    /\ timer' = [timer EXCEPT ![c] = 0]
    /\ cut' = cut \ {c}
    /\ UNCHANGED <<gateVars, lock, queue, calls>>

-----------------------------------------------------------------------------
Tick ==
    /\ pause > 0 \/ \E c \in Callers : timer[c] > 0
    /\ pause' = IF pause = 0 THEN 0 ELSE pause - 1
    /\ timer' = [c \in Callers |-> IF timer[c] = 0 THEN 0 ELSE timer[c] - 1]
    /\ UNCHANGED <<limit, inflight, streak, lock, queue, at, calls, last, cut>>

Own(c) == AskLock(c) \/ SleepWithLock(c) \/ TakeSlot(c) \/ WaitForSlot(c)
          \/ BackedOff(c) \/ GiveBack(c)
          \/ CutOutside(c) \/ CutWaiting(c) \/ CutInside(c)

Answers(c) == Succeeds(c) \/ Fails(c)

AllEnded == (\A c \in Callers : at[c] \in Ended) /\ UNCHANGED vars

Next == (\E c \in Callers : Own(c) \/ Answers(c)) \/ CancelRun \/ Tick \/ AllEnded

Spec == Init /\ [][Next]_vars

\* The loop runs what is ready, time passes, and every producer answers.
FairSpec == Spec /\ WF_vars(Tick) /\ \A c \in Callers : WF_vars(Own(c)) /\ WF_vars(Answers(c))

-----------------------------------------------------------------------------
TypeOK ==
    /\ limit \in MinLimit..MaxLimit /\ inflight \in Nat /\ streak \in Nat
    /\ pause \in 0..Pause
    /\ lock \in Callers \cup {Nobody} /\ queue \in Seq(Callers)
    /\ at \in [Callers -> Ended \cup {"ready", "pausing", "waiting", "notified",
                                      "calling", "backoff", "done"}]
    /\ timer \in [Callers -> Nat] /\ calls \in [Callers -> 0..Attempts]
    /\ last \in [Callers -> {"none", "ok", "error", "cut"}]
    /\ cut \subseteq Callers

(* _inflight counts the slots in use, one per caller between its acquire    *)
(* and its release; only a release cut while it waits for the lock (a       *)
(* caller that is "lost") takes a slot with it.                             *)
SlotsExact == inflight = Cardinality({c \in Callers : at[c] \in Holding})

(* No wake-up is lost although an error lowers the limit under the calls in *)
(* flight and successes raise it silently: whoever waits for a slot has a   *)
(* caller in front of it that still has a slot to give back, or is leaving. *)
WaitersHaveHope ==
    \A w \in Callers : at[w] = "waiting" =>
        w \in cut \/ \E c \in Callers : at[c] \in {"calling", "backoff", "done"}

(* Slots are counted exactly and no waiter is forgotten, whoever fails, is  *)
(* cut or sleeps with the lock.                                             *)
GateSound == TypeOK /\ SlotsExact /\ WaitersHaveHope

(* While an error's pause lasts, or more calls are in flight than the       *)
(* lowered limit, no call starts, whoever had asked or slept before.        *)
NoCallWhileBackingOff ==
    [][\A c \in Callers : calls'[c] > calls[c] => pause = 0 /\ inflight' <= limit]_vars

(* Every attempt comes to an end: it returns, gives up or is cut.           *)
AttemptsEnd == \A c \in Callers : <>(at[c] \in Ended)

Retry == INSTANCE BoundedRetry WITH
    busy <- {c \in Callers : at[c] = "calling"},
    good <- {c \in Callers : last[c] = "ok"},
    outcome <- [c \in Callers |-> CASE at[c] \in {"ok", "failed", "cut"} -> at[c]
                                    [] at[c] = "lost" -> "cut"
                                    [] OTHER -> "open"]

(* A gated attempt implements BoundedRetry: at most Attempts calls, none    *)
(* after a success, never more than MaxLimit calls at once.                 *)
RetriesBounded == Retry!RetrySpec

(* Retries are bounded, and none starts while the gate backs off.           *)
RetriesPaced == RetriesBounded /\ NoCallWhileBackingOff

=============================================================================
