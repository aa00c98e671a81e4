--------------------------- MODULE RateGate_proofs ---------------------------
(***************************************************************************)
(* The safety of the rate gate, for any callers, limits and attempts: its  *)
(* slots are counted exactly, no waiter is forgotten, and what it does for *)
(* a caller is a bounded retry.                                            *)
(***************************************************************************)
EXTENDS RateGate, FiniteSetTheorems, SequenceTheorems, TLAPS

CallPlaces == Ended \cup {"ready", "pausing", "waiting", "notified", "calling", "backoff", "done"}

Holders == {c \in Callers : at[c] \in Holding}

\* A caller that has a call to make has attempts left and no success behind
\* it; one that calls made one of them.
AttemptsLeft ==
    \A c \in Callers :
        /\ at[c] \in {"ready", "pausing", "waiting", "notified"} =>
              calls[c] < Attempts /\ last[c] \in {"none", "error"}
        /\ at[c] = "calling" => calls[c] > 0 /\ last[c] \in {"none", "error"}
        /\ at[c] = "backoff" => last[c] = "error"
        /\ at[c] = "done" => last[c] # "none"

\* The run has been cancelled.
Fired ==
    cut # {} \/ \E c \in Callers : at[c] \in {"cut", "lost"} \/ last[c] = "cut"

\* From then on, whoever has not ended still has its cancellation to receive,
\* or gives its slot back because of it.
CutReachesAll ==
    Fired => \A c \in Callers :
        at[c] \in Ended \/ c \in cut \/ (at[c] = "done" /\ last[c] = "cut")

GateInv == GateSound /\ AttemptsLeft /\ CutReachesAll

-----------------------------------------------------------------------------
(* The helpers of the model.                                               *)

LEMMA HalvedType ==
    ASSUME NEW n \in MinLimit..MaxLimit PROVE Halved(n) \in MinLimit..MaxLimit
BY GateAssumption DEF Halved

\* Removing a caller from the queue leaves a queue of the others.
LEMMA WithoutType ==
    ASSUME queue \in Seq(Callers), NEW c PROVE Without(c) \in Seq(Callers)
<1>1. CASE c \in Queued
  <2> DEFINE i == CHOOSE j \in DOMAIN queue : queue[j] = c
  <2>1. i \in 1..Len(queue) /\ Len(queue) \in Nat
    BY <1>1 DEF Queued
  <2>2. \A j \in 1..Len(queue) : queue[j] \in Callers
    OBVIOUS
  <2> HIDE DEF i
  <2>3. SubSeq(queue, 1, i - 1) \in Seq(Callers)
    BY <2>1, <2>2, SubSeqProperties
  <2>4. SubSeq(queue, i + 1, Len(queue)) \in Seq(Callers)
    BY <2>1, <2>2, SubSeqProperties
  <2>5. SubSeq(queue, 1, i - 1) \o SubSeq(queue, i + 1, Len(queue)) \in Seq(Callers)
    BY <2>3, <2>4, ConcatProperties
  <2> QED BY <1>1, <2>5 DEF Without, i
<1>2. CASE c \notin Queued
  BY <1>2 DEF Without
<1> QED BY <1>1, <1>2

\* The lock goes to the head of its queue.
LEMMA LocksType ==
    ASSUME TypeOK, NEW c \in Callers, NEW owner \in Callers \cup {Nobody}, Locks(c, owner)
    PROVE  queue' \in Seq(Callers) /\ lock' \in Callers \cup {Nobody}
<1>1. c \in Queued => queue # << >>
  BY DEF Queued
<1>2. queue # << >> => Tail(queue) \in Seq(Callers)
  BY DEF TypeOK
<1> QED BY <1>1, <1>2 DEF Locks, TypeOK

(* What happens to the count of slots when callers move.                   *)
LEMMA HoldersCounted ==
    ASSUME TypeOK
    PROVE  /\ IsFiniteSet(Holders) /\ Cardinality(Holders) \in Nat
           /\ \A c \in Callers \ Holders : Cardinality(Holders \cup {c}) = Cardinality(Holders) + 1
           /\ \A c \in Holders : Cardinality(Holders \ {c}) = Cardinality(Holders) - 1
           /\ Cardinality(Holders) > 0 => Holders # {}
<1>1. IsFiniteSet(Holders)
  BY GateAssumption, FS_Subset DEF Holders
<1>2. Cardinality(Holders) \in Nat /\ (Cardinality(Holders) > 0 => Holders # {})
  <2>1. Cardinality(Holders) \in Nat /\ (Cardinality(Holders) = 0 <=> Holders = {})
    BY <1>1, FS_EmptySet, FS_CardinalityType
  <2> QED BY <2>1
<1>3. \A c \in Callers \ Holders : Cardinality(Holders \cup {c}) = Cardinality(Holders) + 1
  BY <1>1, FS_AddElement
<1>4. \A c \in Holders : Cardinality(Holders \ {c}) = Cardinality(Holders) - 1
  BY <1>1, FS_RemoveElement
<1> QED BY <1>1, <1>2, <1>3, <1>4

-----------------------------------------------------------------------------
(* The initial state, and the step of the whole loop.                      *)

LEMMA GateStarts == Init => GateInv
<1> SUFFICES ASSUME Init PROVE GateInv
  OBVIOUS
<1>1. TypeOK
  BY GateAssumption DEF Init, TypeOK
<1>2. {c \in Callers : at[c] \in Holding} = {}
  BY DEF Init, Holding
<1>3. SlotsExact
  BY <1>2, FS_EmptySet DEF Init, SlotsExact
<1> QED BY <1>1, <1>3, GateAssumption DEF Init, GateInv, GateSound, WaitersHaveHope, AttemptsLeft,
                                         CutReachesAll, Fired

Step == (\E c \in Callers : Own(c) \/ Answers(c)) \/ CancelRun \/ Tick \/ UNCHANGED vars

\* The next-state relation, by who takes the step.
LEMMA StepIsNext == [Next]_vars <=> Step
BY Zenon DEF Next, Step, AllEnded

(* Every step keeps the types.                                             *)
LEMMA TypeKept == ASSUME TypeOK, AttemptsLeft, Step PROVE TypeOK'
<1> USE DEF CallPlaces, Ended
<1>1. ASSUME NEW c \in Callers, AskLock(c) PROVE TypeOK'
  BY <1>1 DEF AskLock, TypeOK, gateVars, callVars
<1>2. ASSUME NEW c \in Callers, SleepWithLock(c) PROVE TypeOK'
  <2>1. queue' \in Seq(Callers) /\ lock' \in Callers \cup {Nobody} /\ pause \in Nat
    BY <1>2, LocksType, GateAssumption DEF SleepWithLock, TypeOK
  <2> QED BY <1>2, <2>1 DEF SleepWithLock, TypeOK, gateVars
<1>3. ASSUME NEW c \in Callers, TakeSlot(c) PROVE TypeOK'
  <2>1. queue' \in Seq(Callers) /\ lock' \in Callers \cup {Nobody}
    BY <1>3, LocksType DEF TakeSlot
  <2>2. calls[c] \in 0..Attempts /\ calls[c] < Attempts
    BY <1>3 DEF TakeSlot, Acquiring, AttemptsLeft, TypeOK
  <2>3. calls[c] + 1 \in 0..Attempts
    BY <2>2, GateAssumption
  <2> QED BY <1>3, <2>1, <2>3 DEF TakeSlot, TypeOK
<1>4. ASSUME NEW c \in Callers, WaitForSlot(c) PROVE TypeOK'
  <2>1. queue' \in Seq(Callers) /\ lock' \in Callers \cup {Nobody}
    BY <1>4, LocksType DEF WaitForSlot
  <2> QED BY <1>4, <2>1 DEF WaitForSlot, TypeOK, gateVars
<1>5. ASSUME NEW c \in Callers, BackedOff(c) PROVE TypeOK'
  BY <1>5 DEF BackedOff, TypeOK, gateVars
<1>6. ASSUME NEW c \in Callers, GiveBack(c) PROVE TypeOK'
  <2>1. queue' \in Seq(Callers) /\ lock' \in Callers \cup {Nobody}
    BY <1>6, LocksType DEF GiveBack
  <2>2. Freed(inflight) \in Nat
    BY DEF Freed, TypeOK
  <2>3. Afterwards(c) \in CallPlaces
    BY <1>6 DEF Afterwards, GiveBack, AttemptsLeft, TypeOK
  <2> QED BY <1>6, <2>1, <2>2, <2>3 DEF GiveBack, TypeOK
<1>7. ASSUME NEW c \in Callers, CutOutside(c) PROVE TypeOK'
  <2>1. queue' \in Seq(Callers)
    BY <1>7, WithoutType DEF CutOutside, TypeOK
  <2> QED BY <1>7, <2>1 DEF CutOutside, TypeOK, gateVars
<1>8. ASSUME NEW c \in Callers, CutWaiting(c) PROVE TypeOK'
  <2>1. at[c] = "notified" => queue' \in Seq(Callers) /\ lock' \in Callers \cup {Nobody}
    BY <1>8, LocksType DEF CutWaiting
  <2> QED BY <1>8, <2>1 DEF CutWaiting, TypeOK, gateVars
<1>9. ASSUME NEW c \in Callers, CutInside(c) PROVE TypeOK'
  BY <1>9 DEF CutInside, TypeOK, gateVars
<1>10. ASSUME NEW c \in Callers, Succeeds(c) PROVE TypeOK'
  <2>1. limit' \in MinLimit..MaxLimit /\ streak' \in Nat
    BY <1>10, GateAssumption DEF Succeeds, TypeOK
  <2> QED BY <1>10, <2>1 DEF Succeeds, TypeOK
<1>11. ASSUME NEW c \in Callers, Fails(c) PROVE TypeOK'
  <2>1. limit' \in MinLimit..MaxLimit
    BY <1>11, HalvedType DEF Fails, TypeOK
  <2>2. streak' \in Nat /\ pause' \in 0..Pause
    BY <1>11, GateAssumption DEF Fails
  <2>3. calls[c] \in 0..Attempts /\ calls[c] > 0
    BY <1>11 DEF Fails, AttemptsLeft, TypeOK
  <2>4. 2^(calls[c] - 1) \in Nat
    <3>1. calls[c] - 1 \in 0..Attempts
      BY <2>3, GateAssumption
    <3> QED BY <3>1, PowersOfTwo
  <2>5. Backoff * 2^(calls[c] - 1) \in Nat
    BY <2>4, GateAssumption
  <2>6. timer' \in [Callers -> Nat]
    BY <1>11, <2>5 DEF Fails, TypeOK
  <2> QED BY <1>11, <2>1, <2>2, <2>6 DEF Fails, TypeOK
<1>12. CASE CancelRun
  BY <1>12 DEF CancelRun, TypeOK, gateVars, callVars
<1>13. CASE Tick
  <2>1. pause' \in 0..Pause
    BY <1>13, GateAssumption DEF Tick, TypeOK
  <2>2. timer' \in [Callers -> Nat]
    BY <1>13 DEF Tick, TypeOK
  <2> QED BY <1>13, <2>1, <2>2 DEF Tick, TypeOK
<1>14. CASE UNCHANGED vars
  BY <1>14 DEF TypeOK, vars, gateVars, callVars
<1> QED BY <1>1, <1>2, <1>3, <1>4, <1>5, <1>6, <1>7, <1>8, <1>9, <1>10, <1>11, <1>12, <1>13, <1>14
        DEF Step, Own, Answers

(* The callers that wait for their turn, are given one, or leave.          *)
LEMMA MovesOf ==
    ASSUME TypeOK, Step
    PROVE  \/ UNCHANGED <<at, calls, last, inflight>>
           \/ \E c \in Callers :
                /\ c \notin cut /\ at[c] \in {"ready", "notified", "pausing"}
                /\ at' \in {[at EXCEPT ![c] = "pausing"], [at EXCEPT ![c] = "waiting"]}
                /\ (at'[c] = "waiting" => inflight >= limit)
                /\ UNCHANGED <<calls, last, inflight, cut>>
           \/ \E c \in Callers : TakeSlot(c) \/ Succeeds(c) \/ Fails(c) \/ BackedOff(c) \/ GiveBack(c)
           \/ \E c \in Callers : CutOutside(c) \/ CutWaiting(c) \/ CutInside(c)
<1>1. ASSUME NEW c \in Callers, SleepWithLock(c) \/ WaitForSlot(c)
      PROVE  /\ c \notin cut /\ at[c] \in {"ready", "notified", "pausing"}
             /\ at' \in {[at EXCEPT ![c] = "pausing"], [at EXCEPT ![c] = "waiting"]}
             /\ (at'[c] = "waiting" => inflight >= limit)
             /\ UNCHANGED <<calls, last, inflight, cut>>
  BY <1>1 DEF SleepWithLock, WaitForSlot, Acquiring, TypeOK, gateVars
<1>2. ASSUME NEW c \in Callers, AskLock(c) PROVE UNCHANGED <<at, calls, last, inflight>>
  BY <1>2 DEF AskLock, callVars, gateVars
<1>3. CancelRun \/ Tick \/ UNCHANGED vars => UNCHANGED <<at, calls, last, inflight>>
  BY DEF CancelRun, Tick, vars, callVars, gateVars
<1> QED BY <1>1, <1>2, <1>3 DEF Step, Own, Answers

(* Every step keeps the attempts' account.                                 *)
LEMMA AttemptsKept == ASSUME TypeOK, AttemptsLeft, Step PROVE AttemptsLeft'
<1>1. CASE UNCHANGED <<at, calls, last>>
  BY <1>1 DEF AttemptsLeft
<1>2. ASSUME NEW c \in Callers, at[c] \in {"ready", "notified", "pausing"},
             at' \in {[at EXCEPT ![c] = "pausing"], [at EXCEPT ![c] = "waiting"]}, UNCHANGED <<calls, last>>
      PROVE  AttemptsLeft'
  BY <1>2 DEF AttemptsLeft, TypeOK
<1>3. ASSUME NEW c \in Callers, TakeSlot(c) PROVE AttemptsLeft'
  BY <1>3 DEF TakeSlot, Acquiring, AttemptsLeft, TypeOK
<1>4. ASSUME NEW c \in Callers, Succeeds(c) PROVE AttemptsLeft'
  BY <1>4 DEF Succeeds, AttemptsLeft, TypeOK
<1>5. ASSUME NEW c \in Callers, Fails(c) PROVE AttemptsLeft'
  BY <1>5 DEF Fails, AttemptsLeft, TypeOK
<1>6. ASSUME NEW c \in Callers, BackedOff(c) PROVE AttemptsLeft'
  BY <1>6 DEF BackedOff, AttemptsLeft, TypeOK
<1>7. ASSUME NEW c \in Callers, GiveBack(c) PROVE AttemptsLeft'
  <2>1. last[c] \in {"ok", "error", "cut"} /\ at[c] = "done" /\ UNCHANGED <<calls, last>>
    BY <1>7 DEF GiveBack, AttemptsLeft, TypeOK
  <2>2. /\ Afterwards(c) \in {"ok", "failed", "cut", "ready"}
        /\ Afterwards(c) = "ready" => last[c] = "error" /\ calls[c] < Attempts
    BY <2>1 DEF Afterwards
  <2>3. at'[c] = Afterwards(c)
        /\ \A w \in Callers \ {c} : at'[w] = at[w] \/ (at[w] = "waiting" /\ at'[w] = "notified")
    BY <1>7 DEF GiveBack, Notified
  <2> QED BY <2>1, <2>2, <2>3 DEF AttemptsLeft
<1>8. ASSUME NEW c \in Callers, CutOutside(c) \/ CutWaiting(c) PROVE AttemptsLeft'
  <2>1. UNCHANGED <<calls, last>>
    BY <1>8 DEF CutOutside, CutWaiting
  <2>2. \/ at' = [at EXCEPT ![c] = "cut"] \/ at' = [at EXCEPT ![c] = "lost"]
        \/ at[c] = "waiting" /\ at' = [at EXCEPT ![c] = "notified"]
    BY <1>8 DEF CutOutside, CutWaiting
  <2> QED BY <2>1, <2>2 DEF AttemptsLeft, TypeOK
<1>9. ASSUME NEW c \in Callers, CutInside(c) PROVE AttemptsLeft'
  BY <1>9 DEF CutInside, AttemptsLeft, TypeOK
<1> QED BY <1>1, <1>2, <1>3, <1>4, <1>5, <1>6, <1>7, <1>8, <1>9, MovesOf

(* Every step keeps the count of slots.                                    *)
LEMMA SlotsKept == ASSUME GateInv, Step PROVE SlotsExact'
<1> USE DEF GateInv, GateSound
<1>0. SlotsExact <=> inflight = Cardinality(Holders)
  BY DEF SlotsExact, Holders
<1>00. SlotsExact' <=> inflight' = Cardinality(Holders')
  BY DEF SlotsExact, Holders
<1>1. CASE UNCHANGED inflight /\ Holders' = Holders
  BY <1>0, <1>00, <1>1
<1>2. CASE UNCHANGED <<at, calls, last, inflight>>
  BY <1>1, <1>2 DEF Holders
<1>3. ASSUME NEW c \in Callers, at[c] \in {"ready", "notified", "pausing"}, UNCHANGED inflight,
             at' \in {[at EXCEPT ![c] = "pausing"], [at EXCEPT ![c] = "waiting"]}
      PROVE  SlotsExact'
  BY <1>1, <1>3 DEF Holders, Holding, TypeOK
<1>4. ASSUME NEW c \in Callers, TakeSlot(c) PROVE SlotsExact'
  <2>1. inflight' = inflight + 1 /\ at[c] \notin Holding /\ at' = [at EXCEPT ![c] = "calling"]
    BY <1>4 DEF TakeSlot, Acquiring, Holding
  <2>2. Holders' = Holders \cup {c} /\ c \notin Holders
    BY <2>1 DEF Holders, Holding, TypeOK
  <2> QED BY <1>0, <1>00, <2>1, <2>2, HoldersCounted
<1>5. ASSUME NEW c \in Callers, Succeeds(c) \/ Fails(c) \/ BackedOff(c) PROVE SlotsExact'
  <2>1. UNCHANGED inflight /\ at[c] \in {"calling", "backoff"}
        /\ (at' = [at EXCEPT ![c] = "done"] \/ at' = [at EXCEPT ![c] = "backoff"])
    BY <1>5 DEF Succeeds, Fails, BackedOff, gateVars
  <2> QED BY <1>1, <2>1 DEF Holders, Holding, TypeOK
<1>6. ASSUME NEW c \in Callers, GiveBack(c) PROVE SlotsExact'
  <2>1. /\ inflight' = Freed(inflight) /\ at[c] = "done" /\ last[c] \in {"ok", "error", "cut"}
        /\ \A w \in Callers \ {c} : at'[w] = at[w] \/ (at[w] = "waiting" /\ at'[w] = "notified")
        /\ at'[c] = Afterwards(c)
    BY <1>6 DEF GiveBack, Notified, AttemptsLeft, TypeOK
  <2>2. Afterwards(c) \in {"ok", "failed", "cut", "ready"}
    BY <2>1 DEF Afterwards
  <2>3. Holders' = Holders \ {c} /\ c \in Holders
    BY <2>1, <2>2 DEF Holders, Holding
  <2>4. inflight' = inflight - 1
    BY <1>0, <2>1, <2>3, HoldersCounted, FS_EmptySet DEF Freed
  <2> QED BY <1>0, <1>00, <2>3, <2>4, HoldersCounted
<1>7. ASSUME NEW c \in Callers, CutOutside(c) \/ CutWaiting(c) \/ CutInside(c) PROVE SlotsExact'
  <2>1. UNCHANGED inflight
    BY <1>7 DEF CutOutside, CutWaiting, CutInside, gateVars
  <2>2. \/ at[c] \in {"ready", "pausing", "notified"} /\ at' = [at EXCEPT ![c] = "cut"]
        \/ at[c] = "done" /\ at' = [at EXCEPT ![c] = "lost"]
        \/ at[c] = "waiting" /\ at' = [at EXCEPT ![c] = "notified"]
        \/ at[c] \in {"calling", "backoff"} /\ at' = [at EXCEPT ![c] = "done"]
    BY <1>7 DEF CutOutside, CutWaiting, CutInside
  <2> QED BY <1>1, <2>1, <2>2 DEF Holders, Holding, TypeOK
<1> QED BY <1>2, <1>3, <1>4, <1>5, <1>6, <1>7, MovesOf

(* A cancelled run reaches everybody, and the gate forgets nobody.         *)
LEMMA CutKept == ASSUME GateInv, Step PROVE CutReachesAll'
<1> USE DEF GateInv, GateSound
<1>1. ASSUME NEW c \in Callers, c \notin cut, at[c] \notin Ended, at[c] # "done" PROVE ~Fired
  BY <1>1 DEF CutReachesAll
<1>2. ASSUME NEW c \in Callers,
             SleepWithLock(c) \/ WaitForSlot(c) \/ TakeSlot(c) \/ Succeeds(c) \/ Fails(c) \/ BackedOff(c)
      PROVE  CutReachesAll'
  <2>1. c \notin cut /\ at[c] \notin Ended /\ at[c] # "done" /\ UNCHANGED cut
    BY <1>2 DEF SleepWithLock, WaitForSlot, TakeSlot, Succeeds, Fails, BackedOff, Acquiring, Ended
  <2>2. cut = {} /\ \A d \in Callers : at[d] \notin {"cut", "lost"} /\ last[d] # "cut"
    BY <1>1, <2>1 DEF Fired
  <2>3. \A d \in Callers : at'[d] \notin {"cut", "lost"} /\ last'[d] # "cut"
    BY <1>2, <2>2 DEF SleepWithLock, WaitForSlot, TakeSlot, Succeeds, Fails, BackedOff, TypeOK
  <2> QED BY <2>1, <2>2, <2>3 DEF CutReachesAll, Fired
<1>3. ASSUME NEW c \in Callers, GiveBack(c) PROVE CutReachesAll'
  <2>1. /\ at[c] = "done" /\ c \notin cut /\ UNCHANGED <<cut, last>> /\ last[c] \in {"ok", "error", "cut"}
        /\ \A w \in Callers \ {c} : at'[w] = at[w] \/ (at[w] = "waiting" /\ at'[w] = "notified")
        /\ at'[c] = Afterwards(c)
    BY <1>3 DEF GiveBack, Notified, AttemptsLeft, TypeOK
  <2>2. /\ Afterwards(c) \in {"ok", "failed", "cut", "ready"}
        /\ Afterwards(c) = "cut" <=> last[c] = "cut"
    BY <2>1 DEF Afterwards
  <2>3. Fired' => Fired
    BY <2>1, <2>2 DEF Fired
  <2>4. Fired => last[c] = "cut"
    BY <2>1 DEF CutReachesAll, Ended
  <2> QED BY <2>1, <2>2, <2>3, <2>4 DEF CutReachesAll, Ended
<1>4. CASE CancelRun
  BY <1>4 DEF CancelRun, callVars, CutReachesAll, Ended
<1>5. ASSUME NEW c \in Callers, CutOutside(c) \/ CutWaiting(c) \/ CutInside(c) PROVE CutReachesAll'
  <2>1. c \in cut /\ \A d \in Callers \ {c} : at'[d] = at[d] /\ last'[d] = last[d] /\ (d \in cut => d \in cut')
    BY <1>5 DEF CutOutside, CutWaiting, CutInside, TypeOK
  <2>2. \/ at'[c] \in {"cut", "lost"}
        \/ c \in cut'
        \/ at'[c] = "done" /\ last'[c] = "cut"
    BY <1>5 DEF CutOutside, CutWaiting, CutInside, TypeOK
  <2> QED BY <2>1, <2>2 DEF CutReachesAll, Fired, Ended
<1>6. ASSUME UNCHANGED <<at, last, cut>> PROVE CutReachesAll'
  BY <1>6 DEF CutReachesAll, Fired
<1> QED BY <1>2, <1>3, <1>4, <1>5, <1>6 DEF Step, Own, Answers, AskLock, Tick, vars, callVars

\* Every step keeps a hope for whoever waits.
LEMMA HopeKept == ASSUME GateInv, Step PROVE WaitersHaveHope'
<1> USE DEF GateInv, GateSound
<1> DEFINE Hope == {"calling", "backoff", "done"}
<1>1. CASE UNCHANGED <<at, cut>> \/ CancelRun
  BY <1>1 DEF CancelRun, callVars, WaitersHaveHope
<1>2. ASSUME NEW c \in Callers, WaitForSlot(c) PROVE WaitersHaveHope'
  <2>1. /\ c \notin cut /\ at[c] \in {"ready", "notified", "pausing"} /\ UNCHANGED cut
        /\ inflight >= limit /\ at' = [at EXCEPT ![c] = "waiting"]
    BY <1>2 DEF WaitForSlot, Acquiring
  <2>2. ~Fired
    BY <2>1 DEF CutReachesAll, Ended
  <2>3. inflight > 0 /\ inflight = Cardinality(Holders)
    BY <2>1, GateAssumption DEF TypeOK, SlotsExact, Holders
  <2>4. PICK d \in Holders : TRUE
    BY <2>3, HoldersCounted
  <2>5. at[d] \in Hope /\ d \in Callers
    BY <2>2 DEF Holders, Holding, Fired
  <2>6. at'[d] \in Hope
    BY <2>1, <2>5 DEF TypeOK
  <2> QED BY <2>5, <2>6 DEF WaitersHaveHope
<1>3. ASSUME NEW c \in Callers,
             SleepWithLock(c) \/ TakeSlot(c) \/ Succeeds(c) \/ Fails(c) \/ BackedOff(c) \/ CutInside(c)
      PROVE  WaitersHaveHope'
  <2>1. at[c] \in Hope => at'[c] \in Hope
    BY <1>3 DEF SleepWithLock, TakeSlot, Succeeds, Fails, BackedOff, CutInside, Acquiring, TypeOK
  <2>2. at'[c] # "waiting" /\ \A d \in Callers \ {c} : at'[d] = at[d] /\ (d \in cut => d \in cut')
    BY <1>3 DEF SleepWithLock, TakeSlot, Succeeds, Fails, BackedOff, CutInside, TypeOK
  <2> QED BY <2>1, <2>2 DEF WaitersHaveHope
<1>4. ASSUME NEW c \in Callers, GiveBack(c) PROVE WaitersHaveHope'
  <2>1. last[c] \in {"ok", "error", "cut"} /\ at'[c] = Afterwards(c)
        /\ \A w \in Callers \ {c} : at'[w] # "waiting"
    BY <1>4 DEF GiveBack, Notified, AttemptsLeft, TypeOK
  <2>2. Afterwards(c) # "waiting"
    BY <2>1 DEF Afterwards
  <2> QED BY <2>1, <2>2 DEF WaitersHaveHope
<1>5. ASSUME NEW c \in Callers, CutOutside(c) \/ CutWaiting(c) PROVE WaitersHaveHope'
  <2>1. Fired /\ c \in cut /\ at'[c] # "waiting"
        /\ \A d \in Callers \ {c} : at'[d] = at[d] /\ (d \in cut => d \in cut')
    BY <1>5 DEF CutOutside, CutWaiting, Fired, TypeOK
  <2>2. \A d \in Callers : at[d] = "waiting" => d \in cut
    BY <2>1 DEF CutReachesAll, Ended
  <2> QED BY <2>1, <2>2 DEF WaitersHaveHope
<1> QED BY <1>1, <1>2, <1>3, <1>4, <1>5 DEF Step, Own, Answers, AskLock, Tick, vars, callVars

\* The invariant is inductive.
LEMMA GateStep == GateInv /\ [Next]_vars => GateInv'
BY StepIsNext, TypeKept, AttemptsKept, SlotsKept, CutKept, HopeKept DEF GateInv, GateSound

\* The inductive invariant of the rate gate (RateGate.acquire, release and
\* backoff): its slots, its waiters, and what a cancellation still owes.
THEOREM GateInvariant == Spec => []GateInv
<1> QED BY GateStarts, GateStep, PTL DEF Spec

\* For any callers, limits and attempts: the slots in use are exactly the
\* callers that hold one, and no waiter is left without somebody who still
\* has a slot to give back, or a cancellation of its own (RateGate.acquire
\* and release).
THEOREM GateIsSound == Spec => []GateSound
<1>1. GateInv => GateSound
  BY DEF GateInv
<1> QED BY GateInvariant, <1>1, PTL

-----------------------------------------------------------------------------
(* A gated attempt implements BoundedRetry.                                *)

Busy == {c \in Callers : at[c] = "calling"}
Good == {c \in Callers : last[c] = "ok"}
Outcome == [c \in Callers |-> CASE at[c] \in {"ok", "failed", "cut"} -> at[c]
                                [] at[c] = "lost" -> "cut"
                                [] OTHER -> "open"]

\* An outcome, by the caller's place.
LEMMA OutcomeOf ==
    ASSUME NEW c \in Callers
    PROVE  /\ at[c] \in {"ok", "failed", "cut"} => Outcome[c] = at[c]
           /\ at[c] = "lost" => Outcome[c] = "cut"
           /\ at[c] \notin {"ok", "failed", "cut", "lost"} => Outcome[c] = "open"
<1>1. "lost" \notin {"ok", "failed", "cut"}
  OBVIOUS
<1> QED BY <1>1, Zenon DEF Outcome

\* A caller's outcome follows its place alone.
LEMMA OutcomeSame ==
    ASSUME \A c \in Callers : at'[c] = at[c] \/ {at[c], at'[c]} \cap {"ok", "failed", "cut", "lost"} = {}
    PROVE  Outcome' = Outcome
<1>1. ASSUME NEW c \in Callers PROVE Outcome'[c] = Outcome[c]
  BY Zenon DEF Outcome
<1> QED BY <1>1 DEF Outcome

\* The outcome of a caller that moves, the others standing still.
LEMMA OutcomeMoves ==
    ASSUME NEW c \in Callers, NEW o, Outcome'[c] = o,
           \A d \in Callers \ {c} :
               at'[d] = at[d] \/ {at[d], at'[d]} \cap {"ok", "failed", "cut", "lost"} = {}
    PROVE  Outcome' = [Outcome EXCEPT ![c] = o]
<1>1. ASSUME NEW d \in Callers, d # c PROVE Outcome'[d] = Outcome[d]
  BY <1>1, Zenon DEF Outcome
<1> QED BY <1>1 DEF Outcome

(* The initial state is one of BoundedRetry's.                             *)
LEMMA RetryStarts == Init => Retry!RetryInit
BY DEF Init, Retry!RetryInit

\* The actions of BoundedRetry, in the words of this module.
LEMMA RetryStartCall ==
    ASSUME NEW c \in Callers,
           Outcome[c] = "open", c \notin Busy \cup Good,
           calls[c] < Attempts, Cardinality(Busy) < MaxLimit,
           calls' = [calls EXCEPT ![c] = @ + 1], Busy' = Busy \cup {c}, UNCHANGED <<Good, Outcome>>
    PROVE  Retry!StartCall(c)
<1>1. \A S : Retry!Cardinality(S) = Cardinality(S)
  BY DEF Retry!Cardinality, Cardinality
<1> QED BY <1>1, Zenon DEF Retry!StartCall, Busy, Good, Outcome

\* A call that ends, to BoundedRetry.
LEMMA RetryEndCall ==
    ASSUME NEW c \in Callers,
           c \in Busy, Busy' = Busy \ {c}, Good' \in {Good, Good \cup {c}}, UNCHANGED <<calls, Outcome>>
    PROVE  Retry!EndCall(c)
BY Zenon DEF Retry!EndCall, Busy, Good, Outcome

\* An outcome that is reached, to BoundedRetry.
LEMMA RetryConclude ==
    ASSUME NEW c \in Callers,
           Outcome[c] = "open", c \notin Busy,
           \/ c \in Good /\ Outcome' = [Outcome EXCEPT ![c] = "ok"]
           \/ c \notin Good /\ calls[c] = Attempts /\ Outcome' = [Outcome EXCEPT ![c] = "failed"]
           \/ Outcome' = [Outcome EXCEPT ![c] = "cut"],
           UNCHANGED <<calls, Busy, Good>>
    PROVE  Retry!Conclude(c)
<1>1. CASE c \in Good /\ Outcome' = [Outcome EXCEPT ![c] = "ok"]
  BY <1>1, Zenon DEF Retry!Conclude, Busy, Good, Outcome
<1>2. CASE c \notin Good /\ calls[c] = Attempts /\ Outcome' = [Outcome EXCEPT ![c] = "failed"]
  BY <1>2, Zenon DEF Retry!Conclude, Busy, Good, Outcome
<1>3. CASE Outcome' = [Outcome EXCEPT ![c] = "cut"]
  BY <1>3, Zenon DEF Retry!Conclude, Busy, Good, Outcome
<1> QED BY <1>1, <1>2, <1>3

\* What BoundedRetry sees of a step.
RetryStutters == UNCHANGED <<calls, Busy, Good, Outcome>>

\* Every step of the gate is one of BoundedRetry or changes nothing of it.
LEMMA RetryStep ==
    ASSUME GateInv, Step
    PROVE  [Retry!RetryNext]_(Retry!retryVars)
<1> USE DEF GateInv, GateSound
<1>1. ASSUME RetryStutters PROVE [Retry!RetryNext]_(Retry!retryVars)
  BY <1>1 DEF RetryStutters, Busy, Good, Outcome, Retry!retryVars
<1>2. ASSUME NEW c \in Callers,
             \/ /\ Outcome[c] = "open" /\ c \notin Busy \cup Good /\ calls[c] < Attempts
                /\ Cardinality(Busy) < MaxLimit
                /\ calls' = [calls EXCEPT ![c] = @ + 1] /\ Busy' = Busy \cup {c}
                /\ UNCHANGED <<Good, Outcome>>
             \/ /\ c \in Busy /\ Busy' = Busy \ {c} /\ Good' \in {Good, Good \cup {c}}
                /\ UNCHANGED <<calls, Outcome>>
             \/ /\ Outcome[c] = "open" /\ c \notin Busy
                /\ \/ c \in Good /\ Outcome' = [Outcome EXCEPT ![c] = "ok"]
                   \/ c \notin Good /\ calls[c] = Attempts /\ Outcome' = [Outcome EXCEPT ![c] = "failed"]
                   \/ Outcome' = [Outcome EXCEPT ![c] = "cut"]
                /\ UNCHANGED <<calls, Busy, Good>>
      PROVE  [Retry!RetryNext]_(Retry!retryVars)
  <2>1. Retry!StartCall(c) \/ Retry!EndCall(c) \/ Retry!Conclude(c)
    BY <1>2, RetryStartCall, RetryEndCall, RetryConclude
  <2> QED BY <2>1 DEF Retry!RetryNext
<1>3. CASE UNCHANGED <<at, calls, last, inflight>>
  BY <1>1, <1>3 DEF RetryStutters, Busy, Good, Outcome
<1>4. ASSUME NEW c \in Callers, at[c] \in {"ready", "notified", "pausing"}, UNCHANGED <<calls, last>>,
             at' \in {[at EXCEPT ![c] = "pausing"], [at EXCEPT ![c] = "waiting"]}
      PROVE  RetryStutters
  <2>1. Outcome' = Outcome
    BY <1>4, OutcomeSame DEF TypeOK
  <2> QED BY <1>4, <2>1 DEF RetryStutters, Busy, Good, TypeOK
<1>5. ASSUME NEW c \in Callers, TakeSlot(c) PROVE [Retry!RetryNext]_(Retry!retryVars)
  <2>1. /\ at[c] \in {"ready", "notified", "pausing"} /\ at' = [at EXCEPT ![c] = "calling"]
        /\ inflight < limit /\ calls' = [calls EXCEPT ![c] = @ + 1] /\ UNCHANGED last
    BY <1>5 DEF TakeSlot, Acquiring
  <2>2. Outcome' = Outcome /\ Outcome[c] = "open"
    BY <2>1, OutcomeSame, OutcomeOf DEF TypeOK
  <2>3. c \notin Busy /\ c \notin Good /\ calls[c] < Attempts
    BY <2>1 DEF Busy, Good, AttemptsLeft
  <2>4. Cardinality(Busy) <= Cardinality(Holders)
    BY HoldersCounted, FS_Subset DEF Busy, Holders, Holding
  <2>5. Cardinality(Busy) < MaxLimit
    <3>1. IsFiniteSet(Busy)
      BY GateAssumption, FS_Subset DEF Busy
    <3>2. Cardinality(Busy) \in Nat
      BY <3>1, FS_CardinalityType
    <3> QED BY <2>1, <2>4, <3>2, GateAssumption DEF SlotsExact, Holders, TypeOK
  <2>6. Busy' = Busy \cup {c} /\ Good' = Good
    BY <2>1 DEF Busy, Good, TypeOK
  <2> QED BY <1>2, <2>1, <2>2, <2>3, <2>5, <2>6
<1>6. ASSUME NEW c \in Callers, Succeeds(c) \/ Fails(c) \/ (CutInside(c) /\ at[c] = "calling")
      PROVE  [Retry!RetryNext]_(Retry!retryVars)
  <2>1. /\ at[c] = "calling" /\ UNCHANGED calls
        /\ at' \in {[at EXCEPT ![c] = "done"], [at EXCEPT ![c] = "backoff"]}
        /\ last' \in {[last EXCEPT ![c] = "ok"], [last EXCEPT ![c] = "error"], [last EXCEPT ![c] = "cut"]}
    BY <1>6 DEF Succeeds, Fails, CutInside
  <2>2. Outcome' = Outcome
    BY <2>1, OutcomeSame DEF TypeOK
  <2>3. c \in Busy /\ Busy' = Busy \ {c}
    BY <2>1 DEF Busy, TypeOK
  <2>4. Good' \in {Good, Good \cup {c}}
    <3>1. last[c] # "ok"
      BY <2>1 DEF AttemptsLeft
    <3> QED BY <2>1, <3>1 DEF Good, TypeOK
  <2> QED BY <1>2, <2>1, <2>2, <2>3, <2>4
<1>7. ASSUME NEW c \in Callers, BackedOff(c) \/ (CutInside(c) /\ at[c] = "backoff") PROVE RetryStutters
  <2>1. /\ at[c] = "backoff" /\ UNCHANGED calls /\ at' = [at EXCEPT ![c] = "done"]
        /\ last' \in {last, [last EXCEPT ![c] = "cut"]} /\ last[c] = "error"
    BY <1>7 DEF BackedOff, CutInside, AttemptsLeft
  <2>2. Outcome' = Outcome
    BY <2>1, OutcomeSame DEF TypeOK
  <2> QED BY <2>1, <2>2 DEF RetryStutters, Busy, Good, TypeOK
<1>8. ASSUME NEW c \in Callers, GiveBack(c) PROVE [Retry!RetryNext]_(Retry!retryVars)
  <2>1. /\ at[c] = "done" /\ UNCHANGED <<calls, last>> /\ last[c] \in {"ok", "error", "cut"}
        /\ \A w \in Callers \ {c} : at'[w] = at[w] \/ (at[w] = "waiting" /\ at'[w] = "notified")
        /\ at'[c] = Afterwards(c)
    BY <1>8 DEF GiveBack, Notified, AttemptsLeft, TypeOK
  <2>2. Outcome[c] = "open" /\ c \notin Busy
    BY <2>1, OutcomeOf DEF Busy
  <2>3. /\ last[c] = "ok" => at'[c] = "ok"
        /\ last[c] = "cut" => at'[c] = "cut"
        /\ last[c] = "error" => at'[c] = IF calls[c] < Attempts THEN "ready" ELSE "failed"
    BY <2>1 DEF Afterwards
  <2>4. Busy' = Busy /\ Good' = Good
    BY <2>1, <2>3 DEF Busy, Good
  <2>5. CASE at'[c] = "ready"
    <3>1. Outcome' = Outcome
      BY <2>1, <2>5, OutcomeSame
    <3> QED BY <1>1, <2>1, <2>4, <3>1 DEF RetryStutters
  <2>6. CASE at'[c] \in {"ok", "failed", "cut"}
    <3>1. Outcome'[c] = at'[c]
      BY <2>6 DEF Outcome
    <3>2. Outcome' = [Outcome EXCEPT ![c] = at'[c]]
      BY <2>1, <3>1, OutcomeMoves
    <3>3. at'[c] = "failed" => calls[c] = Attempts /\ last[c] = "error"
      BY <2>1, <2>3, GateAssumption DEF TypeOK
    <3>4. at'[c] = "ok" => last[c] = "ok"
      BY <2>1, <2>3
    <3>5. (c \in Good <=> last[c] = "ok")
      BY DEF Good
    <3> QED BY <1>2, <2>1, <2>2, <2>4, <2>6, <3>2, <3>3, <3>4, <3>5
  <2> QED BY <2>1, <2>3, <2>5, <2>6
<1>9. ASSUME NEW c \in Callers, CutOutside(c) \/ CutWaiting(c) PROVE [Retry!RetryNext]_(Retry!retryVars)
  <2>1. UNCHANGED <<calls, last>>
    BY <1>9 DEF CutOutside, CutWaiting
  <2>2. CASE at[c] = "waiting" /\ at' = [at EXCEPT ![c] = "notified"]
    <3>1. Outcome' = Outcome
      BY <2>2, OutcomeSame DEF TypeOK
    <3> QED BY <1>1, <2>1, <2>2, <3>1 DEF RetryStutters, Busy, Good, TypeOK
  <2>3. CASE at[c] \in {"ready", "pausing", "notified", "done"}
             /\ at' \in {[at EXCEPT ![c] = "cut"], [at EXCEPT ![c] = "lost"]}
    <3>1. Outcome'[c] = "cut" /\ Outcome[c] = "open" /\ c \notin Busy
      BY <2>3, OutcomeOf DEF Outcome, TypeOK, Busy
    <3>2. Outcome' = [Outcome EXCEPT ![c] = "cut"]
      BY <2>3, <3>1, OutcomeMoves DEF TypeOK
    <3>3. Busy' = Busy /\ Good' = Good
      BY <2>1, <2>3 DEF Busy, Good, TypeOK
    <3> QED BY <1>2, <2>1, <3>1, <3>2, <3>3
  <2> QED BY <1>9, <2>2, <2>3 DEF CutOutside, CutWaiting
<1>10. ASSUME NEW c \in Callers, CutInside(c) PROVE at[c] \in {"calling", "backoff"}
  BY <1>10 DEF CutInside
<1> QED BY <1>1, <1>3, <1>4, <1>5, <1>6, <1>7, <1>8, <1>9, <1>10, MovesOf

(* No step starts a call while the gate backs off.                         *)
LEMMA CallsPaced ==
    ASSUME GateInv, Step
    PROVE  \A c \in Callers : calls'[c] > calls[c] => pause = 0 /\ inflight' <= limit
<1> USE DEF GateInv, GateSound
<1>1. ASSUME NEW c \in Callers, TakeSlot(c) PROVE pause = 0 /\ inflight' <= limit
  BY <1>1, GateAssumption DEF TakeSlot, Paused, TypeOK
<1>2. ASSUME UNCHANGED calls, NEW c \in Callers, calls'[c] > calls[c] PROVE FALSE
  BY <1>2 DEF TypeOK
<1>3. (\E c \in Callers : TakeSlot(c)) \/ UNCHANGED calls
  BY MovesOf DEF Succeeds, Fails, BackedOff, GiveBack, CutOutside, CutWaiting, CutInside
<1> QED BY <1>1, <1>2, <1>3

\* The gate with _attempt implements BoundedRetry: whatever it does about
\* slots, queues and pauses, a producer is called at most Attempts times, by
\* at most MaxLimit callers at once and never again after it succeeded, and an
\* attempt fails only when its calls are used up.
THEOREM GateRefinesRetry == Spec => RetriesBounded
<1>1. GateInv /\ [Next]_vars => [Retry!RetryNext]_(Retry!retryVars)
  BY StepIsNext, RetryStep
<1> QED BY GateInvariant, RetryStarts, <1>1, PTL DEF Spec, RetriesBounded, Retry!RetrySpec

\* No call starts while the gate is backing off, for any callers and limits
\* (RateGate.acquire waits for the pause to be over).
THEOREM GatePacesRetries == Spec => RetriesPaced
<1>1. GateInv /\ [Next]_vars =>
        [\A c \in Callers : calls'[c] > calls[c] => pause = 0 /\ inflight' <= limit]_vars
  BY StepIsNext, CallsPaced
<1>2. Spec => NoCallWhileBackingOff
  BY GateInvariant, <1>1, PTL DEF Spec, NoCallWhileBackingOff
<1> QED BY GateRefinesRetry, <1>2 DEF RetriesPaced

=============================================================================
