---------------------------- MODULE Evidence_proofs ----------------------------
(* What holds of the evidence loader and of the TypeScript session for any     *)
(* traces, spans, leases, calls, loads and limits of their pools: whatever a   *)
(* lease holds the store can serve, reads are exact and needed, the pools are  *)
(* exact, nothing is left over; and so for the sessions of both.               *)
EXTENDS MCEvidenceLoader, SequenceTheorems, FiniteSetTheorems, WellFoundedInduction, TLAPS

-----------------------------------------------------------------------------
(* A pool of places: who is inside, who waits outside, in line.            *)

InUse(place, inside, users) == {u \in users : place[u] \in inside}

Pool(place, inside, outside, line, users, limit) ==
    /\ line \in Seq(users)
    /\ IsFiniteSet(InUse(place, inside, users))
    /\ Cardinality(InUse(place, inside, users)) <= limit
    /\ line # << >> => Cardinality(InUse(place, inside, users)) = limit
    /\ \A i, j \in DOMAIN line : line[i] = line[j] => i = j
    /\ \A u \in users : place[u] = outside <=> \E i \in DOMAIN line : line[i] = u

\* Nobody comes or goes.
LEMMA PoolStays ==
    ASSUME NEW users, NEW inside, NEW outside, NEW line, NEW limit \in Nat, NEW place, NEW next,
           Pool(place, inside, outside, line, users, limit),
           \A u \in users : /\ next[u] \in inside <=> place[u] \in inside
                            /\ next[u] = outside <=> place[u] = outside
    PROVE  Pool(next, inside, outside, line, users, limit)
<1>1. InUse(next, inside, users) = InUse(place, inside, users)
  BY DEF InUse
<1> QED BY <1>1 DEF Pool

\* There is room: the line is empty, and stays so.
LEMMA PoolEnters ==
    ASSUME NEW users, NEW inside, NEW outside, NEW line, NEW limit \in Nat, NEW place, NEW next,
           Pool(place, inside, outside, line, users, limit), outside \notin inside,
           Cardinality(InUse(place, inside, users)) < limit,
           NEW u \in users, place[u] \notin inside, place[u] # outside, next[u] \in inside,
           \A v \in users : v # u => next[v] = place[v]
    PROVE  Pool(next, inside, outside, line, users, limit)
<1> DEFINE P == InUse(place, inside, users)
<1>1. IsFiniteSet(P) /\ Cardinality(P) \in Nat /\ u \notin P /\ line = << >>
  BY FS_CardinalityType DEF Pool, InUse
<1>2. InUse(next, inside, users) = P \cup {u}
  BY DEF InUse
<1>3. IsFiniteSet(P \cup {u}) /\ Cardinality(P \cup {u}) = Cardinality(P) + 1
  BY <1>1, FS_AddElement
<1>4. \A v \in users : next[v] = outside <=> \E i \in DOMAIN line : line[i] = v
  BY DEF Pool
<1> HIDE DEF P
<1>5. Cardinality(P) < limit
  BY DEF P
<1> QED BY <1>1, <1>2, <1>3, <1>4, <1>5 DEF Pool

\* There is none: who asks is the last in line.
LEMMA PoolQueues ==
    ASSUME NEW users, NEW inside, NEW outside, NEW line, NEW limit \in Nat, NEW place, NEW next,
           Pool(place, inside, outside, line, users, limit), outside \notin inside,
           ~(Cardinality(InUse(place, inside, users)) < limit),
           NEW u \in users, place[u] \notin inside, place[u] # outside, next[u] = outside,
           \A v \in users : v # u => next[v] = place[v]
    PROVE  Pool(next, inside, outside, Append(line, u), users, limit)
<1>1. InUse(next, inside, users) = InUse(place, inside, users)
  BY DEF InUse
<1>2. Cardinality(InUse(place, inside, users)) = limit
  BY FS_CardinalityType DEF Pool
<1>3. line \in Seq(users) /\ Len(line) \in Nat /\ DOMAIN line = 1..Len(line)
  BY DEF Pool
<1>4. /\ Append(line, u) \in Seq(users) /\ DOMAIN Append(line, u) = 1..(Len(line) + 1)
      /\ \A i \in 1..Len(line) : Append(line, u)[i] = line[i]
      /\ Append(line, u)[Len(line) + 1] = u
  BY <1>3
<1>5. \A i \in DOMAIN Append(line, u) : i \in DOMAIN line \/ i = Len(line) + 1
  BY <1>3, <1>4
<1>6. \A i \in DOMAIN line : line[i] # u
  BY DEF Pool
<1>7. \A i, j \in DOMAIN Append(line, u) : Append(line, u)[i] = Append(line, u)[j] => i = j
  BY <1>3, <1>4, <1>5, <1>6 DEF Pool
<1>8. \A v \in users : next[v] = outside <=> \E i \in DOMAIN Append(line, u) : Append(line, u)[i] = v
  <2> SUFFICES ASSUME NEW v \in users
               PROVE  next[v] = outside <=> \E i \in DOMAIN Append(line, u) : Append(line, u)[i] = v
    OBVIOUS
  <2>1. CASE v = u
    BY <1>3, <1>4, <2>1
  <2>2. CASE v # u
    BY <1>3, <1>4, <1>5, <2>2 DEF Pool
  <2> QED BY <2>1, <2>2
<1> QED BY <1>1, <1>2, <1>4, <1>7, <1>8 DEF Pool

\* One leaves, and the first in line follows.
LEMMA PoolPasses ==
    ASSUME NEW users, NEW inside, NEW outside, NEW line, NEW limit \in Nat, NEW place, NEW next,
           Pool(place, inside, outside, line, users, limit), outside \notin inside,
           NEW u \in users, place[u] \in inside, next[u] \notin inside, next[u] # outside,
           line # << >> => next[Head(line)] \in inside,
           \A v \in users : v # u /\ ~(line # << >> /\ v = Head(line)) => next[v] = place[v]
    PROVE  Pool(next, inside, outside, IF line = << >> THEN << >> ELSE Tail(line), users, limit)
<1> DEFINE P == InUse(place, inside, users)
<1>1. IsFiniteSet(P) /\ Cardinality(P) \in Nat /\ u \in P /\ line \in Seq(users) /\ Cardinality(P) <= limit
  BY FS_CardinalityType DEF Pool, InUse
<1>2. IsFiniteSet(P \ {u}) /\ Cardinality(P \ {u}) = Cardinality(P) - 1
  BY <1>1, FS_RemoveElement
<1>3. CASE line = << >>
  <2>1. InUse(next, inside, users) = P \ {u}
    BY <1>3 DEF InUse
  <2>2. \A v \in users : next[v] = outside <=> \E i \in DOMAIN line : line[i] = v
    BY <1>3 DEF Pool
  <2>3. Cardinality(P) - 1 <= limit
    BY <1>1
  <2> QED BY <1>1, <1>2, <1>3, <2>1, <2>2, <2>3 DEF Pool
<1>4. CASE line # << >>
  <2>1. PICK h \in users : h = Head(line) /\ h = line[1]
    BY <1>1, <1>4
  <2>2. /\ Tail(line) \in Seq(users) /\ DOMAIN Tail(line) = 1..(Len(line) - 1) /\ Len(line) \in Nat \ {0}
        /\ DOMAIN line = 1..Len(line)
        /\ \A i \in 1..(Len(line) - 1) : Tail(line)[i] = line[i + 1] /\ i + 1 \in 1..Len(line)
    BY <1>1, <1>4
  <2>3. place[h] = outside /\ h # u /\ h \notin P
    BY <2>1, <2>2 DEF Pool, InUse
  <2>4. InUse(next, inside, users) = (P \ {u}) \cup {h}
    BY <1>4, <2>1, <2>3 DEF InUse
  <2>5. IsFiniteSet((P \ {u}) \cup {h}) /\ Cardinality((P \ {u}) \cup {h}) = (Cardinality(P) - 1) + 1
    BY <1>2, <2>3, FS_AddElement
  <2>6. (Cardinality(P) - 1) + 1 = limit
    BY <1>1, <1>4 DEF Pool
  <2>7. \A i, j \in DOMAIN Tail(line) : Tail(line)[i] = Tail(line)[j] => i = j
    BY <2>2 DEF Pool
  <2>8. \A v \in users : next[v] = outside <=> \E i \in DOMAIN Tail(line) : Tail(line)[i] = v
    <3> SUFFICES ASSUME NEW v \in users
                 PROVE  next[v] = outside <=> \E i \in DOMAIN Tail(line) : Tail(line)[i] = v
      OBVIOUS
    <3>0. place[v] = outside <=> \E i \in DOMAIN line : line[i] = v
      BY DEF Pool
    <3>1. CASE v = h
      <4>1. next[v] # outside
        BY <1>4, <2>1, <3>1
      <4>2. \A i \in DOMAIN Tail(line) : Tail(line)[i] # v
        BY <2>1, <2>2, <3>1 DEF Pool
      <4> QED BY <4>1, <4>2
    <3>2. CASE v = u
      <4>1. \A i \in DOMAIN line : line[i] # v
        BY <3>0, <3>2
      <4> QED BY <2>2, <3>2, <4>1
    <3>3. CASE v # h /\ v # u
      <4>1. next[v] = place[v]
        BY <2>1, <3>3
      <4>2. ASSUME NEW i \in DOMAIN line, line[i] = v PROVE \E j \in DOMAIN Tail(line) : Tail(line)[j] = v
        <5>1. i # 1
          BY <2>1, <3>3, <4>2
        <5>2. i - 1 \in 1..(Len(line) - 1) /\ (i - 1) + 1 = i
          BY <2>2, <5>1
        <5> QED BY <2>2, <4>2, <5>2
      <4>3. (\E j \in DOMAIN Tail(line) : Tail(line)[j] = v) => \E i \in DOMAIN line : line[i] = v
        BY <2>2
      <4> QED BY <3>0, <4>1, <4>2, <4>3
    <3> QED BY <3>1, <3>2, <3>3
  <2> HIDE DEF P
  <2> QED BY <1>4, <2>2, <2>4, <2>5, <2>6, <2>7, <2>8 DEF Pool
<1> QED BY <1>3, <1>4

\* All who wait are sent away.
LEMMA PoolClears ==
    ASSUME NEW users, NEW inside, NEW outside, NEW line, NEW limit \in Nat, NEW place, NEW next, NEW away,
           Pool(place, inside, outside, line, users, limit), outside \notin inside,
           away \notin inside, away # outside,
           \A u \in users : next[u] = IF place[u] = outside THEN away ELSE place[u]
    PROVE  Pool(next, inside, outside, << >>, users, limit)
<1>1. InUse(next, inside, users) = InUse(place, inside, users)
  BY DEF InUse
<1>2. << >> \in Seq(users) /\ DOMAIN << >> = {} /\ \A u \in users : next[u] # outside
  OBVIOUS
<1> QED BY <1>1, <1>2 DEF Pool

-----------------------------------------------------------------------------
(* The inductive invariant of the session.                                 *)

Calling == TsCalls \cup TsLoads
Jobs == [call : TsCalls \cup {NoCall}, requests : Seq(Calling)]
Places == {"new", "waits", "granted", "chained", "assembling", "preloading", "ready", "leaving", "left", "raised"}
Within == {"granted", "chained", "assembling", "preloading", "ready", "leaving"}
Steps == {"idle", "line", "granted", "reading", "done", "failed", "over"}
Outcomes == {"idle", "pending", "loaded", "raised", "too large", "computed"}

SessionTyped ==
    /\ tree \in [TsCalls -> Places] /\ slotLine \in Seq(TsCalls)
    /\ tsLease \in [TsCalls -> {"none", "open", "closing", "closed"}]
    /\ held = [k \in TsCalls |-> held[k]]
    /\ request \in [Calling -> Outcomes]
    /\ gathering \in [TsTraces -> Seq(Calling)]
    /\ chain \in [TsTraces -> Seq(Jobs)]
    /\ step \in [PoolUsers -> Steps] /\ readLine \in Seq(PoolUsers)
    /\ skeletons \in [TsTraces -> {"lacking", "saved"}]
    /\ store = [t \in TsTraces |-> store[t]]
    /\ closing \in {"open", "leases", "operations", "loaders", "closed"}

SlotPool == Pool(tree, Within, "waits", slotLine, TsCalls, TsActive)
ReadPool == Pool(step, {"granted", "reading"}, "line", readLine, PoolUsers, TsConcurrency)

\* A lease comes with the assembled tree and has ended before its call does.
TreesHonest ==
    \A k \in TsCalls :
        /\ tree[k] \in {"new", "waits", "granted", "chained", "assembling"} => tsLease[k] = "none"
        /\ tree[k] \in {"ready", "preloading"} => tsLease[k] # "none"
        /\ Settled(k) => tsLease[k] \in {"none", "closed"}
        /\ request[k] = "pending" => tree[k] = "preloading"
        /\ Aborted => tsLease[k] # "open"

\* Loads are of leases that have not ended, and what is loaded is held.
AsksHonest ==
    \A l \in TsLoads :
        /\ request[l] \in {"pending", "loaded"} => tsLease[TsAsks[l].call] \in {"open", "closing"}
        /\ request[l] \in {"loaded", "computed"} => Wanted(l) \subseteq held[TsAsks[l].call]

\* Every request is in one place of the queues of its trace, every call in one job.
AsksOf(asks, jobs) == {asks[i] : i \in DOMAIN asks} \cup UNION {RequestsOf(jobs[i]) : i \in DOMAIN jobs}
CallsOf(jobs) == {jobs[i].call : i \in DOMAIN jobs} \ {NoCall}
Orderly(asks, jobs) ==
    \A i \in DOMAIN jobs :
        /\ jobs[i].call # NoCall => jobs[i].requests = << >>
        /\ \A j \in DOMAIN asks : asks[j] \notin RequestsOf(jobs[i])
        /\ \A j \in DOMAIN jobs : i # j =>
              /\ RequestsOf(jobs[i]) \cap RequestsOf(jobs[j]) = {}
              /\ jobs[i].call # NoCall => jobs[i].call # jobs[j].call

Waiting(t, r) == request[r] = "pending" /\ TsTraceOf[TheCall(r)] = t
JobsHonest ==
    \A t \in TsTraces :
        /\ Orderly(gathering[t], chain[t])
        /\ \A r \in AsksOf(gathering[t], chain[t]) : Waiting(t, r)
        /\ \A k \in CallsOf(chain[t]) : tree[k] = "chained" /\ TsTraceOf[k] = t

StepsHonest ==
    \A t \in TsTraces :
        /\ step[t] # "idle" => chain[t] # << >>
        /\ step[t] \in {"line", "granted", "reading"} => JobNeeds(t, Head(chain[t]))

HeldHonest ==
    \A k \in TsCalls : held[k] \subseteq store[TsTraceOf[k]] /\ Cardinality(held[k]) <= TsMaxItems

StagesHonest ==
    /\ closing \in {"loaders", "closed"} => OperationsEnded
    /\ closing = "closed" => JobsEnded

SessionInv ==
    /\ SessionTyped /\ SlotPool /\ ReadPool /\ TreesHonest /\ AsksHonest /\ JobsHonest /\ StepsHonest
    /\ HeldHonest /\ StagesHonest

\* What a step leaves alone, it leaves honest.
LEMMA SessionFrame ==
    ASSUME SessionInv
    PROVE  /\ UNCHANGED <<tree, slotLine>> => SlotPool'
           /\ UNCHANGED <<step, readLine>> => ReadPool'
           /\ UNCHANGED <<tree, tsLease, request, closing>> => TreesHonest'
           /\ UNCHANGED <<request, tsLease, held>> => AsksHonest'
           /\ UNCHANGED <<gathering, chain, request, tree>> => JobsHonest'
           /\ UNCHANGED <<step, chain, skeletons, store>> => StepsHonest'
           /\ UNCHANGED <<held, store>> => HeldHonest'
           /\ UNCHANGED <<closing, step, tree, chain>> => StagesHonest'
<1>1. UNCHANGED <<tree, slotLine>> => SlotPool'
  BY DEF SessionInv, SlotPool, Pool, InUse
<1>2. UNCHANGED <<step, readLine>> => ReadPool'
  BY DEF SessionInv, ReadPool, Pool, InUse
<1>3. UNCHANGED <<tree, tsLease, request, closing>> => TreesHonest'
  BY DEF SessionInv, TreesHonest, Settled, Aborted
<1>4. UNCHANGED <<request, tsLease, held>> => AsksHonest'
  BY DEF SessionInv, AsksHonest, Wanted
<1>5. UNCHANGED <<gathering, chain, request, tree>> => JobsHonest'
  <2> SUFFICES ASSUME UNCHANGED <<gathering, chain, request, tree>> PROVE JobsHonest'
    OBVIOUS
  <2>1. \A t, r : Waiting(t, r)' <=> Waiting(t, r)
    BY DEF Waiting, TheCall
  <2> QED BY <2>1 DEF SessionInv, JobsHonest
<1>6. UNCHANGED <<step, chain, skeletons, store>> => StepsHonest'
  BY DEF SessionInv, StepsHonest, JobNeeds, Missing
<1>7. UNCHANGED <<held, store>> => HeldHonest'
  BY DEF SessionInv, HeldHonest
<1>8. UNCHANGED <<closing, step, tree, chain>> => StagesHonest'
  BY DEF SessionInv, StagesHonest, OperationsEnded, JobsEnded, Settled
<1> QED BY <1>1, <1>2, <1>3, <1>4, <1>5, <1>6, <1>7, <1>8

LEMMA SessionStarts ==
    ASSUME TsSessionInit PROVE SessionInv
<1> USE DEF TsSessionInit
<1>1. SessionTyped
  BY DEF SessionTyped, Places, Outcomes, Steps, Calling, Jobs
<1>2. SlotPool
  <2>1. InUse(tree, Within, TsCalls) = {}
    BY DEF InUse, Within
  <2>2. IsFiniteSet({}) /\ Cardinality({}) = 0 /\ 0 <= TsActive
    BY FS_EmptySet, TsSessionBounds
  <2>3. slotLine = << >> /\ << >> \in Seq(TsCalls) /\ DOMAIN << >> = {} /\ \A k \in TsCalls : tree[k] # "waits"
    OBVIOUS
  <2> HIDE DEF TsSessionInit
  <2> QED BY <2>1, <2>2, <2>3 DEF SlotPool, Pool
<1>3. ReadPool
  <2>1. InUse(step, {"granted", "reading"}, PoolUsers) = {}
    BY DEF InUse
  <2>2. IsFiniteSet({}) /\ Cardinality({}) = 0 /\ 0 <= TsConcurrency
    BY FS_EmptySet, TsSessionBounds
  <2>3. readLine = << >> /\ << >> \in Seq(PoolUsers) /\ DOMAIN << >> = {} /\ \A u \in PoolUsers : step[u] # "line"
    OBVIOUS
  <2> HIDE DEF TsSessionInit
  <2> QED BY <2>1, <2>2, <2>3 DEF ReadPool, Pool
<1>4. TreesHonest /\ AsksHonest /\ StepsHonest /\ StagesHonest
  <2>1. TreesHonest /\ AsksHonest
    BY DEF TreesHonest, AsksHonest, Settled, Aborted, Calling
  <2>2. StepsHonest
    BY DEF StepsHonest, PoolUsers
  <2>3. StagesHonest
    BY DEF StagesHonest
  <2> QED BY <2>1, <2>2, <2>3
<1>5. JobsHonest
  BY DEF JobsHonest, Orderly, AsksOf, CallsOf
<1>6. HeldHonest
  BY FS_EmptySet, TsSessionBounds DEF HeldHonest
<1> QED BY <1>1, <1>2, <1>3, <1>4, <1>5, <1>6 DEF SessionInv

-----------------------------------------------------------------------------
(* How the queues of a trace change.                                       *)

LEMMA AppendAt ==
    ASSUME NEW S, NEW q \in Seq(S), NEW x \in S
    PROVE  /\ Append(q, x) \in Seq(S) /\ Append(q, x) # << >>
           /\ DOMAIN Append(q, x) = DOMAIN q \cup {Len(q) + 1} /\ Len(q) + 1 \notin DOMAIN q
           /\ \A i \in DOMAIN q : Append(q, x)[i] = q[i]
           /\ Append(q, x)[Len(q) + 1] = x
           /\ q # << >> => Head(Append(q, x)) = Head(q)
<1>1. /\ Append(q, x) \in Seq(S) /\ Len(q) \in Nat /\ DOMAIN q = 1..Len(q)
      /\ Len(Append(q, x)) = Len(q) + 1 /\ DOMAIN Append(q, x) = 1..(Len(q) + 1)
      /\ \A i \in 1..Len(q) : Append(q, x)[i] = q[i]
      /\ Append(q, x)[Len(q) + 1] = x
  OBVIOUS
<1>2. 1..(Len(q) + 1) = 1..Len(q) \cup {Len(q) + 1} /\ Len(q) + 1 \notin 1..Len(q)
  BY <1>1
<1>3. Append(q, x) # << >>
  BY <1>1
<1>4. q # << >> => Head(Append(q, x)) = Head(q)
  <2> SUFFICES ASSUME q # << >> PROVE Head(Append(q, x)) = Head(q)
    OBVIOUS
  <2>1. 1 \in 1..Len(q) /\ Head(q) = q[1] /\ Head(Append(q, x)) = Append(q, x)[1]
    BY <1>1, <1>3
  <2> QED BY <1>1, <2>1
<1> QED BY <1>1, <1>2, <1>3, <1>4

\* A request is gathered.
LEMMA AskJoins ==
    ASSUME NEW asks \in Seq(Calling), NEW jobs \in Seq(Jobs), NEW r \in Calling, Orderly(asks, jobs),
           r \notin AsksOf(asks, jobs)
    PROVE  /\ Append(asks, r) \in Seq(Calling) /\ Orderly(Append(asks, r), jobs)
           /\ AsksOf(Append(asks, r), jobs) = AsksOf(asks, jobs) \cup {r}
<1>1. /\ Append(asks, r) \in Seq(Calling) /\ DOMAIN Append(asks, r) = DOMAIN asks \cup {Len(asks) + 1}
      /\ \A i \in DOMAIN asks : Append(asks, r)[i] = asks[i]
      /\ Append(asks, r)[Len(asks) + 1] = r
  BY AppendAt
<1>2. \A i \in DOMAIN jobs : r \notin RequestsOf(jobs[i])
  BY DEF AsksOf
<1>3. Orderly(Append(asks, r), jobs)
  BY <1>1, <1>2 DEF Orderly
<1>4. {Append(asks, r)[i] : i \in DOMAIN Append(asks, r)} = {asks[i] : i \in DOMAIN asks} \cup {r}
  BY <1>1
<1> QED BY <1>1, <1>3, <1>4 DEF AsksOf

\* A job joins the chain: of a call, or of all that was gathered.
LEMMA JobJoins ==
    ASSUME NEW asks \in Seq(Calling), NEW jobs \in Seq(Jobs), NEW job \in Jobs, NEW left \in Seq(Calling),
           Orderly(asks, jobs),
           \/ job.call \in TsCalls \ CallsOf(jobs) /\ job.requests = << >> /\ left = asks
           \/ job.call = NoCall /\ job.requests = asks /\ left = << >>
    PROVE  /\ Append(jobs, job) \in Seq(Jobs) /\ Orderly(left, Append(jobs, job))
           /\ AsksOf(left, Append(jobs, job)) = AsksOf(asks, jobs)
           /\ CallsOf(Append(jobs, job)) = CallsOf(jobs) \cup ({job.call} \ {NoCall})
<1>1. /\ Append(jobs, job) \in Seq(Jobs) /\ DOMAIN Append(jobs, job) = DOMAIN jobs \cup {Len(jobs) + 1}
      /\ \A i \in DOMAIN jobs : Append(jobs, job)[i] = jobs[i]
      /\ Append(jobs, job)[Len(jobs) + 1] = job
  BY AppendAt
<1>2. \A i \in DOMAIN jobs : RequestsOf(jobs[i]) \cap RequestsOf(job) = {}
  BY DEF Orderly, RequestsOf
<1>3. \A j \in DOMAIN left : left[j] \notin RequestsOf(job)
  BY DEF RequestsOf
<1>4. \A i \in DOMAIN jobs : \A j \in DOMAIN left : left[j] \notin RequestsOf(jobs[i])
  BY DEF Orderly
<1>5. \A i \in DOMAIN jobs : jobs[i].call # NoCall => jobs[i].call # job.call
  BY TsNames DEF CallsOf
<1>6. Orderly(left, Append(jobs, job))
  <2> SUFFICES ASSUME NEW i \in DOMAIN Append(jobs, job)
      PROVE  /\ Append(jobs, job)[i].call # NoCall => Append(jobs, job)[i].requests = << >>
             /\ \A j \in DOMAIN left : left[j] \notin RequestsOf(Append(jobs, job)[i])
             /\ \A j \in DOMAIN Append(jobs, job) : i # j =>
                   /\ RequestsOf(Append(jobs, job)[i]) \cap RequestsOf(Append(jobs, job)[j]) = {}
                   /\ Append(jobs, job)[i].call # NoCall => Append(jobs, job)[i].call # Append(jobs, job)[j].call
    BY DEF Orderly
  <2>1. CASE i \in DOMAIN jobs
    BY <1>1, <1>2, <1>4, <1>5, <2>1 DEF Orderly
  <2>2. CASE i = Len(jobs) + 1
    BY <1>1, <1>2, <1>3, <1>5, <2>2 DEF Orderly
  <2> QED BY <1>1, <2>1, <2>2
<1>7. UNION {RequestsOf(Append(jobs, job)[i]) : i \in DOMAIN Append(jobs, job)}
          = (UNION {RequestsOf(jobs[i]) : i \in DOMAIN jobs}) \cup RequestsOf(job)
  <2>1. ASSUME NEW i \in DOMAIN Append(jobs, job), NEW r \in RequestsOf(Append(jobs, job)[i])
        PROVE  r \in RequestsOf(job) \/ \E x \in DOMAIN jobs : r \in RequestsOf(jobs[x])
    BY <1>1, <2>1
  <2>2. ASSUME NEW i \in DOMAIN jobs, NEW r \in RequestsOf(jobs[i])
        PROVE  i \in DOMAIN Append(jobs, job) /\ r \in RequestsOf(Append(jobs, job)[i])
    BY <1>1, <2>2
  <2>3. ASSUME NEW r \in RequestsOf(job)
        PROVE  \E i \in DOMAIN Append(jobs, job) : r \in RequestsOf(Append(jobs, job)[i])
    BY <1>1, <2>3
  <2> QED BY <2>1, <2>2, <2>3
<1>8. {left[i] : i \in DOMAIN left} \cup RequestsOf(job) = {asks[i] : i \in DOMAIN asks}
  <2>1. CASE job.requests = << >> /\ left = asks
    BY <2>1 DEF RequestsOf
  <2>2. CASE job.requests = asks /\ left = << >>
    BY <2>2 DEF RequestsOf
  <2> QED BY <2>1, <2>2
<1>9. AsksOf(left, Append(jobs, job)) = AsksOf(asks, jobs)
  <2>1. PICK A : A = {asks[i] : i \in DOMAIN asks}
    OBVIOUS
  <2>2. PICK L : L = {left[i] : i \in DOMAIN left}
    OBVIOUS
  <2>3. PICK U : U = UNION {RequestsOf(jobs[i]) : i \in DOMAIN jobs}
    OBVIOUS
  <2>4. AsksOf(left, Append(jobs, job)) = L \cup (U \cup RequestsOf(job)) /\ AsksOf(asks, jobs) = A \cup U
    BY <1>7, <2>1, <2>2, <2>3 DEF AsksOf
  <2>5. L \cup RequestsOf(job) = A
    BY <1>8, <2>1, <2>2
  <2> QED BY <2>4, <2>5
<1>10. CallsOf(Append(jobs, job)) = CallsOf(jobs) \cup ({job.call} \ {NoCall})
  BY <1>1 DEF CallsOf
<1> QED BY <1>1, <1>6, <1>9, <1>10

\* The first job is done: nobody else waits for what it stood for.
LEMMA JobLeaves ==
    ASSUME NEW asks \in Seq(Calling), NEW jobs \in Seq(Jobs), jobs # << >>, Orderly(asks, jobs)
    PROVE  /\ Tail(jobs) \in Seq(Jobs) /\ Orderly(asks, Tail(jobs)) /\ Head(jobs) \in Jobs
           /\ AsksOf(asks, Tail(jobs)) \subseteq AsksOf(asks, jobs) \ RequestsOf(Head(jobs))
           /\ RequestsOf(Head(jobs)) \subseteq AsksOf(asks, jobs)
           /\ CallsOf(Tail(jobs)) \subseteq CallsOf(jobs) \ {Head(jobs).call}
           /\ Head(jobs).call # NoCall => Head(jobs).call \in CallsOf(jobs) /\ RequestsOf(Head(jobs)) = {}
<1>1. /\ Tail(jobs) \in Seq(Jobs) /\ Head(jobs) \in Jobs /\ Head(jobs) = jobs[1] /\ 1 \in DOMAIN jobs
      /\ \A i \in DOMAIN Tail(jobs) : i + 1 \in DOMAIN jobs /\ i + 1 # 1 /\ Tail(jobs)[i] = jobs[i + 1]
      /\ \A i, j \in DOMAIN Tail(jobs) : i # j => i + 1 # j + 1
  OBVIOUS
<1>2. Orderly(asks, Tail(jobs))
  BY <1>1 DEF Orderly
<1>3. \A i \in DOMAIN Tail(jobs) : /\ RequestsOf(Tail(jobs)[i]) \cap RequestsOf(Head(jobs)) = {}
                                   /\ RequestsOf(Tail(jobs)[i]) \subseteq AsksOf(asks, jobs)
                                   /\ Tail(jobs)[i].call # NoCall => Tail(jobs)[i].call # Head(jobs).call
                                   /\ Tail(jobs)[i].call # NoCall => Tail(jobs)[i].call \in CallsOf(jobs)
  BY <1>1 DEF Orderly, AsksOf, CallsOf
<1>4. \A j \in DOMAIN asks : asks[j] \notin RequestsOf(Head(jobs)) /\ asks[j] \in AsksOf(asks, jobs)
  BY <1>1 DEF Orderly, AsksOf
<1>5. AsksOf(asks, Tail(jobs)) \subseteq AsksOf(asks, jobs) \ RequestsOf(Head(jobs))
  <2> SUFFICES ASSUME NEW r \in AsksOf(asks, Tail(jobs)) PROVE r \in AsksOf(asks, jobs) /\ r \notin RequestsOf(Head(jobs))
    OBVIOUS
  <2>1. \/ \E j \in DOMAIN asks : r = asks[j]
        \/ \E i \in DOMAIN Tail(jobs) : r \in RequestsOf(Tail(jobs)[i])
    BY DEF AsksOf
  <2> QED BY <1>3, <1>4, <2>1
<1>6. CallsOf(Tail(jobs)) \subseteq CallsOf(jobs) \ {Head(jobs).call}
  <2> SUFFICES ASSUME NEW k \in CallsOf(Tail(jobs)) PROVE k \in CallsOf(jobs) /\ k # Head(jobs).call
    OBVIOUS
  <2>1. \E i \in DOMAIN Tail(jobs) : k = Tail(jobs)[i].call /\ k # NoCall
    BY DEF CallsOf
  <2> QED BY <1>3, <2>1
<1>7. RequestsOf(Head(jobs)) \subseteq AsksOf(asks, jobs)
  BY <1>1 DEF AsksOf
<1>8. Head(jobs).call # NoCall => Head(jobs).call \in CallsOf(jobs) /\ RequestsOf(Head(jobs)) = {}
  BY <1>1 DEF CallsOf, Orderly, RequestsOf
<1> QED BY <1>1, <1>2, <1>5, <1>6, <1>7, <1>8

-----------------------------------------------------------------------------
(* Every step keeps the invariant: the pool of reads.                      *)

LEMMA StepMoves ==
    ASSUME SessionInv,
           UNCHANGED <<tree, slotLine, tsLease, held, request, gathering, chain, skeletons, store, closing>>,
           step' \in [PoolUsers -> Steps], ReadPool',
           \A t \in TsTraces : step'[t] # "idle" => chain[t] # << >>,
           \A t \in TsTraces : step'[t] \in {"line", "granted", "reading"} => JobNeeds(t, Head(chain[t])),
           closing \in {"loaders", "closed"} => step'[Selection] \in {"idle", "over"}
    PROVE  SessionInv'
<1>1. SessionTyped'
  BY DEF SessionInv, SessionTyped, ReadPool, Pool
<1>2. StepsHonest'
  BY DEF StepsHonest, JobNeeds, Missing
<1>3. StagesHonest'
  BY DEF SessionInv, StagesHonest, OperationsEnded, JobsEnded, Settled
<1> QED BY <1>1, <1>2, <1>3, SessionFrame DEF SessionInv

\* A user of the pool hands its place on.
LEMMA ReturnPasses ==
    ASSUME SessionInv, NEW u \in PoolUsers, step[u] \in {"granted", "reading"},
           NEW next \in {"done", "failed"}, Returns(u, next)
    PROVE  /\ step' \in [PoolUsers -> Steps] /\ ReadPool' /\ step'[u] = next
           /\ \A v \in PoolUsers : v # u => step'[v] = step[v] \/ (step[v] = "line" /\ step'[v] = "granted")
<1>1. SessionTyped /\ ReadPool
  BY DEF SessionInv
<1>2. step' \in [PoolUsers -> Steps] /\ step'[u] = next
  BY <1>1 DEF Returns, SessionTyped, Steps
<1>3. readLine # << >> => Head(readLine) \in PoolUsers /\ step[Head(readLine)] = "line" /\ step'[Head(readLine)] = "granted"
  <2> SUFFICES ASSUME readLine # << >>
               PROVE  Head(readLine) \in PoolUsers /\ step[Head(readLine)] = "line" /\ step'[Head(readLine)] = "granted"
    OBVIOUS
  <2>1. Head(readLine) \in PoolUsers /\ 1 \in DOMAIN readLine /\ Head(readLine) = readLine[1]
    BY <1>1 DEF ReadPool, Pool
  <2>2. step[Head(readLine)] = "line"
    BY <1>1, <2>1 DEF ReadPool, Pool
  <2> QED BY <2>1, <2>2 DEF Returns
<1>4. \A v \in PoolUsers : v # u /\ ~(readLine # << >> /\ v = Head(readLine)) => step'[v] = step[v]
  BY DEF Returns
<1>5. ReadPool'
  <2>1. readLine' = IF readLine = << >> THEN << >> ELSE Tail(readLine)
    BY DEF Returns
  <2>2. TsConcurrency \in Nat /\ "line" \notin {"granted", "reading"} /\ step'[u] \notin {"granted", "reading"}
        /\ step'[u] # "line" /\ (readLine # << >> => step'[Head(readLine)] \in {"granted", "reading"})
    BY <1>2, <1>3, TsSessionBounds
  <2>3. Pool(step', {"granted", "reading"}, "line", IF readLine = << >> THEN << >> ELSE Tail(readLine),
             PoolUsers, TsConcurrency)
    BY <1>1, <1>4, <2>2, PoolPasses DEF ReadPool
  <2> QED BY <2>1, <2>3 DEF ReadPool
<1> QED BY <1>2, <1>3, <1>4, <1>5

\* Who is no user of the pool asks for a place.
LEMMA EnterKeeps ==
    ASSUME SessionInv, NEW u \in PoolUsers, step[u] \notin {"granted", "reading", "line"}, Enters(u)
    PROVE  /\ step' \in [PoolUsers -> Steps] /\ ReadPool' /\ step'[u] \in {"granted", "line"}
           /\ \A v \in PoolUsers : v # u => step'[v] = step[v]
<1>1. SessionTyped /\ ReadPool /\ TsConcurrency \in Nat
      /\ InPool = InUse(step, {"granted", "reading"}, PoolUsers)
  BY TsSessionBounds DEF SessionInv, InPool, InUse
<1>2. PICK to \in {"granted", "line"} : step' = [step EXCEPT ![u] = to]
          /\ (to = "granted" => Cardinality(InPool) < TsConcurrency /\ readLine' = readLine)
          /\ (to = "line" => ~(Cardinality(InPool) < TsConcurrency) /\ readLine' = Append(readLine, u))
  BY DEF Enters, Turns
<1>3. step' \in [PoolUsers -> Steps] /\ step'[u] = to /\ \A v \in PoolUsers : v # u => step'[v] = step[v]
  BY <1>1, <1>2 DEF SessionTyped, Steps
<1>4. ReadPool'
  <2>1. CASE to = "granted"
    <3>1. Pool(step', {"granted", "reading"}, "line", readLine, PoolUsers, TsConcurrency)
      BY <1>1, <1>2, <1>3, <2>1, PoolEnters DEF ReadPool
    <3> QED BY <1>2, <2>1, <3>1 DEF ReadPool
  <2>2. CASE to = "line"
    <3>1. Pool(step', {"granted", "reading"}, "line", Append(readLine, u), PoolUsers, TsConcurrency)
      BY <1>1, <1>2, <1>3, <2>2, PoolQueues DEF ReadPool
    <3> QED BY <1>2, <2>2, <3>1 DEF ReadPool
  <2> QED BY <2>1, <2>2
<1> QED BY <1>3, <1>4

\* Neither in the pool nor in line, before and after; or in the pool.
LEMMA TurnKeeps ==
    ASSUME SessionInv, NEW u \in PoolUsers, NEW next \in Steps, Turns(u, next),
           \/ step[u] \notin {"granted", "reading", "line"} /\ next \notin {"granted", "reading", "line"}
           \/ step[u] \in {"granted", "reading"} /\ next \in {"granted", "reading"}
    PROVE  /\ step' \in [PoolUsers -> Steps] /\ ReadPool' /\ step'[u] = next
           /\ \A v \in PoolUsers : v # u => step'[v] = step[v]
<1>1. SessionTyped /\ ReadPool /\ TsConcurrency \in Nat
  BY TsSessionBounds DEF SessionInv
<1>2. step' \in [PoolUsers -> Steps] /\ step'[u] = next /\ \A v \in PoolUsers : v # u => step'[v] = step[v]
  BY <1>1 DEF SessionTyped, Turns
<1>3. \A v \in PoolUsers : /\ step'[v] \in {"granted", "reading"} <=> step[v] \in {"granted", "reading"}
                           /\ step'[v] = "line" <=> step[v] = "line"
  BY <1>2
<1>4. Pool(step', {"granted", "reading"}, "line", readLine, PoolUsers, TsConcurrency)
  BY <1>1, <1>3, PoolStays DEF ReadPool
<1> QED BY <1>2, <1>4 DEF ReadPool, Turns

LEMMA PoolStepKeeps ==
    ASSUME SessionInv, NEW u \in PoolUsers, Granted(u) \/ ReadEnds(u) PROVE SessionInv'
<1>0. /\ UNCHANGED <<tree, slotLine, tsLease, held, request, gathering, chain, skeletons, store, closing>>
      /\ step[u] \in {"granted", "reading"} /\ StepsHonest /\ StagesHonest
  BY DEF SessionInv, Granted, ReadEnds
<1>1. /\ step' \in [PoolUsers -> Steps] /\ ReadPool' /\ step'[u] \in {"done", "failed", "reading"}
      /\ \A v \in PoolUsers : v # u => step'[v] = step[v] \/ (step[v] = "line" /\ step'[v] = "granted")
  <2>1. CASE \E next \in {"done", "failed"} : Returns(u, next)
    BY <1>0, <2>1, ReturnPasses
  <2>2. CASE Turns(u, "reading")
    <3>1. "reading" \in Steps
      BY DEF Steps
    <3> QED BY <1>0, <2>2, <3>1, TurnKeeps
  <2> QED BY <2>1, <2>2 DEF Granted, ReadEnds
<1>2. \A t \in TsTraces : t \in PoolUsers
  BY DEF PoolUsers
<1>3. \A t \in TsTraces : step'[t] # "idle" => chain[t] # << >>
  BY <1>0, <1>1, <1>2 DEF StepsHonest
<1>4. \A t \in TsTraces : step'[t] \in {"line", "granted", "reading"} => JobNeeds(t, Head(chain[t]))
  BY <1>0, <1>1, <1>2 DEF StepsHonest
<1>5. closing \in {"loaders", "closed"} => step'[Selection] \in {"idle", "over"}
  BY <1>0, <1>1 DEF StagesHonest, OperationsEnded, PoolUsers
<1> QED BY <1>0, <1>1, <1>3, <1>4, <1>5, StepMoves

LEMMA SelectionKeeps ==
    ASSUME SessionInv, TsSelect \/ TsSelected PROVE SessionInv'
<1>0. /\ UNCHANGED <<tree, slotLine, tsLease, held, request, gathering, chain, skeletons, store, closing>>
      /\ StepsHonest /\ Selection \in PoolUsers /\ \A t \in TsTraces : t \in PoolUsers /\ t # Selection
  BY TsNames DEF SessionInv, TsSelect, TsSelected, PoolUsers
<1>1. /\ step' \in [PoolUsers -> Steps] /\ ReadPool'
      /\ \A v \in PoolUsers : v # Selection => step'[v] = step[v]
      /\ closing \in {"loaders", "closed"} => step'[Selection] \in {"idle", "over"}
  <2>1. CASE TsSelect
    BY <1>0, <2>1, EnterKeeps DEF TsSelect, Aborted
  <2>2. CASE TsSelected
    <3>1. "over" \in Steps
      BY DEF Steps
    <3> QED BY <1>0, <2>2, <3>1, TurnKeeps DEF TsSelected
  <2> QED BY <2>1, <2>2
<1>2. \A t \in TsTraces : step'[t] = step[t]
  BY <1>0, <1>1
<1>3. /\ \A t \in TsTraces : step'[t] # "idle" => chain[t] # << >>
      /\ \A t \in TsTraces : step'[t] \in {"line", "granted", "reading"} => JobNeeds(t, Head(chain[t]))
  BY <1>0, <1>2 DEF StepsHonest
<1> QED BY <1>0, <1>1, <1>3, StepMoves

-----------------------------------------------------------------------------
(* The calls of tree() and their leases.                                   *)

\* A call gives its slot up.
LEMMA EndPasses ==
    ASSUME SessionInv, NEW k \in TsCalls, tree[k] \in Within, NEW end \in {"left", "raised"}, Ends(k, end)
    PROVE  /\ tree' \in [TsCalls -> Places] /\ SlotPool' /\ tree'[k] = end
           /\ \A d \in TsCalls : d # k => tree'[d] = tree[d] \/ (tree[d] = "waits" /\ tree'[d] = "granted")
<1>1. SessionTyped /\ SlotPool
  BY DEF SessionInv
<1>2. tree' \in [TsCalls -> Places] /\ tree'[k] = end
  BY <1>1 DEF Ends, SessionTyped, Places
<1>3. slotLine # << >> => Head(slotLine) \in TsCalls /\ tree[Head(slotLine)] = "waits" /\ tree'[Head(slotLine)] = "granted"
  <2> SUFFICES ASSUME slotLine # << >>
               PROVE  Head(slotLine) \in TsCalls /\ tree[Head(slotLine)] = "waits" /\ tree'[Head(slotLine)] = "granted"
    OBVIOUS
  <2>1. Head(slotLine) \in TsCalls /\ 1 \in DOMAIN slotLine /\ Head(slotLine) = slotLine[1]
    BY <1>1 DEF SlotPool, Pool
  <2>2. tree[Head(slotLine)] = "waits"
    BY <1>1, <2>1 DEF SlotPool, Pool
  <2> QED BY <2>1, <2>2 DEF Ends, Within
<1>4. \A d \in TsCalls : d # k /\ ~(slotLine # << >> /\ d = Head(slotLine)) => tree'[d] = tree[d]
  BY DEF Ends
<1>5. SlotPool'
  <2>1. slotLine' = IF slotLine = << >> THEN << >> ELSE Tail(slotLine)
    BY DEF Ends
  <2>2. /\ TsActive \in Nat /\ "waits" \notin Within /\ tree'[k] \notin Within /\ tree'[k] # "waits"
        /\ slotLine # << >> => tree'[Head(slotLine)] \in Within
    BY <1>2, <1>3, TsSessionBounds DEF Within
  <2>3. Pool(tree', Within, "waits", IF slotLine = << >> THEN << >> ELSE Tail(slotLine), TsCalls, TsActive)
    BY <1>1, <1>4, <2>2, PoolPasses DEF SlotPool
  <2> QED BY <2>1, <2>3 DEF SlotPool
<1> QED BY <1>2, <1>3, <1>4, <1>5

\* A call moves on, where nobody but it cares.
LEMMA PlaceMoves ==
    ASSUME SessionInv, NEW k \in TsCalls, NEW to \in Places, tree' = [tree EXCEPT ![k] = to], slotLine' = slotLine,
           \/ tree[k] \in Within /\ to \in Within
           \/ tree[k] = to
    PROVE  /\ tree' \in [TsCalls -> Places] /\ SlotPool' /\ tree'[k] = to
           /\ \A d \in TsCalls : d # k => tree'[d] = tree[d]
<1>1. SessionTyped /\ SlotPool /\ TsActive \in Nat
  BY TsSessionBounds DEF SessionInv
<1>2. tree' \in [TsCalls -> Places] /\ tree'[k] = to /\ \A d \in TsCalls : d # k => tree'[d] = tree[d]
  BY <1>1 DEF SessionTyped
<1>3. \A d \in TsCalls : /\ tree'[d] \in Within <=> tree[d] \in Within
                         /\ tree'[d] = "waits" <=> tree[d] = "waits"
  BY <1>2 DEF Within
<1>4. Pool(tree', Within, "waits", slotLine, TsCalls, TsActive)
  BY <1>1, <1>3, PoolStays DEF SlotPool
<1> QED BY <1>2, <1>4 DEF SlotPool

\* A call asks for a slot.
LEMMA SlotAsked ==
    ASSUME SessionInv, NEW k \in TsCalls, TsTree(k)
    PROVE  /\ tree' \in [TsCalls -> Places] /\ SlotPool' /\ tree'[k] \in {"granted", "waits"}
           /\ \A d \in TsCalls : d # k => tree'[d] = tree[d]
<1>1. SessionTyped /\ SlotPool /\ TsActive \in Nat /\ tree[k] = "new"
      /\ SlotHolders = InUse(tree, Within, TsCalls)
  BY TsSessionBounds DEF SessionInv, SlotHolders, InUse, Within, TsTree
<1>2. PICK to \in {"granted", "waits"} : tree' = [tree EXCEPT ![k] = to]
          /\ (to = "granted" => Cardinality(SlotHolders) < TsActive /\ slotLine' = slotLine)
          /\ (to = "waits" => ~(Cardinality(SlotHolders) < TsActive) /\ slotLine' = Append(slotLine, k))
  BY DEF TsTree
<1>3. tree' \in [TsCalls -> Places] /\ tree'[k] = to /\ \A d \in TsCalls : d # k => tree'[d] = tree[d]
  BY <1>1, <1>2 DEF SessionTyped, Places
<1>4. "waits" \notin Within /\ "granted" \in Within /\ tree[k] \notin Within /\ tree[k] # "waits"
  BY <1>1 DEF Within
<1>5. SlotPool'
  <2>1. CASE to = "granted"
    <3>1. Pool(tree', Within, "waits", slotLine, TsCalls, TsActive)
      BY <1>1, <1>2, <1>3, <1>4, <2>1, PoolEnters DEF SlotPool
    <3> QED BY <1>2, <2>1, <3>1 DEF SlotPool
  <2>2. CASE to = "waits"
    <3>1. Pool(tree', Within, "waits", Append(slotLine, k), TsCalls, TsActive)
      BY <1>1, <1>2, <1>3, <1>4, <2>2, PoolQueues DEF SlotPool
    <3> QED BY <1>2, <2>2, <3>1 DEF SlotPool
  <2> QED BY <2>1, <2>2
<1> QED BY <1>3, <1>5

LEMMA CallOf == \A r \in Calling : TheCall(r) \in TsCalls /\ TsTraceOf[TheCall(r)] \in TsTraces
BY TsSessionBounds DEF Calling, TheCall, TsTraces

LEMMA QueuesAre ==
    ASSUME SessionInv, NEW t \in TsTraces
    PROVE  /\ gathering[t] \in Seq(Calling) /\ chain[t] \in Seq(Jobs) /\ Orderly(gathering[t], chain[t])
           /\ AsksOf(gathering[t], chain[t]) \subseteq Calling /\ CallsOf(chain[t]) \subseteq TsCalls
           /\ \A r \in AsksOf(gathering[t], chain[t]) : request[r] = "pending" /\ TsTraceOf[TheCall(r)] = t
           /\ \A k \in CallsOf(chain[t]) : tree[k] = "chained" /\ TsTraceOf[k] = t
<1>1. gathering[t] \in Seq(Calling) /\ chain[t] \in Seq(Jobs)
  BY DEF SessionInv, SessionTyped
<1>2. /\ \A i \in DOMAIN gathering[t] : gathering[t][i] \in Calling
      /\ \A i \in DOMAIN chain[t] : chain[t][i] \in Jobs
  BY <1>1
<1>3. \A job \in Jobs : RequestsOf(job) \subseteq Calling /\ job.call \in TsCalls \cup {NoCall}
  BY DEF Jobs, RequestsOf
<1>4. AsksOf(gathering[t], chain[t]) \subseteq Calling /\ CallsOf(chain[t]) \subseteq TsCalls
  BY <1>2, <1>3 DEF AsksOf, CallsOf
<1> QED BY <1>1, <1>4 DEF SessionInv, JobsHonest, Waiting

\* The jobs stay in order while calls that are no job of theirs move.
LEMMA JobsStay ==
    ASSUME SessionInv, UNCHANGED <<gathering, chain>>,
           \A k \in TsCalls : tree[k] = "chained" => tree'[k] = "chained",
           \A r \in Calling : request[r] = "pending" => request'[r] = "pending"
    PROVE  JobsHonest'
<1>1. JobsHonest
  BY DEF SessionInv
<1>2. \A t \in TsTraces : AsksOf(gathering[t], chain[t]) \subseteq Calling /\ CallsOf(chain[t]) \subseteq TsCalls
  BY QueuesAre
<1>3. \A t \in TsTraces : \A r \in AsksOf(gathering[t], chain[t]) : Waiting(t, r) => Waiting(t, r)'
  BY <1>2 DEF Waiting, TheCall
<1> QED BY <1>1, <1>2, <1>3 DEF JobsHonest

\* The queues of one trace change; those of the others see nothing of it.
LEMMA JobsMove ==
    ASSUME SessionInv, NEW t \in TsTraces,
           \A x \in TsTraces : x # t => gathering'[x] = gathering[x] /\ chain'[x] = chain[x],
           Orderly(gathering'[t], chain'[t]),
           \A r \in AsksOf(gathering'[t], chain'[t]) : request'[r] = "pending" /\ TsTraceOf[TheCall(r)] = t,
           \A k \in CallsOf(chain'[t]) : tree'[k] = "chained" /\ TsTraceOf[k] = t,
           \A k \in TsCalls : tree[k] = "chained" /\ TsTraceOf[k] # t => tree'[k] = "chained",
           \A r \in Calling : request[r] = "pending" /\ TsTraceOf[TheCall(r)] # t => request'[r] = "pending"
    PROVE  JobsHonest'
<1>1. ASSUME NEW x \in TsTraces
      PROVE  /\ Orderly(gathering'[x], chain'[x])
             /\ \A r \in AsksOf(gathering'[x], chain'[x]) : request'[r] = "pending" /\ TsTraceOf[TheCall(r)] = x
             /\ \A k \in CallsOf(chain'[x]) : tree'[k] = "chained" /\ TsTraceOf[k] = x
  <2>1. CASE x = t
    BY <2>1
  <2>2. CASE x # t
    <3>1. /\ Orderly(gathering[x], chain[x])
          /\ \A r \in AsksOf(gathering[x], chain[x]) :
                 r \in Calling /\ request[r] = "pending" /\ TsTraceOf[TheCall(r)] = x
          /\ \A k \in CallsOf(chain[x]) : k \in TsCalls /\ tree[k] = "chained" /\ TsTraceOf[k] = x
      BY QueuesAre
    <3>2. gathering'[x] = gathering[x] /\ chain'[x] = chain[x]
      BY <2>2
    <3> QED BY <2>2, <3>1, <3>2
  <2> QED BY <2>1, <2>2
<1> QED BY <1>1 DEF JobsHonest, Waiting, Orderly, AsksOf, CallsOf, RequestsOf, TheCall

\* A request is gathered, of a call or of a load that did not wait.
LEMMA AskGathers ==
    ASSUME SessionInv, NEW r \in Calling, request[r] # "pending", NEW t \in TsTraces, t = TsTraceOf[TheCall(r)],
           request' = [request EXCEPT ![r] = "pending"], gathering' = [gathering EXCEPT ![t] = Append(@, r)],
           chain' = chain, \A k \in TsCalls : tree[k] = "chained" => tree'[k] = "chained"
    PROVE  /\ request' \in [Calling -> Outcomes] /\ request'[r] = "pending"
           /\ \A q \in Calling : q # r => request'[q] = request[q]
           /\ gathering' \in [TsTraces -> Seq(Calling)] /\ JobsHonest'
<1>1. SessionTyped
  BY DEF SessionInv
<1>2. /\ request' \in [Calling -> Outcomes] /\ request'[r] = "pending"
      /\ \A q \in Calling : q # r => request'[q] = request[q]
  BY <1>1 DEF SessionTyped, Outcomes
<1>3. /\ gathering[t] \in Seq(Calling) /\ chain[t] \in Seq(Jobs) /\ Orderly(gathering[t], chain[t])
      /\ AsksOf(gathering[t], chain[t]) \subseteq Calling
      /\ \A q \in AsksOf(gathering[t], chain[t]) : request[q] = "pending" /\ TsTraceOf[TheCall(q)] = t
      /\ \A k \in CallsOf(chain[t]) : k \in TsCalls /\ tree[k] = "chained" /\ TsTraceOf[k] = t
  BY QueuesAre
<1>4. /\ Append(gathering[t], r) \in Seq(Calling) /\ Orderly(Append(gathering[t], r), chain[t])
      /\ AsksOf(Append(gathering[t], r), chain[t]) = AsksOf(gathering[t], chain[t]) \cup {r}
  BY <1>3, AskJoins
<1>5. /\ gathering' \in [TsTraces -> Seq(Calling)] /\ gathering'[t] = Append(gathering[t], r)
      /\ \A x \in TsTraces : x # t => gathering'[x] = gathering[x]
  BY <1>1, <1>4 DEF SessionTyped
<1>6. \A q \in AsksOf(gathering'[t], chain'[t]) : request'[q] = "pending" /\ TsTraceOf[TheCall(q)] = t
  BY <1>2, <1>3, <1>4, <1>5
<1>7. JobsHonest'
  <2>1. /\ \A x \in TsTraces : x # t => gathering'[x] = gathering[x] /\ chain'[x] = chain[x]
        /\ Orderly(gathering'[t], chain'[t])
    BY <1>4, <1>5
  <2>2. /\ \A k \in CallsOf(chain'[t]) : tree'[k] = "chained" /\ TsTraceOf[k] = t
        /\ \A k \in TsCalls : tree[k] = "chained" /\ TsTraceOf[k] # t => tree'[k] = "chained"
    BY <1>3
  <2>3. \A q \in Calling : request[q] = "pending" /\ TsTraceOf[TheCall(q)] # t => request'[q] = "pending"
    BY <1>2
  <2> QED BY <1>6, <2>1, <2>2, <2>3, JobsMove
<1> QED BY <1>2, <1>5, <1>7

\* The first job of a chain stays the first.
LEMMA ChainGrows ==
    ASSUME SessionInv, UNCHANGED <<step, skeletons, store>>,
           \A t \in TsTraces : chain[t] # << >> => chain'[t] # << >> /\ Head(chain'[t]) = Head(chain[t])
    PROVE  StepsHonest'
<1>1. StepsHonest
  BY DEF SessionInv
<1>2. \A t \in TsTraces : JobNeeds(t, Head(chain[t])) /\ chain[t] # << >> => JobNeeds(t, Head(chain[t]))'
  BY DEF JobNeeds, Missing, RequestsOf, Wanted
<1> QED BY <1>1, <1>2 DEF StepsHonest

LEMMA CallMoves ==
    ASSUME SessionInv, NEW k \in TsCalls,
           UNCHANGED <<held, request, gathering, chain, step, readLine, skeletons, store, closing>>,
           tree' \in [TsCalls -> Places], SlotPool',
           tsLease' \in [TsCalls -> {"none", "open", "closing", "closed"}],
           \A d \in TsCalls : d # k =>
               /\ tree'[d] = tree[d] \/ (tree[d] = "waits" /\ tree'[d] = "granted")
               /\ tsLease'[d] = tsLease[d],
           /\ tree[k] \notin {"left", "raised"} /\ (tree[k] = "chained" => tree'[k] = "chained")
           /\ tree[k] = "new" => ~Aborted
           /\ tree'[k] \in {"new", "waits", "granted", "chained", "assembling"} => tsLease'[k] = "none"
           /\ tree'[k] \in {"ready", "preloading"} => tsLease'[k] # "none"
           /\ tree'[k] \in {"left", "raised"} => tsLease'[k] \in {"none", "closed"}
           /\ request[k] = "pending" => tree'[k] = "preloading"
           /\ Aborted => tsLease'[k] # "open",
           \A l \in TsLoads : TsAsks[l].call = k /\ request[l] \in {"pending", "loaded"} =>
               tsLease'[k] \in {"open", "closing"}
    PROVE  SessionInv'
<1>0. SessionTyped /\ TreesHonest /\ AsksHonest /\ StagesHonest
  BY DEF SessionInv
<1>2. SessionTyped'
  BY <1>0 DEF SessionTyped, SlotPool, Pool
<1>3. TreesHonest'
  <2>1. \A d \in TsCalls : d # k =>
            /\ tree'[d] \in {"new", "waits", "granted", "chained", "assembling"} => tsLease[d] = "none"
            /\ tree'[d] \in {"ready", "preloading"} => tsLease[d] # "none"
            /\ tree'[d] \in {"left", "raised"} => tsLease[d] \in {"none", "closed"}
            /\ request[d] = "pending" => tree'[d] = "preloading"
            /\ Aborted => tsLease[d] # "open"
    BY <1>0 DEF TreesHonest, Settled
  <2> QED BY <2>1 DEF TreesHonest, Settled, Aborted
<1>4. AsksHonest'
  BY <1>0, TsSessionBounds DEF AsksHonest, Wanted
<1>5. JobsHonest'
  BY JobsStay
<1>6. closing \notin {"loaders", "closed"}
  BY <1>0 DEF StagesHonest, OperationsEnded, Settled, Aborted
<1>7. StagesHonest'
  BY <1>6 DEF StagesHonest
<1> QED BY <1>2, <1>3, <1>4, <1>5, <1>7, SessionFrame DEF SessionInv

\* The call ends with no lease, or after it has ended.
LEMMA CallEnds ==
    ASSUME SessionInv, NEW k \in TsCalls, NEW end \in {"left", "raised"}, Ends(k, end),
           tree[k] \in Within \ {"chained", "preloading"}, tsLease[k] \in {"none", "closed"},
           UNCHANGED <<tsLease, held, request, gathering, chain, step, readLine, skeletons, store, closing>>
    PROVE  SessionInv'
<1>0. SessionTyped /\ TreesHonest /\ AsksHonest
  BY DEF SessionInv
<1>1. /\ tree' \in [TsCalls -> Places] /\ SlotPool' /\ tree'[k] = end
      /\ \A d \in TsCalls : d # k => tree'[d] = tree[d] \/ (tree[d] = "waits" /\ tree'[d] = "granted")
  BY EndPasses
<1>2. request[k] # "pending" /\ tree[k] \notin {"left", "raised", "chained", "new"}
  BY <1>0 DEF TreesHonest, Within
<1>3. \A l \in TsLoads : TsAsks[l].call = k => request[l] \notin {"pending", "loaded"}
  BY <1>0 DEF AsksHonest
<1>4. tsLease' \in [TsCalls -> {"none", "open", "closing", "closed"}] /\ tsLease'[k] \in {"none", "closed"}
  BY <1>0 DEF SessionTyped
<1> QED BY <1>1, <1>2, <1>3, <1>4, CallMoves

LEMMA TreeKeeps ==
    ASSUME SessionInv, NEW k \in TsCalls, TsTree(k) PROVE SessionInv'
<1>0. SessionTyped /\ TreesHonest /\ AsksHonest /\ tree[k] = "new" /\ ~Aborted
      /\ UNCHANGED <<tsLease, held, request, gathering, chain, step, readLine, skeletons, store, closing>>
  BY DEF SessionInv, TsTree
<1>1. /\ tree' \in [TsCalls -> Places] /\ SlotPool' /\ tree'[k] \in {"granted", "waits"}
      /\ \A d \in TsCalls : d # k => tree'[d] = tree[d]
  BY SlotAsked
<1>2. tsLease' \in [TsCalls -> {"none", "open", "closing", "closed"}] /\ tsLease'[k] = "none" /\ request[k] # "pending"
  BY <1>0 DEF SessionTyped, TreesHonest
<1>3. \A l \in TsLoads : TsAsks[l].call = k => request[l] \notin {"pending", "loaded"}
  BY <1>0 DEF AsksHonest, TreesHonest
<1> QED BY <1>0, <1>1, <1>2, <1>3, CallMoves

LEMMA LeaseStepKeeps ==
    ASSUME SessionInv, NEW k \in TsCalls, TsCloseLease(k) \/ TsRelease(k) \/ TsLeaveTree(k) \/ TsPreloaded(k)
    PROVE  SessionInv'
<1>0. SessionTyped /\ TreesHonest /\ AsksHonest
  BY DEF SessionInv
<1>1. CASE TsCloseLease(k)
  <2>1. /\ tree[k] = "ready" /\ tree' = tree /\ slotLine' = slotLine /\ tsLease' = [tsLease EXCEPT ![k] = "closing"]
        /\ UNCHANGED <<held, request, gathering, chain, step, readLine, skeletons, store, closing>>
    BY <1>1 DEF TsCloseLease
  <2>2. request[k] # "pending" /\ tree' \in [TsCalls -> Places] /\ SlotPool'
    BY <1>0, <2>1, SessionFrame DEF TreesHonest, SessionTyped
  <2>3. /\ tsLease' \in [TsCalls -> {"none", "open", "closing", "closed"}] /\ tsLease'[k] = "closing"
        /\ \A d \in TsCalls : d # k => tsLease'[d] = tsLease[d]
    BY <1>0, <2>1 DEF SessionTyped
  <2> QED BY <2>1, <2>2, <2>3, CallMoves
<1>2. CASE TsRelease(k)
  <2>1. /\ tsLease[k] = "closing" /\ tree' = tree /\ slotLine' = slotLine /\ tsLease' = [tsLease EXCEPT ![k] = "closed"]
        /\ \A l \in TsLoads : TsAsks[l].call = k => request[l] \notin {"pending", "loaded"}
        /\ UNCHANGED <<held, request, gathering, chain, step, readLine, skeletons, store, closing>>
    BY <1>2 DEF TsRelease
  <2>2. tree' \in [TsCalls -> Places] /\ SlotPool'
    BY <1>0, <2>1, SessionFrame DEF SessionTyped
  <2>3. /\ tree[k] \notin {"left", "raised", "new", "waits", "granted", "chained", "assembling"}
        /\ request[k] = "pending" => tree[k] = "preloading"
    BY <1>0, <2>1 DEF TreesHonest, Settled
  <2>4. /\ tsLease' \in [TsCalls -> {"none", "open", "closing", "closed"}] /\ tsLease'[k] = "closed"
        /\ \A d \in TsCalls : d # k => tsLease'[d] = tsLease[d]
    BY <1>0, <2>1 DEF SessionTyped
  <2> QED BY <2>1, <2>2, <2>3, <2>4, CallMoves
<1>3. CASE TsLeaveTree(k)
  <2>1. PICK end \in {"left", "raised"} : Ends(k, end)
    BY <1>3 DEF TsLeaveTree
  <2> QED BY <1>3, <2>1, CallEnds DEF TsLeaveTree, Within
<1>4. CASE TsPreloaded(k)
  <2>0. /\ tree[k] = "preloading" /\ request[k] # "pending" /\ slotLine' = slotLine
        /\ UNCHANGED <<held, request, gathering, chain, step, readLine, skeletons, store, closing>>
    BY <1>4 DEF TsPreloaded
  <2>1. PICK to \in {"leaving", "ready"} : tree' = [tree EXCEPT ![k] = to]
    BY <1>4 DEF TsPreloaded
  <2>2. /\ tsLease' \in [TsCalls -> {"none", "open", "closing", "closed"}]
        /\ \A d \in TsCalls : d # k => tsLease'[d] = tsLease[d]
        /\ tsLease[k] # "none"
        /\ tsLease'[k] = tsLease[k] \/ (tsLease'[k] = "closing" /\ tsLease[k] = "open")
    BY <1>0, <1>4, <2>0 DEF TsPreloaded, TreesHonest, SessionTyped
  <2>3. /\ tree' \in [TsCalls -> Places] /\ SlotPool' /\ tree'[k] = to
        /\ \A d \in TsCalls : d # k => tree'[d] = tree[d]
    <3>1. to \in Places /\ tree[k] \in Within /\ to \in Within
      BY <2>0 DEF Places, Within
    <3> QED BY <2>0, <2>1, <3>1, PlaceMoves
  <2>4. Aborted => tsLease'[k] # "open"
    BY <1>0, <2>2 DEF TreesHonest
  <2>5. \A l \in TsLoads : TsAsks[l].call = k /\ request[l] \in {"pending", "loaded"} =>
            tsLease'[k] \in {"open", "closing"}
    BY <1>0, <2>2 DEF AsksHonest
  <2> QED BY <2>0, <2>2, <2>3, <2>4, <2>5, CallMoves
<1> QED BY <1>1, <1>2, <1>3, <1>4

LEMMA AdmitKeeps ==
    ASSUME SessionInv, NEW k \in TsCalls, TsAdmit(k) PROVE SessionInv'
<1>0. /\ SessionTyped /\ TreesHonest /\ tree[k] = "granted" /\ tsLease[k] = "none"
      /\ UNCHANGED <<tsLease, held, request, gathering, step, readLine, skeletons, store, closing>>
  BY DEF SessionInv, TsAdmit, TreesHonest
<1>1. CASE Ends(k, "raised") /\ UNCHANGED chain
  BY <1>0, <1>1, CallEnds DEF Within
<1>2. CASE ~Aborted /\ tree' = [tree EXCEPT ![k] = "chained"] /\ slotLine' = slotLine
           /\ chain' = [chain EXCEPT ![TsTraceOf[k]] = Append(@, Job(k, << >>))]
  <2>1. PICK t \in TsTraces : t = TsTraceOf[k]
    BY DEF TsTraces
  <2>2. /\ tree' \in [TsCalls -> Places] /\ SlotPool' /\ tree'[k] = "chained"
        /\ \A d \in TsCalls : d # k => tree'[d] = tree[d]
    <3>1. "chained" \in Places /\ "chained" \in Within /\ tree[k] \in Within
      BY <1>0 DEF Places, Within
    <3> QED BY <1>2, <3>1, PlaceMoves
  <2>3. /\ gathering[t] \in Seq(Calling) /\ chain[t] \in Seq(Jobs) /\ Orderly(gathering[t], chain[t])
        /\ \A r \in AsksOf(gathering[t], chain[t]) : request[r] = "pending" /\ TsTraceOf[TheCall(r)] = t
        /\ \A d \in CallsOf(chain[t]) : d \in TsCalls /\ tree[d] = "chained" /\ TsTraceOf[d] = t
    BY QueuesAre
  <2>4. PICK job \in Jobs : job = Job(k, << >>) /\ job.call = k /\ job.requests = << >>
    <3>1. << >> \in Seq(Calling)
      OBVIOUS
    <3>2. [call |-> k, requests |-> << >>] \in Jobs
      BY <3>1 DEF Jobs
    <3> QED BY <3>2 DEF Job
  <2>5. job.call \in TsCalls \ CallsOf(chain[t])
    BY <1>0, <2>3, <2>4
  <2>6. /\ Append(chain[t], job) \in Seq(Jobs) /\ Orderly(gathering[t], Append(chain[t], job))
        /\ AsksOf(gathering[t], Append(chain[t], job)) = AsksOf(gathering[t], chain[t])
        /\ CallsOf(Append(chain[t], job)) = CallsOf(chain[t]) \cup ({job.call} \ {NoCall})
    BY <2>3, <2>4, <2>5, JobJoins
  <2>7. /\ chain' \in [TsTraces -> Seq(Jobs)] /\ chain'[t] = Append(chain[t], job)
        /\ \A x \in TsTraces : x # t => chain'[x] = chain[x]
    BY <1>0, <1>2, <2>1, <2>4, <2>6 DEF SessionTyped
  <2>8. JobsHonest'
    <3>1. \A d \in CallsOf(chain'[t]) : tree'[d] = "chained" /\ TsTraceOf[d] = t
      <4>1. CallsOf(chain'[t]) \subseteq CallsOf(chain[t]) \cup {k}
        BY <2>4, <2>6, <2>7
      <4>2. \A d \in CallsOf(chain[t]) : d \in TsCalls /\ (d # k => tree'[d] = tree[d])
        BY <2>2, <2>3
      <4> QED BY <2>1, <2>2, <2>3, <4>1, <4>2
    <3>2. \A r \in AsksOf(gathering'[t], chain'[t]) : request'[r] = "pending" /\ TsTraceOf[TheCall(r)] = t
      BY <1>0, <2>3, <2>6, <2>7
    <3> QED BY <1>0, <2>2, <2>6, <2>7, <3>1, <3>2, JobsMove
  <2>9. StepsHonest'
    <3>1. chain[t] # << >> => chain'[t] # << >> /\ Head(chain'[t]) = Head(chain[t])
      BY <2>3, <2>7, AppendAt
    <3> QED BY <1>0, <2>7, <3>1, ChainGrows
  <2>10. SessionTyped'
    BY <1>0, <2>2, <2>7 DEF SessionTyped, SlotPool, Pool
  <2>11. TreesHonest'
    BY <1>0, <2>2 DEF TreesHonest, Settled, Aborted
  <2>12. StagesHonest'
    BY <1>0, <1>2 DEF StagesHonest, Aborted
  <2> QED BY <1>0, <2>2, <2>8, <2>9, <2>10, <2>11, <2>12, SessionFrame DEF SessionInv
<1> QED BY <1>1, <1>2 DEF TsAdmit

LEMMA AssembleKeeps ==
    ASSUME SessionInv, NEW k \in TsCalls, TsAssemble(k) PROVE SessionInv'
<1>0. /\ SessionTyped /\ TreesHonest /\ AsksHonest /\ tree[k] = "assembling" /\ tsLease[k] = "none" /\ request[k] # "pending"
      /\ UNCHANGED <<held, chain, step, readLine, skeletons, store, closing>>
      /\ \A l \in TsLoads : TsAsks[l].call = k => request[l] \notin {"pending", "loaded"}
  BY DEF SessionInv, TsAssemble, TreesHonest, AsksHonest
<1>1. CASE Ends(k, "raised") /\ UNCHANGED <<tsLease, request, gathering>>
  BY <1>0, <1>1, CallEnds DEF Within
<1>2. CASE ~(Ends(k, "raised") /\ UNCHANGED <<tsLease, request, gathering>>)
  <2>0. /\ slotLine' = slotLine
        /\ tsLease' = [tsLease EXCEPT ![k] = IF Aborted THEN "closing" ELSE "open"]
        /\ tree' = [tree EXCEPT ![k] = IF Aborted THEN "leaving" ELSE IF use.lazy THEN "ready" ELSE "preloading"]
        /\ IF Aborted \/ use.lazy THEN UNCHANGED <<request, gathering>>
           ELSE /\ request' = [request EXCEPT ![k] = "pending"]
                /\ gathering' = [gathering EXCEPT ![TsTraceOf[k]] = Append(@, k)]
    BY <1>2 DEF TsAssemble
  <2>1. PICK to \in {"leaving", "ready", "preloading"} :
            /\ tree' = [tree EXCEPT ![k] = to] /\ (Aborted <=> to = "leaving")
            /\ to = "preloading" <=> ~(Aborted \/ use.lazy)
    BY <2>0
  <2>2. /\ tree' \in [TsCalls -> Places] /\ SlotPool' /\ tree'[k] = to
        /\ \A d \in TsCalls : d # k => tree'[d] = tree[d]
    <3>1. to \in Places /\ to \in Within /\ tree[k] \in Within
      BY <1>0 DEF Places, Within
    <3> QED BY <2>0, <2>1, <3>1, PlaceMoves
  <2>3. /\ tsLease' \in [TsCalls -> {"none", "open", "closing", "closed"}]
        /\ \A d \in TsCalls : d # k => tsLease'[d] = tsLease[d]
        /\ tsLease'[k] \in {"open", "closing"} /\ (Aborted => tsLease'[k] = "closing")
    BY <1>0, <2>0 DEF SessionTyped
  <2>4. CASE to # "preloading"
    <3>1. UNCHANGED <<request, gathering>>
      BY <2>0, <2>1, <2>4
    <3> QED BY <1>0, <2>2, <2>3, <2>4, <3>1, CallMoves
  <2>5. CASE to = "preloading"
    <3>1. ~Aborted /\ request' = [request EXCEPT ![k] = "pending"]
          /\ gathering' = [gathering EXCEPT ![TsTraceOf[k]] = Append(@, k)]
      BY <2>0, <2>1, <2>5
    <3>2. k \in Calling /\ TheCall(k) = k /\ TsTraceOf[k] \in TsTraces
          /\ \A d \in TsCalls : d \in Calling /\ (tree[d] = "chained" => tree'[d] = "chained")
      BY <1>0, <2>2 DEF Calling, TheCall, TsTraces
    <3>3. /\ request' \in [Calling -> Outcomes] /\ request'[k] = "pending"
          /\ \A q \in Calling : q # k => request'[q] = request[q]
          /\ gathering' \in [TsTraces -> Seq(Calling)] /\ JobsHonest'
      BY <1>0, <3>1, <3>2, AskGathers
    <3>4. SessionTyped'
      BY <1>0, <2>2, <2>3, <3>3 DEF SessionTyped, SlotPool, Pool
    <3>5. TreesHonest'
      BY <1>0, <2>2, <2>3, <2>5, <3>2, <3>3 DEF TreesHonest, Settled, Aborted
    <3>6. AsksHonest'
      <4>1. \A l \in TsLoads : l \in Calling /\ l # k /\ TsAsks[l].call \in TsCalls
        BY TsSessionBounds DEF Calling
      <4> QED BY <1>0, <2>3, <3>3, <4>1 DEF AsksHonest, Wanted
    <3>7. StagesHonest'
      BY <1>0, <3>1 DEF StagesHonest, Aborted
    <3> QED BY <1>0, <2>2, <3>3, <3>4, <3>5, <3>6, <3>7, SessionFrame DEF SessionInv
  <2> QED BY <2>4, <2>5
<1> QED BY <1>1, <1>2

-----------------------------------------------------------------------------
(* Loads, the jobs they are gathered into, what they end in.               *)

\* Once every call has ended, nothing is waited for.
LEMMA QuietWhenEnded ==
    ASSUME SessionInv, \A k \in TsCalls : tree[k] = "new" \/ Settled(k)
    PROVE  /\ \A r \in Calling : request[r] # "pending"
           /\ \A t \in TsTraces : gathering[t] = << >>
           /\ \A k \in TsCalls : tsLease[k] \in {"none", "closed"}
<1>1. TreesHonest /\ AsksHonest
  BY DEF SessionInv
<1>2. \A k \in TsCalls : tsLease[k] \in {"none", "closed"} /\ request[k] # "pending"
  BY <1>1 DEF TreesHonest, Settled
<1>3. \A l \in TsLoads : request[l] # "pending"
  BY <1>1, <1>2, TsSessionBounds DEF AsksHonest
<1>4. \A r \in Calling : request[r] # "pending"
  BY <1>2, <1>3 DEF Calling
<1>5. ASSUME NEW t \in TsTraces, gathering[t] # << >> PROVE FALSE
  <2>1. gathering[t] \in Seq(Calling) /\ \A r \in AsksOf(gathering[t], chain[t]) : r \in Calling /\ request[r] = "pending"
    BY QueuesAre
  <2>2. 1 \in DOMAIN gathering[t]
    BY <1>5, <2>1
  <2>3. gathering[t][1] \in AsksOf(gathering[t], chain[t])
    BY <2>2 DEF AsksOf
  <2> QED BY <1>4, <2>1, <2>3
<1> QED BY <1>2, <1>4, <1>5

LEMMA TsLoadKeeps ==
    ASSUME SessionInv, NEW l \in TsLoads, TsLoad(l) PROVE SessionInv'
<1>0. /\ SessionTyped /\ TreesHonest /\ AsksHonest /\ ~Aborted
      /\ request[l] = "idle" /\ tsLease[TsAsks[l].call] = "open"
      /\ UNCHANGED <<tree, slotLine, tsLease, held, chain, step, readLine, skeletons, store, closing>>
  BY DEF SessionInv, TsLoad
<1>1. /\ l \in Calling /\ l \notin TsCalls /\ TheCall(l) = TsAsks[l].call /\ TsTraceOf[TheCall(l)] \in TsTraces
      /\ \A k \in TsCalls : k # l /\ k \in Calling
      /\ \A x \in TsLoads : x \in Calling
  BY TsSessionBounds DEF Calling, TheCall, TsTraces
<1>2. CASE Wanted(l) \subseteq held[TsAsks[l].call]
  <2>1. request' = [request EXCEPT ![l] = "loaded"] /\ gathering' = gathering
    BY <1>2 DEF TsLoad
  <2>2. request' \in [Calling -> Outcomes] /\ request'[l] = "loaded" /\ \A q \in Calling : q # l => request'[q] = request[q]
    BY <1>0, <1>1, <2>1 DEF SessionTyped, Outcomes
  <2>3. SessionTyped'
    BY <1>0, <2>1, <2>2 DEF SessionTyped
  <2>4. TreesHonest'
    BY <1>0, <1>1, <2>2 DEF TreesHonest, Settled, Aborted
  <2>5. AsksHonest'
    BY <1>0, <1>1, <1>2, <2>2 DEF AsksHonest, Wanted
  <2>6. JobsHonest'
    BY <1>0, <2>1, <2>2, JobsStay
  <2> QED BY <1>0, <2>3, <2>4, <2>5, <2>6, SessionFrame DEF SessionInv
<1>3. CASE ~(Wanted(l) \subseteq held[TsAsks[l].call])
  <2>1. /\ request' = [request EXCEPT ![l] = "pending"]
        /\ gathering' = [gathering EXCEPT ![TsTraceOf[TheCall(l)]] = Append(@, l)]
    BY <1>1, <1>3 DEF TsLoad
  <2>2. /\ request' \in [Calling -> Outcomes] /\ request'[l] = "pending"
        /\ \A q \in Calling : q # l => request'[q] = request[q]
        /\ gathering' \in [TsTraces -> Seq(Calling)] /\ JobsHonest'
    BY <1>0, <1>1, <2>1, AskGathers
  <2>3. SessionTyped'
    BY <1>0, <2>2 DEF SessionTyped
  <2>4. TreesHonest'
    BY <1>0, <1>1, <2>2 DEF TreesHonest, Settled, Aborted
  <2>5. AsksHonest'
    BY <1>0, <1>1, <2>2 DEF AsksHonest, Wanted
  <2> QED BY <1>0, <2>2, <2>3, <2>4, <2>5, SessionFrame DEF SessionInv
<1> QED BY <1>2, <1>3

LEMMA MicrotaskKeeps ==
    ASSUME SessionInv, NEW t \in TsTraces, Microtask(t) PROVE SessionInv'
<1>0. /\ SessionTyped /\ StagesHonest /\ gathering[t] # << >>
      /\ UNCHANGED <<tree, slotLine, tsLease, held, request, step, readLine, skeletons, store, closing>>
  BY DEF SessionInv, Microtask
<1>1. /\ gathering[t] \in Seq(Calling) /\ chain[t] \in Seq(Jobs) /\ Orderly(gathering[t], chain[t])
      /\ \A r \in AsksOf(gathering[t], chain[t]) : request[r] = "pending" /\ TsTraceOf[TheCall(r)] = t
      /\ \A d \in CallsOf(chain[t]) : tree[d] = "chained" /\ TsTraceOf[d] = t
  BY QueuesAre
<1>2. PICK job \in Jobs : job = Job(NoCall, gathering[t]) /\ job.call = NoCall /\ job.requests = gathering[t]
  <2>1. [call |-> NoCall, requests |-> gathering[t]] \in Jobs
    BY <1>1 DEF Jobs
  <2> QED BY <2>1 DEF Job
<1>3. PICK left \in Seq(Calling) : left = << >>
  <2>1. << >> \in Seq(Calling)
    OBVIOUS
  <2> QED BY <2>1
<1>4. /\ Append(chain[t], job) \in Seq(Jobs) /\ Orderly(left, Append(chain[t], job))
      /\ AsksOf(left, Append(chain[t], job)) = AsksOf(gathering[t], chain[t])
      /\ CallsOf(Append(chain[t], job)) = CallsOf(chain[t]) \cup ({job.call} \ {NoCall})
  <2>1. PICK asks \in Seq(Calling) : asks = gathering[t]
    BY <1>1
  <2>2. PICK jobs \in Seq(Jobs) : jobs = chain[t]
    BY <1>1
  <2>3. /\ Orderly(asks, jobs)
        /\ \/ job.call \in TsCalls \ CallsOf(jobs) /\ job.requests = << >> /\ left = asks
           \/ job.call = NoCall /\ job.requests = asks /\ left = << >>
    BY <1>1, <1>2, <1>3, <2>1, <2>2
  <2>4. /\ Append(jobs, job) \in Seq(Jobs) /\ Orderly(left, Append(jobs, job))
        /\ AsksOf(left, Append(jobs, job)) = AsksOf(asks, jobs)
        /\ CallsOf(Append(jobs, job)) = CallsOf(jobs) \cup ({job.call} \ {NoCall})
    BY <2>3, JobJoins
  <2> QED BY <2>1, <2>2, <2>4
<1>5. /\ chain' \in [TsTraces -> Seq(Jobs)] /\ chain'[t] = Append(chain[t], job)
      /\ \A x \in TsTraces : x # t => chain'[x] = chain[x]
      /\ gathering' \in [TsTraces -> Seq(Calling)] /\ gathering'[t] = left
      /\ \A x \in TsTraces : x # t => gathering'[x] = gathering[x]
  BY <1>0, <1>2, <1>3, <1>4 DEF SessionTyped, Microtask
<1>6. JobsHonest'
  <2>1. \A d \in CallsOf(chain'[t]) : tree'[d] = "chained" /\ TsTraceOf[d] = t
    BY <1>0, <1>1, <1>2, <1>4, <1>5
  <2>2. \A r \in AsksOf(gathering'[t], chain'[t]) : request'[r] = "pending" /\ TsTraceOf[TheCall(r)] = t
    BY <1>0, <1>1, <1>4, <1>5
  <2>3. Orderly(gathering'[t], chain'[t])
    BY <1>4, <1>5
  <2> QED BY <1>0, <1>5, <2>1, <2>2, <2>3, JobsMove
<1>7. StepsHonest'
  <2>1. chain[t] # << >> => chain'[t] # << >> /\ Head(chain'[t]) = Head(chain[t])
    BY <1>1, <1>5, AppendAt
  <2> QED BY <1>0, <1>5, <2>1, ChainGrows
<1>8. SessionTyped'
  BY <1>0, <1>5 DEF SessionTyped
<1>9. StagesHonest'
  <2>1. closing \notin {"loaders", "closed"}
    <3>1. ASSUME closing \in {"loaders", "closed"} PROVE FALSE
      <4>1. \A k \in TsCalls : tree[k] = "new" \/ Settled(k)
        BY <1>0, <3>1 DEF StagesHonest, OperationsEnded
      <4> QED BY <1>0, <4>1, QuietWhenEnded
    <3> QED BY <3>1
  <2> QED BY <1>0, <2>1 DEF StagesHonest
<1> QED BY <1>0, <1>6, <1>7, <1>8, <1>9, SessionFrame DEF SessionInv

LEMMA ConcludeKeeps ==
    ASSUME SessionInv, NEW l \in TsLoads, Conclude(l) PROVE SessionInv'
<1>0. /\ SessionTyped /\ TreesHonest /\ AsksHonest /\ request[l] = "loaded" /\ l \in Calling
      /\ UNCHANGED <<tree, slotLine, tsLease, held, gathering, chain, step, readLine, skeletons, store, closing>>
      /\ \A k \in TsCalls : k # l /\ k \in Calling
      /\ \A x \in TsLoads : x \in Calling
  BY TsSessionBounds DEF SessionInv, Conclude, Calling
<1>1. /\ request' \in [Calling -> Outcomes] /\ request'[l] \in {"raised", "computed"}
      /\ \A q \in Calling : q # l => request'[q] = request[q]
  BY <1>0 DEF SessionTyped, Outcomes, Conclude
<1>2. SessionTyped'
  BY <1>0, <1>1 DEF SessionTyped
<1>3. TreesHonest'
  BY <1>0, <1>1 DEF TreesHonest, Settled, Aborted
<1>4. AsksHonest'
  BY <1>0, <1>1 DEF AsksHonest, Wanted
<1>5. JobsHonest'
  BY <1>0, <1>1, JobsStay
<1> QED BY <1>0, <1>2, <1>3, <1>4, <1>5, SessionFrame DEF SessionInv

LEMMA BeginJobKeeps ==
    ASSUME SessionInv, NEW t \in TsTraces, BeginJob(t) PROVE SessionInv'
<1>0. /\ UNCHANGED <<tree, slotLine, tsLease, held, request, gathering, chain, skeletons, store, closing>>
      /\ StepsHonest /\ StagesHonest /\ chain[t] # << >> /\ step[t] = "idle" /\ t \in PoolUsers /\ t # Selection
      /\ \A x \in TsTraces : x \in PoolUsers
      /\ Selection \in PoolUsers
  BY TsNames DEF SessionInv, BeginJob, PoolUsers
<1>1. /\ step' \in [PoolUsers -> Steps] /\ ReadPool'
      /\ \A v \in PoolUsers : v # t => step'[v] = step[v]
      /\ step'[t] \in {"failed", "done"} \/ (step'[t] \in {"granted", "line"} /\ JobNeeds(t, Head(chain[t])))
  <2>1. CASE \E next \in {"failed", "done"} : Turns(t, next)
    <3>1. "failed" \in Steps /\ "done" \in Steps
      BY DEF Steps
    <3> QED BY <1>0, <2>1, <3>1, TurnKeeps
  <2>2. CASE JobNeeds(t, Head(chain[t])) /\ Enters(t)
    BY <1>0, <2>2, EnterKeeps
  <2> QED BY <2>1, <2>2 DEF BeginJob
<1>2. \A x \in TsTraces : step'[x] # "idle" => chain[x] # << >>
  BY <1>0, <1>1 DEF StepsHonest
<1>3. \A x \in TsTraces : step'[x] \in {"line", "granted", "reading"} => JobNeeds(x, Head(chain[x]))
  BY <1>0, <1>1 DEF StepsHonest
<1>4. closing \in {"loaders", "closed"} => step'[Selection] \in {"idle", "over"}
  BY <1>0, <1>1 DEF StagesHonest, OperationsEnded
<1> QED BY <1>0, <1>1, <1>2, <1>3, <1>4, StepMoves

-----------------------------------------------------------------------------
(* The end of a job: of all the queues, its own alone moves.               *)

\* What it does not answer stays as it is.
JobFreed(t, job) ==
    /\ \A x \in TsTraces : x # t => skeletons'[x] = skeletons[x] /\ store'[x] = store[x]
    /\ \A r \in Calling : r \notin RequestsOf(job) => request'[r] = request[r]
    /\ \A k \in TsCalls : tree[k] = "chained" /\ k # job.call => tree'[k] = "chained"
    /\ job.call = NoCall => tree' = tree

LEMMA JobEnds ==
    ASSUME SessionInv, NEW t \in TsTraces, chain[t] # << >>, step[t] \in {"done", "failed"},
           NEW job, job = Head(chain[t]),
           chain' = [chain EXCEPT ![t] = Tail(@)], Turns(t, "idle"), UNCHANGED <<tsLease, gathering, closing>>,
           JobFreed(t, job)
    PROVE  /\ step' \in [PoolUsers -> Steps] /\ chain' \in [TsTraces -> Seq(Jobs)]
           /\ ReadPool' /\ JobsHonest' /\ StepsHonest' /\ StagesHonest'
<1> USE DEF JobFreed
<1>0. SessionTyped /\ StepsHonest /\ StagesHonest
  BY DEF SessionInv
<1>1. /\ gathering[t] \in Seq(Calling) /\ chain[t] \in Seq(Jobs) /\ Orderly(gathering[t], chain[t])
      /\ AsksOf(gathering[t], chain[t]) \subseteq Calling /\ CallsOf(chain[t]) \subseteq TsCalls
      /\ \A r \in AsksOf(gathering[t], chain[t]) : request[r] = "pending" /\ TsTraceOf[TheCall(r)] = t
      /\ \A k \in CallsOf(chain[t]) : tree[k] = "chained" /\ TsTraceOf[k] = t
  BY QueuesAre
<1>2. /\ Tail(chain[t]) \in Seq(Jobs) /\ Orderly(gathering[t], Tail(chain[t]))
      /\ AsksOf(gathering[t], Tail(chain[t])) \subseteq AsksOf(gathering[t], chain[t]) \ RequestsOf(job)
      /\ RequestsOf(job) \subseteq AsksOf(gathering[t], chain[t])
      /\ CallsOf(Tail(chain[t])) \subseteq CallsOf(chain[t]) \ {job.call}
      /\ job.call # NoCall => job.call \in CallsOf(chain[t])
  BY <1>1, JobLeaves
<1>3. /\ chain' \in [TsTraces -> Seq(Jobs)] /\ chain'[t] = Tail(chain[t])
      /\ \A x \in TsTraces : x # t => chain'[x] = chain[x]
  BY <1>0, <1>2 DEF SessionTyped
<1>4. /\ step' \in [PoolUsers -> Steps] /\ ReadPool' /\ step'[t] = "idle"
      /\ \A v \in PoolUsers : v # t => step'[v] = step[v]
  <2>1. t \in PoolUsers /\ "idle" \in Steps
    BY DEF PoolUsers, Steps
  <2> QED BY <2>1, TurnKeeps
<1>5. JobsHonest'
  <2>1. \A r \in AsksOf(gathering'[t], chain'[t]) : request'[r] = "pending" /\ TsTraceOf[TheCall(r)] = t
    BY <1>1, <1>2, <1>3
  <2>2. \A k \in CallsOf(chain'[t]) : tree'[k] = "chained" /\ TsTraceOf[k] = t
    BY <1>1, <1>2, <1>3
  <2>3. \A k \in TsCalls : tree[k] = "chained" /\ TsTraceOf[k] # t => tree'[k] = "chained"
    BY <1>1, <1>2, TsNames
  <2>4. \A r \in Calling : request[r] = "pending" /\ TsTraceOf[TheCall(r)] # t => request'[r] = "pending"
    BY <1>1, <1>2
  <2>5. Orderly(gathering'[t], chain'[t]) /\ \A x \in TsTraces : x # t => gathering'[x] = gathering[x]
    BY <1>2, <1>3
  <2> QED BY <1>3, <2>1, <2>2, <2>3, <2>4, <2>5, JobsMove
<1>6. StepsHonest'
  <2>1. ASSUME NEW x \in TsTraces
        PROVE  /\ step'[x] # "idle" => chain'[x] # << >>
               /\ step'[x] \in {"line", "granted", "reading"} => JobNeeds(x, Head(chain[x]))' /\ x # t
    <3>1. CASE x = t
      BY <1>4, <3>1
    <3>2. CASE x # t
      <4>1. x \in PoolUsers /\ step'[x] = step[x] /\ chain'[x] = chain[x] /\ skeletons'[x] = skeletons[x] /\ store'[x] = store[x]
        BY <1>3, <1>4, <3>2 DEF PoolUsers
      <4>2. JobNeeds(x, Head(chain[x])) => JobNeeds(x, Head(chain[x]))'
        <5>1. Head(chain'[x]) = Head(chain[x]) /\ skeletons'[x] = skeletons[x] /\ store'[x] = store[x]
          BY <4>1
        <5>2. RequestsOf(Head(chain'[x])) = RequestsOf(Head(chain[x]))
          BY <5>1
        <5>3. {Wanted(r) : r \in RequestsOf(Head(chain'[x]))} = {Wanted(r) : r \in RequestsOf(Head(chain[x]))}
          BY <5>2 DEF Wanted
        <5>4. Missing(x, Head(chain[x]))' = Missing(x, Head(chain[x]))
          BY <5>1, <5>3 DEF Missing
        <5> QED BY <5>1, <5>4 DEF JobNeeds
      <4> QED BY <1>0, <3>2, <4>1, <4>2 DEF StepsHonest
    <3> QED BY <3>1, <3>2
  <2> QED BY <2>1 DEF StepsHonest
<1>7. StagesHonest'
  <2>1. closing # "closed"
    BY <1>0 DEF StagesHonest, JobsEnded
  <2>2. closing = "loaders" => job.call = NoCall
    BY <1>0, <1>1, <1>2 DEF StagesHonest, OperationsEnded, Settled
  <2>3. step'[Selection] = step[Selection]
    BY <1>4, TsNames DEF PoolUsers
  <2> QED BY <1>0, <2>1, <2>2, <2>3 DEF StagesHonest, OperationsEnded, Settled
<1> QED BY <1>3, <1>4, <1>5, <1>6, <1>7

\* What the first job of a chain stands for.
LEMMA JobStands ==
    ASSUME SessionInv, NEW t \in TsTraces, chain[t] # << >>, NEW job, job = Head(chain[t])
    PROVE  /\ job \in Jobs /\ job.requests \in Seq(Calling) /\ RequestsOf(job) \subseteq Calling
           /\ \A r \in RequestsOf(job) : request[r] = "pending" /\ TsTraceOf[TheCall(r)] = t
           /\ job.call # NoCall => job.call \in TsCalls /\ tree[job.call] = "chained" /\ RequestsOf(job) = {}
<1>1. /\ gathering[t] \in Seq(Calling) /\ chain[t] \in Seq(Jobs) /\ Orderly(gathering[t], chain[t])
      /\ AsksOf(gathering[t], chain[t]) \subseteq Calling /\ CallsOf(chain[t]) \subseteq TsCalls
      /\ \A r \in AsksOf(gathering[t], chain[t]) : request[r] = "pending" /\ TsTraceOf[TheCall(r)] = t
      /\ \A k \in CallsOf(chain[t]) : tree[k] = "chained" /\ TsTraceOf[k] = t
  BY QueuesAre
<1>2. /\ RequestsOf(job) \subseteq AsksOf(gathering[t], chain[t]) /\ job \in Jobs
      /\ job.call # NoCall => job.call \in CallsOf(chain[t]) /\ RequestsOf(job) = {}
  BY <1>1, JobLeaves
<1>3. job.requests \in Seq(Calling)
  BY <1>2 DEF Jobs
<1> QED BY <1>1, <1>2, <1>3

LEMMA RefusalKeeps ==
    ASSUME SessionInv, NEW t \in TsTraces, chain[t] # << >>, step[t] \in {"done", "failed"},
           NEW job, job = Head(chain[t]), NEW error \in {"raised", "too large"}, Refuses(t, job, error),
           chain' = [chain EXCEPT ![t] = Tail(@)], Turns(t, "idle"), UNCHANGED <<tsLease, gathering, closing>>
    PROVE  SessionInv'
<1>0. /\ SessionTyped /\ TreesHonest /\ AsksHonest /\ UNCHANGED <<held, skeletons, store>>
  BY DEF SessionInv, Refuses
<1>1. /\ job \in Jobs /\ RequestsOf(job) \subseteq Calling
      /\ job.call # NoCall => job.call \in TsCalls /\ tree[job.call] = "chained" /\ RequestsOf(job) = {}
  BY JobStands
<1>2. /\ request' \in [Calling -> Outcomes]
      /\ \A r \in Calling : request'[r] = IF r \in RequestsOf(job) THEN error ELSE request[r]
  BY <1>0 DEF SessionTyped, Outcomes, Refuses
<1>3. /\ tree' \in [TsCalls -> Places] /\ SlotPool'
      /\ \A k \in TsCalls : \/ tree'[k] = tree[k]
                            \/ tree[k] = "waits" /\ tree'[k] = "granted"
                            \/ k = job.call /\ tree[k] = "chained" /\ tree'[k] = "raised" /\ RequestsOf(job) = {}
      /\ job.call = NoCall => tree' = tree
  <2>1. CASE job.call = NoCall
    <3>1. tree' = tree /\ slotLine' = slotLine
      BY <2>1 DEF Refuses
    <3> QED BY <1>0, <3>1, SessionFrame DEF SessionTyped
  <2>2. CASE job.call # NoCall
    <3>1. Ends(job.call, "raised") /\ tree[job.call] \in Within
      BY <1>1, <2>2 DEF Refuses, Within
    <3>2. PICK k \in TsCalls : k = job.call
      BY <1>1, <2>2
    <3>3. /\ tree' \in [TsCalls -> Places] /\ SlotPool' /\ tree'[k] = "raised"
          /\ \A d \in TsCalls : d # k => tree'[d] = tree[d] \/ (tree[d] = "waits" /\ tree'[d] = "granted")
      BY <3>1, <3>2, EndPasses
    <3> QED BY <1>1, <2>2, <3>2, <3>3
  <2> QED BY <2>1, <2>2
<1>4. \A k \in TsCalls : k \in Calling
  BY DEF Calling
<1>5. \A l \in TsLoads : l \in Calling
  BY DEF Calling
<1>6. /\ step' \in [PoolUsers -> Steps] /\ chain' \in [TsTraces -> Seq(Jobs)]
      /\ ReadPool' /\ JobsHonest' /\ StepsHonest' /\ StagesHonest'
  <2>1. JobFreed(t, job)
    BY <1>0, <1>2, <1>3 DEF JobFreed
  <2> QED BY <2>1, JobEnds
<1>7. TreesHonest'
  BY <1>0, <1>2, <1>3, <1>4 DEF TreesHonest, Settled, Aborted
<1>8. AsksHonest'
  BY <1>0, <1>2, <1>5 DEF AsksHonest, Wanted
<1>9. HeldHonest'
  BY <1>0, SessionFrame
<1>10. SessionTyped'
  <2>1. slotLine' \in Seq(TsCalls) /\ readLine' \in Seq(PoolUsers)
    BY <1>3, <1>6 DEF SlotPool, ReadPool, Pool
  <2>2. /\ request' \in [Calling -> Outcomes] /\ tree' \in [TsCalls -> Places]
        /\ step' \in [PoolUsers -> Steps] /\ chain' \in [TsTraces -> Seq(Jobs)]
    BY <1>2, <1>3, <1>6
  <2> QED BY <1>0, <2>1, <2>2 DEF SessionTyped
<1> QED BY <1>3, <1>6, <1>7, <1>8, <1>9, <1>10 DEF SessionInv

LEMMA SkeletonKeeps ==
    ASSUME SessionInv, NEW t \in TsTraces, chain[t] # << >>, step[t] \in {"done", "failed"},
           NEW job, job = Head(chain[t]), job.call # NoCall,
           skeletons' = [skeletons EXCEPT ![t] = "saved"], tree' = [tree EXCEPT ![job.call] = "assembling"],
           UNCHANGED <<slotLine, held, request, store>>,
           chain' = [chain EXCEPT ![t] = Tail(@)], Turns(t, "idle"), UNCHANGED <<tsLease, gathering, closing>>
    PROVE  SessionInv'
<1>0. SessionTyped /\ TreesHonest
  BY DEF SessionInv
<1>1. PICK k \in TsCalls : k = job.call /\ tree[k] = "chained"
  BY JobStands
<1>2. /\ tree' \in [TsCalls -> Places] /\ SlotPool' /\ tree'[k] = "assembling"
      /\ \A d \in TsCalls : d # k => tree'[d] = tree[d]
  <2>1. "assembling" \in Places /\ "assembling" \in Within /\ tree[k] \in Within
    BY <1>1 DEF Places, Within
  <2> QED BY <1>1, <2>1, PlaceMoves
<1>3. skeletons' \in [TsTraces -> {"lacking", "saved"}] /\ \A x \in TsTraces : x # t => skeletons'[x] = skeletons[x]
  BY <1>0 DEF SessionTyped
<1>4. /\ step' \in [PoolUsers -> Steps] /\ chain' \in [TsTraces -> Seq(Jobs)]
      /\ ReadPool' /\ JobsHonest' /\ StepsHonest' /\ StagesHonest'
  <2>1. JobFreed(t, job)
    BY <1>1, <1>2, <1>3 DEF JobFreed
  <2> QED BY <2>1, JobEnds
<1>5. TreesHonest'
  BY <1>0, <1>1, <1>2 DEF TreesHonest, Settled, Aborted
<1>6. SessionTyped'
  BY <1>0, <1>2, <1>3, <1>4 DEF SessionTyped, SlotPool, ReadPool, Pool
<1> QED BY <1>2, <1>4, <1>5, <1>6, SessionFrame DEF SessionInv

-----------------------------------------------------------------------------
(* What a flush delivers: the last request of a lease decides what it holds. *)

Smaller == {p \in Nat \X Nat : p[1] < p[2]}

\* Counting down ends.
LEMMA SmallerWF == IsWellFoundedOn(Smaller, Nat)
<1>1. OpToRel(<, Nat) = Smaller
  BY DEF OpToRel, Smaller
<1> QED BY <1>1, NatLessThanWellFounded

\* Positions have a first,
LEMMA Least ==
    ASSUME NEW T \in SUBSET Nat, T # {} PROVE \E i \in T : \A j \in T : i <= j
<1>1. \E i \in T : \A j \in T : ~(<<j, i>> \in Smaller)
  <2> HIDE DEF Smaller
  <2> QED BY SmallerWF, WFMin
<1>2. PICK i \in T : \A j \in T : ~(<<j, i>> \in Smaller)
  BY <1>1
<1>3. ASSUME NEW j \in T PROVE i <= j
  <2>1. i \in Nat /\ j \in Nat /\ ~(<<j, i>> \in Smaller)
    BY <1>2
  <2>2. ~(j < i)
    BY <2>1 DEF Smaller
  <2> QED BY <2>1, <2>2
<1> QED BY <1>3

\* and, of finitely many, a last one.
LEMMA Last ==
    ASSUME NEW n \in Nat, NEW T \in SUBSET (1..n), T # {} PROVE \E i \in T : \A j \in T : j <= i
<1> DEFINE D == {d \in Nat : \E i \in T : d = n - i}
<1>1. D \in SUBSET Nat /\ D # {}
  <2>1. PICK i \in T : TRUE
    OBVIOUS
  <2>2. n - i \in Nat
    BY <2>1
  <2> QED BY <2>2
<1>2. PICK d \in D : \A x \in D : d <= x
  <2> HIDE DEF D
  <2> QED BY <1>1, Least
<1>3. PICK i \in T : d = n - i
  BY <1>2
<1>4. ASSUME NEW j \in T PROVE j <= i
  <2>1. i \in 1..n /\ j \in 1..n /\ n - j \in D
    OBVIOUS
  <2> QED BY <1>2, <1>3, <2>1
<1> QED BY <1>4

\* The requests of a job that go to the lease of k, among the first n.
Parts(job, n, k) == {i \in 1..n : TheCall(job.requests[i]) = k}
Given(job, n, k) == UNION {Wanted(job.requests[i]) : i \in Parts(job, n, k)}

LEMMA FilledIs ==
    ASSUME NEW job, NEW n, NEW k \in TsCalls PROVE TsFilled(job, n)[k] = held[k] \cup Given(job, n, k)
BY DEF TsFilled, Given, Parts

\* Every prefix that was answered fits, so every lease holds what fits.
LEMMA FilledFits ==
    ASSUME SessionInv, NEW job, job.requests \in Seq(Calling), NEW n \in 0..Len(job.requests),
           \A i \in 1..n : Fits(job, i), NEW k \in TsCalls
    PROVE  Cardinality(TsFilled(job, n)[k]) <= TsMaxItems
<1>1. CASE Parts(job, n, k) = {}
  <2>1. Given(job, n, k) = {}
    BY <1>1 DEF Given
  <2>2. TsFilled(job, n)[k] = held[k] \cup Given(job, n, k)
    BY FilledIs
  <2>3. TsFilled(job, n)[k] = held[k]
    BY <2>1, <2>2
  <2> QED BY <2>3 DEF SessionInv, HeldHonest
<1>2. CASE Parts(job, n, k) # {}
  <2>1. n \in Nat /\ Parts(job, n, k) \in SUBSET (1..n)
    BY DEF Parts
  <2>2. PICK i \in Parts(job, n, k) : \A j \in Parts(job, n, k) : j <= i
    BY <1>2, <2>1, Last
  <2>3. i \in 1..n /\ TheCall(job.requests[i]) = k
    BY DEF Parts
  <2>4. Parts(job, n, k) = Parts(job, i, k)
    BY <2>1, <2>2, <2>3 DEF Parts
  <2>5. TsFilled(job, n)[k] = TsFilled(job, i)[k]
    <3>1. Given(job, n, k) = Given(job, i, k)
      BY <2>4 DEF Given
    <3> QED BY <3>1, FilledIs
  <2> QED BY <2>3, <2>5 DEF Fits
<1> QED BY <1>1, <1>2

LEMMA DeliveryKeeps ==
    ASSUME SessionInv, NEW t \in TsTraces, chain[t] # << >>, step[t] \in {"done", "failed"},
           NEW job, job = Head(chain[t]), job.call = NoCall, Delivers(t, job),
           chain' = [chain EXCEPT ![t] = Tail(@)], Turns(t, "idle"), UNCHANGED <<tsLease, gathering, closing>>
    PROVE  SessionInv'
<1>0. /\ SessionTyped /\ TreesHonest /\ AsksHonest /\ HeldHonest /\ UNCHANGED <<tree, slotLine, skeletons>>
      /\ \A k \in TsCalls : k \in Calling
      /\ \A l \in TsLoads : l \in Calling /\ TsAsks[l].call \in TsCalls
  BY TsSessionBounds DEF SessionInv, Delivers, Calling
<1>1. /\ job.requests \in Seq(Calling) /\ RequestsOf(job) \subseteq Calling
      /\ \A r \in RequestsOf(job) : request[r] = "pending" /\ TsTraceOf[TheCall(r)] = t
  BY JobStands
<1>2. PICK n \in 0..Len(job.requests) :
          /\ \A i \in 1..n : Fits(job, i)
          /\ store' = [store EXCEPT ![t] = @ \cup Missing(t, job)]
          /\ held' = TsFilled(job, n)
          /\ request' = [r \in DOMAIN request |->
                           IF r \notin RequestsOf(job) THEN request[r]
                           ELSE IF \E i \in 1..n : job.requests[i] = r THEN "loaded"
                           ELSE IF Aborted THEN "raised" ELSE "too large"]
  BY DEF Delivers
<1>3. /\ request' \in [Calling -> Outcomes]
      /\ \A r \in Calling : r \notin RequestsOf(job) => request'[r] = request[r]
      /\ \A r \in RequestsOf(job) : request'[r] \in {"loaded", "raised", "too large"}
      /\ \A r \in RequestsOf(job) : request'[r] = "loaded" => \E i \in 1..n : job.requests[i] = r
  BY <1>0, <1>1, <1>2 DEF SessionTyped, Outcomes
<1>4. \A k \in TsCalls : held'[k] = held[k] \cup Given(job, n, k) /\ Cardinality(held'[k]) <= TsMaxItems
  <2> SUFFICES ASSUME NEW k \in TsCalls
               PROVE  held'[k] = held[k] \cup Given(job, n, k) /\ Cardinality(held'[k]) <= TsMaxItems
    OBVIOUS
  <2>1. TsFilled(job, n)[k] = held[k] \cup Given(job, n, k)
    BY FilledIs
  <2>2. Cardinality(TsFilled(job, n)[k]) <= TsMaxItems
    BY <1>1, <1>2, FilledFits
  <2> QED BY <1>2, <2>1, <2>2
<1>5. /\ \A i \in 1..n : job.requests[i] \in RequestsOf(job)
      /\ \A i \in 1..n : i \in DOMAIN job.requests
  BY <1>1 DEF RequestsOf
<1>6. /\ store'[t] = store[t] \cup UNION {Wanted(r) : r \in RequestsOf(job)}
      /\ \A x \in TsTraces : x # t => store'[x] = store[x]
      /\ store' = [x \in TsTraces |-> store'[x]]
  BY <1>0, <1>2 DEF SessionTyped, Missing
<1>7. /\ step' \in [PoolUsers -> Steps] /\ chain' \in [TsTraces -> Seq(Jobs)]
      /\ ReadPool' /\ JobsHonest' /\ StepsHonest' /\ StagesHonest'
  <2>1. JobFreed(t, job)
    BY <1>0, <1>3, <1>6 DEF JobFreed
  <2> QED BY <2>1, JobEnds
<1>8. TreesHonest'
  BY <1>0, <1>3 DEF TreesHonest, Settled, Aborted
<1>9. AsksHonest'
  <2> SUFFICES ASSUME NEW l \in TsLoads
      PROVE  /\ request'[l] \in {"pending", "loaded"} => tsLease[TsAsks[l].call] \in {"open", "closing"}
             /\ request'[l] \in {"loaded", "computed"} => Wanted(l) \subseteq held'[TsAsks[l].call]
    BY DEF AsksHonest, Wanted
  <2>1. CASE l \notin RequestsOf(job)
    <3>0. l \in Calling /\ TsAsks[l].call \in TsCalls
      BY <1>0
    <3>1. request'[l] = request[l] /\ held[TsAsks[l].call] \subseteq held'[TsAsks[l].call]
      BY <1>3, <1>4, <2>1, <3>0
    <3>2. /\ request[l] \in {"pending", "loaded"} => tsLease[TsAsks[l].call] \in {"open", "closing"}
          /\ request[l] \in {"loaded", "computed"} => Wanted(l) \subseteq held[TsAsks[l].call]
      BY <1>0 DEF AsksHonest
    <3>3. tsLease' = tsLease
      BY <1>0
    <3> QED BY <3>1, <3>2, <3>3
  <2>2. CASE l \in RequestsOf(job)
    <3>1. request[l] = "pending" /\ TheCall(l) = TsAsks[l].call
      BY <1>1, <2>2, TsSessionBounds DEF TheCall
    <3>2. request'[l] = "loaded" => Wanted(l) \subseteq Given(job, n, TsAsks[l].call)
      <4> SUFFICES ASSUME NEW i \in 1..n, job.requests[i] = l
                   PROVE  Wanted(l) \subseteq Given(job, n, TsAsks[l].call)
        BY <1>3, <2>2
      <4>1. i \in Parts(job, n, TsAsks[l].call)
        BY <3>1 DEF Parts
      <4>2. Wanted(job.requests[i]) \subseteq Given(job, n, TsAsks[l].call)
        BY <4>1 DEF Given
      <4> QED BY <4>2
    <3>3. request'[l] \notin {"pending", "computed"}
      BY <1>3, <2>2
    <3>4. held'[TsAsks[l].call] = held[TsAsks[l].call] \cup Given(job, n, TsAsks[l].call)
      BY <1>0, <1>4
    <3>5. tsLease[TsAsks[l].call] \in {"open", "closing"}
      BY <1>0, <3>1 DEF AsksHonest
    <3> QED BY <3>2, <3>3, <3>4, <3>5
  <2> QED BY <2>1, <2>2
<1>10. HeldHonest'
  <2> SUFFICES ASSUME NEW k \in TsCalls PROVE held'[k] \subseteq store'[TsTraceOf[k]]
    BY <1>4 DEF HeldHonest
  <2>1. TsTraceOf[k] \in TsTraces /\ held[k] \subseteq store[TsTraceOf[k]] /\ store[TsTraceOf[k]] \subseteq store'[TsTraceOf[k]]
    BY <1>0, <1>6 DEF HeldHonest, TsTraces
  <2>2. ASSUME NEW item \in Given(job, n, k) PROVE item \in store'[TsTraceOf[k]]
    <3>1. PICK i \in Parts(job, n, k) : item \in Wanted(job.requests[i])
      BY DEF Given
    <3>2. i \in 1..n /\ TheCall(job.requests[i]) = k
      BY DEF Parts
    <3>3. job.requests[i] \in RequestsOf(job) /\ TsTraceOf[k] = t
      BY <1>1, <1>5, <3>2
    <3> QED BY <1>6, <3>1, <3>3
  <2> QED BY <1>4, <2>1, <2>2
<1>11. SlotPool'
  BY <1>0, SessionFrame
<1>12. held' = [k \in TsCalls |-> held'[k]]
  BY <1>2 DEF TsFilled
<1>13. SessionTyped'
  <2>1. slotLine' \in Seq(TsCalls) /\ readLine' \in Seq(PoolUsers)
    BY <1>7, <1>11 DEF SlotPool, ReadPool, Pool
  <2>2. request' \in [Calling -> Outcomes]
    BY <1>3
  <2>3. store' = [x \in TsTraces |-> store'[x]]
    BY <1>6
  <2> QED BY <1>0, <1>7, <1>12, <2>1, <2>2, <2>3 DEF SessionTyped
<1> QED BY <1>7, <1>8, <1>9, <1>10, <1>11, <1>13 DEF SessionInv

LEMMA EndJobKeeps ==
    ASSUME SessionInv, NEW t \in TsTraces, EndJob(t) PROVE SessionInv'
<1>1. PICK job : job = Head(chain[t])
  OBVIOUS
<1>2. /\ chain[t] # << >> /\ step[t] \in {"done", "failed"}
      /\ chain' = [chain EXCEPT ![t] = Tail(@)] /\ Turns(t, "idle") /\ UNCHANGED <<tsLease, gathering, closing>>
      /\ \/ \E error \in {"raised", "too large"} : Refuses(t, job, error)
         \/ /\ job.call # NoCall /\ skeletons' = [skeletons EXCEPT ![t] = "saved"]
            /\ tree' = [tree EXCEPT ![job.call] = "assembling"] /\ UNCHANGED <<slotLine, held, request, store>>
         \/ job.call = NoCall /\ Delivers(t, job)
  BY <1>1 DEF EndJob
<1> QED BY <1>1, <1>2, RefusalKeeps, SkeletonKeeps, DeliveryKeeps

-----------------------------------------------------------------------------
(* The session closes.                                                     *)

LEMMA SessionCloseKeeps ==
    ASSUME SessionInv, TsSessionClose PROVE SessionInv'
<1>0. /\ SessionTyped /\ TreesHonest /\ AsksHonest /\ StepsHonest /\ SlotPool /\ ReadPool
      /\ UNCHANGED <<held, request, gathering, chain, skeletons, store>>
      /\ slotLine' = << >> /\ readLine' = << >> /\ closing' = "leases"
      /\ \A t \in TsTraces : t \in PoolUsers
      /\ \A l \in TsLoads : TsAsks[l].call \in TsCalls
  BY TsSessionBounds DEF SessionInv, TsSessionClose, PoolUsers
<1>1. /\ tree' \in [TsCalls -> Places]
      /\ \A k \in TsCalls : tree'[k] = IF tree[k] = "waits" THEN "raised" ELSE tree[k]
  BY <1>0 DEF SessionTyped, TsSessionClose, Places
<1>2. /\ step' \in [PoolUsers -> Steps]
      /\ \A u \in PoolUsers : step'[u] = IF step[u] = "line" THEN "failed" ELSE step[u]
  BY <1>0 DEF SessionTyped, TsSessionClose, Steps
<1>3. /\ tsLease' \in [TsCalls -> {"none", "open", "closing", "closed"}]
      /\ \A k \in TsCalls : tsLease'[k] = IF tsLease[k] = "open" THEN "closing" ELSE tsLease[k]
  BY <1>0 DEF SessionTyped, TsSessionClose
<1>4. SlotPool'
  <2>1. TsActive \in Nat /\ "waits" \notin Within /\ "raised" \notin Within /\ "raised" # "waits"
    BY TsSessionBounds DEF Within
  <2>2. Pool(tree', Within, "waits", << >>, TsCalls, TsActive)
    BY <1>0, <1>1, <2>1, PoolClears DEF SlotPool
  <2> QED BY <1>0, <2>2 DEF SlotPool
<1>5. ReadPool'
  <2>1. TsConcurrency \in Nat /\ "line" \notin {"granted", "reading"} /\ "failed" \notin {"granted", "reading"} /\ "failed" # "line"
    BY TsSessionBounds
  <2>2. Pool(step', {"granted", "reading"}, "line", << >>, PoolUsers, TsConcurrency)
    BY <1>0, <1>2, <2>1, PoolClears DEF ReadPool
  <2> QED BY <1>0, <2>2 DEF ReadPool
<1>6. TreesHonest'
  BY <1>0, <1>1, <1>3 DEF TreesHonest, Settled
<1>7. AsksHonest'
  BY <1>0, <1>3 DEF AsksHonest, Wanted
<1>8. JobsHonest'
  BY <1>0, <1>1, JobsStay
<1>9. StepsHonest'
  <2>1. ASSUME NEW t \in TsTraces
        PROVE  /\ step'[t] # "idle" => step[t] # "idle"
               /\ step'[t] \in {"line", "granted", "reading"} => step'[t] = step[t]
               /\ JobNeeds(t, Head(chain[t])) => JobNeeds(t, Head(chain[t]))'
    <3>1. JobNeeds(t, Head(chain[t])) => JobNeeds(t, Head(chain[t]))'
      BY <1>0 DEF JobNeeds, Missing, RequestsOf, Wanted
    <3> QED BY <1>0, <1>2, <3>1
  <2> QED BY <1>0, <2>1 DEF StepsHonest
<1>10. StagesHonest'
  BY <1>0 DEF StagesHonest
<1>11. SessionTyped'
  <2>1. << >> \in Seq(TsCalls) /\ << >> \in Seq(PoolUsers)
    OBVIOUS
  <2> QED BY <1>0, <1>1, <1>2, <1>3, <2>1 DEF SessionTyped
<1> QED BY <1>0, <1>4, <1>5, <1>6, <1>7, <1>8, <1>9, <1>10, <1>11, SessionFrame DEF SessionInv

LEMMA CloseStepKeeps ==
    ASSUME SessionInv, CloseStep PROVE SessionInv'
<1>0. /\ SessionTyped /\ TreesHonest /\ StagesHonest
      /\ UNCHANGED <<tree, slotLine, tsLease, held, request, gathering, chain, step, readLine, skeletons, store>>
      /\ closing # "open" /\ closing' \in {"operations", "loaders", "closed"}
      /\ closing' = "loaders" => OperationsEnded
      /\ closing' = "closed" => closing = "loaders" /\ JobsEnded
  BY DEF SessionInv, CloseStep, CloseStage
<1>1. SessionTyped'
  BY <1>0 DEF SessionTyped
<1>2. TreesHonest'
  BY <1>0 DEF TreesHonest, Settled, Aborted
<1>3. StagesHonest'
  BY <1>0 DEF StagesHonest, OperationsEnded, JobsEnded, Settled
<1> QED BY <1>0, <1>1, <1>2, <1>3, SessionFrame DEF SessionInv

LEMMA SessionStep ==
    ASSUME SessionInv, [TsSessionNext]_tsSessionVars PROVE SessionInv'
<1>1. CASE UNCHANGED tsSessionVars
  <2>1. SessionTyped'
    BY <1>1 DEF SessionInv, SessionTyped, tsSessionVars
  <2> QED BY <1>1, <2>1, SessionFrame DEF SessionInv, tsSessionVars
<1>2. CASE TsSessionStep
  BY <1>2, PoolStepKeeps, AdmitKeeps, AssembleKeeps, LeaseStepKeeps, ConcludeKeeps, MicrotaskKeeps, BeginJobKeeps,
     EndJobKeeps, SelectionKeeps, CloseStepKeeps DEF TsSessionStep
<1>3. CASE TsSelect \/ TsSessionClose \/ (\E k \in TsCalls : TsTree(k)) \/ (\E l \in TsLoads : TsLoad(l))
  BY <1>3, SelectionKeeps, SessionCloseKeeps, TreeKeeps, TsLoadKeeps
<1> QED BY <1>1, <1>2, <1>3 DEF TsSessionNext

-----------------------------------------------------------------------------
(* What the invariant says of the session.                                 *)

LEMMA SessionSound ==
    ASSUME SessionInv PROVE TsSessionSound
<1>0. SessionTyped /\ SlotPool /\ ReadPool /\ AsksHonest /\ StepsHonest /\ HeldHonest /\ StagesHonest
  BY DEF SessionInv
<1>1. PoolsExact
  <2>1. /\ SlotHolders = InUse(tree, Within, TsCalls)
        /\ InPool = InUse(step, {"granted", "reading"}, PoolUsers)
    BY DEF SlotHolders, InPool, InUse, Within
  <2> QED BY <1>0, <2>1 DEF PoolsExact, SlotPool, ReadPool, Pool
<1>2. ReadsNeeded
  BY <1>0 DEF ReadsNeeded, StepsHonest
<1>3. LeavesNothing
  <2>1. \A k \in TsCalls : held[k] \subseteq store[TsTraceOf[k]] /\ Cardinality(held[k]) <= TsMaxItems
    BY <1>0 DEF HeldHonest
  <2>2. \A l \in TsLoads : /\ request[l] = "computed" => Wanted(l) \subseteq held[TsAsks[l].call]
                           /\ tsLease[TsAsks[l].call] = "closed" => request[l] \notin {"pending", "loaded"}
    BY <1>0 DEF AsksHonest
  <2>3. ASSUME closing = "closed"
        PROVE  /\ \A k \in TsCalls : tsLease[k] \in {"none", "closed"} /\ request[k] # "pending"
               /\ InPool = {} /\ \A t \in TsTraces : gathering[t] = << >>
    <3>1. OperationsEnded /\ JobsEnded
      BY <1>0, <2>3 DEF StagesHonest
    <3>2. /\ \A r \in Calling : request[r] # "pending"
          /\ \A t \in TsTraces : gathering[t] = << >>
          /\ \A k \in TsCalls : tsLease[k] \in {"none", "closed"}
      BY <3>1, QuietWhenEnded DEF OperationsEnded
    <3>3. InPool = {}
      BY <1>0, <3>1 DEF InPool, PoolUsers, StepsHonest, JobsEnded, OperationsEnded
    <3> QED BY <3>2, <3>3 DEF Calling
  <2> QED BY <2>1, <2>2, <2>3 DEF LeavesNothing
<1> QED BY <1>1, <1>2, <1>3 DEF TsSessionSound

\* The pools of runtime.ts are exact over all datasets, a read asks for what
\* the store lacks, and a session that closed left nothing running.
THEOREM TsSessionIsSound ==
    TsSessionInit /\ [][TsSessionNext]_tsSessionVars => []TsSessionSound
<1>1. TsSessionInit => SessionInv
  BY SessionStarts
<1>2. SessionInv /\ [TsSessionNext]_tsSessionVars => SessionInv'
  BY SessionStep
<1>3. SessionInv => TsSessionSound
  BY SessionSound
<1> QED BY <1>1, <1>2, <1>3, PTL

-----------------------------------------------------------------------------
(* The inductive invariant of the loader.                                  *)

InLock(e) == lease[e] \in {"queued", "fetching", "extending"}

\* The skeleton lock of a stripe has one holder.
OneSkeleton ==
    \A e, f \in Leases :
        e # f /\ StripeOf[TraceOf[e]] = StripeOf[TraceOf[f]] => ~InLock(e) \/ ~InLock(f)

\* The store can serve what is held and what is frozen.
StoreHas ==
    /\ \A t \in Traces : \A s \in SpansOf[t] : skeleton[t] \subseteq cache[t][s]
    /\ \A e \in Leases : \A s \in Spans : loaded[e][s] \subseteq cache[TraceOf[e]][s]

\* A lease asks for the span set only if none is frozen, and is ready only with
\* the whole skeleton; the request it makes of its own lives while it extends.
LeasesHonest ==
    \A e \in Leases :
        /\ lease[e] \in {"queued", "fetching"} => skeleton[TraceOf[e]] = {}
        /\ lease[e] = "extending" =>
              /\ skeleton[TraceOf[e]] # {} /\ answer[e] # "idle"
              /\ \A s \in Ids(e) : skeleton[TraceOf[e]] \subseteq loaded[e][s]
              /\ answer[e] = "ok" => \A s \in Ids(e) : Wants(e) \subseteq loaded[e][s]
        /\ lease[e] = "ready" => skeleton[TraceOf[e]] = Structure
        /\ lease[e] \in {"new", "queued", "fetching"} => answer[e] = "idle"
        /\ answer[e] = "pending" => lease[e] = "extending"

\* Calls are made by ready leases, and an answer is given with what was asked.
LoadsHonest ==
    \A l \in Loads :
        /\ answer[l] # "idle" => lease[Lease(l)] = "ready"
        /\ answer[l] = "ok" => \A s \in Ids(l) : Wants(l) \subseteq loaded[Lease(l)][s]

QueuesHonest ==
    \A t \in Traces :
        /\ \A r \in Members(queue[t]) : Trace(r) = t /\ answer[r] # "idle"
        /\ queue[t] # << >> => skeleton[t] # {}

\* A flush reads for all who still wait; what it has found the store can serve,
\* and what it has yet to read the store lacks.
WorkHonest ==
    \A t \in Traces :
        /\ \A r \in Members(work[t].reqs) :
              Trace(r) = t /\ answer[r] # "idle" /\ (Live(r) => Wants(r) \subseteq work[t].fields)
        /\ \A s \in work[t].found : work[t].fields \subseteq cache[t][s]
        /\ \A s \in work[t].batch \cup work[t].missing : ~(work[t].fields \subseteq cache[t][s])
        /\ work[t].batch \cap work[t].missing = {}
        /\ Busy(t) => skeleton[t] # {}

LoaderInv ==
    /\ TypeOK /\ OneSkeleton /\ StoreHas /\ LeasesHonest /\ LoadsHonest /\ QueuesHonest
    /\ WorkHonest /\ ClosedIsQuiet

-----------------------------------------------------------------------------
(* What the operators of the loader give.                                  *)

LEMMA RequestTypes ==
    ASSUME NEW r \in Requests, TypeOK
    PROVE  /\ Lease(r) \in Leases /\ Trace(r) \in Traces /\ Ids(r) \subseteq Spans /\ Wants(r) \subseteq Fields
           /\ r \in Leases => Lease(r) = r /\ Trace(r) = TraceOf[r] /\ Ids(r) = SpansOf[TraceOf[r]]
           /\ r \in Loads => Lease(r) = Asks[r].lease /\ r \notin Leases /\ Wants(r) = Asks[r].fields
BY LoaderAssumption DEF TypeOK, Requests, Lease, Trace, Ids, Wants

\* What a request wants depends on the skeleton only.
LEMMA WantsStay ==
    ASSUME NEW r \in Requests
    PROVE  /\ skeleton' = skeleton => Wants(r)' = Wants(r)
           /\ skeleton'[Trace(r)] = skeleton[Trace(r)] => Wants(r)' = Wants(r)
           /\ r \in Loads => Wants(r)' = Wants(r)
           /\ Ids(r)' = Ids(r) /\ Lease(r)' = Lease(r) /\ Trace(r)' = Trace(r)
BY LoaderAssumption DEF Requests, Lease, Trace, Ids, Wants

LEMMA NobodyIdles == Members(<< >>) = {} /\ Members(Idle.reqs) = {}
BY DEF Members, Idle

LEMMA MembersAre ==
    ASSUME NEW q \in Seq(Requests)
    PROVE  /\ Members(q) \subseteq Requests
           /\ \A r \in Requests : Append(q, r) \in Seq(Requests) /\ Members(Append(q, r)) = Members(q) \cup {r}
<1>1. Members(q) \subseteq Requests
  BY DEF Members
<1>2. ASSUME NEW r \in Requests
      PROVE  Append(q, r) \in Seq(Requests) /\ Members(Append(q, r)) = Members(q) \cup {r}
  <2>1. /\ DOMAIN q = 1..Len(q) /\ DOMAIN Append(q, r) = 1..(Len(q) + 1) /\ Len(q) \in Nat
        /\ \A i \in 1..Len(q) : Append(q, r)[i] = q[i]
        /\ Append(q, r)[Len(q) + 1] = r
    OBVIOUS
  <2>2. \A i \in 1..(Len(q) + 1) : i \in 1..Len(q) \/ i = Len(q) + 1
    BY <2>1
  <2> QED BY <2>1, <2>2 DEF Members
<1> QED BY <1>1, <1>2

LEMMA IdleIsTask == Idle \in Tasks
BY DEF Idle, Tasks

LEMMA StartTyped ==
    ASSUME Init PROVE LoaderInv
<1>1. TypeOK
  BY LoaderAssumption, IdleIsTask DEF Init, TypeOK
<1>2. OneSkeleton /\ LeasesHonest /\ ClosedIsQuiet
  BY DEF Init, OneSkeleton, InLock, LeasesHonest, ClosedIsQuiet, Requests
<1>3. StoreHas
  BY LoaderAssumption, <1>1 DEF Init, StoreHas, TypeOK
<1>4. LoadsHonest /\ QueuesHonest
  BY NobodyIdles DEF Init, LoadsHonest, QueuesHonest, Requests
<1>5. WorkHonest
  BY NobodyIdles DEF Init, WorkHonest, Idle, Busy
<1> QED BY <1>1, <1>2, <1>3, <1>4, <1>5 DEF LoaderInv

-----------------------------------------------------------------------------
(* How answers are given.                                                  *)

\* A future is settled once, and with what its request wants if with "ok".
Settles(r) ==
    \/ answer'[r] = answer[r]
    \/ /\ answer[r] = "pending" /\ answer'[r] \in {"ok", "failed", "left"}
       /\ answer'[r] = "ok" => \A s \in Ids(r) : Wants(r) \subseteq loaded'[Lease(r)][s]

\* What a lease holds grows, and stays within the store.
Grows ==
    /\ loaded' \in [Leases -> [Spans -> SUBSET Fields]]
    /\ \A e \in Leases : \A s \in Spans :
          loaded[e][s] \subseteq loaded'[e][s] /\ loaded'[e][s] \subseteq cache'[TraceOf[e]][s]

LEMMA FailuresSettle ==
    ASSUME TypeOK, NEW reqs, answer' = FailAll(reqs)
    PROVE  /\ answer' \in [Requests -> {"idle", "pending", "ok", "failed", "left"}]
           /\ \A r \in Requests : Settles(r)
BY DEF TypeOK, FailAll, Settles, Live

LEMMA DeliveriesSettle ==
    ASSUME LoaderInv, NEW t \in Traces, NEW reqs \in Seq(Requests), NEW found \in SUBSET Spans,
           cache' \in [Traces -> [Spans -> SUBSET Fields]],
           \A x \in Traces : \A s \in Spans : cache[x][s] \subseteq cache'[x][s],
           \A r \in Members(reqs) : Trace(r) = t,
           \A r \in Members(reqs) : \A s \in found : Live(r) => Wants(r) \subseteq cache'[t][s],
           Deliver(reqs, found)
    PROVE  /\ answer' \in [Requests -> {"idle", "pending", "ok", "failed", "left"}]
           /\ \A r \in Requests : Settles(r)
           /\ Grows
<1>0. TypeOK /\ StoreHas
  BY DEF LoaderInv
<1>1. /\ DOMAIN reqs = 1..Len(reqs) /\ Len(reqs) \in Nat
      /\ \A i \in 1..Len(reqs) : reqs[i] \in Members(reqs) /\ reqs[i] \in Requests
  BY DEF Members
<1>2. PICK n \in 1..(Len(reqs) + 1) :
          /\ answer' = Answered(reqs, found, n)
          /\ loaded' = Filled(reqs, found, IF n <= Len(reqs) THEN n ELSE Len(reqs))
  BY DEF Deliver
<1>3. PICK m : m = (IF n <= Len(reqs) THEN n ELSE Len(reqs))
  OBVIOUS
<1>4. m \in Nat /\ m <= Len(reqs) /\ \A i \in 1..(n - 1) : i \in 1..m
  <2>1. Len(reqs) \in Nat /\ n \in Nat /\ n <= Len(reqs) + 1
    BY <1>1
  <2>2. CASE n <= Len(reqs)
    BY <1>3, <2>1, <2>2
  <2>3. CASE n = Len(reqs) + 1
    BY <1>3, <2>1, <2>3
  <2>4. n <= Len(reqs) \/ n = Len(reqs) + 1
    BY <2>1
  <2> QED BY <2>2, <2>3, <2>4
<1> DEFINE whose(e, s) == {j \in 1..m : /\ Complete(reqs[j], found) /\ Lease(reqs[j]) = e
                                        /\ s \in Ids(reqs[j])}
<1>5. \A e \in Leases : \A s \in Spans :
          loaded'[e][s] = loaded[e][s] \cup UNION {Wants(reqs[i]) : i \in whose(e, s)}
  BY <1>2, <1>3 DEF Filled
<1>6. ASSUME NEW e \in Leases, NEW s \in Spans, NEW i \in whose(e, s)
      PROVE  Wants(reqs[i]) \subseteq Fields /\ Wants(reqs[i]) \subseteq cache'[TraceOf[e]][s]
  <2>1. i \in 1..Len(reqs)
    BY <1>1, <1>4
  <2>2. reqs[i] \in Requests /\ Trace(reqs[i]) = t /\ Live(reqs[i]) /\ s \in found /\ reqs[i] \in Members(reqs)
    BY <1>1, <2>1 DEF Complete
  <2>3. TraceOf[e] = t
    BY <2>2 DEF Trace
  <2> QED BY <1>0, <2>2, <2>3, RequestTypes
<1>7. Grows
  <2>1. \A e \in Leases : \A s \in Spans :
            loaded[e][s] \in SUBSET Fields /\ loaded[e][s] \subseteq cache'[TraceOf[e]][s]
    BY <1>0, LoaderAssumption DEF TypeOK, StoreHas
  <2>2. ASSUME NEW e \in Leases, NEW s \in Spans, NEW f \in loaded'[e][s]
        PROVE  f \in Fields /\ f \in cache'[TraceOf[e]][s]
    <3>1. f \in loaded[e][s] \/ \E i \in whose(e, s) : f \in Wants(reqs[i])
      BY <1>5, <2>2
    <3>2. CASE \E i \in whose(e, s) : f \in Wants(reqs[i])
      <4>1. PICK i \in whose(e, s) : f \in Wants(reqs[i])
        BY <3>2
      <4> HIDE DEF whose
      <4> QED BY <1>6, <4>1
    <3> QED BY <2>1, <3>1, <3>2
  <2>4. loaded' \in [Leases -> [Spans -> SUBSET Fields]]
    BY <1>2, <2>2 DEF Filled
  <2> QED BY <1>5, <2>2, <2>4 DEF Grows
<1>8. answer' \in [Requests -> {"idle", "pending", "ok", "failed", "left"}]
  BY <1>0, <1>2 DEF Answered, TypeOK
<1>9. ASSUME NEW r \in Requests PROVE Settles(r)
  <2>1. CASE ~(r \in Members(reqs) /\ Live(r))
    BY <1>2, <2>1 DEF Answered, Settles
  <2>2. CASE r \in Members(reqs) /\ Live(r)
    <3>1. answer'[r] = IF Ids(r) \subseteq found /\ \E i \in 1..(n - 1) : reqs[i] = r
                       THEN "ok" ELSE "failed"
      BY <1>2, <2>2 DEF Answered
    <3>2. ASSUME answer'[r] = "ok", NEW s \in Ids(r) PROVE Wants(r) \subseteq loaded'[Lease(r)][s]
      <4>1. Ids(r) \subseteq found /\ \E i \in 1..(n - 1) : reqs[i] = r
        BY <3>1, <3>2
      <4>2. PICK i \in 1..(n - 1) : reqs[i] = r
        BY <4>1
      <4>3. i \in whose(Lease(r), s)
        BY <1>4, <2>2, <4>1, <4>2 DEF Complete
      <4>4. Lease(r) \in Leases /\ s \in Spans
        BY <1>0, RequestTypes
      <4> QED BY <1>5, <4>2, <4>3, <4>4
    <3> QED BY <2>2, <3>1, <3>2 DEF Settles, Live
  <2> QED BY <2>1, <2>2
<1> QED BY <1>7, <1>8, <1>9

\* While skeletons and leases stay, settled answers and grown leases are honest.
LEMMA AnswersKeep ==
    ASSUME LoaderInv, UNCHANGED <<skeleton, lease>>, \A r \in Requests : Settles(r),
           \A e \in Leases : \A s \in Spans : loaded[e][s] \subseteq loaded'[e][s]
    PROVE  OneSkeleton' /\ LeasesHonest' /\ LoadsHonest'
<1>0. TypeOK /\ OneSkeleton /\ LeasesHonest /\ LoadsHonest
  BY DEF LoaderInv
<1>1. OneSkeleton'
  BY <1>0 DEF OneSkeleton, InLock
<1>2. LeasesHonest'
  <2> SUFFICES ASSUME NEW e \in Leases
      PROVE  /\ lease[e] \in {"queued", "fetching"} => skeleton[TraceOf[e]] = {}
             /\ lease[e] = "extending" =>
                   /\ skeleton[TraceOf[e]] # {} /\ answer'[e] # "idle"
                   /\ \A s \in Ids(e) : skeleton[TraceOf[e]] \subseteq loaded'[e][s]
                   /\ answer'[e] = "ok" => \A s \in Ids(e) : Wants(e) \subseteq loaded'[e][s]
             /\ lease[e] = "ready" => skeleton[TraceOf[e]] = Structure
             /\ lease[e] \in {"new", "queued", "fetching"} => answer'[e] = "idle"
             /\ answer'[e] = "pending" => lease[e] = "extending"
    BY WantsStay DEF LeasesHonest, Requests
  <2>1. e \in Requests /\ Ids(e) \subseteq Spans /\ Lease(e) = e
    BY <1>0, RequestTypes DEF Requests
  <2>2. Settles(e)
    BY <2>1
  <2> QED BY <1>0, <2>1, <2>2 DEF LeasesHonest, Settles
<1>3. LoadsHonest'
  <2> SUFFICES ASSUME NEW l \in Loads
      PROVE  /\ answer'[l] # "idle" => lease[Lease(l)] = "ready"
             /\ answer'[l] = "ok" => \A s \in Ids(l) : Wants(l) \subseteq loaded'[Lease(l)][s]
    BY WantsStay DEF LoadsHonest, Requests
  <2>1. l \in Requests /\ Ids(l) \subseteq Spans /\ Lease(l) \in Leases
    BY <1>0, RequestTypes DEF Requests
  <2>2. Settles(l)
    BY <2>1
  <2> QED BY <1>0, <2>1, <2>2 DEF LoadsHonest, Settles
<1> QED BY <1>1, <1>2, <1>3

\* So is the work under way, if it stays.
LEMMA WorkStays ==
    ASSUME LoaderInv, UNCHANGED <<skeleton, cache, work>>,
           \A r \in Requests : answer[r] # "idle" => answer'[r] # "idle" /\ (Live(r)' => Live(r))
    PROVE  WorkHonest'
<1>0. TypeOK /\ WorkHonest
  BY DEF LoaderInv
<1>1. \A t \in Traces : Members(work[t].reqs) \subseteq Requests
  BY <1>0, MembersAre DEF TypeOK, Tasks
<1> QED BY <1>0, <1>1, WantsStay DEF WorkHonest, Busy, Live

LEMMA QueuesStay ==
    ASSUME LoaderInv, UNCHANGED <<skeleton, queue>>,
           \A r \in Requests : answer[r] # "idle" => answer'[r] # "idle"
    PROVE  QueuesHonest'
<1>0. TypeOK /\ QueuesHonest
  BY DEF LoaderInv
<1>1. \A t \in Traces : Members(queue[t]) \subseteq Requests
  BY <1>0, MembersAre DEF TypeOK
<1> QED BY <1>0, <1>1, WantsStay DEF QueuesHonest

\* A request joins the queue of its trace, and a flush task is there for it.
LEMMA EnqueueKeeps ==
    ASSUME LoaderInv, NEW r \in Requests, Enqueue(r), answer[r] = "idle", phase = "open", phase' = phase,
           skeleton' = skeleton, skeleton[Trace(r)] # {}
    PROVE  /\ answer' \in [Requests -> {"idle", "pending", "ok", "failed", "left"}]
           /\ queue' \in [Traces -> Seq(Requests)] /\ flush' \in [Traces -> {"none", "waiting", "collecting"}]
           /\ \A t \in Traces : queue'[t] # << >> <=> flush'[t] # "none"
           /\ QueuesHonest'
<1>0. TypeOK /\ QueuesHonest /\ Trace(r) \in Traces
  BY RequestTypes DEF LoaderInv
<1>1. PICK t \in Traces : t = Trace(r)
  BY <1>0
<1>2. /\ answer' = [answer EXCEPT ![r] = "pending"]
      /\ queue' = [queue EXCEPT ![t] = Append(@, r)]
      /\ flush' = IF FirstInQueue(t) THEN [flush EXCEPT ![t] = "waiting"] ELSE flush
  BY <1>1 DEF Enqueue
<1>3. queue[t] \in Seq(Requests) /\ Members(queue[t]) \subseteq Requests
  BY <1>0, MembersAre DEF TypeOK
<1>4. /\ Append(queue[t], r) \in Seq(Requests) /\ Append(queue[t], r) # << >>
      /\ Members(Append(queue[t], r)) = Members(queue[t]) \cup {r}
  BY <1>3, MembersAre
<1>5. /\ queue' \in [Traces -> Seq(Requests)] /\ queue'[t] = Append(queue[t], r)
      /\ \A u \in Traces : u # t => queue'[u] = queue[u]
  BY <1>0, <1>2, <1>4 DEF TypeOK
<1>6. /\ flush' \in [Traces -> {"none", "waiting", "collecting"}] /\ flush'[t] # "none"
      /\ \A u \in Traces : u # t => flush'[u] = flush[u]
  BY <1>0, <1>2 DEF TypeOK, FirstInQueue
<1>7. \A u \in Traces : queue'[u] # << >> <=> flush'[u] # "none"
  BY <1>0, <1>4, <1>5, <1>6 DEF TypeOK
<1>8. /\ answer' \in [Requests -> {"idle", "pending", "ok", "failed", "left"}] /\ answer'[r] = "pending"
      /\ \A q \in Requests : q # r => answer'[q] = answer[q]
  BY <1>0, <1>2 DEF TypeOK
<1>9. QueuesHonest'
  <2> SUFFICES ASSUME NEW u \in Traces
               PROVE  /\ \A q \in Members(queue'[u]) : Trace(q) = u /\ answer'[q] # "idle"
                      /\ queue'[u] # << >> => skeleton[u] # {}
    BY WantsStay DEF QueuesHonest, Members, Trace, Lease
  <2>1. Members(queue[u]) \subseteq Requests
    BY <1>0, MembersAre DEF TypeOK
  <2>2. /\ \A q \in Members(queue[u]) : Trace(q) = u /\ answer[q] # "idle"
        /\ queue[u] # << >> => skeleton[u] # {}
    BY <1>0 DEF QueuesHonest
  <2>3. \A q \in Members(queue[u]) : Trace(q) = u /\ answer'[q] # "idle"
    BY <1>8, <2>1, <2>2
  <2>4. CASE u = t
    BY <1>1, <1>4, <1>5, <1>8, <2>3, <2>4
  <2>5. CASE u # t
    BY <1>5, <2>2, <2>3, <2>5
  <2> QED BY <2>4, <2>5
<1> QED BY <1>5, <1>6, <1>7, <1>8, <1>9

-----------------------------------------------------------------------------
(* Every step keeps the invariant.                                         *)

LEMMA LoadKeeps ==
    ASSUME LoaderInv, NEW l \in Loads, Load(l) PROVE LoaderInv'
<1>0. /\ TypeOK /\ OneSkeleton /\ StoreHas /\ LeasesHonest /\ LoadsHonest /\ WorkHonest /\ ClosedIsQuiet
      /\ UNCHANGED <<skeleton, cache, lease, loaded, phase>> /\ answer[l] = "idle" /\ lease[Lease(l)] = "ready"
      /\ l \in Requests /\ l \notin Leases /\ Lease(l) \in Leases /\ Trace(l) \in Traces /\ Ids(l) \subseteq Spans
  BY RequestTypes DEF LoaderInv, Load, storeVars, leaseVars, Requests
<1>1. work' = work
  BY DEF Load, Refuse, Return, Wait, flushVars
<1>2. PICK told \in {"ok", "failed", "pending"} :
          answer' = [answer EXCEPT ![l] = told] /\ (told = "ok" => AtHand(l))
  BY DEF Load, Refuse, Return, Wait, Enqueue
<1>3. /\ answer' \in [Requests -> {"idle", "pending", "ok", "failed", "left"}] /\ answer'[l] = told
      /\ \A r \in Requests : r # l => answer'[r] = answer[r]
  BY <1>0, <1>2 DEF TypeOK
<1>4. skeleton[Trace(l)] # {}
  BY <1>0, LoaderAssumption DEF LeasesHonest, Trace
<1>5. /\ queue' \in [Traces -> Seq(Requests)] /\ flush' \in [Traces -> {"none", "waiting", "collecting"}]
      /\ phase = "open" => \A t \in Traces : queue'[t] # << >> <=> flush'[t] # "none"
      /\ phase = "closed" => flush' = flush
      /\ QueuesHonest'
  <2>1. CASE Wait(l)
    BY <1>0, <1>4, <2>1, EnqueueKeeps DEF Wait
  <2>2. CASE Refuse(l) \/ Return(l)
    <3>1. queue' = queue /\ flush' = flush
      BY <2>2 DEF Refuse, Return, flushVars
    <3>2. QueuesHonest'
      BY <1>0, <1>2, <1>3, <3>1, QueuesStay
    <3> QED BY <1>0, <3>1, <3>2 DEF TypeOK
  <2> QED BY <2>1, <2>2 DEF Load
<1>6. TypeOK'
  BY <1>0, <1>1, <1>3, <1>5 DEF TypeOK
<1>7. OneSkeleton' /\ StoreHas' /\ ClosedIsQuiet'
  BY <1>0, <1>1, <1>5 DEF OneSkeleton, InLock, StoreHas, ClosedIsQuiet, Busy
<1>8. LeasesHonest'
  <2>1. \A e \in Leases : e \in Requests /\ answer'[e] = answer[e] /\ Wants(e)' = Wants(e) /\ Ids(e)' = Ids(e)
    BY <1>0, <1>3, WantsStay DEF Requests
  <2> QED BY <1>0, <2>1 DEF LeasesHonest
<1>9. LoadsHonest'
  <2>1. \A r \in Loads : /\ r \in Requests /\ Wants(r)' = Wants(r) /\ Ids(r)' = Ids(r) /\ Lease(r)' = Lease(r)
                         /\ r # l => answer'[r] = answer[r]
    BY <1>0, <1>3, WantsStay DEF Requests
  <2>2. told = "ok" => \A s \in Ids(l) : Wants(l) \subseteq loaded[Lease(l)][s]
    BY <1>2 DEF AtHand
  <2> QED BY <1>0, <1>3, <2>1, <2>2 DEF LoadsHonest
<1>10. WorkHonest'
  <2>1. \A r \in Requests : answer[r] # "idle" => answer'[r] # "idle" /\ (Live(r)' => Live(r))
    BY <1>0, <1>3 DEF Live
  <2> QED BY <1>0, <1>1, <2>1, WorkStays
<1> QED BY <1>5, <1>6, <1>7, <1>8, <1>9, <1>10 DEF LoaderInv

\* An answer or a cancellation, and nothing else.
LEMMA LeaveKeeps ==
    ASSUME LoaderInv, NEW l \in Loads, Leave(l) PROVE LoaderInv'
<1>0. /\ TypeOK /\ StoreHas /\ ClosedIsQuiet /\ answer[l] = "pending" /\ answer' = [answer EXCEPT ![l] = "left"]
      /\ UNCHANGED <<skeleton, cache, lease, loaded, queue, flush, work, phase>>
  BY DEF LoaderInv, Leave, storeVars, leaseVars, flushVars
<1>1. answer' \in [Requests -> {"idle", "pending", "ok", "failed", "left"}] /\ \A r \in Requests : Settles(r)
  BY <1>0 DEF TypeOK, Settles, Requests
<1>2. \A r \in Requests : answer[r] # "idle" => answer'[r] # "idle" /\ (Live(r)' => Live(r))
  BY <1>1 DEF Settles, Live
<1>3. OneSkeleton' /\ LeasesHonest' /\ LoadsHonest'
  BY <1>0, <1>1, AnswersKeep
<1>4. WorkHonest' /\ QueuesHonest'
  BY <1>0, <1>2, WorkStays, QueuesStay
<1>5. TypeOK' /\ StoreHas' /\ ClosedIsQuiet'
  BY <1>0, <1>1 DEF TypeOK, StoreHas, ClosedIsQuiet, Busy
<1> QED BY <1>3, <1>4, <1>5 DEF LoaderInv


\* A new span object holds what the skeleton gave.
LEMMA HoldingKeeps ==
    ASSUME LoaderInv, NEW e \in Leases, NEW fields \in SUBSET Fields, loaded' = Holding(e, fields),
           cache' \in [Traces -> [Spans -> SUBSET Fields]],
           \A x \in Traces : \A s \in Spans : cache[x][s] \subseteq cache'[x][s],
           \A s \in SpansOf[TraceOf[e]] : fields \subseteq cache'[TraceOf[e]][s]
    PROVE  /\ loaded' \in [Leases -> [Spans -> SUBSET Fields]]
           /\ \A f \in Leases : f # e => loaded'[f] = loaded[f]
           /\ \A s \in SpansOf[TraceOf[e]] : loaded'[e][s] = fields
           /\ \A f \in Leases : \A s \in Spans : loaded'[f][s] \subseteq cache'[TraceOf[f]][s]
<1> DEFINE mine == [s \in Spans |-> IF s \in SpansOf[TraceOf[e]] THEN fields ELSE {}]
<1>0. TypeOK /\ StoreHas /\ TraceOf[e] \in Traces /\ SpansOf[TraceOf[e]] \subseteq Spans
  BY LoaderAssumption DEF LoaderInv
<1>1. loaded' = [loaded EXCEPT ![e] = mine]
  BY DEF Holding
<1>2. mine \in [Spans -> SUBSET Fields] /\ \A s \in Spans : mine[s] \subseteq cache'[TraceOf[e]][s]
  OBVIOUS
<1>3. \A s \in SpansOf[TraceOf[e]] : mine[s] = fields
  BY <1>0
<1> HIDE DEF mine
<1>4. /\ loaded' \in [Leases -> [Spans -> SUBSET Fields]] /\ loaded'[e] = mine
      /\ \A f \in Leases : f # e => loaded'[f] = loaded[f]
  BY <1>0, <1>1, <1>2 DEF TypeOK
<1>5. \A f \in Leases : \A s \in Spans : loaded[f][s] \subseteq cache'[TraceOf[f]][s]
  BY <1>0, LoaderAssumption DEF StoreHas
<1> QED BY <1>2, <1>3, <1>4, <1>5

\* While the skeletons stay, a lease moves on alone; who is no holder of the lock yet takes it.
LEMMA LeaseMoves ==
    ASSUME LoaderInv, NEW e \in Leases, NEW to, lease' = [lease EXCEPT ![e] = to], skeleton' = skeleton,
           lease[e] # "ready",
           to \in {"queued", "fetching", "extending"} /\ ~InLock(e) => SkeletonLockFree(TraceOf[e]),
           \A f \in Leases : f # e => answer'[f] = answer[f] /\ loaded'[f] = loaded[f],
           \A l \in Loads : answer'[l] = answer[l],
           /\ to \in {"queued", "fetching"} => skeleton[TraceOf[e]] = {}
           /\ to = "extending" =>
                 /\ skeleton[TraceOf[e]] # {} /\ answer'[e] # "idle"
                 /\ \A s \in Ids(e) : skeleton[TraceOf[e]] \subseteq loaded'[e][s]
                 /\ answer'[e] = "ok" => \A s \in Ids(e) : Wants(e) \subseteq loaded'[e][s]
           /\ to = "ready" => skeleton[TraceOf[e]] = Structure
           /\ to \in {"new", "queued", "fetching"} => answer'[e] = "idle"
           /\ answer'[e] = "pending" => to = "extending"
    PROVE  OneSkeleton' /\ LeasesHonest' /\ LoadsHonest'
<1>0. /\ TypeOK /\ OneSkeleton /\ LeasesHonest /\ LoadsHonest /\ lease'[e] = to
      /\ \A f \in Leases : f # e => lease'[f] = lease[f]
  BY DEF LoaderInv, TypeOK
<1>1. OneSkeleton'
  <2> SUFFICES ASSUME NEW f \in Leases, NEW g \in Leases, f # g, StripeOf[TraceOf[f]] = StripeOf[TraceOf[g]]
               PROVE  ~InLock(f)' \/ ~InLock(g)'
    BY DEF OneSkeleton
  <2>1. ~InLock(f) \/ ~InLock(g)
    BY <1>0 DEF OneSkeleton
  <2>2. InLock(e)' /\ ~InLock(e) => \A h \in Leases : StripeOf[TraceOf[h]] = StripeOf[TraceOf[e]] => ~InLock(h)
    BY <1>0 DEF InLock, SkeletonLockFree
  <2>3. \A h \in Leases : h # e => InLock(h)' = InLock(h)
    BY <1>0 DEF InLock
  <2>4. CASE InLock(e)
    <3>1. \A h \in Leases : InLock(h)' => InLock(h)
      BY <2>3, <2>4
    <3> QED BY <2>1, <3>1
  <2>5. CASE ~InLock(e) /\ InLock(e)'
    BY <2>1, <2>2, <2>3, <2>5
  <2>6. CASE ~InLock(e)'
    BY <2>1, <2>3, <2>6
  <2> QED BY <2>4, <2>5, <2>6
<1>2. LeasesHonest'
  <2>1. \A f \in Leases : Wants(f)' = Wants(f) /\ Ids(f)' = Ids(f)
    BY WantsStay DEF Requests
  <2> QED BY <1>0, <2>1 DEF LeasesHonest
<1>3. LoadsHonest'
  <2>1. \A l \in Loads : /\ l \in Requests /\ Wants(l)' = Wants(l) /\ Ids(l)' = Ids(l) /\ Lease(l)' = Lease(l)
                         /\ Lease(l) \in Leases /\ (answer[l] # "idle" => Lease(l) # e)
    BY <1>0, WantsStay, RequestTypes DEF Requests, LoadsHonest
  <2> QED BY <1>0, <2>1 DEF LoadsHonest
<1> QED BY <1>1, <1>2, <1>3

LEMMA BeginKeeps ==
    ASSUME LoaderInv, NEW e \in Leases, Begin(e) PROVE LoaderInv'
<1>0. /\ TypeOK /\ OneSkeleton /\ StoreHas /\ LeasesHonest /\ LoadsHonest /\ WorkHonest /\ ClosedIsQuiet
      /\ UNCHANGED <<skeleton, cache, work, phase>> /\ lease[e] = "new" /\ StoreOpen
      /\ SkeletonLockFree(TraceOf[e]) /\ answer[e] = "idle"
      /\ e \in Requests /\ Lease(e) = e /\ Trace(e) = TraceOf[e] /\ Ids(e) = SpansOf[TraceOf[e]] /\ TraceOf[e] \in Traces
      /\ \A l \in Loads : l # e /\ l \in Requests
  BY RequestTypes, LoaderAssumption DEF LoaderInv, Begin, storeVars, Requests, LeasesHonest
<1>1. skeleton[TraceOf[e]] \in SUBSET Fields /\ Structure \in SUBSET Fields
  BY <1>0, LoaderAssumption DEF TypeOK
<1>2. \A x \in Traces : \A s \in Spans : cache[x][s] \subseteq cache'[x][s]
  BY <1>0
<1>3. cache' \in [Traces -> [Spans -> SUBSET Fields]]
  BY <1>0 DEF TypeOK
<1>4. CASE ExtendSaved(e) /\ phase = "open"
  <2>1. /\ loaded' = Holding(e, skeleton[TraceOf[e]]) /\ skeleton[TraceOf[e]] # {}
        /\ lease' = [lease EXCEPT ![e] = "extending"] /\ Enqueue(e)
    BY <1>4 DEF ExtendSaved
  <2>2. \A s \in SpansOf[TraceOf[e]] : skeleton[TraceOf[e]] \subseteq cache'[TraceOf[e]][s]
    BY <1>0 DEF StoreHas
  <2>3. /\ loaded' \in [Leases -> [Spans -> SUBSET Fields]]
        /\ \A f \in Leases : f # e => loaded'[f] = loaded[f]
        /\ \A s \in SpansOf[TraceOf[e]] : loaded'[e][s] = skeleton[TraceOf[e]]
        /\ \A f \in Leases : \A s \in Spans : loaded'[f][s] \subseteq cache'[TraceOf[f]][s]
    <3>1. PICK fields \in SUBSET Fields : fields = skeleton[TraceOf[e]]
      BY <1>1
    <3> QED BY <1>2, <1>3, <2>1, <2>2, <3>1, HoldingKeeps
  <2>4. /\ answer' \in [Requests -> {"idle", "pending", "ok", "failed", "left"}]
        /\ queue' \in [Traces -> Seq(Requests)] /\ flush' \in [Traces -> {"none", "waiting", "collecting"}]
        /\ \A t \in Traces : queue'[t] # << >> <=> flush'[t] # "none"
        /\ QueuesHonest'
    BY <1>0, <1>4, <2>1, EnqueueKeeps
  <2>5. answer'[e] = "pending" /\ \A r \in Requests : r # e => answer'[r] = answer[r]
    BY <1>0, <2>1 DEF Enqueue, TypeOK
  <2>6. OneSkeleton' /\ LeasesHonest' /\ LoadsHonest'
    <3>1. \A f \in Leases : f # e => answer'[f] = answer[f] /\ loaded'[f] = loaded[f]
      BY <2>3, <2>5 DEF Requests
    <3>2. \A l \in Loads : answer'[l] = answer[l]
      BY <1>0, <2>5
    <3>3. \A s \in Ids(e) : skeleton[TraceOf[e]] \subseteq loaded'[e][s]
      BY <1>0, <2>3
    <3> QED BY <1>0, <2>1, <2>5, <3>1, <3>2, <3>3, LeaseMoves
  <2>7. WorkHonest'
    <3>1. \A r \in Requests : answer[r] # "idle" => answer'[r] # "idle" /\ (Live(r)' => Live(r))
      BY <1>0, <2>5 DEF Live
    <3> QED BY <1>0, <3>1, WorkStays
  <2>8. TypeOK' /\ StoreHas' /\ ClosedIsQuiet'
    BY <1>0, <1>3, <1>4, <2>1, <2>3, <2>4 DEF TypeOK, StoreHas, ClosedIsQuiet
  <2> QED BY <2>4, <2>6, <2>7, <2>8 DEF LoaderInv
<1>5. CASE UseSaved(e) \/ AskSource(e) \/ (ExtendSaved(e) /\ phase # "open")
  <2>1. UNCHANGED <<answer, queue, flush>>
    BY <1>5 DEF UseSaved, AskSource, ExtendSaved
  <2>2. PICK to \in {"ready", "queued", "failed"} :
            /\ lease' = [lease EXCEPT ![e] = to]
            /\ to = "ready" => skeleton[TraceOf[e]] = Structure
            /\ to = "queued" => skeleton[TraceOf[e]] = {}
    BY <1>5 DEF UseSaved, AskSource, ExtendSaved
  <2>3. PICK fields \in SUBSET Fields :
            loaded' = loaded \/ (loaded' = Holding(e, fields) /\ fields = skeleton[TraceOf[e]])
    BY <1>1, <1>5 DEF UseSaved, AskSource, ExtendSaved
  <2>4. /\ loaded' \in [Leases -> [Spans -> SUBSET Fields]]
        /\ \A f \in Leases : f # e => loaded'[f] = loaded[f]
        /\ \A f \in Leases : \A s \in Spans : loaded'[f][s] \subseteq cache'[TraceOf[f]][s]
    <3>1. CASE loaded' = loaded
      BY <1>0, <3>1 DEF TypeOK, StoreHas
    <3>2. CASE loaded' = Holding(e, fields) /\ fields = skeleton[TraceOf[e]]
      <4>1. \A s \in SpansOf[TraceOf[e]] : fields \subseteq cache'[TraceOf[e]][s]
        BY <1>0, <3>2 DEF StoreHas
      <4> QED BY <1>2, <1>3, <3>2, <4>1, HoldingKeeps
    <3> QED BY <2>3, <3>1, <3>2
  <2>5. OneSkeleton' /\ LeasesHonest' /\ LoadsHonest'
    <3>1. \A f \in Leases : f # e => answer'[f] = answer[f] /\ loaded'[f] = loaded[f]
      BY <2>1, <2>4
    <3> QED BY <1>0, <2>1, <2>2, <3>1, LeaseMoves
  <2>6. WorkHonest' /\ QueuesHonest'
    BY <1>0, <2>1, WorkStays, QueuesStay DEF Live
  <2>7. TypeOK' /\ StoreHas' /\ ClosedIsQuiet'
    BY <1>0, <1>3, <2>1, <2>2, <2>4 DEF TypeOK, StoreHas, ClosedIsQuiet, Busy
  <2> QED BY <2>5, <2>6, <2>7 DEF LoaderInv
<1> QED BY <1>4, <1>5 DEF Begin

\* A lease moves on, and nothing else; its request may be given up.
LEMMA LeaseAlone ==
    ASSUME LoaderInv, NEW e \in Leases, lease[e] # "ready",
           NEW to \in {"fetching", "failed"}, lease' = [lease EXCEPT ![e] = to],
           to = "fetching" => lease[e] = "queued",
           answer' = answer \/ (answer[e] = "pending" /\ answer' = [answer EXCEPT ![e] = "left"]),
           answer'[e] # "pending",
           UNCHANGED <<skeleton, cache, loaded, queue, flush, work, phase>>
    PROVE  LoaderInv'
<1>0. TypeOK /\ StoreHas /\ LeasesHonest /\ ClosedIsQuiet /\ e \in Requests /\ e \notin Loads
  BY LoaderAssumption DEF LoaderInv, Requests
<1>1. /\ answer' \in [Requests -> {"idle", "pending", "ok", "failed", "left"}]
      /\ \A r \in Requests : r # e => answer'[r] = answer[r]
      /\ answer'[e] = answer[e] \/ (answer[e] = "pending" /\ answer'[e] = "left")
  BY <1>0 DEF TypeOK
<1>2. \A r \in Requests : answer[r] # "idle" => answer'[r] # "idle" /\ (Live(r)' => Live(r))
  BY <1>1 DEF Live
<1>3. OneSkeleton' /\ LeasesHonest' /\ LoadsHonest'
  <2>1. \A f \in Leases : f # e => answer'[f] = answer[f] /\ loaded'[f] = loaded[f]
    BY <1>1 DEF Requests
  <2>2. \A l \in Loads : answer'[l] = answer[l]
    BY <1>0, <1>1 DEF Requests
  <2>3. to \in {"queued", "fetching", "extending"} => InLock(e)
    BY DEF InLock
  <2>4. to \in {"new", "queued", "fetching"} => answer'[e] = "idle" /\ skeleton[TraceOf[e]] = {}
    BY <1>0, <1>1 DEF LeasesHonest
  <2> QED BY <1>0, <2>1, <2>2, <2>3, <2>4, LeaseMoves
<1>4. WorkHonest' /\ QueuesHonest'
  BY <1>2, WorkStays, QueuesStay
<1>5. TypeOK' /\ StoreHas' /\ ClosedIsQuiet'
  BY <1>0, <1>1 DEF TypeOK, StoreHas, ClosedIsQuiet, Busy
<1> QED BY <1>3, <1>4, <1>5 DEF LoaderInv

LEMMA LeaseMoveKeeps ==
    ASSUME LoaderInv, NEW e \in Leases, TurnAway(e) \/ Fetch(e) \/ NoSkeleton(e) \/ GiveUp(e)
    PROVE  LoaderInv'
<1>0. LeasesHonest /\ TypeOK /\ e \in Requests
  BY DEF LoaderInv, Requests
<1>1. UNCHANGED <<skeleton, cache, loaded, queue, flush, work, phase>>
  BY DEF TurnAway, Fetch, NoSkeleton, GiveUp, storeVars, flushVars
<1>2. CASE TurnAway(e) \/ NoSkeleton(e)
  <2>1. /\ lease[e] # "ready" /\ lease' = [lease EXCEPT ![e] = "failed"] /\ answer' = answer
        /\ answer[e] # "pending"
    BY <1>0, <1>2 DEF TurnAway, NoSkeleton, LeasesHonest
  <2> QED BY <1>1, <2>1, LeaseAlone
<1>3. CASE Fetch(e)
  <2>1. /\ lease[e] = "queued" /\ lease' = [lease EXCEPT ![e] = "fetching"] /\ answer' = answer
        /\ answer[e] # "pending"
    BY <1>0, <1>3 DEF Fetch, LeasesHonest
  <2> QED BY <1>1, <2>1, LeaseAlone
<1>4. CASE GiveUp(e)
  <2>1. /\ lease[e] # "ready" /\ lease' = [lease EXCEPT ![e] = "failed"]
        /\ answer' = IF answer[e] = "pending" THEN [answer EXCEPT ![e] = "left"] ELSE answer
    BY <1>4 DEF GiveUp
  <2>2. answer'[e] # "pending"
    BY <1>0, <2>1 DEF TypeOK
  <2> QED BY <1>1, <2>1, <2>2, LeaseAlone
<1> QED BY <1>2, <1>3, <1>4

\* A skeleton is complete: nobody else is about to change that of its trace.
LEMMA SkeletonComplete ==
    ASSUME LoaderInv, NEW e \in Leases, InLock(e), answer[e] # "pending",
           lease' = [lease EXCEPT ![e] = "ready"],
           skeleton' = [skeleton EXCEPT ![TraceOf[e]] = Structure],
           UNCHANGED <<answer, queue, flush, work, phase>>,
           cache' \in [Traces -> [Spans -> SUBSET Fields]],
           \A x \in Traces : \A s \in Spans : cache[x][s] \subseteq cache'[x][s],
           \A x \in Traces : cache'[x] = cache[x] \/ (x = TraceOf[e] /\ skeleton[x] = {}),
           \A s \in SpansOf[TraceOf[e]] : Structure \subseteq cache'[TraceOf[e]][s],
           loaded' \in [Leases -> [Spans -> SUBSET Fields]],
           \A f \in Leases : f # e => loaded'[f] = loaded[f],
           \A f \in Leases : \A s \in Spans : loaded'[f][s] \subseteq cache'[TraceOf[f]][s]
    PROVE  LoaderInv'
<1>0. /\ TypeOK /\ OneSkeleton /\ StoreHas /\ LeasesHonest /\ LoadsHonest /\ QueuesHonest /\ WorkHonest
      /\ ClosedIsQuiet
  BY DEF LoaderInv
<1>1. PICK t \in Traces : t = TraceOf[e]
  BY LoaderAssumption
<1>2. /\ skeleton' \in [Traces -> SUBSET Structure] /\ skeleton'[t] = Structure /\ Structure # {}
      /\ \A x \in Traces : x # t => skeleton'[x] = skeleton[x]
      /\ \A x \in Traces : SpansOf[x] \subseteq Spans
  BY <1>0, <1>1, LoaderAssumption DEF TypeOK
<1>3. /\ lease'[e] = "ready" /\ \A f \in Leases : f # e => lease'[f] = lease[f]
      /\ lease' \in [Leases -> {"new", "queued", "fetching", "extending", "ready", "failed"}]
  BY <1>0 DEF TypeOK
<1>4. \A f \in Leases : f # e /\ TraceOf[f] = t => ~InLock(f)
  BY <1>0, <1>1 DEF OneSkeleton
<1>5. TypeOK'
  BY <1>0, <1>2, <1>3 DEF TypeOK
<1>6. OneSkeleton'
  BY <1>0, <1>3 DEF OneSkeleton, InLock
<1>7. StoreHas'
  <2>1. ASSUME NEW x \in Traces, NEW s \in SpansOf[x] PROVE skeleton'[x] \subseteq cache'[x][s]
    BY <1>0, <1>1, <1>2 DEF StoreHas
  <2> QED BY <2>1 DEF StoreHas
<1>8. LeasesHonest'
  <2> SUFFICES ASSUME NEW f \in Leases
      PROVE  /\ lease'[f] \in {"queued", "fetching"} => skeleton'[TraceOf[f]] = {}
             /\ lease'[f] = "extending" =>
                   /\ skeleton'[TraceOf[f]] # {} /\ answer[f] # "idle"
                   /\ \A s \in Ids(f)' : skeleton'[TraceOf[f]] \subseteq loaded'[f][s]
                   /\ answer[f] = "ok" => \A s \in Ids(f)' : Wants(f)' \subseteq loaded'[f][s]
             /\ lease'[f] = "ready" => skeleton'[TraceOf[f]] = Structure
             /\ lease'[f] \in {"new", "queued", "fetching"} => answer[f] = "idle"
             /\ answer[f] = "pending" => lease'[f] = "extending"
    BY DEF LeasesHonest
  <2>0. /\ lease[f] \in {"queued", "fetching"} => skeleton[TraceOf[f]] = {}
        /\ lease[f] = "extending" =>
              /\ skeleton[TraceOf[f]] # {} /\ answer[f] # "idle"
              /\ \A s \in Ids(f) : skeleton[TraceOf[f]] \subseteq loaded[f][s]
              /\ answer[f] = "ok" => \A s \in Ids(f) : Wants(f) \subseteq loaded[f][s]
        /\ lease[f] = "ready" => skeleton[TraceOf[f]] = Structure
        /\ lease[f] \in {"new", "queued", "fetching"} => answer[f] = "idle"
        /\ answer[f] = "pending" => lease[f] = "extending"
    BY <1>0 DEF LeasesHonest
  <2>1. CASE f = e
    BY <1>1, <1>2, <1>3, <2>1
  <2>2. CASE f # e /\ TraceOf[f] = t
    <3>1. ~InLock(f)
      BY <1>4, <2>2
    <3> QED BY <1>2, <1>3, <2>0, <2>2, <3>1 DEF InLock
  <2>3. CASE f # e /\ TraceOf[f] # t
    <3>1. f \in Requests /\ TraceOf[f] \in Traces /\ Trace(f) = TraceOf[f] /\ skeleton'[TraceOf[f]] = skeleton[TraceOf[f]]
      BY <1>0, <1>2, <2>3, LoaderAssumption, RequestTypes DEF Requests
    <3>2. Wants(f)' = Wants(f) /\ Ids(f)' = Ids(f)
      BY <3>1, WantsStay
    <3>3. lease'[f] = lease[f] /\ loaded'[f] = loaded[f]
      BY <1>3, <2>3
    <3> QED BY <2>0, <3>1, <3>2, <3>3
  <2> QED BY <2>1, <2>2, <2>3
<1>9. LoadsHonest'
  <2>1. \A l \in Loads : /\ l \in Requests /\ Wants(l)' = Wants(l) /\ Ids(l)' = Ids(l) /\ Lease(l)' = Lease(l)
                         /\ Lease(l) \in Leases /\ (answer[l] # "idle" => Lease(l) # e)
    BY <1>0, WantsStay, RequestTypes DEF Requests, LoadsHonest, InLock
  <2> QED BY <1>0, <1>3, <2>1 DEF LoadsHonest
<1>10. QueuesHonest'
  <2>1. \A x \in Traces : \A r \in Members(queue[x]) : r \in Requests /\ Trace(r)' = Trace(r)
    BY <1>0, MembersAre, WantsStay DEF TypeOK
  <2> QED BY <1>0, <1>2, <2>1 DEF QueuesHonest
<1>11. WorkHonest'
  <2> SUFFICES ASSUME NEW x \in Traces
      PROVE  /\ \A r \in Members(work[x].reqs) :
                    Trace(r)' = x /\ answer[r] # "idle" /\ (Live(r)' => Wants(r)' \subseteq work[x].fields)
             /\ \A s \in work[x].found : work[x].fields \subseteq cache'[x][s]
             /\ \A s \in work[x].batch \cup work[x].missing : ~(work[x].fields \subseteq cache'[x][s])
             /\ work[x].batch \cap work[x].missing = {}
             /\ Busy(x)' => skeleton'[x] # {}
    BY DEF WorkHonest
  <2>0. /\ \A r \in Members(work[x].reqs) :
               r \in Requests /\ Trace(r) = x /\ answer[r] # "idle" /\ (Live(r) => Wants(r) \subseteq work[x].fields)
        /\ \A s \in work[x].found : work[x].fields \subseteq cache[x][s]
        /\ \A s \in work[x].batch \cup work[x].missing : ~(work[x].fields \subseteq cache[x][s])
        /\ work[x].batch \cap work[x].missing = {}
        /\ Busy(x) => skeleton[x] # {}
        /\ work[x].found \subseteq Spans
    BY <1>0, MembersAre DEF WorkHonest, TypeOK, Tasks
  <2>1. \A r \in Members(work[x].reqs) : Live(r) => Wants(r)' = Wants(r)
    <3> SUFFICES ASSUME NEW r \in Members(work[x].reqs), Live(r) PROVE Wants(r)' = Wants(r)
      OBVIOUS
    <3>1. r \in Requests /\ Trace(r) = x
      BY <2>0
    <3>2. CASE x # t
      BY <1>2, <3>1, <3>2, WantsStay
    <3>3. CASE x = t /\ r \in Loads
      BY <3>1, <3>3, WantsStay
    <3>4. CASE x = t /\ r \in Leases
      <4>1. lease[r] = "extending" /\ TraceOf[r] = t
        BY <1>0, <3>1, <3>4, RequestTypes DEF LeasesHonest, Live
      <4>2. r # e
        BY DEF Live
      <4> QED BY <1>4, <3>4, <4>1, <4>2 DEF InLock
    <3> QED BY <3>1, <3>2, <3>3, <3>4 DEF Requests
  <2>2. \A r \in Members(work[x].reqs) : Trace(r)' = Trace(r) /\ Live(r)' = Live(r)
    BY <2>0, WantsStay DEF Live
  <2>3. \A s \in work[x].batch \cup work[x].missing : ~(work[x].fields \subseteq cache'[x][s])
    <3>1. CASE cache'[x] = cache[x]
      BY <2>0, <3>1
    <3>2. CASE skeleton[x] = {}
      <4>1. work[x] = Idle
        BY <2>0, <3>2 DEF Busy
      <4> QED BY <4>1 DEF Idle
    <3> QED BY <3>1, <3>2
  <2>4. \A s \in work[x].found : work[x].fields \subseteq cache'[x][s]
    BY <2>0
  <2> QED BY <1>2, <2>0, <2>1, <2>2, <2>3, <2>4 DEF Busy
<1>12. ClosedIsQuiet'
  BY <1>0 DEF ClosedIsQuiet, Busy
<1> QED BY <1>5, <1>6, <1>7, <1>8, <1>9, <1>10, <1>11, <1>12 DEF LoaderInv

LEMMA FetchedKeeps ==
    ASSUME LoaderInv, NEW e \in Leases, Fetched(e) PROVE LoaderInv'
<1>0. /\ TypeOK /\ LeasesHonest /\ lease[e] = "fetching" /\ lease' = [lease EXCEPT ![e] = "ready"]
      /\ UNCHANGED <<answer, queue, flush, work, phase>> /\ loaded' = Holding(e, Structure)
      /\ Freeze(TraceOf[e]) /\ skeleton[TraceOf[e]] = {} /\ answer[e] = "idle"
  BY DEF LoaderInv, Fetched, flushVars, LeasesHonest
<1>1. PICK t \in Traces : t = TraceOf[e]
  BY LoaderAssumption
<1>2. /\ skeleton' = [skeleton EXCEPT ![t] = Structure] /\ Structure \in SUBSET Fields
      /\ cache' = [cache EXCEPT ![t] = [s \in Spans |-> IF s \in SpansOf[t] THEN @[s] \cup Structure ELSE @[s]]]
  BY <1>0, <1>1, LoaderAssumption DEF Freeze
<1>3. /\ cache' \in [Traces -> [Spans -> SUBSET Fields]]
      /\ \A x \in Traces : \A s \in Spans : cache[x][s] \subseteq cache'[x][s]
      /\ \A x \in Traces : x # t => cache'[x] = cache[x]
      /\ \A s \in Spans : s \in SpansOf[t] => Structure \subseteq cache'[t][s]
  BY <1>0, <1>2 DEF TypeOK
<1>4. \A s \in SpansOf[t] : Structure \subseteq cache'[t][s]
  BY <1>3, LoaderAssumption
<1>5. /\ loaded' \in [Leases -> [Spans -> SUBSET Fields]]
      /\ \A f \in Leases : f # e => loaded'[f] = loaded[f]
      /\ \A f \in Leases : \A s \in Spans : loaded'[f][s] \subseteq cache'[TraceOf[f]][s]
  BY <1>0, <1>1, <1>2, <1>3, <1>4, HoldingKeeps
<1>6. InLock(e)
  BY <1>0 DEF InLock
<1> QED BY <1>0, <1>1, <1>2, <1>3, <1>4, <1>5, <1>6, SkeletonComplete

LEMMA ExtendedKeeps ==
    ASSUME LoaderInv, NEW e \in Leases, Extended(e) PROVE LoaderInv'
<1>0. /\ TypeOK /\ LeasesHonest /\ StoreHas /\ lease[e] = "extending" /\ lease' = [lease EXCEPT ![e] = "ready"]
      /\ UNCHANGED <<cache, loaded, answer, queue, flush, work, phase>> /\ answer[e] = "ok"
      /\ skeleton' = [skeleton EXCEPT ![TraceOf[e]] = Structure]
  BY DEF LoaderInv, Extended, flushVars
<1>1. /\ Ids(e) = SpansOf[TraceOf[e]] /\ SpansOf[TraceOf[e]] \subseteq Spans
      /\ Wants(e) = Structure \ skeleton[TraceOf[e]]
  BY LoaderAssumption DEF Ids, Wants
<1>2. \A s \in SpansOf[TraceOf[e]] : Structure \subseteq loaded[e][s] /\ loaded[e][s] \subseteq cache[TraceOf[e]][s]
  BY <1>0, <1>1 DEF LeasesHonest, StoreHas
<1>3. InLock(e)
  BY <1>0 DEF InLock
<1>4. cache' \in [Traces -> [Spans -> SUBSET Fields]] /\ loaded' \in [Leases -> [Spans -> SUBSET Fields]]
  BY <1>0 DEF TypeOK
<1>5. \A f \in Leases : \A s \in Spans : loaded'[f][s] \subseteq cache'[TraceOf[f]][s]
  BY <1>0 DEF StoreHas
<1>6. \A s \in SpansOf[TraceOf[e]] : Structure \subseteq cache'[TraceOf[e]][s]
  BY <1>0, <1>2
<1> QED BY <1>0, <1>3, <1>4, <1>5, <1>6, SkeletonComplete

\* The loader closes, or a flush task takes its lock or is cut before it works.
LEMMA LoopKeeps ==
    ASSUME LoaderInv, NEW t \in Traces, Lock(t) \/ CutEarly(t) \/ Shut \/ Closed PROVE LoaderInv'
<1>0. TypeOK /\ StoreHas /\ ClosedIsQuiet /\ UNCHANGED <<skeleton, cache, lease, loaded, answer, queue, work>>
  BY DEF LoaderInv, Lock, CutEarly, Shut, Closed, storeVars, leaseVars, flushVars
<1>1. \A r \in Requests : answer[r] # "idle" => answer'[r] # "idle" /\ (Live(r)' => Live(r))
  BY <1>0 DEF Live
<1>2. \A r \in Requests : Settles(r)
  BY <1>0 DEF Settles
<1>3. OneSkeleton' /\ LeasesHonest' /\ LoadsHonest' /\ WorkHonest' /\ QueuesHonest' /\ StoreHas'
  BY <1>0, <1>1, <1>2, AnswersKeep, WorkStays, QueuesStay DEF StoreHas
<1>4. TypeOK' /\ ClosedIsQuiet'
  <2>1. CASE Lock(t)
    BY <1>0, <2>1 DEF Lock, TypeOK, ClosedIsQuiet
  <2>2. CASE CutEarly(t)
    BY <1>0, <2>2 DEF CutEarly, TypeOK, ClosedIsQuiet
  <2>3. CASE Shut
    BY <1>0, <2>3 DEF Shut, TypeOK, ClosedIsQuiet, flushVars
  <2>4. CASE Closed
    BY <1>0, <2>4 DEF Closed, Joined, TypeOK, ClosedIsQuiet, Busy, flushVars
  <2> QED BY <2>1, <2>2, <2>3, <2>4
<1> QED BY <1>3, <1>4 DEF LoaderInv

\* The work of a flush task is replaced, the requests it served are settled, and
\* what it saved the store has gained.
LEMMA WorkMoves ==
    ASSUME LoaderInv, NEW t \in Traces, NEW w \in Tasks, work' = [work EXCEPT ![t] = w],
           UNCHANGED <<skeleton, lease, phase>>, phase = "open" \/ flush' = flush,
           phase = "closed" => work' = work,
           answer' \in [Requests -> {"idle", "pending", "ok", "failed", "left"}],
           \A r \in Requests : Settles(r), Grows,
           cache' \in [Traces -> [Spans -> SUBSET Fields]],
           \A x \in Traces : \A s \in Spans : cache[x][s] \subseteq cache'[x][s],
           \A x \in Traces : x # t => cache'[x] = cache[x],
           queue' \in [Traces -> Seq(Requests)], flush' \in [Traces -> {"none", "waiting", "collecting"}],
           phase = "open" => \A x \in Traces : queue'[x] # << >> <=> flush'[x] # "none",
           QueuesHonest',
           \A r \in Members(w.reqs) : Trace(r) = t /\ answer[r] # "idle" /\ (Live(r) => Wants(r) \subseteq w.fields),
           \A s \in w.found : w.fields \subseteq cache'[t][s],
           \A s \in w.batch \cup w.missing : ~(w.fields \subseteq cache'[t][s]),
           w.batch \cap w.missing = {},
           w # Idle => skeleton[t] # {}
    PROVE  LoaderInv'
<1>0. TypeOK /\ StoreHas /\ WorkHonest /\ ClosedIsQuiet
  BY DEF LoaderInv
<1>1. /\ work' \in [Traces -> Tasks] /\ work'[t] = w /\ \A x \in Traces : x # t => work'[x] = work[x]
      /\ loaded' \in [Leases -> [Spans -> SUBSET Fields]]
  BY <1>0 DEF TypeOK, Grows
<1>2. TypeOK'
  BY <1>0, <1>1 DEF TypeOK
<1>3. OneSkeleton' /\ LeasesHonest' /\ LoadsHonest'
  BY AnswersKeep DEF Grows
<1>4. StoreHas'
  <2>1. \A x \in Traces : \A s \in SpansOf[x] : s \in Spans
    BY LoaderAssumption
  <2> QED BY <1>0, <2>1 DEF StoreHas, Grows
<1>5. WorkHonest'
  <2> SUFFICES ASSUME NEW x \in Traces
      PROVE  /\ \A r \in Members(work'[x].reqs) :
                    Trace(r)' = x /\ answer'[r] # "idle" /\ (Live(r)' => Wants(r)' \subseteq work'[x].fields)
             /\ \A s \in work'[x].found : work'[x].fields \subseteq cache'[x][s]
             /\ \A s \in work'[x].batch \cup work'[x].missing : ~(work'[x].fields \subseteq cache'[x][s])
             /\ work'[x].batch \cap work'[x].missing = {}
             /\ Busy(x)' => skeleton[x] # {}
    BY DEF WorkHonest
  <2>1. \A r \in Requests : /\ Trace(r)' = Trace(r) /\ Wants(r)' = Wants(r) /\ (Live(r)' => Live(r))
                            /\ answer[r] # "idle" => answer'[r] # "idle"
    BY WantsStay DEF Settles, Live
  <2>2. CASE x = t
    <3>1. \A r \in Members(w.reqs) : r \in Requests
      BY MembersAre DEF Tasks
    <3> QED BY <1>1, <2>1, <2>2, <3>1 DEF Busy
  <2>3. CASE x # t
    <3>1. /\ \A r \in Members(work[x].reqs) :
                 r \in Requests /\ Trace(r) = x /\ answer[r] # "idle" /\ (Live(r) => Wants(r) \subseteq work[x].fields)
          /\ \A s \in work[x].found : work[x].fields \subseteq cache[x][s]
          /\ \A s \in work[x].batch \cup work[x].missing : ~(work[x].fields \subseteq cache[x][s])
          /\ work[x].batch \cap work[x].missing = {}
          /\ Busy(x) => skeleton[x] # {}
      BY <1>0, MembersAre DEF WorkHonest, TypeOK, Tasks
    <3>2. work'[x] = work[x] /\ cache'[x] = cache[x]
      BY <1>1, <2>3
    <3>3. \A r \in Members(work[x].reqs) :
              Trace(r)' = x /\ answer'[r] # "idle" /\ (Live(r)' => Wants(r)' \subseteq work[x].fields)
      BY <2>1, <3>1
    <3> QED BY <3>1, <3>2, <3>3 DEF Busy
  <2> QED BY <2>2, <2>3
<1>6. ClosedIsQuiet'
  BY <1>0 DEF ClosedIsQuiet, Busy
<1> QED BY <1>2, <1>3, <1>4, <1>5, <1>6 DEF LoaderInv

\* Nothing is read, everything stays where it is.
LEMMA NothingGrows == ASSUME TypeOK, StoreHas, UNCHANGED <<cache, loaded>> PROVE Grows
BY DEF TypeOK, StoreHas, Grows

LEMMA IdleKeeps ==
    \E w \in Tasks : /\ w = Idle /\ w.batch \cap w.missing = {}
                     /\ \A r \in Members(w.reqs) : FALSE
                     /\ \A s \in w.found : FALSE
                     /\ \A s \in w.batch \cup w.missing : FALSE
BY IdleIsTask, NobodyIdles DEF Idle

\* The flush fails or is cut: its requests share the failure.
LEMMA FlushFails ==
    ASSUME LoaderInv, NEW t \in Traces, ReadFails(t) \/ CutAtWork(t) PROVE LoaderInv'
<1>0. /\ TypeOK /\ StoreHas /\ ClosedIsQuiet /\ answer' = FailAll(work[t].reqs) /\ work' = [work EXCEPT ![t] = Idle]
      /\ UNCHANGED <<skeleton, cache, lease, loaded, queue, flush, phase>> /\ phase # "closed"
  BY DEF LoaderInv, ReadFails, CutAtWork, storeVars, leaseVars
<1>1. /\ answer' \in [Requests -> {"idle", "pending", "ok", "failed", "left"}]
      /\ \A r \in Requests : Settles(r)
  BY <1>0, FailuresSettle
<1>2. Grows
  BY <1>0, NothingGrows
<1>3. \A r \in Requests : answer[r] # "idle" => answer'[r] # "idle"
  BY <1>1 DEF Settles
<1>4. QueuesHonest'
  BY <1>0, <1>3, QueuesStay
<1>5. /\ cache' \in [Traces -> [Spans -> SUBSET Fields]] /\ queue' \in [Traces -> Seq(Requests)]
      /\ flush' \in [Traces -> {"none", "waiting", "collecting"}]
      /\ phase = "open" => \A x \in Traces : queue'[x] # << >> <=> flush'[x] # "none"
  BY <1>0 DEF TypeOK
<1>6. PICK w \in Tasks : /\ w = Idle /\ w.batch \cap w.missing = {}
                         /\ \A r \in Members(w.reqs) : FALSE
                         /\ \A s \in w.found : FALSE
                         /\ \A s \in w.batch \cup w.missing : FALSE
  BY IdleKeeps
<1>7. work' = [work EXCEPT ![t] = w] /\ phase # "closed"
  BY <1>0, <1>6
<1>8. \A x \in Traces : x # t => cache'[x] = cache[x]
  BY <1>0
<1>9. \A x \in Traces : \A s \in Spans : cache[x][s] \subseteq cache'[x][s]
  BY <1>0
<1> QED BY <1>0, <1>1, <1>2, <1>4, <1>5, <1>6, <1>7, <1>8, <1>9, WorkMoves

LEMMA ReadKeeps ==
    ASSUME LoaderInv, NEW t \in Traces, Read(t) PROVE LoaderInv'
<1>0. /\ TypeOK /\ StoreHas /\ WorkHonest /\ phase = "open" /\ Busy(t) /\ ~Reading(t)
      /\ UNCHANGED <<skeleton, cache, lease, loaded, answer, queue, flush, phase>>
  BY DEF LoaderInv, Read, storeVars, leaseVars
<1>1. PICK part \in Refs(work[t].missing) : work' = [work EXCEPT ![t].batch = part, ![t].missing = @ \ part]
  BY DEF Read
<1>2. part \subseteq work[t].missing /\ work[t] \in Tasks
  BY <1>0 DEF Refs, TypeOK
<1>3. PICK w \in Tasks : /\ w = [work[t] EXCEPT !.batch = part, !.missing = @ \ part]
                         /\ w.reqs = work[t].reqs /\ w.fields = work[t].fields /\ w.found = work[t].found
                         /\ w.batch = part /\ w.missing = work[t].missing \ part
  <2>1. part \subseteq Spans /\ work[t].missing \ part \subseteq Spans
    BY <1>2 DEF Tasks
  <2>2. PICK w : w = [work[t] EXCEPT !.batch = part, !.missing = @ \ part]
    OBVIOUS
  <2>3. w \in Tasks
    BY <1>2, <2>1, <2>2 DEF Tasks
  <2>4. /\ w.reqs = work[t].reqs /\ w.fields = work[t].fields /\ w.found = work[t].found
        /\ w.batch = part /\ w.missing = work[t].missing \ part
    BY <1>2, <2>2 DEF Tasks
  <2> QED BY <2>2, <2>3, <2>4
<1>4. work' = [work EXCEPT ![t] = w]
  <2>1. /\ [work EXCEPT ![t].batch = part, ![t].missing = @ \ part] \in [Traces -> Tasks]
        /\ [work EXCEPT ![t].batch = part, ![t].missing = @ \ part][t] = w
        /\ \A x \in Traces : x # t => [work EXCEPT ![t].batch = part, ![t].missing = @ \ part][x] = work[x]
    BY <1>0, <1>3 DEF TypeOK
  <2> QED BY <1>0, <1>1, <2>1 DEF TypeOK
<1>5. /\ \A r \in Members(w.reqs) : Trace(r) = t /\ answer[r] # "idle" /\ (Live(r) => Wants(r) \subseteq w.fields)
      /\ \A s \in w.found : w.fields \subseteq cache'[t][s]
      /\ \A s \in w.batch \cup w.missing : ~(w.fields \subseteq cache'[t][s])
      /\ w.batch \cap w.missing = {}
      /\ skeleton[t] # {}
  BY <1>0, <1>2, <1>3 DEF WorkHonest
<1>6. /\ \A r \in Requests : Settles(r)
      /\ \A r \in Requests : answer[r] # "idle" => answer'[r] # "idle"
  BY <1>0 DEF Settles
<1>7. Grows /\ QueuesHonest'
  BY <1>0, <1>6, NothingGrows, QueuesStay
<1>8. /\ cache' \in [Traces -> [Spans -> SUBSET Fields]] /\ queue' \in [Traces -> Seq(Requests)]
      /\ flush' \in [Traces -> {"none", "waiting", "collecting"}]
      /\ answer' \in [Requests -> {"idle", "pending", "ok", "failed", "left"}]
      /\ \A x \in Traces : queue'[x] # << >> <=> flush'[x] # "none"
  BY <1>0 DEF TypeOK
<1> QED BY <1>0, <1>4, <1>5, <1>6, <1>7, <1>8, WorkMoves

\* A queue is emptied, whatever becomes of its requests.
LEMMA QueueEmptied ==
    ASSUME LoaderInv, NEW t \in Traces, skeleton' = skeleton, queue' = [queue EXCEPT ![t] = << >>],
           flush' = [flush EXCEPT ![t] = "none"], phase' = phase,
           \A r \in Requests : answer[r] # "idle" => answer'[r] # "idle"
    PROVE  /\ queue' \in [Traces -> Seq(Requests)] /\ flush' \in [Traces -> {"none", "waiting", "collecting"}]
           /\ phase = "open" => \A x \in Traces : queue'[x] # << >> <=> flush'[x] # "none"
           /\ QueuesHonest'
<1>0. TypeOK /\ QueuesHonest
  BY DEF LoaderInv
<1>1. << >> \in Seq(Requests)
  OBVIOUS
<1>2. /\ queue' \in [Traces -> Seq(Requests)] /\ queue'[t] = << >> /\ \A x \in Traces : x # t => queue'[x] = queue[x]
      /\ flush' \in [Traces -> {"none", "waiting", "collecting"}] /\ flush'[t] = "none"
      /\ \A x \in Traces : x # t => flush'[x] = flush[x]
  BY <1>0, <1>1 DEF TypeOK
<1>3. phase = "open" => \A x \in Traces : queue'[x] # << >> <=> flush'[x] # "none"
  BY <1>0, <1>2 DEF TypeOK
<1>4. QueuesHonest'
  <2> SUFFICES ASSUME NEW x \in Traces
               PROVE  /\ \A r \in Members(queue'[x]) : Trace(r)' = x /\ answer'[r] # "idle"
                      /\ queue'[x] # << >> => skeleton[x] # {}
    BY DEF QueuesHonest
  <2>1. CASE x = t
    BY <1>2, <2>1, NobodyIdles
  <2>2. CASE x # t
    <3>1. \A r \in Members(queue[x]) : r \in Requests /\ Trace(r)' = Trace(r)
      BY <1>0, MembersAre, WantsStay DEF TypeOK
    <3> QED BY <1>0, <1>2, <2>2, <3>1 DEF QueuesHonest
  <2> QED BY <2>1, <2>2
<1> QED BY <1>2, <1>3, <1>4

LEMMA CollectKeeps ==
    ASSUME LoaderInv, NEW t \in Traces, Collect(t) PROVE LoaderInv'
<1>0. /\ TypeOK /\ StoreHas /\ QueuesHonest /\ WorkHonest /\ phase = "open" /\ flush[t] = "collecting"
      /\ queue' = [queue EXCEPT ![t] = << >>] /\ flush' = [flush EXCEPT ![t] = "none"]
      /\ UNCHANGED <<skeleton, cache, lease, phase>>
  BY DEF LoaderInv, Collect, storeVars
<1>1. PICK reqs \in Seq(Requests) : reqs = queue[t]
  BY <1>0 DEF TypeOK
<1>2. PICK cached : cached = Cached(t, reqs)
  OBVIOUS
<1>3. Members(reqs) \subseteq Requests /\ \A r \in Members(reqs) : Trace(r) = t /\ answer[r] # "idle"
  BY <1>0, <1>1, MembersAre DEF QueuesHonest
<1>4. /\ Union(reqs) \subseteq Fields /\ Asked(reqs) \subseteq Spans
      /\ \A r \in Members(reqs) : Wants(r) \subseteq Union(reqs)
  BY <1>0, <1>3, RequestTypes DEF Union, Asked
<1>5. /\ cached \subseteq Asked(reqs) /\ \A s \in cached : Union(reqs) \subseteq cache[t][s]
      /\ \A s \in Asked(reqs) \ cached : ~(Union(reqs) \subseteq cache[t][s])
  BY <1>2 DEF Cached
<1>6. skeleton[t] # {}
  BY <1>0 DEF TypeOK, QueuesHonest
<1>7. /\ cache' \in [Traces -> [Spans -> SUBSET Fields]]
      /\ \A x \in Traces : \A s \in Spans : cache[x][s] \subseteq cache'[x][s]
      /\ \A x \in Traces : x # t => cache'[x] = cache[x]
  BY <1>0 DEF TypeOK
<1>8. CASE UNCHANGED <<loaded, answer>>
           /\ work' = [work EXCEPT ![t] = [Idle EXCEPT !.reqs = reqs, !.fields = Union(reqs), !.found = cached,
                                                       !.missing = Asked(reqs) \ cached]]
  <2>1. PICK w : w = [Idle EXCEPT !.reqs = reqs, !.fields = Union(reqs), !.found = cached,
                                  !.missing = Asked(reqs) \ cached]
    OBVIOUS
  <2>2. /\ w = [reqs |-> reqs, fields |-> Union(reqs), found |-> cached,
                missing |-> Asked(reqs) \ cached, batch |-> {}]
    BY <2>1 DEF Idle
  <2>3. /\ w.reqs = reqs /\ w.fields = Union(reqs) /\ w.found = cached /\ w.missing = Asked(reqs) \ cached
        /\ w.batch = {}
    BY <2>2
  <2>4. w \in Tasks
    BY <1>4, <1>5, <2>2 DEF Tasks
  <2>5. work' = [work EXCEPT ![t] = w]
    BY <1>8, <2>1
  <2>6. /\ answer' \in [Requests -> {"idle", "pending", "ok", "failed", "left"}]
        /\ \A r \in Requests : Settles(r)
        /\ \A r \in Requests : answer[r] # "idle" => answer'[r] # "idle"
        /\ Grows
    BY <1>0, <1>8, NothingGrows DEF TypeOK, Settles
  <2>7. /\ queue' \in [Traces -> Seq(Requests)] /\ flush' \in [Traces -> {"none", "waiting", "collecting"}]
        /\ \A x \in Traces : queue'[x] # << >> <=> flush'[x] # "none"
        /\ QueuesHonest'
    BY <1>0, <2>6, QueueEmptied
  <2>8. /\ \A r \in Members(w.reqs) : Trace(r) = t /\ answer[r] # "idle" /\ (Live(r) => Wants(r) \subseteq w.fields)
        /\ \A s \in w.found : w.fields \subseteq cache'[t][s]
        /\ \A s \in w.batch \cup w.missing : ~(w.fields \subseteq cache'[t][s])
        /\ w.batch \cap w.missing = {}
    BY <1>0, <1>3, <1>4, <1>5, <2>3
  <2> QED BY <1>0, <1>6, <1>7, <2>4, <2>5, <2>6, <2>7, <2>8, WorkMoves
<1>9. CASE /\ work' = work
           /\ (answer' = FailAll(reqs) /\ loaded' = loaded) \/ Deliver(reqs, cached)
  <2>1. PICK w \in Tasks : w = work[t]
    BY <1>0 DEF TypeOK
  <2>2. work' = [work EXCEPT ![t] = w]
    BY <1>0, <1>9, <2>1 DEF TypeOK
  <2>3. /\ answer' \in [Requests -> {"idle", "pending", "ok", "failed", "left"}]
        /\ \A r \in Requests : Settles(r)
        /\ Grows
    <3>1. CASE answer' = FailAll(reqs) /\ loaded' = loaded
      BY <1>0, <3>1, FailuresSettle, NothingGrows
    <3>2. CASE Deliver(reqs, cached)
      <4>1. cached \in SUBSET Spans
        BY <1>4, <1>5
      <4>2. /\ \A r \in Members(reqs) : Trace(r) = t
            /\ \A r \in Members(reqs) : \A s \in cached : Live(r) => Wants(r) \subseteq cache'[t][s]
        BY <1>0, <1>3, <1>4, <1>5
      <4> QED BY <1>7, <3>2, <4>1, <4>2, DeliveriesSettle
    <3> QED BY <1>9, <3>1, <3>2
  <2>4. \A r \in Requests : answer[r] # "idle" => answer'[r] # "idle"
    BY <2>3 DEF Settles
  <2>5. /\ queue' \in [Traces -> Seq(Requests)] /\ flush' \in [Traces -> {"none", "waiting", "collecting"}]
        /\ \A x \in Traces : queue'[x] # << >> <=> flush'[x] # "none"
        /\ QueuesHonest'
    BY <1>0, <2>4, QueueEmptied
  <2>6. /\ \A r \in Members(w.reqs) : Trace(r) = t /\ answer[r] # "idle" /\ (Live(r) => Wants(r) \subseteq w.fields)
        /\ \A s \in w.found : w.fields \subseteq cache'[t][s]
        /\ \A s \in w.batch \cup w.missing : ~(w.fields \subseteq cache'[t][s])
        /\ w.batch \cap w.missing = {}
    BY <1>0, <2>1 DEF WorkHonest
  <2> QED BY <1>0, <1>6, <1>7, <2>2, <2>3, <2>5, <2>6, WorkMoves
<1> QED BY <1>1, <1>2, <1>8, <1>9 DEF Collect

LEMMA ReadOkKeeps ==
    ASSUME LoaderInv, NEW t \in Traces, ReadOk(t) PROVE LoaderInv'
<1>0. /\ TypeOK /\ StoreHas /\ WorkHonest /\ phase = "open" /\ Reading(t)
      /\ UNCHANGED <<skeleton, lease, queue, flush, phase>>
  BY DEF LoaderInv, ReadOk
<1>1. PICK task \in Tasks : task = work[t]
  BY <1>0 DEF TypeOK
<1>2. /\ task.reqs \in Seq(Requests) /\ task.fields \subseteq Fields /\ task.found \subseteq Spans
      /\ task.missing \subseteq Spans /\ task.batch \subseteq Spans
      /\ task = [reqs |-> task.reqs, fields |-> task.fields, found |-> task.found,
                 missing |-> task.missing, batch |-> task.batch]
  BY DEF Tasks
<1>3. /\ \A r \in Members(task.reqs) :
            r \in Requests /\ Trace(r) = t /\ answer[r] # "idle" /\ (Live(r) => Wants(r) \subseteq task.fields)
      /\ \A s \in task.found : task.fields \subseteq cache[t][s]
      /\ \A s \in task.batch \cup task.missing : ~(task.fields \subseteq cache[t][s])
      /\ task.batch \cap task.missing = {}
      /\ skeleton[t] # {}
  <2>1. Busy(t)
    BY <1>0 DEF Busy, Reading, Idle
  <2> QED BY <1>0, <1>1, <1>2, <2>1, MembersAre DEF WorkHonest
<1>4. PICK got \in SUBSET task.batch :
          /\ cache' = Save(t, got)
          /\ \/ task.missing = {} /\ Deliver(task.reqs, task.found \cup got) /\ work' = [work EXCEPT ![t] = Idle]
             \/ /\ work' = [work EXCEPT ![t].found = task.found \cup got, ![t].batch = {}]
                /\ UNCHANGED <<loaded, answer>>
  BY <1>1 DEF ReadOk
<1>5. /\ cache' \in [Traces -> [Spans -> SUBSET Fields]]
      /\ \A x \in Traces : x # t => cache'[x] = cache[x]
      /\ \A s \in Spans : cache'[t][s] = IF s \in got THEN cache[t][s] \cup task.fields ELSE cache[t][s]
  BY <1>0, <1>1, <1>2, <1>4 DEF TypeOK, Save
<1>6. \A x \in Traces : \A s \in Spans : cache[x][s] \subseteq cache'[x][s]
  BY <1>5
<1>7. \A s \in task.found \cup got : s \in Spans /\ task.fields \subseteq cache'[t][s]
  <2>1. \A s \in task.found \cup got : s \in Spans
    BY <1>2
  <2>2. \A s \in got : task.fields \subseteq cache'[t][s]
    BY <1>5, <2>1
  <2>3. \A s \in task.found : task.fields \subseteq cache'[t][s]
    BY <1>2, <1>3, <1>6
  <2> QED BY <2>1, <2>2, <2>3
<1>8. ASSUME \A r \in Requests : answer[r] # "idle" => answer'[r] # "idle"
      PROVE  /\ queue' \in [Traces -> Seq(Requests)] /\ flush' \in [Traces -> {"none", "waiting", "collecting"}]
             /\ \A x \in Traces : queue'[x] # << >> <=> flush'[x] # "none"
             /\ QueuesHonest'
  BY <1>0, <1>8, QueuesStay DEF TypeOK
<1>9. CASE Deliver(task.reqs, task.found \cup got) /\ work' = [work EXCEPT ![t] = Idle]
  <2>1. /\ task.found \cup got \in SUBSET Spans
        /\ \A r \in Members(task.reqs) : Trace(r) = t
        /\ \A r \in Members(task.reqs) : \A s \in task.found \cup got : Live(r) => Wants(r) \subseteq cache'[t][s]
    BY <1>3, <1>7
  <2>2. /\ answer' \in [Requests -> {"idle", "pending", "ok", "failed", "left"}]
        /\ \A r \in Requests : Settles(r)
        /\ Grows
    BY <1>2, <1>5, <1>6, <1>9, <2>1, DeliveriesSettle
  <2>3. \A r \in Requests : answer[r] # "idle" => answer'[r] # "idle"
    BY <2>2 DEF Settles
  <2>4. PICK w \in Tasks : /\ w = Idle /\ w.batch \cap w.missing = {}
                           /\ \A r \in Members(w.reqs) : FALSE
                           /\ \A s \in w.found : FALSE
                           /\ \A s \in w.batch \cup w.missing : FALSE
    BY IdleKeeps
  <2>5. work' = [work EXCEPT ![t] = w]
    BY <1>9, <2>4
  <2> QED BY <1>0, <1>3, <1>5, <1>6, <1>8, <2>2, <2>3, <2>4, <2>5, WorkMoves
<1>10. CASE /\ work' = [work EXCEPT ![t].found = task.found \cup got, ![t].batch = {}]
            /\ UNCHANGED <<loaded, answer>>
  <2>1. PICK w : w = [task EXCEPT !.found = task.found \cup got, !.batch = {}]
    OBVIOUS
  <2>2. w = [reqs |-> task.reqs, fields |-> task.fields, found |-> task.found \cup got,
             missing |-> task.missing, batch |-> {}]
    BY <1>2, <2>1
  <2>3. /\ w.reqs = task.reqs /\ w.fields = task.fields /\ w.found = task.found \cup got
        /\ w.missing = task.missing /\ w.batch = {}
    BY <2>2
  <2>4. w \in Tasks
    BY <1>2, <1>7, <2>2 DEF Tasks
  <2>5. work' = [work EXCEPT ![t] = w]
    BY <1>0, <1>1, <1>10, <2>1 DEF TypeOK
  <2>6. /\ answer' \in [Requests -> {"idle", "pending", "ok", "failed", "left"}]
        /\ \A r \in Requests : Settles(r)
        /\ \A r \in Requests : answer[r] # "idle" => answer'[r] # "idle"
    BY <1>0, <1>10 DEF TypeOK, Settles
  <2>7. Grows
    <3>1. loaded' \in [Leases -> [Spans -> SUBSET Fields]] /\ \A e \in Leases : TraceOf[e] \in Traces
      BY <1>0, <1>10, LoaderAssumption DEF TypeOK
    <3> QED BY <1>0, <1>6, <1>10, <3>1 DEF Grows, StoreHas
  <2>8. /\ \A r \in Members(w.reqs) : Trace(r) = t /\ answer[r] # "idle" /\ (Live(r) => Wants(r) \subseteq w.fields)
        /\ \A s \in w.found : w.fields \subseteq cache'[t][s]
        /\ w.batch \cap w.missing = {}
    BY <1>3, <1>7, <2>3
  <2>9. \A s \in w.batch \cup w.missing : ~(w.fields \subseteq cache'[t][s])
    BY <1>2, <1>3, <1>5, <2>3
  <2> QED BY <1>0, <1>3, <1>5, <1>6, <1>8, <2>4, <2>5, <2>6, <2>7, <2>8, <2>9, WorkMoves
<1> QED BY <1>4, <1>9, <1>10

LEMMA LoaderStep ==
    ASSUME LoaderInv, [Next]_vars PROVE LoaderInv'
<1>1. ASSUME NEW l \in Loads, Load(l) \/ Leave(l) PROVE LoaderInv'
  BY <1>1, LoadKeeps, LeaveKeeps
<1>2. ASSUME NEW e \in Leases, Skeleton(e) \/ GiveUp(e) PROVE LoaderInv'
  BY <1>2, BeginKeeps, LeaseMoveKeeps, FetchedKeeps, ExtendedKeeps DEF Skeleton
<1>3. ASSUME NEW t \in Traces, Flush(t) \/ CutEarly(t) \/ CutAtWork(t) PROVE LoaderInv'
  BY <1>3, LoopKeeps, CollectKeeps, ReadKeeps, ReadOkKeeps, FlushFails DEF Flush
<1>4. CASE Shut \/ Closed
  <2>1. CASE \E t \in Traces : TRUE
    BY <1>4, <2>1, LoopKeeps
  <2>2. CASE Traces = {}
    <3>1. TypeOK' /\ ClosedIsQuiet'
      BY <1>4, <2>2 DEF LoaderInv, TypeOK, ClosedIsQuiet, Shut, Closed, storeVars, leaseVars, flushVars
    <3>2. Leases = {}
      BY <2>2, LoaderAssumption
    <3>3. Loads = {}
      BY <3>2, LoaderAssumption
    <3> QED BY <2>2, <3>1, <3>2, <3>3
            DEF LoaderInv, OneSkeleton, StoreHas, LeasesHonest, LoadsHonest, QueuesHonest, WorkHonest
  <2> QED BY <2>1, <2>2
<1>5. CASE UNCHANGED vars
  <2> USE <1>5 DEF vars, storeVars, leaseVars, flushVars
  <2>1. OneSkeleton' /\ LeasesHonest' /\ LoadsHonest' /\ WorkHonest' /\ QueuesHonest'
    BY AnswersKeep, WorkStays, QueuesStay DEF Settles, Live
  <2>2. TypeOK' /\ StoreHas' /\ ClosedIsQuiet'
    BY DEF LoaderInv, TypeOK, StoreHas, ClosedIsQuiet, Busy
  <2> QED BY <2>1, <2>2 DEF LoaderInv
<1> QED BY <1>1, <1>2, <1>3, <1>4, <1>5 DEF Next, Closing, Over

LEMMA LoaderIsExact == LoaderInv => ReadsExact
BY DEF LoaderInv, ReadsExact, NothingReadTwice, MembershipFrozen, LeasesHonest, WorkHonest

LEMMA LoaderInvariant == Spec => []LoaderInv
<1>1. Init => LoaderInv
  BY StartTyped
<1>2. LoaderInv /\ [Next]_vars => LoaderInv'
  BY LoaderStep
<1> QED BY <1>1, <1>2, PTL DEF Spec

(* The loader keeps what it gives: a later session can serve from the store  *)
(* whatever any lease holds, and an answered call holds all it asked for, in *)
(* whatever order calls coalesce, reads end or callers leave.                *)
THEOREM EvidenceIsDurable == Spec => []EvidenceDurable
<1>1. LoaderInv => EvidenceDurable
  BY DEF LoaderInv, StoreHas, LoadsHonest, EvidenceDurable
<1> QED BY <1>1, LoaderInvariant, PTL

(* Coalescing is exact: a span is read only for fields the store lacks, a    *)
(* membership is fetched once, and nothing goes on after close().            *)
THEOREM ReadsAreExact == Spec => []ReadsExact
BY LoaderIsExact, LoaderInvariant, PTL

-----------------------------------------------------------------------------
(* Either language: a step of one twin leaves the other where it was.      *)

LEMMA TwinsInvariant == TwinSpec => [](LoaderInv /\ SessionInv)
<1>1. TwinInit => LoaderInv /\ SessionInv
  BY StartTyped, SessionStarts DEF TwinInit
<1>2. LoaderInv /\ SessionInv /\ [TwinNext]_twinVars => (LoaderInv /\ SessionInv)'
  <2> SUFFICES ASSUME LoaderInv, SessionInv, [TwinNext]_twinVars PROVE LoaderInv' /\ SessionInv'
    OBVIOUS
  <2>1. [Next]_vars /\ [TsSessionNext]_tsSessionVars
    BY DEF TwinNext, twinVars
  <2> QED BY <2>1, LoaderStep, SessionStep
<1> QED BY <1>1, <1>2, PTL DEF TwinSpec

(* In Python and in TypeScript alike: nothing is read twice, limits hold,    *)
(* what is held is in the store, and a closed session has left nothing.      *)
THEOREM SessionsAreExact == TwinSpec => []SessionsExact
<1>1. LoaderInv /\ SessionInv => SessionsExact
  BY LoaderIsExact, SessionSound DEF SessionsExact
<1> QED BY <1>1, TwinsInvariant, PTL

===============================================================================
