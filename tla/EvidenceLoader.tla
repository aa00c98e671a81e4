--------------------------- MODULE EvidenceLoader ---------------------------
(***************************************************************************)
(* Coalesced, bounded evidence reads: EvidenceLoader and EvidenceStore of  *)
(* trace_harness/loading, with the two parts of TraceSession that drive    *)
(* them (tree, which takes a lease's skeleton, and __aexit__).             *)
(*                                                                         *)
(* A lease first obtains the skeleton of its trace, read once and frozen   *)
(* in the store.  Then its computations call load() for fields of spans.   *)
(* Calls for one trace queue up; the first starts a flush task that takes  *)
(* the trace's lock, collects the queue, and serves all of it from the     *)
(* store or, in batches under a semaphore, from the source.                *)
(*                                                                         *)
(* All runs on one event loop: an action is what runs between two awaits.  *)
(* The source is outside: a read fails or finds any part of what it asks.  *)
(***************************************************************************)
EXTENDS Integers, Sequences, FiniteSets, FiniteSetsExt

CONSTANTS
    Traces, Spans, Fields,
    SpansOf,        \* SpansOf[t]: the spans a skeleton read of t observes
    StripeOf,       \* StripeOf[t]: the lock t hashes to
    Leases,
    TraceOf,        \* TraceOf[e]: the trace of lease e
    Structure,      \* the fields a skeleton projects
    Saved,          \* Saved[t]: what earlier sessions may have projected
    Loads,          \* calls of load() by computations of the leases
    Asks,           \* Asks[l]: its lease, span ids and fields
    Weight,         \* Weight[f]: bytes of field f on one span
    Budget,         \* bytes allowed per trace
    Concurrency,    \* LoadConfig.concurrency
    Batch           \* references per source read

\* A full read (fields None) asks for all of Fields, one of which stands for
\* what no projection names.
ASSUME LoaderAssumption ==
    /\ SpansOf \in [Traces -> SUBSET Spans]
    /\ TraceOf \in [Leases -> Traces]
    /\ Structure \in (SUBSET Fields) \ {{}}
    /\ Saved \in [Traces -> SUBSET SUBSET Structure]
    /\ Asks \in [Loads -> [lease : Leases, ids : SUBSET Spans, fields : SUBSET Fields]]
    /\ Loads \cap Leases = {}
    /\ Weight \in [Fields -> Nat]
    /\ Budget \in Nat \ {0}
    /\ Concurrency \in Nat \ {0}
    /\ Batch \in Nat \ {0}

VARIABLES
    skeleton,   \* fields of the saved skeleton of each trace, {} when none
    cache,      \* fields the store can serve of each span
    lease,      \* where tree() stands for each lease
    loaded,     \* loaded_fields of each span object of a lease
    answer,     \* the future of each request
    queue,      \* _pending
    flush,      \* the flush task that has not collected the queue yet
    work,       \* the requests a flush task is serving, and its locals
    phase       \* "open", then close() is "closing" and "closed"

storeVars == <<skeleton, cache>>
leaseVars == <<lease, loaded>>
flushVars == <<queue, flush, work>>
vars == <<storeVars, leaseVars, answer, flushVars, phase>>

-----------------------------------------------------------------------------
\* A lease whose saved skeleton lacks fields makes a request of its own.
Requests == Loads \cup Leases

Lease(r) == IF r \in Leases THEN r ELSE Asks[r].lease
Trace(r) == TraceOf[Lease(r)]
Ids(r)   == IF r \in Leases THEN SpansOf[TraceOf[r]] ELSE Asks[r].ids
Wants(r) == IF r \in Leases THEN Structure \ skeleton[TraceOf[r]] ELSE Asks[r].fields

Idle == [reqs |-> << >>, fields |-> {}, found |-> {}, missing |-> {}, batch |-> {}]
Busy(t) == work[t] # Idle
Reading(t) == work[t].batch # {}

Bytes(fields) == MapThenSumSet(LAMBDA f : Weight[f], fields)
\* _check_size: the bytes a span-to-fields map holds.
Size(held) == MapThenSumSet(LAMBDA s : Bytes(held[s]), DOMAIN held)

SemaphoreFree ==
    Cardinality({t \in Traces : Reading(t)})
        + Cardinality({e \in Leases : lease[e] = "fetching"}) < Concurrency

LockFree(t) ==
    \A u \in Traces : StripeOf[u] = StripeOf[t] =>
        flush[u] # "collecting" /\ ~Busy(u)

SkeletonLockFree(t) ==
    \A e \in Leases : StripeOf[TraceOf[e]] = StripeOf[t] =>
        lease[e] \notin {"queued", "fetching", "extending"}

\* The session closes the store when close() has returned.
StoreOpen == phase # "closed"

Init ==
    /\ skeleton \in {sk \in [Traces -> SUBSET Structure] :
                        \A t \in Traces : sk[t] \in Saved[t]}
    /\ cache = [t \in Traces |-> [s \in Spans |-> skeleton[t]]]
    /\ lease = [e \in Leases |-> "new"]
    /\ loaded = [e \in Leases |-> [s \in Spans |-> {}]]
    /\ answer = [r \in Requests |-> "idle"]
    /\ queue = [t \in Traces |-> << >>]
    /\ flush = [t \in Traces |-> "none"]
    /\ work = [t \in Traces |-> Idle]
    /\ phase = "open"

-----------------------------------------------------------------------------
(* load(): what is at hand needs no read; otherwise the request joins the  *)
(* queue of its trace, and the first one starts the flush task.            *)
AtHand(r) == Ids(r) \subseteq SpansOf[Trace(r)]
             /\ \A s \in Ids(r) : Wants(r) \subseteq loaded[Lease(r)][s]

\* The queue held nothing, so nobody has started its flush.
FirstInQueue(t) == queue[t] = << >>

Enqueue(r) ==
    LET t == Trace(r)
    IN  /\ answer' = [answer EXCEPT ![r] = "pending"]
        /\ queue' = [queue EXCEPT ![t] = Append(@, r)]
        /\ flush' = IF FirstInQueue(t) THEN [flush EXCEPT ![t] = "waiting"] ELSE flush

Refuse(l) ==
    /\ phase # "open"
    /\ answer' = [answer EXCEPT ![l] = "failed"]
    /\ UNCHANGED flushVars

Return(l) ==
    /\ phase = "open" /\ AtHand(l)
    /\ answer' = [answer EXCEPT ![l] = "ok"]
    /\ UNCHANGED flushVars

Wait(l) ==
    /\ phase = "open" /\ ~AtHand(l)
    /\ Enqueue(l)
    /\ UNCHANGED work

Load(l) ==
    /\ answer[l] = "idle" /\ lease[Lease(l)] = "ready"
    /\ Refuse(l) \/ Return(l) \/ Wait(l)
    /\ UNCHANGED <<storeVars, leaseVars, phase>>

\* The caller is cancelled, and its future with it.
Leave(l) ==
    /\ answer[l] = "pending"
    /\ answer' = [answer EXCEPT ![l] = "left"]
    /\ UNCHANGED <<storeVars, leaseVars, flushVars, phase>>

-----------------------------------------------------------------------------
(* skeleton(): under the trace's skeleton lock, a saved skeleton is used,  *)
(* extended through load() by the fields it lacks; otherwise the source is *)
(* asked for the span set, which is saved with its fields.                 *)
Holding(e, fields) ==
    [loaded EXCEPT ![e] = [s \in Spans |-> IF s \in SpansOf[TraceOf[e]] THEN fields ELSE {}]]

UseSaved(e) ==
    /\ skeleton[TraceOf[e]] = Structure
    /\ lease' = [lease EXCEPT ![e] = "ready"]
    /\ loaded' = Holding(e, Structure)
    /\ UNCHANGED <<answer, queue, flush>>

ExtendSaved(e) ==
    /\ skeleton[TraceOf[e]] \notin {{}, Structure}
    /\ loaded' = Holding(e, skeleton[TraceOf[e]])
    /\ IF phase = "open"
       THEN lease' = [lease EXCEPT ![e] = "extending"] /\ Enqueue(e)
       ELSE lease' = [lease EXCEPT ![e] = "failed"] /\ UNCHANGED <<answer, queue, flush>>

AskSource(e) ==
    /\ skeleton[TraceOf[e]] = {}
    /\ lease' = [lease EXCEPT ![e] = "queued"]
    /\ UNCHANGED <<loaded, answer, queue, flush>>

Begin(e) ==
    /\ lease[e] = "new" /\ StoreOpen
    /\ SkeletonLockFree(TraceOf[e])
    /\ UseSaved(e) \/ ExtendSaved(e) \/ AskSource(e)
    /\ UNCHANGED <<storeVars, work, phase>>

\* tree() is refused by a closed session, and fails on a closed store.
TurnAway(e) ==
    /\ lease[e] = "new" /\ phase # "open"
    /\ lease' = [lease EXCEPT ![e] = "failed"]
    /\ UNCHANGED <<storeVars, loaded, answer, flushVars, phase>>

Fetch(e) ==
    /\ lease[e] = "queued" /\ SemaphoreFree
    /\ lease' = [lease EXCEPT ![e] = "fetching"]
    /\ UNCHANGED <<storeVars, loaded, answer, flushVars, phase>>

\* store.put of the skeleton, then store.save of each of its spans.
Freeze(t) ==
    /\ skeleton' = [skeleton EXCEPT ![t] = Structure]
    /\ cache' = [cache EXCEPT ![t] =
                    [s \in Spans |-> IF s \in SpansOf[t] THEN @[s] \cup Structure ELSE @[s]]]

Fetched(e) ==
    /\ lease[e] = "fetching" /\ StoreOpen
    /\ Cardinality(SpansOf[TraceOf[e]]) * Bytes(Structure) <= Budget
    /\ Freeze(TraceOf[e])
    /\ lease' = [lease EXCEPT ![e] = "ready"]
    /\ loaded' = Holding(e, Structure)
    /\ UNCHANGED <<answer, flushVars, phase>>

\* The source fails or knows no span, the skeleton is too large, the store is
\* closed, or the extension was not served.
NoSkeleton(e) ==
    /\ \/ lease[e] = "fetching"
       \/ lease[e] = "extending" /\ answer[e] = "failed"
       \/ lease[e] = "extending" /\ answer[e] = "ok" /\ ~StoreOpen
    /\ lease' = [lease EXCEPT ![e] = "failed"]
    /\ UNCHANGED <<storeVars, loaded, answer, flushVars, phase>>

\* The tree() call is cancelled.
GiveUp(e) ==
    /\ lease[e] \in {"queued", "fetching", "extending"}
    /\ lease' = [lease EXCEPT ![e] = "failed"]
    /\ answer' = IF answer[e] = "pending" THEN [answer EXCEPT ![e] = "left"] ELSE answer
    /\ UNCHANGED <<storeVars, loaded, flushVars, phase>>

Extended(e) ==
    /\ lease[e] = "extending" /\ answer[e] = "ok" /\ StoreOpen
    /\ skeleton' = [skeleton EXCEPT ![TraceOf[e]] = Structure]
    /\ lease' = [lease EXCEPT ![e] = "ready"]
    /\ UNCHANGED <<cache, loaded, answer, flushVars, phase>>

Skeleton(e) == Begin(e) \/ TurnAway(e) \/ Fetch(e) \/ Fetched(e) \/ NoSkeleton(e)
               \/ Extended(e)

-----------------------------------------------------------------------------
(* _flush: what a batch could not deliver, all its requests share.         *)
Live(r) == answer[r] = "pending"
Members(s) == {s[i] : i \in DOMAIN s}

\* Mutant: the first request hears of the failure.
FailFirst(reqs) ==
    [r \in Requests |-> IF r = reqs[1] /\ Live(r) THEN "failed" ELSE answer[r]]

FailAll(reqs) ==
    [r \in Requests |-> IF r \in Members(reqs) /\ Live(r) THEN "failed" ELSE answer[r]]

(* The requests are answered in order; the bytes a lease then holds are    *)
(* checked after its span objects have been filled.                        *)
Complete(r, found) == Live(r) /\ Ids(r) \subseteq found

\* Mutant: the span takes every field the flush has read for anyone.
FilledForAll(reqs, found, n) ==
    [e \in Leases |-> [s \in Spans |->
        loaded[e][s] \cup UNION {Wants(reqs[i]) : i \in
            {j \in 1..n : Live(reqs[j]) /\ Lease(reqs[j]) = e /\ s \in Ids(reqs[j])}}]]

Filled(reqs, found, n) ==
    [e \in Leases |-> [s \in Spans |->
        loaded[e][s] \cup UNION {Wants(reqs[i]) : i \in
            {j \in 1..n : /\ Complete(reqs[j], found) /\ Lease(reqs[j]) = e
                          /\ s \in Ids(reqs[j])}}]]

TooLarge(reqs, found, n) ==
    Complete(reqs[n], found) /\ Size(Filled(reqs, found, n)[Lease(reqs[n])]) > Budget

Answered(reqs, found, n) ==
    [r \in Requests |->
        IF r \in Members(reqs) /\ Live(r)
        THEN IF Ids(r) \subseteq found /\ \E i \in 1..(n - 1) : reqs[i] = r
             THEN "ok" ELSE "failed"
        ELSE answer[r]]

Deliver(reqs, found) ==
    \E n \in 1..(Len(reqs) + 1) :
        /\ \A i \in 1..(n - 1) : ~TooLarge(reqs, found, i)
        /\ n <= Len(reqs) => TooLarge(reqs, found, n)
        /\ answer' = Answered(reqs, found, n)
        /\ loaded' = Filled(reqs, found, IF n <= Len(reqs) THEN n ELSE Len(reqs))

\* The task takes the lock of its trace; sleep(0) collects what else comes.
Lock(t) ==
    /\ phase = "open" /\ flush[t] = "waiting" /\ LockFree(t)
    /\ flush' = [flush EXCEPT ![t] = "collecting"]
    /\ UNCHANGED <<storeVars, leaseVars, answer, queue, work, phase>>

Union(reqs) == UNION {Wants(r) : r \in Members(reqs)}
Asked(reqs) == UNION {Ids(r) : r \in Members(reqs)}

\* Mutant: only an entry saved for the same projection is a hit.
CachedExactly(t, reqs) == {s \in Asked(reqs) : Union(reqs) = cache[t][s]}

\* store.read: the spans whose wanted fields are all saved.
Cached(t, reqs) == {s \in Asked(reqs) : Union(reqs) \subseteq cache[t][s]}

Collect(t) ==
    LET reqs == queue[t]
        cached == Cached(t, reqs)
    IN  /\ phase = "open" /\ flush[t] = "collecting"
        /\ queue' = [queue EXCEPT ![t] = << >>]
        /\ flush' = [flush EXCEPT ![t] = "none"]
        /\ \/ /\ ~(Asked(reqs) \subseteq SpansOf[t])
              /\ answer' = FailAll(reqs)
              /\ UNCHANGED <<loaded, work>>
           \/ /\ Asked(reqs) \subseteq SpansOf[t] /\ cached = Asked(reqs)
              /\ Deliver(reqs, cached)
              /\ UNCHANGED work
           \/ /\ Asked(reqs) \subseteq SpansOf[t] /\ cached # Asked(reqs)
              /\ work' = [work EXCEPT ![t] = [Idle EXCEPT
                            !.reqs = reqs, !.fields = Union(reqs), !.found = cached,
                            !.missing = Asked(reqs) \ cached]]
              /\ UNCHANGED <<loaded, answer>>
        /\ UNCHANGED <<storeVars, lease, phase>>

Refs(missing) ==
    {b \in SUBSET missing : Cardinality(b) = Batch \/ (b = missing /\ Cardinality(b) < Batch)}

Read(t) ==
    /\ phase = "open" /\ Busy(t) /\ ~Reading(t) /\ SemaphoreFree
    /\ \E b \in Refs(work[t].missing) :
          work' = [work EXCEPT ![t].batch = b, ![t].missing = @ \ b]
    /\ UNCHANGED <<storeVars, leaseVars, answer, queue, flush, phase>>

\* store.save of every span the source found.
Save(t, got) ==
    [cache EXCEPT ![t] =
        [s \in Spans |-> IF s \in got THEN @[s] \cup work[t].fields ELSE @[s]]]

ReadOk(t) ==
    /\ phase = "open" /\ Reading(t)
    /\ \E got \in SUBSET work[t].batch :
          LET found == work[t].found \cup got
          IN  /\ Cardinality(got) * Bytes(work[t].fields) <= Budget
              /\ cache' = Save(t, got)
              /\ IF work[t].missing = {}
                 THEN /\ Deliver(work[t].reqs, found)
                      /\ work' = [work EXCEPT ![t] = Idle]
                 ELSE /\ work' = [work EXCEPT ![t].found = found, ![t].batch = {}]
                      /\ UNCHANGED <<loaded, answer>>
    /\ UNCHANGED <<skeleton, lease, queue, flush, phase>>

\* The source raises, or what it returns is too large.
ReadFails(t) ==
    /\ phase = "open" /\ Reading(t)
    /\ answer' = FailAll(work[t].reqs)
    /\ work' = [work EXCEPT ![t] = Idle]
    /\ UNCHANGED <<storeVars, leaseVars, queue, flush, phase>>

Flush(t) == Lock(t) \/ Collect(t) \/ Read(t) \/ ReadOk(t) \/ ReadFails(t)

-----------------------------------------------------------------------------
(* close(): no new calls, every flush task is cancelled, then joined.      *)
Shut ==
    /\ phase = "open"
    /\ phase' = "closing"
    /\ UNCHANGED <<storeVars, leaseVars, answer, flushVars>>

\* CancelledError reaches the lock or the sleep: nobody answers the queue.
CutEarly(t) ==
    /\ phase = "closing" /\ flush[t] # "none"
    /\ flush' = [flush EXCEPT ![t] = "none"]
    /\ UNCHANGED <<storeVars, leaseVars, answer, queue, work, phase>>

\* It reaches the semaphore or the read: the futures are cancelled.
CutAtWork(t) ==
    /\ phase = "closing" /\ Busy(t)
    /\ answer' = FailAll(work[t].reqs)
    /\ work' = [work EXCEPT ![t] = Idle]
    /\ UNCHANGED <<storeVars, leaseVars, queue, flush, phase>>

Joined == \A t \in Traces : flush[t] = "none" /\ ~Busy(t)

Closed ==
    /\ phase = "closing" /\ Joined
    /\ phase' = "closed"
    /\ UNCHANGED <<storeVars, leaseVars, answer, flushVars>>

Closing == Closed \/ \E t \in Traces : CutEarly(t) \/ CutAtWork(t)

\* The session goes on to close the stores and the source.
Over == phase = "closed" /\ UNCHANGED vars

Next == (\E l \in Loads : Load(l) \/ Leave(l)) \/ (\E e \in Leases : Skeleton(e) \/ GiveUp(e))
        \/ (\E t \in Traces : Flush(t)) \/ Shut \/ Closing \/ Over

Spec == Init /\ [][Next]_vars

\* The loop runs what is ready, and sources bound their I/O.
Fairness ==
    /\ WF_vars(Closing)
    /\ \A e \in Leases : WF_vars(Skeleton(e))
    /\ \A t \in Traces : WF_vars(Flush(t))

FairSpec == Spec /\ Fairness

-----------------------------------------------------------------------------
Tasks == [reqs : Seq(Requests), fields : SUBSET Fields, found : SUBSET Spans,
          missing : SUBSET Spans, batch : SUBSET Spans]

(* Every variable keeps its type, and while the loader is open a queue is  *)
(* never without a flush task that will collect it.                        *)
TypeOK ==
    /\ skeleton \in [Traces -> SUBSET Structure]
    /\ cache \in [Traces -> [Spans -> SUBSET Fields]]
    /\ lease \in [Leases -> {"new", "queued", "fetching", "extending", "ready", "failed"}]
    /\ loaded \in [Leases -> [Spans -> SUBSET Fields]]
    /\ answer \in [Requests -> {"idle", "pending", "ok", "failed", "left"}]
    /\ queue \in [Traces -> Seq(Requests)]
    /\ flush \in [Traces -> {"none", "waiting", "collecting"}]
    /\ work \in [Traces -> Tasks]
    /\ phase \in {"open", "closing", "closed"}
    /\ phase = "open" => \A t \in Traces : queue[t] # << >> <=> flush[t] # "none"

(* "MUST reuse completed evidence reads" (spec/trace-loading.md): while a  *)
(* read is under way nobody else completes it, so no span is read for      *)
(* fields the store can already serve.                                     *)
NothingReadTwice ==
    \A t \in Traces : \A s \in work[t].batch : ~(work[t].fields \subseteq cache[t][s])

(* "Freeze membership exactly once": once a skeleton is saved, no lease    *)
(* asks the source for the span set of that trace again.                   *)
MembershipFrozen ==
    \A e \in Leases : lease[e] = "fetching" => skeleton[TraceOf[e]] = {}

(* A later session can serve from the store whatever any lease holds, and  *)
(* an answered call holds all it asked for.                                *)
EvidenceDurable ==
    /\ \A e \in Leases, s \in Spans : loaded[e][s] \subseteq cache[TraceOf[e]][s]
    /\ \A r \in Loads : answer[r] = "ok" =>
          \A s \in Ids(r) : Wants(r) \subseteq loaded[Lease(r)][s]

(* When close() has returned no flush task is left to read the source or   *)
(* to write the closed store.                                              *)
ClosedIsQuiet ==
    phase = "closed" => \A t \in Traces : flush[t] = "none" /\ ~Busy(t)

(* Coalescing is exact: one flush per queue, one read per field, one span   *)
(* set per trace, and nothing after close().                                *)
ReadsExact == TypeOK /\ NothingReadTwice /\ MembershipFrozen /\ ClosedIsQuiet

(* While the loader is open every call of load() is answered, whichever    *)
(* calls it was coalesced with and however their reads end.                *)
LoadsAnswered == []<>((\A r \in Requests : answer[r] # "pending") \/ phase # "open")

(* "Closing the Session MUST stop admission, cancel outstanding reads,     *)
(* settle work": a call that waits when the loader closes is answered too. *)
LoadsSettled ==
    \A r \in Requests : answer[r] = "pending" ~> answer[r] # "pending"

=============================================================================
