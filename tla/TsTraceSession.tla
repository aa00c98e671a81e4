---------------------------- MODULE TsTraceSession ----------------------------
(* The TypeScript trace session: runtime.ts, loading/loader.ts and the pools   *)
(* of toolbox/concurrency.ts.  tree() takes a slot, has its loader read the    *)
(* skeleton and holds the slot until its lease is closed; loads of a lease     *)
(* are merged in a microtask; every job of a trace runs in one promise chain;  *)
(* one pool bounds the reads of all datasets.  close() aborts a signal instead *)
(* of cancelling tasks: whoever continues after an await must look at it.      *)
(*                                                                             *)
(* Abstracted: an item stands for a field of a span; the fields of the         *)
(* skeleton are no items, and the reads of a job are one, for it saves them at *)
(* once.  A source honours the signal, and may fail.                           *)
EXTENDS Naturals, Sequences, FiniteSets

CONSTANTS
    TsCalls,        \* calls of session.tree()
    TsTraceOf,      \* the trace of each; traces of several datasets share the pool
    TsLoads,        \* loads by the computations of a lease
    TsAsks,         \* the call whose lease makes it, and the items it wants
    TsPreload,      \* config.fields
    TsUses,         \* config.lazy, and which calls a session then gets
    TsActive,       \* config.activeTraces
    TsConcurrency,  \* config.concurrency
    TsMaxItems      \* the byte budget of a trace, in items

ASSUME TsSessionBounds ==
    /\ TsActive \in Nat \ {0} /\ TsConcurrency \in Nat \ {0} /\ TsMaxItems \in Nat
    /\ TsUses \subseteq [lazy : BOOLEAN, calls : SUBSET TsCalls]
    /\ TsCalls \cap TsLoads = {} /\ \A l \in TsLoads : TsAsks[l].call \in TsCalls

TsTraces == {TsTraceOf[c] : c \in TsCalls}
\* A selection is under way while trees are asked of an earlier dataset.
Selection == "selection"
PoolUsers == TsTraces \cup {Selection}

VARIABLES
    use,        \* the configuration and its calls
    tree,       \* where each call of tree() stands
    slotLine,   \* #slots: who waits, in order
    tsLease,    \* the lease of each call
    held,       \* the items its spans have loaded
    request,    \* each load, the preload of a call included
    gathering,  \* #pending: the requests of the current microtask
    chain,      \* #locks: the jobs of a trace, the first one running
    step,       \* where the first job of a trace stands, and the selection
    readLine,   \* #reads: who waits, in order
    skeletons,  \* the skeleton the store has: "saved" with all its fields, or "lacking"
    store,      \* the items the store has
    closing     \* "open", the stages of #close(), "closed"

tsSessionVars == <<use, tree, slotLine, tsLease, held, request, gathering, chain, step,
                   readLine, skeletons, store, closing>>

Aborted == closing # "open"
SlotHolders ==
    {c \in TsCalls : tree[c] \in {"granted", "chained", "assembling", "preloading", "ready", "leaving"}}
Settled(c) == tree[c] \in {"left", "raised"}
InPool == {u \in PoolUsers : step[u] \in {"granted", "reading"}}
TheCall(r) == IF r \in TsCalls THEN r ELSE TsAsks[r].call
Wanted(r) == IF r \in TsCalls THEN TsPreload ELSE TsAsks[r].items
Job(c, requests) == [call |-> c, requests |-> requests]
NoCall == "none"
\* No trace and no call is named so.
ASSUME TsNames == Selection \notin TsTraces /\ NoCall \notin TsCalls
RequestsOf(job) == {job.requests[i] : i \in DOMAIN job.requests}

TsSessionInit ==
    /\ use \in TsUses
    /\ tree = [c \in TsCalls |-> "new"] /\ slotLine = << >>
    /\ tsLease = [c \in TsCalls |-> "none"] /\ held = [c \in TsCalls |-> {}]
    /\ request = [r \in TsCalls \cup TsLoads |-> "idle"]
    /\ gathering = [t \in TsTraces |-> << >>]
    /\ chain = [t \in TsTraces |-> << >>]
    /\ step = [u \in PoolUsers |-> "idle"] /\ readLine = << >>
    /\ skeletons \in [TsTraces -> {"lacking", "saved"}]
    /\ store = [t \in TsTraces |-> {}]
    /\ closing = "open"

-----------------------------------------------------------------------------
(* ConcurrencyPool: a slot passes to the first in line, who may find, when   *)
(* it continues, that the signal has been aborted meanwhile.                 *)
Ends(c, end) ==
    /\ tree' = [d \in TsCalls |-> IF d = c THEN end
                                  ELSE IF slotLine # << >> /\ d = Head(slotLine) THEN "granted"
                                  ELSE tree[d]]
    /\ slotLine' = IF slotLine = << >> THEN << >> ELSE Tail(slotLine)

\* Mutant: a slot that is handed back goes to nobody in line.
ReturnsToNobody(u, next) == step' = [step EXCEPT ![u] = next] /\ UNCHANGED readLine
\* The user of the pool goes on to `next`, and whoever waited first follows.
Returns(u, next) ==
    /\ step' = [v \in PoolUsers |-> IF v = u THEN next
                                    ELSE IF readLine # << >> /\ v = Head(readLine) THEN "granted"
                                    ELSE step[v]]
    /\ readLine' = IF readLine = << >> THEN << >> ELSE Tail(readLine)

\* What is no user of the pool at the moment goes on.
Turns(u, next) == step' = [step EXCEPT ![u] = next] /\ UNCHANGED readLine

Enters(u) ==
    IF Cardinality(InPool) < TsConcurrency THEN Turns(u, "granted")
    ELSE step' = [step EXCEPT ![u] = "line"] /\ readLine' = Append(readLine, u)

Granted(u) ==
    /\ step[u] = "granted"
    /\ IF Aborted THEN Returns(u, "failed") ELSE Turns(u, "reading")
    /\ UNCHANGED <<tree, slotLine, tsLease, held, request, gathering, chain, skeletons, store, closing>>

\* A read ends; after an abort with an error, by the source or by the check
\* that follows the await.
ReadEnds(u) ==
    /\ step[u] = "reading"
    /\ \E end \in {"done", "failed"} : (Aborted => end = "failed") /\ Returns(u, end)
    /\ UNCHANGED <<tree, slotLine, tsLease, held, request, gathering, chain, skeletons, store, closing>>

\* select() reads under the same pool, and a dataset it cannot finish is removed.
TsSelect ==
    /\ step[Selection] = "idle" /\ ~Aborted
    /\ Enters(Selection)
    /\ UNCHANGED <<tree, slotLine, tsLease, held, request, gathering, chain, skeletons, store, closing>>

TsSelected ==
    /\ step[Selection] \in {"done", "failed"}
    /\ Turns(Selection, "over")
    /\ UNCHANGED <<tree, slotLine, tsLease, held, request, gathering, chain, skeletons, store, closing>>

-----------------------------------------------------------------------------
(* tree(): a slot, the membership, the skeleton, the lease.                  *)
TsTree(c) ==
    /\ tree[c] = "new" /\ c \in use.calls /\ ~Aborted
    /\ IF Cardinality(SlotHolders) < TsActive
       THEN tree' = [tree EXCEPT ![c] = "granted"] /\ UNCHANGED slotLine
       ELSE tree' = [tree EXCEPT ![c] = "waits"] /\ slotLine' = Append(slotLine, c)
    /\ UNCHANGED <<tsLease, held, request, gathering, chain, step, readLine, skeletons, store, closing>>

\* dataset.contains and #loader; the skeleton job joins the chain of the trace.
TsAdmit(c) ==
    /\ tree[c] = "granted"
    /\ \/ Ends(c, "raised") /\ UNCHANGED chain
       \/ /\ ~Aborted
          /\ tree' = [tree EXCEPT ![c] = "chained"]
          /\ chain' = [chain EXCEPT ![TsTraceOf[c]] = Append(@, Job(c, << >>))]
          /\ UNCHANGED slotLine
    /\ UNCHANGED <<tsLease, held, request, gathering, step, readLine, skeletons, store, closing>>

\* The skeleton is assembled, which may raise, into a lease; unless lazy its
\* preload is asked for, which an aborted loader refuses.  A call that fails
\* with a lease closes it first.
TsAssemble(c) ==
    /\ tree[c] = "assembling"
    /\ \/ Ends(c, "raised") /\ UNCHANGED <<tsLease, request, gathering>>
       \/ /\ tsLease' = [tsLease EXCEPT ![c] = IF Aborted THEN "closing" ELSE "open"]
          /\ tree' = [tree EXCEPT ![c] = IF Aborted THEN "leaving" ELSE IF use.lazy THEN "ready" ELSE "preloading"]
          /\ IF Aborted \/ use.lazy THEN UNCHANGED <<request, gathering>>
             ELSE /\ request' = [request EXCEPT ![c] = "pending"]
                  /\ gathering' = [gathering EXCEPT ![TsTraceOf[c]] = Append(@, c)]
          /\ UNCHANGED slotLine
    /\ UNCHANGED <<held, chain, step, readLine, skeletons, store, closing>>

\* A failed preload waits for a consumer, an exceeded budget ends the call.
TsPreloaded(c) ==
    /\ tree[c] = "preloading" /\ request[c] # "pending"
    /\ LET fails == Aborted \/ request[c] = "too large"
       IN  /\ tree' = [tree EXCEPT ![c] = IF fails THEN "leaving" ELSE "ready"]
           /\ tsLease' = IF fails /\ tsLease[c] = "open" THEN [tsLease EXCEPT ![c] = "closing"] ELSE tsLease
    /\ UNCHANGED <<slotLine, held, request, gathering, chain, step, readLine, skeletons, store, closing>>

\* The holder of a lease closes it: nothing is asked of it from now on.
TsCloseLease(c) ==
    /\ tree[c] = "ready" /\ tsLease[c] = "open"
    /\ tsLease' = [tsLease EXCEPT ![c] = "closing"]
    /\ UNCHANGED <<tree, slotLine, held, request, gathering, chain, step, readLine, skeletons, store, closing>>

\* Mutant: close() releases the lease without waiting for its computations.
TsReleaseAtOnce(c) ==
    /\ tsLease[c] = "closing"
    /\ tsLease' = [tsLease EXCEPT ![c] = "closed"]
    /\ UNCHANGED <<tree, slotLine, held, request, gathering, chain, step, readLine, skeletons, store, closing>>
\* Its computations have ended.
TsRelease(c) ==
    /\ tsLease[c] = "closing"
    /\ \A l \in TsLoads : TsAsks[l].call = c => request[l] \notin {"pending", "loaded"}
    /\ tsLease' = [tsLease EXCEPT ![c] = "closed"]
    /\ UNCHANGED <<tree, slotLine, held, request, gathering, chain, step, readLine, skeletons, store, closing>>

\* The lease has been released, and the slot passes on.
TsLeaveTree(c) ==
    /\ tree[c] \in {"ready", "leaving"} /\ tsLease[c] = "closed"
    /\ Ends(c, IF tree[c] = "ready" THEN "left" ELSE "raised")
    /\ UNCHANGED <<tsLease, held, request, gathering, chain, step, readLine, skeletons, store, closing>>

-----------------------------------------------------------------------------
(* load(): what is at hand returns; the first request of a microtask has     *)
(* them all flushed by one job.                                              *)
TsLoad(l) ==
    LET asker == TsAsks[l].call
    IN  /\ request[l] = "idle" /\ tree[asker] = "ready" /\ tsLease[asker] = "open" /\ ~Aborted
        /\ IF Wanted(l) \subseteq held[asker]
           THEN request' = [request EXCEPT ![l] = "loaded"] /\ UNCHANGED gathering
           ELSE /\ request' = [request EXCEPT ![l] = "pending"]
                /\ gathering' = [gathering EXCEPT ![TsTraceOf[asker]] = Append(@, l)]
        /\ UNCHANGED <<tree, slotLine, tsLease, held, chain, step, readLine, skeletons, store, closing>>

Microtask(t) ==
    /\ gathering[t] # << >>
    /\ gathering' = [gathering EXCEPT ![t] = << >>]
    /\ chain' = [chain EXCEPT ![t] = Append(@, Job(NoCall, gathering[t]))]
    /\ UNCHANGED <<tree, slotLine, tsLease, held, request, step, readLine, skeletons, store, closing>>

\* A computation whose load has ended looks at its lease before it writes.
Conclude(l) ==
    /\ request[l] = "loaded"
    /\ request' = [request EXCEPT ![l] = IF Aborted \/ tsLease[TsAsks[l].call] # "open"
                                        THEN "raised" ELSE "computed"]
    /\ UNCHANGED <<tree, slotLine, tsLease, held, gathering, chain, step, readLine, skeletons, store, closing>>

-----------------------------------------------------------------------------
(* #serial: the first job of a chain.                                        *)
Missing(t, job) == (UNION {Wanted(r) : r \in RequestsOf(job)}) \ store[t]
JobNeeds(t, job) == IF job.call = NoCall THEN Missing(t, job) # {} ELSE skeletons[t] # "saved"

BeginJob(t) ==
    /\ chain[t] # << >> /\ step[t] = "idle"
    /\ IF Aborted THEN Turns(t, "failed")
       ELSE IF JobNeeds(t, Head(chain[t])) THEN Enters(t) ELSE Turns(t, "done")
    /\ UNCHANGED <<tree, slotLine, tsLease, held, request, gathering, chain, skeletons, store, closing>>

\* Mutant: a flush that never began rejects nobody.
RefusesCall(t, job, error) ==
    /\ IF job.call = NoCall THEN UNCHANGED <<tree, slotLine>> ELSE Ends(job.call, "raised")
    /\ UNCHANGED <<request, held, skeletons, store>>
\* Whatever a job throws rejects the call or all the requests it stands for.
Refuses(t, job, error) ==
    /\ IF job.call = NoCall THEN UNCHANGED <<tree, slotLine>> ELSE Ends(job.call, "raised")
    /\ request' = [r \in DOMAIN request |-> IF r \in RequestsOf(job) THEN error ELSE request[r]]
    /\ UNCHANGED <<held, skeletons, store>>

\* The requests are answered in their order until a lease would hold too much.
TsFilled(job, n) ==
    [c \in TsCalls |-> held[c] \cup UNION {Wanted(job.requests[i]) :
                                 i \in {j \in 1..n : TheCall(job.requests[j]) = c}}]
Fits(job, n) == Cardinality(TsFilled(job, n)[TheCall(job.requests[n])]) <= TsMaxItems

\* The spans a flush works on are those of its last request, with what all want.
TooMuch(job) ==
    LET last == TheCall(job.requests[Len(job.requests)])
    IN  Cardinality(held[last] \cup UNION {Wanted(r) : r \in RequestsOf(job)}) > TsMaxItems

\* What the source gave is saved before anybody hears of it.
Delivers(t, job) ==
    \E n \in 0..Len(job.requests) :
        /\ IF Aborted THEN n = 0 ELSE n < Len(job.requests) => ~Fits(job, n + 1)
        /\ \A i \in 1..n : Fits(job, i)
        /\ store' = [store EXCEPT ![t] = @ \cup Missing(t, job)]
        /\ held' = TsFilled(job, n)
        /\ request' = [r \in DOMAIN request |->
                         IF r \notin RequestsOf(job) THEN request[r]
                         ELSE IF \E i \in 1..n : job.requests[i] = r THEN "loaded"
                         ELSE IF Aborted THEN "raised" ELSE "too large"]
        /\ UNCHANGED <<tree, slotLine, skeletons>>

\* A job that wants too much fails before it saves; a skeleton that could be
\* read is saved, whatever has been aborted meanwhile.
EndJob(t) ==
    LET job == Head(chain[t])
    IN  /\ chain[t] # << >> /\ step[t] \in {"done", "failed"}
        /\ IF step[t] = "failed" THEN Refuses(t, job, "raised")
           ELSE IF job.call # NoCall
           THEN /\ skeletons' = [skeletons EXCEPT ![t] = "saved"]
                /\ tree' = [tree EXCEPT ![job.call] = "assembling"]
                /\ UNCHANGED <<slotLine, held, request, store>>
           ELSE IF TooMuch(job) THEN Refuses(t, job, "too large")
           ELSE Delivers(t, job)
        /\ chain' = [chain EXCEPT ![t] = Tail(@)]
        /\ Turns(t, "idle")
        /\ UNCHANGED <<tsLease, gathering, closing>>

-----------------------------------------------------------------------------
(* #close(): the signal is aborted, which takes everybody out of both lines, *)
(* and the leases are told to close; then each stage awaits what it finds.   *)
TsSessionClose ==
    /\ closing = "open"
    /\ closing' = "leases"
    /\ tree' = [c \in TsCalls |-> IF tree[c] = "waits" THEN "raised" ELSE tree[c]]
    /\ slotLine' = << >>
    /\ step' = [u \in PoolUsers |-> IF step[u] = "line" THEN "failed" ELSE step[u]]
    /\ readLine' = << >>
    /\ tsLease' = [c \in TsCalls |-> IF tsLease[c] = "open" THEN "closing" ELSE tsLease[c]]
    /\ UNCHANGED <<held, request, gathering, chain, skeletons, store>>

LeasesEnded == \A c \in TsCalls : tsLease[c] # "closing"
OperationsEnded == step[Selection] \in {"idle", "over"} /\ \A c \in TsCalls : tree[c] = "new" \/ Settled(c)
JobsEnded == \A t \in TsTraces : chain[t] = << >>

CloseStage(stage, next, done) ==
    /\ closing = stage /\ done
    /\ closing' = next
    /\ UNCHANGED <<tree, slotLine, tsLease, held, request, gathering, chain, step, readLine, skeletons, store>>

CloseStep ==
    \/ CloseStage("leases", "operations", LeasesEnded)
    \/ CloseStage("operations", "loaders", OperationsEnded)
    \/ CloseStage("loaders", "closed", JobsEnded)

TsSessionStep ==
    /\ \/ \E u \in PoolUsers : Granted(u) \/ ReadEnds(u)
       \/ \E c \in TsCalls : TsAdmit(c) \/ TsAssemble(c) \/ TsPreloaded(c) \/ TsCloseLease(c) \/ TsRelease(c) \/ TsLeaveTree(c)
       \/ \E l \in TsLoads : Conclude(l)
       \/ \E t \in TsTraces : Microtask(t) \/ BeginJob(t) \/ EndJob(t)
       \/ TsSelected \/ CloseStep
    /\ UNCHANGED use

TsSessionNext ==
    \/ TsSessionStep
    \/ /\ TsSelect \/ TsSessionClose \/ (\E c \in TsCalls : TsTree(c)) \/ (\E l \in TsLoads : TsLoad(l))
       /\ UNCHANGED use

\* The event loop runs on, reads return and holders close their leases; each
\* actor makes finitely many steps, so none starves.
TsSessionFairness == WF_tsSessionVars(TsSessionStep)

-----------------------------------------------------------------------------
(* Slots and reads stay within their limits over all datasets, and nobody    *)
(* waits for one that is free: grants that meet an abort do not lose it.     *)
PoolsExact ==
    /\ Cardinality(SlotHolders) <= TsActive /\ Cardinality(InPool) <= TsConcurrency
    /\ slotLine # << >> => Cardinality(SlotHolders) = TsActive
    /\ readLine # << >> => Cardinality(InPool) = TsConcurrency

(* No read asks the source for what the store has, and none begins once the  *)
(* session is aborted: membership is fetched once, evidence is reused.       *)
ReadsNeeded ==
    \A t \in TsTraces : step[t] = "reading" => JobNeeds(t, Head(chain[t]))

(* A lease holds nothing that the store lacks and no more than its budget;   *)
(* what has been computed had all it asked for; a closed lease computes no   *)
(* more, and a session that has closed has left nothing running.             *)
LeavesNothing ==
    /\ \A c \in TsCalls : held[c] \subseteq store[TsTraceOf[c]] /\ Cardinality(held[c]) <= TsMaxItems
    /\ \A l \in TsLoads : request[l] = "computed" => Wanted(l) \subseteq held[TsAsks[l].call]
    /\ \A l \in TsLoads : tsLease[TsAsks[l].call] = "closed" => request[l] \notin {"pending", "loaded"}
    /\ closing = "closed" =>
          /\ \A c \in TsCalls : tsLease[c] \in {"none", "closed"} /\ request[c] # "pending"
          /\ InPool = {} /\ \A t \in TsTraces : gathering[t] = << >>

TsSessionSound == PoolsExact /\ ReadsNeeded /\ LeavesNothing

(* Every call of tree(), every load and close() itself come to an end,       *)
(* whatever fails and whenever the session closes.                           *)
TsSessionSettles ==
    []<>(/\ \A c \in TsCalls : tree[c] = "new" \/ Settled(c)
         /\ \A r \in DOMAIN request : request[r] # "pending"
         /\ \A l \in TsLoads : request[l] # "loaded"
         /\ closing \in {"open", "closed"})

=============================================================================
