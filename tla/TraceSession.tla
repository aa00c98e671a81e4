----------------------------- MODULE TraceSession -----------------------------
(* trace_harness/runtime.py: tree() takes one of the session's slots, has  *)
(* the loader of its dataset read the skeleton, opens a lease, preloads    *)
(* unless the session is lazy, and closes the lease when its block ends,   *)
(* while __aexit__ may close the leases, the loaders and the stores under  *)
(* it, and either may be cancelled at any await.  FactGraph is the lease,  *)
(* EvidenceLoader the loader; here they only open, read and close.         *)
EXTENDS Naturals, FiniteSets

CONSTANTS
    Readers,       \* calls of tree()
    Trace,         \* the trace each reader asks for
    Dataset,       \* the dataset of each trace
    Stripe,        \* the skeleton lock of each trace: a hash, within its dataset
    ActiveTraces,  \* config.active_traces
    Concurrency,   \* config.concurrency
    Lazy           \* config.lazy

ASSUME SessionBounds == ActiveTraces \in Nat \ {0} /\ Concurrency \in Nat \ {0} /\ Lazy \in BOOLEAN

VARIABLES
    at,        \* where each reader stands in tree()
    active,    \* readers whose TraceAnalysis still answers
    leases,    \* _leases
    saved,     \* traces whose skeleton the store has
    session,   \* "open", then the stages of __aexit__, then "closed" or "cut"
    snap       \* the leases __aexit__ still has to close

sessionVars == <<at, active, leases, saved, session, snap>>

Held == {"admitted", "locked", "fetching", "assembling", "preloading", "body",
         "leaving", "closing"}
Gone(r) == at[r] \in {"left", "cut", "raised"}
Holders == {r \in Readers : at[r] \in Held}
StoresOpen == session # "closed"
DatasetOf(r) == Dataset[Trace[r]]
LockOf(r) == <<DatasetOf(r), Stripe[Trace[r]]>>
Fetching(ds) == {r \in Readers : at[r] = "fetching" /\ DatasetOf(r) = ds}

SessionInit ==
    /\ at = [r \in Readers |-> "new"]
    /\ active = {} /\ leases = {} /\ saved = {}
    /\ session = "open" /\ snap = {}

Goes(r, place) == at' = [at EXCEPT ![r] = place]

Call(r) ==
    /\ at[r] = "new"
    /\ Goes(r, "queued")
    /\ UNCHANGED <<active, leases, saved, session, snap>>

\* A slot is free; _loader refuses once the session is closed.
Admit(r) ==
    /\ at[r] = "queued" /\ Cardinality(Holders) < ActiveTraces
    /\ Goes(r, IF session = "open" THEN "admitted" ELSE "raised")
    /\ UNCHANGED <<active, leases, saved, session, snap>>

\* skeleton(): one reader of a stripe at a time.
TakeLock(r) ==
    /\ at[r] = "admitted"
    /\ \A q \in Readers : at[q] \in {"locked", "fetching"} => LockOf(q) # LockOf(r)
    /\ Goes(r, IF ~StoresOpen THEN "raised"
               ELSE IF Trace[r] \in saved THEN "assembling" ELSE "locked")
    /\ UNCHANGED <<active, leases, saved, session, snap>>

\* The semaphore belongs to the loader, and the loader to a dataset.
Fetch(r) ==
    /\ at[r] = "locked" /\ Cardinality(Fetching(DatasetOf(r))) < Concurrency
    /\ Goes(r, "fetching")
    /\ UNCHANGED <<active, leases, saved, session, snap>>

\* The skeleton is stored, which fails once the stores are closed, or the
\* read fails.
Fetched(r) ==
    /\ at[r] = "fetching"
    /\ \/ /\ StoresOpen
          /\ saved' = saved \cup {Trace[r]}
          /\ Goes(r, "assembling")
       \/ Goes(r, "raised") /\ UNCHANGED saved
    /\ UNCHANGED <<active, leases, session, snap>>

\* Assembly may raise; otherwise the lease opens, whatever the session does.
Lease(r) ==
    /\ at[r] = "assembling"
    /\ \/ /\ active' = active \cup {r}
          /\ leases' = leases \cup {r}
          /\ Goes(r, IF Lazy THEN "body" ELSE "preloading")
       \/ Goes(r, "raised") /\ UNCHANGED <<active, leases>>
    /\ UNCHANGED <<saved, session, snap>>

\* A preload ends; its errors wait for a consumer, except an exceeded budget.
Preloaded(r) ==
    /\ at[r] = "preloading"
    /\ Goes(r, "body") \/ Goes(r, "leaving")
    /\ UNCHANGED <<active, leases, saved, session, snap>>

\* The block ends, by its end, an error or a cancellation.
Leave(r) ==
    /\ at[r] = "body"
    /\ Goes(r, "leaving")
    /\ UNCHANGED <<active, leases, saved, session, snap>>

\* Mutant: the lease goes on answering until its tasks are joined.
CloseLate(r) ==
    /\ at[r] = "leaving"
    /\ Goes(r, "closing")
    /\ UNCHANGED <<active, leases, saved, session, snap>>
\* runtime.close() answers no more, then waits for the tasks of the lease.
CloseLease(r) ==
    /\ at[r] = "leaving"
    /\ active' = active \ {r}
    /\ Goes(r, "closing")
    /\ UNCHANGED <<leases, saved, session, snap>>

\* The wait is over: discard, and the slot returns.
Left(r) ==
    /\ at[r] = "closing"
    /\ leases' = leases \ {r}
    /\ Goes(r, "left")
    /\ UNCHANGED <<active, saved, session, snap>>

\* A cancellation at an await that no step above ends.  The one that meets the
\* wait of close() skips the discard: the slot returns and the lease stays.
Cancelled(r) ==
    /\ \/ at[r] \in {"queued", "admitted", "locked"} /\ Goes(r, "raised")
       \/ at[r] = "closing" /\ Goes(r, "cut")
    /\ UNCHANGED <<active, leases, saved, session, snap>>

-----------------------------------------------------------------------------
\* __aexit__: no more admission, then the leases known at that moment.
Exit ==
    /\ session = "open"
    /\ session' = "leases" /\ snap' = leases
    /\ UNCHANGED <<at, active, leases, saved>>

ExitLease ==
    /\ session = "leases"
    /\ IF snap = {} THEN session' = "loaders" /\ UNCHANGED <<active, snap>>
       ELSE \E r \in snap : /\ active' = active \ {r} /\ snap' = snap \ {r}
                            /\ UNCHANGED session
    /\ UNCHANGED <<at, leases, saved>>

\* loader.close() cuts the preloads, not the skeleton reads; stores and source close.
ExitLoaders ==
    /\ session = "loaders"
    /\ session' = "closed"
    /\ at' = [r \in Readers |-> IF at[r] = "preloading" THEN "leaving" ELSE at[r]]
    /\ UNCHANGED <<active, leases, saved, snap>>

\* __aexit__ is cancelled where it waits: the rest stays open.
ExitCut ==
    /\ session \in {"leases", "loaders"}
    /\ session' = "cut"
    /\ UNCHANGED <<at, active, leases, saved, snap>>

ReaderStep(r) ==
    \/ Admit(r) \/ TakeLock(r) \/ Fetch(r) \/ Fetched(r)
    \/ Lease(r) \/ Preloaded(r) \/ Leave(r) \/ CloseLease(r) \/ Left(r)

SessionNext ==
    \/ \E r \in Readers : Call(r) \/ ReaderStep(r) \/ Cancelled(r)
    \/ Exit \/ ExitLease \/ ExitLoaders \/ ExitCut

\* The event loop does not stop while a reader can move, every read returns
\* and every block ends; a reader makes finitely many steps, so none starves.
SessionFairness == WF_sessionVars(\E r \in Readers : ReaderStep(r))

-----------------------------------------------------------------------------
(* A lease that answers is known to the session and belongs to a reader     *)
(* inside its block, so at most active_traces answer at a time, also while *)
(* leases close, fail to open, are cancelled or are closed by the session. *)
(* What else the session still knows answers no more: a reader waits for   *)
(* its tasks, in a slot, or the close of its reader was cancelled.         *)
LeasesWithinSlots ==
    /\ active \subseteq leases
    /\ \A r \in active : at[r] \in {"preloading", "body", "leaving"}
    /\ Cardinality({r \in leases : at[r] # "cut"}) <= ActiveTraces
    /\ \A r \in leases : Gone(r) => at[r] = "cut"

(* No reader waits for ever for a slot, a lock or the semaphore, whatever  *)
(* fails or is cancelled and whenever the session closes.                  *)
ReadersServed == []<>(\A r \in Readers : at[r] # "new" => Gone(r))

=============================================================================
