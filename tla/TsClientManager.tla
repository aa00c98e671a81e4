--------------------------- MODULE TsClientManager ---------------------------
(* ClientManager of common/src/access/client-manager.ts, the TypeScript twin *)
(* of ClientManager.  Nothing is cancelled here: a signal is aborted, by the *)
(* owner of the signal or by dispose(), and promises settle as they may.     *)
(* Callers of create() own their client and may dispose it before the root.  *)
EXTENDS Naturals, Sequences

CONSTANTS
    TsKeys,       \* keys of get(), and one symbol for each call of create()
    TsOwned,      \* those symbols
    TsNeeds,      \* TsNeeds[k]: the clients initialize() borrows; "must be acyclic"
    TsConsumers,  \* callers of get() and create()
    TsWants       \* the key each of them asks for

ASSUME TsClientAssumption ==
    /\ TsOwned \subseteq TsKeys /\ TsConsumers \cap TsKeys = {}
    /\ TsNeeds \in [TsKeys -> SUBSET (TsKeys \ TsOwned)] /\ TsWants \in [TsConsumers -> TsKeys]

VARIABLES
    promise,   \* #clients and #unclean: the promise under each key
    built,     \* the newest client object of each key
    borrows,   \* the dependencies it has been given
    wait,      \* what each consumer and each initialize() awaits or was told
    rest,      \* #ready
    blame,     \* keys in #cleanupErrors, or in the errors of dispose()
    root       \* "active", "aborted" by the outer signal, then the stages of dispose()

tsClientVars == <<promise, built, borrows, wait, rest, blame, root>>

Waiters == TsConsumers \cup TsKeys
NoWait == [on |-> "nobody", answer |-> "none"]
TsAborted == root # "active"
Pending == {"created", "initializing", "cleaning"}

TsClientInit ==
    /\ promise = [k \in TsKeys |-> "none"] /\ built = [k \in TsKeys |-> "none"]
    /\ borrows = [k \in TsKeys |-> {}] /\ wait = [w \in Waiters |-> NoWait]
    /\ rest = << >> /\ blame = {} /\ root = "active"

-----------------------------------------------------------------------------
(* #acquire, for a consumer or for a client that borrows.                    *)
Said(k) == IF promise[k] = "ready" THEN "ok"
           ELSE IF promise[k] \in {"rejected", "poisoned"} THEN "error" ELSE "pending"

TsAcquire(w, k) ==
    /\ IF TsAborted
       THEN wait' = [wait EXCEPT ![w] = [on |-> k, answer |-> "error"]] /\ UNCHANGED promise
       ELSE /\ wait' = [wait EXCEPT ![w] = [on |-> k, answer |-> Said(k)]]
            /\ promise' = [promise EXCEPT ![k] = IF @ = "none" THEN "created" ELSE @]
    /\ UNCHANGED <<built, borrows, rest, blame, root>>

\* A consumer that was told of an error may ask again.
TsAsk(c) == wait[c].answer \in {"none", "error"} /\ TsAcquire(c, TsWants[c])

TsBorrow(k) ==
    /\ promise[k] = "initializing" /\ wait[k] = NoWait
    /\ \E d \in TsNeeds[k] \ borrows[k] : TsAcquire(k, d)

TsBorrowed(k) ==
    /\ promise[k] = "initializing" /\ wait[k].answer = "ok"
    /\ borrows' = [borrows EXCEPT ![k] = @ \cup {wait[k].on}]
    /\ wait' = [wait EXCEPT ![k] = NoWait]
    /\ UNCHANGED <<promise, built, rest, blame, root>>

-----------------------------------------------------------------------------
(* The promise of a key.                                                     *)
TsSettles(k, state, answer) ==
    /\ promise' = [promise EXCEPT ![k] = state]
    /\ wait' = [w \in Waiters |-> IF wait[w] = [on |-> k, answer |-> "pending"]
                                  THEN [wait[w] EXCEPT !.answer = answer] ELSE wait[w]]

\* An aborted manager builds nothing, and createClient may throw.
TsConstruct(k) ==
    /\ promise[k] = "created"
    /\ \/ TsSettles(k, "rejected", "error") /\ UNCHANGED <<built, borrows>>
       \/ /\ ~TsAborted
          /\ promise' = [promise EXCEPT ![k] = "initializing"]
          /\ built' = [built EXCEPT ![k] = "live"]
          /\ borrows' = [borrows EXCEPT ![k] = {}]
          /\ UNCHANGED wait
    /\ UNCHANGED <<rest, blame, root>>

\* initialize() returns, which counts only while nothing is aborted.
TsInitialized(k) ==
    /\ promise[k] = "initializing" /\ wait[k] = NoWait /\ borrows[k] = TsNeeds[k]
    /\ IF TsAborted
       THEN promise' = [promise EXCEPT ![k] = "cleaning"] /\ UNCHANGED <<built, wait, rest>>
       ELSE /\ TsSettles(k, "ready", "ok")
            /\ built' = [built EXCEPT ![k] = "ready"]
            /\ rest' = Append(rest, k)
    /\ UNCHANGED <<borrows, blame, root>>

\* It throws, for itself or for a dependency; one that awaits a promise of the
\* manager does not listen to the signal.
TsBreaks(k) ==
    /\ promise[k] = "initializing" /\ wait[k].answer \in {"none", "error"}
    /\ promise' = [promise EXCEPT ![k] = "cleaning"]
    /\ wait' = [wait EXCEPT ![k] = NoWait]
    /\ UNCHANGED <<built, borrows, rest, blame, root>>

\* The partly built client is disposed, and that may fail too.
TsCleaned(k) ==
    /\ promise[k] = "cleaning"
    /\ \/ /\ TsSettles(k, "rejected", "error")
          /\ built' = [built EXCEPT ![k] = "closed"] /\ UNCHANGED blame
       \/ /\ TsSettles(k, "poisoned", "error")
          /\ built' = [built EXCEPT ![k] = "unclean"] /\ blame' = blame \cup {k}
    /\ UNCHANGED <<borrows, rest, root>>

\* Mutant: any rejected promise is forgotten, whether its client is clean or not.
TsForgetsAll(k) ==
    /\ promise[k] \in {"rejected", "poisoned"}
    /\ promise' = [promise EXCEPT ![k] = "none"]
    /\ UNCHANGED <<built, borrows, wait, rest, blame, root>>
\* pending.catch: a clean failure may be retried.
TsForget(k) ==
    /\ promise[k] = "rejected"
    /\ promise' = [promise EXCEPT ![k] = "none"]
    /\ UNCHANGED <<built, borrows, wait, rest, blame, root>>

-----------------------------------------------------------------------------
(* Disposal, of one client by its owner and of all by the root.              *)
Closing(k) ==
    /\ built[k] = "ready"
    /\ built' = [built EXCEPT ![k] = "closing"]
    /\ UNCHANGED <<promise, borrows, wait, rest, blame, root>>

TsOwnerCloses(c) == TsWants[c] \in TsOwned /\ wait[c].answer = "ok" /\ Closing(TsWants[c])

TsClosed(k) ==
    /\ built[k] = "closing"
    /\ \E end \in {"closed", "unclean"} : built' = [built EXCEPT ![k] = end]
    /\ UNCHANGED <<promise, borrows, wait, rest, blame, root>>

TsOuterAbort ==
    /\ root = "active" /\ root' = "aborted"
    /\ UNCHANGED <<promise, built, borrows, wait, rest, blame>>

TsDispose ==
    /\ root \in {"active", "aborted"} /\ root' = "settling"
    /\ UNCHANGED <<promise, built, borrows, wait, rest, blame>>

\* Mutant: clients are closed at once, beside those that still initialize.
TsNotSettled == TRUE
\* allSettled: whatever had begun has come to an end.
TsAllSettled == \A k \in TsKeys : promise[k] \notin Pending

TsClear ==
    /\ root = "settling" /\ TsAllSettled
    /\ root' = "closing"
    /\ promise' = [k \in TsKeys |-> IF promise[k] \in Pending THEN promise[k] ELSE "none"]
    /\ UNCHANGED <<built, borrows, wait, rest, blame>>

\* Mutant: clients are closed in the order in which they became ready.
OldestOf(line) == Head(line)
NewestOf(line) == line[Len(line)]

\* dispose() of a client whose owner disposed it before gives what that gave.
TsRootCloses == root = "closing" /\ rest # << >> /\ Closing(NewestOf(rest))

TsRootClosed ==
    /\ root = "closing" /\ rest # << >>
    /\ LET k == NewestOf(rest)
       IN  /\ built[k] \in {"closed", "unclean"}
           /\ rest' = SubSeq(rest, 1, Len(rest) - 1)
           /\ blame' = IF built[k] = "unclean" THEN blame \cup {k} ELSE blame
    /\ UNCHANGED <<promise, built, borrows, wait, root>>

TsDisposed ==
    /\ root = "closing" /\ rest = << >>
    /\ root' = "disposed"
    /\ UNCHANGED <<promise, built, borrows, wait, rest, blame>>

-----------------------------------------------------------------------------
\* What goes on by itself; an initialization may hang until it is aborted.
TsClientProgress ==
    \/ \E k \in TsKeys :
          \/ TsBorrow(k) \/ TsBorrowed(k) \/ TsConstruct(k) \/ TsCleaned(k) \/ TsForget(k) \/ TsClosed(k)
          \/ TsAborted /\ (TsInitialized(k) \/ TsBreaks(k))
    \/ TsClear \/ TsRootCloses \/ TsRootClosed \/ TsDisposed

TsClientNext ==
    \/ TsClientProgress
    \/ \E k \in TsKeys : TsInitialized(k) \/ TsBreaks(k)
    \/ \E c \in TsConsumers : TsAsk(c) \/ TsOwnerCloses(c)
    \/ TsOuterAbort \/ TsDispose

\* Clients are given the signal, and their cleanup has a timeout; there are
\* finitely many steps between two calls, so none starves.
TsClientFairness == WF_tsClientVars(TsClientProgress)

-----------------------------------------------------------------------------
(* "Reverse readiness is safe": whoever uses a client, also while it closes, *)
(* has every client it was given.                                            *)
TsBorrowedStays ==
    \A k \in TsKeys : built[k] \in {"live", "ready", "closing"} =>
        \A d \in borrows[k] : built[d] = "ready"

(* "Failed cleanup poisons the identity": a key gets a second client only    *)
(* after the first was closed cleanly.                                       *)
TsOneClient ==
    \A k \in TsKeys :
        promise[k] \in {"none", "created"} /\ root # "closing" /\ root # "disposed" =>
            built[k] \in {"none", "closed"} /\ \A i \in DOMAIN rest : rest[i] # k

(* Whoever was given a client has it until the root closes them or, if it is *)
(* the owner, until it disposes of it.                                       *)
TsGivenStays ==
    \A c \in TsConsumers : wait[c].answer = "ok" /\ root \notin {"closing", "disposed"} =>
        built[TsWants[c]] = "ready" \/ TsWants[c] \in TsOwned

(* "Failed cleanup remains a root disposal error", and nothing else remains. *)
TsNothingLeft ==
    root = "disposed" =>
        /\ \A k \in TsKeys : built[k] \in {"none", "closed"} \cup (IF k \in blame THEN {"unclean"} ELSE {})
        /\ \A w \in Waiters : wait[w].answer # "pending"

TsClientsSound == TsBorrowedStays /\ TsOneClient /\ TsGivenStays /\ TsNothingLeft

(* Once the signal is aborted every caller is answered, and dispose() ends.  *)
TsEverybodyServed ==
    TsAborted =>
        /\ root \in {"aborted", "disposed"}
        /\ \A w \in Waiters : wait[w].answer # "pending"
        /\ \A k \in TsKeys : built[k] # "closing"

=============================================================================
