---------------------------- MODULE ClientManager ----------------------------
(***************************************************************************)
(* Execution-scoped client ownership: ClientManager of                     *)
(* harness_common/access/client.py.                                        *)
(*                                                                         *)
(* Clients are shared by key.  The first request for a key starts one      *)
(* initialization task; the client may borrow the clients it depends on    *)
(* from the same manager while it initializes.  A failed initialization    *)
(* disposes its client and frees the key for a retry, unless that cleanup  *)
(* failed too.  The root disposes everything once: cut and join what is    *)
(* still initializing, then close the ready clients, newest first.         *)
(*                                                                         *)
(* The manager lives on one event loop: an action is what runs between two *)
(* awaits.  Clients (their I/O, failures and reaction to cancellation) and *)
(* consumers are outside and do as they like.                              *)
(***************************************************************************)
EXTENDS Naturals, Sequences, FiniteSets

CONSTANTS
    Keys,       \* client keys (a create() call is a key with one consumer)
    Deps,       \* Deps[k]: the keys the client of k borrows to initialize
    Consumers,  \* calls of get() or create(), one request each
    Prompt,     \* keys whose providers end by themselves, as all they need
    NoKey       \* model value: no dependency is awaited

ASSUME KeysAssumption ==
    /\ Deps \in [Keys -> SUBSET Keys]
    /\ NoKey \notin Keys
    /\ Prompt \subseteq Keys
    /\ \A k \in Prompt : Deps[k] \subseteq Prompt

VARIABLES
    task,       \* _pending: the state of the task stored under each key
    cut,        \* keys whose task has a cancellation to receive
    client,     \* the newest client object of each key
    held,       \* the dependencies that client has borrowed so far
    awaits,     \* [key, answer]: the dependency its initialize waits for
    ready,      \* _ready
    errors,     \* keys whose cleanup error is in _cleanup_errors
    disposal,   \* _disposal and where _dispose stands
    asks        \* [key, answer] of each consumer

taskVars == <<task, cut, client, held, awaits>>
vars == <<taskVars, ready, errors, disposal, asks>>

-----------------------------------------------------------------------------
Unfinished == {"created", "initializing", "cleaning"}
Tasks == Unfinished \cup {"absent", "ok", "failed"}
ClientStates == {"none", "live", "ready", "closed", "unclean"}
Answers == {"pending", "ok", "error"}
Nothing == [key |-> NoKey, answer |-> "pending"]
Waits == {Nothing} \cup [key : Keys, answer : Answers]

Ready == {ready[i] : i \in DOMAIN ready}

Init ==
    /\ task = [k \in Keys |-> "absent"]
    /\ cut = {}
    /\ client = [k \in Keys |-> "none"]
    /\ held = [k \in Keys |-> {}]
    /\ awaits = [k \in Keys |-> Nothing]
    /\ ready = << >>
    /\ errors = {}
    /\ disposal = "none"
    /\ asks = [c \in Consumers |-> Nothing]

\* What awaiting the task of k gives at once.
AnswerOf(k) == CASE task[k] = "ok" -> "ok"
                 [] task[k] = "failed" -> "error"
                 [] OTHER -> "pending"

\* Everyone who awaits the task of k is answered when it finishes.
Tell(waiting, k, answer) ==
    [w \in DOMAIN waiting |->
        IF waiting[w].key = k /\ waiting[w].answer = "pending"
        THEN [waiting[w] EXCEPT !.answer = answer] ELSE waiting[w]]

\* _acquire stores a new task under k unless there is one.
Stored(k) == IF task[k] = "absent" THEN [task EXCEPT ![k] = "created"] ELSE task

-----------------------------------------------------------------------------
(* Consumers.                                                              *)

Get(c, k) ==
    /\ asks[c] = Nothing /\ disposal = "none"
    /\ asks' = [asks EXCEPT ![c] = [key |-> k, answer |-> AnswerOf(k)]]
    /\ task' = Stored(k)
    /\ UNCHANGED <<cut, client, held, awaits, ready, errors, disposal>>

\* "client manager is disposed"
Refused(c, k) ==
    /\ asks[c] = Nothing /\ disposal # "none"
    /\ asks' = [asks EXCEPT ![c] = [key |-> k, answer |-> "error"]]
    /\ UNCHANGED <<taskVars, ready, errors, disposal>>

\* A cancelled consumer leaves; the shield keeps the task from it.
Leave(c) ==
    /\ asks[c].key # NoKey /\ asks[c].answer = "pending"
    /\ asks' = [asks EXCEPT ![c].answer = "error"]
    /\ UNCHANGED <<taskVars, ready, errors, disposal>>

-----------------------------------------------------------------------------
(* The initialization task of a key.                                       *)

\* create_client, then initialize; a task cut before its first step never runs.
Start(k) ==
    /\ task[k] = "created" /\ k \notin cut
    /\ task' = [task EXCEPT ![k] = "initializing"]
    /\ client' = [client EXCEPT ![k] = "live"]
    /\ held' = [held EXCEPT ![k] = {}]
    /\ UNCHANGED <<cut, awaits, ready, errors, disposal, asks>>

\* The task ends with an exception, everyone who awaits it gets it.
Fails(k) ==
    /\ task' = [task EXCEPT ![k] = "failed"]
    /\ cut' = cut \ {k}
    /\ awaits' = [Tell(awaits, k, "error") EXCEPT ![k] = Nothing]
    /\ asks' = Tell(asks, k, "error")
    /\ UNCHANGED <<held, ready, disposal>>

\* The task was cut before it ran, or create_client raised: no client.
NeverBuilt(k) ==
    /\ task[k] = "created"
    /\ Fails(k)
    /\ UNCHANGED <<client, errors>>

\* The client borrows a dependency through the manager.
Borrow(k, d) ==
    /\ task[k] = "initializing" /\ awaits[k] = Nothing
    /\ d \in Deps[k] \ held[k] /\ disposal = "none"
    /\ task' = Stored(d)
    /\ awaits' = [awaits EXCEPT ![k] = [key |-> d, answer |-> AnswerOf(d)]]
    /\ UNCHANGED <<cut, client, held, ready, errors, disposal, asks>>

Borrowed(k) ==
    /\ task[k] = "initializing" /\ awaits[k].answer = "ok"
    /\ held' = [held EXCEPT ![k] = @ \cup {awaits[k].key}]
    /\ awaits' = [awaits EXCEPT ![k] = Nothing]
    /\ UNCHANGED <<task, cut, client, ready, errors, disposal, asks>>

\* initialize returns (even though it was cut, if the client absorbs that).
Initialized(k) ==
    /\ task[k] = "initializing" /\ awaits[k] = Nothing /\ held[k] = Deps[k]
    /\ task' = [task EXCEPT ![k] = "ok"]
    /\ cut' = cut \ {k}
    /\ client' = [client EXCEPT ![k] = "ready"]
    /\ ready' = Append(ready, k)
    /\ awaits' = Tell(awaits, k, "ok")
    /\ asks' = Tell(asks, k, "ok")
    /\ UNCHANGED <<held, errors, disposal>>

\* initialize raises: its own failure, a dependency's, a refusal of the
\* disposed manager, or the cancellation; the task goes on to clean up.
Breaks(k) ==
    /\ task[k] = "initializing"
    /\ \/ awaits[k] = Nothing
       \/ awaits[k].answer = "error"
       \/ k \in cut
    /\ task' = [task EXCEPT ![k] = "cleaning"]
    /\ cut' = cut \ {k}
    /\ awaits' = [awaits EXCEPT ![k] = Nothing]
    /\ UNCHANGED <<client, held, ready, errors, disposal, asks>>

Cleaned(k) ==
    /\ task[k] = "cleaning"
    /\ Fails(k)
    /\ client' = [client EXCEPT ![k] = "closed"]
    /\ UNCHANGED errors

\* The cleanup raises as well, or is cut by the disposal.
CleanupBreaks(k) ==
    /\ task[k] = "cleaning"
    /\ Fails(k)
    /\ client' = [client EXCEPT ![k] = "unclean"]
    /\ errors' = errors \cup {k}

\* Mutant: a key is freed even when its client could not be cleaned up.
RetriesAnything(k) == TRUE
Retries(k) == client[k] # "unclean"

\* Mutant: the callback frees the key of every finished task.
AnyOutcome(k) == task[k] \in {"ok", "failed"}
FailedTask(k) == task[k] = "failed"

\* The done callback: a clean failure frees the key for a retry.
Settled(k) ==
    /\ FailedTask(k) /\ Retries(k)
    /\ task' = [task EXCEPT ![k] = "absent"]
    /\ UNCHANGED <<cut, client, held, awaits, ready, errors, disposal, asks>>

-----------------------------------------------------------------------------
(* The disposal by the root.                                               *)

Dispose ==
    /\ disposal = "none"
    /\ disposal' = "requested"
    /\ UNCHANGED <<taskVars, ready, errors, asks>>

\* Mutant: only tasks that have not begun are cancelled.
ToCutUnstarted == {k \in Keys : task[k] = "created"}
ToCut == {k \in Keys : task[k] \in Unfinished}

\* _dispose starts: cancel whatever has not finished.
Cut ==
    /\ disposal = "requested"
    /\ disposal' = "joining"
    /\ cut' = ToCut
    /\ UNCHANGED <<task, client, held, awaits, ready, errors, asks>>

\* Mutant: the cut tasks are not awaited before clients are closed.
NotJoined == TRUE
Joined == \A k \in Keys : task[k] \notin Unfinished

\* gather has returned, _pending is cleared.
Join ==
    /\ disposal = "joining" /\ Joined
    /\ disposal' = "closing"
    /\ task' = [k \in Keys |-> "absent"]
    /\ UNCHANGED <<cut, client, held, awaits, ready, errors, asks>>

\* Mutant: clients are closed in the order they became ready.
OldestFirst(open) == {i \in open : \A j \in open : i <= j}
\* reversed(self._ready)
NewestFirst(open) == {i \in open : \A j \in open : j <= i}

StillOpen == {i \in DOMAIN ready : client[ready[i]] = "ready"}

\* One client is closed; its error is kept and the next one still closed.
Close ==
    /\ disposal = "closing"
    /\ \E i \in NewestFirst(StillOpen) :
         /\ client' = [client EXCEPT ![ready[i]] = "closed"]
         /\ errors' \in {errors, errors \cup {ready[i]}}
    /\ UNCHANGED <<task, cut, held, awaits, ready, disposal, asks>>

Disposed ==
    /\ disposal = "closing" /\ StillOpen = {}
    /\ disposal' = "done"
    /\ ready' = << >>
    /\ UNCHANGED <<taskVars, errors, asks>>

-----------------------------------------------------------------------------
Consumer(c) == Leave(c) \/ \E k \in Keys : Get(c, k) \/ Refused(c, k)

Task(k) ==
    \/ Start(k) \/ NeverBuilt(k) \/ Borrowed(k) \/ Initialized(k) \/ Breaks(k)
    \/ Cleaned(k) \/ CleanupBreaks(k) \/ Settled(k)
    \/ \E d \in Keys : Borrow(k, d)

Disposal == Cut \/ Join \/ Close \/ Disposed

\* All is over: the root has left and nobody asks any more.
Over == disposal = "done" /\ UNCHANGED vars

Next == (\E c \in Consumers : Consumer(c)) \/ (\E k \in Keys : Task(k))
        \/ Dispose \/ Disposal \/ Over

Spec == Init /\ [][Next]_vars

\* The disposal runs; a cut client reacts, a cleanup ends, and the loop runs
\* what is ready.  Uncut I/O may hang, and so may a dependency cycle.
DisposalFairness ==
    /\ WF_vars(Disposal)
    /\ \A k \in Keys :
        WF_vars((k \in cut \/ task[k] = "cleaning") /\ Task(k))

\* The initialization of a prompt key ends by itself.
ServiceFairness == \A k \in Prompt : WF_vars(Task(k))

FairSpec == Spec /\ DisposalFairness /\ ServiceFairness

-----------------------------------------------------------------------------
TypeOK ==
    /\ task \in [Keys -> Tasks]
    /\ cut \subseteq Keys
    /\ client \in [Keys -> ClientStates]
    /\ held \in [Keys -> SUBSET Keys]
    /\ awaits \in [Keys -> Waits]
    /\ ready \in Seq(Keys)
    /\ errors \subseteq Keys
    /\ disposal \in {"none", "requested", "joining", "closing", "done"}
    /\ asks \in [Consumers -> Waits]

(* "Reverse readiness order then closes consumers first" (client.py): no   *)
(* client that is initializing, cleaning up or ready ever sees a           *)
(* dependency it borrowed closed under it, in whatever order clients got   *)
(* ready, failed, or were cut.                                             *)
DependenciesOutliveConsumers ==
    \A k \in Keys : client[k] \in {"live", "ready"} =>
        \A d \in held[k] : client[d] = "ready"

(* When the root has disposed the manager nothing survives: every client   *)
(* that was ever built is closed, or its failed cleanup is reported.       *)
NothingSurvivesDisposal ==
    disposal = "done" =>
        /\ \A k \in Keys : task[k] = "absent"
        /\ \A k \in Keys : client[k] \in {"none", "closed", "unclean"}
        /\ \A k \in Keys : client[k] = "unclean" => k \in errors

(* A key never has two clients at once, a client that could not be cleaned *)
(* up blocks its key for good, and none is built once clients are closing. *)
OneClientPerKey ==
    [][\A k \in Keys :
          client'[k] = "live" /\ client[k] # "live" =>
             /\ client[k] \in {"none", "closed"}
             /\ k \notin Ready
             /\ disposal \notin {"closing", "done"}]_vars

(* A consumer is told "ok" only of a client that is ready, and keeps it    *)
(* until the root closes clients: one consumer's failure, cancellation or  *)
(* retry never takes it away from another.                                 *)
AnsweredClientsStay ==
    \A c \in Consumers :
        asks[c].answer = "ok" /\ disposal \notin {"closing", "done"} =>
            client[asks[c].key] = "ready"

(* Nobody waits for ever.  Whoever asks for a prompt key gets an answer,    *)
(* although other clients hang in a cycle, others fail, leave or retry; and *)
(* the root, once it disposes the manager, leaves.  (Neither an answer nor  *)
(* the end of the disposal is ever taken back.)                             *)
EverybodyServed ==
    /\ \A c \in Consumers : asks[c].key \in Prompt => asks[c].answer # "pending"
    /\ disposal \in {"none", "done"}

=============================================================================
