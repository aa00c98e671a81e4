------------------------------ MODULE ForwardScope ------------------------------
(* The tunnels of the TypeScript toolbox: startPortForward and              *)
(* PortForwardScope (toolbox/src/kubernetes/port-forward.ts), the shared     *)
(* cache of ServicePortForwarder, and ServicePortForwardTransport, which     *)
(* discovers the services first and is disposed as a Transport.  Borrowers  *)
(* come and go; only the disposal stops a tunnel, and tunnels may exit.     *)
EXTENDS Naturals, Sequences

CONSTANTS
    MaxBorrows,  \* calls of connect()
    Endpoints,   \* endpoints that need a tunnel
    MaxExits    \* only the first so many may end on their own

ASSUME ForwardBounds == MaxBorrows \in Nat /\ MaxExits \in Nat

VARIABLES
    discovery,   \* the initialization: "none", "runs", "ok", "failed"
    forwards,    \* kubectl processes started: endpoint, their promise, their process
    cached,      \* ServicePortForwarder.#cache: the forward of each endpoint, 0 if none
    held,        \* PortForwardScope.#forwards
    borrower,    \* connect(): where its chain of promises stands, endpoint, forward
    gone,        \* borrowers that no longer wait for their chain
    disposing    \* "no", "begun", "draining", "joining", "done"

scopeVars == <<discovery, forwards, cached, held, borrower, gone, disposing>>

Borrowers == 1..MaxBorrows
Forwards == DOMAIN forwards
Starting(e) == [to |-> e, at |-> "starting", process |-> "runs"]
Ending == disposing # "no"
NotAsked == [at |-> "idle", to |-> "none", via |-> 0]

ScopeInit ==
    /\ discovery = "none" /\ forwards = << >> /\ cached = [e \in Endpoints |-> 0]
    /\ held = {} /\ borrower = [b \in Borrowers |-> NotAsked] /\ gone = {} /\ disposing = "no"

\* connect(): the first one starts the discovery, and everybody awaits it.
\* Calls are numbered in the order in which they are made.
Borrow(b, e) ==
    /\ borrower[b].at = "idle" /\ \A a \in 1..(b - 1) : borrower[a].at # "idle"
    /\ \/ /\ Ending /\ borrower' = [borrower EXCEPT ![b].at = "failed"] /\ UNCHANGED discovery
       \/ /\ ~Ending
          /\ borrower' = [borrower EXCEPT ![b] = [at |-> "discovers", to |-> e, via |-> 0]]
          /\ discovery' = IF discovery = "none" THEN "runs" ELSE discovery
    /\ UNCHANGED <<forwards, cached, held, gone, disposing>>

\* A discovery that ends after the disposal has begun counts as failed.
Discovered ==
    /\ discovery = "runs"
    /\ discovery' = "failed" \/ (~Ending /\ discovery' = "ok")
    /\ UNCHANGED <<forwards, cached, held, borrower, gone, disposing>>

\* Its own signal ends a borrower's wait.  The chain that asks for a forward
\* goes on without it.
GivesUp(b) ==
    /\ borrower[b].at \in {"discovers", "waits"} /\ b \notin gone
    /\ gone' = gone \cup {b}
    /\ borrower' = IF borrower[b].at = "discovers" THEN [borrower EXCEPT ![b].at = "failed"]
                   ELSE borrower
    /\ UNCHANGED <<discovery, forwards, cached, held, disposing>>

Refused(b) ==
    /\ borrower[b].at = "discovers" /\ (discovery = "failed" \/ Ending)
    /\ borrower' = [borrower EXCEPT ![b].at = "failed"]
    /\ UNCHANGED <<discovery, forwards, cached, held, gone, disposing>>

\* forward(): whoever finds a promise in the cache shares it; else kubectl is
\* spawned for a new one.  hit is what the cache holds.
Forward(b, hit) ==
    LET e == borrower[b].to
        waits(t) == borrower' = [borrower EXCEPT ![b].at = "waits", ![b].via = t]
    IN  \/ /\ Ending /\ borrower' = [borrower EXCEPT ![b].at = "failed"]
           /\ cached' = [cached EXCEPT ![e] = hit] /\ UNCHANGED forwards
        \/ /\ ~Ending /\ hit # 0
           /\ waits(hit) /\ cached' = [cached EXCEPT ![e] = hit] /\ UNCHANGED forwards
        \/ /\ ~Ending /\ hit = 0
           /\ forwards' = Append(forwards, Starting(e))
           /\ cached' = [cached EXCEPT ![e] = Len(forwards')]
           /\ waits(Len(forwards'))

AskForward(b) ==
    /\ borrower[b].at = "discovers" /\ discovery = "ok" /\ ~Ending
    /\ Forward(b, cached[borrower[b].to])
    /\ UNCHANGED <<discovery, held, gone, disposing>>

Runs(t) == forwards[t].process = "runs"
\* Mutant: a forward that came up once is not looked at again.
StillUpUnseen(t) == TRUE
\* isAlive()
StillUp(t) == Runs(t)

\* The promise has settled.  Each chain looks whether the process is still
\* alive; the first to find it dead forgets it, and all ask again.
Checked(b) ==
    /\ borrower[b].at = "waits"
    /\ LET t == borrower[b].via
           e == borrower[b].to
       IN  \/ /\ forwards[t].at = "failed" \/ (forwards[t].at = "up" /\ StillUp(t))
              /\ borrower' = [borrower EXCEPT ![b].at = IF forwards[t].at = "up" THEN "mapped"
                                                       ELSE "failed"]
              /\ UNCHANGED <<forwards, cached>>
           \/ /\ forwards[t].at = "up" /\ ~StillUp(t)
              /\ Forward(b, IF cached[e] = t THEN 0 ELSE cached[e])
    /\ UNCHANGED <<discovery, held, gone, disposing>>

-----------------------------------------------------------------------------
(* startPortForward and the two awaits between it and the cache.            *)

\* kubectl announces its port in time.
Announces(t) ==
    /\ forwards[t].at = "starting" /\ Runs(t) /\ ~Ending
    /\ forwards' = [forwards EXCEPT ![t].at = "ready"]
    /\ UNCHANGED <<discovery, cached, held, borrower, gone, disposing>>

\* A process that runs is killed, and its promise, now rejected, is forgotten.
Rejected(t) ==
    /\ forwards' = [forwards EXCEPT ![t].at = "failed",
                                    ![t].process = IF @ = "runs" THEN "killed" ELSE @]
    /\ cached' = [e \in Endpoints |-> IF cached[e] = t THEN 0 ELSE cached[e]]

\* It exits, the time is up, or the wait was cancelled.
StartFails(t) ==
    /\ forwards[t].at = "starting" /\ Rejected(t)
    /\ UNCHANGED <<discovery, held, borrower, gone, disposing>>

\* The scope takes it over...
Holds(t) ==
    /\ forwards[t].at = "ready"
    /\ held' = held \cup {t} /\ forwards' = [forwards EXCEPT ![t].at = "held"]
    /\ UNCHANGED <<discovery, cached, borrower, gone, disposing>>

\* ...and the forwarder publishes it, unless the disposal has begun meanwhile.
Publishes(t) ==
    /\ forwards[t].at = "held"
    /\ \/ ~Ending /\ forwards' = [forwards EXCEPT ![t].at = "up"] /\ UNCHANGED cached
       \/ Ending /\ Rejected(t)
    /\ UNCHANGED <<discovery, held, borrower, gone, disposing>>

\* The process ends, killed or on its own; the first MaxExits may do the latter.
ProcessExits(t) ==
    /\ forwards[t].process = "killed" \/ (Runs(t) /\ t <= MaxExits)
    /\ forwards' = [forwards EXCEPT ![t].process = "gone"]
    /\ UNCHANGED <<discovery, cached, held, borrower, gone, disposing>>

-----------------------------------------------------------------------------
(* The disposal.                                                            *)

Killed(S) == [t \in Forwards |-> IF t \in S /\ Runs(t) THEN [forwards[t] EXCEPT !.process = "killed"]
                                 ELSE forwards[t]]

\* Every forward listens to the signal that is aborted.
DisposalBegins ==
    /\ disposing = "no" /\ disposing' = "begun"
    /\ forwards' = Killed(Forwards)
    /\ UNCHANGED <<discovery, cached, held, borrower, gone>>

\* close() awaits the discovery, dispose() the promises in the cache.
DisposalDrains ==
    /\ disposing = "begun" /\ discovery # "runs"
    /\ disposing' = "draining"
    /\ UNCHANGED <<discovery, forwards, cached, held, borrower, gone>>

Promises == {cached[e] : e \in Endpoints} \ {0}
DisposalStops ==
    /\ disposing = "draining" /\ \A t \in Promises : forwards[t].at \in {"up", "failed"}
    /\ disposing' = "joining" /\ forwards' = Killed(held)
    /\ UNCHANGED <<discovery, cached, held, borrower, gone>>

\* Every process the scope holds has exited.
DisposalEnds ==
    /\ disposing = "joining" /\ \A t \in held : forwards[t].process = "gone"
    /\ disposing' = "done" /\ cached' = [e \in Endpoints |-> 0] /\ held' = {}
    /\ UNCHANGED <<discovery, forwards, borrower, gone>>

ScopeNext ==
    \/ \E b \in Borrowers : \/ GivesUp(b) \/ Refused(b) \/ AskForward(b) \/ Checked(b)
                            \/ \E e \in Endpoints : Borrow(b, e)
    \/ \E t \in Forwards : \/ Announces(t) \/ StartFails(t) \/ Holds(t) \/ Publishes(t)
                           \/ ProcessExits(t)
    \/ Discovered \/ DisposalBegins \/ DisposalDrains \/ DisposalStops \/ DisposalEnds

\* The discovery is cancelled with the signal, a start has a deadline, and a
\* process that was killed ends.
ScopeProgress ==
    \/ \E b \in Borrowers : Refused(b) \/ AskForward(b) \/ Checked(b)
    \/ \E t \in Forwards : \/ StartFails(t) \/ Holds(t) \/ Publishes(t)
                           \/ forwards[t].process = "killed" /\ ProcessExits(t)
    \/ Discovered \/ DisposalDrains \/ DisposalStops \/ DisposalEnds

-----------------------------------------------------------------------------
(* Every kubectl process that runs has one owner: its promise while it      *)
(* starts, the scope from then on, and the cache knows both; an endpoint    *)
(* has at most one, and no process is left once the disposal is over.       *)
ForwardsOwned ==
    /\ \A t \in Forwards : Runs(t) => /\ cached[forwards[t].to] = t
                                     /\ (forwards[t].at \in {"held", "up"} => t \in held)
    /\ disposing = "done" => \A t \in Forwards : ~Runs(t) /\ forwards[t].at \in {"up", "failed"}
                                              /\ (forwards[t].at = "up" => forwards[t].process = "gone")

(* "Root cancellation stops borrowers; only this transport's disposal tears *)
(* down shared resources" (lifecycle.ts): no step of a borrower, or of one  *)
(* that gave up, ends a forward that came up; and a borrower is handed only *)
(* a forward that is alive.                                                 *)
BorrowersShare ==
    [][/\ \A t \in Forwards :
             forwards[t].at = "up" /\ Runs(t) /\ forwards'[t].process = "killed" => disposing' # "no"
       /\ \A b \in Borrowers :
             borrower[b].at # "mapped" /\ borrower'[b].at = "mapped" => Runs(borrower[b].via)]_scopeVars

ForwardsSound == []ForwardsOwned /\ BorrowersShare

(* Every chain has come to an end, and so has a disposal that began.        *)
ScopeQuiet ==
    /\ \A b \in Borrowers : borrower[b].at \in {"idle", "mapped", "failed"}
    /\ disposing \in {"no", "done"}

=============================================================================
