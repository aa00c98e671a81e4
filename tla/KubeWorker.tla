------------------------------ MODULE KubeWorker ------------------------------
(* toolbox/harness_toolbox/kube/worker.py: one worker process on the host  *)
(* of the environment answers Kubernetes operations over its pipes, one at *)
(* a time under a lock.  An exchange that is interrupted retires the       *)
(* process, for half a frame must not reach the next request.  A message   *)
(* is the request it belongs to, or Setup for the handshake.               *)
EXTENDS Naturals, Sequences

CONSTANTS
    Requests,      \* calls of request()
    MaxWorkers     \* processes a run may spawn

VARIABLES
    at,         \* where each request stands
    answer,     \* the message whose response a request returned with
    lock,       \* who holds _lock
    current,    \* _process, 0 for none
    worker,     \* each process: "unborn", "up", "ending" (SIGTERM sent) or "dead"
    sent, got,  \* its pipes: messages to it, and responses not yet read
    disposal    \* "none", "waits", "retires" or "done"

workerVars == <<at, answer, lock, current, worker, sent, got, disposal>>

Setup == "setup"
Nobody == "nobody"
Disposer == "disposer"
Workers == 1..MaxWorkers

ASSUME WorkerBounds == MaxWorkers \in Nat \ {0} /\ {Setup, Nobody, Disposer} \cap Requests = {}

WorkerInit ==
    /\ at = [r \in Requests |-> "new"] /\ answer = [r \in Requests |-> Nobody]
    /\ lock = Nobody /\ current = 0 /\ disposal = "none"
    /\ worker = [w \in Workers |-> "unborn"]
    /\ sent = [w \in Workers |-> << >>] /\ got = [w \in Workers |-> << >>]

Up(w) == w # 0 /\ worker[w] = "up"
Ask(r) == at[r] = "new" /\ at' = [at EXCEPT ![r] = "queued"]
          /\ UNCHANGED <<answer, lock, current, worker, sent, got, disposal>>

\* A request that waits for the lock is cancelled.
Withdraw(r) ==
    /\ at[r] = "queued"
    /\ at' = [at EXCEPT ![r] = "raised"]
    /\ UNCHANGED <<answer, lock, current, worker, sent, got, disposal>>

\* _ensure_worker: refuse, reuse a process not known to be dead, or spawn one
\* and write the handshake to it.
Enter(r) ==
    /\ at[r] = "queued" /\ lock = Nobody
    /\ IF disposal # "none"
       THEN at' = [at EXCEPT ![r] = "raised"] /\ UNCHANGED <<lock, current, worker, sent>>
       ELSE /\ lock' = r
            /\ \/ /\ current # 0
                  /\ at' = [at EXCEPT ![r] = "ready"]
                  /\ UNCHANGED <<current, worker, sent>>
               \/ /\ ~Up(current)
                  /\ \E w \in Workers :
                       /\ worker[w] = "unborn" /\ \A v \in 1..(w - 1) : worker[v] # "unborn"
                       /\ current' = w /\ worker' = [worker EXCEPT ![w] = "up"]
                       /\ sent' = [sent EXCEPT ![w] = <<Setup>>]
                  /\ at' = [at EXCEPT ![r] = "handshake"]
    /\ UNCHANGED <<answer, got, disposal>>

Write(r) ==
    /\ at[r] = "ready"
    /\ sent' = [sent EXCEPT ![current] = Append(@, r)]
    /\ at' = [at EXCEPT ![r] = "exchange"]
    /\ UNCHANGED <<answer, lock, current, worker, got, disposal>>

\* _serve: one response for each message, in their order; an operation that
\* fails is answered too.
Serve(w) ==
    /\ worker[w] = "up" /\ sent[w] # << >>
    /\ sent' = [sent EXCEPT ![w] = Tail(@)]
    /\ got' = [got EXCEPT ![w] = Append(@, Head(sent[w]))]
    /\ UNCHANGED <<at, answer, lock, current, worker, disposal>>

\* The next frame is read, also one that a process left behind when it died.
Read(r) ==
    /\ at[r] \in {"handshake", "exchange"} /\ got[current] # << >>
    /\ got' = [got EXCEPT ![current] = Tail(@)]
    /\ IF at[r] = "handshake"
       THEN at' = [at EXCEPT ![r] = "ready"] /\ UNCHANGED <<answer, lock>>
       ELSE /\ at' = [at EXCEPT ![r] = "answered"]
            /\ answer' = [answer EXCEPT ![r] = Head(got[current])]
            /\ lock' = Nobody
    /\ UNCHANGED <<current, worker, sent, disposal>>

Terminated(w) == [worker EXCEPT ![w] = IF @ = "up" THEN "ending" ELSE @]

\* Mutant: a timed out request leaves the channel as it is.
Leave(r) ==
    /\ at[r] \in {"handshake", "ready", "exchange"}
    /\ at' = [at EXCEPT ![r] = "raised"] /\ lock' = Nobody
    /\ UNCHANGED <<answer, current, worker, sent, got, disposal>>
\* A timeout, a cancellation, a broken pipe or a message over the limit, in the
\* exchange or the handshake: _retire forgets the process, then ends it.
Interrupt(r) ==
    /\ at[r] \in {"handshake", "ready", "exchange"}
    /\ at' = [at EXCEPT ![r] = "retires"]
    /\ current' = 0 /\ worker' = Terminated(current)
    /\ UNCHANGED <<answer, lock, sent, got, disposal>>

\* The process has gone, or a second cancellation stops the waiting for it.
Retired(r) ==
    /\ at[r] = "retires"
    /\ at' = [at EXCEPT ![r] = "raised"] /\ lock' = Nobody
    /\ UNCHANGED <<answer, current, worker, sent, got, disposal>>

Die(w) ==
    /\ worker[w] \in {"up", "ending"}
    /\ worker' = [worker EXCEPT ![w] = "dead"]
    /\ UNCHANGED <<at, answer, lock, current, sent, got, disposal>>

Dispose ==
    /\ disposal = "none"
    /\ disposal' = "waits"
    /\ UNCHANGED <<at, answer, lock, current, worker, sent, got>>

DisposeLocked ==
    /\ disposal = "waits" /\ lock = Nobody
    /\ disposal' = "retires" /\ current' = 0
    /\ worker' = IF current = 0 THEN worker ELSE Terminated(current)
    /\ lock' = Disposer
    /\ UNCHANGED <<at, answer, sent, got>>

Disposed ==
    /\ disposal = "retires"
    /\ disposal' = "done" /\ lock' = Nobody
    /\ UNCHANGED <<at, answer, current, worker, sent, got>>

WorkerNext ==
    \/ \E r \in Requests : Ask(r) \/ Withdraw(r) \/ Enter(r) \/ Write(r) \/ Read(r)
                           \/ Interrupt(r) \/ Retired(r)
    \/ \E w \in Workers : Serve(w) \/ Die(w)
    \/ Dispose \/ DisposeLocked \/ Disposed

-----------------------------------------------------------------------------
(* A request never returns the response of another, whatever was           *)
(* interrupted, timed out or died before it on the same channel.           *)
OwnResponse == \A r \in Requests : answer[r] \in {Nobody, r}

(* No process escapes: one that runs is the one the transport knows, so at *)
(* most one runs, and none once disposal is over, whichever requests were  *)
(* in flight when it began.                                                *)
NoWorkerEscapes ==
    \A w \in Workers : worker[w] = "up" => w = current /\ disposal \notin {"retires", "done"}

(* One process, one lock, one frame at a time: answers are never mixed up   *)
(* and no process is left, whatever is interrupted and when.               *)
ChannelSound == OwnResponse /\ NoWorkerEscapes

=============================================================================
