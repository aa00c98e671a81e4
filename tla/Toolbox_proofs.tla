---------------------------- MODULE Toolbox_proofs ----------------------------
(***************************************************************************)
(* The safety of the toolbox's channels and scopes, for any requests,      *)
(* clients, resources and bounds. In Python: the Kubernetes worker channel *)
(* (KubeWorker), the port-forward transport (PortForward), the process     *)
(* transport (ProcessScope) and the operations on a Pod (KubeClient). In   *)
(* TypeScript: the forward scope (ForwardScope), the relay in a Pod        *)
(* (PodRelay), the acquisition of connections (Acquire), the commands in a *)
(* Pod and the reads of the API (KubeApi). Each part is an inductive       *)
(* invariant, the lemma that each kind of step keeps it, and the theorems  *)
(* that follow.                                                            *)
(***************************************************************************)
EXTENDS MCToolbox, PortForward, SequenceTheorems, FiniteSetTheorems, TLAPS

WorkerSpec == WorkerInit /\ [][WorkerNext]_workerVars

Places == {"new", "queued", "ready", "handshake", "exchange", "retires", "answered", "raised"}
Messages == Requests \cup {Setup}

WorkerTypeOK ==
    /\ at \in [Requests -> Places] /\ answer \in [Requests -> Messages \cup {Nobody}]
    /\ lock \in Requests \cup {Nobody, Disposer}
    /\ current \in {0} \cup Workers
    /\ worker \in [Workers -> {"unborn", "up", "ending", "dead"}]
    /\ sent \in [Workers -> Seq(Messages)] /\ got \in [Workers -> Seq(Messages)]
    /\ disposal \in {"none", "waits", "retires", "done"}

\* The lock has the one holder whose place says so.
LockHeld ==
    /\ \A r \in Requests :
         at[r] \in {"ready", "handshake", "exchange", "retires"} <=> lock = r
    /\ disposal = "retires" <=> lock = Disposer

\* Of the messages m, some are still to be served and the others answered.
Carries(w, m) ==
    \/ sent[w] = m /\ got[w] = << >>
    \/ sent[w] = << >> /\ got[w] = m

\* What the process in use carries is what the holder of the lock wrote to it.
OneFrame ==
    /\ \A r \in Requests :
         /\ at[r] = "ready" => current # 0 /\ Carries(current, << >>)
         /\ at[r] = "handshake" => current # 0 /\ Carries(current, <<Setup>>)
         /\ at[r] = "exchange" => current # 0 /\ Carries(current, <<r>>)
         /\ at[r] = "retires" => current = 0
    /\ lock = Nobody /\ current # 0 => Carries(current, << >>)

\* A process that was not spawned has empty pipes and is not in use; one that
\* is no longer in use does not run.
Spawned ==
    /\ \A w \in Workers : /\ worker[w] = "unborn" => w # current /\ Carries(w, << >>)
                          /\ worker[w] = "up" => w = current
    /\ disposal \in {"retires", "done"} => current = 0

WorkerInv == WorkerTypeOK /\ LockHeld /\ OneFrame /\ Spawned /\ OwnResponse

-----------------------------------------------------------------------------
(* The one-frame channel: what serving, reading and writing do to it.      *)

LEMMA OneMessage ==
    ASSUME NEW S, NEW m \in S
    PROVE  /\ << >> \in Seq(S) /\ <<m>> \in Seq(S) /\ <<m>> # << >>
           /\ Append(<< >>, m) = <<m>> /\ Head(<<m>>) = m /\ Tail(<<m>>) = << >>
OBVIOUS

\* No request, no worker, a free lock: the invariant holds at the start.
LEMMA WorkerStarts == WorkerInit => WorkerInv
BY WorkerBounds DEF WorkerInit, WorkerInv, WorkerTypeOK, LockHeld, OneFrame, Spawned, OwnResponse,
                    Places, Messages, Carries, Workers, Setup, Nobody, Disposer

(* Every step of a request keeps the invariant.                            *)
LEMMA RequestKeeps ==
    ASSUME WorkerInv, NEW r \in Requests,
           Ask(r) \/ Withdraw(r) \/ Enter(r) \/ Write(r) \/ Read(r) \/ Interrupt(r) \/ Retired(r)
    PROVE  WorkerInv'
<1> USE WorkerBounds DEF WorkerInv, LockHeld, Places, Messages, Setup, Nobody, Disposer
<1>1. CASE Ask(r)
  <2>1. WorkerTypeOK' /\ LockHeld'
    BY <1>1 DEF Ask, WorkerTypeOK
  <2>2. OneFrame' /\ Spawned' /\ OwnResponse'
    BY <1>1 DEF Ask, WorkerTypeOK, OneFrame, Spawned, OwnResponse, Carries
  <2> QED BY <2>1, <2>2
<1>2. CASE Withdraw(r)
  <2>1. WorkerTypeOK' /\ LockHeld'
    BY <1>2 DEF Withdraw, WorkerTypeOK
  <2>2. OneFrame' /\ Spawned' /\ OwnResponse'
    BY <1>2 DEF Withdraw, WorkerTypeOK, OneFrame, Spawned, OwnResponse, Carries
  <2> QED BY <2>1, <2>2
<1>3. CASE Enter(r)
  <2>1. CASE disposal # "none"
    <3>1. at' = [at EXCEPT ![r] = "raised"] /\ at[r] = "queued"
          /\ UNCHANGED <<answer, lock, current, worker, sent, got, disposal>>
      BY <1>3, <2>1 DEF Enter
    <3>2. WorkerTypeOK' /\ LockHeld'
      BY <3>1 DEF WorkerTypeOK
    <3>3. OneFrame' /\ Spawned' /\ OwnResponse'
      BY <3>1 DEF WorkerTypeOK, OneFrame, Spawned, OwnResponse, Carries
    <3> QED BY <3>2, <3>3
  <2>2. CASE disposal = "none" /\ current # 0 /\ at' = [at EXCEPT ![r] = "ready"]
             /\ UNCHANGED <<current, worker, sent>>
    BY <1>3, <2>2 DEF Enter, WorkerTypeOK, OneFrame, Spawned, OwnResponse, Carries
  <2>3. ASSUME disposal = "none", ~Up(current), NEW w \in Workers, worker[w] = "unborn",
               current' = w, worker' = [worker EXCEPT ![w] = "up"],
               sent' = [sent EXCEPT ![w] = <<Setup>>], at' = [at EXCEPT ![r] = "handshake"]
        PROVE  WorkerInv'
    <3>1. w # 0 /\ lock' = r /\ lock = Nobody /\ UNCHANGED <<answer, got, disposal>>
      BY <1>3, <2>3 DEF Enter, Workers
    <3>2. WorkerTypeOK' /\ LockHeld'
      BY <2>3, <3>1, OneMessage DEF WorkerTypeOK
    <3>3. Carries(w, <<Setup>>)'
      BY <2>3, <3>1, OneMessage DEF WorkerTypeOK, Carries, Spawned
    <3>4. OneFrame'
      BY <2>3, <3>1, <3>3 DEF WorkerTypeOK, OneFrame
    <3>5. Spawned' /\ OwnResponse'
      <4>1. \A v \in Workers : worker[v] # "up"
        BY <2>3 DEF Spawned, Up, Workers
      <4>2. \A v \in Workers \ {w} : worker'[v] = worker[v] /\ (Carries(v, << >>)' <=> Carries(v, << >>))
        BY <2>3, <3>1 DEF WorkerTypeOK, Carries
      <4>3. worker'[w] = "up" /\ current' = w
        BY <2>3 DEF WorkerTypeOK
      <4> QED BY <2>3, <3>1, <4>1, <4>2, <4>3 DEF Spawned, OwnResponse
    <3> QED BY <3>2, <3>4, <3>5
  <2> QED BY <1>3, <2>1, <2>2, <2>3 DEF Enter
<1>4. CASE Write(r)
  <2>1. sent' = [sent EXCEPT ![current] = <<r>>] /\ current \in Workers /\ Carries(current, <<r>>)'
    BY <1>4, OneMessage DEF Write, WorkerTypeOK, OneFrame, Carries
  <2>2. WorkerTypeOK' /\ LockHeld'
    BY <1>4, <2>1, OneMessage DEF Write, WorkerTypeOK
  <2>3. OneFrame'
    BY <1>4, <2>1 DEF Write, WorkerTypeOK, OneFrame
  <2>4. Spawned' /\ OwnResponse'
    BY <1>4, <2>1 DEF Write, WorkerTypeOK, Spawned, OwnResponse, Carries
  <2> QED BY <2>2, <2>3, <2>4
<1>5. CASE Read(r)
  <2> DEFINE m == IF at[r] = "handshake" THEN Setup ELSE r
  <2>1. current \in Workers /\ got[current] = <<m>> /\ sent[current] = << >>
    BY <1>5 DEF Read, WorkerTypeOK, OneFrame, Carries
  <2>2. got' = [got EXCEPT ![current] = << >>] /\ Head(got[current]) = m
    BY <1>5, <2>1, OneMessage DEF Read
  <2>3. WorkerTypeOK' /\ LockHeld' /\ OwnResponse'
    BY <1>5, <2>1, <2>2, OneMessage DEF Read, WorkerTypeOK, OwnResponse
  <2>4. Carries(current, << >>)' /\ UNCHANGED current
    BY <1>5, <2>1, <2>2 DEF Read, Carries, WorkerTypeOK
  <2>5. OneFrame'
    BY <1>5, <2>1, <2>4 DEF Read, WorkerTypeOK, OneFrame
  <2>6. Spawned'
    BY <1>5, <2>1, <2>2 DEF Read, WorkerTypeOK, Spawned, Carries
  <2> QED BY <2>3, <2>5, <2>6
<1>6. CASE Interrupt(r)
  <2>1. WorkerTypeOK' /\ LockHeld' /\ OneFrame' /\ OwnResponse'
    BY <1>6 DEF Interrupt, Terminated, WorkerTypeOK, OneFrame, OwnResponse
  <2>2. Spawned'
    BY <1>6 DEF Interrupt, Terminated, WorkerTypeOK, Spawned, Carries, Workers
  <2> QED BY <2>1, <2>2
<1>7. CASE Retired(r)
  <2>1. WorkerTypeOK' /\ LockHeld' /\ OwnResponse' /\ Spawned'
    BY <1>7 DEF Retired, WorkerTypeOK, OwnResponse, Spawned, Carries
  <2>2. OneFrame'
    BY <1>7 DEF Retired, WorkerTypeOK, OneFrame, Carries
  <2> QED BY <2>1, <2>2
<1> QED BY <1>1, <1>2, <1>3, <1>4, <1>5, <1>6, <1>7

(* So does every step of a process and of the disposal.                    *)
LEMMA ServiceKeeps ==
    ASSUME WorkerInv,
           \/ \E w \in Workers : Serve(w) \/ Die(w)
           \/ Dispose \/ DisposeLocked \/ Disposed
    PROVE  WorkerInv'
<1> USE WorkerBounds DEF WorkerInv, LockHeld, Messages, Setup, Nobody, Disposer
<1>1. ASSUME NEW w \in Workers, Serve(w) PROVE WorkerInv'
  <2>1. WorkerTypeOK' /\ LockHeld' /\ OwnResponse'
    BY <1>1 DEF Serve, WorkerTypeOK, OwnResponse
  <2>2. ASSUME NEW v \in Workers, Carries(v, << >>) PROVE Carries(v, << >>)' /\ v # w
    BY <1>1, <2>2 DEF Serve, WorkerTypeOK, Carries
  <2>3. ASSUME NEW v \in Workers, NEW m \in Messages, Carries(v, <<m>>) PROVE Carries(v, <<m>>)'
    <3>1. CASE v = w
      <4>1. sent[w] = <<m>> /\ got[w] = << >>
        BY <1>1, <2>3, <3>1 DEF Serve, Carries
      <4>2. sent' = [sent EXCEPT ![w] = << >>] /\ got' = [got EXCEPT ![w] = <<m>>]
        BY <1>1, <4>1, OneMessage DEF Serve
      <4> QED BY <3>1, <4>2 DEF WorkerTypeOK, Carries
    <3>2. CASE v # w
      BY <1>1, <2>3, <3>2 DEF Serve, WorkerTypeOK, Carries
    <3> QED BY <3>1, <3>2
  <2>4. OneFrame'
    BY <1>1, <2>2, <2>3 DEF Serve, WorkerTypeOK, OneFrame
  <2>5. Spawned'
    BY <1>1, <2>2 DEF Serve, Spawned
  <2> QED BY <2>1, <2>4, <2>5
<1>2. ASSUME NEW w \in Workers, Die(w) PROVE WorkerInv'
  <2>1. WorkerTypeOK' /\ LockHeld' /\ OwnResponse'
    BY <1>2 DEF Die, WorkerTypeOK, OwnResponse
  <2>2. OneFrame' /\ Spawned'
    BY <1>2 DEF Die, WorkerTypeOK, OneFrame, Spawned, Carries
  <2> QED BY <2>1, <2>2
<1>3. CASE Dispose
  <2>1. WorkerTypeOK' /\ LockHeld' /\ OwnResponse'
    BY <1>3 DEF Dispose, WorkerTypeOK, OwnResponse
  <2>2. OneFrame' /\ Spawned'
    BY <1>3 DEF Dispose, WorkerTypeOK, OneFrame, Spawned, Carries
  <2> QED BY <2>1, <2>2
<1>4. CASE DisposeLocked
  <2>1. WorkerTypeOK' /\ LockHeld' /\ OneFrame' /\ OwnResponse'
    BY <1>4 DEF DisposeLocked, Terminated, WorkerTypeOK, OneFrame, OwnResponse
  <2>2. Spawned'
    BY <1>4 DEF DisposeLocked, Terminated, WorkerTypeOK, Spawned, Carries, Workers
  <2> QED BY <2>1, <2>2
<1>5. CASE Disposed
  <2>1. WorkerTypeOK' /\ LockHeld' /\ OwnResponse'
    BY <1>5 DEF Disposed, WorkerTypeOK, OwnResponse
  <2>2. OneFrame' /\ Spawned'
    BY <1>5 DEF Disposed, WorkerTypeOK, OneFrame, Spawned, Carries
  <2> QED BY <2>1, <2>2
<1> QED BY <1>1, <1>2, <1>3, <1>4, <1>5

\* A step that leaves the channel alone keeps the invariant.
LEMMA WorkerStutters == WorkerInv /\ UNCHANGED workerVars => WorkerInv'
BY DEF workerVars, WorkerInv, WorkerTypeOK, LockHeld, OneFrame, Spawned, OwnResponse, Carries

\* The inductive invariant of the worker channel (KubernetesWorker.request,
\* _ensure, _retire and aclose): the lock's holder, the one frame in flight
\* and the worker each message was sent to stay in step.
THEOREM WorkerChannel == WorkerSpec => []WorkerInv
<1>1. WorkerInv /\ [WorkerNext]_workerVars => WorkerInv'
  BY RequestKeeps, ServiceKeeps, WorkerStutters DEF WorkerNext
<1> QED BY WorkerStarts, <1>1, PTL DEF WorkerSpec

\* For any requests and any number of workers, a request is answered with the
\* response to its own frame, and a worker process that runs is the one the
\* channel knows, until its disposal retires it (KubernetesWorker).
THEOREM ChannelIsSound == WorkerSpec => []ChannelSound
<1>1. WorkerInv => ChannelSound
  BY DEF WorkerInv, ChannelSound, NoWorkerEscapes, Spawned, Workers
<1> QED BY WorkerChannel, <1>1, PTL

-----------------------------------------------------------------------------
(* PortForward.                                                            *)

ForwardSpec == ForwardInit /\ [][ForwardNext]_forwardVars

ConnPlaces == Inside \cup {"new", "queued", "refused", "failed", "open"}

ForwardTypeOK ==
    /\ uid \in [Resources -> Uids] /\ known \in [Services -> {0} \cup Uids]
    /\ conn \in [Clients -> [at : ConnPlaces, res : Resources \cup {"none"},
                             uid : {0} \cup Uids, via : Tunnel \cup {NoTunnel}]]
    /\ tunnel \subseteq Tunnel /\ alive \subseteq Tunnel
    /\ scope \in {"active", "closing", "closed"}
    /\ lookup \subseteq [res : Services, uid : Uids]

\* Whoever resolves or opens holds the lock, alone.
OneInside ==
    \A c, d \in Clients : conn[c].at \in Inside /\ conn[d].at \in Inside => c = d

\* An identity that was read is at most the present one; a tunnel that opens
\* was resolved after it and before now.
ResolvedInOrder ==
    \A c \in Clients :
        /\ conn[c].at \in Inside \cup {"queued"} => conn[c].res \in Resources
        /\ conn[c].at \in {"resolved", "opening"} =>
              conn[c].uid \in Uids /\ conn[c].uid <= uid[conn[c].res]
        /\ conn[c].at = "opening" =>
              /\ conn[c].via \in Tunnel
              /\ conn[c].via.res = conn[c].res /\ conn[c].via.uid = conn[c].uid
              /\ conn[c].uid <= conn[c].via.to /\ conn[c].via.to <= uid[conn[c].res]

\* A tunnel of the scope reaches the identity it is cached under.
CachedReaches == \A t \in tunnel : t.to = t.uid

ClosedIsEmpty == scope = "closed" => LockFree /\ tunnel = {}

ForwardInv ==
    /\ ForwardTypeOK /\ OneInside /\ ResolvedInOrder
    /\ CachedReaches /\ ClosedIsEmpty /\ TunnelsSound

\* The scope starts empty, which satisfies the invariant.
LEMMA ForwardStarts == ForwardInit => ForwardInv
BY TunnelBounds DEF ForwardInit, ForwardInv, ForwardTypeOK, OneInside, ResolvedInOrder, CachedReaches,
    ClosedIsEmpty, TunnelsSound, TunnelReachesTarget, TunnelsAreOwned, ConnPlaces, Inside, NewConn,
    Uids, Resources

(* Every step of the cluster and of the scope keeps the invariant.         *)
LEMMA SurroundingsKeep ==
    ASSUME ForwardInv,
           \/ \E r \in Resources : Replace(r)
           \/ \E s \in Services : LookUp(s)
           \/ \E t \in alive : Exits(t)
           \/ Register \/ LeaveScope \/ CloseScope
    PROVE  ForwardInv'
<1> USE DEF ForwardInv
<1>1. ASSUME NEW r \in Resources, Replace(r) PROVE ForwardInv'
  <2>1. \A q \in Resources : uid'[q] \in Uids /\ uid[q] \in Uids /\ uid[q] <= uid'[q]
    BY <1>1, TunnelBounds DEF Replace, ForwardTypeOK, Uids
  <2>2. ForwardTypeOK'
    BY <1>1, <2>1 DEF Replace, ForwardTypeOK
  <2>3. ResolvedInOrder'
    <3>1. ASSUME NEW c \in Clients, conn[c].at = "opening"
          PROVE  conn[c].via.to <= uid'[conn[c].res]
      <4>1. conn[c].via.to \in Uids /\ conn[c].res \in Resources /\ conn[c].via.to <= uid[conn[c].res]
        BY <3>1 DEF ResolvedInOrder, Inside, Tunnel
      <4> QED BY <2>1, <4>1, TunnelBounds DEF Uids
    <3>2. ASSUME NEW c \in Clients, conn[c].at \in {"resolved", "opening"}
          PROVE  conn[c].uid <= uid'[conn[c].res]
      <4>1. conn[c].uid \in Uids /\ conn[c].res \in Resources /\ conn[c].uid <= uid[conn[c].res]
        BY <3>2 DEF ResolvedInOrder, Inside
      <4> QED BY <2>1, <4>1, TunnelBounds DEF Uids
    <3> QED BY <1>1, <3>1, <3>2 DEF Replace, ResolvedInOrder
  <2>4. OneInside' /\ CachedReaches' /\ ClosedIsEmpty' /\ TunnelsSound'
    BY <1>1 DEF Replace, OneInside, CachedReaches, ClosedIsEmpty, LockFree, TunnelsSound,
                TunnelReachesTarget, TunnelsAreOwned
  <2> QED BY <2>2, <2>3, <2>4
<1>2. ASSUME NEW s \in Services, LookUp(s) PROVE ForwardInv'
  <2>1. ForwardTypeOK'
    BY <1>2 DEF LookUp, ForwardTypeOK, Resources
  <2>2. OneInside' /\ ResolvedInOrder' /\ CachedReaches' /\ ClosedIsEmpty' /\ TunnelsSound'
    BY <1>2 DEF LookUp, OneInside, ResolvedInOrder, CachedReaches, ClosedIsEmpty, LockFree,
                TunnelsSound, TunnelReachesTarget, TunnelsAreOwned
  <2> QED BY <2>1, <2>2
<1>3. ASSUME NEW t \in alive, Exits(t) PROVE ForwardInv'
  <2>1. ForwardTypeOK' /\ OneInside' /\ ResolvedInOrder' /\ CachedReaches' /\ ClosedIsEmpty'
    BY <1>3 DEF Exits, ForwardTypeOK, OneInside, ResolvedInOrder, CachedReaches, ClosedIsEmpty, LockFree
  <2>2. TunnelsSound'
    BY <1>3 DEF Exits, TunnelsSound, TunnelReachesTarget, TunnelsAreOwned
  <2> QED BY <2>1, <2>2
<1>4. CASE Register
  <2>1. ForwardTypeOK'
    BY <1>4 DEF Register, ForwardTypeOK
  <2>2. OneInside' /\ ResolvedInOrder' /\ CachedReaches' /\ ClosedIsEmpty' /\ TunnelsSound'
    BY <1>4 DEF Register, OneInside, ResolvedInOrder, CachedReaches, ClosedIsEmpty, LockFree,
                TunnelsSound, TunnelReachesTarget, TunnelsAreOwned
  <2> QED BY <2>1, <2>2
<1>5. CASE LeaveScope
  <2>1. ForwardTypeOK' /\ OneInside' /\ ResolvedInOrder' /\ CachedReaches' /\ ClosedIsEmpty'
    BY <1>5 DEF LeaveScope, ForwardTypeOK, OneInside, ResolvedInOrder, CachedReaches, ClosedIsEmpty
  <2>2. TunnelsSound'
    BY <1>5 DEF LeaveScope, TunnelsSound, TunnelReachesTarget, TunnelsAreOwned
  <2> QED BY <2>1, <2>2
<1>6. CASE CloseScope
  <2>1. ForwardTypeOK' /\ OneInside' /\ ResolvedInOrder' /\ CachedReaches' /\ ClosedIsEmpty'
    BY <1>6 DEF CloseScope, ForwardTypeOK, OneInside, ResolvedInOrder, CachedReaches, ClosedIsEmpty, LockFree
  <2>2. alive' = {}
    BY <1>6 DEF CloseScope, LockFree, Inside, TunnelsSound, TunnelsAreOwned
  <2>3. TunnelsSound'
    BY <1>6, <2>2 DEF CloseScope, TunnelsSound, TunnelReachesTarget, TunnelsAreOwned
  <2> QED BY <2>1, <2>3
<1> QED BY <1>1, <1>2, <1>3, <1>4, <1>5, <1>6

(* A connection that neither holds the lock after a step nor held it while *)
(* a tunnel opened leaves every other one as it was.                       *)
LEMMA ConnectionMoves ==
    ASSUME ForwardInv, NEW c \in Clients, NEW new,
           new \in [at : ConnPlaces, res : Resources \cup {"none"}, uid : {0} \cup Uids,
                    via : Tunnel \cup {NoTunnel}],
           conn' = [conn EXCEPT ![c] = new],
           new.at \notin {"opening", "open"}, conn[c].at # "opening",
           new.at \in Inside => conn[c].at \in Inside \/ (LockFree /\ scope = "active"),
           new.at \in Inside \cup {"queued"} => new.res \in Resources,
           new.at = "resolved" => new.uid \in Uids /\ new.uid <= uid[new.res],
           UNCHANGED <<uid, known, tunnel, alive, scope, lookup>>
    PROVE  ForwardInv'
<1> USE DEF ForwardInv
<1>1. conn'[c] = new /\ \A d \in Clients \ {c} : conn'[d] = conn[d]
  BY DEF ForwardTypeOK
<1>2. ForwardTypeOK'
  BY DEF ForwardTypeOK
<1>3. OneInside'
  BY <1>1 DEF OneInside, LockFree
<1>4. ResolvedInOrder'
  BY <1>1 DEF ResolvedInOrder
<1>5. CachedReaches' /\ ClosedIsEmpty'
  BY <1>1 DEF CachedReaches, ClosedIsEmpty, LockFree
<1>6. TunnelsSound'
  BY <1>1 DEF TunnelsSound, TunnelReachesTarget, TunnelsAreOwned
<1> QED BY <1>2, <1>3, <1>4, <1>5, <1>6

(* Every step of a connection keeps the invariant.                         *)
LEMMA ConnectionKeeps ==
    ASSUME ForwardInv, NEW c \in Clients,
           \/ \E r \in Resources : Connect(c, r)
           \/ TakeTurn(c) \/ Resolve(c) \/ Share(c) \/ Open(c) \/ Keep(c) \/ Finish(c)
    PROVE  ForwardInv'
<1> USE DEF ForwardInv, Step
<1>0. conn[c] \in [at : ConnPlaces, res : Resources \cup {"none"}, uid : {0} \cup Uids,
                    via : Tunnel \cup {NoTunnel}]
  BY DEF ForwardTypeOK
<1>1. ASSUME NEW r \in Resources, Connect(c, r) PROVE ForwardInv'
  <2> DEFINE new == [conn[c] EXCEPT !.at = IF scope = "active" THEN "queued" ELSE "refused", !.res = r]
  <2>1. conn' = [conn EXCEPT ![c] = new] /\ new.at \in {"queued", "refused"} /\ conn[c].at = "new"
    BY <1>1, <1>0 DEF Connect, ForwardTypeOK
  <2>2. new \in [at : ConnPlaces, res : Resources \cup {"none"}, uid : {0} \cup Uids,
                 via : Tunnel \cup {NoTunnel}]
    BY <1>0 DEF ConnPlaces
  <2>3. new.res \in Resources /\ UNCHANGED <<uid, known, tunnel, alive, scope, lookup>>
    BY <1>0, <1>1 DEF Connect
  <2> HIDE DEF new
  <2> QED BY <2>1, <2>2, <2>3, ConnectionMoves DEF Inside
<1>2. CASE TakeTurn(c)
  <2> DEFINE new == [conn[c] EXCEPT !.at = IF scope = "active" THEN "resolving" ELSE "refused"]
  <2>1. conn' = [conn EXCEPT ![c] = new] /\ new.at \in {"resolving", "refused"} /\ conn[c].at = "queued"
    BY <1>2, <1>0 DEF TakeTurn, ForwardTypeOK
  <2>2. new \in [at : ConnPlaces, res : Resources \cup {"none"}, uid : {0} \cup Uids,
                 via : Tunnel \cup {NoTunnel}]
    BY <1>0 DEF ConnPlaces, Inside
  <2>3. new.res = conn[c].res /\ (new.at = "resolving" => scope = "active") /\ LockFree
        /\ UNCHANGED <<uid, known, tunnel, alive, scope, lookup>>
    BY <1>2, <1>0 DEF TakeTurn
  <2>4. conn[c].res \in Resources
    BY <2>1 DEF ResolvedInOrder
  <2> HIDE DEF new
  <2> QED BY <2>1, <2>2, <2>3, <2>4, ConnectionMoves DEF Inside
<1>3. CASE Resolve(c)
  <2>1. conn[c].at = "resolving" /\ conn[c].res \in Resources
        /\ UNCHANGED <<uid, known, tunnel, alive, scope, lookup>>
    BY <1>3 DEF Resolve, ResolvedInOrder, Inside
  <2>2. ASSUME NEW new, conn' = [conn EXCEPT ![c] = new],
               new = [conn[c] EXCEPT !.at = "resolved", !.uid = uid[conn[c].res]]
        PROVE  ForwardInv'
    <3>1. uid[conn[c].res] \in Uids
      BY <2>1 DEF ForwardTypeOK
    <3>2. new \in [at : ConnPlaces, res : Resources \cup {"none"}, uid : {0} \cup Uids,
                   via : Tunnel \cup {NoTunnel}]
      BY <1>0, <2>2, <3>1 DEF ConnPlaces, Inside
    <3>3. new.at = "resolved" /\ new.res = conn[c].res /\ new.uid = uid[conn[c].res]
          /\ new.uid <= uid[new.res]
      BY <1>0, <2>2, <3>1, TunnelBounds DEF Uids
    <3> QED BY <2>1, <2>2, <3>1, <3>2, <3>3, ConnectionMoves DEF Inside
  <2>3. ASSUME NEW new, conn' = [conn EXCEPT ![c] = new], new = [conn[c] EXCEPT !.at = "failed"]
        PROVE  ForwardInv'
    <3>1. new \in [at : ConnPlaces, res : Resources \cup {"none"}, uid : {0} \cup Uids,
                   via : Tunnel \cup {NoTunnel}] /\ new.at = "failed"
      BY <1>0, <2>3 DEF ConnPlaces
    <3> QED BY <2>1, <2>3, <3>1, ConnectionMoves DEF Inside
  <2>4. \/ conn' = [conn EXCEPT ![c] = [conn[c] EXCEPT !.at = "resolved", !.uid = uid[conn[c].res]]]
        \/ conn' = [conn EXCEPT ![c] = [conn[c] EXCEPT !.at = "failed"]]
    BY <1>3 DEF Resolve, ForwardTypeOK
  <2> QED BY <2>2, <2>3, <2>4
<1>4. CASE Share(c)
  <2>1. PICK t \in Cached(c) \cap alive : conn' = [conn EXCEPT ![c] = [conn[c] EXCEPT !.at = "open", !.via = t]]
    BY <1>4 DEF Share, ForwardTypeOK
  <2>2. conn[c].at = "resolved" /\ UNCHANGED <<uid, known, tunnel, alive, scope, lookup>>
        /\ t \in tunnel /\ t \in Tunnel /\ t.res = conn[c].res /\ t.uid = conn[c].uid /\ t.to = t.uid
    BY <1>4, <2>1 DEF Share, Cached, ForwardTypeOK, CachedReaches
  <2>3. /\ conn'[c].at = "open" /\ conn'[c].via = t /\ conn'[c].res = conn[c].res /\ conn'[c].uid = conn[c].uid
        /\ \A d \in Clients \ {c} : conn'[d] = conn[d]
    BY <1>0, <2>1 DEF ForwardTypeOK
  <2>4. ForwardTypeOK'
    BY <1>0, <2>1, <2>2 DEF ForwardTypeOK, ConnPlaces
  <2>5. OneInside' /\ ResolvedInOrder' /\ CachedReaches' /\ ClosedIsEmpty'
    BY <2>2, <2>3 DEF OneInside, ResolvedInOrder, CachedReaches, ClosedIsEmpty, LockFree, Inside
  <2>6. TunnelsSound'
    BY <2>2, <2>3 DEF TunnelsSound, TunnelReachesTarget, TunnelsAreOwned
  <2> QED BY <2>4, <2>5, <2>6
<1>5. CASE Open(c)
  <2> DEFINE r == conn[c].res
  <2>1. conn[c].at = "resolved" /\ Cached(c) \cap alive = {} /\ tunnel' = tunnel \ Cached(c)
        /\ r \in Resources /\ conn[c].uid \in Uids /\ conn[c].uid <= uid[r]
        /\ UNCHANGED <<uid, known, scope, lookup>>
    BY <1>5 DEF Open, ResolvedInOrder, Inside
  <2>2. \A d \in Clients \ {c} : conn[d].at \notin Inside
    BY <2>1 DEF OneInside, Inside
  <2>3. alive \subseteq tunnel
    BY <2>1, <2>2 DEF TunnelsSound, TunnelsAreOwned, Inside
  <2>4. scope # "closed"
    BY <2>1 DEF ClosedIsEmpty, LockFree, Inside
  <2>5. ASSUME NEW t \in Tunnel, t = [res |-> r, uid |-> conn[c].uid, to |-> uid[r]],
               alive' = alive \cup {t},
               conn' = [conn EXCEPT ![c] = [conn[c] EXCEPT !.at = "opening", !.via = t]]
        PROVE  ForwardInv'
    <3>1. /\ conn'[c].at = "opening" /\ conn'[c].via = t /\ conn'[c].res = r /\ conn'[c].uid = conn[c].uid
          /\ \A d \in Clients \ {c} : conn'[d] = conn[d]
      BY <1>0, <2>5 DEF ForwardTypeOK
    <3>2. ForwardTypeOK'
      BY <1>0, <2>1, <2>5 DEF ForwardTypeOK, ConnPlaces, Inside
    <3>3. OneInside' /\ CachedReaches' /\ ClosedIsEmpty'
      BY <2>1, <2>2, <2>4, <3>1 DEF OneInside, CachedReaches, ClosedIsEmpty, Cached
    <3>4. ResolvedInOrder'
      <4>1. uid[r] \in Uids /\ uid[r] <= uid[r]
        BY <2>1, TunnelBounds DEF ForwardTypeOK, Uids
      <4> QED BY <2>1, <2>2, <2>5, <3>1, <4>1 DEF ResolvedInOrder, Inside
    <3>5. TunnelsSound'
      BY <2>1, <2>2, <2>3, <2>4, <2>5, <3>1 DEF TunnelsSound, TunnelReachesTarget, TunnelsAreOwned
    <3> QED BY <3>2, <3>3, <3>4, <3>5
  <2>6. ASSUME conn' = [conn EXCEPT ![c] = [conn[c] EXCEPT !.at = "failed"]], UNCHANGED alive
        PROVE  ForwardInv'
    <3>1. conn'[c].at = "failed" /\ \A d \in Clients \ {c} : conn'[d] = conn[d]
      BY <1>0, <2>6 DEF ForwardTypeOK
    <3>2. ForwardTypeOK'
      BY <1>0, <2>1, <2>6 DEF ForwardTypeOK, ConnPlaces
    <3>3. OneInside' /\ CachedReaches' /\ ClosedIsEmpty' /\ ResolvedInOrder'
      BY <2>1, <2>2, <2>4, <3>1 DEF OneInside, CachedReaches, ClosedIsEmpty, ResolvedInOrder, Inside
    <3>4. TunnelsSound'
      BY <2>1, <2>2, <2>3, <2>4, <2>6, <3>1 DEF TunnelsSound, TunnelReachesTarget, TunnelsAreOwned
    <3> QED BY <3>2, <3>3, <3>4
  <2>7. \/ \E t \in Tunnel : /\ t = [res |-> r, uid |-> conn[c].uid, to |-> uid[r]]
                             /\ alive' = alive \cup {t}
                             /\ conn' = [conn EXCEPT ![c] = [conn[c] EXCEPT !.at = "opening", !.via = t]]
        \/ conn' = [conn EXCEPT ![c] = [conn[c] EXCEPT !.at = "failed"]] /\ UNCHANGED alive
    BY <1>5 DEF Open, ForwardTypeOK
  <2> QED BY <2>5, <2>6, <2>7
<1>6. CASE Keep(c)
  <2> DEFINE t == conn[c].via
  <2>1. /\ conn[c].at = "opening" /\ t \in Tunnel /\ t.res = conn[c].res /\ t.uid = conn[c].uid
        /\ conn[c].uid <= t.to /\ t.to <= uid[conn[c].res] /\ conn[c].uid \in Uids /\ t.to \in Uids
        /\ UNCHANGED <<uid, known, scope, lookup>>
    BY <1>6 DEF Keep, ResolvedInOrder, Tunnel
  <2>2. \A d \in Clients \ {c} : conn[d].at \notin Inside
    BY <2>1 DEF OneInside, Inside
  <2>3. alive \ tunnel \subseteq {t}
    BY <2>1, <2>2 DEF TunnelsSound, TunnelsAreOwned, Inside
  <2>4. scope # "closed"
    BY <2>1 DEF ClosedIsEmpty, LockFree, Inside
  <2>5. ASSUME uid[conn[c].res] = conn[c].uid, tunnel' = tunnel \cup {t}, UNCHANGED alive,
               conn' = [conn EXCEPT ![c] = [conn[c] EXCEPT !.at = "open"]]
        PROVE  ForwardInv'
    <3>1. /\ conn'[c].at = "open" /\ conn'[c].via = t /\ conn'[c].res = conn[c].res /\ conn'[c].uid = conn[c].uid
          /\ \A d \in Clients \ {c} : conn'[d] = conn[d]
      BY <1>0, <2>5 DEF ForwardTypeOK
    <3>2. t.to = t.uid
      BY <2>1, <2>5, TunnelBounds DEF Uids
    <3>3. ForwardTypeOK'
      BY <1>0, <2>1, <2>5 DEF ForwardTypeOK, ConnPlaces
    <3>4. OneInside' /\ CachedReaches' /\ ClosedIsEmpty' /\ ResolvedInOrder'
      BY <2>1, <2>2, <2>4, <2>5, <3>1, <3>2 DEF OneInside, CachedReaches, ClosedIsEmpty, ResolvedInOrder, Inside
    <3>5. TunnelsSound'
      BY <2>1, <2>2, <2>3, <2>4, <2>5, <3>1, <3>2 DEF TunnelsSound, TunnelReachesTarget, TunnelsAreOwned
    <3> QED BY <3>3, <3>4, <3>5
  <2>6. ASSUME conn' = [conn EXCEPT ![c] = [conn[c] EXCEPT !.at = "failed"]], UNCHANGED tunnel,
               alive' = alive \ {t}
        PROVE  ForwardInv'
    <3>1. conn'[c].at = "failed" /\ \A d \in Clients \ {c} : conn'[d] = conn[d]
      BY <1>0, <2>6 DEF ForwardTypeOK
    <3>2. ForwardTypeOK'
      BY <1>0, <2>1, <2>6 DEF ForwardTypeOK, ConnPlaces
    <3>3. OneInside' /\ CachedReaches' /\ ClosedIsEmpty' /\ ResolvedInOrder'
      BY <2>1, <2>2, <2>4, <2>6, <3>1 DEF OneInside, CachedReaches, ClosedIsEmpty, ResolvedInOrder, Inside
    <3>4. TunnelsSound'
      BY <2>1, <2>2, <2>3, <2>4, <2>6, <3>1 DEF TunnelsSound, TunnelReachesTarget, TunnelsAreOwned
    <3> QED BY <3>2, <3>3, <3>4
  <2>7. \/ /\ uid[conn[c].res] = conn[c].uid /\ tunnel' = tunnel \cup {t} /\ UNCHANGED alive
           /\ conn' = [conn EXCEPT ![c] = [conn[c] EXCEPT !.at = "open"]]
        \/ /\ conn' = [conn EXCEPT ![c] = [conn[c] EXCEPT !.at = "failed"]]
           /\ UNCHANGED tunnel /\ alive' = alive \ {t}
    BY <1>6 DEF Keep, ForwardTypeOK
  <2> QED BY <2>5, <2>6, <2>7
<1>7. CASE Finish(c)
  <2>1. NewConn \in [at : ConnPlaces, res : Resources \cup {"none"}, uid : {0} \cup Uids,
                     via : Tunnel \cup {NoTunnel}] /\ NewConn.at = "new"
    BY DEF NewConn, ConnPlaces
  <2> QED BY <1>7, <2>1, ConnectionMoves DEF Finish, Inside
<1> QED BY <1>1, <1>2, <1>3, <1>4, <1>5, <1>6, <1>7

\* A step that leaves tunnels and connections alone keeps the invariant.
LEMMA ForwardStutters == ForwardInv /\ UNCHANGED forwardVars => ForwardInv'
BY DEF forwardVars, ForwardInv, ForwardTypeOK, OneInside, ResolvedInOrder, CachedReaches, ClosedIsEmpty,
       LockFree, TunnelsSound, TunnelReachesTarget, TunnelsAreOwned

\* The inductive invariant of the port-forward transport: one connection
\* is inside the lock, it resolves before it opens, and every cached tunnel
\* still leads to the pod it was opened for.
THEOREM TunnelsInvariant == ForwardSpec => []ForwardInv
<1>1. ForwardInv /\ [ForwardNext]_forwardVars => ForwardInv'
  BY SurroundingsKeep, ConnectionKeeps, ForwardStutters DEF ForwardNext
<1> QED BY ForwardStarts, <1>1, PTL DEF ForwardSpec

\* For any resources and any recreations of their pods, a connection is given
\* a tunnel to the target it resolved, and every open tunnel belongs to the
\* scope that will close it (PortForward.connect and aclose).
THEOREM TunnelsAreSound == ForwardSpec => []TunnelsSound
<1>1. ForwardInv => TunnelsSound
  BY DEF ForwardInv
<1> QED BY TunnelsInvariant, <1>1, PTL

-----------------------------------------------------------------------------
(* ProcessScope.                                                           *)

ProcessSpec == ProcessInit /\ [][ProcessNext]_processVars

ProcessTypeOK ==
    /\ standing \in {"runs", "stops", "kills", "waits", "returned", "raised", "left"}
    /\ {unsent, stdin, stdout, taken, own, output, whole} \subseteq Nat
    /\ eof \in BOOLEAN /\ term \in BOOLEAN
    /\ child \in {"runs", "deaf", "exited", "killed"}

\* While the call runs it has read no more than the limit, sent no signal, and
\* closed the input only when all of it was written.
RunsWithinLimit ==
    standing = "runs" => taken <= MaxOutput /\ ~term /\ (eof => unsent = 0)

\* No block is lost on its way: what was not read is still before the child,
\* in it or in a pipe, and behind it once it has exited.
BlocksConserved ==
    standing = "runs" =>
        /\ Living => taken + stdout + stdin + unsent + own = whole
        /\ child = "exited" => unsent = 0 /\ taken + stdout = whole

ProcessInv == ProcessTypeOK /\ RunsWithinLimit /\ BlocksConserved /\ NoOrphan

\* Nothing has started: no slot, no block and no child is in use.
LEMMA ProcessStarts == ProcessInit => ProcessInv
<1> SUFFICES ASSUME ProcessInit PROVE ProcessInv
  OBVIOUS
<1>1. unsent \in Nat /\ Extra \in Nat /\ MaxOutput \in Nat
  <2>1. Input \in Nat /\ unsent \in 0..Input
    BY ProcessBounds DEF ProcessInit
  <2> QED BY <2>1, ProcessBounds
<1>2. whole \in Nat
  BY <1>1 DEF ProcessInit
<1>3. ProcessTypeOK
  <2>1. stdin = 0 /\ stdout = 0 /\ taken = 0 /\ own = Extra /\ output = 0
    BY DEF ProcessInit
  <2>2. {unsent, stdin, stdout, taken, own, output, whole} \subseteq Nat
    BY <1>1, <1>2, <2>1
  <2>3. eof \in BOOLEAN /\ term \in BOOLEAN
    BY Zenon DEF ProcessInit
  <2>4. standing \in {"runs", "stops", "kills", "waits", "returned", "raised", "left"}
        /\ child \in {"runs", "deaf", "exited", "killed"}
    BY DEF ProcessInit
  <2> QED BY <2>2, <2>3, <2>4 DEF ProcessTypeOK
<1>4. BlocksConserved
  BY <1>1 DEF ProcessInit, BlocksConserved, Living
<1> QED BY <1>1, <1>3, <1>4 DEF ProcessInit, ProcessInv, RunsWithinLimit, NoOrphan

(* What moves blocks keeps count of them.                                  *)
LEMMA BlocksMove ==
    ASSUME ProcessInv, Feed \/ CloseInput \/ Echo \/ Take \/ Drain
    PROVE  ProcessInv'
<1> USE ProcessBounds DEF ProcessInv, ProcessTypeOK, RunsWithinLimit, BlocksConserved, NoOrphan, Living
<1>1. CASE Feed
  BY <1>1 DEF Feed
<1>2. CASE CloseInput
  BY <1>2 DEF CloseInput
<1>3. CASE Echo
  BY <1>3 DEF Echo
<1>4. CASE Take
  BY <1>4 DEF Take
<1>5. CASE Drain
  BY <1>5 DEF Drain
<1> QED BY <1>1, <1>2, <1>3, <1>4, <1>5

(* The child ends and the call leaves only in ways that keep the rest.     *)
LEMMA EndingsKeep ==
    ASSUME ProcessInv,
           Exit \/ Crashed \/ Result \/ StopScope \/ Terminate \/ Kill \/ Reap
    PROVE  ProcessInv'
<1> USE DEF ProcessInv, ProcessTypeOK, RunsWithinLimit, BlocksConserved, NoOrphan, Living, pipes
<1>1. CASE Exit
  BY <1>1 DEF Exit
<1>2. CASE Crashed
  BY <1>2 DEF Crashed
<1>3. CASE Result
  BY <1>3 DEF Result
<1>4. CASE StopScope
  BY <1>4 DEF StopScope
<1>5. CASE Terminate
  BY <1>5 DEF Terminate
<1>6. CASE Kill
  BY <1>6 DEF Kill
<1>7. CASE Reap
  BY <1>7 DEF Reap
<1> QED BY <1>1, <1>2, <1>3, <1>4, <1>5, <1>6, <1>7

\* For any block counts and limits: a call of execute() that returns or raises
\* leaves no child running, and what it returns is within the limit and, if
\* the child ended well, all that the child wrote.
THEOREM NoChildIsOrphaned == ProcessSpec => []NoOrphan
<1>1. ProcessInv /\ UNCHANGED processVars => ProcessInv'
  BY DEF processVars, ProcessInv, ProcessTypeOK, RunsWithinLimit, BlocksConserved, NoOrphan, Living
<1>2. ProcessInv /\ [ProcessNext]_processVars => ProcessInv'
  BY <1>1, BlocksMove, EndingsKeep DEF ProcessNext, ProcessStep
<1>3. ProcessInv => NoOrphan
  BY DEF ProcessInv
<1> QED BY ProcessStarts, <1>2, <1>3, PTL DEF ProcessSpec

-----------------------------------------------------------------------------
(* ForwardScope.                                                           *)

ScopeSpec == ScopeInit /\ [][ScopeNext]_scopeVars

ForwardStates ==
    [to : Endpoints, at : {"starting", "ready", "held", "up", "failed"}, process : {"runs", "killed", "gone"}]

ScopeTypeOK ==
    /\ discovery \in {"none", "runs", "ok", "failed"}
    /\ forwards \in Seq(ForwardStates) /\ cached \in [Endpoints -> Nat]
    /\ held \subseteq Forwards /\ gone \subseteq Borrowers
    /\ borrower \in [Borrowers -> [at : {"idle", "discovers", "waits", "mapped", "failed"},
                                  to : Endpoints \cup {"none"}, via : Nat]]
    /\ disposing \in {"no", "begun", "draining", "joining", "done"}

Unsettled(t) == forwards[t].at \in {"starting", "ready", "held"}

\* The cache knows a forward under its endpoint, and each that runs or is
\* still to settle.
CacheKnows ==
    /\ \A e \in Endpoints :
          cached[e] # 0 => cached[e] \in Forwards /\ forwards[cached[e]].to = e
    /\ \A t \in Forwards : Runs(t) \/ Unsettled(t) => cached[forwards[t].to] = t

\* A chain that waits does so for a forward to the endpoint it asked for.
ChainsKnow ==
    \A b \in Borrowers :
        /\ borrower[b].at \in {"discovers", "waits"} => borrower[b].to \in Endpoints
        /\ borrower[b].at = "waits" =>
              borrower[b].via \in Forwards /\ forwards[borrower[b].via].to = borrower[b].to

\* What a disposal has achieved at each of its stages.
DisposalStages ==
    /\ Ending => \A t \in Forwards : ~Runs(t)
    /\ disposing \in {"joining", "done"} => \A t \in Forwards : ~Unsettled(t)
    /\ disposing = "done" => \A t \in Forwards : forwards[t].at = "up" => forwards[t].process = "gone"

\* The scope holds what came up.
ScopeHolds ==
    disposing # "done" => \A t \in Forwards : forwards[t].at \in {"held", "up"} => t \in held

ScopeInv == ScopeTypeOK /\ CacheKnows /\ ChainsKnow /\ DisposalStages /\ ScopeHolds

\* No forward, no chain, an open scope: the invariant holds at the start.
LEMMA ScopeStarts == ScopeInit => ScopeInv
<1> SUFFICES ASSUME ScopeInit PROVE ScopeInv
  OBVIOUS
<1>1. forwards \in Seq(ForwardStates) /\ Forwards = {}
  BY DEF ScopeInit, Forwards
<1>2. ScopeTypeOK
  BY <1>1 DEF ScopeInit, ScopeTypeOK, NotAsked
<1> QED BY <1>1, <1>2 DEF ScopeInit, ScopeInv, CacheKnows, ChainsKnow, DisposalStages, ScopeHolds,
                          NotAsked, Ending

\* A function with the domain of a sequence is one too.
LEMMA SameDomain ==
    ASSUME NEW S, NEW s \in Seq(S), NEW f \in [DOMAIN s -> S]
    PROVE  f \in Seq(S) /\ DOMAIN f = DOMAIN s
<1>1. DOMAIN s = 1..Len(s) /\ Len(s) \in Nat
  OBVIOUS
<1>2. Seq(S) = UNION {[1..n -> S] : n \in Nat}
  BY SeqDef
<1> QED BY <1>1, <1>2

(* Forwards that only settle or stop, and are forgotten only then, stay    *)
(* known to the cache and to the chains.                                   *)
LEMMA SettlingKeeps ==
    ASSUME ScopeInv, forwards' \in [Forwards -> ForwardStates], cached' \in [Endpoints -> Nat],
           \A t \in Forwards :
              /\ forwards'[t].to = forwards[t].to
              /\ Runs(t)' => Runs(t)
              /\ Unsettled(t)' => Unsettled(t),
           \A e \in Endpoints :
              \/ cached'[e] = cached[e]
              \/ /\ cached'[e] = 0
                 /\ \A t \in Forwards : cached[e] = t => ~(Runs(t) \/ Unsettled(t))',
           UNCHANGED borrower
    PROVE  forwards' \in Seq(ForwardStates) /\ Forwards' = Forwards /\ CacheKnows' /\ ChainsKnow'
<1>1. forwards' \in Seq(ForwardStates) /\ Forwards' = Forwards
  BY SameDomain DEF ScopeInv, ScopeTypeOK, Forwards
<1>2. \A t \in Forwards : forwards[t].to \in Endpoints
  BY DEF ScopeInv, ScopeTypeOK, Forwards, ForwardStates
<1>3. ASSUME NEW e \in Endpoints, cached'[e] # 0
      PROVE  cached'[e] \in Forwards' /\ forwards'[cached'[e]].to = e
  BY <1>1, <1>3 DEF ScopeInv, CacheKnows
<1>4. ASSUME NEW t \in Forwards, (Runs(t) \/ Unsettled(t))'
      PROVE  cached'[forwards'[t].to] = t
  <2>1. cached[forwards[t].to] = t /\ forwards'[t].to = forwards[t].to /\ forwards[t].to \in Endpoints
    BY <1>2, <1>4 DEF ScopeInv, CacheKnows
  <2> QED BY <1>4, <2>1
<1>5. CacheKnows'
  BY <1>1, <1>3, <1>4 DEF CacheKnows
<1>6. ChainsKnow'
  BY <1>1 DEF ScopeInv, ChainsKnow
<1> QED BY <1>1, <1>5, <1>6

(* Every step of a forward keeps the invariant.                            *)
LEMMA ForwardKeeps ==
    ASSUME ScopeInv, NEW t \in Forwards,
           \/ Announces(t) \/ StartFails(t) \/ Holds(t) \/ Publishes(t) \/ ProcessExits(t)
    PROVE  ScopeInv'
<1> USE DEF ScopeInv
<1>0. forwards \in [Forwards -> ForwardStates] /\ forwards[t] \in ForwardStates /\ cached \in [Endpoints -> Nat]
  BY DEF ScopeTypeOK, Forwards
<1>1. ASSUME NEW new \in ForwardStates, forwards' = [forwards EXCEPT ![t] = new], new.to = forwards[t].to,
             new.process = "runs" => Runs(t), new.at \in {"starting", "ready", "held"} => Unsettled(t),
             UNCHANGED borrower,
             cached' \in [Endpoints -> Nat],
             \A e \in Endpoints :
                 \/ cached'[e] = cached[e]
                 \/ /\ cached'[e] = 0 /\ cached[e] = t
                    /\ new.process # "runs" /\ new.at \notin {"starting", "ready", "held"}
      PROVE  /\ forwards' \in Seq(ForwardStates) /\ Forwards' = Forwards /\ CacheKnows' /\ ChainsKnow'
             /\ forwards'[t] = new /\ \A s \in Forwards \ {t} : forwards'[s] = forwards[s]
             /\ \A s \in Forwards : (Runs(s)' => Runs(s)) /\ (Unsettled(s)' => Unsettled(s))
  <2>1. forwards' \in [Forwards -> ForwardStates]
    BY <1>0, <1>1
  <2>2. forwards'[t] = new /\ \A s \in Forwards \ {t} : forwards'[s] = forwards[s]
    BY <1>0, <1>1
  <2>3. \A s \in Forwards : /\ forwards'[s].to = forwards[s].to
                            /\ Runs(s)' => Runs(s)
                            /\ Unsettled(s)' => Unsettled(s)
    BY <1>1, <2>2 DEF Runs, Unsettled
  <2>4. \A e \in Endpoints :
              \/ cached'[e] = cached[e]
              \/ /\ cached'[e] = 0
                 /\ \A s \in Forwards : cached[e] = s => ~(Runs(s) \/ Unsettled(s))'
    BY <1>1, <2>2 DEF Runs, Unsettled
  <2> QED BY <1>1, <2>1, <2>2, <2>3, <2>4, SettlingKeeps
<1>2. CASE Announces(t)
  <2> DEFINE new == [forwards[t] EXCEPT !.at = "ready"]
  <2>1. new \in ForwardStates /\ new.to = forwards[t].to /\ new.at = "ready" /\ new.process = forwards[t].process
    BY <1>0 DEF ForwardStates
  <2>2. forwards' = [forwards EXCEPT ![t] = new] /\ Unsettled(t) /\ Runs(t) /\ ~Ending
        /\ UNCHANGED <<discovery, cached, held, borrower, gone, disposing>>
    BY <1>2, <1>0 DEF Announces, Unsettled
  <2> HIDE DEF new
  <2>3. /\ forwards' \in Seq(ForwardStates) /\ Forwards' = Forwards /\ CacheKnows' /\ ChainsKnow'
        /\ forwards'[t] = new /\ \A s \in Forwards \ {t} : forwards'[s] = forwards[s]
    BY <1>0, <1>1, <2>1, <2>2
  <2>4. ScopeTypeOK'
    BY <2>2, <2>3 DEF ScopeTypeOK
  <2>5. DisposalStages' /\ ScopeHolds'
    BY <2>1, <2>2, <2>3 DEF DisposalStages, ScopeHolds, Ending
  <2> QED BY <2>3, <2>4, <2>5
<1>3. ASSUME Rejected(t), Unsettled(t), UNCHANGED <<discovery, held, borrower, gone, disposing>>
      PROVE  ScopeInv'
  <2> DEFINE new == [forwards[t] EXCEPT !.at = "failed", !.process = IF @ = "runs" THEN "killed" ELSE @]
  <2>1. /\ new \in ForwardStates /\ new.to = forwards[t].to /\ new.at = "failed" /\ new.process # "runs"
    BY <1>0 DEF ForwardStates
  <2>2. forwards' = [forwards EXCEPT ![t] = new]
    BY <1>3, <1>0 DEF Rejected
  <2>3. /\ cached' \in [Endpoints -> Nat]
        /\ \A e \in Endpoints : cached'[e] = cached[e] \/ (cached'[e] = 0 /\ cached[e] = t)
    BY <1>3, <1>0 DEF Rejected
  <2> HIDE DEF new
  <2>4. /\ forwards' \in Seq(ForwardStates) /\ Forwards' = Forwards /\ CacheKnows' /\ ChainsKnow'
        /\ forwards'[t] = new /\ \A s \in Forwards \ {t} : forwards'[s] = forwards[s]
        /\ \A s \in Forwards : (Runs(s)' => Runs(s)) /\ (Unsettled(s)' => Unsettled(s))
    BY <1>1, <1>3, <2>1, <2>2, <2>3
  <2>5. ScopeTypeOK'
    BY <1>3, <2>3, <2>4 DEF ScopeTypeOK
  <2>6. DisposalStages' /\ ScopeHolds'
    BY <1>3, <2>1, <2>4 DEF DisposalStages, ScopeHolds, Ending
  <2> QED BY <2>4, <2>5, <2>6
<1>4. CASE StartFails(t)
  BY <1>3, <1>4 DEF StartFails, Unsettled
<1>5. CASE Holds(t)
  <2> DEFINE new == [forwards[t] EXCEPT !.at = "held"]
  <2>1. new \in ForwardStates /\ new.to = forwards[t].to /\ new.at = "held" /\ new.process = forwards[t].process
    BY <1>0 DEF ForwardStates
  <2>2. forwards' = [forwards EXCEPT ![t] = new] /\ Unsettled(t) /\ held' = held \cup {t}
        /\ UNCHANGED <<discovery, cached, borrower, gone, disposing>>
    BY <1>5, <1>0 DEF Holds, Unsettled
  <2> HIDE DEF new
  <2>3. /\ forwards' \in Seq(ForwardStates) /\ Forwards' = Forwards /\ CacheKnows' /\ ChainsKnow'
        /\ forwards'[t] = new /\ \A s \in Forwards \ {t} : forwards'[s] = forwards[s]
        /\ \A s \in Forwards : (Runs(s)' => Runs(s)) /\ (Unsettled(s)' => Unsettled(s))
    BY <1>0, <1>1, <2>1, <2>2 DEF Runs
  <2>4. ScopeTypeOK'
    BY <2>2, <2>3 DEF ScopeTypeOK
  <2>5. DisposalStages' /\ ScopeHolds'
    BY <2>1, <2>2, <2>3 DEF DisposalStages, ScopeHolds, Ending
  <2> QED BY <2>3, <2>4, <2>5
<1>6. CASE Publishes(t)
  <2>1. CASE Ending /\ Rejected(t)
    BY <1>3, <1>6, <2>1 DEF Publishes, Unsettled
  <2>2. CASE ~Ending /\ forwards' = [forwards EXCEPT ![t].at = "up"] /\ UNCHANGED cached
    <3> DEFINE new == [forwards[t] EXCEPT !.at = "up"]
    <3>1. new \in ForwardStates /\ new.to = forwards[t].to /\ new.at = "up" /\ new.process = forwards[t].process
      BY <1>0 DEF ForwardStates
    <3>2. forwards' = [forwards EXCEPT ![t] = new] /\ forwards[t].at = "held" /\ ~Ending
          /\ UNCHANGED <<discovery, cached, held, borrower, gone, disposing>>
      BY <1>6, <2>2, <1>0 DEF Publishes
    <3> HIDE DEF new
    <3>3. /\ forwards' \in Seq(ForwardStates) /\ Forwards' = Forwards /\ CacheKnows' /\ ChainsKnow'
          /\ forwards'[t] = new /\ \A s \in Forwards \ {t} : forwards'[s] = forwards[s]
      BY <1>0, <1>1, <3>1, <3>2 DEF Runs
    <3>4. ScopeTypeOK'
      BY <3>2, <3>3 DEF ScopeTypeOK
    <3>5. DisposalStages' /\ ScopeHolds'
      BY <3>1, <3>2, <3>3 DEF DisposalStages, ScopeHolds, Ending
    <3> QED BY <3>3, <3>4, <3>5
  <2> QED BY <1>6, <2>1, <2>2 DEF Publishes
<1>7. CASE ProcessExits(t)
  <2> DEFINE new == [forwards[t] EXCEPT !.process = "gone"]
  <2>1. new \in ForwardStates /\ new.to = forwards[t].to /\ new.at = forwards[t].at /\ new.process = "gone"
    BY <1>0 DEF ForwardStates
  <2>2. forwards' = [forwards EXCEPT ![t] = new]
        /\ UNCHANGED <<discovery, cached, held, borrower, gone, disposing>>
    BY <1>7, <1>0 DEF ProcessExits
  <2> HIDE DEF new
  <2>3. /\ forwards' \in Seq(ForwardStates) /\ Forwards' = Forwards /\ CacheKnows' /\ ChainsKnow'
        /\ forwards'[t] = new /\ \A s \in Forwards \ {t} : forwards'[s] = forwards[s]
        /\ \A s \in Forwards : (Runs(s)' => Runs(s)) /\ (Unsettled(s)' => Unsettled(s))
    BY <1>0, <1>1, <2>1, <2>2 DEF Unsettled
  <2>4. ScopeTypeOK'
    BY <2>2, <2>3 DEF ScopeTypeOK
  <2>5. DisposalStages' /\ ScopeHolds'
    BY <2>1, <2>2, <2>3 DEF DisposalStages, ScopeHolds, Ending
  <2> QED BY <2>3, <2>4, <2>5
<1> QED BY <1>2, <1>4, <1>5, <1>6, <1>7

(* A chain that asks for a forward shares a known one or starts the first  *)
(* to its endpoint.                                                        *)
LEMMA AskedKeeps ==
    ASSUME ScopeInv, NEW b \in Borrowers, NEW hit \in Nat, NEW e \in Endpoints,
           borrower[b].to = e, Forward(b, hit),
           hit # 0 => hit = cached[e],
           hit = 0 => \A t \in Forwards : cached[e] = t => ~Runs(t) /\ ~Unsettled(t),
           UNCHANGED <<discovery, held, gone, disposing>>
    PROVE  ScopeInv'
<1> USE DEF ScopeInv
<1>0. borrower[b] \in [at : {"idle", "discovers", "waits", "mapped", "failed"},
                       to : Endpoints \cup {"none"}, via : Nat]
      /\ cached \in [Endpoints -> Nat] /\ forwards \in [Forwards -> ForwardStates]
  BY DEF ScopeTypeOK, Forwards
<1>1. hit # 0 => hit \in Forwards /\ forwards[hit].to = e
  BY DEF CacheKnows
<1>2. ASSUME UNCHANGED forwards, cached' = [cached EXCEPT ![e] = hit],
             NEW new \in [at : {"failed", "waits"}, to : {e}, via : Nat],
             borrower' = [borrower EXCEPT ![b] = new], new.at = "waits" => new.via = hit /\ hit # 0
      PROVE  ScopeInv'
  <2>1. ScopeTypeOK'
    BY <1>0, <1>2 DEF ScopeTypeOK, Forwards
  <2>2. cached'[e] = hit /\ \A d \in Endpoints \ {e} : cached'[d] = cached[d]
    BY <1>0, <1>2
  <2>3. CacheKnows'
    <3>1. ASSUME NEW d \in Endpoints, cached'[d] # 0
          PROVE  cached'[d] \in Forwards /\ forwards[cached'[d]].to = d
      BY <1>1, <2>2, <3>1 DEF CacheKnows
    <3>2. ASSUME NEW t \in Forwards, Runs(t) \/ Unsettled(t)
          PROVE  cached'[forwards[t].to] = t
      <4>1. cached[forwards[t].to] = t /\ forwards[t].to \in Endpoints
        BY <1>0, <3>2 DEF CacheKnows, ForwardStates
      <4> QED BY <2>2, <3>2, <4>1
    <3> QED BY <1>2, <3>1, <3>2 DEF CacheKnows, Forwards, Runs, Unsettled
  <2>4. ChainsKnow'
    <3>1. borrower'[b] = new /\ \A c \in Borrowers \ {b} : borrower'[c] = borrower[c]
      BY <1>2 DEF ScopeTypeOK
    <3>2. new.to = e /\ new.at \in {"failed", "waits"}
      OBVIOUS
    <3> QED BY <1>1, <1>2, <3>1, <3>2 DEF ChainsKnow, Forwards
  <2>5. DisposalStages' /\ ScopeHolds'
    BY <1>2 DEF DisposalStages, ScopeHolds, Forwards, Runs, Unsettled, Ending
  <2> QED BY <2>1, <2>3, <2>4, <2>5
<1>3. CASE Ending /\ borrower' = [borrower EXCEPT ![b].at = "failed"]
           /\ cached' = [cached EXCEPT ![e] = hit] /\ UNCHANGED forwards
  <2> DEFINE new == [borrower[b] EXCEPT !.at = "failed"]
  <2>1. new \in [at : {"failed", "waits"}, to : {e}, via : Nat] /\ new.at = "failed"
    BY <1>0
  <2>2. borrower' = [borrower EXCEPT ![b] = new]
    BY <1>3 DEF ScopeTypeOK
  <2> HIDE DEF new
  <2> QED BY <1>2, <1>3, <2>1, <2>2
<1>4. CASE hit # 0 /\ borrower' = [borrower EXCEPT ![b].at = "waits", ![b].via = hit]
           /\ cached' = [cached EXCEPT ![e] = hit] /\ UNCHANGED forwards
  <2> DEFINE new == [borrower[b] EXCEPT !.at = "waits", !.via = hit]
  <2>1. new \in [at : {"failed", "waits"}, to : {e}, via : Nat] /\ new.via = hit
    BY <1>0
  <2>2. borrower' = [borrower EXCEPT ![b] = new]
    BY <1>4 DEF ScopeTypeOK
  <2> HIDE DEF new
  <2> QED BY <1>2, <1>4, <2>1, <2>2
<1>5. CASE /\ ~Ending /\ hit = 0 /\ forwards' = Append(forwards, Starting(e))
           /\ cached' = [cached EXCEPT ![e] = Len(forwards')]
           /\ borrower' = [borrower EXCEPT ![b].at = "waits", ![b].via = Len(forwards')]
  <2> DEFINE n == Len(forwards) + 1
             new == [borrower[b] EXCEPT !.at = "waits", !.via = n]
  <2>1. Starting(e) \in ForwardStates
    BY DEF Starting, ForwardStates
  <2>2. /\ forwards' \in Seq(ForwardStates) /\ Len(forwards') = n /\ Forwards' = Forwards \cup {n}
        /\ n \notin Forwards /\ n # 0 /\ n \in Nat /\ Forwards \subseteq Nat
        /\ forwards'[n] = Starting(e) /\ \A t \in Forwards : forwards'[t] = forwards[t]
    BY <1>5, <2>1 DEF ScopeTypeOK, Forwards
  <2>3. /\ new \in [at : {"idle", "discovers", "waits", "mapped", "failed"}, to : Endpoints, via : Nat]
        /\ new.at = "waits" /\ new.to = e /\ new.via = n
        /\ borrower' = [borrower EXCEPT ![b] = new]
    BY <1>0, <1>5, <2>2 DEF ScopeTypeOK
  <2> HIDE DEF n, new
  <2>4. ScopeTypeOK'
    <3>1. new \in [at : {"idle", "discovers", "waits", "mapped", "failed"}, to : Endpoints \cup {"none"}, via : Nat]
      BY <2>3
    <3>2. borrower' \in [Borrowers -> [at : {"idle", "discovers", "waits", "mapped", "failed"},
                                       to : Endpoints \cup {"none"}, via : Nat]]
      BY <2>3, <3>1 DEF ScopeTypeOK
    <3>3. cached' \in [Endpoints -> Nat]
      BY <1>5, <2>2 DEF ScopeTypeOK
    <3>4. held' \subseteq Forwards'
      BY <2>2 DEF ScopeTypeOK
    <3> QED BY <2>2, <3>2, <3>3, <3>4 DEF ScopeTypeOK
  <2>5. cached'[e] = n /\ \A d \in Endpoints \ {e} : cached'[d] = cached[d]
    BY <1>0, <1>5, <2>2
  <2>6. Starting(e).to = e /\ Starting(e).at = "starting" /\ Starting(e).process = "runs"
    BY DEF Starting
  <2>7. CacheKnows'
    <3>1. ASSUME NEW d \in Endpoints, cached'[d] # 0
          PROVE  cached'[d] \in Forwards' /\ forwards'[cached'[d]].to = d
      <4>1. CASE d = e
        BY <2>2, <2>5, <2>6, <4>1
      <4>2. CASE d # e
        <5>1. cached'[d] = cached[d] /\ cached[d] \in Forwards /\ forwards[cached[d]].to = d
          BY <2>5, <3>1, <4>2 DEF CacheKnows
        <5> QED BY <2>2, <5>1
      <4> QED BY <4>1, <4>2
    <3>2. ASSUME NEW t \in Forwards, (Runs(t) \/ Unsettled(t))'
          PROVE  cached'[forwards'[t].to] = t
      <4>1. Runs(t) \/ Unsettled(t)
        BY <2>2, <3>2 DEF Runs, Unsettled
      <4>2. cached[forwards[t].to] = t /\ forwards[t].to \in Endpoints
        BY <1>0, <4>1 DEF CacheKnows, ForwardStates
      <4>3. forwards[t].to # e
        BY <1>5, <4>1, <4>2
      <4> QED BY <2>2, <2>5, <4>2, <4>3
    <3> QED BY <2>2, <2>5, <2>6, <3>1, <3>2 DEF CacheKnows
  <2>8. ChainsKnow'
    <3>1. borrower'[b] = new /\ \A c \in Borrowers \ {b} : borrower'[c] = borrower[c]
      BY <2>3 DEF ScopeTypeOK
    <3>2. ASSUME NEW c \in Borrowers \ {b}, borrower[c].at = "waits"
          PROVE  borrower[c].via \in Forwards' /\ forwards'[borrower[c].via].to = borrower[c].to
      BY <2>2, <3>2 DEF ChainsKnow
    <3>3. \A c \in Borrowers \ {b} : borrower[c].at \in {"discovers", "waits"} => borrower[c].to \in Endpoints
      BY DEF ChainsKnow
    <3>4. n \in Forwards' /\ forwards'[n].to = e
      BY <2>2, <2>6
    <3> QED BY <2>3, <3>1, <3>2, <3>3, <3>4 DEF ChainsKnow
  <2>9. DisposalStages' /\ ScopeHolds'
    BY <1>5, <2>2, <2>6 DEF DisposalStages, ScopeHolds, Ending
  <2> QED BY <2>4, <2>7, <2>8, <2>9
<1> QED BY <1>3, <1>4, <1>5 DEF Forward

(* Every step of a borrower keeps the invariant.                           *)
LEMMA BorrowerKeeps ==
    ASSUME ScopeInv, NEW b \in Borrowers,
           \/ GivesUp(b) \/ Refused(b) \/ AskForward(b) \/ Checked(b)
           \/ \E e \in Endpoints : Borrow(b, e)
    PROVE  ScopeInv'
<1> USE DEF ScopeInv
<1>0. borrower[b] \in [at : {"idle", "discovers", "waits", "mapped", "failed"},
                       to : Endpoints \cup {"none"}, via : Nat]
  BY DEF ScopeTypeOK
<1>1. ASSUME NEW new \in [at : {"idle", "discovers", "waits", "mapped", "failed"},
                          to : Endpoints \cup {"none"}, via : Nat],
             borrower' = [borrower EXCEPT ![b] = new], new.at # "waits",
             new.at = "discovers" => new.to \in Endpoints,
             discovery' \in {"none", "runs", "ok", "failed"}, gone' \subseteq Borrowers,
             UNCHANGED <<forwards, cached, held, disposing>>
      PROVE  ScopeInv'
  <2>1. borrower'[b] = new /\ \A c \in Borrowers \ {b} : borrower'[c] = borrower[c]
    BY <1>1 DEF ScopeTypeOK
  <2>2. ScopeTypeOK'
    BY <1>1 DEF ScopeTypeOK, Forwards
  <2>3. ChainsKnow'
    BY <1>1, <2>1 DEF ChainsKnow, Forwards
  <2>4. CacheKnows' /\ DisposalStages' /\ ScopeHolds'
    BY <1>1 DEF CacheKnows, DisposalStages, ScopeHolds, Forwards, Runs, Unsettled, Ending
  <2> QED BY <2>2, <2>3, <2>4
<1>2. CASE borrower' = [borrower EXCEPT ![b].at = "failed"] /\ discovery' \in {"none", "runs", "ok", "failed"}
           /\ gone' \subseteq Borrowers /\ UNCHANGED <<forwards, cached, held, disposing>>
  <2> DEFINE new == [borrower[b] EXCEPT !.at = "failed"]
  <2>1. new \in [at : {"idle", "discovers", "waits", "mapped", "failed"},
                to : Endpoints \cup {"none"}, via : Nat] /\ new.at = "failed"
        /\ borrower' = [borrower EXCEPT ![b] = new]
    BY <1>0, <1>2 DEF ScopeTypeOK
  <2> HIDE DEF new
  <2> QED BY <1>1, <1>2, <2>1
<1>3. ASSUME NEW e \in Endpoints, Borrow(b, e) PROVE ScopeInv'
  <2>1. CASE ~Ending
    <3>1. borrower' = [borrower EXCEPT ![b] = [at |-> "discovers", to |-> e, via |-> 0]]
          /\ discovery' \in {"none", "runs", "ok", "failed"} /\ gone' \subseteq Borrowers
          /\ UNCHANGED <<forwards, cached, held, disposing>>
      BY <1>3, <2>1 DEF Borrow, ScopeTypeOK
    <3> DEFINE new == [at |-> "discovers", to |-> e, via |-> 0]
    <3>2. new \in [at : {"idle", "discovers", "waits", "mapped", "failed"},
                  to : Endpoints \cup {"none"}, via : Nat] /\ new.at = "discovers" /\ new.to = e
          /\ borrower' = [borrower EXCEPT ![b] = new]
      BY <1>3, <3>1
    <3> HIDE DEF new
    <3> QED BY <1>1, <3>1, <3>2
  <2>2. CASE Ending
    <3>1. borrower' = [borrower EXCEPT ![b].at = "failed"] /\ UNCHANGED <<discovery, gone>>
          /\ UNCHANGED <<forwards, cached, held, disposing>>
      BY <1>3, <2>2 DEF Borrow
    <3> QED BY <1>2, <3>1 DEF ScopeTypeOK
  <2> QED BY <2>1, <2>2
<1>4. CASE GivesUp(b)
  <2>1. gone' \subseteq Borrowers /\ discovery' \in {"none", "runs", "ok", "failed"}
        /\ UNCHANGED <<forwards, cached, held, disposing>>
    BY <1>4 DEF GivesUp, ScopeTypeOK
  <2>2. CASE borrower' = borrower
    <3>1. ScopeTypeOK'
      BY <2>1, <2>2 DEF ScopeTypeOK, Forwards
    <3> QED BY <2>1, <2>2, <3>1 DEF CacheKnows, ChainsKnow, DisposalStages, ScopeHolds, Forwards, Runs,
                                    Unsettled, Ending
  <2> QED BY <1>2, <1>4, <2>1, <2>2 DEF GivesUp
<1>5. CASE Refused(b)
  BY <1>2, <1>5 DEF Refused, ScopeTypeOK
<1>6. CASE AskForward(b)
  <2>1. borrower[b].to \in Endpoints /\ cached[borrower[b].to] \in Nat
    BY <1>6 DEF AskForward, ChainsKnow, ScopeTypeOK
  <2>2. 0 \notin Forwards
    BY DEF ScopeTypeOK, Forwards
  <2> QED BY <1>6, <2>1, <2>2, AskedKeeps DEF AskForward
<1>7. CASE Checked(b)
  <2> DEFINE t == borrower[b].via
             e == borrower[b].to
  <2>1. borrower[b].at = "waits" /\ e \in Endpoints /\ t \in Forwards /\ forwards[t].to = e
        /\ cached[e] \in Nat /\ 0 \notin Forwards /\ UNCHANGED <<discovery, held, gone, disposing>>
    BY <1>7 DEF Checked, ChainsKnow, ScopeTypeOK, Forwards
  <2>2. CASE borrower' = [borrower EXCEPT ![b].at = IF forwards[t].at = "up" THEN "mapped" ELSE "failed"]
             /\ UNCHANGED <<forwards, cached>>
    <3> DEFINE new == [borrower[b] EXCEPT !.at = IF forwards[t].at = "up" THEN "mapped" ELSE "failed"]
    <3>1. new \in [at : {"idle", "discovers", "waits", "mapped", "failed"},
                  to : Endpoints \cup {"none"}, via : Nat] /\ new.at \in {"mapped", "failed"}
          /\ borrower' = [borrower EXCEPT ![b] = new]
      BY <1>0, <2>2 DEF ScopeTypeOK
    <3>2. discovery' \in {"none", "runs", "ok", "failed"} /\ gone' \subseteq Borrowers
      BY <2>1 DEF ScopeTypeOK
    <3> HIDE DEF new
    <3> QED BY <1>1, <2>1, <2>2, <3>1, <3>2
  <2>3. CASE forwards[t].at = "up" /\ ~StillUp(t) /\ Forward(b, IF cached[e] = t THEN 0 ELSE cached[e])
    <3>1. ~Runs(t) /\ ~Unsettled(t)
      BY <2>3 DEF StillUp, Unsettled
    <3>2. CASE cached[e] = t
      <4>1. Forward(b, 0)
        BY <2>3, <3>2
      <4>2. \A s \in Forwards : cached[e] = s => ~Runs(s) /\ ~Unsettled(s)
        BY <3>1, <3>2
      <4> QED BY <2>1, <4>1, <4>2, AskedKeeps
    <3>3. CASE cached[e] # t
      <4>1. Forward(b, cached[e])
        BY <2>3, <3>3
      <4> QED BY <2>1, <4>1, AskedKeeps
    <3> QED BY <3>2, <3>3
  <2> QED BY <1>7, <2>2, <2>3 DEF Checked
<1> QED BY <1>3, <1>4, <1>5, <1>6, <1>7

\* Killing some of the forwards.
LEMMA KilledStates ==
    ASSUME ScopeInv, NEW S \in SUBSET Forwards
    PROVE  /\ Killed(S) \in [Forwards -> ForwardStates]
           /\ \A t \in Forwards : /\ Killed(S)[t].to = forwards[t].to /\ Killed(S)[t].at = forwards[t].at
                                  /\ ~(t \in S /\ Runs(t)) => Killed(S)[t] = forwards[t]
                                  /\ Killed(S)[t].process = "runs" => Runs(t) /\ t \notin S
<1>1. forwards \in [Forwards -> ForwardStates]
  BY DEF ScopeInv, ScopeTypeOK, Forwards
<1>2. ASSUME NEW t \in Forwards
      PROVE  LET k == [forwards[t] EXCEPT !.process = "killed"]
             IN  k \in ForwardStates /\ k.to = forwards[t].to /\ k.at = forwards[t].at /\ k.process = "killed"
  BY <1>1 DEF ForwardStates
<1> QED BY <1>1, <1>2 DEF Killed, Runs

(* Every step of the discovery and the disposal keeps the invariant.       *)
LEMMA DisposalKeeps ==
    ASSUME ScopeInv,
           Discovered \/ DisposalBegins \/ DisposalDrains \/ DisposalStops \/ DisposalEnds
    PROVE  ScopeInv'
<1> USE DEF ScopeInv
<1>1. CASE Discovered
  <2>1. ScopeTypeOK'
    BY <1>1 DEF Discovered, ScopeTypeOK, Forwards
  <2>2. CacheKnows' /\ ChainsKnow' /\ DisposalStages' /\ ScopeHolds'
    BY <1>1 DEF Discovered, CacheKnows, ChainsKnow, DisposalStages, ScopeHolds, Forwards, Runs, Unsettled, Ending
  <2> QED BY <2>1, <2>2
<1>2. ASSUME NEW S \in SUBSET Forwards, forwards' = Killed(S), UNCHANGED <<cached, borrower>>
      PROVE  /\ forwards' \in Seq(ForwardStates) /\ Forwards' = Forwards /\ CacheKnows' /\ ChainsKnow'
             /\ \A t \in Forwards : /\ forwards'[t].at = forwards[t].at
                                    /\ Runs(t)' => Runs(t) /\ t \notin S
                                    /\ ~Runs(t) => forwards'[t] = forwards[t]
  <2>1. \A t \in Forwards : (Runs(t)' => Runs(t) /\ t \notin S) /\ (Unsettled(t)' => Unsettled(t))
    BY <1>2, KilledStates DEF Runs, Unsettled
  <2>2. cached' \in [Endpoints -> Nat]
    BY <1>2 DEF ScopeTypeOK
  <2> QED BY <1>2, <2>1, <2>2, KilledStates, SettlingKeeps
<1>3. CASE DisposalBegins
  <2>1. /\ forwards' \in Seq(ForwardStates) /\ Forwards' = Forwards /\ CacheKnows' /\ ChainsKnow'
        /\ \A t \in Forwards : forwards'[t].at = forwards[t].at /\ ~Runs(t)'
    BY <1>2, <1>3 DEF DisposalBegins
  <2>2. ScopeTypeOK'
    BY <1>3, <2>1 DEF DisposalBegins, ScopeTypeOK
  <2>3. DisposalStages' /\ ScopeHolds'
    BY <1>3, <2>1 DEF DisposalBegins, DisposalStages, ScopeHolds
  <2> QED BY <2>1, <2>2, <2>3
<1>4. CASE DisposalDrains
  <2>1. ScopeTypeOK'
    BY <1>4 DEF DisposalDrains, ScopeTypeOK, Forwards
  <2>2. CacheKnows' /\ ChainsKnow' /\ DisposalStages' /\ ScopeHolds'
    BY <1>4 DEF DisposalDrains, CacheKnows, ChainsKnow, DisposalStages, ScopeHolds, Forwards, Runs, Unsettled, Ending
  <2> QED BY <2>1, <2>2
<1>5. CASE DisposalStops
  <2>1. \A t \in Forwards : ~Runs(t) /\ ~Unsettled(t)
    <3>1. \A t \in Forwards : ~Runs(t)
      BY <1>5 DEF DisposalStops, DisposalStages, Ending
    <3>2. ASSUME NEW t \in Forwards, Unsettled(t) PROVE FALSE
      <4>1. forwards[t].to \in Endpoints /\ cached[forwards[t].to] = t /\ t # 0
        <5>1. forwards \in [Forwards -> ForwardStates] /\ t # 0
          BY DEF ScopeTypeOK, Forwards
        <5>2. forwards[t].to \in Endpoints
          BY <5>1 DEF ForwardStates
        <5> QED BY <3>2, <5>1, <5>2 DEF CacheKnows
      <4>2. t \in Promises
        BY <4>1 DEF Promises
      <4> QED BY <1>5, <3>2, <4>2 DEF DisposalStops, Unsettled
    <3> QED BY <3>1, <3>2
  <2>2. held \subseteq Forwards
    BY DEF ScopeTypeOK
  <2>3. /\ forwards' \in Seq(ForwardStates) /\ Forwards' = Forwards /\ CacheKnows' /\ ChainsKnow'
        /\ \A t \in Forwards : forwards'[t] = forwards[t]
    BY <1>2, <1>5, <2>1, <2>2 DEF DisposalStops
  <2>4. ScopeTypeOK'
    BY <1>5, <2>3 DEF DisposalStops, ScopeTypeOK
  <2>5. DisposalStages' /\ ScopeHolds'
    BY <1>5, <2>1, <2>3 DEF DisposalStops, DisposalStages, ScopeHolds, Runs, Unsettled
  <2> QED BY <2>3, <2>4, <2>5
<1>6. CASE DisposalEnds
  <2>1. \A t \in Forwards : ~Runs(t) /\ ~Unsettled(t) /\ (forwards[t].at = "up" => forwards[t].process = "gone")
    BY <1>6 DEF DisposalEnds, DisposalStages, ScopeHolds, Ending
  <2>2. ScopeTypeOK'
    BY <1>6 DEF DisposalEnds, ScopeTypeOK, Forwards
  <2>3. CacheKnows'
    BY <1>6, <2>1 DEF DisposalEnds, CacheKnows, Forwards, Runs, Unsettled
  <2>4. ChainsKnow' /\ DisposalStages' /\ ScopeHolds'
    BY <1>6, <2>1 DEF DisposalEnds, ChainsKnow, DisposalStages, ScopeHolds, Forwards, Runs, Unsettled, Ending
  <2> QED BY <2>2, <2>3, <2>4
<1> QED BY <1>1, <1>3, <1>4, <1>5, <1>6

\* A step that leaves the scope alone keeps the invariant.
LEMMA ScopeStutters == ScopeInv /\ UNCHANGED scopeVars => ScopeInv'
<1> SUFFICES ASSUME ScopeInv, UNCHANGED scopeVars PROVE ScopeInv'
  OBVIOUS
<1>1. ScopeTypeOK'
  BY DEF scopeVars, ScopeInv, ScopeTypeOK, Forwards
<1> QED BY <1>1 DEF scopeVars, ScopeInv, CacheKnows, ChainsKnow, DisposalStages, ScopeHolds, Forwards, Runs,
                    Unsettled, Ending

\* Every step keeps the invariant.
LEMMA ScopeStep == ScopeInv /\ [ScopeNext]_scopeVars => ScopeInv'
BY ForwardKeeps, BorrowerKeeps, DisposalKeeps, ScopeStutters DEF ScopeNext

(* No step of a borrower, or of a forward, kills one that came up, and a   *)
(* chain is handed only a forward that is alive.                           *)
LEMMA SharedSafely ==
    ASSUME ScopeInv, [ScopeNext]_scopeVars
    PROVE  /\ \A t \in Forwards :
                 forwards[t].at = "up" /\ Runs(t) /\ forwards'[t].process = "killed" => disposing' # "no"
           /\ \A b \in Borrowers :
                 borrower[b].at # "mapped" /\ borrower'[b].at = "mapped" => Runs(borrower[b].via)
<1>0. forwards \in [Forwards -> ForwardStates]
      /\ borrower \in [Borrowers -> [at : {"idle", "discovers", "waits", "mapped", "failed"},
                                     to : Endpoints \cup {"none"}, via : Nat]]
  BY DEF ScopeInv, ScopeTypeOK, Forwards
<1>1. ASSUME NEW t \in Forwards, forwards[t].at = "up", Runs(t), forwards'[t].process = "killed"
      PROVE  disposing' # "no"
  <2>1. forwards'[t] # forwards[t]
    BY <1>1 DEF Runs
  <2>2. CASE DisposalBegins \/ DisposalStops
    BY <2>2 DEF DisposalBegins, DisposalStops
  <2>3. ASSUME NEW b \in Borrowers, NEW hit, Forward(b, hit) PROVE FALSE
    <3>1. Append(forwards, Starting(borrower[b].to))[t] = forwards[t]
      BY DEF ScopeInv, ScopeTypeOK, Forwards
    <3> QED BY <2>1, <2>3, <3>1 DEF Forward
  <2>4. ASSUME NEW s \in Forwards, Announces(s) \/ StartFails(s) \/ Holds(s) \/ Publishes(s) PROVE FALSE
    <3>1. s # t
      BY <1>1, <2>4 DEF Announces, StartFails, Holds, Publishes
    <3> QED BY <1>0, <2>1, <2>4, <3>1 DEF Announces, StartFails, Holds, Publishes, Rejected
  <2>5. ASSUME NEW s \in Forwards, ProcessExits(s) PROVE FALSE
    <3>1. CASE s = t
      BY <1>0, <1>1, <2>5, <3>1 DEF ProcessExits, ForwardStates
    <3>2. CASE s # t
      BY <1>0, <2>1, <2>5, <3>2 DEF ProcessExits
    <3> QED BY <3>1, <3>2
  <2>6. ASSUME NEW b \in Borrowers, AskForward(b) \/ Checked(b) PROVE FALSE
    BY <2>1, <2>3, <2>6 DEF AskForward, Checked
  <2>7. ASSUME NEW b \in Borrowers, GivesUp(b) \/ Refused(b) \/ \E e \in Endpoints : Borrow(b, e) PROVE FALSE
    BY <2>1, <2>7 DEF GivesUp, Refused, Borrow
  <2>8. ~(Discovered \/ DisposalDrains \/ DisposalEnds \/ UNCHANGED scopeVars)
    BY <2>1 DEF Discovered, DisposalDrains, DisposalEnds, scopeVars
  <2> QED BY <2>2, <2>4, <2>5, <2>6, <2>7, <2>8 DEF ScopeNext
<1>2. ASSUME NEW b \in Borrowers, borrower[b].at # "mapped", borrower'[b].at = "mapped"
      PROVE  Runs(borrower[b].via)
  <2>1. ASSUME NEW c \in Borrowers, Forward(c, cached[borrower[c].to]) \/ Forward(c, 0) PROVE FALSE
    BY <1>0, <1>2, <2>1 DEF Forward
  <2>2. ASSUME NEW c \in Borrowers, AskForward(c) PROVE FALSE
    BY <2>1, <2>2 DEF AskForward
  <2>3. ASSUME NEW c \in Borrowers, GivesUp(c) \/ Refused(c) \/ \E e \in Endpoints : Borrow(c, e) PROVE FALSE
    <3>1. \/ borrower' = [borrower EXCEPT ![c].at = "failed"] \/ borrower' = borrower
          \/ \E e \in Endpoints : borrower' = [borrower EXCEPT ![c] = [at |-> "discovers", to |-> e, via |-> 0]]
      BY <2>3 DEF GivesUp, Refused, Borrow
    <3> QED BY <1>0, <1>2, <3>1
  <2>4. ASSUME NEW c \in Borrowers, Checked(c) PROVE Runs(borrower[b].via)
    <3>1. /\ borrower[c].at = "waits"
          /\ \/ /\ \/ forwards[borrower[c].via].at = "failed"
                   \/ forwards[borrower[c].via].at = "up" /\ Runs(borrower[c].via)
                /\ borrower' = [borrower EXCEPT ![c].at = IF forwards[borrower[c].via].at = "up" THEN "mapped"
                                                         ELSE "failed"]
             \/ Forward(c, cached[borrower[c].to]) \/ Forward(c, 0)
      BY <2>4 DEF Checked, StillUp
    <3> QED BY <1>0, <1>2, <2>1, <3>1
  <2>5. ASSUME UNCHANGED borrower PROVE FALSE
    BY <1>2, <2>5
  <2>6. ASSUME NEW s \in Forwards, Announces(s) \/ StartFails(s) \/ Holds(s) \/ Publishes(s) \/ ProcessExits(s)
        PROVE  FALSE
    BY <2>5, <2>6 DEF Announces, StartFails, Holds, Publishes, ProcessExits
  <2>7. ~(Discovered \/ DisposalBegins \/ DisposalDrains \/ DisposalStops \/ DisposalEnds \/ UNCHANGED scopeVars)
    BY <2>5 DEF Discovered, DisposalBegins, DisposalDrains, DisposalStops, DisposalEnds, scopeVars
  <2> QED BY <2>2, <2>3, <2>4, <2>6, <2>7 DEF ScopeNext
<1> QED BY <1>1, <1>2

\* The inductive invariant of the TypeScript forward scope: what the cache and
\* the chains refer to is known, and the disposal's stages follow each other.
THEOREM ScopeInvariant == ScopeSpec => []ScopeInv
<1> QED BY ScopeStarts, ScopeStep, PTL DEF ScopeSpec

\* For any endpoints and any number of chains: every forward that runs has an
\* owner and its endpoint no other, none runs after the disposal, which alone
\* ends one that came up; and a chain is handed only one that runs
\* (PortForwardScope.start and dispose).
THEOREM ForwardsAreSound == ScopeSpec => ForwardsSound
<1>1. ScopeInv => ForwardsOwned
  <2>1. ScopeTypeOK /\ ScopeInv => \A t \in Forwards : forwards[t].at \in {"starting", "ready", "held", "up", "failed"}
    <3> SUFFICES ASSUME ScopeTypeOK PROVE \A t \in Forwards : forwards[t].at \in {"starting", "ready", "held", "up", "failed"}
      OBVIOUS
    <3>1. forwards \in [Forwards -> ForwardStates]
      BY DEF ScopeTypeOK, Forwards
    <3> QED BY <3>1 DEF ForwardStates
  <2> QED BY <2>1 DEF ScopeInv, ForwardsOwned, CacheKnows, DisposalStages, ScopeHolds, Unsettled, Ending
<1>2. ScopeInv /\ [ScopeNext]_scopeVars =>
        [/\ \A t \in Forwards :
               forwards[t].at = "up" /\ Runs(t) /\ forwards'[t].process = "killed" => disposing' # "no"
         /\ \A b \in Borrowers :
               borrower[b].at # "mapped" /\ borrower'[b].at = "mapped" => Runs(borrower[b].via)]_scopeVars
  BY SharedSafely
<1>3. ScopeSpec => []ForwardsOwned
  BY ScopeInvariant, <1>1, PTL
<1>4. ScopeSpec => BorrowersShare
  BY ScopeInvariant, <1>2, PTL DEF ScopeSpec, BorrowersShare
<1> QED BY <1>3, <1>4 DEF ForwardsSound

-----------------------------------------------------------------------------
(* PodRelay.                                                               *)

RelayForwards == [process : {"none", "live", "killed", "gone"}, held : BOOLEAN,
                  to : RelayEndpoints \cup {"none"}]
RelayTypeOK ==
    /\ relayStart \in {"none", "select", "exec", "ready", "failed"}
    /\ relayExec \in {"none", "up", "over"}
    /\ relayFailed \in BOOLEAN
    /\ relayWay \in [RelayEndpoints -> {"none", "startup", "request", "forward", "up", "failed"}]
    /\ relayForward \in [RelayEndpoints -> RelayForwards]
    /\ relayEnd \in {"no", "targets", "processes", "done"}

\* A forward leads where its target was asked for; the relay holds those that
\* run, so that a failure stops them all.
ForwardsLead ==
    \A e \in RelayEndpoints :
        /\ relayWay[e] \in {"forward", "up"} => relayForward[e].to = e
        /\ relayForward[e].process = "live" => relayForward[e].held /\ ~relayFailed

TargetsCounted == IsFiniteSet(Asked) /\ Cardinality(Asked) <= MaxTargets

\* A startup has a target that waits for it, so no target that waits means no
\* startup; and a failed relay takes no new target.
DisposalInTurn ==
    /\ relayStart \in {"select", "exec"} => \E e \in RelayEndpoints : relayWay[e] = "startup"
    /\ relayEnd # "no" => relayFailed
    /\ relayEnd \in {"processes", "done"} => \A e \in RelayEndpoints : TargetSettled(e)
    /\ relayEnd = "done" => /\ relayExec # "up"
                            /\ \A e \in RelayEndpoints : relayForward[e].process \in {"none", "gone"}

RelayInv == RelayTypeOK /\ ForwardsLead /\ TargetsCounted /\ DisposalInTurn

LEMMA RelayStarts == RelayInit => RelayInv
<1> SUFFICES ASSUME RelayInit PROVE RelayInv
  OBVIOUS
<1>1. /\ relayStart = "none" /\ relayExec = "none" /\ relayEnd = "no"
      /\ relayWay = [e \in RelayEndpoints |-> "none"]
      /\ relayForward = [e \in RelayEndpoints |-> [process |-> "none", held |-> FALSE, to |-> "none"]]
  BY DEF RelayInit
<1>2. relayFailed \in BOOLEAN
  BY Zenon DEF RelayInit
<1>3. RelayTypeOK
  BY <1>1, <1>2 DEF RelayTypeOK, RelayForwards
<1>4. ForwardsLead /\ DisposalInTurn
  BY <1>1 DEF ForwardsLead, DisposalInTurn
<1>5. Asked = {}
  BY <1>1 DEF Asked
<1>6. TargetsCounted
  BY <1>5, FS_EmptySet, RelayBounds DEF TargetsCounted
<1> QED BY <1>3, <1>4, <1>6 DEF RelayInv

\* The failure of the relay: nothing that runs is left running, nothing new is
\* asked for, and what has settled stays so.
LEMMA RelayFails ==
    ASSUME RelayInv, RelayFail
    PROVE  /\ relayFailed' = TRUE
           /\ relayWay' \in [RelayEndpoints -> {"none", "startup", "request", "forward", "up", "failed"}]
           /\ relayForward' \in [RelayEndpoints -> RelayForwards]
           /\ ForwardsLead' /\ Asked' = Asked
           /\ \A e \in RelayEndpoints :
                /\ relayWay[e] = "startup" => relayWay'[e] = "startup"
                /\ TargetSettled(e) => TargetSettled(e)'
                /\ relayForward[e].process \in {"none", "gone"} => relayForward'[e].process \in {"none", "gone"}
<1>1. /\ relayFailed' = TRUE
      /\ relayWay' = [e \in RelayEndpoints |-> IF relayWay[e] = "request" THEN "failed" ELSE relayWay[e]]
      /\ relayForward' = [e \in RelayEndpoints |->
                            IF relayForward[e].held THEN Stopped(relayForward[e]) ELSE relayForward[e]]
  BY DEF RelayFail, StopAll
<1>2. /\ relayWay \in [RelayEndpoints -> {"none", "startup", "request", "forward", "up", "failed"}]
      /\ relayForward \in [RelayEndpoints -> RelayForwards]
  BY DEF RelayInv, RelayTypeOK
<1>3. ASSUME NEW f \in RelayForwards
      PROVE  /\ Stopped(f) \in RelayForwards /\ Stopped(f).to = f.to /\ Stopped(f).process # "live"
             /\ f.process \in {"none", "gone"} => Stopped(f).process = f.process
  BY DEF Stopped, RelayForwards
<1>4. ASSUME NEW e \in RelayEndpoints
      PROVE  /\ relayForward'[e] \in RelayForwards /\ relayForward'[e].to = relayForward[e].to
             /\ relayForward'[e].process # "live"
             /\ relayForward[e].process \in {"none", "gone"} =>
                  relayForward'[e].process \in {"none", "gone"}
  <2>1. relayForward[e] \in RelayForwards /\ (relayForward[e].process = "live" => relayForward[e].held)
    BY <1>2 DEF RelayInv, ForwardsLead
  <2>2. relayForward'[e] = IF relayForward[e].held THEN Stopped(relayForward[e]) ELSE relayForward[e]
    BY <1>1
  <2> QED BY <1>3, <2>1, <2>2
<1>5. relayWay' \in [RelayEndpoints -> {"none", "startup", "request", "forward", "up", "failed"}]
  BY <1>1, <1>2
<1>6. relayForward' \in [RelayEndpoints -> RelayForwards]
  BY <1>1, <1>4
<1>7. ForwardsLead'
  BY <1>1, <1>4 DEF RelayInv, ForwardsLead
<1>8. Asked' = Asked
  BY <1>1, <1>2 DEF Asked
<1> QED BY <1>1, <1>4, <1>5, <1>6, <1>7, <1>8 DEF TargetSettled

\* Startup, exec, script and disposal: steps of the relay as a whole.
LEMMA RelayWholeKeeps ==
    ASSUME RelayInv,
           SelectEnds \/ StartEnds \/ ExecEnds \/ ControlLost \/ DisposeRelay
             \/ TargetsSettled \/ RelayDisposed
    PROVE  RelayInv'
<1>1. RelayTypeOK /\ ForwardsLead /\ TargetsCounted /\ DisposalInTurn
  BY DEF RelayInv
<1>2. CASE RelayFail /\ (SelectEnds \/ StartEnds \/ ExecEnds \/ ControlLost \/ DisposeRelay)
  <2>1. /\ relayFailed' = TRUE
        /\ relayWay' \in [RelayEndpoints -> {"none", "startup", "request", "forward", "up", "failed"}]
        /\ relayForward' \in [RelayEndpoints -> RelayForwards]
        /\ ForwardsLead' /\ Asked' = Asked
        /\ \A e \in RelayEndpoints :
             /\ relayWay[e] = "startup" => relayWay'[e] = "startup"
             /\ TargetSettled(e) => TargetSettled(e)'
             /\ relayForward[e].process \in {"none", "gone"} => relayForward'[e].process \in {"none", "gone"}
    BY <1>2, RelayFails
  <2>2. /\ relayStart' \in {relayStart, "failed"} \/ (relayStart = "select" /\ relayExec' = "up" /\ ~relayFailed')
        /\ relayExec' \in {relayExec, "over"} \/ (relayStart = "select" /\ ~relayFailed')
        /\ relayEnd' = relayEnd \/ (relayEnd = "no" /\ relayEnd' = "targets")
    BY <1>2, <2>1 DEF SelectEnds, StartEnds, ExecEnds, ControlLost, DisposeRelay, Disposing, NoFail
  <2>3. RelayTypeOK'
    BY <1>1, <2>1, <2>2 DEF RelayTypeOK
  <2>4. TargetsCounted'
    BY <1>1, <2>1 DEF TargetsCounted
  <2>5. DisposalInTurn'
    BY <1>1, <2>1, <2>2 DEF DisposalInTurn
  <2> QED BY <2>1, <2>3, <2>4, <2>5 DEF RelayInv
<1>3. CASE SelectEnds /\ ~relayFailed /\ relayStart' = "exec" /\ relayExec' = "up"
           /\ UNCHANGED <<relayFailed, relayWay, relayForward, relayEnd>>
  <2>1. relayStart = "select"
    BY <1>3 DEF SelectEnds
  <2>2. Asked' = Asked
    BY <1>3 DEF Asked
  <2>3. RelayTypeOK' /\ ForwardsLead' /\ TargetsCounted'
    BY <1>1, <1>3, <2>2 DEF RelayTypeOK, ForwardsLead, TargetsCounted
  <2>4. DisposalInTurn'
    BY <1>1, <1>3, <2>1 DEF DisposalInTurn, TargetSettled
  <2> QED BY <2>3, <2>4 DEF RelayInv
<1>4. CASE \/ StartEnds /\ relayStart' = "ready" /\ NoFail
           \/ TargetsSettled \/ RelayDisposed
  <2>1. /\ UNCHANGED <<relayFailed, relayWay, relayForward, relayExec>>
        /\ \/ relayStart' = "ready" /\ UNCHANGED relayEnd
           \/ /\ UNCHANGED relayStart /\ relayEnd = "targets" /\ relayEnd' = "processes"
              /\ \A e \in RelayEndpoints : TargetSettled(e)
           \/ /\ UNCHANGED relayStart /\ relayEnd = "processes" /\ relayEnd' = "done"
              /\ relayExec # "up"
              /\ \A e \in RelayEndpoints : relayForward[e].process \in {"none", "gone"}
    BY <1>4 DEF StartEnds, NoFail, TargetsSettled, RelayDisposed
  <2>2. Asked' = Asked
    BY <2>1 DEF Asked
  <2>3. RelayTypeOK' /\ ForwardsLead' /\ TargetsCounted'
    BY <1>1, <2>1, <2>2 DEF RelayTypeOK, ForwardsLead, TargetsCounted
  <2>4. DisposalInTurn'
    BY <1>1, <2>1 DEF DisposalInTurn, TargetSettled
  <2> QED BY <2>3, <2>4 DEF RelayInv
<1> QED
  BY <1>2, <1>3, <1>4 DEF SelectEnds, StartEnds, ExecEnds, ControlLost, DisposeRelay

\* A step that moves none of the relay's own state.
LEMMA RelayStays ==
    ASSUME RelayInv,
           UNCHANGED <<relayWay, relayForward, relayExec, relayFailed, relayEnd, relayStart>>
    PROVE  RelayInv'
  BY DEF RelayInv, RelayTypeOK, ForwardsLead, TargetsCounted, DisposalInTurn, TargetSettled, Asked

\* One target moves on, and its forward perhaps with it.
LEMMA RelayTargetMoves ==
    ASSUME RelayInv, NEW e \in RelayEndpoints,
           NEW way \in {"none", "startup", "request", "forward", "up", "failed"},
           NEW fwd \in RelayForwards,
           relayWay' = [relayWay EXCEPT ![e] = way],
           relayForward' = [relayForward EXCEPT ![e] = fwd],
           UNCHANGED <<relayExec, relayFailed, relayEnd, relayStart>>,
           relayWay[e] = "none" <=> way = "none",
           way \in {"forward", "up"} => fwd.to = e,
           fwd.process = "live" => fwd.held /\ ~relayFailed,
           relayWay[e] = "startup" /\ way # "startup" => relayStart \in {"ready", "failed"},
           TargetSettled(e) => way = relayWay[e],
           relayForward[e].process \in {"none", "gone"} /\ TargetSettled(e) => fwd.process \in {"none", "gone"}
    PROVE  RelayInv'
<1>1. RelayTypeOK /\ ForwardsLead /\ TargetsCounted /\ DisposalInTurn
  BY DEF RelayInv
<1>2. /\ relayWay' \in [RelayEndpoints -> {"none", "startup", "request", "forward", "up", "failed"}]
      /\ relayForward' \in [RelayEndpoints -> RelayForwards]
      /\ relayWay'[e] = way /\ relayForward'[e] = fwd
      /\ \A o \in RelayEndpoints \ {e} : relayWay'[o] = relayWay[o] /\ relayForward'[o] = relayForward[o]
  BY <1>1 DEF RelayTypeOK
<1>3. Asked' = Asked
  BY <1>2 DEF Asked
<1>4. RelayTypeOK' /\ TargetsCounted'
  BY <1>1, <1>2, <1>3 DEF RelayTypeOK, TargetsCounted
<1>5. ForwardsLead'
  BY <1>1, <1>2 DEF ForwardsLead
<1>6. DisposalInTurn'
  <2>1. relayStart \in {"select", "exec"} => \E o \in RelayEndpoints : relayWay'[o] = "startup"
    BY <1>1, <1>2 DEF DisposalInTurn
  <2>2. \A o \in RelayEndpoints : TargetSettled(o) => TargetSettled(o)'
    BY <1>2 DEF TargetSettled
  <2> QED BY <1>1, <1>2, <2>1, <2>2 DEF DisposalInTurn
<1> QED BY <1>4, <1>5, <1>6 DEF RelayInv

LEMMA RelayTargetKeeps ==
    ASSUME RelayInv, NEW e \in RelayEndpoints,
           Request(e) \/ ScriptAnswers(e) \/ RequestTimesOut(e) \/ Forwarded(e) \/ ForwardGone(e)
    PROVE  RelayInv'
<1> DEFINE f == relayForward[e]
<1>1. /\ RelayTypeOK /\ relayWay[e] \in {"none", "startup", "request", "forward", "up", "failed"}
      /\ f \in RelayForwards /\ relayForward = [relayForward EXCEPT ![e] = f]
      /\ relayWay = [relayWay EXCEPT ![e] = relayWay[e]]
      /\ relayWay[e] \in {"forward", "up"} => f.to = e
      /\ f.process = "live" => f.held /\ ~relayFailed
  BY DEF RelayInv, RelayTypeOK, ForwardsLead
<1>2. CASE Request(e)
  <2>1. /\ relayWay[e] = "startup" /\ relayStart \in {"ready", "failed"} /\ UNCHANGED relayForward
        /\ UNCHANGED <<relayExec, relayFailed, relayEnd, relayStart>>
        /\ \E way \in {"failed", "request"} : relayWay' = [relayWay EXCEPT ![e] = way]
    BY <1>2 DEF Request, Move
  <2>2. PICK way \in {"failed", "request"} : relayWay' = [relayWay EXCEPT ![e] = way]
    BY <2>1
  <2>3. way \in {"none", "startup", "request", "forward", "up", "failed"}
    OBVIOUS
  <2>4. /\ relayWay[e] # "none" /\ way \notin {"none", "forward", "up"}
        /\ ~TargetSettled(e) /\ relayStart \in {"ready", "failed"}
    BY <2>1, <2>2 DEF TargetSettled
  <2>5. /\ f \in RelayForwards /\ relayForward' = [relayForward EXCEPT ![e] = f]
        /\ f.process = "live" => f.held /\ ~relayFailed
    BY <1>1, <2>1
  <2>6. UNCHANGED <<relayExec, relayFailed, relayEnd, relayStart>>
    BY <2>1
  <2> HIDE DEF f
  <2> QED BY <2>2, <2>3, <2>4, <2>5, <2>6, RelayTargetMoves
<1>3. CASE ScriptAnswers(e)
  <2>1. CASE PendingOf(e) = {}
    <3>1. UNCHANGED <<relayWay, relayForward, relayExec, relayFailed, relayEnd, relayStart>>
      BY <1>3, <2>1 DEF ScriptAnswers
    <3> QED BY <3>1, RelayStays
  <2>2. CASE PendingOf(e) # {}
    <3>1. /\ relayWay[e] = "request" /\ UNCHANGED <<relayExec, relayFailed, relayEnd, relayStart>>
          /\ \/ relayWay' = [relayWay EXCEPT ![e] = "failed"] /\ UNCHANGED relayForward
             \/ /\ relayWay' = [relayWay EXCEPT ![e] = "forward"]
                /\ relayForward' = [relayForward EXCEPT ![e].to = e]
      BY <1>3, <2>2 DEF ScriptAnswers, PendingOf, Move
    <3>2. CASE relayWay' = [relayWay EXCEPT ![e] = "failed"] /\ UNCHANGED relayForward
      <4>1. /\ f \in RelayForwards /\ relayForward' = [relayForward EXCEPT ![e] = f]
            /\ f.process = "live" => f.held /\ ~relayFailed
        BY <1>1, <3>2
      <4>2. relayWay[e] = "request" /\ ~TargetSettled(e)
        BY <3>1 DEF TargetSettled
      <4>3. /\ relayWay' = [relayWay EXCEPT ![e] = "failed"]
            /\ UNCHANGED <<relayExec, relayFailed, relayEnd, relayStart>>
        BY <3>1, <3>2
      <4> HIDE DEF f
      <4> QED BY <4>1, <4>2, <4>3, RelayTargetMoves
    <3>3. CASE /\ relayWay' = [relayWay EXCEPT ![e] = "forward"]
               /\ relayForward' = [relayForward EXCEPT ![e].to = e]
      <4> DEFINE g == [f EXCEPT !.to = e]
      <4>1. /\ g \in RelayForwards /\ g.to = e /\ g.process = f.process /\ (g.held <=> f.held)
            /\ relayForward' = [relayForward EXCEPT ![e] = g]
        BY <1>1, <3>3 DEF RelayForwards
      <4>2. f.process = "live" => f.held /\ ~relayFailed
        BY <1>1
      <4>3. /\ g.process = "live" => g.held /\ ~relayFailed
            /\ ~TargetSettled(e)
        BY <3>1, <4>1, <4>2 DEF TargetSettled
      <4> HIDE DEF g, f
      <4>4. /\ relayWay' = [relayWay EXCEPT ![e] = "forward"] /\ relayForward' = [relayForward EXCEPT ![e] = g]
            /\ UNCHANGED <<relayExec, relayFailed, relayEnd, relayStart>>
        BY <3>1, <3>3, <4>1
      <4>5. /\ relayWay[e] = "none" <=> "forward" = "none"
            /\ relayWay[e] = "startup" /\ "forward" # "startup" => relayStart \in {"ready", "failed"}
            /\ TargetSettled(e) => "forward" = relayWay[e]
        BY <3>1, <4>3
      <4> QED BY <4>1, <4>3, <4>4, <4>5, RelayTargetMoves
    <3> QED BY <3>1, <3>2, <3>3
  <2> QED BY <2>1, <2>2
<1>4. CASE RequestTimesOut(e)
  <2>1. /\ relayWay[e] = "request" /\ UNCHANGED <<relayExec, relayFailed, relayEnd, relayStart, relayForward>>
        /\ relayWay' = [relayWay EXCEPT ![e] = "failed"]
    BY <1>4 DEF RequestTimesOut, Move
  <2>2. /\ f \in RelayForwards /\ relayForward' = [relayForward EXCEPT ![e] = f]
        /\ f.process = "live" => f.held /\ ~relayFailed
    BY <1>1, <2>1
  <2>3. relayWay[e] = "request" /\ ~TargetSettled(e)
    BY <2>1 DEF TargetSettled
  <2>4. /\ relayWay' = [relayWay EXCEPT ![e] = "failed"]
        /\ UNCHANGED <<relayExec, relayFailed, relayEnd, relayStart>>
    BY <2>1
  <2> HIDE DEF f
  <2> QED BY <2>2, <2>3, <2>4, RelayTargetMoves
<1>5. CASE Forwarded(e)
  <2>1. /\ relayWay[e] = "forward" /\ UNCHANGED <<relayExec, relayFailed, relayEnd, relayStart>>
        /\ \/ /\ ~relayFailed /\ relayWay' = [relayWay EXCEPT ![e] = "up"]
              /\ relayForward' = [relayForward EXCEPT ![e].process = "live", ![e].held = TRUE]
           \/ /\ relayWay' = [relayWay EXCEPT ![e] = "failed"]
              /\ relayForward' = [relayForward EXCEPT ![e].process = "killed"]
           \/ relayWay' = [relayWay EXCEPT ![e] = "failed"] /\ UNCHANGED relayForward
    BY <1>5 DEF Forwarded, Move
  <2>2. CASE /\ ~relayFailed /\ relayWay' = [relayWay EXCEPT ![e] = "up"]
             /\ relayForward' = [relayForward EXCEPT ![e].process = "live", ![e].held = TRUE]
    <3> DEFINE g == [f EXCEPT !.process = "live", !.held = TRUE]
    <3>1. /\ g \in RelayForwards /\ g.to = f.to /\ g.held
          /\ relayForward' = [relayForward EXCEPT ![e] = g]
      BY <1>1, <2>2 DEF RelayForwards
    <3>2. relayWay[e] = "forward" /\ ~TargetSettled(e) /\ g.to = e /\ ~relayFailed
      BY <1>1, <2>1, <2>2, <3>1 DEF TargetSettled
    <3>3. /\ relayWay' = [relayWay EXCEPT ![e] = "up"]
          /\ UNCHANGED <<relayExec, relayFailed, relayEnd, relayStart>>
      BY <2>1, <2>2
    <3> HIDE DEF g, f
    <3> QED BY <3>1, <3>2, <3>3, RelayTargetMoves
  <2>3. CASE /\ relayWay' = [relayWay EXCEPT ![e] = "failed"]
             /\ relayForward' = [relayForward EXCEPT ![e].process = "killed"]
    <3> DEFINE g == [f EXCEPT !.process = "killed"]
    <3>1. /\ g \in RelayForwards /\ g.to = f.to /\ g.process = "killed"
          /\ relayForward' = [relayForward EXCEPT ![e] = g]
      BY <1>1, <2>3 DEF RelayForwards
    <3>2. relayWay[e] = "forward" /\ ~TargetSettled(e)
      BY <2>1 DEF TargetSettled
    <3>3. /\ relayWay' = [relayWay EXCEPT ![e] = "failed"]
          /\ UNCHANGED <<relayExec, relayFailed, relayEnd, relayStart>>
      BY <2>1, <2>3
    <3> HIDE DEF g, f
    <3> QED BY <3>1, <3>2, <3>3, RelayTargetMoves
  <2>4. CASE relayWay' = [relayWay EXCEPT ![e] = "failed"] /\ UNCHANGED relayForward
    <3>1. /\ f \in RelayForwards /\ relayForward' = [relayForward EXCEPT ![e] = f]
          /\ f.process = "live" => f.held /\ ~relayFailed
      BY <1>1, <2>4
    <3>2. relayWay[e] = "forward" /\ ~TargetSettled(e)
      BY <2>1 DEF TargetSettled
    <3>3. /\ relayWay' = [relayWay EXCEPT ![e] = "failed"]
          /\ UNCHANGED <<relayExec, relayFailed, relayEnd, relayStart>>
      BY <2>1, <2>4
    <3> HIDE DEF f
    <3> QED BY <3>1, <3>2, <3>3, RelayTargetMoves
  <2> QED BY <2>1, <2>2, <2>3, <2>4
<1>6. CASE ForwardGone(e)
  <2>1. /\ UNCHANGED <<relayWay, relayExec, relayFailed, relayEnd, relayStart>>
        /\ relayForward' = [relayForward EXCEPT ![e].process = "gone"]
    BY <1>6 DEF ForwardGone
  <2> DEFINE g == [f EXCEPT !.process = "gone"]
  <2>2. /\ g \in RelayForwards /\ g.to = f.to /\ g.process = "gone"
        /\ relayForward' = [relayForward EXCEPT ![e] = g]
    BY <1>1, <2>1 DEF RelayForwards
  <2> DEFINE way == relayWay[e]
  <2>3. /\ way \in {"none", "startup", "request", "forward", "up", "failed"}
        /\ relayWay' = [relayWay EXCEPT ![e] = way] /\ way = relayWay[e]
        /\ way \in {"forward", "up"} => g.to = e
    BY <1>1, <2>1, <2>2
  <2> HIDE DEF f, g, way
  <2>4. way \in {"none", "startup", "request", "forward", "up", "failed"}
    BY <2>3
  <2>5. g \in RelayForwards
    BY <2>2
  <2>6. relayWay' = [relayWay EXCEPT ![e] = way] /\ relayForward' = [relayForward EXCEPT ![e] = g]
    BY <2>2, <2>3
  <2>7. UNCHANGED <<relayExec, relayFailed, relayEnd, relayStart>>
    BY <2>1
  <2>8. /\ relayWay[e] = "none" <=> way = "none"
        /\ way \in {"forward", "up"} => g.to = e
        /\ g.process = "live" => g.held /\ ~relayFailed
        /\ relayWay[e] = "startup" /\ way # "startup" => relayStart \in {"ready", "failed"}
        /\ TargetSettled(e) => way = relayWay[e]
        /\ relayForward[e].process \in {"none", "gone"} /\ TargetSettled(e) => g.process \in {"none", "gone"}
    BY <2>2, <2>3
  <2> QED BY <2>4, <2>5, <2>6, <2>7, <2>8, RelayTargetMoves
<1> QED BY <1>2, <1>3, <1>4, <1>5, <1>6

LEMMA RelayCallerKeeps ==
    ASSUME RelayInv, NEW c \in RelayCalls,
           ConnectRefused(c) \/ ConnectTo(c) \/ Served(c) \/ CallerLeaves(c)
    PROVE  RelayInv'
<1> DEFINE e == RelayTarget[c]
<1>1. RelayTypeOK /\ ForwardsLead /\ TargetsCounted /\ DisposalInTurn /\ e \in RelayEndpoints
  BY DEF RelayInv, RelayEndpoints
<1>2. CASE UNCHANGED <<relayStart, relayExec, relayFailed, relayWay, relayForward, relayEnd>>
  BY <1>2 DEF RelayInv, RelayTypeOK, ForwardsLead, TargetsCounted, DisposalInTurn, Asked, TargetSettled
<1>3. CASE ConnectTo(c) /\ ~Known(c)
  <2>1. /\ ~relayFailed /\ ~Full /\ relayWay[e] = "none" /\ relayWay' = [relayWay EXCEPT ![e] = "startup"]
        /\ relayStart' = IF relayStart = "none" THEN "select" ELSE relayStart
        /\ UNCHANGED <<relayExec, relayFailed, relayForward, relayEnd>>
    BY <1>3 DEF ConnectTo, Known
  <2> HIDE DEF e
  <2>2. /\ relayWay' \in [RelayEndpoints -> {"none", "startup", "request", "forward", "up", "failed"}]
        /\ relayWay'[e] = "startup"
        /\ \A o \in RelayEndpoints \ {e} : relayWay'[o] = relayWay[o]
    BY <1>1, <2>1 DEF RelayTypeOK
  <2>3. Asked' = Asked \cup {e} /\ e \notin Asked
    BY <1>1, <2>1, <2>2 DEF Asked
  <2>4. TargetsCounted'
    <3>1. IsFiniteSet(Asked) /\ Cardinality(Asked) \in Nat
      BY <1>1, FS_CardinalityType DEF TargetsCounted
    <3>2. IsFiniteSet(Asked') /\ Cardinality(Asked') = Cardinality(Asked) + 1
      BY <2>3, <3>1, FS_AddElement
    <3> QED BY <2>1, <3>1, <3>2, RelayBounds DEF TargetsCounted, Full
  <2>5. RelayTypeOK' /\ ForwardsLead'
    BY <1>1, <2>1, <2>2 DEF RelayTypeOK, ForwardsLead
  <2>6. DisposalInTurn'
    BY <1>1, <2>1, <2>2 DEF DisposalInTurn
  <2> QED BY <2>4, <2>5, <2>6 DEF RelayInv
<1> QED BY <1>2, <1>3 DEF ConnectRefused, ConnectTo, Served, CallerLeaves

LEMMA RelayStep == RelayInv /\ [RelayNext]_relayVars => RelayInv'
<1> SUFFICES ASSUME RelayInv, [RelayNext]_relayVars PROVE RelayInv'
  OBVIOUS
<1>1. CASE UNCHANGED relayVars
  BY <1>1 DEF relayVars, RelayInv, RelayTypeOK, ForwardsLead, TargetsCounted, DisposalInTurn, Asked,
              TargetSettled
<1> QED BY <1>1, RelayWholeKeeps, RelayTargetKeeps, RelayCallerKeeps DEF RelayNext

\* Nobody waits for a startup when the disposal is over, so there is none.
LEMMA RelayConcludes == RelayInv => RelaySound
BY DEF RelayInv, ForwardsLead, TargetsCounted, DisposalInTurn, RelaySound, TargetSettled

-----------------------------------------------------------------------------
(* Acquire.                                                                *)

AcqStages == {"racing", "discarding", "withdrawing", "published", "rejected"}
AcqRecords == [key : Keys, at : AcqStages, route : Nat, abort : {"no", "attempt", "budget"},
               open : {"opening", "ok", "retry", "fatal", "undoing", "none"},
               conn : {"none", "open", "lost", "closing", "closed"}]

AcqTypeOK ==
    /\ entry \in [Keys -> Nat]
    /\ acq \in Seq(AcqRecords)
    /\ asker \in [Askers -> [at : {"idle", "waits", "got", "failed"}, key : Keys \cup {"none"},
                             on : Nat, first : BOOLEAN]]
    /\ access \in {"open", "aborted", "closing", "closed"}
    /\ transport \in {"open", "closing", "disposed"}

\* The cache leads to an acquisition of its key, and to each that is under way.
CacheLeads ==
    /\ \A k \in Keys : entry[k] # 0 => entry[k] \in Acqs /\ acq[entry[k]].key = k
    /\ \A a \in Acqs : ~Settled(a) => entry[acq[a].key] = a

\* A connection is closed by the acquisition that opened it, or is in a race or
\* in the cache.
ConnsOwned ==
    \A a \in Acqs :
        /\ acq[a].at \in {"discarding", "withdrawing"} <=> acq[a].conn = "closing"
        /\ acq[a].conn \in {"open", "lost"} =>
              acq[a].at = "racing" \/ (acq[a].at = "published" /\ entry[acq[a].key] = a)

AskersWait ==
    \A c \in Askers : asker[c].at = "waits" =>
        asker[c].on \in Acqs /\ asker[c].key \in Keys /\ acq[asker[c].on].key = asker[c].key

\* A transport that is disposed opens nothing, an access that is closed has
\* nothing under way.
DisposedRests ==
    transport = "disposed" => /\ late = {} /\ undoing = {}
                              /\ \A a \in Acqs : acq[a].open # "opening"
ClosedRests ==
    access = "closed" =>
        /\ \A k \in Keys : entry[k] = 0
        /\ \A a \in Acqs : Settled(a) /\ acq[a].conn \in {"none", "closed"}

AcqInv == AcqTypeOK /\ CacheLeads /\ ConnsOwned /\ AskersWait /\ DisposedRests /\ ClosedRests

LEMMA AcqFresh ==
    ASSUME NEW k \in Keys
    PROVE  First(k) \in AcqRecords /\ Connected(k) \in AcqRecords
BY DEF First, Connected, AcqRecords, AcqStages

LEMMA AcqStarts == AcquireInit => AcqInv
<1> SUFFICES ASSUME AcquireInit PROVE AcqInv
  OBVIOUS
<1>1. /\ late = {} /\ undoing = {} /\ access = "open" /\ transport = "open"
      /\ asker = [c \in Askers |-> [at |-> "idle", key |-> "none", on |-> 0, first |-> FALSE]]
  BY DEF AcquireInit
<1>2. asker \in [Askers -> [at : {"idle", "waits", "got", "failed"}, key : Keys \cup {"none"},
                            on : Nat, first : BOOLEAN]]
  BY <1>1
<1>3. AskersWait
  BY <1>1 DEF AskersWait
<1>4. CASE entry = [k \in Keys |-> 0] /\ acq = << >>
  <2>1. acq \in Seq(AcqRecords) /\ Acqs = {}
    BY <1>4 DEF Acqs
  <2>2. AcqTypeOK
    BY <1>1, <1>2, <1>4, <2>1 DEF AcqTypeOK
  <2>3. CacheLeads /\ ConnsOwned /\ DisposedRests /\ ClosedRests
    BY <1>1, <1>4, <2>1 DEF CacheLeads, ConnsOwned, DisposedRests, ClosedRests
  <2> QED BY <1>3, <2>2, <2>3 DEF AcqInv
<1>5. ASSUME NEW k \in Keys, entry = [j \in Keys |-> IF j = k THEN 1 ELSE 0], acq = <<Connected(k)>>
      PROVE  AcqInv
  <2>1. Connected(k) \in AcqRecords /\ Connected(k).key = k /\ Connected(k).at = "published"
    BY AcqFresh DEF Connected, First
  <2>2. acq \in Seq(AcqRecords) /\ Acqs = {1} /\ acq[1] = Connected(k)
    BY <1>5, <2>1 DEF Acqs
  <2>3. AcqTypeOK
    BY <1>1, <1>2, <1>5, <2>2 DEF AcqTypeOK
  <2>4. /\ Connected(k).open = "ok" /\ Connected(k).conn = "open" /\ entry[k] = 1
        /\ \A j \in Keys : entry[j] # 0 => j = k
    BY <1>5 DEF Connected, First
  <2>5. CacheLeads
    BY <1>5, <2>1, <2>2, <2>4 DEF CacheLeads, Settled
  <2>6. ConnsOwned
    BY <2>1, <2>2, <2>4 DEF ConnsOwned
  <2>7. DisposedRests /\ ClosedRests
    BY <1>1 DEF DisposedRests, ClosedRests
  <2> QED BY <1>3, <2>3, <2>5, <2>6, <2>7 DEF AcqInv
<1> QED BY <1>4, <1>5, Zenon DEF AcquireInit

\* One acquisition moves on; a rejected one leaves the cache.
LEMMA AcqMoves ==
    ASSUME AcqInv, NEW a \in Acqs, NEW r \in AcqRecords,
           acq' = [acq EXCEPT ![a] = r], r.key = acq[a].key,
           UNCHANGED <<asker, access, transport>>, access # "closed",
           \/ UNCHANGED entry
           \/ r.at = "rejected" /\ entry' = [entry EXCEPT ![r.key] = 0] /\ entry[r.key] = a,
           r.at \notin {"published", "rejected"} => entry[r.key] = a,
           r.at \in {"discarding", "withdrawing"} <=> r.conn = "closing",
           r.conn \in {"open", "lost"} => r.at = "racing" \/ (r.at = "published" /\ entry[r.key] = a),
           transport = "disposed" => r.open # "opening" /\ late' = {} /\ undoing' = {}
    PROVE  AcqInv'
<1>1. AcqTypeOK /\ CacheLeads /\ ConnsOwned /\ AskersWait /\ DisposedRests
  BY DEF AcqInv
<1>2. acq \in Seq(AcqRecords) /\ entry \in [Keys -> Nat] /\ DOMAIN acq = 1..Len(acq)
  BY <1>1 DEF AcqTypeOK
<1>3. /\ acq' \in Seq(AcqRecords) /\ acq'[a] = r /\ Acqs' = Acqs
      /\ \A b \in Acqs \ {a} : acq'[b] = acq[b]
  BY <1>2 DEF Acqs
<1>4. ASSUME NEW b \in Acqs PROVE acq[b] \in AcqRecords /\ acq[b].key \in Keys
  <2>1. acq[b] \in AcqRecords
    BY <1>2 DEF Acqs
  <2> QED BY <2>1 DEF AcqRecords
<1>5. /\ entry' \in [Keys -> Nat]
      /\ \A k \in Keys : entry'[k] # entry[k] => entry'[k] = 0 /\ entry[k] = a /\ r.at = "rejected"
  BY <1>2, <1>4
<1>6. AcqTypeOK'
  BY <1>1, <1>3, <1>5 DEF AcqTypeOK
<1>7. CacheLeads'
  <2>1. ASSUME NEW k \in Keys, entry'[k] # 0 PROVE entry'[k] \in Acqs' /\ acq'[entry'[k]].key = k
    <3>1. entry'[k] = entry[k] /\ entry[k] \in Acqs /\ acq[entry[k]].key = k
      BY <1>1, <1>5, <2>1 DEF CacheLeads
    <3> QED BY <1>3, <3>1
  <2>2. ASSUME NEW b \in Acqs', ~Settled(b)' PROVE entry'[acq'[b].key] = b
    <3>1. b \in Acqs /\ acq'[b].key = acq[b].key /\ acq[b].key \in Keys
      BY <1>3, <1>4
    <3>2. entry[acq[b].key] = b
      BY <1>1, <1>3, <2>2, <3>1 DEF CacheLeads, Settled
    <3>3. b = a => r.at # "rejected"
      BY <1>3, <2>2 DEF Settled
    <3> QED BY <1>5, <3>1, <3>2, <3>3
  <2> QED BY <2>1, <2>2 DEF CacheLeads
<1>8. ConnsOwned'
  <2> SUFFICES ASSUME NEW b \in Acqs
               PROVE  /\ acq'[b].at \in {"discarding", "withdrawing"} <=> acq'[b].conn = "closing"
                      /\ acq'[b].conn \in {"open", "lost"} =>
                           acq'[b].at = "racing" \/ (acq'[b].at = "published" /\ entry'[acq'[b].key] = b)
    BY <1>3 DEF ConnsOwned
  <2>1. CASE b = a
    <3>1. acq'[b] = r /\ r.key \in Keys
      BY <1>3, <1>4, <2>1
    <3>2. r.at = "published" => entry'[r.key] = entry[r.key]
      BY <1>5, <3>1
    <3> QED BY <2>1, <3>1, <3>2
  <2>2. CASE b # a
    <3>1. acq'[b] = acq[b] /\ acq[b].key \in Keys
      BY <1>3, <1>4, <2>2
    <3>2. entry[acq[b].key] = b => entry'[acq[b].key] = b
      BY <1>5, <2>2, <3>1
    <3> QED BY <1>1, <3>1, <3>2 DEF ConnsOwned
  <2> QED BY <2>1, <2>2
<1>9. AskersWait'
  BY <1>1, <1>3 DEF AskersWait
<1>10. DisposedRests'
  BY <1>1, <1>3 DEF DisposedRests
<1>11. ClosedRests'
  BY DEF ClosedRests
<1> QED BY <1>6, <1>7, <1>8, <1>9, <1>10, <1>11 DEF AcqInv

\* What stays as it is under every step that moves one acquisition.
LEMMA AcqAt ==
    ASSUME AcqInv, NEW a \in Acqs
    PROVE  /\ acq[a] \in AcqRecords /\ acq[a].key \in Keys /\ acq \in Seq(AcqRecords)
           /\ ~Settled(a) => access # "closed" /\ entry[acq[a].key] = a
           /\ acq[a].conn = "open" => access # "closed"
           /\ transport = "disposed" => acq[a].open # "opening" /\ late = {} /\ undoing = {}
           /\ acq[a].at \in {"discarding", "withdrawing"} <=> acq[a].conn = "closing"
<1>1. acq \in Seq(AcqRecords) /\ a \in DOMAIN acq
  BY DEF AcqInv, AcqTypeOK, Acqs
<1>2. acq[a] \in AcqRecords
  BY <1>1
<1>3. acq[a].key \in Keys
  BY <1>2 DEF AcqRecords
<1> QED BY <1>1, <1>2, <1>3 DEF AcqInv, CacheLeads, ClosedRests, DisposedRests, ConnsOwned

LEMMA AttemptKeeps ==
    ASSUME AcqInv, NEW a \in Acqs, Opens(a) \/ OpenFails(a) \/ Expires(a) \/ Dies(a) \/ RaceWon(a)
    PROVE  AcqInv'
<1> DEFINE q == acq[a]
<1>1. /\ q \in AcqRecords /\ q.key \in Keys
      /\ ~Settled(a) => access # "closed" /\ entry[q.key] = a
      /\ q.conn = "open" => access # "closed"
      /\ transport = "disposed" => q.open # "opening" /\ late = {} /\ undoing = {}
      /\ q.at \in {"discarding", "withdrawing"} <=> q.conn = "closing"
      /\ q.conn \in {"open", "lost"} => q.at = "racing" \/ (q.at = "published" /\ entry[q.key] = a)
      /\ acq \in Seq(AcqRecords)
  BY AcqAt DEF AcqInv, ConnsOwned
<1>2. CASE Opens(a)
  <2>1. /\ q.at = "racing" /\ q.open = "opening" /\ UNCHANGED <<entry, late, asker, access, transport>>
        /\ \/ acq' = [acq EXCEPT ![a].open = "undoing"]
           \/ acq' = [acq EXCEPT ![a].open = "ok", ![a].conn = "open"] /\ UNCHANGED undoing
    BY <1>2 DEF Opens
  <2>2. PICK r \in AcqRecords :
          /\ acq' = [acq EXCEPT ![a] = r] /\ r.key = q.key /\ r.at = q.at /\ r.open # "opening"
          /\ r.conn \in {q.conn, "open"}
    <3>1. CASE acq' = [acq EXCEPT ![a].open = "undoing"]
      <4> DEFINE r == [q EXCEPT !.open = "undoing"]
      <4>1. r \in AcqRecords /\ r.key = q.key /\ r.at = q.at /\ r.open # "opening" /\ r.conn = q.conn
        BY <1>1 DEF AcqRecords
      <4>2. acq' = [acq EXCEPT ![a] = r]
        BY <3>1
      <4> HIDE DEF r
      <4> QED BY <4>1, <4>2
    <3>2. CASE acq' = [acq EXCEPT ![a].open = "ok", ![a].conn = "open"]
      <4> DEFINE r == [q EXCEPT !.open = "ok", !.conn = "open"]
      <4>1. r \in AcqRecords /\ r.key = q.key /\ r.at = q.at /\ r.open # "opening" /\ r.conn = "open"
        BY <1>1 DEF AcqRecords
      <4>2. acq' = [acq EXCEPT ![a] = r]
        BY <1>1, <3>2 DEF Acqs
      <4> HIDE DEF r
      <4> QED BY <4>1, <4>2
    <3> QED BY <2>1, <3>1, <3>2
  <2>3. ~Settled(a) /\ transport # "disposed"
    BY <1>1, <2>1 DEF Settled
  <2> HIDE DEF q
  <2> QED BY <1>1, <2>1, <2>2, <2>3, AcqMoves DEF q
<1>3. CASE OpenFails(a)
  <2>1. /\ q.at = "racing" /\ q.open = "opening" /\ UNCHANGED <<entry, late, undoing, asker, access, transport>>
    BY <1>3 DEF OpenFails
  <2>2. PICK why \in {"retry", "fatal"} : acq' = [acq EXCEPT ![a].open = why]
    BY <1>3 DEF OpenFails
  <2> DEFINE r == [q EXCEPT !.open = why]
  <2>3. /\ r \in AcqRecords /\ r.key = q.key /\ r.at = q.at /\ r.open # "opening" /\ r.conn = q.conn
        /\ acq' = [acq EXCEPT ![a] = r]
    BY <1>1, <2>2 DEF AcqRecords
  <2>4. ~Settled(a)
    BY <2>1 DEF Settled
  <2> HIDE DEF r, q
  <2> QED BY <1>1, <2>1, <2>3, <2>4, AcqMoves DEF q
<1>4. CASE Expires(a)
  <2>1. /\ ~Settled(a) /\ UNCHANGED <<entry, late, undoing, asker, access, transport>>
    BY <1>4 DEF Expires
  <2>2. PICK timer \in {"attempt", "budget"} : acq' = [acq EXCEPT ![a].abort = timer]
    BY <1>4 DEF Expires
  <2> DEFINE r == [q EXCEPT !.abort = timer]
  <2>3. /\ r \in AcqRecords /\ r.key = q.key /\ r.at = q.at /\ r.open = q.open /\ r.conn = q.conn
        /\ acq' = [acq EXCEPT ![a] = r]
    BY <1>1, <2>2 DEF AcqRecords
  <2> HIDE DEF r, q
  <2> QED BY <1>1, <2>1, <2>3, AcqMoves DEF q
<1>5. CASE Dies(a)
  <2>1. /\ q.at = "published" /\ q.conn = "open" /\ acq' = [acq EXCEPT ![a].conn = "lost"]
        /\ UNCHANGED <<entry, late, undoing, asker, access, transport>>
    BY <1>5 DEF Dies
  <2> DEFINE r == [q EXCEPT !.conn = "lost"]
  <2>2. /\ r \in AcqRecords /\ r.key = q.key /\ r.at = q.at /\ r.open = q.open /\ r.conn = "lost"
        /\ acq' = [acq EXCEPT ![a] = r]
    BY <1>1, <2>1 DEF AcqRecords
  <2>3. /\ r.key = acq[a].key /\ access # "closed" /\ entry[r.key] = a
        /\ r.at = "published" /\ r.conn = "lost"
        /\ transport = "disposed" => r.open # "opening" /\ late' = {} /\ undoing' = {}
    BY <1>1, <2>1, <2>2
  <2>4. UNCHANGED <<entry, asker, access, transport>>
    BY <2>1
  <2> HIDE DEF r, q
  <2> QED BY <2>2, <2>3, <2>4, AcqMoves
<1>6. CASE RaceWon(a)
  <2>1. /\ q.at = "racing" /\ UNCHANGED <<entry, late, undoing, asker, access, transport>>
        /\ \/ acq' = [acq EXCEPT ![a] = Connected(@.key)]
           \/ acq' = [acq EXCEPT ![a].conn = "closing", ![a].at = "withdrawing"]
    BY <1>6 DEF RaceWon
  <2>2. ~Settled(a) /\ q.open = "ok"
    BY <1>6, <2>1 DEF Settled, RaceWon
  <2>3. CASE acq' = [acq EXCEPT ![a] = Connected(@.key)]
    <3> DEFINE r == Connected(q.key)
    <3>1. r \in AcqRecords /\ acq' = [acq EXCEPT ![a] = r]
      BY <1>1, <2>3, AcqFresh
    <3>2. r.key = q.key /\ r.at = "published" /\ r.open = "ok" /\ r.conn = "open"
      BY DEF Connected, First
    <3> HIDE DEF r, q
    <3> QED BY <1>1, <2>1, <2>2, <3>1, <3>2, AcqMoves DEF q
  <2>4. CASE acq' = [acq EXCEPT ![a].conn = "closing", ![a].at = "withdrawing"]
    <3> DEFINE r == [q EXCEPT !.conn = "closing", !.at = "withdrawing"]
    <3>1. /\ r \in AcqRecords /\ r.key = q.key /\ r.at = "withdrawing" /\ r.open = "ok" /\ r.conn = "closing"
          /\ acq' = [acq EXCEPT ![a] = r]
      BY <1>1, <2>2, <2>4 DEF AcqRecords, AcqStages, Acqs
    <3> HIDE DEF r, q
    <3> QED BY <1>1, <2>1, <2>2, <3>1, AcqMoves DEF q
  <2> QED BY <2>1, <2>3, <2>4
<1> QED BY <1>2, <1>3, <1>4, <1>5, <1>6

\* A failed attempt, nothing of which is open any more, ends the acquisition or
\* moves it to its next route.
LEMMA FailureKeeps ==
    ASSUME AcqInv, NEW a \in Acqs, ~Settled(a), acq[a].conn # "open",
           Rejects(a) \/ AfterFailure(a), UNCHANGED <<undoing, asker, access, transport>>
    PROVE  AcqInv'
<1> DEFINE q == acq[a]
           left == [First(q.key) EXCEPT !.at = "rejected", !.open = "none", !.conn = "none"]
           next == [First(q.key) EXCEPT !.route = q.route + 1, !.conn = "none"]
<1>1. /\ q \in AcqRecords /\ q.key \in Keys /\ acq \in Seq(AcqRecords)
      /\ access # "closed" /\ entry[q.key] = a
      /\ transport = "disposed" => q.open # "opening" /\ late = {} /\ undoing = {}
  BY AcqAt
<1>2. Kept(a) = "none" /\ (Leaves(a) /\ transport = "disposed" => late' = {} /\ undoing' = {})
  BY <1>1 DEF Kept, Leaves
<1>3. CASE Rejects(a)
  <2>1. acq' = [acq EXCEPT ![a] = left]
    BY <1>2, <1>3 DEF Rejects, Acqs
  <2>2. entry' = [entry EXCEPT ![q.key] = 0] /\ Leaves(a)
    BY <1>1, <1>3 DEF Rejects
  <2>3. /\ left \in AcqRecords /\ left.key = q.key /\ left.at = "rejected" /\ left.conn = "none"
        /\ left.open = "none"
    BY <1>1 DEF First, AcqRecords, AcqStages
  <2> HIDE DEF left, q
  <2> QED BY <1>1, <1>2, <2>1, <2>2, <2>3, AcqMoves DEF q
<1>4. CASE ~Aborted(a) /\ Leaves(a) /\ UNCHANGED entry
           /\ acq' = [acq EXCEPT ![a] = [First(@.key) EXCEPT !.route = acq[a].route + 1, !.conn = Kept(a)]]
  <2>1. acq' = [acq EXCEPT ![a] = next]
    BY <1>2, <1>4 DEF Acqs
  <2>2. transport # "disposed"
    BY <1>4 DEF Aborted
  <2>3. q.route \in Nat
    BY <1>1 DEF AcqRecords
  <2>4. /\ next \in AcqRecords /\ next.key = q.key /\ next.at = "racing" /\ next.conn = "none"
    <3>1. q.route + 1 \in Nat
      BY <2>3
    <3> HIDE DEF q
    <3> QED BY <1>1, <3>1 DEF First, AcqRecords, AcqStages
  <2> HIDE DEF next, q
  <2> QED BY <1>1, <1>4, <2>1, <2>2, <2>4, AcqMoves DEF q
<1> QED BY <1>3, <1>4 DEF AfterFailure

LEMMA LossKeeps ==
    ASSUME AcqInv, NEW a \in Acqs, RaceLost(a) \/ Discarded(a)
    PROVE  AcqInv'
<1> DEFINE q == acq[a]
           r == [q EXCEPT !.conn = "closing", !.at = "discarding"]
<1>1. /\ q \in AcqRecords /\ q.key \in Keys /\ acq \in Seq(AcqRecords)
      /\ ~Settled(a) => access # "closed" /\ entry[q.key] = a
      /\ transport = "disposed" => q.open # "opening" /\ late = {} /\ undoing = {}
      /\ q.at \in {"discarding", "withdrawing"} <=> q.conn = "closing"
  BY AcqAt
<1>2. UNCHANGED <<undoing, asker, access, transport>> /\ ~Settled(a)
  BY DEF RaceLost, Discarded, Settled
<1>3. CASE Discards(a) /\ acq' = [acq EXCEPT ![a].conn = "closing", ![a].at = "discarding"]
           /\ UNCHANGED <<entry, late>>
  <2>1. /\ r \in AcqRecords /\ r.key = q.key /\ r.at = "discarding" /\ r.open = q.open /\ r.conn = "closing"
        /\ acq' = [acq EXCEPT ![a] = r]
    BY <1>1, <1>3 DEF AcqRecords, AcqStages, Acqs
  <2> HIDE DEF r, q
  <2> QED BY <1>1, <1>2, <1>3, <2>1, AcqMoves DEF q
<1>4. CASE RaceLost(a) /\ ~Discards(a) /\ AfterFailure(a)
  BY <1>2, <1>4, FailureKeeps DEF Discards
<1>5. CASE Discarded(a)
  <2>1. acq[a].conn # "open" /\ (Rejects(a) \/ AfterFailure(a))
    BY <1>1, <1>5 DEF Discarded
  <2> QED BY <1>2, <2>1, FailureKeeps
<1> QED BY <1>3, <1>4, <1>5 DEF RaceLost

\* What outlives its attempt ends by itself, before the transport rests.
LEMMA LateKeeps ==
    ASSUME AcqInv, NEW x \in late \cup undoing, LateOpen(x) \/ Undone(x)
    PROVE  AcqInv'
<1>1. UNCHANGED <<entry, acq, asker, access, transport>> /\ transport # "disposed"
  BY DEF LateOpen, Undone, AcqInv, DisposedRests
<1> QED BY <1>1 DEF AcqInv, AcqTypeOK, CacheLeads, ConnsOwned, AskersWait, DisposedRests, ClosedRests,
                    Acqs, Settled

\* A call is refused, waits for what the cache holds, or starts an acquisition
\* after a lost connection has been retired.
LEMMA ConnectsKeep ==
    ASSUME AcqInv, NEW c \in Askers, NEW k \in Keys, NEW shared, NEW acqs, Connects(c, k, shared, acqs),
           \/ shared = entry[k] /\ acqs = acq
           \/ /\ shared = 0 /\ entry[k] # 0 /\ acq[entry[k]].at = "published"
              /\ acqs = [acq EXCEPT ![entry[k]].conn = "closed"],
           UNCHANGED <<late, undoing, access, transport>>
    PROVE  AcqInv'
<1> DEFINE e == [entry EXCEPT ![k] = shared]
<1>1. AcqTypeOK /\ CacheLeads /\ ConnsOwned /\ AskersWait /\ DisposedRests /\ ClosedRests
  BY DEF AcqInv
<1>2. /\ acq \in Seq(AcqRecords) /\ entry \in [Keys -> Nat] /\ Acqs = 1..Len(acq) /\ Len(acq) \in Nat
      /\ \A b \in Acqs : acq[b] \in AcqRecords
  BY <1>1 DEF AcqTypeOK, Acqs
<1>3. ASSUME NEW b \in Acqs PROVE acq[b].key \in Keys
  BY <1>2 DEF AcqRecords
<1>4. /\ acqs \in Seq(AcqRecords) /\ DOMAIN acqs = Acqs /\ Len(acqs) = Len(acq)
      /\ \A b \in Acqs : /\ acqs[b].key = acq[b].key /\ acqs[b].at = acq[b].at /\ acqs[b].open = acq[b].open
                         /\ \/ acqs[b].conn = acq[b].conn /\ (b = entry[k] => shared = b)
                            \/ acqs[b].conn = "closed" /\ acq[b].at = "published"
  <2>1. CASE shared = entry[k] /\ acqs = acq
    BY <1>2, <2>1 DEF Acqs
  <2>2. CASE /\ shared = 0 /\ entry[k] # 0 /\ acq[entry[k]].at = "published"
             /\ acqs = [acq EXCEPT ![entry[k]].conn = "closed"]
    <3> DEFINE f == entry[k]
               r == [acq[f] EXCEPT !.conn = "closed"]
    <3>1. f \in Acqs /\ acq[f] \in AcqRecords /\ acq[f].at = "published"
      BY <1>1, <1>2, <2>2 DEF CacheLeads
    <3>2. r \in AcqRecords /\ r.key = acq[f].key /\ r.at = acq[f].at /\ r.open = acq[f].open
          /\ r.conn = "closed"
      BY <3>1 DEF AcqRecords
    <3>3. acqs = [acq EXCEPT ![f] = r]
      BY <2>2
    <3> HIDE DEF r, f
    <3>4. acqs \in Seq(AcqRecords) /\ DOMAIN acqs = Acqs /\ Len(acqs) = Len(acq)
          /\ acqs[f] = r /\ \A b \in Acqs \ {f} : acqs[b] = acq[b]
      BY <1>2, <3>1, <3>2, <3>3
    <3> QED BY <1>2, <3>1, <3>2, <3>4 DEF f
  <2> QED BY <2>1, <2>2
<1>5. e \in [Keys -> Nat] /\ \A j \in Keys : e[j] # 0 => e[j] = entry[j]
  BY <1>2
<1>6. \A b \in Acqs : acq[b].at \notin {"published", "rejected"} => e[acq[b].key] = b
  <2> SUFFICES ASSUME NEW b \in Acqs, acq[b].at \notin {"published", "rejected"} PROVE e[acq[b].key] = b
    OBVIOUS
  <2>1. entry[acq[b].key] = b /\ acq[b].key \in Keys
    BY <1>1, <1>3 DEF CacheLeads, Settled
  <2>2. acq[b].key = k => shared = b
    BY <2>1
  <2> QED BY <1>2, <2>1, <2>2
<1>7. \A b \in Acqs :
        /\ acqs[b].at \in {"discarding", "withdrawing"} <=> acqs[b].conn = "closing"
        /\ acqs[b].conn \in {"open", "lost"} =>
             acqs[b].at = "racing" \/ (acqs[b].at = "published" /\ e[acqs[b].key] = b)
  <2> SUFFICES ASSUME NEW b \in Acqs
               PROVE  /\ acqs[b].at \in {"discarding", "withdrawing"} <=> acqs[b].conn = "closing"
                      /\ acqs[b].conn \in {"open", "lost"} =>
                           acqs[b].at = "racing" \/ (acqs[b].at = "published" /\ e[acqs[b].key] = b)
    OBVIOUS
  <2>1. acq[b].key \in Keys /\ (entry[acq[b].key] = b /\ (b = entry[k] => shared = b) => e[acq[b].key] = b)
    BY <1>2, <1>3
  <2>2. /\ acqs[b].key = acq[b].key /\ acqs[b].at = acq[b].at
        /\ \/ acqs[b].conn = acq[b].conn /\ (b = entry[k] => shared = b)
           \/ acqs[b].conn = "closed" /\ acq[b].at = "published"
    BY <1>4, Zenon
  <2> HIDE DEF e
  <2> QED BY <1>1, <2>1, <2>2 DEF ConnsOwned
<1> HIDE DEF e
<1>8. CASE entry' = e /\ acq' = acqs
           /\ (asker' = [asker EXCEPT ![c].at = "failed"]
               \/ (shared \in Acqs /\ acq[shared].key = k
                   /\ asker' = [asker EXCEPT ![c] = [at |-> "waits", key |-> k, on |-> shared, first |-> FALSE]]))
  <2>1. Acqs' = Acqs
    BY <1>4, <1>8 DEF Acqs
  <2>2. asker' \in [Askers -> [at : {"idle", "waits", "got", "failed"}, key : Keys \cup {"none"},
                               on : Nat, first : BOOLEAN]]
    <3> DEFINE failed == [asker[c] EXCEPT !.at = "failed"]
    <3>1. CASE asker' = [asker EXCEPT ![c].at = "failed"]
      <4>1. asker[c] \in [at : {"idle", "waits", "got", "failed"}, key : Keys \cup {"none"},
                          on : Nat, first : BOOLEAN]
        BY <1>1 DEF AcqTypeOK
      <4>2. failed \in [at : {"idle", "waits", "got", "failed"}, key : Keys \cup {"none"},
                        on : Nat, first : BOOLEAN]
        BY <4>1
      <4>3. asker' = [asker EXCEPT ![c] = failed]
        BY <3>1
      <4> HIDE DEF failed
      <4> QED BY <1>1, <4>2, <4>3 DEF AcqTypeOK
    <3> DEFINE waiting == [at |-> "waits", key |-> k, on |-> shared, first |-> FALSE]
    <3>2. CASE shared \in Acqs /\ asker' = [asker EXCEPT ![c] = waiting]
      <4>1. waiting \in [at : {"idle", "waits", "got", "failed"}, key : Keys \cup {"none"},
                         on : Nat, first : BOOLEAN]
        BY <1>2, <3>2
      <4> HIDE DEF waiting
      <4> QED BY <1>1, <3>2, <4>1 DEF AcqTypeOK
    <3> QED BY <1>8, <3>1, <3>2
  <2>3. AcqTypeOK'
    BY <1>1, <1>4, <1>5, <1>8, <2>2 DEF AcqTypeOK
  <2>4. CacheLeads'
    <3>1. ASSUME NEW j \in Keys, e[j] # 0 PROVE e[j] \in Acqs /\ acqs[e[j]].key = j
      <4>1. e[j] = entry[j] /\ entry[j] \in Acqs /\ acq[entry[j]].key = j
        BY <1>1, <1>5, <3>1 DEF CacheLeads
      <4> QED BY <1>4, <4>1
    <3>2. ASSUME NEW b \in Acqs, acqs[b].at \notin {"published", "rejected"} PROVE e[acqs[b].key] = b
      BY <1>4, <1>6, <3>2
    <3> QED BY <1>8, <2>1, <3>1, <3>2 DEF CacheLeads, Settled
  <2>5. ConnsOwned'
    BY <1>7, <1>8, <2>1 DEF ConnsOwned
  <2>6. AskersWait'
    <3> SUFFICES ASSUME NEW d \in Askers, asker'[d].at = "waits"
                 PROVE  asker'[d].on \in Acqs /\ asker'[d].key \in Keys /\ acqs[asker'[d].on].key = asker'[d].key
      BY <1>8, <2>1 DEF AskersWait
    <3>1. CASE asker'[d] = asker[d]
      BY <1>1, <1>4, <3>1 DEF AskersWait
    <3>2. CASE asker'[d] # asker[d]
      BY <1>1, <1>4, <1>8, <3>2 DEF AcqTypeOK
    <3> QED BY <3>1, <3>2
  <2>7. DisposedRests'
    BY <1>1, <1>4, <1>8, <2>1 DEF DisposedRests
  <2>8. ClosedRests'
    <3> SUFFICES ASSUME access = "closed"
                 PROVE  /\ \A j \in Keys : e[j] = 0
                        /\ \A b \in Acqs : acqs[b].at \in {"published", "rejected"} /\ acqs[b].conn \in {"none", "closed"}
      BY <1>8, <2>1 DEF ClosedRests, Settled
    <3>1. \A j \in Keys : entry[j] = 0
      BY <1>1 DEF ClosedRests
    <3>2. \A b \in Acqs : acq[b].at \in {"published", "rejected"} /\ acq[b].conn \in {"none", "closed"}
      BY <1>1 DEF ClosedRests, Settled
    <3> QED BY <1>4, <1>5, <3>1, <3>2
  <2> QED BY <2>3, <2>4, <2>5, <2>6, <2>7, <2>8 DEF AcqInv
<1>9. CASE /\ ~AccessAborted /\ shared = 0 /\ transport = "open" /\ acq' = Append(acqs, First(k))
           /\ asker' = [asker EXCEPT ![c] = [at |-> "waits", key |-> k, on |-> Len(acq'), first |-> TRUE]]
           /\ entry' = [entry EXCEPT ![k] = Len(acq')]
  <2> DEFINE n == Len(acq) + 1
  <2>1. /\ acq' \in Seq(AcqRecords) /\ Len(acq') = n /\ Acqs' = Acqs \cup {n} /\ n \notin Acqs /\ n # 0 /\ n \in Nat
        /\ acq'[n] = First(k) /\ \A b \in Acqs : acq'[b] = acqs[b]
    BY <1>2, <1>4, <1>9, AcqFresh DEF Acqs
  <2>2. First(k).key = k /\ First(k).at = "racing" /\ First(k).conn = "none"
    BY DEF First
  <2>3. /\ entry' \in [Keys -> Nat] /\ entry'[k] = n /\ e[k] = 0
        /\ \A j \in Keys \ {k} : entry'[j] = entry[j] /\ e[j] = entry[j]
    BY <1>2, <1>9, <2>1 DEF e
  <2>4. /\ asker' \in [Askers -> [at : {"idle", "waits", "got", "failed"}, key : Keys \cup {"none"},
                                  on : Nat, first : BOOLEAN]]
        /\ asker'[c].on = n /\ asker'[c].key = k /\ \A d \in Askers \ {c} : asker'[d] = asker[d]
    BY <1>1, <1>9, <2>1 DEF AcqTypeOK
  <2>5. access # "closed" /\ transport # "disposed"
    BY <1>9 DEF AccessAborted
  <2> HIDE DEF n
  <2>6. AcqTypeOK'
    BY <1>1, <2>1, <2>3, <2>4 DEF AcqTypeOK
  <2>7. CacheLeads'
    <3>1. ASSUME NEW j \in Keys, entry'[j] # 0 PROVE entry'[j] \in Acqs' /\ acq'[entry'[j]].key = j
      <4>1. CASE j = k
        BY <2>1, <2>2, <2>3, <4>1
      <4>2. CASE j # k
        <5>1. entry'[j] = entry[j] /\ entry[j] \in Acqs /\ acq[entry[j]].key = j
          BY <1>1, <2>3, <3>1, <4>2 DEF CacheLeads
        <5> QED BY <1>4, <2>1, <5>1
      <4> QED BY <4>1, <4>2
    <3>2. ASSUME NEW b \in Acqs', ~Settled(b)' PROVE entry'[acq'[b].key] = b
      <4>1. CASE b = n
        BY <2>1, <2>2, <2>3, <4>1
      <4>2. CASE b # n
        <5>1. b \in Acqs /\ acq'[b].key = acq[b].key /\ acq[b].key \in Keys
              /\ acq[b].at \notin {"published", "rejected"}
          BY <1>3, <1>4, <2>1, <3>2, <4>2 DEF Settled
        <5>2. e[acq[b].key] = b /\ b # 0
          BY <1>2, <1>6, <5>1
        <5> QED BY <2>3, <5>1, <5>2
      <4> QED BY <4>1, <4>2
    <3> QED BY <3>1, <3>2 DEF CacheLeads
  <2>8. ConnsOwned'
    <3> SUFFICES ASSUME NEW b \in Acqs'
                 PROVE  /\ acq'[b].at \in {"discarding", "withdrawing"} <=> acq'[b].conn = "closing"
                        /\ acq'[b].conn \in {"open", "lost"} =>
                             acq'[b].at = "racing" \/ (acq'[b].at = "published" /\ entry'[acq'[b].key] = b)
      BY DEF ConnsOwned
    <3>1. CASE b = n
      BY <2>1, <2>2, <3>1
    <3>2. CASE b # n
      <4>1. b \in Acqs /\ acq'[b] = acqs[b] /\ acqs[b].key \in Keys /\ b # 0
        BY <1>2, <1>3, <1>4, <2>1, <3>2
      <4>2. e[acqs[b].key] = b => entry'[acqs[b].key] = b
        BY <2>3, <4>1
      <4> QED BY <1>7, <4>1, <4>2
    <3> QED BY <3>1, <3>2
  <2>9. AskersWait'
    <3> SUFFICES ASSUME NEW d \in Askers, asker'[d].at = "waits"
                 PROVE  asker'[d].on \in Acqs' /\ asker'[d].key \in Keys /\ acq'[asker'[d].on].key = asker'[d].key
      BY DEF AskersWait
    <3>1. CASE d = c
      BY <2>1, <2>2, <2>4, <3>1
    <3>2. CASE d # c
      <4>1. asker'[d] = asker[d] /\ asker[d].on \in Acqs /\ asker[d].key \in Keys
            /\ acq[asker[d].on].key = asker[d].key
        BY <1>1, <2>4, <3>2 DEF AskersWait
      <4> QED BY <1>4, <2>1, <4>1
    <3> QED BY <3>1, <3>2
  <2>10. DisposedRests' /\ ClosedRests'
    BY <2>5 DEF DisposedRests, ClosedRests
  <2> QED BY <2>6, <2>7, <2>8, <2>9, <2>10 DEF AcqInv
<1>10. \/ entry' = e /\ acq' = acqs /\ asker' = [asker EXCEPT ![c].at = "failed"]
       \/ /\ ~AccessAborted /\ shared # 0 /\ acq' = acqs /\ UNCHANGED entry
          /\ asker' = [asker EXCEPT ![c] = [at |-> "waits", key |-> k, on |-> shared, first |-> FALSE]]
       \/ /\ ~AccessAborted /\ shared = 0 /\ transport = "open" /\ acq' = Append(acqs, First(k))
          /\ asker' = [asker EXCEPT ![c] = [at |-> "waits", key |-> k, on |-> Len(acq'), first |-> TRUE]]
          /\ entry' = [entry EXCEPT ![k] = Len(acq')]
  BY Zenon DEF Connects, e
<1>11. shared # 0 => e = entry /\ shared \in Acqs /\ acq[shared].key = k
  BY <1>1, <1>2 DEF CacheLeads, e
<1> QED BY <1>8, <1>9, <1>10, <1>11

LEMMA AskerKeeps ==
    ASSUME AcqInv, NEW c \in Askers, Answered(c) \/ \E k \in Keys : CallConnection(c, k)
    PROVE  AcqInv'
<1>1. CASE \E k \in Keys : CallConnection(c, k)
  <2>1. PICK k \in Keys : /\ Connects(c, k, entry[k], acq)
                          /\ UNCHANGED <<late, undoing, access, transport>>
    BY <1>1 DEF CallConnection
  <2> QED BY <2>1, ConnectsKeep
<1>2. CASE Answered(c)
  <2> DEFINE a == asker[c].on
             k == asker[c].key
  <2>1. k \in Keys /\ asker[c].at = "waits" /\ UNCHANGED <<late, undoing, access, transport>> /\ a \in Acqs
    BY <1>2 DEF Answered, AcqInv, AskersWait
  <2>2. \/ \E how \in {"got", "failed"} : asker' = [asker EXCEPT ![c].at = how] /\ UNCHANGED <<entry, acq>>
        \/ /\ acq[a].at = "published"
           /\ \/ entry[k] = a /\ Connects(c, k, 0, [acq EXCEPT ![a].conn = "closed"])
              \/ Connects(c, k, entry[k], acq)
    BY <1>2 DEF Answered
  <2>3. ASSUME NEW how \in {"got", "failed"}, asker' = [asker EXCEPT ![c].at = how], UNCHANGED <<entry, acq>>
        PROVE  AcqInv'
    <3>1. AskersWait'
      BY <2>3 DEF AcqInv, AcqTypeOK, AskersWait, Acqs
    <3>2. AcqTypeOK'
      BY <2>1, <2>3 DEF AcqInv, AcqTypeOK
    <3> QED BY <2>1, <2>3, <3>1, <3>2 DEF AcqInv, CacheLeads, ConnsOwned, DisposedRests, ClosedRests,
                                          Acqs, Settled
  <2>4. CASE acq[a].at = "published" /\ entry[k] = a /\ Connects(c, k, 0, [acq EXCEPT ![a].conn = "closed"])
    <3>1. a # 0
      BY <2>1 DEF Acqs, AcqInv, AcqTypeOK
    <3>2. Connects(c, k, 0, [acq EXCEPT ![entry[k]].conn = "closed"]) /\ entry[k] # 0
          /\ acq[entry[k]].at = "published"
      BY <2>4, <3>1
    <3> HIDE DEF a, k
    <3> QED BY <2>1, <3>2, ConnectsKeep
  <2>5. CASE Connects(c, k, entry[k], acq)
    <3> HIDE DEF a, k
    <3> QED BY <2>1, <2>5, ConnectsKeep
  <2> QED BY <2>2, <2>3, <2>4, <2>5
<1> QED BY <1>1, <1>2

\* The access and the transport end, each at its own time.
LEMMA EndsKeep ==
    ASSUME AcqInv, OwnerAborts \/ AccessCloses \/ AccessClosed \/ DisposeBegins \/ DisposeEnds
    PROVE  AcqInv'
<1>1. CASE OwnerAborts \/ AccessCloses \/ DisposeBegins \/ DisposeEnds
  <2>1. /\ UNCHANGED <<entry, acq, asker, late, undoing>>
        /\ access' # access => access' \in {"aborted", "closing"}
        /\ access' \in {"open", "aborted", "closing", "closed"}
        /\ transport' \in {"open", "closing", "disposed"}
        /\ transport' = "disposed" => transport' = transport \/ DisposeEnds
    BY <1>1 DEF OwnerAborts, AccessCloses, DisposeBegins, DisposeEnds, AcqInv, AcqTypeOK
  <2>2. DisposedRests'
    BY <2>1 DEF AcqInv, DisposedRests, DisposeEnds, Acqs
  <2>3. ClosedRests'
    BY <2>1 DEF AcqInv, ClosedRests, Acqs, Settled
  <2> QED BY <2>1, <2>2, <2>3 DEF AcqInv, AcqTypeOK, CacheLeads, ConnsOwned, AskersWait, Acqs, Settled
<1>2. CASE AccessClosed
  <2> DEFINE inCache == {entry[k] : k \in Keys} \ {0}
             shut(a) == IF a \in inCache THEN [acq[a] EXCEPT !.conn = "closed"] ELSE acq[a]
  <2>1. /\ \A a \in inCache : Settled(a)
        /\ access' = "closed" /\ entry' = [k \in Keys |-> 0] /\ acq' = [a \in Acqs |-> shut(a)]
        /\ UNCHANGED <<late, undoing, asker, transport>>
    BY <1>2 DEF AccessClosed
  <2>2. acq \in Seq(AcqRecords) /\ Acqs = 1..Len(acq) /\ Len(acq) \in Nat
    BY DEF AcqInv, AcqTypeOK, Acqs
  <2>3. ASSUME NEW a \in Acqs
        PROVE  /\ shut(a) \in AcqRecords /\ shut(a).key = acq[a].key /\ shut(a).at = acq[a].at
               /\ shut(a).open = acq[a].open /\ shut(a).conn \in {"none", "closed"} /\ Settled(a)
    <3>1. acq[a] \in AcqRecords
      BY <2>2
    <3>2. acq[a].key \in Keys
      BY <3>1 DEF AcqRecords
    <3>3. a # 0 /\ (entry[acq[a].key] = a => a \in inCache)
      BY <2>2, <3>2
    <3>4. Settled(a)
      BY <2>1, <3>3 DEF AcqInv, CacheLeads
    <3>5. a \notin inCache => acq[a].conn \in {"none", "closed"}
      BY <3>1, <3>3, <3>4 DEF AcqInv, ConnsOwned, AcqRecords, Settled
    <3>6. [acq[a] EXCEPT !.conn = "closed"] \in AcqRecords
      BY <3>1 DEF AcqRecords
    <3>7. CASE a \in inCache
      <4>1. shut(a) = [acq[a] EXCEPT !.conn = "closed"]
        BY <3>7
      <4> QED BY <3>1, <3>4, <3>6, <4>1 DEF AcqRecords
    <3>8. CASE a \notin inCache
      <4>1. shut(a) = acq[a]
        BY <3>8
      <4> QED BY <3>1, <3>4, <3>5, <3>8, <4>1
    <3> QED BY <3>7, <3>8
  <2> HIDE DEF shut, inCache
  <2>4. /\ acq' \in Seq(AcqRecords) /\ Acqs' = Acqs /\ \A a \in Acqs : acq'[a] = shut(a)
    <3>1. DOMAIN acq' = 1..Len(acq) /\ \A i \in 1..Len(acq) : acq'[i] \in AcqRecords
      BY <2>1, <2>2, <2>3
    <3>2. acq' \in [1..Len(acq) -> AcqRecords]
      BY <2>1, <2>2, <2>3
    <3>3. acq' \in Seq(AcqRecords)
      BY <2>2, <3>2, SeqDef
    <3> QED BY <2>1, <2>2, <3>1, <3>3 DEF Acqs
  <2>5. entry' \in [Keys -> Nat] /\ \A k \in Keys : entry'[k] = 0
    BY <2>1
  <2>6. AcqTypeOK'
    BY <2>1, <2>4, <2>5 DEF AcqInv, AcqTypeOK
  <2>7. \A a \in Acqs : /\ acq'[a].key = acq[a].key /\ acq'[a].at = acq[a].at /\ acq'[a].open = acq[a].open
                        /\ acq'[a].conn \in {"none", "closed"} /\ acq[a].at \in {"published", "rejected"}
    BY <2>3, <2>4 DEF Settled
  <2>8. CacheLeads' /\ ConnsOwned'
    BY <2>4, <2>5, <2>7 DEF CacheLeads, ConnsOwned, Settled
  <2>9. AskersWait'
    BY <2>1, <2>4, <2>7 DEF AcqInv, AskersWait
  <2>10. DisposedRests'
    BY <2>1, <2>4, <2>7 DEF AcqInv, DisposedRests
  <2>11. ClosedRests'
    BY <2>4, <2>5, <2>7 DEF ClosedRests, Settled
  <2> QED BY <2>6, <2>8, <2>9, <2>10, <2>11 DEF AcqInv
<1> QED BY <1>1, <1>2

LEMMA AcqStep == AcqInv /\ [AcquireNext]_acquireVars => AcqInv'
<1> SUFFICES ASSUME AcqInv, [AcquireNext]_acquireVars PROVE AcqInv'
  OBVIOUS
<1>1. CASE UNCHANGED acquireVars
  BY <1>1 DEF acquireVars, AcqInv, AcqTypeOK, CacheLeads, ConnsOwned, AskersWait, DisposedRests,
              ClosedRests, Acqs, Settled
<1>2. ASSUME NEW a \in Acqs, \/ Opens(a) \/ OpenFails(a) \/ Expires(a) \/ RaceLost(a) \/ RaceWon(a)
                             \/ Discarded(a) \/ Dies(a)
      PROVE  AcqInv'
  BY <1>2, AttemptKeeps, LossKeeps
<1>3. ASSUME NEW x \in late \cup undoing, LateOpen(x) \/ Undone(x) PROVE AcqInv'
  BY <1>3, LateKeeps
<1>4. ASSUME NEW c \in Askers, Answered(c) \/ \E k \in Keys : CallConnection(c, k) PROVE AcqInv'
  BY <1>4, AskerKeeps
<1>5. CASE OwnerAborts \/ AccessCloses \/ AccessClosed \/ DisposeBegins \/ DisposeEnds
  BY <1>5, EndsKeep
<1> QED BY <1>1, <1>2, <1>3, <1>4, <1>5 DEF AcquireNext

LEMMA AcqConcludes == AcqInv => ConnectionsSound
BY DEF AcqInv, ConnsOwned, DisposedRests, ClosedRests, ConnectionsSound, ConnectionsOwned, DisposalIsComplete

-----------------------------------------------------------------------------
(* KubeClient.                                                             *)

PodSpec == PodInit /\ [][PodNext]_podVars

PodPlaces == {"new", "slot", "before", "act", "after", "poll", "returned", "failed"}
Healths == {"starting", "ready", "deleting"}

PodTypeOK ==
    /\ pod \in {0, last} /\ last \in Nat \ {0} /\ health \in Healths
    /\ stepOf \in [Calls -> PodPlaces]
    /\ touched \in [Calls -> Nat] /\ tunnels \in [Calls -> Nat]
    /\ found \in [Calls -> [uid : Nat, health : {"none"} \cup Healths]]
    /\ shutdown \in {"none", "cancels", "closes", "done"}

\* A call is where its kind may be, and a wait has the answer of its kind.
PlacesFit ==
    \A c \in Calls :
        /\ stepOf[c] = "slot" => Slotted(c)
        /\ stepOf[c] \in {"before", "act", "after"} => Kind[c] \in {"exec", "logs", "forward"}
        /\ stepOf[c] = "poll" => Kind[c] \notin {"exec", "logs", "forward"}
        /\ stepOf[c] = "returned" /\ Kind[c] = "ready" => found[c] = [uid |-> Ref, health |-> "ready"]
        /\ stepOf[c] = "returned" /\ Kind[c] = "deleted" => pod # Ref
        /\ stepOf[c] = "returned" /\ Kind[c] = "replaced" => found[c].uid > Ref

\* What a call reached under the name is the instance it named, or that one has
\* gone for good since, which the second look at the identity tells.
TouchedTheNamed ==
    \A c \in Calls :
        /\ stepOf[c] = "after" => touched[c] = Ref \/ pod # Ref
        /\ stepOf[c] = "returned" /\ Kind[c] \in {"exec", "logs", "forward"} => touched[c] = Ref
        /\ Kind[c] = "delete" => touched[c] \in {0, Ref}

\* A tunnel belongs to a port_forward that is about to return it or has.
TunnelsHeld ==
    /\ \A c \in Calls : tunnels[c] # 0 => Kind[c] = "forward" /\ stepOf[c] \in {"after", "returned"}
    /\ shutdown \in {"closes", "done"} =>
         \A c \in Calls : tunnels[c] = 0 /\ (Tracked(c) => stepOf[c] \in Ended \cup {"new"})

SlotsCounted == IsFiniteSet(Executing) /\ Cardinality(Executing) <= ExecSlots

PodInv == PodTypeOK /\ PlacesFit /\ TouchedTheNamed /\ TunnelsHeld /\ SlotsCounted

LEMMA PodStarts == PodInit => PodInv
<1> SUFFICES ASSUME PodInit PROVE PodInv
  OBVIOUS
<1>1. PodTypeOK
  BY DEF PodInit, PodTypeOK, PodPlaces, Healths, Ref
<1>2. PlacesFit /\ TouchedTheNamed /\ TunnelsHeld
  BY DEF PodInit, PlacesFit, TouchedTheNamed, TunnelsHeld
<1>3. Executing = {}
  BY DEF PodInit, Executing
<1>4. SlotsCounted
  BY <1>3, FS_EmptySet, KubeBounds DEF SlotsCounted
<1> QED BY <1>1, <1>2, <1>4 DEF PodInv

\* Calls that leave a slot, or never enter one, do not add to those that run.
LEMMA SlotsShrink ==
    ASSUME SlotsCounted, Executing' \subseteq Executing
    PROVE  SlotsCounted'
<1>1. IsFiniteSet(Executing') /\ Cardinality(Executing') <= Cardinality(Executing)
  BY FS_Subset DEF SlotsCounted
<1>2. Cardinality(Executing) \in Nat /\ Cardinality(Executing') \in Nat
  BY <1>1, FS_CardinalityType DEF SlotsCounted
<1> QED BY <1>1, <1>2, KubeBounds DEF SlotsCounted

\* The name never leads to its first instance again.
LEMMA ClusterKeeps ==
    ASSUME PodInv, ClusterMoves
    PROVE  PodInv'
<1>1. UNCHANGED <<stepOf, touched, found, tunnels, shutdown>> /\ PodTypeOK
  BY DEF ClusterMoves, call, PodInv
<1>2. /\ pod' \in {0, last'} /\ last' \in Nat \ {0} /\ health' \in Healths
      /\ pod # Ref => pod' # Ref
  BY <1>1 DEF ClusterMoves, PodTypeOK, Healths, Ref
<1>3. PodTypeOK'
  BY <1>1, <1>2 DEF PodTypeOK
<1>4. PlacesFit' /\ TouchedTheNamed'
  BY <1>1, <1>2 DEF PodInv, PlacesFit, TouchedTheNamed, Slotted
<1>5. TunnelsHeld'
  BY <1>1 DEF PodInv, TunnelsHeld, Tracked
<1>6. SlotsCounted'
  BY <1>1, SlotsShrink DEF PodInv, Executing
<1> QED BY <1>3, <1>4, <1>5, <1>6 DEF PodInv

\* One call moves to a place where its kind may be; what it reached, the tunnel it
\* holds and the answer it has are as that place demands.
Goes(c, s, t, n, f) ==
    /\ stepOf' = [stepOf EXCEPT ![c] = s] /\ touched' = [touched EXCEPT ![c] = t]
    /\ tunnels' = [tunnels EXCEPT ![c] = n] /\ found' = [found EXCEPT ![c] = f]
    /\ UNCHANGED <<pod, last, shutdown>> /\ health' \in Healths
MayGo(c, s, t, n, f) ==
    /\ s \in PodPlaces /\ t \in Nat /\ n \in Nat /\ f \in [uid : Nat, health : {"none"} \cup Healths]
    /\ s = "slot" => Slotted(c)
    /\ s \in {"before", "act", "after"} =>
          Kind[c] \in {"exec", "logs", "forward"} /\ (Slotted(c) => c \in Executing)
    /\ s = "poll" => Kind[c] \notin {"exec", "logs", "forward"}
    /\ s = "returned" /\ Kind[c] = "ready" => f = [uid |-> Ref, health |-> "ready"]
    /\ s = "returned" /\ Kind[c] = "deleted" => pod # Ref
    /\ s = "returned" /\ Kind[c] = "replaced" => f.uid > Ref
    /\ s = "after" => t = Ref \/ pod # Ref
    /\ s = "returned" /\ Kind[c] \in {"exec", "logs", "forward"} => t = Ref
    /\ Kind[c] = "delete" => t \in {0, Ref}
    /\ n # 0 => Kind[c] = "forward" /\ s \in {"after", "returned"}
    /\ shutdown \in {"closes", "done"} => n = 0 /\ (Tracked(c) => s \in Ended)

LEMMA CallMoves ==
    ASSUME PodInv, NEW c \in Calls, NEW s, NEW t, NEW n, NEW f, Goes(c, s, t, n, f), MayGo(c, s, t, n, f)
    PROVE  PodInv'
<1> USE DEF Goes, MayGo
<1>1. PodTypeOK
  BY DEF PodInv
<1>2. /\ stepOf'[c] = s /\ touched'[c] = t /\ tunnels'[c] = n /\ found'[c] = f
      /\ \A d \in Calls \ {c} : /\ stepOf'[d] = stepOf[d] /\ touched'[d] = touched[d]
                                /\ tunnels'[d] = tunnels[d] /\ found'[d] = found[d]
  BY <1>1 DEF PodTypeOK
<1>3. PodTypeOK'
  BY <1>1 DEF PodTypeOK
<1>4. PlacesFit'
  BY <1>2 DEF PodInv, PlacesFit, Slotted
<1>5. TouchedTheNamed'
  BY <1>2 DEF PodInv, TouchedTheNamed
<1>6. TunnelsHeld'
  BY <1>2 DEF PodInv, TunnelsHeld, Tracked
<1>7. Executing' \subseteq Executing
  <2> SUFFICES ASSUME NEW d \in Executing' PROVE d \in Executing
    OBVIOUS
  <2>1. CASE d = c
    BY <1>2, <2>1 DEF Executing, Slotted
  <2>2. CASE d # c
    BY <1>2, <2>2 DEF Executing, Slotted
  <2> QED BY <2>1, <2>2
<1>8. SlotsCounted'
  BY <1>7, SlotsShrink DEF PodInv
<1> QED BY <1>3, <1>4, <1>5, <1>6, <1>8 DEF PodInv

\* The same for a call that keeps what it has.
LEMMA CallPasses ==
    ASSUME PodInv, NEW c \in Calls, NEW s \in PodPlaces \ {"slot", "poll", "after", "returned"}, To(c, s),
           UNCHANGED <<pod, last, shutdown, health, touched, found>>,
           tunnels' = [tunnels EXCEPT ![c] = 0],
           s \in {"before", "act"} =>
              Kind[c] \in {"exec", "logs", "forward"} /\ (Slotted(c) => c \in Executing),
           shutdown \in {"closes", "done"} => (Tracked(c) => s \in Ended)
    PROVE  PodInv'
<1>1. /\ stepOf' = [stepOf EXCEPT ![c] = s] /\ touched' = [touched EXCEPT ![c] = touched[c]]
      /\ found' = [found EXCEPT ![c] = found[c]] /\ health' \in Healths
      /\ touched[c] \in Nat /\ found[c] \in [uid : Nat, health : {"none"} \cup Healths]
      /\ Kind[c] = "delete" => touched[c] \in {0, Ref}
  BY DEF To, PodInv, PodTypeOK, TouchedTheNamed
<1>2. s \in PodPlaces /\ s \notin {"slot", "poll", "after", "returned"} /\ 0 \in Nat
  OBVIOUS
<1>3. Goes(c, s, touched[c], 0, found[c])
  BY <1>1 DEF Goes
<1>4. MayGo(c, s, touched[c], 0, found[c])
  BY <1>1, <1>2 DEF MayGo
<1> QED BY <1>3, <1>4, CallMoves

LEMMA Untouched ==
    ASSUME PodInv, NEW c \in Calls
    PROVE  /\ touched = [touched EXCEPT ![c] = touched[c]] /\ touched[c] \in Nat
           /\ tunnels = [tunnels EXCEPT ![c] = tunnels[c]] /\ tunnels[c] \in Nat
           /\ found = [found EXCEPT ![c] = found[c]]
           /\ found[c] \in [uid : Nat, health : {"none"} \cup Healths]
           /\ health \in Healths /\ pod \in Nat
           /\ Kind[c] \in {"exec", "logs", "forward", "delete", "ready", "deleted", "replaced"}
BY KubeBounds DEF PodInv, PodTypeOK

\* What a call does before it reaches the Pod.
LEMMA ApproachKeeps ==
    ASSUME PodInv, NEW c \in Calls, Call(c) \/ CheckBefore(c) \/ FailCall(c)
    PROVE  PodInv'
<1>0. UNCHANGED <<pod, last, shutdown, health, touched, found>>
  BY DEF Call, CheckBefore, FailCall, cluster, call
<1>1. tunnels[c] # 0 => stepOf[c] \in {"after", "returned"}
  BY DEF PodInv, TunnelsHeld
<1>2. CASE Call(c)
  <2>1. stepOf[c] = "new" /\ tunnels' = [tunnels EXCEPT ![c] = 0]
    BY <1>1, <1>2, Untouched DEF Call, call
  <2>2. CASE To(c, "failed")
    <3>1. "failed" \in PodPlaces \ {"slot", "poll", "after", "returned"} /\ "failed" \in Ended
      BY DEF PodPlaces, Ended
    <3> QED BY <1>0, <2>1, <2>2, <3>1, CallPasses
  <2>3. CASE To(c, "before") /\ Kind[c] = "forward" /\ shutdown = "none"
    <3>1. "before" \in PodPlaces \ {"slot", "poll", "after", "returned"} /\ ~Slotted(c)
      BY <2>3 DEF PodPlaces, Slotted
    <3> QED BY <1>0, <2>1, <2>3, <3>1, CallPasses
  <2>4. CASE \/ To(c, "slot") /\ Slotted(c) /\ shutdown = "none"
             \/ To(c, "poll") /\ ~Slotted(c) /\ Kind[c] # "forward" /\ shutdown = "none"
    <3>1. PICK s \in {"slot", "poll"} :
             /\ stepOf' = [stepOf EXCEPT ![c] = s] /\ shutdown = "none"
             /\ s = "slot" => Slotted(c)
             /\ s = "poll" => ~Slotted(c) /\ Kind[c] # "forward"
      BY <2>4 DEF To
    <3>2. /\ s \in PodPlaces /\ s \notin {"before", "act", "after", "returned"}
          /\ s = "poll" => Kind[c] \notin {"exec", "logs", "forward"}
      BY <3>1 DEF PodPlaces, Slotted
    <3>3. /\ touched' = [touched EXCEPT ![c] = touched[c]] /\ found' = [found EXCEPT ![c] = found[c]]
          /\ touched[c] \in Nat /\ found[c] \in [uid : Nat, health : {"none"} \cup Healths]
          /\ health' \in Healths /\ 0 \in Nat
          /\ Kind[c] = "delete" => touched[c] \in {0, Ref}
      BY <1>0, Untouched DEF PodInv, TouchedTheNamed
    <3>4. Goes(c, s, touched[c], 0, found[c])
      BY <1>0, <2>1, <3>1, <3>3 DEF Goes
    <3>5. MayGo(c, s, touched[c], 0, found[c])
      BY <3>1, <3>2, <3>3 DEF MayGo
    <3> QED BY <3>4, <3>5, CallMoves
  <2> QED BY <1>2, <2>2, <2>3, <2>4 DEF Call
<1>3. CASE CheckBefore(c)
  <2>1. stepOf[c] = "before" /\ tunnels' = [tunnels EXCEPT ![c] = 0]
    BY <1>1, <1>3, Untouched DEF CheckBefore, call
  <2>2. PICK s \in {"act", "failed"} : To(c, s) /\ (s = "act" => shutdown = "none")
    BY <1>3 DEF CheckBefore
  <2>3. s \in PodPlaces \ {"slot", "poll", "after", "returned"} /\ (s = "failed" => s \in Ended)
    BY DEF PodPlaces, Ended
  <2>4. Kind[c] \in {"exec", "logs", "forward"} /\ (Slotted(c) => c \in Executing)
    BY <2>1 DEF PodInv, PlacesFit, Executing
  <2> QED BY <1>0, <2>1, <2>2, <2>3, <2>4, CallPasses
<1>4. CASE FailCall(c)
  <2>1. To(c, "failed") /\ tunnels' = [tunnels EXCEPT ![c] = 0]
    BY <1>4 DEF FailCall
  <2>2. "failed" \in PodPlaces \ {"slot", "poll", "after", "returned"} /\ "failed" \in Ended
    BY DEF PodPlaces, Ended
  <2> QED BY <1>0, <2>1, <2>2, CallPasses
<1> QED BY <1>2, <1>3, <1>4

LEMMA EnterKeeps ==
    ASSUME PodInv, NEW c \in Calls, EnterSlot(c)
    PROVE  PodInv'
<1>1. /\ stepOf[c] = "slot" /\ Cardinality(Executing) < ExecSlots /\ stepOf' = [stepOf EXCEPT ![c] = "before"]
      /\ UNCHANGED <<pod, last, health, touched, found, tunnels, shutdown>> /\ PodTypeOK
      /\ Slotted(c)
  BY DEF EnterSlot, To, cluster, call, PodInv, PlacesFit
<1>2. stepOf'[c] = "before" /\ \A d \in Calls \ {c} : stepOf'[d] = stepOf[d]
  BY <1>1 DEF PodTypeOK
<1>3. PodTypeOK'
  BY <1>1 DEF PodTypeOK, PodPlaces
<1>4. PlacesFit' /\ TouchedTheNamed'
  BY <1>1, <1>2 DEF PodInv, PlacesFit, TouchedTheNamed, Slotted
<1>5. shutdown \in {"closes", "done"} => ~Tracked(c)
  BY <1>1 DEF PodInv, TunnelsHeld, Ended
<1>6. TunnelsHeld'
  BY <1>1, <1>2, <1>5 DEF PodInv, TunnelsHeld, Tracked
<1>7. Executing' = Executing \cup {c} /\ c \notin Executing
  BY <1>1, <1>2 DEF Executing, Slotted
<1>8. IsFiniteSet(Executing) /\ Cardinality(Executing) \in Nat
  BY FS_CardinalityType DEF PodInv, SlotsCounted
<1>9. IsFiniteSet(Executing') /\ Cardinality(Executing') = Cardinality(Executing) + 1
  BY <1>7, <1>8, FS_AddElement
<1>10. SlotsCounted'
  BY <1>1, <1>8, <1>9, KubeBounds DEF SlotsCounted
<1> QED BY <1>3, <1>4, <1>6, <1>10 DEF PodInv

\* The command, the stream or the tunnel, and the second look at the identity.
LEMMA ReachKeeps ==
    ASSUME PodInv, NEW c \in Calls, Act(c) \/ CheckAfter(c)
    PROVE  PodInv'
<1>0. /\ Kind[c] \in {"exec", "logs", "forward"} /\ (Slotted(c) => c \in Executing)
      /\ shutdown \in {"closes", "done"} => ~Tracked(c) /\ tunnels[c] = 0
  BY DEF PodInv, PlacesFit, Executing, Act, CheckAfter, TunnelsHeld, Ended
<1>1. CASE Act(c)
  <2>1. PICK s \in {"after", "failed"} :
          /\ stepOf' = [stepOf EXCEPT ![c] = s] /\ (s = "failed" <=> pod = 0)
    BY <1>1 DEF Act, To
  <2>2. /\ UNCHANGED <<pod, last, health, found, shutdown>> /\ touched' = [touched EXCEPT ![c] = pod]
        /\ tunnels' = IF Kind[c] = "forward" THEN [tunnels EXCEPT ![c] = pod] ELSE tunnels
        /\ stepOf[c] = "act"
    BY <1>1 DEF Act, cluster
  <2> DEFINE n == IF Kind[c] = "forward" THEN pod ELSE 0
  <2>3. tunnels[c] = 0
    BY <2>2 DEF PodInv, TunnelsHeld
  <2>4. tunnels' = [tunnels EXCEPT ![c] = n] /\ n \in Nat /\ (n # 0 => Kind[c] = "forward" /\ s = "after")
    BY <2>1, <2>2, <2>3, Untouched
  <2>5. shutdown \in {"closes", "done"} => n = 0
    BY <1>0 DEF Tracked
  <2>6. s \in PodPlaces /\ s \notin {"slot", "before", "act", "poll", "returned"} /\ pod \in Nat
    BY Untouched DEF PodPlaces
  <2>7. /\ found' = [found EXCEPT ![c] = found[c]] /\ found[c] \in [uid : Nat, health : {"none"} \cup Healths]
        /\ health' \in Healths
    BY <2>2, Untouched
  <2>8. s = "after" => pod = Ref \/ pod # Ref
    OBVIOUS
  <2>9. Kind[c] = "delete" => pod \in {0, Ref}
    BY <1>0
  <2>10. shutdown \in {"closes", "done"} => n = 0 /\ (Tracked(c) => s \in Ended)
    BY <1>0, <2>5
  <2> HIDE DEF n
  <2>11. Goes(c, s, pod, n, found[c])
    BY <2>1, <2>2, <2>4, <2>7 DEF Goes
  <2>12. MayGo(c, s, pod, n, found[c])
    BY <1>0, <2>4, <2>6, <2>7, <2>8, <2>9, <2>10 DEF MayGo
  <2> QED BY <2>11, <2>12, CallMoves
<1>2. CASE CheckAfter(c)
  <2> DEFINE ok == Identity(c) /\ shutdown = "none"
             s == IF ok THEN "returned" ELSE "failed"
             n == IF ok THEN tunnels[c] ELSE 0
  <2>1. /\ stepOf' = [stepOf EXCEPT ![c] = s] /\ stepOf[c] = "after"
        /\ UNCHANGED <<pod, last, health, touched, found, shutdown>>
        /\ tunnels' = IF ok THEN tunnels ELSE [tunnels EXCEPT ![c] = 0]
    BY <1>2 DEF CheckAfter, To, cluster
  <2>2. tunnels' = [tunnels EXCEPT ![c] = n] /\ n \in Nat
    BY <2>1, Untouched
  <2>3. s = "returned" => pod = Ref /\ touched[c] = Ref /\ shutdown = "none"
    BY <2>1 DEF PodInv, TouchedTheNamed, Identity
  <2>4. s \in {"returned", "failed"} /\ s \in PodPlaces
    BY DEF PodPlaces
  <2>5. n # 0 => Kind[c] = "forward" /\ s \in {"after", "returned"}
    BY DEF PodInv, TunnelsHeld
  <2>6. shutdown \in {"closes", "done"} => n = 0 /\ (Tracked(c) => s \in Ended)
    BY <1>0
  <2>7. /\ touched' = [touched EXCEPT ![c] = touched[c]] /\ touched[c] \in Nat
        /\ found' = [found EXCEPT ![c] = found[c]] /\ found[c] \in [uid : Nat, health : {"none"} \cup Healths]
        /\ health' \in Healths
    BY <2>1, Untouched
  <2>8. s = "returned" /\ Kind[c] \in {"exec", "logs", "forward"} => touched[c] = Ref
    BY <2>3
  <2> HIDE DEF s, n, ok
  <2>9. Goes(c, s, touched[c], n, found[c])
    BY <2>1, <2>2, <2>7 DEF Goes
  <2>10. MayGo(c, s, touched[c], n, found[c])
    BY <1>0, <2>2, <2>4, <2>5, <2>6, <2>7, <2>8 DEF MayGo
  <2> QED BY <2>9, <2>10, CallMoves
<1> QED BY <1>1, <1>2

\* A deletion that carries the identity, and one read of a wait.
LEMMA PollKeeps ==
    ASSUME PodInv, NEW c \in Calls, Delete(c) \/ Poll(c)
    PROVE  PodInv'
<1>0. /\ Kind[c] \notin {"exec", "logs", "forward"} /\ tunnels[c] = 0 /\ stepOf[c] = "poll"
      /\ tunnels' = [tunnels EXCEPT ![c] = 0] /\ UNCHANGED <<pod, last, shutdown>> /\ 0 \in Nat
      /\ shutdown \in {"none", "cancels"}
  BY Untouched DEF PodInv, PlacesFit, Delete, Poll, TunnelsHeld, cluster
<1>1. /\ {"returned", "failed"} \subseteq PodPlaces /\ {"returned", "failed"} \subseteq Ended
  BY DEF PodPlaces, Ended
<1>2. CASE Delete(c)
  <2>1. PICK s \in {"returned", "failed"}, t \in {touched[c], Ref} :
          /\ stepOf' = [stepOf EXCEPT ![c] = s] /\ touched' = [touched EXCEPT ![c] = t]
          /\ health' \in Healths /\ UNCHANGED found /\ Kind[c] = "delete"
    <3>1. CASE Precondition
      BY <1>2, <3>1 DEF Delete, To, Precondition, Healths
    <3>2. CASE ~Precondition
      BY <1>2, <3>2, Untouched DEF Delete, To
    <3> QED BY <3>1, <3>2
  <2>2. t \in Nat /\ t \in {0, Ref}
    BY <2>1, Untouched DEF Ref, PodInv, TouchedTheNamed
  <2>3. found' = [found EXCEPT ![c] = found[c]] /\ found[c] \in [uid : Nat, health : {"none"} \cup Healths]
    BY <2>1, Untouched
  <2>4. Goes(c, s, t, 0, found[c])
    BY <1>0, <2>1, <2>3 DEF Goes
  <2>5. MayGo(c, s, t, 0, found[c])
    BY <1>0, <1>1, <2>1, <2>2, <2>3 DEF MayGo
  <2> QED BY <2>4, <2>5, CallMoves
<1>3. CASE Poll(c)
  <2>1. UNCHANGED <<health, touched>>
    BY <1>3 DEF Poll, cluster
  <2>2. /\ touched' = [touched EXCEPT ![c] = touched[c]] /\ touched[c] \in Nat /\ health' \in Healths
        /\ Kind[c] = "delete" => touched[c] \in {0, Ref}
    BY <2>1, Untouched DEF PodInv, TouchedTheNamed
  <2>3. CASE stepOf' = [stepOf EXCEPT ![c] = "failed"] /\ UNCHANGED found
    <3>1. found' = [found EXCEPT ![c] = found[c]] /\ found[c] \in [uid : Nat, health : {"none"} \cup Healths]
      BY <2>3, Untouched
    <3>2. Goes(c, "failed", touched[c], 0, found[c])
      BY <1>0, <2>2, <2>3, <3>1 DEF Goes
    <3>3. MayGo(c, "failed", touched[c], 0, found[c])
      BY <1>0, <1>1, <2>2, <3>1 DEF MayGo
    <3> QED BY <3>2, <3>3, CallMoves
  <2>4. CASE /\ Answer(c) /\ stepOf' = [stepOf EXCEPT ![c] = "returned"]
             /\ found' = [found EXCEPT ![c] = [uid |-> pod, health |-> health]]
    <3> DEFINE f == [uid |-> pod, health |-> health]
    <3>1. f \in [uid : Nat, health : {"none"} \cup Healths]
      BY Untouched
    <3>2. /\ Kind[c] = "ready" => f = [uid |-> Ref, health |-> "ready"]
          /\ Kind[c] = "deleted" => pod # Ref
          /\ Kind[c] = "replaced" => f.uid > Ref
      BY <2>4, Untouched DEF Answer, Ref
    <3>3. found' = [found EXCEPT ![c] = f]
      BY <2>4
    <3> HIDE DEF f
    <3>4. Goes(c, "returned", touched[c], 0, f)
      BY <1>0, <2>2, <2>4, <3>3 DEF Goes
    <3>5. MayGo(c, "returned", touched[c], 0, f)
      BY <1>0, <1>1, <2>2, <3>1, <3>2 DEF MayGo
    <3> QED BY <3>4, <3>5, CallMoves
  <2> QED BY <1>3, <2>3, <2>4 DEF Poll, To
<1> QED BY <1>2, <1>3

\* The disposal waits for the operations that may still open something.
LEMMA PodDisposalKeeps ==
    ASSUME PodInv, DisposeClient \/ CloseTunnels \/ CloseApi
    PROVE  PodInv'
<1>1. CASE DisposeClient \/ CloseApi
  <2>1. /\ UNCHANGED <<pod, last, health, stepOf, touched, found, tunnels>>
        /\ shutdown' \in {"cancels", "done"}
        /\ shutdown' = "done" => shutdown = "closes"
    BY <1>1 DEF DisposeClient, CloseApi, cluster, call
  <2>2. PodTypeOK' /\ PlacesFit' /\ TouchedTheNamed'
    BY <2>1 DEF PodInv, PodTypeOK, PlacesFit, TouchedTheNamed, Slotted
  <2>3. TunnelsHeld'
    BY <2>1 DEF PodInv, TunnelsHeld, Tracked
  <2>4. SlotsCounted'
    BY <2>1, SlotsShrink DEF PodInv, Executing
  <2> QED BY <2>2, <2>3, <2>4 DEF PodInv
<1>2. CASE CloseTunnels
  <2>1. /\ UNCHANGED <<pod, last, health, stepOf, touched, found>> /\ shutdown' = "closes" /\ Joined
        /\ tunnels' = [c \in Calls |-> IF stepOf[c] = "returned" THEN 0 ELSE tunnels[c]]
    BY <1>2 DEF CloseTunnels, cluster
  <2>2. ASSUME NEW c \in Calls PROVE tunnels'[c] = 0 /\ (Tracked(c) => stepOf[c] \in Ended \cup {"new"})
    BY <2>1 DEF PodInv, TunnelsHeld, Joined, Tracked, Ended
  <2>3. PodTypeOK' /\ PlacesFit' /\ TouchedTheNamed'
    BY <2>1 DEF PodInv, PodTypeOK, PlacesFit, TouchedTheNamed, Slotted
  <2>4. TunnelsHeld'
    BY <2>1, <2>2 DEF TunnelsHeld, Tracked
  <2>5. SlotsCounted'
    BY <2>1, SlotsShrink DEF PodInv, Executing
  <2> QED BY <2>3, <2>4, <2>5 DEF PodInv
<1> QED BY <1>1, <1>2

LEMMA PodStep == PodInv /\ [PodNext]_podVars => PodInv'
<1> SUFFICES ASSUME PodInv, [PodNext]_podVars PROVE PodInv'
  OBVIOUS
<1>1. CASE UNCHANGED podVars
  BY <1>1 DEF podVars, PodInv, PodTypeOK, PlacesFit, TouchedTheNamed, TunnelsHeld, SlotsCounted,
              Executing, Slotted, Tracked
<1> QED BY <1>1, ClusterKeeps, ApproachKeeps, EnterKeeps, ReachKeeps, PollKeeps, PodDisposalKeeps DEF PodNext

\* For any calls on one name, any number of instances behind it and of slots: a
\* call that returns dealt with the Pod it named, no other instance is deleted,
\* a wait answers for the right one, and a disposed client leaves no tunnel and
\* no command behind (KubeClient's exec, logs, port_forward, delete and waits).
THEOREM PodCallsAreSound == PodSpec => []PodCallsSound
<1>1. PodInv => PodCallsSound
  BY DEF PodInv, PlacesFit, TouchedTheNamed, TunnelsHeld, SlotsCounted, PodCallsSound, OnlyThePodNamed,
         DisposedIsQuiet
<1> QED BY <1>1, PodStarts, PodStep, PTL DEF PodSpec

-----------------------------------------------------------------------------
(* KubeApi: the commands.                                                  *)

SessionSpec == SessionInit /\ [][SessionNext]_sessionVars

SessionPlaces == {"idle", "queued", "auth", "open", "exited", "failed", "timedOut", "aborted"}
SessionCauses == {"none", "status", "deadline", "caller", "broken", "tooMuch"}

SessionTypeOK ==
    /\ session \in [Sessions -> SessionPlaces] /\ building \subseteq Sessions
    /\ agentOf \in [Sessions -> {"none", "open", "destroyed"}]
    /\ socketOf \in [Sessions -> {"none", "open", "terminated"}]
    /\ frames \in [Sessions -> Nat] /\ upgrades \in [Sessions -> Nat]
    /\ cause \in [Sessions -> SessionCauses]

\* A call opens its agent and its socket in one turn, once, and closes both in
\* the turn in which it ends; an authentication that outlives its call opens
\* nothing.
SessionFits(x) ==
    /\ session[x] \in {"idle", "queued"} => x \notin building
    /\ session[x] \in {"idle", "queued", "auth"} =>
          agentOf[x] = "none" /\ socketOf[x] = "none" /\ upgrades[x] = 0 /\ frames[x] = 0
    /\ session[x] = "auth" => x \in building
    /\ session[x] = "open" => upgrades[x] = 1 /\ frames[x] <= SessionBytes /\ x \notin building
    /\ SessionOver(x) =>
          /\ socketOf[x] # "open" /\ agentOf[x] # "open"
          /\ session[x] = "exited" <=> cause[x] = "status"
          /\ session[x] = "timedOut" <=> cause[x] = "deadline"
          /\ session[x] = "exited" => upgrades[x] = 1 /\ frames[x] <= SessionBytes
    /\ upgrades[x] <= 1

SessionsFit == \A x \in Sessions : SessionFits(x)
SessionsCounted == IsFiniteSet(SessionsRunning) /\ Cardinality(SessionsRunning) <= SessionSlots

SessionInv == SessionTypeOK /\ SessionsFit /\ SessionsCounted

LEMMA SessionStarts == SessionInit => SessionInv
<1> SUFFICES ASSUME SessionInit PROVE SessionInv
  OBVIOUS
<1>1. SessionTypeOK
  BY DEF SessionInit, SessionTypeOK, SessionPlaces, SessionCauses
<1>2. SessionsFit
  BY DEF SessionInit, SessionsFit, SessionFits, SessionOver
<1>3. SessionsRunning = {}
  BY DEF SessionInit, SessionsRunning
<1>4. SessionsCounted
  BY <1>3, FS_EmptySet, SessionBounds DEF SessionsCounted
<1> QED BY <1>1, <1>2, <1>4 DEF SessionInv

\* One call moves, which fits where it was and fits where it is.
LEMMA SessionMoves ==
    ASSUME SessionInv, NEW x \in Sessions, SessionTypeOK', SessionFits(x)',
           \A y \in Sessions \ {x} :
              /\ session'[y] = session[y] /\ (y \in building' <=> y \in building)
              /\ agentOf'[y] = agentOf[y] /\ socketOf'[y] = socketOf[y]
              /\ frames'[y] = frames[y] /\ upgrades'[y] = upgrades[y] /\ cause'[y] = cause[y],
           session'[x] \in {"auth", "open"} =>
              session[x] \in {"auth", "open"} \/ Cardinality(SessionsRunning) < SessionSlots
    PROVE  SessionInv'
<1>1. ASSUME NEW y \in Sessions PROVE SessionFits(y)'
  <2>1. CASE y = x
    BY <2>1
  <2>2. CASE y # x
    BY <2>2 DEF SessionInv, SessionsFit, SessionFits, SessionOver
  <2> QED BY <2>1, <2>2
<1>2. IsFiniteSet(SessionsRunning) /\ Cardinality(SessionsRunning) \in Nat
      /\ Cardinality(SessionsRunning) <= SessionSlots
  BY FS_CardinalityType DEF SessionInv, SessionsCounted
<1>3. CASE session'[x] \in {"auth", "open"} /\ x \notin SessionsRunning
  <2>1. SessionsRunning' = SessionsRunning \cup {x}
    BY <1>3 DEF SessionsRunning
  <2>2. IsFiniteSet(SessionsRunning') /\ Cardinality(SessionsRunning') = Cardinality(SessionsRunning) + 1
    BY <1>2, <1>3, <2>1, FS_AddElement
  <2>3. Cardinality(SessionsRunning) < SessionSlots
    BY <1>3 DEF SessionsRunning
  <2>4. SessionsCounted'
    BY <1>2, <2>2, <2>3, SessionBounds DEF SessionsCounted
  <2> QED BY <1>1, <2>4 DEF SessionInv, SessionsFit
<1>4. CASE ~(session'[x] \in {"auth", "open"} /\ x \notin SessionsRunning)
  <2>1. SessionsRunning' \subseteq SessionsRunning
    BY <1>4 DEF SessionsRunning
  <2>2. IsFiniteSet(SessionsRunning') /\ Cardinality(SessionsRunning') <= Cardinality(SessionsRunning)
    BY <1>2, <2>1, FS_Subset
  <2>3. Cardinality(SessionsRunning') \in Nat
    BY <2>2, FS_CardinalityType
  <2>4. SessionsCounted'
    BY <1>2, <2>2, <2>3, SessionBounds DEF SessionsCounted
  <2> QED BY <1>1, <2>4 DEF SessionInv, SessionsFit
<1> QED BY <1>3, <1>4

\* A call ends once, and closes what it holds.
LEMMA FinishKeeps ==
    ASSUME SessionInv, NEW x \in Sessions, NEW how \in {"exited", "failed", "timedOut", "aborted"},
           NEW why \in SessionCauses, FinishSession(x, how, why),
           how = "exited" <=> why = "status", how = "timedOut" <=> why = "deadline",
           building' \subseteq Sessions,
           \A y \in Sessions \ {x} : y \in building' <=> y \in building,
           UNCHANGED upgrades, frames' \in [Sessions -> Nat],
           \A y \in Sessions \ {x} : frames'[y] = frames[y],
           how = "exited" => session[x] = "open" /\ frames'[x] = frames[x]
    PROVE  SessionInv'
<1>1. SessionTypeOK /\ SessionFits(x)
  BY DEF SessionInv, SessionsFit
<1>2. /\ session' = [session EXCEPT ![x] = how] /\ cause' = [cause EXCEPT ![x] = why]
      /\ socketOf' = [socketOf EXCEPT ![x] = IF @ = "open" THEN "terminated" ELSE @]
      /\ agentOf' = [agentOf EXCEPT ![x] = IF @ = "open" THEN "destroyed" ELSE @]
  BY DEF FinishSession
<1>3. /\ session'[x] = how /\ cause'[x] = why /\ socketOf'[x] # "open" /\ agentOf'[x] # "open"
      /\ \A y \in Sessions \ {x} : /\ session'[y] = session[y] /\ cause'[y] = cause[y]
                                   /\ socketOf'[y] = socketOf[y] /\ agentOf'[y] = agentOf[y]
  BY <1>1, <1>2 DEF SessionTypeOK
<1>4. SessionTypeOK'
  <2>1. how \in SessionPlaces
    BY DEF SessionPlaces
  <2>2. socketOf' \in [Sessions -> {"none", "open", "terminated"}]
    BY <1>1, <1>2 DEF SessionTypeOK
  <2>3. agentOf' \in [Sessions -> {"none", "open", "destroyed"}]
    BY <1>1, <1>2 DEF SessionTypeOK
  <2>4. session' \in [Sessions -> SessionPlaces] /\ cause' \in [Sessions -> SessionCauses]
    BY <1>1, <1>2, <2>1 DEF SessionTypeOK
  <2> QED BY <1>1, <2>2, <2>3, <2>4 DEF SessionTypeOK
<1>5. SessionFits(x)'
  BY <1>1, <1>3 DEF SessionFits, SessionOver
<1> QED BY <1>3, <1>4, <1>5, SessionMoves

\* A call enters the queue, gets its slot, and opens its socket.
LEMMA OpeningKeeps ==
    ASSUME SessionInv, NEW x \in Sessions, ExecBegins(x) \/ ExecGranted(x) \/ (AuthEnds(x) /\ StillThere(x))
    PROVE  SessionInv'
<1>1. SessionTypeOK /\ SessionFits(x)
  BY DEF SessionInv, SessionsFit
<1>2. CASE ExecBegins(x)
  <2>1. /\ session[x] = "idle" /\ session' = [session EXCEPT ![x] = "queued"]
        /\ UNCHANGED <<building, agentOf, socketOf, frames, upgrades, cause>>
    BY <1>2 DEF ExecBegins
  <2>2. session'[x] = "queued" /\ \A y \in Sessions \ {x} : session'[y] = session[y]
    BY <1>1, <2>1 DEF SessionTypeOK
  <2>3. SessionTypeOK'
    BY <1>1, <2>1 DEF SessionTypeOK, SessionPlaces
  <2>4. SessionFits(x)'
    BY <1>1, <2>1, <2>2 DEF SessionFits, SessionOver
  <2> QED BY <2>1, <2>2, <2>3, <2>4, SessionMoves
<1>3. CASE ExecGranted(x)
  <2>1. /\ session[x] = "queued" /\ session' = [session EXCEPT ![x] = "auth"] /\ building' = building \cup {x}
        /\ Cardinality(SessionsRunning) < SessionSlots
        /\ UNCHANGED <<agentOf, socketOf, frames, upgrades, cause>>
    BY <1>3 DEF ExecGranted
  <2>2. session'[x] = "auth" /\ \A y \in Sessions \ {x} : session'[y] = session[y]
    BY <1>1, <2>1 DEF SessionTypeOK
  <2>3. SessionTypeOK'
    BY <1>1, <2>1 DEF SessionTypeOK, SessionPlaces
  <2>4. SessionFits(x)'
    BY <1>1, <2>1, <2>2 DEF SessionFits, SessionOver
  <2> QED BY <2>1, <2>2, <2>3, <2>4, SessionMoves
<1>4. CASE AuthEnds(x) /\ StillThere(x)
  <2>1. /\ session[x] = "auth" /\ building' = building \ {x}
        /\ agentOf' = [agentOf EXCEPT ![x] = "open"] /\ socketOf' = [socketOf EXCEPT ![x] = "open"]
        /\ upgrades' = [upgrades EXCEPT ![x] = @ + 1] /\ session' = [session EXCEPT ![x] = "open"]
        /\ UNCHANGED <<frames, cause>>
    BY <1>4 DEF AuthEnds, StillThere
  <2>2. /\ session'[x] = "open" /\ upgrades'[x] = upgrades[x] + 1 /\ x \notin building'
        /\ \A y \in Sessions \ {x} : /\ session'[y] = session[y] /\ agentOf'[y] = agentOf[y]
                                     /\ socketOf'[y] = socketOf[y] /\ upgrades'[y] = upgrades[y]
    BY <1>1, <2>1 DEF SessionTypeOK
  <2>3. upgrades' \in [Sessions -> Nat]
    BY <1>1, <2>1 DEF SessionTypeOK
  <2>4. SessionTypeOK'
    BY <1>1, <2>1, <2>3 DEF SessionTypeOK, SessionPlaces
  <2>5. SessionFits(x)'
    BY <1>1, <2>1, <2>2, SessionBounds DEF SessionFits, SessionOver
  <2> QED BY <2>1, <2>2, <2>4, <2>5, SessionMoves
<1> QED BY <1>2, <1>3, <1>4

\* An authentication that was given up ends, and opens nothing.
LEMMA GivenUpKeeps ==
    ASSUME SessionInv, NEW x \in Sessions,
           (AuthEnds(x) /\ ~StillThere(x)) \/ (AuthBreaks(x) /\ session[x] # "auth")
    PROVE  SessionInv'
<1>1. SessionTypeOK /\ SessionFits(x)
  BY DEF SessionInv, SessionsFit
<1>2. /\ x \in building /\ building' = building \ {x} /\ session[x] # "auth"
      /\ UNCHANGED <<session, socketOf, upgrades, frames, cause>>
      /\ agentOf' = [agentOf EXCEPT ![x] = "destroyed"] \/ UNCHANGED agentOf
  BY DEF AuthEnds, AuthBreaks, StillThere
<1>3. /\ agentOf'[x] \in {"destroyed", agentOf[x]} /\ \A y \in Sessions \ {x} : agentOf'[y] = agentOf[y]
      /\ agentOf' \in [Sessions -> {"none", "open", "destroyed"}]
  BY <1>1, <1>2 DEF SessionTypeOK
<1>4. SessionTypeOK'
  BY <1>1, <1>2, <1>3 DEF SessionTypeOK
<1>5. SessionFits(x)'
  BY <1>1, <1>2, <1>3 DEF SessionFits, SessionOver, SessionTypeOK, SessionPlaces
<1> QED BY <1>2, <1>3, <1>4, <1>5, SessionMoves

\* A deadline, an abort or a failure, the frames and the status.
LEMMA EndingKeeps ==
    ASSUME SessionInv, NEW x \in Sessions,
           \/ SessionAborts(x, "deadline") \/ SessionAborts(x, "caller")
           \/ (AuthBreaks(x) /\ session[x] = "auth") \/ Frame(x) \/ Status(x) \/ SocketBreaks(x)
    PROVE  SessionInv'
<1>1. SessionTypeOK /\ SessionFits(x) /\ frames \in [Sessions -> Nat] /\ building \subseteq Sessions
  BY DEF SessionInv, SessionsFit, SessionTypeOK
<1>2. {"deadline", "caller", "broken", "tooMuch", "status"} \subseteq SessionCauses
  BY DEF SessionCauses
<1>3. CASE SessionAborts(x, "deadline")
  <2>1. FinishSession(x, "timedOut", "deadline") /\ UNCHANGED <<building, frames, upgrades>>
    BY <1>3 DEF SessionAborts
  <2> QED BY <1>1, <1>2, <2>1, FinishKeeps
<1>4. CASE SessionAborts(x, "caller")
  <2>1. FinishSession(x, "aborted", "caller") /\ UNCHANGED <<building, frames, upgrades>>
    BY <1>4 DEF SessionAborts
  <2> QED BY <1>1, <1>2, <2>1, FinishKeeps
<1>5. CASE AuthBreaks(x) /\ session[x] = "auth"
  <2>1. FinishSession(x, "failed", "broken") /\ building' = building \ {x} /\ UNCHANGED <<frames, upgrades>>
    BY <1>5 DEF AuthBreaks
  <2> QED BY <1>1, <1>2, <2>1, FinishKeeps
<1>6. CASE Status(x) \/ SocketBreaks(x)
  <2>1. /\ session[x] = "open" /\ UNCHANGED <<building, frames, upgrades>>
        /\ FinishSession(x, "exited", "status") \/ FinishSession(x, "failed", "broken")
    BY <1>6 DEF Status, SocketBreaks
  <2> QED BY <1>1, <1>2, <2>1, FinishKeeps
<1>7. CASE Frame(x)
  <2>1. /\ session[x] = "open" /\ frames' = [frames EXCEPT ![x] = @ + 1] /\ UNCHANGED <<building, upgrades>>
        /\ \/ FinishSession(x, "failed", "tooMuch") \/ FinishSession(x, "failed", "broken")
           \/ frames[x] + 1 <= SessionBytes /\ UNCHANGED <<session, agentOf, socketOf, cause>>
    <3>1. frames[x] \in Nat
      BY <1>1
    <3> QED BY <1>7, <3>1, SessionBounds DEF Frame
  <2>2. /\ frames' \in [Sessions -> Nat] /\ frames'[x] = frames[x] + 1
        /\ \A y \in Sessions \ {x} : frames'[y] = frames[y]
    BY <1>1, <2>1
  <2>3. CASE FinishSession(x, "failed", "tooMuch") \/ FinishSession(x, "failed", "broken")
    BY <1>1, <1>2, <2>1, <2>2, <2>3, FinishKeeps
  <2>4. CASE frames[x] + 1 <= SessionBytes /\ UNCHANGED <<session, agentOf, socketOf, cause>>
    <3>1. SessionTypeOK'
      BY <1>1, <2>1, <2>2, <2>4 DEF SessionTypeOK
    <3>2. SessionFits(x)'
      BY <1>1, <2>1, <2>2, <2>4 DEF SessionFits, SessionOver
    <3> QED BY <2>1, <2>2, <2>4, <3>1, <3>2, SessionMoves
  <2> QED BY <2>1, <2>3, <2>4
<1> QED BY <1>3, <1>4, <1>5, <1>6, <1>7

LEMMA SessionStep == SessionInv /\ [SessionNext]_sessionVars => SessionInv'
<1> SUFFICES ASSUME SessionInv, [SessionNext]_sessionVars PROVE SessionInv'
  OBVIOUS
<1>1. CASE UNCHANGED sessionVars
  BY <1>1 DEF sessionVars, SessionInv, SessionTypeOK, SessionsFit, SessionFits, SessionOver,
              SessionsCounted, SessionsRunning
<1> QED BY <1>1, OpeningKeeps, GivenUpKeeps, EndingKeeps DEF SessionNext

\* For any calls of exec(), any number of slots and any byte limit: a call ends as
\* what happened first says, an exit code is one that the Pod sent over the one
\* socket of that call, and whatever fails, expires or is aborted, at any await,
\* nothing of a call that is over stays open (the WebSocket sessions of exec).
THEOREM ExecsAreSound == SessionSpec => []ExecsSound
<1>1. SessionInv => ExecsSound
  BY DEF SessionInv, SessionsFit, SessionFits, SessionsCounted, ExecsSound
<1> QED BY <1>1, SessionStarts, SessionStep, PTL DEF SessionSpec

-----------------------------------------------------------------------------
(* KubeApi: the reads.                                                     *)

ApiSpec == ApiInit /\ [][ApiNext]_apiVars

ApiPlaces == {"idle", "queued", "auth", "fetch", "over"}
ApiRecords == [at : ApiPlaces, agent : Nat]
AgentRecords == [creds : Credentials, users : Nat, open : BOOLEAN]
AgentIds == DOMAIN apiAgents

ApiTypeOK ==
    /\ apiRead \in [ApiReads -> ApiRecords] /\ apiAgents \in Seq(AgentRecords)
    /\ apiCurrent \in Nat /\ apiDisposed \in BOOLEAN

\* An agent counts who reads from it; it is open while it is current or read from.
UsersCounted ==
    \A i \in AgentIds : IsFiniteSet(Borrowed(i)) /\ apiAgents[i].users = Cardinality(Borrowed(i))
AgentsNeeded ==
    /\ apiCurrent # 0 => apiCurrent \in AgentIds /\ apiAgents[apiCurrent].open
    /\ \A i \in AgentIds : apiAgents[i].open => i = apiCurrent \/ Borrowed(i) # {}
ReadsHold ==
    \A r \in ApiReads : ReadAt(r, "fetch") =>
        apiRead[r].agent \in AgentIds /\ (~apiDisposed => apiAgents[apiRead[r].agent].open)

\* A disposal leaves nobody who could still make an agent.
DisposedApi ==
    apiDisposed =>
        /\ apiCurrent = 0 /\ \A i \in AgentIds : ~apiAgents[i].open
        /\ \A r \in ApiReads : apiRead[r].at \notin {"queued", "auth"}

ApiInv == ApiTypeOK /\ UsersCounted /\ AgentsNeeded /\ ReadsHold /\ DisposedApi

LEMMA ApiStarts == ApiInit => ApiInv
<1> SUFFICES ASSUME ApiInit PROVE ApiInv
  OBVIOUS
<1>1. /\ apiRead = [r \in ApiReads |-> [at |-> "idle", agent |-> 0]] /\ apiAgents = << >> /\ apiCurrent = 0
  BY DEF ApiInit
<1>2. apiDisposed = FALSE
  BY Zenon DEF ApiInit
<1>3. ApiTypeOK
  <2>1. apiRead \in [ApiReads -> ApiRecords]
    BY <1>1 DEF ApiRecords, ApiPlaces
  <2>2. apiAgents \in Seq(AgentRecords) /\ apiCurrent \in Nat
    BY <1>1
  <2> QED BY <1>2, <2>1, <2>2 DEF ApiTypeOK
<1>4. AgentIds = {}
  BY <1>1 DEF AgentIds
<1>5. ReadsHold
  BY <1>1 DEF ReadsHold, ReadAt
<1>6. UsersCounted /\ AgentsNeeded /\ DisposedApi
  BY <1>1, <1>2, <1>4 DEF UsersCounted, AgentsNeeded, DisposedApi
<1> QED BY <1>3, <1>5, <1>6 DEF ApiInv

LEMMA AgentTyped ==
    ASSUME ApiTypeOK
    PROVE  /\ AgentIds = 1..Len(apiAgents) /\ Len(apiAgents) \in Nat
           /\ \A i \in AgentIds : /\ apiAgents[i] \in AgentRecords /\ apiAgents[i].users \in Nat
                                  /\ apiAgents[i].open \in BOOLEAN
<1>1. apiAgents \in Seq(AgentRecords)
  BY DEF ApiTypeOK
<1>2. AgentIds = 1..Len(apiAgents) /\ Len(apiAgents) \in Nat
  BY <1>1 DEF AgentIds
<1>3. ASSUME NEW i \in AgentIds PROVE apiAgents[i] \in AgentRecords
  BY <1>1, <1>2
<1> QED BY <1>2, <1>3 DEF AgentRecords

\* A read queues, is granted its slot or gives up: no agent is concerned.
LEMMA ReadMoves ==
    ASSUME ApiInv, NEW r \in ApiReads,
           ReadBegins(r) \/ ReadGranted(r) \/ AuthFails(r) \/ ReadAborts(r)
    PROVE  ApiInv'
<1>1. ApiTypeOK /\ apiRead[r] \in ApiRecords
  BY DEF ApiInv, ApiTypeOK
<1>2. PICK place \in ApiPlaces \ {"fetch"} :
        /\ apiRead' = [apiRead EXCEPT ![r].at = place] /\ apiRead[r].at # "fetch"
        /\ UNCHANGED <<apiAgents, apiCurrent, apiDisposed>>
        /\ apiDisposed => place \notin {"queued", "auth"}
  <2>0. {"idle", "queued", "auth", "over"} \subseteq ApiPlaces \ {"fetch"}
    BY DEF ApiPlaces
  <2>1. CASE ReadBegins(r)
    <3>1. /\ apiRead' = [apiRead EXCEPT ![r].at = IF apiDisposed THEN "over" ELSE "queued"]
          /\ apiRead[r].at # "fetch" /\ UNCHANGED <<apiAgents, apiCurrent, apiDisposed>>
      BY <2>1 DEF ReadBegins, ReadAt
    <3>2. CASE apiDisposed
      BY <2>0, <3>1, <3>2
    <3>3. CASE ~apiDisposed
      BY <2>0, <3>1, <3>3
    <3> QED BY <3>2, <3>3
  <2>2. CASE ReadGranted(r)
    <3>1. /\ apiRead' = [apiRead EXCEPT ![r].at = "auth"] /\ apiRead[r].at = "queued"
          /\ UNCHANGED <<apiAgents, apiCurrent, apiDisposed>>
      BY <2>2 DEF ReadGranted, ReadAt
    <3>2. ~apiDisposed
      BY <3>1 DEF ApiInv, DisposedApi
    <3> QED BY <2>0, <3>1, <3>2
  <2>3. CASE AuthFails(r) \/ ReadAborts(r)
    <3>1. /\ apiRead' = [apiRead EXCEPT ![r].at = "over"] /\ apiRead[r].at # "fetch"
          /\ UNCHANGED <<apiAgents, apiCurrent, apiDisposed>>
      BY <1>1, <2>3 DEF AuthFails, ReadAborts, ReadAt, GivenUp, ApiTypeOK
    <3> QED BY <2>0, <3>1
  <2> QED BY <2>1, <2>2, <2>3
<1> DEFINE moved == [apiRead[r] EXCEPT !.at = place]
<1>3. moved \in ApiRecords /\ moved.at = place /\ apiRead' = [apiRead EXCEPT ![r] = moved]
  BY <1>1, <1>2 DEF ApiRecords
<1> HIDE DEF moved
<1>4. /\ apiRead' \in [ApiReads -> ApiRecords] /\ apiRead'[r].at = place
      /\ \A q \in ApiReads \ {r} : apiRead'[q] = apiRead[q]
  BY <1>1, <1>3 DEF ApiTypeOK
<1>5. \A i : Borrowed(i)' = Borrowed(i)
  BY <1>2, <1>4 DEF Borrowed, ReadAt
<1>6. AgentIds' = AgentIds
  BY <1>2 DEF AgentIds
<1>7. ApiTypeOK'
  BY <1>1, <1>2, <1>4 DEF ApiTypeOK
<1>8. UsersCounted' /\ AgentsNeeded'
  BY <1>2, <1>5, <1>6 DEF ApiInv, UsersCounted, AgentsNeeded
<1>9. ReadsHold' /\ DisposedApi'
  BY <1>2, <1>4, <1>6 DEF ApiInv, ReadsHold, DisposedApi, ReadAt
<1> QED BY <1>7, <1>8, <1>9 DEF ApiInv

\* The pool has these credentials: one more reads from its agent.
LEMMA ReuseKeeps ==
    ASSUME ApiInv, NEW r \in ApiReads, NEW creds \in Credentials, Authenticated(r, creds),
           apiCurrent # 0, apiAgents[apiCurrent].creds = creds
    PROVE  ApiInv'
<1>0. PICK n : n = apiCurrent
  OBVIOUS
<1> DEFINE more == [apiAgents[n] EXCEPT !.users = @ + 1]
           reads == [at |-> "fetch", agent |-> n]
<1>1. ApiTypeOK /\ UsersCounted /\ AgentsNeeded /\ ReadsHold /\ DisposedApi
  BY DEF ApiInv
<1>2. /\ ReadAt(r, "auth") /\ apiAgents' = [apiAgents EXCEPT ![n].users = @ + 1]
      /\ apiRead' = [apiRead EXCEPT ![r] = reads] /\ UNCHANGED <<apiCurrent, apiDisposed>>
  BY <1>0 DEF Authenticated
<1>3. n \in AgentIds /\ apiAgents[n] \in AgentRecords /\ apiAgents[n].open /\ apiAgents[n].users \in Nat
  BY <1>0, <1>1, AgentTyped DEF AgentsNeeded
<1>4. /\ more \in AgentRecords /\ more.open /\ more.users = apiAgents[n].users + 1
      /\ apiAgents' = [apiAgents EXCEPT ![n] = more]
  BY <1>2, <1>3 DEF AgentRecords
<1>5. reads \in ApiRecords /\ reads.at = "fetch" /\ reads.agent = n
  BY <1>0, <1>1 DEF ApiRecords, ApiPlaces, ApiTypeOK
<1> HIDE DEF more, reads
<1>6. /\ apiAgents' \in Seq(AgentRecords) /\ AgentIds' = AgentIds /\ apiAgents'[n] = more
      /\ \A i \in AgentIds \ {n} : apiAgents'[i] = apiAgents[i]
  BY <1>1, <1>3, <1>4 DEF ApiTypeOK, AgentIds
<1>7. /\ apiRead' \in [ApiReads -> ApiRecords] /\ apiRead'[r] = reads
      /\ \A q \in ApiReads \ {r} : apiRead'[q] = apiRead[q]
  BY <1>1, <1>2, <1>5 DEF ApiTypeOK
<1>8. /\ Borrowed(n)' = Borrowed(n) \cup {r} /\ r \notin Borrowed(n)
      /\ \A i \in AgentIds \ {n} : Borrowed(i)' = Borrowed(i)
  <2>1. ASSUME NEW i PROVE r \notin Borrowed(i) /\ Borrowed(i)' = IF i = n THEN Borrowed(i) \cup {r} ELSE Borrowed(i)
    BY <1>2, <1>5, <1>7 DEF Borrowed, ReadAt
  <2> QED BY <2>1
<1>9. IsFiniteSet(Borrowed(n)') /\ Cardinality(Borrowed(n)') = Cardinality(Borrowed(n)) + 1
  BY <1>1, <1>3, <1>8, FS_AddElement DEF UsersCounted
<1>10. ApiTypeOK'
  BY <1>1, <1>2, <1>6, <1>7 DEF ApiTypeOK
<1>11. UsersCounted'
  <2>1. ASSUME NEW i \in AgentIds PROVE IsFiniteSet(Borrowed(i)') /\ apiAgents'[i].users = Cardinality(Borrowed(i)')
    <3>1. IsFiniteSet(Borrowed(i)) /\ apiAgents[i].users = Cardinality(Borrowed(i))
      BY <1>1 DEF UsersCounted
    <3>2. CASE i = n
      BY <1>4, <1>6, <1>9, <3>1, <3>2
    <3>3. CASE i # n
      BY <1>6, <1>8, <3>1, <3>3
    <3> QED BY <3>2, <3>3
  <2> QED BY <1>6, <2>1 DEF UsersCounted
<1>12. AgentsNeeded'
  <2>1. ASSUME NEW i \in AgentIds, apiAgents'[i].open PROVE i = n \/ Borrowed(i)' # {}
    BY <1>0, <1>1, <1>6, <1>8, <2>1 DEF AgentsNeeded
  <2> QED BY <1>0, <1>2, <1>3, <1>4, <1>6, <2>1 DEF AgentsNeeded
<1>13. ~apiDisposed /\ ~apiDisposed'
  BY <1>1, <1>2 DEF DisposedApi
<1>14. ReadsHold'
  BY <1>1, <1>3, <1>4, <1>5, <1>6, <1>7, <1>13 DEF ReadsHold, ReadAt
<1>15. DisposedApi'
  BY <1>13 DEF DisposedApi
<1> QED BY <1>10, <1>11, <1>12, <1>14, <1>15 DEF ApiInv

\* New credentials begin a new pool; the old agent goes unless it is read from.
LEMMA RenewKeeps ==
    ASSUME ApiInv, NEW r \in ApiReads, NEW creds \in Credentials, Authenticated(r, creds),
           ~(apiCurrent # 0 /\ apiAgents[apiCurrent].creds = creds)
    PROVE  ApiInv'
<1>0. PICK n : n = Len(apiAgents) + 1
  OBVIOUS
<1> DEFINE fresh == [creds |-> creds, users |-> 1, open |-> TRUE]
           agents == Append(apiAgents, fresh)
           reads == [at |-> "fetch", agent |-> n]
<1>1. ApiTypeOK /\ UsersCounted /\ AgentsNeeded /\ ReadsHold /\ DisposedApi
  BY DEF ApiInv
<1>2. /\ ReadAt(r, "auth") /\ apiCurrent' = n /\ UNCHANGED apiDisposed
      /\ apiAgents' = IF apiCurrent = 0 THEN agents ELSE Retire(agents, apiCurrent, n)
      /\ apiRead' = [apiRead EXCEPT ![r] = reads]
  BY <1>0 DEF Authenticated
<1>3. /\ AgentIds = 1..Len(apiAgents) /\ n \in Nat /\ n # 0 /\ n \notin AgentIds
      /\ \A i \in AgentIds : apiAgents[i] \in AgentRecords
  BY <1>0, <1>1, AgentTyped
<1>4. fresh \in AgentRecords /\ fresh.open /\ fresh.users = 1
  BY DEF AgentRecords
<1>5. reads \in ApiRecords /\ reads.at = "fetch" /\ reads.agent = n
  BY <1>3 DEF ApiRecords, ApiPlaces
<1>6. /\ agents \in Seq(AgentRecords) /\ Len(agents) = n /\ agents[n] = fresh
      /\ \A i \in AgentIds : agents[i] = apiAgents[i]
  <2> HIDE DEF fresh
  <2> QED BY <1>0, <1>1, <1>3, <1>4 DEF ApiTypeOK
<1> HIDE DEF fresh, agents, reads
<1>7. /\ apiAgents' \in Seq(AgentRecords) /\ AgentIds' = AgentIds \cup {n} /\ apiAgents'[n] = fresh
      /\ \A i \in AgentIds :
            /\ apiAgents'[i].users = apiAgents[i].users
            /\ \/ apiAgents'[i].open = apiAgents[i].open /\ (i = apiCurrent => apiAgents[i].users # 0)
               \/ i = apiCurrent /\ apiAgents[i].users = 0 /\ ~apiAgents'[i].open
  <2>1. CASE apiCurrent = 0
    <3>1. apiAgents' = agents
      BY <1>2, <2>1
    <3>2. DOMAIN apiAgents' = 1..n
      BY <1>6, <3>1
    <3> QED BY <1>0, <1>3, <1>6, <2>1, <3>1, <3>2 DEF AgentIds
  <2>2. CASE apiCurrent # 0
    <3> DEFINE c == apiCurrent
               shut == [apiAgents[c] EXCEPT !.open = FALSE]
    <3>1. c \in AgentIds /\ c # n /\ apiAgents' = Retire(agents, c, n) /\ apiAgents[c] \in AgentRecords
      BY <1>1, <1>2, <1>3, <2>2 DEF AgentsNeeded
    <3>2. shut \in AgentRecords /\ shut.open = FALSE /\ shut.users = apiAgents[c].users
      BY <3>1 DEF AgentRecords
    <3>3. apiAgents' = IF apiAgents[c].users = 0 THEN [agents EXCEPT ![c] = shut] ELSE agents
      BY <1>6, <3>1 DEF Retire
    <3> HIDE DEF shut
    <3>4. CASE apiAgents[c].users = 0
      <4>1. /\ apiAgents' \in Seq(AgentRecords) /\ DOMAIN apiAgents' = 1..n /\ apiAgents'[c] = shut
            /\ \A i \in 1..n : i # c => apiAgents'[i] = agents[i]
        BY <1>3, <1>6, <3>1, <3>2, <3>3, <3>4
      <4>2. 1..n = AgentIds \cup {n} /\ n \in 1..n
        BY <1>0, <1>1, <1>3, AgentTyped
      <4> QED BY <1>6, <3>1, <3>2, <3>4, <4>1, <4>2 DEF AgentIds
    <3>5. CASE apiAgents[c].users # 0
      <4>1. apiAgents' = agents
        BY <3>3, <3>5
      <4>2. DOMAIN apiAgents' = 1..n
        BY <1>6, <4>1
      <4> QED BY <1>0, <1>3, <1>6, <3>5, <4>1, <4>2 DEF AgentIds
    <3> QED BY <3>4, <3>5
  <2> QED BY <2>1, <2>2
<1>8. /\ apiRead' \in [ApiReads -> ApiRecords] /\ apiRead'[r] = reads
      /\ \A q \in ApiReads \ {r} : apiRead'[q] = apiRead[q]
  BY <1>1, <1>2, <1>5 DEF ApiTypeOK
<1>9. /\ Borrowed(n)' = {r} /\ \A i \in AgentIds : Borrowed(i)' = Borrowed(i)
  <2>1. ASSUME NEW i PROVE r \notin Borrowed(i) /\ Borrowed(i)' = IF i = n THEN Borrowed(i) \cup {r} ELSE Borrowed(i)
    BY <1>2, <1>5, <1>8 DEF Borrowed, ReadAt
  <2>2. Borrowed(n) = {}
    BY <1>1, <1>3 DEF Borrowed, ReadsHold
  <2> QED BY <1>3, <2>1, <2>2
<1>10. IsFiniteSet({r}) /\ Cardinality({r}) = 1
  BY FS_Singleton
<1>11. ApiTypeOK'
  BY <1>1, <1>2, <1>3, <1>7, <1>8 DEF ApiTypeOK
<1>12. UsersCounted'
  <2>1. ASSUME NEW i \in AgentIds PROVE IsFiniteSet(Borrowed(i)') /\ apiAgents'[i].users = Cardinality(Borrowed(i)')
    BY <1>1, <1>7, <1>9 DEF UsersCounted
  <2>2. IsFiniteSet(Borrowed(n)') /\ apiAgents'[n].users = Cardinality(Borrowed(n)')
    BY <1>4, <1>7, <1>9, <1>10
  <2> QED BY <1>7, <2>1, <2>2 DEF UsersCounted
<1>13. ASSUME NEW i \in AgentIds PROVE apiAgents[i].users = 0 <=> Borrowed(i) = {}
  BY <1>1, FS_EmptySet, FS_CardinalityType DEF UsersCounted
<1>14. AgentsNeeded'
  <2>1. ASSUME NEW i \in AgentIds, apiAgents'[i].open PROVE Borrowed(i)' # {}
    <3>1. apiAgents[i].open /\ (i = apiCurrent => apiAgents[i].users # 0)
      BY <1>7, <2>1
    <3> QED BY <1>1, <1>9, <1>13, <3>1 DEF AgentsNeeded
  <2> QED BY <1>2, <1>4, <1>7, <2>1 DEF AgentsNeeded
<1>15. ~apiDisposed /\ ~apiDisposed'
  BY <1>1, <1>2 DEF DisposedApi, ReadAt
<1>16. ReadsHold'
  <2> SUFFICES ASSUME NEW q \in ApiReads, apiRead'[q].at = "fetch"
               PROVE  apiRead'[q].agent \in AgentIds' /\ apiAgents'[apiRead'[q].agent].open
    BY DEF ReadsHold, ReadAt
  <2>1. CASE q = r
    BY <1>4, <1>5, <1>7, <1>8, <2>1
  <2>2. CASE q # r
    <3> DEFINE i == apiRead[q].agent
    <3>1. apiRead'[q] = apiRead[q] /\ i \in AgentIds /\ apiAgents[i].open /\ q \in Borrowed(i)
      BY <1>1, <1>8, <1>15, <2>2 DEF ReadsHold, ReadAt, Borrowed
    <3>2. apiAgents[i].users # 0
      BY <1>13, <3>1
    <3> QED BY <1>7, <3>1, <3>2
  <2> QED BY <2>1, <2>2
<1>17. DisposedApi'
  BY <1>15 DEF DisposedApi
<1> QED BY <1>11, <1>12, <1>14, <1>16, <1>17 DEF ApiInv

\* A read ends; the last one from an agent that is not current takes it along.
LEMMA ReadEndKeeps ==
    ASSUME ApiInv, NEW r \in ApiReads, ReadEnds(r)
    PROVE  ApiInv'
<1>0. PICK n : n = apiRead[r].agent
  OBVIOUS
<1> DEFINE less == [apiAgents[n] EXCEPT !.users = @ - 1]
           shut == [less EXCEPT !.open = FALSE]
           over == [apiRead[r] EXCEPT !.at = "over"]
<1>1. ApiTypeOK /\ UsersCounted /\ AgentsNeeded /\ ReadsHold /\ DisposedApi
  BY DEF ApiInv
<1>2. /\ ReadAt(r, "fetch") /\ UNCHANGED <<apiCurrent, apiDisposed>>
      /\ apiRead' = [apiRead EXCEPT ![r].at = "over"]
      /\ apiAgents' = Retire([apiAgents EXCEPT ![n].users = @ - 1], n, apiCurrent)
  BY <1>0 DEF ReadEnds
<1>3. /\ n \in AgentIds /\ apiAgents[n] \in AgentRecords /\ apiAgents[n].users \in Nat
      /\ r \in Borrowed(n) /\ apiRead[r] \in ApiRecords
  BY <1>0, <1>1, <1>2, AgentTyped DEF ReadsHold, Borrowed, ReadAt, ApiTypeOK
<1>4. over \in ApiRecords /\ over.at = "over" /\ apiRead' = [apiRead EXCEPT ![r] = over]
  BY <1>2, <1>3 DEF ApiRecords, ApiPlaces
<1> HIDE DEF over
<1>5. /\ apiRead' \in [ApiReads -> ApiRecords] /\ apiRead'[r].at = "over"
      /\ \A q \in ApiReads \ {r} : apiRead'[q] = apiRead[q]
  BY <1>1, <1>4 DEF ApiTypeOK
<1>6. /\ Borrowed(n)' = Borrowed(n) \ {r} /\ \A i \in AgentIds \ {n} : Borrowed(i)' = Borrowed(i)
  <2>1. ASSUME NEW i PROVE Borrowed(i)' = IF i = n THEN Borrowed(i) \ {r} ELSE Borrowed(i)
    BY <1>0, <1>2, <1>5 DEF Borrowed, ReadAt
  <2> QED BY <2>1
<1>7. /\ IsFiniteSet(Borrowed(n)) /\ Cardinality(Borrowed(n)) = apiAgents[n].users
  BY <1>1, <1>3 DEF UsersCounted
<1>8. IsFiniteSet(Borrowed(n)') /\ Cardinality(Borrowed(n)') = apiAgents[n].users - 1
      /\ apiAgents[n].users - 1 \in Nat
  <2>1. IsFiniteSet(Borrowed(n) \ {r}) /\ Cardinality(Borrowed(n) \ {r}) = Cardinality(Borrowed(n)) - 1
    BY <1>3, <1>7, FS_RemoveElement
  <2>2. Cardinality(Borrowed(n) \ {r}) \in Nat
    BY <2>1, FS_CardinalityType
  <2> QED BY <1>6, <1>7, <2>1, <2>2
<1>9. /\ less \in AgentRecords /\ less.users = apiAgents[n].users - 1 /\ less.open = apiAgents[n].open
      /\ [apiAgents EXCEPT ![n].users = @ - 1] = [apiAgents EXCEPT ![n] = less]
  BY <1>3, <1>8 DEF AgentRecords
<1> HIDE DEF less
<1>10. shut \in AgentRecords /\ shut.users = less.users /\ shut.open = FALSE
  BY <1>9 DEF AgentRecords
<1> HIDE DEF shut
<1>11. \/ apiAgents' = [apiAgents EXCEPT ![n] = less] /\ (n = apiCurrent \/ less.users # 0)
       \/ apiAgents' = [apiAgents EXCEPT ![n] = shut] /\ n # apiCurrent /\ less.users = 0
  <2> DEFINE A == [apiAgents EXCEPT ![n] = less]
  <2>1. A[n] = less /\ apiAgents' = Retire(A, n, apiCurrent)
    BY <1>2, <1>3, <1>9 DEF AgentIds
  <2>2. [A EXCEPT ![n].open = FALSE] = [apiAgents EXCEPT ![n] = shut]
    BY <1>3 DEF AgentIds, shut
  <2> HIDE DEF A
  <2>3. CASE n # apiCurrent /\ less.users = 0
    BY <2>1, <2>2, <2>3 DEF Retire
  <2>4. CASE ~(n # apiCurrent /\ less.users = 0)
    BY <2>1, <2>4 DEF Retire, A
  <2> QED BY <2>3, <2>4
<1>12. /\ apiAgents' \in Seq(AgentRecords) /\ AgentIds' = AgentIds
       /\ \A i \in AgentIds \ {n} : apiAgents'[i] = apiAgents[i]
       /\ apiAgents'[n].users = apiAgents[n].users - 1
       /\ \/ apiAgents'[n].open = apiAgents[n].open /\ (n = apiCurrent \/ apiAgents'[n].users # 0)
          \/ apiAgents'[n].open = FALSE /\ n # apiCurrent /\ apiAgents'[n].users = 0
  <2>1. PICK a \in {less, shut} :
          /\ apiAgents' = [apiAgents EXCEPT ![n] = a]
          /\ \/ a = less /\ (n = apiCurrent \/ less.users # 0)
             \/ a = shut /\ n # apiCurrent /\ less.users = 0
    BY <1>11
  <2>2. a \in AgentRecords /\ apiAgents \in Seq(AgentRecords)
    BY <1>1, <1>9, <1>10 DEF ApiTypeOK
  <2>3. /\ apiAgents' \in Seq(AgentRecords) /\ AgentIds' = AgentIds /\ apiAgents'[n] = a
        /\ \A i \in AgentIds \ {n} : apiAgents'[i] = apiAgents[i]
    BY <1>3, <2>1, <2>2 DEF AgentIds
  <2> QED BY <1>9, <1>10, <2>1, <2>3
<1>13. ApiTypeOK'
  BY <1>1, <1>2, <1>5, <1>12 DEF ApiTypeOK
<1>14. UsersCounted'
  <2>1. ASSUME NEW i \in AgentIds PROVE IsFiniteSet(Borrowed(i)') /\ apiAgents'[i].users = Cardinality(Borrowed(i)')
    <3>1. IsFiniteSet(Borrowed(i)) /\ apiAgents[i].users = Cardinality(Borrowed(i))
      BY <1>1 DEF UsersCounted
    <3>2. CASE i = n
      BY <1>8, <1>12, <3>2
    <3>3. CASE i # n
      BY <1>6, <1>12, <3>1, <3>3
    <3> QED BY <3>2, <3>3
  <2> QED BY <1>12, <2>1 DEF UsersCounted
<1>15. apiAgents'[n].users = 0 <=> Borrowed(n)' = {}
  BY <1>8, <1>12, FS_EmptySet
<1>16. AgentsNeeded'
  <2>1. apiCurrent' # 0 => apiCurrent' \in AgentIds /\ apiAgents'[apiCurrent'].open
    <3>1. ASSUME apiCurrent # 0 PROVE apiCurrent \in AgentIds /\ apiAgents[apiCurrent].open
      BY <1>1, <3>1 DEF AgentsNeeded
    <3> QED BY <1>2, <1>12, <3>1
  <2>2. ASSUME NEW i \in AgentIds, apiAgents'[i].open PROVE i = apiCurrent \/ Borrowed(i)' # {}
    <3>1. CASE i = n
      BY <1>12, <1>15, <2>2, <3>1
    <3>2. CASE i # n
      BY <1>1, <1>6, <1>12, <2>2, <3>2 DEF AgentsNeeded
    <3> QED BY <3>1, <3>2
  <2> QED BY <1>2, <1>12, <2>1, <2>2 DEF AgentsNeeded
<1>17. ReadsHold'
  <2> SUFFICES ASSUME NEW q \in ApiReads, apiRead'[q].at = "fetch"
               PROVE  /\ apiRead'[q].agent \in AgentIds
                      /\ ~apiDisposed => apiAgents'[apiRead'[q].agent].open
    BY <1>2, <1>12 DEF ReadsHold, ReadAt
  <2> DEFINE i == apiRead[q].agent
  <2>1. q # r /\ apiRead'[q] = apiRead[q]
    BY <1>5
  <2>2. i \in AgentIds /\ (~apiDisposed => apiAgents[i].open) /\ q \in Borrowed(i)
    BY <1>1, <2>1 DEF ReadsHold, ReadAt, Borrowed
  <2>3. i = n => Borrowed(n)' # {}
    BY <1>6, <2>1, <2>2
  <2> HIDE DEF i
  <2>4. ~apiDisposed => apiAgents'[i].open
    BY <1>12, <1>15, <2>2, <2>3
  <2> QED BY <2>1, <2>2, <2>4 DEF i
<1>18. DisposedApi'
  BY <1>1, <1>2, <1>5, <1>12 DEF DisposedApi
<1> QED BY <1>13, <1>14, <1>16, <1>17, <1>18 DEF ApiInv

LEMMA DisposeApiKeeps ==
    ASSUME ApiInv, DisposeApi
    PROVE  ApiInv'
<1>1. ApiTypeOK /\ UsersCounted
  BY DEF ApiInv
<1>2. /\ apiDisposed' = TRUE /\ apiCurrent' = 0
      /\ apiRead' = [r \in ApiReads |-> GivenUp(apiRead[r])]
      /\ apiAgents' = [i \in AgentIds |-> [apiAgents[i] EXCEPT !.open = FALSE]]
  BY Zenon DEF DisposeApi, AgentIds
<1>3. ASSUME NEW r \in ApiReads
      PROVE  /\ apiRead'[r] \in ApiRecords /\ apiRead'[r].at \notin {"queued", "auth"}
             /\ apiRead'[r].at = "fetch" <=> apiRead[r].at = "fetch"
             /\ apiRead'[r].agent = apiRead[r].agent
  <2>1. apiRead[r] \in ApiRecords /\ apiRead'[r] = GivenUp(apiRead[r])
    BY <1>1, <1>2 DEF ApiTypeOK
  <2> QED BY <2>1 DEF GivenUp, ApiRecords, ApiPlaces
<1>4. ASSUME NEW i \in AgentIds
      PROVE  apiAgents'[i] \in AgentRecords /\ apiAgents'[i].users = apiAgents[i].users /\ ~apiAgents'[i].open
  <2>1. apiAgents[i] \in AgentRecords /\ apiAgents'[i] = [apiAgents[i] EXCEPT !.open = FALSE]
    BY <1>1, <1>2, AgentTyped
  <2> QED BY <2>1 DEF AgentRecords
<1>5. apiAgents' \in Seq(AgentRecords) /\ AgentIds' = AgentIds
  <2>1. AgentIds = 1..Len(apiAgents) /\ Len(apiAgents) \in Nat
    BY <1>1, AgentTyped
  <2>2. apiAgents' \in [1..Len(apiAgents) -> AgentRecords] /\ DOMAIN apiAgents' = AgentIds
    BY <1>2, <1>4, <2>1
  <2> QED BY <2>1, <2>2, SeqDef DEF AgentIds
<1>6. apiRead' \in [ApiReads -> ApiRecords]
  BY <1>2, <1>3
<1>7. ApiTypeOK'
  BY <1>2, <1>5, <1>6 DEF ApiTypeOK
<1>8. \A i : Borrowed(i)' = Borrowed(i)
  BY <1>3 DEF Borrowed, ReadAt
<1>9. UsersCounted' /\ AgentsNeeded'
  BY <1>1, <1>2, <1>4, <1>5, <1>8 DEF UsersCounted, AgentsNeeded
<1>10. ReadsHold'
  BY <1>2, <1>3, <1>5 DEF ApiInv, ReadsHold, ReadAt
<1>11. DisposedApi'
  BY <1>2, <1>3, <1>4, <1>5 DEF DisposedApi
<1> QED BY <1>7, <1>9, <1>10, <1>11 DEF ApiInv

LEMMA ApiStep == ApiInv /\ [ApiNext]_apiVars => ApiInv'
<1> SUFFICES ASSUME ApiInv, [ApiNext]_apiVars PROVE ApiInv'
  OBVIOUS
<1>1. CASE UNCHANGED apiVars
  BY <1>1 DEF apiVars, ApiInv, ApiTypeOK, UsersCounted, AgentsNeeded, ReadsHold, DisposedApi, AgentIds,
              Borrowed, ReadAt
<1>2. ASSUME NEW r \in ApiReads, NEW creds \in Credentials, Authenticated(r, creds) PROVE ApiInv'
  BY <1>2, ReuseKeeps, RenewKeeps
<1> QED BY <1>1, <1>2, ReadMoves, ReadEndKeeps, DisposeApiKeeps DEF ApiNext

\* For any reads, credentials and number of slots: no agent is destroyed under a
\* read before the disposal, an agent counts its readers exactly, one that is
\* open is current or read from, and a disposal leaves none open (the pooled
\* agents of the TypeScript Kubernetes client).
THEOREM AgentsAreSound == ApiSpec => []AgentsSound
<1>1. ApiInv => AgentsSound
  <2> SUFFICES ASSUME ApiInv PROVE AgentsSound
    OBVIOUS
  <2>1. ApiTypeOK /\ UsersCounted /\ AgentsNeeded /\ ReadsHold /\ DisposedApi
    BY DEF ApiInv
  <2>2. Opened = {i \in AgentIds : apiAgents[i].open}
    BY DEF Opened, AgentIds
  <2> QED BY <2>1, <2>2 DEF AgentsSound, UsersCounted, AgentsNeeded, ReadsHold, DisposedApi, AgentIds
<1> QED BY <1>1, ApiStarts, ApiStep, PTL DEF ApiSpec

-----------------------------------------------------------------------------
(* The composition.                                                        *)

RoutesInv == AcqInv /\ RelayInv

LEMMA RoutesStep == RoutesInv /\ [Next]_toolboxVars => RoutesInv'
<1> SUFFICES ASSUME RoutesInv, [Next]_toolboxVars PROVE RoutesInv'
  OBVIOUS
<1>1. [AcquireNext]_acquireVars /\ [RelayNext]_relayVars
  BY DEF Next, Others, toolboxVars
<1> QED BY <1>1, AcqStep, RelayStep DEF RoutesInv

\* What two callers share is whole for both, in TypeScript.  An open connection
\* belongs to the race that opened it or to the cache under its key, and none is
\* left when the access is closed and its transport disposed, whatever is
\* aborted, expires or dies meanwhile; a target of a relay is served by its own
\* forward, a failed relay leaves nothing running, and its disposal ends with
\* nobody waiting.  For any keys, routes, calls, targets and limits.
THEOREM RoutesAreSound == Spec => []RoutesSound
<1>1. Init => RoutesInv
  BY AcqStarts, RelayStarts DEF Init, RoutesInv
<1>2. RoutesInv => RoutesSound
  BY AcqConcludes, RelayConcludes DEF RoutesInv, RoutesSound
<1> QED BY <1>1, <1>2, RoutesStep, PTL DEF Spec

=============================================================================
