------------------------------ MODULE PortForward ------------------------------
(* toolbox/harness_toolbox/kube_portforward.py: clients connect to Services *)
(* and Pods through kubectl tunnels that are shared, cached by the identity *)
(* (uid) of the resource, and owned by the transport's scope.  The cluster  *)
(* replaces resources, and tunnels die, at any moment.                      *)
EXTENDS Naturals, FiniteSets

CONSTANTS
    Clients,     \* connections that clients open
    Services,    \* resources selected by service_endpoint
    Pods,        \* resources found by the address of a Pod
    MaxUid       \* replacements of a resource a run may see

ASSUME TunnelBounds == MaxUid \in Nat \ {0}

Resources == Services \cup Pods
Uids == 1..MaxUid

VARIABLES
    uid,         \* the cluster: the identity behind each name
    known,       \* _services: the identity selected for each service, 0 if none
    conn,        \* each connection: where it stands, its target, identity and tunnel
    tunnel,      \* _tunnels: the tunnels the scope owns
    alive,       \* the kubectl processes that run
    scope,       \* "active", "closing" (awaits the lock) or "closed"
    lookup       \* a service_endpoint call between its read and its registration

forwardVars == <<uid, known, conn, tunnel, alive, scope, lookup>>

\* A tunnel is opened under a name and an identity, and reaches what that name
\* means when kubectl resolves it.
Tunnel == [res : Resources, uid : Uids, to : Uids]
NoTunnel == [res |-> "none", uid |-> 0, to |-> 0]
NewConn == [at |-> "new", res |-> "none", uid |-> 0, via |-> NoTunnel]
Inside == {"resolving", "resolved", "opening"}     \* the places that hold the lock
LockFree == \A c \in Clients : conn[c].at \notin Inside

ForwardInit ==
    /\ uid = [r \in Resources |-> 1] /\ known = [s \in Services |-> 0]
    /\ conn = [c \in Clients |-> NewConn]
    /\ tunnel = {} /\ alive = {} /\ scope = "active" /\ lookup = {}

Step(c, place) == conn' = [conn EXCEPT ![c].at = place]

\* The cluster: a Service or Pod is recreated under its name, a tunnel exits.
Replace(r) ==
    /\ uid[r] < MaxUid
    /\ uid' = [uid EXCEPT ![r] = @ + 1]
    /\ UNCHANGED <<known, conn, tunnel, alive, scope, lookup>>

Exits(t) ==
    /\ t \in alive
    /\ alive' = alive \ {t}
    /\ UNCHANGED <<uid, known, conn, tunnel, scope, lookup>>

\* service_endpoint: the service is read, and registered when the read returns.
LookUp(s) ==
    /\ scope = "active" /\ lookup = {}
    /\ lookup' = {[res |-> s, uid |-> uid[s]]}
    /\ UNCHANGED <<uid, known, conn, tunnel, alive, scope>>

Register ==
    /\ \E found \in lookup : known' = [known EXCEPT ![found.res] = found.uid]
    /\ lookup' = {}
    /\ UNCHANGED <<uid, conn, tunnel, alive, scope>>

Connect(c, r) ==
    /\ conn[c].at = "new"
    /\ r \in Services => known[r] # 0
    /\ conn' = [conn EXCEPT ![c].at = IF scope = "active" THEN "queued" ELSE "refused",
                            ![c].res = r]
    /\ UNCHANGED <<uid, known, tunnel, alive, scope, lookup>>

\* The lock is taken; the scope may have ended meanwhile.
TakeTurn(c) ==
    /\ conn[c].at = "queued" /\ LockFree
    /\ Step(c, IF scope = "active" THEN "resolving" ELSE "refused")
    /\ UNCHANGED <<uid, known, tunnel, alive, scope, lookup>>

\* _resource: the identity behind the address now; a service must still be the
\* one that was selected.  Reading it may fail, and no live Pod may match.
Resolve(c) ==
    /\ conn[c].at = "resolving"
    /\ LET r == conn[c].res
       IN  \/ /\ r \in Services => known[r] = uid[r]
              /\ conn' = [conn EXCEPT ![c].at = "resolved", ![c].uid = uid[r]]
           \/ Step(c, "failed")
    /\ UNCHANGED <<uid, known, tunnel, alive, scope, lookup>>

Cached(c) == {t \in tunnel : t.res = conn[c].res /\ t.uid = conn[c].uid}

\* A cached tunnel that is alive is shared.
Share(c) ==
    /\ conn[c].at = "resolved"
    /\ \E t \in Cached(c) \cap alive :
          conn' = [conn EXCEPT ![c].at = "open", ![c].via = t]
    /\ UNCHANGED <<uid, known, tunnel, alive, scope, lookup>>

\* A dead one is retired; kubectl resolves the name once more and opens a new
\* tunnel, or fails to.
Open(c) ==
    /\ conn[c].at = "resolved" /\ Cached(c) \cap alive = {}
    /\ tunnel' = tunnel \ Cached(c)
    /\ \/ \E t \in Tunnel :
             /\ t = [res |-> conn[c].res, uid |-> conn[c].uid, to |-> uid[conn[c].res]]
             /\ alive' = alive \cup {t}
             /\ conn' = [conn EXCEPT ![c].at = "opening", ![c].via = t]
       \/ Step(c, "failed") /\ UNCHANGED alive
    /\ UNCHANGED <<uid, known, scope, lookup>>

\* Mutant: the identity is not read again after the tunnel has opened.
KeepUnchecked(c) ==
    /\ conn[c].at = "opening"
    /\ Step(c, "open") /\ tunnel' = tunnel \cup {conn[c].via}
    /\ UNCHANGED <<uid, known, alive, scope, lookup>>
\* The identity is read again: the tunnel is kept and owned by the scope, or
\* closed because the resource was replaced, the read failed or was cancelled.
Keep(c) ==
    /\ conn[c].at = "opening"
    /\ \/ /\ uid[conn[c].res] = conn[c].uid
          /\ Step(c, "open") /\ tunnel' = tunnel \cup {conn[c].via}
          /\ UNCHANGED alive
       \/ /\ Step(c, "failed")
          /\ alive' = alive \ {conn[c].via}
          /\ UNCHANGED tunnel
    /\ UNCHANGED <<uid, known, scope, lookup>>

Finish(c) ==
    /\ conn[c].at = "open"
    /\ conn' = [conn EXCEPT ![c] = NewConn]
    /\ UNCHANGED <<uid, known, tunnel, alive, scope, lookup>>

LeaveScope ==
    /\ scope = "active"
    /\ scope' = "closing"
    /\ UNCHANGED <<uid, known, conn, tunnel, alive, lookup>>

\* __aexit__ under the lock: every owned tunnel is closed, under its users too.
CloseScope ==
    /\ scope = "closing" /\ LockFree
    /\ scope' = "closed" /\ tunnel' = {} /\ alive' = alive \ tunnel
    /\ known' = [s \in Services |-> 0]
    /\ UNCHANGED <<uid, conn, lookup>>

ForwardNext ==
    \/ \E r \in Resources : Replace(r) \/ \E c \in Clients : Connect(c, r)
    \/ \E s \in Services : LookUp(s)
    \/ Register \/ LeaveScope \/ CloseScope
    \/ \E t \in alive : Exits(t)
    \/ \E c \in Clients : TakeTurn(c) \/ Resolve(c) \/ Share(c) \/ Open(c) \/ Keep(c) \/ Finish(c)

-----------------------------------------------------------------------------
(* "Pod IPs may be reused during a long run": a connection is handed a     *)
(* tunnel that reaches the very resource it resolved, whatever was         *)
(* replaced while it resolved, waited or opened, and however old the       *)
(* cached tunnel is.                                                       *)
TunnelReachesTarget ==
    \A c \in Clients : conn[c].at = "open" =>
        conn[c].via.res = conn[c].res /\ conn[c].via.to = conn[c].uid

(* Every kubectl process is owned by the scope or by the one connection    *)
(* that opens it, so a closed scope leaves none behind.                    *)
TunnelsAreOwned ==
    /\ \A t \in alive \ tunnel : \E c \in Clients : conn[c].at = "opening" /\ conn[c].via = t
    /\ scope = "closed" => alive = {}

(* A tunnel reaches what it was opened for, and has an owner until it ends. *)
TunnelsSound == TunnelReachesTarget /\ TunnelsAreOwned

=============================================================================
