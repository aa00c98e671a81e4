------------------------------ MODULE KubeClient ------------------------------
(* toolbox/harness_toolbox/kube/client.py: operations on one physical Pod of *)
(* a name whose instances the cluster replaces at any time.  Exec, logs and  *)
(* tunnels have no precondition on the server, so the identity is read       *)
(* before and after; a deletion carries it; the waits poll it.  Disposal     *)
(* cancels and joins the operations before it closes what they opened.       *)
EXTENDS Naturals, FiniteSets

CONSTANTS
    Calls, Kind,      \* the calls of a run and what each does
    MaxCalls,         \* calls made in one run
    MaxInstances,     \* instances the name may have, one after the other
    ExecSlots         \* exec_concurrency

VARIABLES
    pod,         \* the instance behind the name, 0 when there is none
    last,        \* the last instance created
    health,      \* of the instance: "starting", "ready" or "deleting"
    stepOf,      \* where each call stands
    touched,     \* the instance a call's command, stream or deletion reached
    found,       \* the instance and its health in the answer of a wait
    tunnels,     \* the instance behind the tunnel a call opened, 0 for none
    shutdown     \* of the client: "none", "cancels", "closes" or "done"

podVars == <<pod, last, health, stepOf, touched, found, tunnels, shutdown>>
call == <<touched, found, tunnels>>
cluster == <<pod, last, health>>

Ref == 1     \* every call names the first instance
Ended == {"returned", "failed"}

ASSUME KubeBounds ==
    /\ MaxCalls \in Nat /\ MaxInstances \in Nat \ {0} /\ ExecSlots \in Nat \ {0}
    /\ Kind \in [Calls -> {"exec", "logs", "forward", "delete", "ready", "deleted", "replaced"}]

PodInit ==
    /\ pod = Ref /\ last = Ref /\ health = "starting"
    /\ stepOf = [c \in Calls |-> "new"] /\ touched = [c \in Calls |-> 0]
    /\ found = [c \in Calls |-> [uid |-> 0, health |-> "none"]]
    /\ tunnels = [c \in Calls |-> 0] /\ shutdown = "none"

\* What the cluster does by itself.
ClusterMoves ==
    /\ \/ pod # 0 /\ health = "starting" /\ health' = "ready" /\ UNCHANGED <<pod, last>>
       \/ pod # 0 /\ health' = "deleting" /\ UNCHANGED <<pod, last>>
       \/ pod # 0 /\ health = "deleting" /\ pod' = 0 /\ UNCHANGED <<last, health>>
       \/ /\ pod = 0 /\ last < MaxInstances
          /\ last' = last + 1 /\ pod' = last + 1 /\ health' = "starting"
    /\ UNCHANGED <<stepOf, call, shutdown>>

To(c, s) == stepOf' = [stepOf EXCEPT ![c] = s]
Slotted(c) == Kind[c] \in {"exec", "logs"}
\* Exec and port_forward are tasks that disposal cancels and joins.
Tracked(c) == Kind[c] \in {"exec", "forward"}
Executing == {c \in Calls : Slotted(c) /\ stepOf[c] \in {"before", "act", "after"}}

\* A call needs an initialized client that is not disposed.
Call(c) ==
    /\ stepOf[c] = "new" /\ Cardinality({d \in Calls : stepOf[d] # "new"}) < MaxCalls
    /\ To(c, IF shutdown # "none" THEN "failed"
             ELSE CASE Slotted(c) -> "slot" [] Kind[c] = "forward" -> "before" [] OTHER -> "poll")
    /\ UNCHANGED <<cluster, call, shutdown>>

EnterSlot(c) ==
    /\ stepOf[c] = "slot" /\ Cardinality(Executing) < ExecSlots
    /\ To(c, "before")
    /\ UNCHANGED <<cluster, call, shutdown>>

\* Mutant: the identity is not read again afterwards.
IdentityBefore(c) == stepOf[c] = "after" \/ pod = Ref
\* _require_identity, through an API that is still open.
Identity(c) == pod = Ref

CheckBefore(c) ==
    /\ stepOf[c] = "before"
    /\ To(c, IF Identity(c) /\ shutdown = "none" THEN "act" ELSE "failed")
    /\ UNCHANGED <<cluster, call, shutdown>>

\* kubectl exec, the log stream or a new port-forward reach whoever has the name.
Act(c) ==
    /\ stepOf[c] = "act"
    /\ To(c, IF pod = 0 THEN "failed" ELSE "after")
    /\ touched' = [touched EXCEPT ![c] = pod]
    /\ tunnels' = IF Kind[c] = "forward" THEN [tunnels EXCEPT ![c] = pod] ELSE tunnels
    /\ UNCHANGED <<cluster, found, shutdown>>

\* The tunnel of a call that fails is closed; that of one that returns is the client's.
CheckAfter(c) ==
    /\ stepOf[c] = "after"
    /\ LET ok == Identity(c) /\ shutdown = "none" IN
         /\ To(c, IF ok THEN "returned" ELSE "failed")
         /\ tunnels' = IF ok THEN tunnels ELSE [tunnels EXCEPT ![c] = 0]
    /\ UNCHANGED <<cluster, touched, found, shutdown>>

\* A timeout, a broken connection or the cancellation of the caller.
FailCall(c) ==
    /\ stepOf[c] \in {"slot", "before", "act", "after", "poll"}
    /\ To(c, "failed") /\ tunnels' = [tunnels EXCEPT ![c] = 0]
    /\ UNCHANGED <<cluster, touched, found, shutdown>>

Precondition == pod = Ref
Delete(c) ==
    /\ stepOf[c] = "poll" /\ Kind[c] = "delete" /\ shutdown \in {"none", "cancels"}
    /\ IF Precondition
       THEN health' = "deleting" /\ touched' = [touched EXCEPT ![c] = pod] /\ To(c, "returned")
       ELSE To(c, "failed") /\ UNCHANGED <<health, touched>>
    /\ UNCHANGED <<pod, last, found, tunnels, shutdown>>

\* One read of a poll: the answer that ends it, an identity that fails it, or
\* nothing yet.
Answer(c) ==
    CASE Kind[c] = "ready" -> pod = Ref /\ health = "ready"
      [] Kind[c] = "deleted" -> pod # Ref
      [] Kind[c] = "replaced" -> pod \notin {0, Ref}
      [] OTHER -> FALSE
Poll(c) ==
    /\ stepOf[c] = "poll" /\ Kind[c] # "delete" /\ shutdown \in {"none", "cancels"}
    /\ \/ /\ Answer(c) /\ To(c, "returned")
          /\ found' = [found EXCEPT ![c] = [uid |-> pod, health |-> health]]
       \/ /\ Kind[c] = "ready" /\ pod \notin {0, Ref}
          /\ To(c, "failed") /\ UNCHANGED found
    /\ UNCHANGED <<cluster, touched, tunnels, shutdown>>

DisposeClient ==
    /\ shutdown = "none" /\ shutdown' = "cancels"
    /\ UNCHANGED <<cluster, stepOf, call>>

Joined == \A c \in Calls : Tracked(c) => stepOf[c] \in Ended \cup {"new"}
CloseTunnels ==
    /\ shutdown = "cancels" /\ Joined
    /\ shutdown' = "closes" /\ tunnels' = [c \in Calls |-> IF stepOf[c] = "returned" THEN 0 ELSE tunnels[c]]
    /\ UNCHANGED <<cluster, stepOf, touched, found>>
CloseApi ==
    /\ shutdown = "closes" /\ shutdown' = "done"
    /\ UNCHANGED <<cluster, stepOf, call>>

PodNext ==
    \/ ClusterMoves \/ DisposeClient \/ CloseTunnels \/ CloseApi
    \/ \E c \in Calls : \/ Call(c) \/ EnterSlot(c) \/ CheckBefore(c) \/ Act(c) \/ CheckAfter(c)
                        \/ FailCall(c) \/ Delete(c) \/ Poll(c)

-----------------------------------------------------------------------------
(* A call that returns dealt with the Pod it named, however often the name  *)
(* was given to another meanwhile: its output, log or tunnel is from there, *)
(* no other instance is ever deleted, and a wait answers for the right one. *)
OnlyThePodNamed ==
    \A c \in Calls :
        /\ stepOf[c] = "returned" /\ Kind[c] \in {"exec", "logs", "forward"} => touched[c] = Ref
        /\ Kind[c] = "delete" => touched[c] \in {0, Ref}
        /\ stepOf[c] = "returned" /\ Kind[c] = "ready" => found[c] = [uid |-> Ref, health |-> "ready"]
        /\ stepOf[c] = "returned" /\ Kind[c] = "deleted" => pod # Ref
        /\ stepOf[c] = "returned" /\ Kind[c] = "replaced" => found[c].uid > Ref

(* A client that is disposed leaves nothing behind: no tunnel, no command   *)
(* of its own; and a tunnel outlives its call only as the client's own.     *)
DisposedIsQuiet ==
    /\ shutdown \in {"closes", "done"} =>
         \A c \in Calls : tunnels[c] = 0 /\ (Tracked(c) => stepOf[c] \in Ended \cup {"new"})
    /\ \A c \in Calls : stepOf[c] = "failed" => tunnels[c] = 0
    /\ Cardinality(Executing) <= ExecSlots

(* The right instance while the client lives, and nothing afterwards.       *)
PodCallsSound == OnlyThePodNamed /\ DisposedIsQuiet

=============================================================================
