------------------------------- MODULE PodRelay -------------------------------
(* toolbox/src/transport/pod-relay.ts: one script in an existing Pod opens a *)
(* listener per target, asked for over the stdin of one kubectl exec, and a  *)
(* port-forward leads to each.  Everybody who connects to a target shares    *)
(* its promise; the first failure ends the relay, and only the root owner    *)
(* disposes it.  kubectl and the script are external: they answer late, end  *)
(* on their own, and end when they are killed or their input closes.         *)
EXTENDS Naturals, FiniteSets

CONSTANTS
    RelayCalls,      \* calls of connect()
    RelayTarget,     \* the endpoint each of them asks for
    Signalled,       \* the calls that bring a signal of their own
    MaxTargets       \* options.maxTargets

VARIABLES
    relayStart,      \* #startup: "none", "select", "exec", "ready", "failed"
    relayExec,       \* #execution: "none", "up", "over"
    relayInput,      \* #input is open
    relayFailed,     \* #failure is set
    relayWay,        \* #targets: where the chain of each target stands
    relayWire,       \* requests the script has not answered
    relayForward,    \* the port-forward of each target: its process, held or not
    relayCaller,     \* the calls
    relayEnd         \* #disposal: "no", "targets", "processes", "done"

relayVars == <<relayStart, relayExec, relayInput, relayFailed, relayWay, relayWire,
               relayForward, relayCaller, relayEnd>>

RelayEndpoints == {RelayTarget[c] : c \in RelayCalls}
ASSUME RelayBounds == MaxTargets \in Nat \ {0} /\ Signalled \subseteq RelayCalls

RelayInit ==
    /\ relayStart = "none" /\ relayExec = "none" /\ relayInput = FALSE /\ relayFailed = FALSE
    /\ relayWay = [e \in RelayEndpoints |-> "none"] /\ relayWire = {}
    /\ relayForward = [e \in RelayEndpoints |-> [process |-> "none", held |-> FALSE, to |-> "none"]]
    /\ relayCaller = [c \in RelayCalls |-> "idle"] /\ relayEnd = "no"

Disposing == relayEnd # "no"
Asked == {e \in RelayEndpoints : relayWay[e] # "none"}

\* A process that is told to stop ends later, on its own.
Stopped(f) == [f EXCEPT !.held = FALSE, !.process = IF @ = "live" THEN "killed" ELSE @]

StopAll(forwards) == [e \in RelayEndpoints |-> IF forwards[e].held THEN Stopped(forwards[e]) ELSE forwards[e]]

\* #fail: the input closes, pending requests are rejected, forwards stop.
RelayFail ==
    /\ relayFailed' = TRUE /\ relayInput' = FALSE
    /\ relayWay' = [e \in RelayEndpoints |-> IF relayWay[e] = "request" THEN "failed" ELSE relayWay[e]]
    /\ relayForward' = StopAll(relayForward)
NoFail == UNCHANGED <<relayFailed, relayInput, relayWay, relayForward>>

-----------------------------------------------------------------------------
(* connect().                                                                *)

Known(c) == relayWay[RelayTarget[c]] # "none"
Full == Cardinality(Asked) >= MaxTargets

ConnectRefused(c) ==
    /\ relayCaller[c] = "idle"
    /\ relayFailed \/ (~Known(c) /\ Full)
    /\ relayCaller' = [relayCaller EXCEPT ![c] = "failed"]
    /\ UNCHANGED <<relayStart, relayExec, relayInput, relayFailed, relayWay, relayWire, relayForward, relayEnd>>

ConnectTo(c) ==
    /\ relayCaller[c] = "idle" /\ ~relayFailed
    /\ Known(c) \/ ~Full
    /\ relayCaller' = [relayCaller EXCEPT ![c] = "waits"]
    /\ IF Known(c) THEN UNCHANGED <<relayWay, relayStart>>
       ELSE /\ relayWay' = [relayWay EXCEPT ![RelayTarget[c]] = "startup"]
            /\ relayStart' = IF relayStart = "none" THEN "select" ELSE relayStart
    /\ UNCHANGED <<relayExec, relayInput, relayFailed, relayWire, relayForward, relayEnd>>

\* The promise of the target settles, or the caller's or the root's signal ends
\* the wait of the caller alone.
Served(c) ==
    /\ relayCaller[c] = "waits"
    /\ \/ relayWay[RelayTarget[c]] = "up" /\ relayCaller' = [relayCaller EXCEPT ![c] = "served"]
       \/ relayWay[RelayTarget[c]] = "failed" /\ relayCaller' = [relayCaller EXCEPT ![c] = "failed"]
       \/ Disposing /\ relayCaller' = [relayCaller EXCEPT ![c] = "failed"]
    /\ UNCHANGED <<relayStart, relayExec, relayInput, relayFailed, relayWay, relayWire, relayForward, relayEnd>>
CallerLeaves(c) ==
    /\ c \in Signalled
    /\ relayCaller[c] = "waits" /\ relayCaller' = [relayCaller EXCEPT ![c] = "left"]
    /\ UNCHANGED <<relayStart, relayExec, relayInput, relayFailed, relayWay, relayWire, relayForward, relayEnd>>

-----------------------------------------------------------------------------
(* #start.                                                                   *)

\* #select found a Pod that can run the script, and the exec begins; or it did
\* not, or the relay failed meanwhile.
SelectEnds ==
    /\ relayStart = "select"
    /\ \/ /\ ~relayFailed /\ relayStart' = "exec" /\ relayExec' = "up" /\ relayInput' = TRUE
          /\ UNCHANGED <<relayFailed, relayWay, relayForward>>
       \/ relayStart' = "failed" /\ RelayFail /\ UNCHANGED relayExec
    /\ UNCHANGED <<relayWire, relayCaller, relayEnd>>

\* The script says that it is ready, or the startup times out.
StartEnds ==
    /\ relayStart = "exec"
    /\ \/ ~relayFailed /\ relayExec = "up" /\ relayStart' = "ready" /\ NoFail
       \/ relayStart' = "failed" /\ RelayFail
    /\ UNCHANGED <<relayExec, relayWire, relayCaller, relayEnd>>

\* The exec ends, by itself or because its input closed or it was killed.
ExecEnds ==
    /\ relayExec = "up" /\ relayExec' = "over" /\ relayWire' = {}
    /\ relayStart' = IF relayStart = "exec" THEN "failed" ELSE relayStart
    /\ RelayFail
    /\ UNCHANGED <<relayCaller, relayEnd>>

\* The script answers with something that is no response, or the heartbeat
\* cannot be sent.
ControlLost ==
    /\ relayExec = "up" /\ ~relayFailed /\ RelayFail
    /\ UNCHANGED <<relayStart, relayExec, relayWire, relayCaller, relayEnd>>

-----------------------------------------------------------------------------
(* #connect, the chain of one target.                                        *)

Move(e, to) == relayWay' = [relayWay EXCEPT ![e] = to]

\* The startup is over: the request is sent, or there is nobody to send it to.
Request(e) ==
    /\ relayWay[e] = "startup" /\ relayStart \in {"ready", "failed"}
    /\ IF relayStart = "failed" \/ relayFailed THEN Move(e, "failed") /\ UNCHANGED relayWire
       ELSE Move(e, "request") /\ relayWire' = relayWire \cup {e}
    /\ UNCHANGED <<relayStart, relayExec, relayInput, relayFailed, relayForward, relayCaller, relayEnd>>

PendingOf(e) == {o \in {e} : relayWay[o] = "request"}

\* The script opened a listener for e, or could not; an answer to a request
\* that timed out is dropped.
ScriptAnswers(e) ==
    /\ relayExec = "up" /\ e \in relayWire /\ relayWire' = relayWire \ {e}
    /\ IF PendingOf(e) = {} THEN UNCHANGED <<relayWay, relayForward>>
       ELSE \E o \in PendingOf(e) :
            \/ Move(o, "failed") /\ UNCHANGED relayForward
            \/ Move(o, "forward") /\ relayForward' = [relayForward EXCEPT ![o].to = e]
    /\ UNCHANGED <<relayStart, relayExec, relayInput, relayFailed, relayCaller, relayEnd>>

RequestTimesOut(e) ==
    /\ relayWay[e] = "request" /\ Move(e, "failed")
    /\ UNCHANGED <<relayStart, relayExec, relayInput, relayFailed, relayWire, relayForward, relayCaller, relayEnd>>

\* startForward returned: the forward is held if the relay still stands, and
\* stopped if it failed meanwhile; or there is none, and it ended its process.
Forwarded(e) ==
    /\ relayWay[e] = "forward"
    /\ \/ ~relayFailed /\ Move(e, "up")
          /\ relayForward' = [relayForward EXCEPT ![e].process = "live", ![e].held = TRUE]
       \/ relayFailed /\ Move(e, "failed")
          /\ relayForward' = [relayForward EXCEPT ![e].process = "killed"]
       \/ Move(e, "failed") /\ UNCHANGED relayForward
    /\ UNCHANGED <<relayStart, relayExec, relayInput, relayFailed, relayWire, relayCaller, relayEnd>>

\* A process ends, killed or on its own: nobody looks at that of a target.
ForwardGone(e) ==
    /\ relayForward[e].process \in {"live", "killed"}
    /\ relayForward' = [relayForward EXCEPT ![e].process = "gone"]
    /\ UNCHANGED <<relayStart, relayExec, relayInput, relayFailed, relayWay, relayWire, relayCaller, relayEnd>>

-----------------------------------------------------------------------------
(* dispose().                                                                *)

DisposeRelay ==
    /\ ~Disposing /\ relayEnd' = "targets" /\ RelayFail
    /\ UNCHANGED <<relayStart, relayExec, relayWire, relayCaller>>

TargetSettled(e) == relayWay[e] \in {"none", "up", "failed"}
TargetsSettled ==
    /\ relayEnd = "targets" /\ \A e \in RelayEndpoints : TargetSettled(e)
    /\ relayEnd' = "processes"
    /\ UNCHANGED <<relayStart, relayExec, relayInput, relayFailed, relayWay, relayWire, relayForward, relayCaller>>
RelayDisposed ==
    /\ relayEnd = "processes" /\ relayExec # "up"
    /\ \A e \in RelayEndpoints : relayForward[e].process \in {"none", "gone"}
    /\ relayEnd' = "done"
    /\ UNCHANGED <<relayStart, relayExec, relayInput, relayFailed, relayWay, relayWire, relayForward, relayCaller>>

\* What ends by a deadline, a signal or a closed input of its own.
RelayProgress ==
    \/ SelectEnds \/ StartEnds \/ (~relayInput /\ ExecEnds) \/ TargetsSettled \/ RelayDisposed
    \/ \E e \in RelayEndpoints :
         \/ Request(e) \/ RequestTimesOut(e) \/ Forwarded(e)
         \/ relayForward[e].process = "killed" /\ ForwardGone(e)
    \/ \E c \in RelayCalls : Served(c)
RelayNext ==
    \/ SelectEnds \/ StartEnds \/ ExecEnds \/ ControlLost
    \/ DisposeRelay \/ TargetsSettled \/ RelayDisposed
    \/ \E e \in RelayEndpoints :
         Request(e) \/ ScriptAnswers(e) \/ RequestTimesOut(e) \/ Forwarded(e) \/ ForwardGone(e)
    \/ \E c \in RelayCalls : ConnectRefused(c) \/ ConnectTo(c) \/ Served(c) \/ CallerLeaves(c)

-----------------------------------------------------------------------------
(* Whoever is served reaches the target it asked for.  A relay that failed   *)
(* leaves no forward running for anybody, one that is disposed nothing at    *)
(* all, and the listeners stay within the limit.                             *)
RelaySound ==
    /\ \A e \in RelayEndpoints : relayWay[e] = "up" => relayForward[e].to = e
    /\ relayFailed => \A e \in RelayEndpoints : relayForward[e].process # "live"
    /\ Cardinality(Asked) <= MaxTargets
    /\ relayEnd = "done" =>
         /\ relayExec # "up" /\ relayStart \notin {"select", "exec"}
         /\ \A e \in RelayEndpoints : TargetSettled(e) /\ relayForward[e].process \in {"none", "gone"}

(* Nobody waits for a target, the remote script does not outlive a failed    *)
(* relay, and a disposal is over.                                            *)
RelayQuiet ==
    /\ \A c \in RelayCalls : relayCaller[c] # "waits"
    /\ ~(relayFailed /\ relayExec = "up")
    /\ relayEnd \in {"no", "done"}

=============================================================================
