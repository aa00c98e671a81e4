------------------------------- MODULE KubeApi -------------------------------
(* The TypeScript Kubernetes client: the reads of the API and the commands in a *)
(* Pod.  Both authenticate behind a pool of slots before they open anything.   *)
EXTENDS Naturals, Sequences, FiniteSets

-----------------------------------------------------------------------------
(* toolbox/src/kubernetes/resource-transport.ts: reads of the Kubernetes API *)
(* over pooled agents.  Each read authenticates first, which builds an agent *)
(* of its own; the read borrows the pooled one if the credentials are those  *)
(* of the pool, else it begins a new pool, and the old one is retired after  *)
(* its last read.  Deadlines, callers and the disposal abort at any await.   *)

CONSTANTS
    ApiReads,      \* the reads
    ApiSlots,      \* limits.concurrency
    Credentials    \* what an authentication may answer: TLS and proxy settings

VARIABLES
    apiRead,       \* where each read stands and the agent it borrows
    apiAgents,     \* every PooledAgent ever made: its credentials, users, open
    apiCurrent,    \* #current, 0 if undefined
    apiDisposed

apiVars == <<apiRead, apiAgents, apiCurrent, apiDisposed>>

ASSUME ApiBounds == ApiSlots \in Nat \ {0}

ApiInit ==
    /\ apiRead = [r \in ApiReads |-> [at |-> "idle", agent |-> 0]]
    /\ apiAgents = << >> /\ apiCurrent = 0
    /\ apiDisposed = FALSE

ReadAt(r, at) == apiRead[r].at = at
Borrowed(entry) == {r \in ApiReads : ReadAt(r, "fetch") /\ apiRead[r].agent = entry}
Busy == {r \in ApiReads : apiRead[r].at \in {"auth", "fetch"}}

\* #retire: an agent that is not current is destroyed with its last user.
Retire(agents, entry, current) ==
    IF entry # current /\ agents[entry].users = 0
    THEN [agents EXCEPT ![entry].open = FALSE] ELSE agents

\* #read enters the pool, or is refused once its signal is aborted.
ReadBegins(r) ==
    /\ ReadAt(r, "idle")
    /\ apiRead' = [apiRead EXCEPT ![r].at = IF apiDisposed THEN "over" ELSE "queued"]
    /\ UNCHANGED <<apiAgents, apiCurrent, apiDisposed>>
ReadGranted(r) ==
    /\ ReadAt(r, "queued") /\ Cardinality(Busy) < ApiSlots
    /\ apiRead' = [apiRead EXCEPT ![r].at = "auth"]
    /\ UNCHANGED <<apiAgents, apiCurrent, apiDisposed>>

\* #authenticate resolves and #acquireAgent follows at once: the agent built on
\* the way is destroyed if the pool has these credentials already.
Authenticated(r, creds) ==
    /\ ReadAt(r, "auth")
    /\ IF apiCurrent # 0 /\ apiAgents[apiCurrent].creds = creds
       THEN /\ apiAgents' = [apiAgents EXCEPT ![apiCurrent].users = @ + 1]
            /\ apiRead' = [apiRead EXCEPT ![r] = [at |-> "fetch", agent |-> apiCurrent]]
            /\ UNCHANGED apiCurrent
       ELSE LET fresh == Len(apiAgents) + 1
                agents == Append(apiAgents, [creds |-> creds, users |-> 1, open |-> TRUE]) IN
            /\ apiAgents' = IF apiCurrent = 0 THEN agents ELSE Retire(agents, apiCurrent, fresh)
            /\ apiCurrent' = fresh
            /\ apiRead' = [apiRead EXCEPT ![r] = [at |-> "fetch", agent |-> fresh]]
    /\ UNCHANGED apiDisposed

AuthFails(r) ==
    /\ ReadAt(r, "auth") /\ apiRead' = [apiRead EXCEPT ![r].at = "over"]
    /\ UNCHANGED <<apiAgents, apiCurrent, apiDisposed>>

\* The response is consumed, or the request fails or is aborted.
ReadEnds(r) ==
    LET entry == apiRead[r].agent IN
    /\ ReadAt(r, "fetch")
    /\ apiRead' = [apiRead EXCEPT ![r].at = "over"]
    /\ apiAgents' = Retire([apiAgents EXCEPT ![entry].users = @ - 1], entry, apiCurrent)
    /\ UNCHANGED <<apiCurrent, apiDisposed>>

\* A deadline or the caller ends a read that waits; the agent that its
\* authentication may still build is destroyed as it appears.
GivenUp(read) == [read EXCEPT !.at = IF @ \in {"queued", "auth"} THEN "over" ELSE @]
ReadAborts(r) ==
    /\ apiRead[r].at \in {"queued", "auth"}
    /\ apiRead' = [apiRead EXCEPT ![r] = GivenUp(@)]
    /\ UNCHANGED <<apiAgents, apiCurrent, apiDisposed>>

\* dispose(): every read is aborted and every agent destroyed; fetches fail next.
DisposeApi ==
    /\ ~apiDisposed /\ apiDisposed' = TRUE
    /\ apiRead' = [r \in ApiReads |-> GivenUp(apiRead[r])]
    /\ apiAgents' = [i \in DOMAIN apiAgents |-> [apiAgents[i] EXCEPT !.open = FALSE]]
    /\ apiCurrent' = 0

ApiNext ==
    \/ DisposeApi
    \/ \E r \in ApiReads :
         \/ ReadBegins(r) \/ ReadGranted(r) \/ AuthFails(r) \/ ReadEnds(r)
         \/ ReadAborts(r) \/ \E creds \in Credentials : Authenticated(r, creds)

-----------------------------------------------------------------------------
Opened == {i \in DOMAIN apiAgents : apiAgents[i].open}

(* No agent is destroyed under a read before the disposal; every agent that  *)
(* is open is current or still read from, so retired credentials keep no     *)
(* connections and a disposal leaves none.                                   *)
AgentsSound ==
    /\ \A r \in ApiReads : ReadAt(r, "fetch") /\ ~apiDisposed => apiRead[r].agent \in Opened
    /\ \A i \in DOMAIN apiAgents : apiAgents[i].users = Cardinality(Borrowed(i))
    /\ \A i \in Opened : i = apiCurrent \/ Borrowed(i) # {}
    /\ apiDisposed => Opened = {}

-----------------------------------------------------------------------------
(* toolbox/src/kubernetes/exec-transport.ts: commands in a Pod, each over a  *)
(* WebSocket of its own, behind a pool of slots and never replayed.  The     *)
(* deadline covers the queue, the authentication and the session; callers    *)
(* abort whenever they like, and an authentication that was given up still   *)
(* ends.  Sessions with an input run kubectl instead and are left out.       *)

CONSTANTS
    Sessions,         \* calls of exec()
    SessionSlots,     \* limits.concurrency
    SessionBytes      \* limits.maxBytes, in frames of output

VARIABLES
    session,     \* where each call stands and how it ended
    building,    \* calls whose authentication runs, the given up ones included
    agentOf,     \* the agent each call holds: "none", "open", "destroyed"
    socketOf,    \* its WebSocket: "none", "open", "terminated"
    frames,      \* frames retained
    upgrades,    \* WebSockets ever opened for the call
    cause        \* what happened to it first

sessionVars == <<session, building, agentOf, socketOf, frames, upgrades, cause>>

ASSUME SessionBounds == SessionSlots \in Nat \ {0} /\ SessionBytes \in Nat

SessionInit ==
    /\ session = [x \in Sessions |-> "idle"] /\ building = {}
    /\ agentOf = [x \in Sessions |-> "none"] /\ socketOf = [x \in Sessions |-> "none"]
    /\ frames = [x \in Sessions |-> 0] /\ upgrades = [x \in Sessions |-> 0]
    /\ cause = [x \in Sessions |-> "none"]

SessionsRunning == {x \in Sessions : session[x] \in {"auth", "open"}}

ExecBegins(x) ==
    /\ session[x] = "idle" /\ session' = [session EXCEPT ![x] = "queued"]
    /\ UNCHANGED <<building, agentOf, socketOf, frames, upgrades, cause>>
ExecGranted(x) ==
    /\ session[x] = "queued" /\ Cardinality(SessionsRunning) < SessionSlots
    /\ session' = [session EXCEPT ![x] = "auth"] /\ building' = building \cup {x}
    /\ UNCHANGED <<agentOf, socketOf, frames, upgrades, cause>>

\* finish(): the first call settles the promise, closes the socket and destroys
\* the agent.
FinishSession(x, how, why) ==
    /\ session' = [session EXCEPT ![x] = how] /\ cause' = [cause EXCEPT ![x] = why]
    /\ socketOf' = [socketOf EXCEPT ![x] = IF @ = "open" THEN "terminated" ELSE @]
    /\ agentOf' = [agentOf EXCEPT ![x] = IF @ = "open" THEN "destroyed" ELSE @]

\* A deadline is an answer, an abort of the caller an error; in the queue the
\* pool lets go of the call, later the listener finishes it.
SessionAborts(x, why) ==
    /\ session[x] \in {"queued", "auth", "open"}
    /\ FinishSession(x, IF why = "deadline" THEN "timedOut" ELSE "aborted", why)
    /\ UNCHANGED <<building, frames, upgrades>>

\* Neither settled nor aborted.
StillThere(x) == session[x] = "auth"

\* The authentication ends with an agent: the socket opens over it, or it is
\* destroyed because the call is over.
AuthEnds(x) ==
    /\ x \in building /\ building' = building \ {x}
    /\ IF StillThere(x)
       THEN /\ agentOf' = [agentOf EXCEPT ![x] = "open"] /\ socketOf' = [socketOf EXCEPT ![x] = "open"]
            /\ upgrades' = [upgrades EXCEPT ![x] = @ + 1]
            /\ session' = [session EXCEPT ![x] = "open"]
       ELSE /\ agentOf' = [agentOf EXCEPT ![x] = "destroyed"]
            /\ UNCHANGED <<session, socketOf, upgrades>>
    /\ UNCHANGED <<frames, cause>>
AuthBreaks(x) ==
    /\ x \in building /\ building' = building \ {x}
    /\ IF session[x] = "auth" THEN FinishSession(x, "failed", "broken")
       ELSE UNCHANGED <<session, agentOf, socketOf, cause>>
    /\ UNCHANGED <<frames, upgrades>>

\* A frame of output, which the callback of the caller may reject.
Frame(x) ==
    /\ session[x] = "open"
    /\ frames' = [frames EXCEPT ![x] = @ + 1]
    /\ IF frames[x] + 1 > SessionBytes THEN FinishSession(x, "failed", "tooMuch")
       ELSE \/ FinishSession(x, "failed", "broken")
            \/ UNCHANGED <<session, agentOf, socketOf, cause>>
    /\ UNCHANGED <<building, upgrades>>

\* The frame of the status, unless the callback rejects the rest of the output.
Status(x) ==
    /\ session[x] = "open"
    /\ FinishSession(x, "exited", "status") \/ FinishSession(x, "failed", "broken")
    /\ UNCHANGED <<building, frames, upgrades>>

\* The upgrade is refused, the socket errs or closes, or a frame is invalid.
SocketBreaks(x) ==
    /\ session[x] = "open" /\ FinishSession(x, "failed", "broken")
    /\ UNCHANGED <<building, frames, upgrades>>

SessionProgress ==
    \E x \in Sessions : SessionAborts(x, "deadline") \/ AuthEnds(x) \/ AuthBreaks(x)
SessionNext ==
    \E x \in Sessions :
        \/ ExecBegins(x) \/ ExecGranted(x) \/ SessionAborts(x, "deadline") \/ SessionAborts(x, "caller")
        \/ AuthEnds(x) \/ AuthBreaks(x) \/ Frame(x) \/ Status(x) \/ SocketBreaks(x)

-----------------------------------------------------------------------------
SessionOver(x) == session[x] \in {"exited", "failed", "timedOut", "aborted"}

(* A call ends as what happened first says, whatever follows: an exit code   *)
(* is one that the Pod sent in time.  Once it is over nothing of it stays    *)
(* open, however late its authentication ends, and no command is sent twice  *)
(* or after its call.                                                        *)
ExecsSound ==
    /\ \A x \in Sessions :
         /\ SessionOver(x) =>
              /\ socketOf[x] # "open" /\ agentOf[x] # "open"
              /\ session[x] = "exited" <=> cause[x] = "status"
              /\ session[x] = "timedOut" <=> cause[x] = "deadline"
              /\ session[x] = "exited" => upgrades[x] = 1 /\ frames[x] <= SessionBytes
         /\ upgrades[x] <= 1
    /\ Cardinality(SessionsRunning) <= SessionSlots

(* No call waits for ever, and no authentication outlives them all.          *)
ExecsQuiet ==
    /\ \A x \in Sessions : session[x] \notin {"queued", "auth", "open"}
    /\ building = {}

=============================================================================
