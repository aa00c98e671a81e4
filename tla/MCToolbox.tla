------------------------------ MODULE MCToolbox ------------------------------
(* Eleven parts of the toolbox that own processes, connections and reads on  *)
(* behalf of others: in Python the worker channel, the log captures, the     *)
(* operations on one Pod and the call of a child process; in TypeScript      *)
(* the connections of a client, the shared forwards, the rounds of reads,    *)
(* the relay in a Pod, the reads of the API, the commands in a Pod and the   *)
(* stream of a log.  They share nothing but an event loop, so each behaviour *)
(* moves one.                                                                *)
EXTENDS KubeWorker, PodLog, KubeClient, ProcessScope, Acquire, ForwardScope, ReadScope,
        PodRelay, KubeApi

VARIABLE subject
toolboxVars == <<subject, workerVars, logVars, podVars, processVars,
                 acquireVars, scopeVars, readVars, relayVars, apiVars, sessionVars, streamVars>>

\* A log that fits, one that exceeds the capture limit, and a short one; two of
\* them together exhaust the total.
MCContent == [t \in {"l1", "l2", "l3"} |-> CASE t = "l1" -> 2 [] t = "l2" -> 3 [] OTHER -> 1]
\* Every operation on a Pod; MaxCalls of them meet in one run.
MCKind == [c \in {"exec", "logs", "forward", "delete", "ready", "deleted", "replaced"} |-> c]
\* A value that fits the budget of a round and one that does not; the first and
\* the third call read in one round.
MCBytes == [k \in {"a", "b"} |-> IF k = "a" THEN 1 ELSE 2]
MCRoundOf == <<"s1", "s2", "s1">>
\* Two calls share a target, and the third target exceeds the limit.
MCRelayTarget == [c \in {"q1", "q2", "q3", "q4"} |->
                    CASE c \in {"q1", "q2"} -> "e1" [] c = "q3" -> "e2" [] OTHER -> "e3"]

\* A log that the byte limits cut and a window divides, and one that repeats
\* a line.
MCLog == << [time |-> 1, text |-> "a"], [time |-> 2, text |-> "b"], [time |-> 2, text |-> "c"],
            [time |-> 3, text |-> "d"] >>
MCTwice == << [time |-> 1, text |-> "a"], [time |-> 2, text |-> "b"], [time |-> 2, text |-> "b"],
              [time |-> 3, text |-> "c"] >>
Shot(lines, since, until, limit) ==
    [lines |-> lines, since |-> since, until |-> until, limit |-> limit]
MCCaptures == { Shot(MCLog, 0, 0, 0), Shot(MCLog, 0, 0, 7), Shot(MCLog, 2, 0, 8),
                Shot(MCLog, 0, 2, 10), Shot(MCTwice, 0, 0, 0) }

Init == /\ subject \in {"worker", "logs", "pod", "process", "access", "scope", "reads",
                        "relay", "api", "exec", "stream"}
        /\ WorkerInit /\ LogInit /\ PodInit /\ ProcessInit
        /\ AcquireInit /\ ScopeInit /\ ReadInit
        /\ RelayInit /\ ApiInit /\ SessionInit /\ StreamInit
        /\ subject # "process" => unsent = 0 /\ child = "runs"
        /\ subject # "access" => acq = << >>
        /\ subject # "stream" => capture = Shot(MCLog, 0, 0, 0)

\* Only the subject moves.
Others(s) ==
    /\ UNCHANGED subject
    /\ s # "worker" => UNCHANGED workerVars
    /\ s # "logs" => UNCHANGED logVars
    /\ s # "pod" => UNCHANGED podVars
    /\ s # "process" => UNCHANGED processVars
    /\ s # "access" => UNCHANGED acquireVars
    /\ s # "scope" => UNCHANGED scopeVars
    /\ s # "reads" => UNCHANGED readVars
    /\ s # "relay" => UNCHANGED relayVars
    /\ s # "api" => UNCHANGED apiVars
    /\ s # "exec" => UNCHANGED sessionVars
    /\ s # "stream" => UNCHANGED streamVars

Next ==
    \/ subject = "worker" /\ WorkerNext /\ Others("worker")
    \/ subject = "logs" /\ LogNext /\ Others("logs")
    \/ subject = "pod" /\ PodNext /\ Others("pod")
    \/ subject = "process" /\ ProcessNext /\ Others("process")
    \/ subject = "access" /\ AcquireNext /\ Others("access")
    \/ subject = "scope" /\ ScopeNext /\ Others("scope")
    \/ subject = "reads" /\ ReadNext /\ Others("reads")
    \/ subject = "relay" /\ RelayNext /\ Others("relay")
    \/ subject = "api" /\ ApiNext /\ Others("api")
    \/ subject = "exec" /\ SessionNext /\ Others("exec")
    \/ subject = "stream" /\ StreamNext /\ Others("stream")

Spec == Init /\ [][Next]_toolboxVars
             /\ WF_toolboxVars(\/ subject = "process" /\ ProcessStep /\ Others("process")
                               \/ subject = "access" /\ Progress /\ Others("access")
                               \/ subject = "scope" /\ ScopeProgress /\ Others("scope")
                               \/ subject = "reads" /\ ReadProgress /\ Others("reads")
                               \/ subject = "relay" /\ RelayProgress /\ Others("relay")
                               \/ subject = "exec" /\ SessionProgress /\ Others("exec")
                               \/ subject = "stream" /\ StreamProgress /\ Others("stream"))

(* What two callers share is whole for both, in TypeScript: a connection is  *)
(* published or closed, and a relay leads everybody to their own target and  *)
(* leaves nothing running when it fails.                                     *)
RoutesSound == (subject = "access" => ConnectionsSound) /\ (subject = "relay" => RelaySound)

(* Work in a Pod, from Python and from TypeScript: on the instance that was  *)
(* named, at most once, with the answer it gave, and over when it is over;   *)
(* its logs within their byte budget, and what is said of them true of what  *)
(* was kept.                                                                 *)
PodWorkSound ==
    /\ subject = "pod" => PodCallsSound
    /\ subject = "exec" => ExecsSound
    /\ subject = "logs" => CapturesSound
    /\ subject = "stream" => StreamTells

(* Reads through a pool: rounds of a data loader and calls of the Kubernetes *)
(* API get what they asked for, over resources that outlive them and nobody  *)
(* else.                                                                     *)
QueriesSound == (subject = "reads" => ReadsSound) /\ (subject = "api" => AgentsSound)

(* However callers, peers and the cluster behave, a part that answers by     *)
(* deadlines of its own comes to rest: the call of a child process is over,  *)
(* no connection, forward, read, target, command or log is waited for, and no *)
(* disposal is under way.  (A run makes boundedly many calls, so at rest     *)
(* means answered.)                                                          *)
CallEnds ==
    []<>(/\ subject = "process" => CallOver
         /\ AccessQuiet /\ ScopeQuiet /\ ReadsQuiet /\ RelayQuiet /\ ExecsQuiet
         /\ StreamQuiet)

=============================================================================
