------------------------------ MODULE FactGraph ------------------------------
(* trace_harness/loading/analysis.py: the facts of one trace lease.  Every *)
(* fact is computed by one shared task; the task prepares its dependencies *)
(* (evidence reads and other facts) in parallel, each in a child of its    *)
(* own, and a wait-for graph refuses the requests that would close a cycle. *)
(* A metric is such a task too, but waits without an entry in the graph.   *)
(*                                                                         *)
(* Abstracted: a fact is a name (a node and a fact name in the code); what *)
(* requires() returns is fixed before the run; a value is not modelled, so *)
(* a computation either succeeds or raises.                                *)
(*                                                                         *)
(* The TypeScript lease (loading/analysis.ts) is its twin: promises carry  *)
(* no context, so a request knows its parent and not its ancestors; a task *)
(* requests all it requires at once; and nothing is cancelled, so a closed *)
(* lease waits for its tasks, which look at it after every await.          *)
EXTENDS Naturals

CONSTANTS
    Facts,     \* keys of _facts
    Metrics,   \* names of _metrics
    Graphs     \* the dependency functions a run may have

VARIABLES
    deps,      \* what each fact and metric requires: facts, or Evidence
    task,      \* the shared task of each key
    stack,     \* the _ACTIVE context the task was created with, itself included
    waiting,   \* _waiting: the wait-for edges between facts
    kid,       \* the child that prepares one dependency of a task
    asked,     \* the keys that a caller outside any fact has asked for
    lease,     \* "active", "closing" (close() awaits the tasks) or "closed"
    factTwin   \* whose lease it is, Python's or TypeScript's

factVars == <<deps, task, stack, waiting, kid, asked, lease>>
twinFactVars == <<factTwin, factVars>>

Evidence == "evidence"
Keys == Facts \cup Metrics
Needs == Facts \cup {Evidence}

ASSUME FactsDisjoint == Evidence \notin Keys /\ Facts \cap Metrics = {}
ASSUME GraphsTyped == Graphs \subseteq [Keys -> SUBSET Needs]

Over(state) == state \in {"ok", "error", "cyclic", "cancelled"}
Live(k) == task[k] \in {"created", "running"}

FactInit ==
    /\ deps \in Graphs
    /\ task = [k \in Keys |-> "none"]
    /\ stack = [k \in Keys |-> {}]
    /\ waiting = [f \in Facts |-> {}]
    /\ kid = [k \in Keys |-> [d \in Needs |-> "none"]]
    /\ asked = {}
    /\ lease = "active"

\* create_task in a context: the task inherits the stack of its requester.
Created(k, from) ==
    IF task[k] = "none"
    THEN /\ task' = [task EXCEPT ![k] = "created"]
         /\ stack' = [stack EXCEPT ![k] = from \cup ({k} \cap Facts)]
    ELSE UNCHANGED <<task, stack>>

\* fact() or metric() from outside: the stack is empty, there is no parent.
\* The caller awaits the task behind a shield, so a caller that is cancelled
\* changes nothing; an ended lease refuses.
Request(k) ==
    /\ lease = "active" /\ k \notin asked
    /\ Created(k, {})
    /\ asked' = asked \cup {k}
    /\ UNCHANGED <<deps, waiting, kid, lease>>

\* The task starts and gathers one child per dependency.
Begin(k) ==
    /\ task[k] = "created"
    /\ task' = [task EXCEPT ![k] = "running"]
    /\ kid' = [kid EXCEPT ![k] = [d \in Needs |->
                 IF d \notin deps[k] THEN "none" ELSE IF d = Evidence THEN "waits" ELSE "ready"]]
    /\ UNCHANGED <<deps, stack, waiting, asked, lease>>

\* reaches(): whether a walk along the wait-for edges leads from one to the
\* other, that is, whether every set of facts a walk cannot leave has both.
Reaches(edges, from, to) ==
    \A seen \in SUBSET Facts :
        from \in seen /\ (\A f \in seen : edges[f] \subseteq seen) => to \in seen

\* Mutant: only a fact that is its own ancestor is refused.
OwnAncestor(k, d) == d \in stack[k]
\* Mutant: the walk starts from the wrong end.
Backwards(k, d) == d \in stack[k] \/ (k \in Facts /\ Reaches(waiting, k, d))
\* A child asks fact(d) for the task of fact k: refused if d is an ancestor
\* of the task, or if d already waits, through others, for k.
Closes(k, d) == d \in stack[k] \/ (k \in Facts /\ Reaches(waiting, d, k))

AskFact(k, d) ==
    /\ d \in Facts /\ kid[k][d] = "ready"
    /\ IF lease # "active" \/ Closes(k, d)
       THEN /\ kid' = [kid EXCEPT ![k][d] = IF lease # "active" THEN "error" ELSE "cyclic"]
            /\ waiting' = IF lease = "active" /\ k \in Facts /\ d \notin stack[k]
                          THEN [waiting EXCEPT ![k] = @ \ {d}] ELSE waiting
            /\ UNCHANGED <<task, stack>>
       ELSE /\ Created(d, stack[k])
            /\ kid' = [kid EXCEPT ![k][d] = "waits"]
            /\ waiting' = IF k \in Facts THEN [waiting EXCEPT ![k] = @ \cup {d}] ELSE waiting
    /\ UNCHANGED <<deps, asked, lease>>

\* The awaited fact is over: the edge goes, its result or error is the child's.
FactReady(k, d) ==
    /\ d \in Facts /\ kid[k][d] = "waits" /\ Over(task[d])
    /\ kid' = [kid EXCEPT ![k][d] = task[d]]
    /\ waiting' = IF k \in Facts THEN [waiting EXCEPT ![k] = @ \ {d}] ELSE waiting
    /\ UNCHANGED <<deps, task, stack, asked, lease>>

\* loader.load ends either way.
EndRead(k) ==
    /\ kid[k][Evidence] = "waits"
    /\ \E end \in {"ok", "error"} : kid' = [kid EXCEPT ![k][Evidence] = end]
    /\ UNCHANGED <<deps, task, stack, waiting, asked, lease>>

\* gather returns at the first error and leaves the other children running; a
\* metric turns the error into an error measurement.  With every dependency
\* ready the fact is computed, which may raise.
Finish(k) ==
    /\ task[k] = "running"
    /\ \/ \E d \in deps[k] :
              /\ kid[k][d] \in {"error", "cyclic"}
              /\ task' = [task EXCEPT ![k] = IF k \in Metrics THEN "ok" ELSE kid[k][d]]
       \/ /\ \A d \in deps[k] : kid[k][d] = "ok"
          /\ \E end \in {"ok", "error"} :
                task' = [task EXCEPT ![k] = IF k \in Metrics THEN "ok" ELSE end]
    /\ UNCHANGED <<deps, stack, waiting, kid, asked, lease>>

-----------------------------------------------------------------------------
\* close(): no new request; every unfinished task is cancelled in one sweep,
\* with the children its gather still awaits, and then awaited.
Close ==
    /\ lease = "active"
    /\ lease' = "closing"
    /\ task' = [k \in Keys |-> IF Live(k) THEN "cut" ELSE task[k]]
    /\ kid' = [k \in Keys |-> [d \in Needs |->
                 IF Live(k) /\ kid[k][d] \in {"ready", "waits"} THEN "cancelled" ELSE kid[k][d]]]
    /\ waiting' = [f \in Facts |-> IF Live(f) THEN {} ELSE waiting[f]]
    /\ UNCHANGED <<deps, stack, asked>>

\* The cancelled task is over.
Cut(k) ==
    /\ task[k] = "cut"
    /\ task' = [task EXCEPT ![k] = "cancelled"]
    /\ UNCHANGED <<deps, stack, waiting, kid, asked, lease>>

\* Mutant: close() does not wait for the tasks it cancelled.
ClosedAtOnce ==
    /\ lease = "closing"
    /\ lease' = "closed"
    /\ UNCHANGED <<deps, task, stack, waiting, kid, asked>>
Closed ==
    /\ lease = "closing"
    /\ \A k \in Keys : ~Live(k) /\ task[k] # "cut"
    /\ lease' = "closed"
    /\ UNCHANGED <<deps, task, stack, waiting, kid, asked>>

TaskStep(k) ==
    \/ Begin(k) \/ Finish(k) \/ Cut(k) \/ EndRead(k)
    \/ \E d \in Facts : AskFact(k, d) \/ FactReady(k, d)

FactNext == (\E k \in Keys : Request(k) \/ TaskStep(k)) \/ Close \/ Closed

\* The event loop runs on while a task can move, and the loader settles every
\* read; there are finitely many steps, so no task starves.
FactFairness == WF_factVars(\E k \in Keys : TaskStep(k))

-----------------------------------------------------------------------------
(* The TypeScript lease, where it differs.                                 *)

TsFactInit == FactInit /\ factTwin \in {"python", "typescript"}

\* #fact: an edge that leads back to the parent is refused; a metric has none.
\* Mutant: only a fact that requires itself is refused.
RefusedSelf(k, d) == d = k
Refused(k, d) == k \in Facts /\ Reaches(waiting, d, k)

\* #compute reaches requires(), which asks for everything in one go; behind a
\* closed lease it raises instead.
TsBegin(k) ==
    /\ task[k] = "created"
    /\ LET asks == deps[k] \cap Facts
           taken == {d \in asks : ~Refused(k, d)}
       IN  IF lease # "active"
           THEN task' = [task EXCEPT ![k] = "error"] /\ UNCHANGED <<waiting, kid>>
           ELSE /\ task' = [t \in Keys |-> IF t = k THEN "running"
                                           ELSE IF t \in taken /\ task[t] = "none" THEN "created"
                                           ELSE task[t]]
                /\ kid' = [kid EXCEPT ![k] = [d \in Needs |->
                              IF d \notin deps[k] THEN "none"
                              ELSE IF d \in asks \ taken THEN "cyclic" ELSE "waits"]]
                /\ waiting' = IF k \in Facts THEN [waiting EXCEPT ![k] = taken] ELSE waiting
    /\ UNCHANGED <<deps, stack, asked, lease>>

\* Promise.all rejects at the first error and leaves the others waiting; a metric
\* reports it unless it is a budget's.  Every path looks at the lease before it
\* writes: a lease that has ended meanwhile turns the task into an error.
Conclusions(k, bad) ==
    IF lease # "active" THEN {"error"}
    ELSE IF bad # {} THEN IF k \in Metrics THEN {"ok"} \cup (bad \ {"cyclic"}) ELSE bad
    ELSE IF k \in Metrics THEN {"ok"} ELSE {"ok", "error"}

TsFinish(k) ==
    /\ task[k] = "running"
    /\ LET bad == {kid[k][d] : d \in deps[k]} \cap {"error", "cyclic"}
       IN  /\ bad # {} \/ \A d \in deps[k] : kid[k][d] = "ok"
           /\ \E end \in Conclusions(k, bad) : task' = [task EXCEPT ![k] = end]
    /\ UNCHANGED <<deps, stack, waiting, kid, asked, lease>>

\* close(): no new request; the tasks there are, are awaited.
TsClose ==
    /\ lease = "active"
    /\ lease' = "closing"
    /\ UNCHANGED <<deps, task, stack, waiting, kid, asked>>

TsTaskStep(k) ==
    \/ TsBegin(k) \/ TsFinish(k) \/ EndRead(k)
    \/ \E d \in Facts : FactReady(k, d)

TsFactNext == (\E k \in Keys : Request(k) \/ TsTaskStep(k)) \/ TsClose \/ Closed

TwinFactNext ==
    \/ factTwin = "python" /\ FactNext /\ UNCHANGED factTwin
    \/ factTwin = "typescript" /\ TsFactNext /\ UNCHANGED factTwin

\* Either runtime runs on while a task can move, and reads are settled.
TwinFactStep ==
    /\ \E k \in Keys :
        \/ factTwin = "python" /\ TaskStep(k)
        \/ factTwin = "typescript" /\ TsTaskStep(k)
    /\ UNCHANGED factTwin

TwinFactFairness == WF_twinFactVars(TwinFactStep)

TwinFactSpec == TsFactInit /\ [][TwinFactNext]_twinFactVars

-----------------------------------------------------------------------------
\* Which task really waits for which: a running task of a fact and its children.
Blocked(k, d) == task[k] = "running" /\ kid[k][d] = "waits" /\ Live(d)

(* No deadlock: the running fact tasks never wait for each other in a      *)
(* cycle, whoever created them and however the requests interleave, though *)
(* the dependency graph may be cyclic.                                     *)
WaitsAreAcyclic ==
    LET edges == [f \in Facts |-> {d \in Facts : Blocked(f, d)}]
    IN  \A f \in Facts : \A d \in edges[f] : ~Reaches(edges, d, f)

(* The refusal blames no innocent: a fact fails as cyclic only if its      *)
(* declared dependencies really lead to a cycle, although the graph keeps  *)
(* edges of tasks that have failed and contexts outlive their requesters.  *)
CyclicIsTrue ==
    LET declared == [f \in Facts |-> deps[f] \cap Facts]
        onCycle(f) == \E d \in declared[f] : Reaches(declared, d, f)
    IN  \A f \in Facts : task[f] = "cyclic" =>
            \E d \in Facts : Reaches(declared, f, d) /\ onCycle(d)

(* A cycle is refused whenever tasks would otherwise wait in it, and only   *)
(* then is anybody told of one.                                             *)
CyclesRefused == WaitsAreAcyclic /\ CyclicIsTrue

(* Once close() has returned the lease computes nothing any more: no task  *)
(* is left, no request starts one, and only reads whose fact had already   *)
(* failed may still be open.                                               *)
ClosedLeaseIsSettled ==
    lease = "closed" =>
        \A k \in Keys :
            /\ ~Live(k) /\ task[k] # "cut"
            /\ \A d \in Facts : kid[k][d] = "waits" => Over(task[d])
            /\ kid[k][Evidence] = "waits" => task[k] \in {"error", "cyclic", "ok"}

(* Every request is answered, by a result, an error or a cancellation, in   *)
(* a cyclic graph too and whatever else is asked meanwhile.                *)
RequestsAnswered == []<>(\A k \in asked : Over(task[k]))

=============================================================================
