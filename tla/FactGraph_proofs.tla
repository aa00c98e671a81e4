--------------------------- MODULE FactGraph_proofs ---------------------------
(* What holds of the facts of a lease for any facts, any dependencies, cyclic *)
(* or not, and any order of requests, in both twins: nobody waits in a cycle, *)
(* nobody is told of one that is not there, and a closed lease is settled.    *)
EXTENDS FactGraph, TLAPS

Edges == [Facts -> SUBSET Facts]
Acyclic(edges) == \A f \in Facts : \A d \in edges[f] : ~Reaches(edges, d, f)

-----------------------------------------------------------------------------
(* Walks in a graph.                                                       *)

LEMMA WalkStays == ASSUME NEW e, NEW a PROVE Reaches(e, a, a)
BY DEF Reaches

\* A walk may be continued, first by an edge, then by a walk.
LEMMA WalkOn ==
    ASSUME NEW e \in Edges, NEW a, NEW b \in Facts, NEW c, Reaches(e, a, b), c \in e[b]
    PROVE  Reaches(e, a, c)
BY DEF Reaches, Edges

LEMMA WalksJoin ==
    ASSUME NEW e, NEW a, NEW b, NEW c, Reaches(e, a, b), Reaches(e, b, c)
    PROVE  Reaches(e, a, c)
BY DEF Reaches

\* An edge, then a walk.
LEMMA WalkFrom ==
    ASSUME NEW e \in Edges, NEW a \in Facts, NEW b \in e[a], NEW c, Reaches(e, b, c)
    PROVE  Reaches(e, a, c)
<1>1. Reaches(e, a, b)
  BY WalkStays, WalkOn
<1> QED BY <1>1, WalksJoin

\* More edges lead at least as far.
LEMMA MoreEdges ==
    ASSUME NEW e \in Edges, NEW g \in Edges, \A f \in Facts : e[f] \subseteq g[f],
           NEW a, NEW b, Reaches(e, a, b)
    PROVE  Reaches(g, a, b)
BY DEF Reaches

LEMMA FewerEdges ==
    ASSUME NEW e \in Edges, NEW g \in Edges, \A f \in Facts : e[f] \subseteq g[f], Acyclic(g)
    PROVE  Acyclic(e)
BY MoreEdges DEF Acyclic, Edges

\* What a walk from one fact can see cannot be left.
LEMMA Seen ==
    ASSUME NEW e \in Edges, NEW a \in Facts
    PROVE  LET seen == {x \in Facts : Reaches(e, a, x)}
           IN  a \in seen /\ \A f \in seen : e[f] \subseteq seen
<1> DEFINE seen == {x \in Facts : Reaches(e, a, x)}
<1>1. a \in seen
  BY WalkStays
<1>2. ASSUME NEW f \in seen, NEW x \in e[f] PROVE x \in seen
  <2>1. x \in Facts
    BY DEF Edges
  <2> QED BY <1>2, <2>1, WalkOn
<1> QED BY <1>1, <1>2

\* A fact may wait for others as long as none of them leads back to it.
LEMMA EdgesAdded ==
    ASSUME NEW e \in Edges, NEW g \in Edges, Acyclic(e), NEW k \in Facts, NEW T \in SUBSET Facts,
           \A d \in T : ~Reaches(e, d, k),
           \A f \in Facts : f # k => g[f] \subseteq e[f], g[k] \subseteq e[k] \cup T
    PROVE  Acyclic(g)
<1> SUFFICES ASSUME NEW f \in Facts, NEW d \in g[f] PROVE ~Reaches(g, d, f)
  BY DEF Acyclic
<1> DEFINE From(a) == {x \in Facts : Reaches(e, a, x)}
<1>0. d \in Facts /\ (d \in e[f] \/ (f = k /\ d \in T))
  BY DEF Edges
<1>1. \A a \in Facts : a \in From(a) /\ \A x \in From(a) : e[x] \subseteq From(a)
  BY Seen
<1>2. ASSUME NEW S \in SUBSET Facts, d \in S, f \notin S, \A x \in S : g[x] \subseteq S
      PROVE  ~Reaches(g, d, f)
  BY <1>2 DEF Reaches
<1>3. CASE k \notin From(d)
  <2>1. f \notin From(d)
    <3>1. CASE d \in e[f]
      BY <3>1 DEF Acyclic
    <3>2. CASE f = k
      BY <1>3, <3>2
    <3> QED BY <1>0, <3>1, <3>2
  <2>2. \A x \in From(d) : g[x] \subseteq From(d)
    BY <1>0, <1>1, <1>3
  <2> QED BY <1>0, <1>1, <1>2, <2>1, <2>2
<1>4. CASE k \in From(d)
  <2> DEFINE S == From(d) \cup {x \in Facts : \E t \in T : Reaches(e, t, x)}
  <2>1. d \in e[f] /\ Reaches(e, d, k)
    BY <1>0, <1>4
  <2>2. f \notin From(d)
    BY <2>1 DEF Acyclic
  <2>3. ASSUME NEW t \in T, Reaches(e, t, f) PROVE FALSE
    <3>1. Reaches(e, f, k)
      BY <2>1, WalkFrom
    <3> QED BY <2>3, <3>1, WalksJoin
  <2>4. ASSUME NEW x \in S PROVE e[x] \subseteq S
    <3>1. CASE x \in From(d)
      BY <1>0, <1>1, <3>1
    <3>2. ASSUME NEW t \in T, Reaches(e, t, x) PROVE e[x] \subseteq S
      <4>1. x \in From(t)
        BY <3>2
      <4>2. e[x] \subseteq From(t)
        BY <1>1, <4>1
      <4> QED BY <4>2
    <3> QED BY <3>1, <3>2
  <2>5. T \subseteq S
    BY WalkStays
  <2>6. \A x \in S : g[x] \subseteq S
    BY <2>4, <2>5
  <2> QED BY <1>0, <1>1, <1>2, <2>2, <2>3, <2>6
<1> QED BY <1>3, <1>4

-----------------------------------------------------------------------------
(* The inductive invariant.                                                *)

TaskStates == {"none", "created", "running", "cut", "ok", "error", "cyclic", "cancelled"}
KidStates == {"none", "ready", "waits", "ok", "error", "cyclic", "cancelled"}

FactTypes ==
    /\ deps \in [Keys -> SUBSET Needs]
    /\ task \in [Keys -> TaskStates]
    /\ stack \in [Keys -> SUBSET Facts]
    /\ waiting \in Edges
    /\ kid \in [Keys -> [Needs -> KidStates]]
    /\ asked \subseteq Keys /\ lease \in {"active", "closing", "closed"}
    /\ factTwin \in {"python", "typescript"}

\* The dependencies between facts, as they were declared.
Declared == [f \in Facts |-> deps[f] \cap Facts]

\* A cycle of declared dependencies lies ahead of a fact.
OnCycle(f) == \E d \in Declared[f] : Reaches(Declared, d, f)
CycleAhead(f) == \E d \in Facts : Reaches(Declared, f, d) /\ OnCycle(d)

\* Children stand for declared dependencies, of tasks that have begun, and one
\* that waits has its edge and a task to wait for.
KidsHonest ==
    \A k \in Keys : \A d \in Needs :
        /\ kid[k][d] # "none" => d \in deps[k]
        /\ kid[k][d] \in {"ready", "waits"} => task[k] \in {"running", "ok", "error", "cyclic"}
        /\ kid[k][d] = "waits" /\ d \in Facts =>
               task[d] # "none" /\ (k \in Facts => d \in waiting[k])

\* Edges are declared dependencies, and never close a cycle.
EdgesHonest == Acyclic(waiting) /\ \A f \in Facts : waiting[f] \subseteq deps[f]

\* Whoever is in the context of a task has led to it.
StacksHonest == \A k \in Keys : \A s \in stack[k] : k \in Facts /\ Reaches(Declared, s, k)

\* A cycle that is told of is there.
CyclesHonest ==
    \A f \in Facts :
        /\ task[f] = "cyclic" => CycleAhead(f)
        /\ \A d \in Needs : kid[f][d] = "cyclic" => CycleAhead(f)

\* Nothing runs in a closed lease.
ClosedAtRest == lease = "closed" => \A k \in Keys : ~Live(k) /\ task[k] # "cut"

FactInv ==
    /\ FactTypes /\ KidsHonest /\ EdgesHonest /\ StacksHonest /\ CyclesHonest /\ ClosedAtRest

LEMMA DeclaredEdges ==
    ASSUME FactTypes
    PROVE  Declared \in Edges /\ \A f \in Facts : Declared[f] = deps[f] \cap Facts
BY DEF Declared, Edges

\* A declared dependency that leads back, or has a cycle ahead, is a cycle ahead.
LEMMA CyclesAhead ==
    ASSUME FactTypes, NEW k \in Facts, NEW d \in Facts, d \in deps[k]
    PROVE  Reaches(Declared, d, k) \/ CycleAhead(d) => CycleAhead(k)
<1>1. Declared \in Edges /\ d \in Declared[k]
  BY DeclaredEdges
<1>2. ASSUME Reaches(Declared, d, k) PROVE CycleAhead(k)
  <2>1. OnCycle(k)
    BY <1>1, <1>2 DEF OnCycle
  <2> QED BY <2>1, WalkStays DEF CycleAhead
<1>3. ASSUME NEW x \in Facts, Reaches(Declared, d, x), OnCycle(x) PROVE CycleAhead(k)
  <2>1. Reaches(Declared, k, x)
    BY <1>1, <1>3, WalkFrom
  <2> QED BY <1>3, <2>1 DEF CycleAhead
<1> QED BY <1>2, <1>3 DEF CycleAhead

\* A refusal is true.
LEMMA RefusalIsTrue ==
    ASSUME FactInv, NEW k \in Facts, NEW d \in Facts, d \in deps[k],
           d \in stack[k] \/ Reaches(waiting, d, k)
    PROVE  CycleAhead(k)
<1>1. FactTypes /\ waiting \in Edges /\ Declared \in Edges
  BY DeclaredEdges DEF FactInv, FactTypes
<1>2. \A f \in Facts : waiting[f] \subseteq Declared[f]
  BY <1>1, DeclaredEdges DEF FactInv, EdgesHonest, Edges
<1>3. Reaches(Declared, d, k)
  <2>1. CASE d \in stack[k]
    BY <2>1 DEF FactInv, StacksHonest, Keys
  <2>2. CASE Reaches(waiting, d, k)
    BY <1>1, <1>2, <2>2, MoreEdges
  <2> QED BY <2>1, <2>2
<1> QED BY <1>1, <1>3, CyclesAhead

LEMMA FactsStart == TsFactInit => FactInv
<1> SUFFICES ASSUME TsFactInit PROVE FactInv
  OBVIOUS
<1>1. FactTypes
  BY GraphsTyped DEF TsFactInit, FactInit, FactTypes, TaskStates, KidStates, Edges
<1>2. EdgesHonest /\ KidsHonest /\ StacksHonest /\ CyclesHonest /\ ClosedAtRest
  BY DEF TsFactInit, FactInit, EdgesHonest, KidsHonest, StacksHonest, CyclesHonest, ClosedAtRest, Acyclic, Keys
<1> QED BY <1>1, <1>2 DEF FactInv

-----------------------------------------------------------------------------
(* Every step keeps it.                                                    *)

\* The dependencies are fixed: what lies ahead of a fact stays ahead.
LEMMA DeclaredStays ==
    ASSUME FactTypes, deps' = deps
    PROVE  Declared' = Declared /\ \A f \in Facts : CycleAhead(f)' = CycleAhead(f)
BY DEF Declared, CycleAhead, OnCycle, Reaches

\* A task is created for a fact that somebody led to.
LEMMA CreatedKeeps ==
    ASSUME FactInv, NEW k \in Keys, NEW from \in SUBSET Facts, Created(k, from),
           \A s \in from : k \in Facts /\ Reaches(Declared, s, k), deps' = deps
    PROVE  /\ task' \in [Keys -> TaskStates] /\ stack' \in [Keys -> SUBSET Facts] /\ StacksHonest'
           /\ task'[k] # "none"
           /\ \A t \in Keys : task'[t] = task[t] \/ (task[t] = "none" /\ task'[t] = "created")
<1>0. FactTypes /\ StacksHonest /\ Declared' = Declared
  BY DeclaredStays DEF FactInv
<1>1. CASE task[k] = "none"
  <2>1. /\ task' = [task EXCEPT ![k] = "created"]
        /\ stack' = [stack EXCEPT ![k] = from \cup ({k} \cap Facts)]
    BY <1>1 DEF Created
  <2>2. \A s \in from \cup ({k} \cap Facts) : k \in Facts /\ Reaches(Declared, s, k)
    BY WalkStays
  <2> QED BY <1>0, <1>1, <2>1, <2>2 DEF FactTypes, TaskStates, StacksHonest
<1>2. CASE task[k] # "none"
  BY <1>0, <1>2 DEF Created, FactTypes, StacksHonest
<1> QED BY <1>1, <1>2

LEMMA RequestKeeps ==
    ASSUME FactInv, NEW k \in Keys, Request(k), factTwin' = factTwin PROVE FactInv'
<1>0. /\ FactTypes /\ Created(k, {}) /\ deps' = deps /\ waiting' = waiting /\ kid' = kid
      /\ lease' = lease /\ lease = "active" /\ asked' = asked \cup {k}
  BY DEF FactInv, Request
<1>1. /\ task' \in [Keys -> TaskStates] /\ stack' \in [Keys -> SUBSET Facts] /\ StacksHonest'
      /\ \A t \in Keys : task'[t] = task[t] \/ (task[t] = "none" /\ task'[t] = "created")
  BY <1>0, CreatedKeeps
<1>2. FactTypes'
  BY <1>0, <1>1 DEF FactTypes
<1>3. KidsHonest' /\ EdgesHonest'
  BY <1>0, <1>1 DEF FactInv, KidsHonest, EdgesHonest, Keys, Needs
<1>4. CyclesHonest'
  BY <1>0, <1>1, DeclaredStays DEF FactInv, CyclesHonest, Keys
<1> QED BY <1>0, <1>1, <1>2, <1>3, <1>4 DEF FactInv, ClosedAtRest

LEMMA BeginKeeps ==
    ASSUME FactInv, NEW k \in Keys, Begin(k), factTwin' = factTwin PROVE FactInv'
<1> DEFINE new == [d \in Needs |->
                      IF d \notin deps[k] THEN "none" ELSE IF d = Evidence THEN "waits" ELSE "ready"]
<1>0. /\ FactTypes /\ task[k] = "created" /\ task' = [task EXCEPT ![k] = "running"]
      /\ kid' = [kid EXCEPT ![k] = new]
      /\ UNCHANGED <<deps, stack, waiting, asked, lease>>
  BY DEF FactInv, Begin
<1>1. new \in [Needs -> KidStates] /\ \A d \in Needs : new[d] # "cyclic" /\ (new[d] = "waits" => d \notin Facts)
  BY FactsDisjoint DEF KidStates, Keys, Needs
<1>2. \A d \in Needs : new[d] # "none" => d \in deps[k]
  OBVIOUS
<1> HIDE DEF new
<1>3. FactTypes'
  BY <1>0, <1>1 DEF FactTypes, TaskStates
<1>4. kid'[k] = new /\ \A t \in Keys : t # k => kid'[t] = kid[t] /\ task'[t] = task[t]
  BY <1>0 DEF FactTypes
<1>5. KidsHonest'
  <2> SUFFICES ASSUME NEW t \in Keys, NEW d \in Needs
               PROVE  /\ kid'[t][d] # "none" => d \in deps[t]
                      /\ kid'[t][d] \in {"ready", "waits"} => task'[t] \in {"running", "ok", "error", "cyclic"}
                      /\ kid'[t][d] = "waits" /\ d \in Facts =>
                             task'[d] # "none" /\ (t \in Facts => d \in waiting[t])
    BY <1>0 DEF KidsHonest
  <2>1. d \in Facts => task'[d] # "none" \/ task[d] = "none"
    BY <1>0 DEF FactTypes, Keys
  <2>2. CASE t = k
    BY <1>0, <1>1, <1>2, <1>4, <2>2 DEF FactTypes
  <2>3. CASE t # k
    BY <1>0, <1>4, <2>1, <2>3 DEF FactInv, KidsHonest
  <2> QED BY <2>2, <2>3
<1>6. EdgesHonest' /\ StacksHonest'
  BY <1>0, DeclaredStays DEF FactInv, EdgesHonest, StacksHonest
<1>7. CyclesHonest'
  BY <1>0, <1>1, <1>4, DeclaredStays DEF FactInv, CyclesHonest, Keys, FactTypes
<1>8. ClosedAtRest'
  BY <1>0 DEF FactInv, ClosedAtRest, Live
<1> QED BY <1>3, <1>5, <1>6, <1>7, <1>8 DEF FactInv

\* A child moves: its edge may go, the edges of the others stay.
LEMMA ChildMoves ==
    ASSUME FactInv, NEW k \in Keys, NEW d \in Needs, NEW s \in KidStates \ {"none"},
           kid[k][d] \in {"ready", "waits"}, kid' = [kid EXCEPT ![k][d] = s], deps' = deps,
           task' \in [Keys -> TaskStates],
           \A t \in Keys : task'[t] = task[t] \/ (task[t] = "none" /\ task'[t] = "created"),
           \A f \in Facts : \A x \in waiting[f] : (f # k \/ x # d) => x \in waiting'[f],
           s = "waits" /\ d \in Facts => task'[d] # "none" /\ (k \in Facts => d \in waiting'[k]),
           s = "cyclic" /\ k \in Facts => CycleAhead(k)
    PROVE  kid' \in [Keys -> [Needs -> KidStates]] /\ KidsHonest' /\ CyclesHonest'
<1>0. FactTypes /\ KidsHonest /\ CyclesHonest
  BY DEF FactInv
<1>1. kid' \in [Keys -> [Needs -> KidStates]]
  BY <1>0 DEF FactTypes
<1>2. kid'[k][d] = s /\ \A t \in Keys : \A x \in Needs : (t # k \/ x # d) => kid'[t][x] = kid[t][x]
  BY <1>0 DEF FactTypes
<1>3. KidsHonest'
  <2> SUFFICES ASSUME NEW t \in Keys, NEW x \in Needs
               PROVE  /\ kid'[t][x] # "none" => x \in deps[t]
                      /\ kid'[t][x] \in {"ready", "waits"} => task'[t] \in {"running", "ok", "error", "cyclic"}
                      /\ kid'[t][x] = "waits" /\ x \in Facts =>
                             task'[x] # "none" /\ (t \in Facts => x \in waiting'[t])
    BY DEF KidsHonest
  <2>1. /\ kid[t][x] # "none" => x \in deps[t]
        /\ kid[t][x] \in {"ready", "waits"} => task[t] \in {"running", "ok", "error", "cyclic"}
        /\ kid[t][x] = "waits" /\ x \in Facts =>
               task[x] # "none" /\ (t \in Facts => x \in waiting[t])
    BY <1>0 DEF KidsHonest
  <2>2. x \in Facts /\ task[x] # "none" => task'[x] # "none"
    BY DEF Keys
  <2>3. CASE t = k /\ x = d
    BY <1>2, <2>1, <2>3
  <2>4. CASE t # k \/ x # d
    BY <1>2, <2>1, <2>2, <2>4
  <2> QED BY <2>3, <2>4
<1>4. CyclesHonest'
  BY <1>0, <1>2, DeclaredStays DEF CyclesHonest, Keys
<1> QED BY <1>1, <1>3, <1>4

\* Edges that only go close no cycle.
LEMMA EdgesGo ==
    ASSUME FactInv, deps' = deps, waiting' \in Edges, \A f \in Facts : waiting'[f] \subseteq waiting[f]
    PROVE  EdgesHonest'
<1>1. Acyclic(waiting')
  BY FewerEdges DEF FactInv, FactTypes, EdgesHonest
<1> QED BY <1>1 DEF FactInv, EdgesHonest, Acyclic, Reaches

LEMMA AskKeeps ==
    ASSUME FactInv, NEW k \in Keys, NEW d \in Facts, AskFact(k, d), factTwin' = factTwin PROVE FactInv'
<1>0. /\ FactTypes /\ kid[k][d] = "ready" /\ d \in Needs /\ d \in deps[k] /\ UNCHANGED <<deps, asked, lease>>
  BY DEF FactInv, KidsHonest, AskFact, Needs
<1>1. CASE lease # "active" \/ Closes(k, d)
  <2>0. PICK s : s = IF lease # "active" THEN "error" ELSE "cyclic"
    OBVIOUS
  <2>1. /\ kid' = [kid EXCEPT ![k][d] = s] /\ UNCHANGED <<task, stack>>
        /\ waiting' = IF lease = "active" /\ k \in Facts /\ d \notin stack[k]
                      THEN [waiting EXCEPT ![k] = @ \ {d}] ELSE waiting
    BY <1>1, <2>0 DEF AskFact
  <2>2. /\ waiting' \in Edges
        /\ \A f \in Facts : waiting'[f] \subseteq waiting[f]
        /\ \A f \in Facts : \A x \in waiting[f] : (f # k \/ x # d) => x \in waiting'[f]
    BY <1>0, <2>1 DEF FactTypes, Edges
  <2>3. s = "cyclic" /\ k \in Facts => CycleAhead(k)
    BY <1>0, <1>1, <2>0, RefusalIsTrue DEF Closes
  <2>4. s \in KidStates \ {"none"} /\ s # "waits"
    BY <2>0 DEF KidStates
  <2>5. /\ kid[k][d] \in {"ready", "waits"} /\ task' \in [Keys -> TaskStates]
        /\ \A t \in Keys : task'[t] = task[t] \/ (task[t] = "none" /\ task'[t] = "created")
        /\ kid' = [kid EXCEPT ![k][d] = s]
        /\ s = "waits" /\ d \in Facts => task'[d] # "none" /\ (k \in Facts => d \in waiting'[k])
    BY <1>0, <2>0, <2>1, <2>4 DEF FactTypes
  <2>6. kid' \in [Keys -> [Needs -> KidStates]] /\ KidsHonest' /\ CyclesHonest'
    BY <1>0, <2>2, <2>3, <2>4, <2>5, ChildMoves
  <2>7. EdgesHonest' /\ StacksHonest' /\ ClosedAtRest'
    BY <1>0, <2>1, <2>2, EdgesGo, DeclaredStays DEF FactInv, StacksHonest, ClosedAtRest, Live
  <2>8. FactTypes'
    BY <1>0, <2>1, <2>2, <2>6 DEF FactTypes
  <2> QED BY <2>6, <2>7, <2>8 DEF FactInv
<1>2. CASE ~(lease # "active" \/ Closes(k, d))
  <2>1. /\ Created(d, stack[k]) /\ kid' = [kid EXCEPT ![k][d] = "waits"]
        /\ waiting' = IF k \in Facts THEN [waiting EXCEPT ![k] = @ \cup {d}] ELSE waiting
        /\ lease = "active" /\ (k \in Facts => ~Reaches(waiting, d, k))
    BY <1>2 DEF AskFact, Closes
  <2>2. d \in Keys /\ stack[k] \in SUBSET Facts
    BY <1>0 DEF Keys, FactTypes
  <2>3. \A s \in stack[k] : Reaches(Declared, s, d)
    <3>1. \A s \in stack[k] : k \in Facts /\ Reaches(Declared, s, k)
      BY DEF FactInv, StacksHonest
    <3>2. k \in Facts => Declared \in Edges /\ d \in Declared[k]
      BY <1>0, DeclaredEdges
    <3> QED BY <3>1, <3>2, WalkOn
  <2>4. /\ task' \in [Keys -> TaskStates] /\ stack' \in [Keys -> SUBSET Facts] /\ StacksHonest'
        /\ task'[d] # "none"
        /\ \A t \in Keys : task'[t] = task[t] \/ (task[t] = "none" /\ task'[t] = "created")
    BY <1>0, <2>1, <2>2, <2>3, CreatedKeeps
  <2>5. /\ waiting' \in Edges
        /\ \A f \in Facts : f # k => waiting'[f] = waiting[f]
        /\ k \in Facts => waiting'[k] = waiting[k] \cup {d}
        /\ \A f \in Facts : waiting[f] \subseteq waiting'[f]
    BY <1>0, <2>1 DEF FactTypes, Edges
  <2>6. EdgesHonest'
    <3>1. CASE k \notin Facts
      BY <1>0, <2>1, <2>5, <3>1, EdgesGo
    <3>2. CASE k \in Facts
      <4>1. Acyclic(waiting) /\ waiting \in Edges
        BY DEF FactInv, EdgesHonest, FactTypes
      <4>2. PICK T \in SUBSET Facts : T = {d}
        OBVIOUS
      <4>3. PICK g \in Edges : g = waiting'
        BY <2>5
      <4>4. \A x \in T : ~Reaches(waiting, x, k)
        BY <2>1, <3>2, <4>2
      <4>5. (\A f \in Facts : f # k => g[f] \subseteq waiting[f]) /\ g[k] \subseteq waiting[k] \cup T
        BY <2>5, <3>2, <4>2, <4>3
      <4>6. Acyclic(g)
        BY <3>2, <4>1, <4>4, <4>5, EdgesAdded
      <4> QED BY <1>0, <2>5, <3>2, <4>3, <4>6 DEF FactInv, EdgesHonest, Acyclic, Reaches
    <3> QED BY <3>1, <3>2
  <2>7. kid' \in [Keys -> [Needs -> KidStates]] /\ KidsHonest' /\ CyclesHonest'
    <3>1. "waits" \in KidStates \ {"none"} /\ "waits" # "cyclic"
      BY DEF KidStates
    <3>2. \A f \in Facts : \A x \in waiting[f] : (f # k \/ x # d) => x \in waiting'[f]
      BY <2>5
    <3>3. k \in Facts => d \in waiting'[k]
      BY <2>5
    <3> QED BY <1>0, <2>1, <2>4, <3>1, <3>2, <3>3, ChildMoves
  <2>8. FactTypes' /\ ClosedAtRest'
    BY <1>0, <2>1, <2>4, <2>5, <2>7 DEF FactTypes, ClosedAtRest
  <2> QED BY <2>4, <2>6, <2>7, <2>8 DEF FactInv
<1> QED BY <1>1, <1>2

LEMMA ReadyKeeps ==
    ASSUME FactInv, NEW k \in Keys, NEW d \in Facts, FactReady(k, d), factTwin' = factTwin PROVE FactInv'
<1>0. /\ FactTypes /\ kid[k][d] = "waits" /\ d \in Needs /\ d \in deps[k] /\ Over(task[d])
      /\ kid' = [kid EXCEPT ![k][d] = task[d]]
      /\ waiting' = IF k \in Facts THEN [waiting EXCEPT ![k] = @ \ {d}] ELSE waiting
      /\ UNCHANGED <<deps, task, stack, asked, lease>>
  BY DEF FactInv, KidsHonest, FactReady, Needs
<1>1. PICK s \in KidStates \ {"none"} : s = task[d] /\ s # "waits"
  BY <1>0 DEF Over, KidStates
<1>2. /\ waiting' \in Edges
      /\ \A f \in Facts : waiting'[f] \subseteq waiting[f]
      /\ \A f \in Facts : \A x \in waiting[f] : (f # k \/ x # d) => x \in waiting'[f]
  BY <1>0 DEF FactTypes, Edges
<1>3. s = "cyclic" /\ k \in Facts => CycleAhead(k)
  BY <1>0, <1>1, CyclesAhead DEF FactInv, CyclesHonest
<1>4. kid' \in [Keys -> [Needs -> KidStates]] /\ KidsHonest' /\ CyclesHonest'
  <2>1. /\ kid[k][d] \in {"ready", "waits"} /\ task' \in [Keys -> TaskStates] /\ deps' = deps
        /\ \A t \in Keys : task'[t] = task[t] \/ (task[t] = "none" /\ task'[t] = "created")
        /\ kid' = [kid EXCEPT ![k][d] = s]
        /\ s = "waits" /\ d \in Facts => task'[d] # "none" /\ (k \in Facts => d \in waiting'[k])
    BY <1>0, <1>1 DEF FactTypes
  <2>2. d \in Needs
    BY <1>0
  <2> QED BY <1>2, <1>3, <2>1, <2>2, ChildMoves
<1>5. EdgesHonest' /\ StacksHonest' /\ ClosedAtRest'
  BY <1>0, <1>2, EdgesGo, DeclaredStays DEF FactInv, StacksHonest, ClosedAtRest, Live
<1>6. FactTypes'
  BY <1>0, <1>2, <1>4 DEF FactTypes
<1> QED BY <1>4, <1>5, <1>6 DEF FactInv

LEMMA ReadKeeps ==
    ASSUME FactInv, NEW k \in Keys, EndRead(k), factTwin' = factTwin PROVE FactInv'
<1>0. /\ FactTypes /\ kid[k][Evidence] = "waits" /\ UNCHANGED <<deps, task, stack, waiting, asked, lease>>
  BY DEF FactInv, EndRead
<1>1. PICK end \in {"ok", "error"} : kid' = [kid EXCEPT ![k][Evidence] = end]
  BY DEF EndRead
<1>2. end \in KidStates \ {"none"} /\ end # "waits" /\ end # "cyclic" /\ Evidence \in Needs
  BY DEF KidStates, Needs
<1>3. task' \in [Keys -> TaskStates] /\ \A t \in Keys : task'[t] = task[t]
  BY <1>0 DEF FactTypes
<1>4. kid' \in [Keys -> [Needs -> KidStates]] /\ KidsHonest' /\ CyclesHonest'
  BY <1>0, <1>1, <1>2, <1>3, ChildMoves
<1>5. EdgesHonest' /\ StacksHonest' /\ ClosedAtRest'
  BY <1>0, EdgesGo, DeclaredStays DEF FactInv, StacksHonest, ClosedAtRest, Live, FactTypes
<1>6. FactTypes'
  BY <1>0, <1>4 DEF FactTypes
<1> QED BY <1>4, <1>5, <1>6 DEF FactInv

\* A task ends, and tells of no cycle that is not there.
LEMMA EndKeeps ==
    ASSUME FactInv, NEW k \in Keys, NEW end \in {"ok", "error", "cyclic", "cancelled"},
           task[k] \in {"created", "running", "cut"}, task' = [task EXCEPT ![k] = end],
           UNCHANGED <<deps, stack, waiting, kid, asked, lease, factTwin>>,
           end = "cancelled" => task[k] = "cut",
           end = "cyclic" /\ k \in Facts => CycleAhead(k)
    PROVE  FactInv'
<1>0. /\ FactTypes /\ task' \in [Keys -> TaskStates] /\ task'[k] = end
      /\ \A t \in Keys : t # k => task'[t] = task[t]
  BY DEF FactInv, FactTypes, TaskStates
<1>1. FactTypes'
  BY <1>0 DEF FactTypes
<1>2. KidsHonest'
  <2> SUFFICES ASSUME NEW t \in Keys, NEW d \in Needs
               PROVE  /\ kid'[t][d] # "none" => d \in deps[t]
                      /\ kid'[t][d] \in {"ready", "waits"} => task'[t] \in {"running", "ok", "error", "cyclic"}
                      /\ kid'[t][d] = "waits" /\ d \in Facts =>
                             task'[d] # "none" /\ (t \in Facts => d \in waiting[t])
    BY DEF KidsHonest
  <2>1. /\ kid[t][d] # "none" => d \in deps[t]
        /\ kid[t][d] \in {"ready", "waits"} => task[t] \in {"running", "ok", "error", "cyclic"}
        /\ kid[t][d] = "waits" /\ d \in Facts =>
               task[d] # "none" /\ (t \in Facts => d \in waiting[t])
    BY DEF FactInv, KidsHonest
  <2>2. d \in Facts /\ task[d] # "none" => task'[d] # "none"
    BY <1>0 DEF Keys
  <2>3. task[t] \in {"running", "ok", "error", "cyclic"} =>
            task'[t] \in {"running", "ok", "error", "cyclic"}
    BY <1>0
  <2> QED BY <2>1, <2>2, <2>3
<1>3. EdgesHonest' /\ StacksHonest'
  BY <1>0, DeclaredStays DEF FactInv, EdgesHonest, StacksHonest
<1>4. CyclesHonest'
  BY <1>0, DeclaredStays DEF FactInv, CyclesHonest, Keys
<1>5. ClosedAtRest'
  BY <1>0 DEF FactInv, ClosedAtRest, Live
<1> QED BY <1>1, <1>2, <1>3, <1>4, <1>5 DEF FactInv

LEMMA FinishKeeps ==
    ASSUME FactInv, NEW k \in Keys, Finish(k) \/ TsFinish(k), factTwin' = factTwin PROVE FactInv'
<1>0. /\ FactTypes /\ task[k] = "running" /\ UNCHANGED <<deps, stack, waiting, kid, asked, lease>>
  BY DEF FactInv, Finish, TsFinish
<1>1. \A d \in deps[k] : k \in Facts /\ kid[k][d] = "cyclic" => CycleAhead(k)
  BY <1>0 DEF FactInv, CyclesHonest, FactTypes, Keys
<1>2. PICK end \in {"ok", "error", "cyclic"} :
          /\ task' = [task EXCEPT ![k] = end]
          /\ end = "cyclic" /\ k \in Facts => CycleAhead(k)
  <2>1. CASE Finish(k)
    <3>1. CASE \E d \in deps[k] :
                   /\ kid[k][d] \in {"error", "cyclic"}
                   /\ task' = [task EXCEPT ![k] = IF k \in Metrics THEN "ok" ELSE kid[k][d]]
      <4>1. PICK d \in deps[k] :
                   /\ kid[k][d] \in {"error", "cyclic"}
                   /\ task' = [task EXCEPT ![k] = IF k \in Metrics THEN "ok" ELSE kid[k][d]]
        BY <3>1
      <4> QED BY <1>1, <4>1
    <3>2. CASE \E end \in {"ok", "error"} :
                   task' = [task EXCEPT ![k] = IF k \in Metrics THEN "ok" ELSE end]
      BY <3>2
    <3> QED BY <2>1, <3>1, <3>2 DEF Finish
  <2>2. CASE TsFinish(k)
    <3> DEFINE bad == {kid[k][d] : d \in deps[k]} \cap {"error", "cyclic"}
    <3>1. PICK end \in Conclusions(k, bad) : task' = [task EXCEPT ![k] = end]
      BY <2>2 DEF TsFinish
    <3>2. end \in {"ok", "error", "cyclic"} /\ (end = "cyclic" => end \in bad)
      BY <3>1 DEF Conclusions
    <3> QED BY <1>1, <3>1, <3>2
  <2> QED BY <2>1, <2>2
<1> QED BY <1>0, <1>2, EndKeeps

LEMMA CutKeeps ==
    ASSUME FactInv, NEW k \in Keys, Cut(k), factTwin' = factTwin PROVE FactInv'
BY EndKeeps DEF Cut

LEMMA CloseKeeps ==
    ASSUME FactInv, Close, factTwin' = factTwin PROVE FactInv'
<1>0. /\ FactTypes /\ lease' = "closing" /\ UNCHANGED <<deps, stack, asked>>
      /\ task' = [k \in Keys |-> IF Live(k) THEN "cut" ELSE task[k]]
      /\ kid' = [k \in Keys |-> [d \in Needs |->
                 IF Live(k) /\ kid[k][d] \in {"ready", "waits"} THEN "cancelled" ELSE kid[k][d]]]
      /\ waiting' = [f \in Facts |-> IF Live(f) THEN {} ELSE waiting[f]]
  BY DEF FactInv, Close
<1>1. FactTypes'
  BY <1>0 DEF FactTypes, TaskStates, KidStates, Edges
<1>2. \A t \in Keys : task'[t] = IF Live(t) THEN "cut" ELSE task[t]
  BY <1>0
<1>3. \A t \in Keys : \A d \in Needs :
          kid'[t][d] = IF Live(t) /\ kid[t][d] \in {"ready", "waits"} THEN "cancelled" ELSE kid[t][d]
  BY <1>0
<1>4. \A f \in Facts : waiting'[f] = IF Live(f) THEN {} ELSE waiting[f]
  BY <1>0
<1>5. KidsHonest'
  <2> SUFFICES ASSUME NEW t \in Keys, NEW d \in Needs
               PROVE  /\ kid'[t][d] # "none" => d \in deps[t]
                      /\ kid'[t][d] \in {"ready", "waits"} => task'[t] \in {"running", "ok", "error", "cyclic"}
                      /\ kid'[t][d] = "waits" /\ d \in Facts =>
                             task'[d] # "none" /\ (t \in Facts => d \in waiting'[t])
    BY <1>0 DEF KidsHonest
  <2>1. /\ kid[t][d] # "none" => d \in deps[t]
        /\ kid[t][d] \in {"ready", "waits"} => task[t] \in {"running", "ok", "error", "cyclic"}
        /\ kid[t][d] = "waits" /\ d \in Facts =>
               task[d] # "none" /\ (t \in Facts => d \in waiting[t])
    BY DEF FactInv, KidsHonest
  <2>2. d \in Facts /\ task[d] # "none" => task'[d] # "none"
    BY <1>2 DEF Keys
  <2>3. CASE Live(t)
    BY <1>3, <2>1, <2>3
  <2>4. CASE ~Live(t)
    BY <1>2, <1>3, <1>4, <2>1, <2>2, <2>4
  <2> QED BY <2>3, <2>4
<1>6. EdgesHonest'
  BY <1>0, <1>1, <1>4, EdgesGo DEF FactTypes
<1>7. StacksHonest'
  BY <1>0, DeclaredStays DEF FactInv, StacksHonest
<1>8. CyclesHonest'
  BY <1>0, <1>2, <1>3, DeclaredStays DEF FactInv, CyclesHonest, Keys
<1> QED BY <1>0, <1>1, <1>5, <1>6, <1>7, <1>8 DEF FactInv, ClosedAtRest

\* The lease alone moves on.
LEMMA LeaseKeeps ==
    ASSUME FactInv, TsClose \/ Closed, factTwin' = factTwin PROVE FactInv'
<1>0. /\ FactTypes /\ UNCHANGED <<deps, task, stack, waiting, kid, asked>> /\ lease' \in {"closing", "closed"}
      /\ lease' = "closed" => \A k \in Keys : ~Live(k) /\ task[k] # "cut"
  BY DEF FactInv, TsClose, Closed
<1>1. FactTypes' /\ KidsHonest' /\ EdgesHonest'
  BY <1>0 DEF FactInv, FactTypes, KidsHonest, EdgesHonest
<1>2. StacksHonest' /\ CyclesHonest'
  BY <1>0, DeclaredStays DEF FactInv, StacksHonest, CyclesHonest
<1> QED BY <1>0, <1>1, <1>2 DEF FactInv, ClosedAtRest, Live

LEMMA TsBeginKeeps ==
    ASSUME FactInv, NEW k \in Keys, TsBegin(k), factTwin' = factTwin PROVE FactInv'
<1>0. /\ FactTypes /\ task[k] = "created" /\ UNCHANGED <<deps, stack, asked, lease>>
  BY DEF FactInv, TsBegin
<1>1. CASE lease # "active"
  <2>1. task' = [task EXCEPT ![k] = "error"] /\ UNCHANGED <<waiting, kid>>
    BY <1>1 DEF TsBegin
  <2> QED BY <1>0, <2>1, EndKeeps
<1>2. CASE lease = "active"
  <2> DEFINE asks == deps[k] \cap Facts
             new(T) == [d \in Needs |-> IF d \notin deps[k] THEN "none"
                                        ELSE IF d \in asks \ T THEN "cyclic" ELSE "waits"]
  <2>1. PICK T \in SUBSET Facts : T = {d \in asks : ~Refused(k, d)}
    OBVIOUS
  <2>2. /\ task' = [t \in Keys |-> IF t = k THEN "running"
                                   ELSE IF t \in T /\ task[t] = "none" THEN "created" ELSE task[t]]
        /\ kid' = [kid EXCEPT ![k] = new(T)]
        /\ waiting' = IF k \in Facts THEN [waiting EXCEPT ![k] = T] ELSE waiting
    BY <1>2, <2>1 DEF TsBegin
  <2>3. /\ new(T) \in [Needs -> KidStates]
        /\ \A d \in Needs : /\ new(T)[d] # "none" => d \in deps[k]
                            /\ new(T)[d] = "waits" /\ d \in Facts => d \in T
                            /\ new(T)[d] = "cyclic" => d \in deps[k] /\ d \in Facts /\ Refused(k, d)
    BY <2>1 DEF KidStates
  <2> HIDE DEF new
  <2>4. kid' \in [Keys -> [Needs -> KidStates]] /\ kid'[k] = new(T) /\ \A t \in Keys : t # k => kid'[t] = kid[t]
    BY <1>0, <2>2, <2>3 DEF FactTypes
  <2>5. /\ task' \in [Keys -> TaskStates] /\ task'[k] = "running"
        /\ \A t \in Keys : t # k => task'[t] = task[t] \/ (task[t] = "none" /\ task'[t] = "created")
        /\ \A t \in T : task'[t] # "none"
    BY <1>0, <2>2 DEF FactTypes, TaskStates, Keys
  <2>6. /\ waiting' \in Edges
        /\ \A f \in Facts : f # k => waiting'[f] = waiting[f]
        /\ k \in Facts => waiting'[k] = T
    BY <1>0, <2>2 DEF FactTypes, Edges
  <2>7. FactTypes'
    BY <1>0, <2>4, <2>5, <2>6 DEF FactTypes
  <2>8. KidsHonest'
    <3> SUFFICES ASSUME NEW t \in Keys, NEW d \in Needs
                 PROVE  /\ kid'[t][d] # "none" => d \in deps[t]
                        /\ kid'[t][d] \in {"ready", "waits"} => task'[t] \in {"running", "ok", "error", "cyclic"}
                        /\ kid'[t][d] = "waits" /\ d \in Facts =>
                               task'[d] # "none" /\ (t \in Facts => d \in waiting'[t])
      BY <1>0 DEF KidsHonest
    <3>1. CASE t = k
      BY <2>3, <2>4, <2>5, <2>6, <3>1
    <3>2. CASE t # k
      <4>1. /\ kid[t][d] # "none" => d \in deps[t]
            /\ kid[t][d] \in {"ready", "waits"} => task[t] \in {"running", "ok", "error", "cyclic"}
            /\ kid[t][d] = "waits" /\ d \in Facts =>
                   task[d] # "none" /\ (t \in Facts => d \in waiting[t])
        BY DEF FactInv, KidsHonest
      <4>2. d \in Facts /\ task[d] # "none" => task'[d] # "none"
        BY <2>5 DEF Keys
      <4> QED BY <2>4, <2>5, <2>6, <3>2, <4>1, <4>2
    <3> QED BY <3>1, <3>2
  <2>9. EdgesHonest'
    <3>1. Acyclic(waiting) /\ waiting \in Edges /\ \A f \in Facts : waiting[f] \subseteq deps[f]
      BY DEF FactInv, EdgesHonest, FactTypes
    <3>2. CASE k \notin Facts
      BY <1>0, <2>2, <3>1, <3>2, EdgesGo
    <3>3. CASE k \in Facts
      <4>1. PICK g \in Edges : g = waiting'
        BY <2>6
      <4>2. \A d \in T : ~Reaches(waiting, d, k)
        BY <2>1, <3>3 DEF Refused
      <4>3. (\A f \in Facts : f # k => g[f] \subseteq waiting[f]) /\ g[k] \subseteq waiting[k] \cup T
        BY <2>6, <3>3, <4>1
      <4>4. Acyclic(g)
        BY <3>1, <3>3, <4>2, <4>3, EdgesAdded
      <4>5. \A f \in Facts : waiting'[f] \subseteq deps[f]
        BY <2>1, <2>6, <3>1
      <4> QED BY <1>0, <4>1, <4>4, <4>5 DEF EdgesHonest, Acyclic, Reaches
    <3> QED BY <3>2, <3>3
  <2>10. StacksHonest'
    BY <1>0, DeclaredStays DEF FactInv, StacksHonest
  <2>11. CyclesHonest'
    <3>1. \A d \in Needs : k \in Facts /\ kid'[k][d] = "cyclic" => CycleAhead(k)
      BY <2>3, <2>4, RefusalIsTrue DEF Refused
    <3> QED BY <1>0, <2>4, <2>5, <3>1, DeclaredStays DEF FactInv, CyclesHonest, Keys
  <2> QED BY <1>0, <1>2, <2>7, <2>8, <2>9, <2>10, <2>11 DEF FactInv, ClosedAtRest
<1> QED BY <1>1, <1>2

LEMMA TaskStepKeeps ==
    ASSUME FactInv, NEW k \in Keys, TaskStep(k) \/ TsTaskStep(k), factTwin' = factTwin PROVE FactInv'
<1>1. CASE Begin(k)
  BY <1>1, BeginKeeps
<1>2. CASE TsBegin(k)
  BY <1>2, TsBeginKeeps
<1>3. CASE Finish(k) \/ TsFinish(k)
  BY <1>3, FinishKeeps
<1>4. CASE Cut(k)
  BY <1>4, CutKeeps
<1>5. CASE EndRead(k)
  BY <1>5, ReadKeeps
<1>6. ASSUME NEW d \in Facts, AskFact(k, d) \/ FactReady(k, d) PROVE FactInv'
  BY <1>6, AskKeeps, ReadyKeeps
<1> QED BY <1>1, <1>2, <1>3, <1>4, <1>5, <1>6 DEF TaskStep, TsTaskStep

LEMMA FactsStep == FactInv /\ [TwinFactNext]_twinFactVars => FactInv'
<1> SUFFICES ASSUME FactInv, [TwinFactNext]_twinFactVars PROVE FactInv'
  OBVIOUS
<1>1. ASSUME NEW k \in Keys, Request(k), factTwin' = factTwin PROVE FactInv'
  BY <1>1, RequestKeeps
<1>2. ASSUME NEW k \in Keys, TaskStep(k) \/ TsTaskStep(k), factTwin' = factTwin PROVE FactInv'
  BY <1>2, TaskStepKeeps
<1>3. ASSUME Close, factTwin' = factTwin PROVE FactInv'
  BY <1>3, CloseKeeps
<1>4. ASSUME TsClose \/ Closed, factTwin' = factTwin PROVE FactInv'
  BY <1>4, LeaseKeeps
<1>5. CASE UNCHANGED twinFactVars
  <2>1. /\ UNCHANGED <<deps, task, stack, waiting, kid, asked, lease, factTwin>> /\ FactTypes
    BY <1>5 DEF twinFactVars, factVars, FactInv
  <2>2. FactTypes' /\ KidsHonest' /\ EdgesHonest' /\ ClosedAtRest'
    BY <2>1 DEF FactInv, FactTypes, KidsHonest, EdgesHonest, ClosedAtRest, Live
  <2>3. StacksHonest' /\ CyclesHonest'
    BY <2>1, DeclaredStays DEF FactInv, StacksHonest, CyclesHonest
  <2> QED BY <2>2, <2>3 DEF FactInv
<1>6. CASE factTwin = "python" /\ FactNext /\ UNCHANGED factTwin
  BY <1>1, <1>2, <1>3, <1>4, <1>6 DEF FactNext
<1>7. CASE factTwin = "typescript" /\ TsFactNext /\ UNCHANGED factTwin
  BY <1>1, <1>2, <1>4, <1>7 DEF TsFactNext
<1> QED BY <1>5, <1>6, <1>7 DEF TwinFactNext

-----------------------------------------------------------------------------
(* The results.                                                            *)

(* The inductive invariant of a lease, in Python (analysis.py) and in       *)
(* TypeScript (analysis.ts): an edge of the wait-for graph is a declared    *)
(* dependency and closes no cycle, a child that waits has its edge, and a  *)
(* task or child that was refused has a declared cycle ahead.              *)
THEOREM FactsInvariant == TwinFactSpec => []FactInv
BY FactsStart, FactsStep, PTL DEF TwinFactSpec

\* Whoever waits has its edge, and the edges close no cycle.
LEMMA NobodyWaitsInACycle == FactInv => WaitsAreAcyclic
<1> SUFFICES ASSUME FactInv PROVE WaitsAreAcyclic
  OBVIOUS
<1> DEFINE blocked == [f \in Facts |-> {d \in Facts : Blocked(f, d)}]
<1>1. FactTypes /\ waiting \in Edges /\ Acyclic(waiting)
  BY DEF FactInv, FactTypes, EdgesHonest
<1>2. blocked \in Edges /\ \A f \in Facts : blocked[f] \subseteq waiting[f]
  BY DEF Edges, Blocked, FactInv, KidsHonest, Keys, Needs
<1>3. Acyclic(blocked)
  BY <1>1, <1>2, FewerEdges
<1> QED BY <1>3 DEF WaitsAreAcyclic, Acyclic

\* Whoever was refused has a declared cycle ahead.
LEMMA NobodyIsBlamed == FactInv => CyclicIsTrue
BY DEF FactInv, CyclesHonest, CyclicIsTrue, CycleAhead, OnCycle, Declared

(* A cycle is refused whenever tasks would otherwise wait in it, and only   *)
(* then is anybody told of one (fact, reaches in analysis.py; #fact in      *)
(* analysis.ts), whatever the facts, their dependencies and the requests.  *)
THEOREM CyclesAreRefused == TwinFactSpec => []CyclesRefused
<1>1. FactInv => CyclesRefused
  BY NobodyWaitsInACycle, NobodyIsBlamed DEF CyclesRefused
<1> QED BY <1>1, FactsInvariant, PTL

(* Once close() has returned (close in analysis.py and analysis.ts) no task *)
(* of the lease is left, and nothing waits for a fact that is not over.    *)
THEOREM ClosedLease == TwinFactSpec => []ClosedLeaseIsSettled
<1>1. FactInv => ClosedLeaseIsSettled
  <2> SUFFICES ASSUME FactInv, lease = "closed", NEW k \in Keys
               PROVE  /\ ~Live(k) /\ task[k] # "cut"
                      /\ \A d \in Facts : kid[k][d] = "waits" => Over(task[d])
                      /\ kid[k][Evidence] = "waits" => task[k] \in {"error", "cyclic", "ok"}
    BY DEF ClosedLeaseIsSettled
  <2>1. FactTypes /\ \A t \in Keys : ~Live(t) /\ task[t] # "cut"
    BY DEF FactInv, ClosedAtRest
  <2>2. ASSUME NEW d \in Facts, kid[k][d] = "waits" PROVE Over(task[d])
    <3>1. task[d] # "none" /\ d \in Keys
      BY <2>2 DEF FactInv, KidsHonest, Keys, Needs
    <3> QED BY <2>1, <3>1 DEF FactTypes, TaskStates, Live, Over
  <2>3. kid[k][Evidence] = "waits" => task[k] \in {"error", "cyclic", "ok"}
    BY <2>1 DEF FactInv, KidsHonest, Live, Needs
  <2> QED BY <2>1, <2>2, <2>3
<1> QED BY <1>1, FactsInvariant, PTL
=============================================================================
