------------------------------ MODULE TraceTree ------------------------------
(* ingest/assemble.py fuses the spans of a trace into nodes,                 *)
(* model/node_tree.py indexes them, and analyze/measure.py and budget.py     *)
(* measure them.  Two kinds of call are recognized; a model call claims      *)
(* satellites.  Spans are numbers, and the parent of a span, when it is in   *)
(* the trace, is a smaller one: the links of a trace have no cycle.          *)
EXTENDS Integers, Sequences, FiniteSets
LOCAL INSTANCE FiniteSetsExt
LOCAL INSTANCE SequencesExt

CONSTANT Shapes     \* traces: [parent, kind, service, failed, from, to] of each span

VARIABLES
    spans,      \* the trace
    nodes,      \* what assemble made of it
    measured    \* what measure and trace_time_budget made of that

treeVars == <<spans, nodes, measured>>

NotYet == {}
TreeInit == spans \in Shapes /\ nodes = NotYet /\ measured = NotYet

Activity == {"model-call", "tool-call"}
Ids == DOMAIN spans

-----------------------------------------------------------------------------
(* Assembly.                                                                *)

\* The nearest proper ancestor of every span in a set, 0 if there is none.
Nearest(set) ==
    LET near[i \in {0} \cup Ids] ==
            IF i = 0 THEN 0
            ELSE IF spans[i].parent \in set THEN spans[i].parent
            ELSE near[spans[i].parent]
    IN  near

\* 1 route, 2 own, 3 claim.
Primaries == {i \in Ids : spans[i].kind \in Activity}
Host == Nearest(Primaries)
Owned(p) == {i \in Ids \ Primaries : Host[i] = p}
Claims(p) == {i \in Owned(p) : spans[p].kind = "model-call" /\ spans[i].kind = "satellite"}
Satellites == UNION {Claims(p) : p \in Primaries}
OwnerOf(i) == IF i \in Primaries THEN i ELSE IF i \in Satellites THEN Host[i] ELSE 0

CallId(p) == <<p, "call">>
NoNode == <<0, "none">>

\* 5 connect: up the links to the first span that another call owns.
ParentOf(p) ==
    LET foreign == {i \in Ids : OwnerOf(i) \notin {0, p}}
        above == Nearest(foreign)[p]
    IN  IF above = 0 THEN NoNode ELSE CallId(OwnerOf(above))

\* 4 build.
CallNode(p) ==
    LET members == {p} \cup Claims(p) IN
    [id |-> CallId(p), kind |-> spans[p].kind, members |-> members, parent |-> ParentOf(p),
     from |-> spans[p].from, to |-> spans[p].to,
     errors |-> {i \in members : spans[i].failed}]

\* 6 residue: what is left, by host and service.
Residue == Ids \ (Primaries \cup Satellites)
GroupNode(host, service) ==
    LET members == {i \in Residue : Host[i] = host /\ spans[i].service = service} IN
    [id |-> <<host, service>>, kind |-> "service", members |-> members,
     parent |-> IF host = 0 THEN NoNode ELSE CallId(host),
     from |-> Min({spans[i].from : i \in members}), to |-> Max({spans[i].to : i \in members}),
     errors |-> {i \in members : spans[i].failed}]

Assemble ==
    /\ nodes = NotYet
    /\ nodes' = {CallNode(p) : p \in Primaries}
                \cup {GroupNode(Host[i], spans[i].service) : i \in Residue}
    /\ UNCHANGED <<spans, measured>>

-----------------------------------------------------------------------------
(* The tree and the measures.                                               *)

Children(n) == {c \in nodes : c.parent = n.id}
Roots == {n \in nodes : \A m \in nodes : m.id # n.parent}

\* The order of sorted(intervals).
ByStart(a, b) == a[1] < b[1] \/ (a[1] = b[1] /\ a[2] <= b[2])
\* Mutant: a later interval replaces the end of the stretch.
StretchShrinking(sofar, next) ==
    IF sofar.open /\ next[1] <= sofar.to THEN [sofar EXCEPT !.to = next[2]]
    ELSE [total |-> sofar.total + (sofar.to - sofar.from), open |-> TRUE,
          from |-> next[1], to |-> next[2]]
\* interval_union: over the intervals in order, the stretch that is open and
\* the length of those that are over.
Stretch(sofar, next) ==
    IF sofar.open /\ next[1] <= sofar.to THEN [sofar EXCEPT !.to = Max({@, next[2]})]
    ELSE [total |-> sofar.total + (sofar.to - sofar.from), open |-> TRUE,
          from |-> next[1], to |-> next[2]]
IntervalUnion(set) ==
    LET end == FoldLeft(LAMBDA sofar, next : Stretch(sofar, next),
                        [total |-> 0, open |-> FALSE, from |-> 0, to |-> 0],
                        SetToSortSeq(set, ByStart))
    IN  end.total + (end.to - end.from)

SelfTime(n) ==
    LET clipped == {<<Max({n.from, c.from}), Min({n.to, c.to})>> : c \in Children(n)} IN
    Max({0, (n.to - n.from) - IntervalUnion({i \in clipped : i[2] > i[1]})})

\* prefix_values at one cut: the events of a kind up to it, in one sweep.
Sources(kind) == {n \in nodes : n.kind = kind}
Sweep(kind, at, start) ==
    LET sources == Sources(kind)
        times == {t \in {n.from : n \in sources} \cup {n.to : n \in sources} : t <= at}
        passed(s, t) == [s EXCEPT !.total = @ + (t - s.previous) * s.active,
                                  !.covered = @ + IF s.active > 0 THEN t - s.previous ELSE 0,
                                  !.previous = t]
        event(s, t) ==
            LET starts == Cardinality({n \in sources : n.from = t})
                ends == Cardinality({n \in sources : n.to = t})
            IN  [passed(s, t) EXCEPT !.count = @ + starts, !.active = @ + starts - ends]
        swept == FoldLeft(event,
                          [count |-> 0, active |-> 0, total |-> 0, covered |-> 0,
                           previous |-> start],
                          SetToSortSeq(times, <))
    IN  passed(swept, at)

TraceStart == Min({spans[i].from : i \in Ids} \cup {n.from : n \in nodes})
PrefixValue(kind, at) ==
    LET s == Sweep(kind, at, TraceStart) IN
    [count |-> s.count, total |-> s.total, covered |-> s.covered]

\* _leaf_tool_nodes: the search stops at the first call below.
Below(set) == UNION {Children(n) : n \in set}
LeafTools ==
    LET search[depth \in 0..Cardinality(nodes), n \in nodes] ==
            IF depth = 0 THEN {n} ELSE Below(search[depth - 1, n])
    IN  {n \in Sources("tool-call") :
            \A d \in 1..Cardinality(nodes) : \A c \in search[d, n] : c.kind \notin Activity}

Union(set) == IntervalUnion({<<n.from, n.to>> : n \in set})
Budget ==
    LET wall == Max({n.to : n \in nodes}) - Min({n.from : n \in nodes})
        llm == Sources("model-call")
    IN  [wall |-> wall, llm |-> Union(llm), tool |-> Union(LeafTools),
         gap |-> Max({0, wall - Union(llm \cup LeafTools)})]

Measure ==
    /\ nodes # NotYet /\ measured = NotYet
    /\ measured' = {[self |-> {<<n.id, SelfTime(n)>> : n \in nodes},
                     calls |-> {<<n.id, k, PrefixValue(k, n.to)>> : n \in nodes, k \in Activity},
                     budget |-> Budget]}
    /\ UNCHANGED <<spans, nodes>>

TreeNext == Assemble \/ Measure

-----------------------------------------------------------------------------
(* The same, told from the spans and moment by moment.                       *)

LinkedAbove(i) == {j \in Ids : \E n \in 1..Cardinality(Ids) :
    LET up[k \in 0..Cardinality(Ids)] == IF k = 0 THEN i
                                         ELSE IF up[k - 1] = 0 THEN 0 ELSE spans[up[k - 1]].parent
    IN  up[n] = j}
Moments(from, to) == {t \in -1..10 : t >= from /\ t < to}
CoveredBy(set) == UNION {Moments(n.from, n.to) : n \in set}
CallSpans(kind) == {i \in Ids : spans[i].kind = kind}
Leaves == {i \in CallSpans("tool-call") : \A j \in Primaries : i \notin LinkedAbove(j)}

\* Every span and every error is in one node; a call hangs on the nearest call
\* its span descends from; and the tree holds every node once.
FusionLosesNothing ==
    /\ \A i \in Ids : Cardinality({n \in nodes : i \in n.members}) = 1
    /\ UNION {n.errors : n \in nodes} = {i \in Ids : spans[i].failed}
    /\ \A p \in Primaries :
        LET above == LinkedAbove(p) \cap Primaries IN
        (CHOOSE n \in nodes : n.id = CallId(p)).parent
            = IF above = {} THEN NoNode ELSE CallId(Max(above))
    /\ \A n \in nodes \ Roots : Cardinality({m \in nodes : n \in Children(m)}) = 1
    /\ LET reached[d \in 0..Cardinality(nodes)] ==
               IF d = 0 THEN Roots ELSE reached[d - 1] \cup Below(reached[d - 1])
       IN  reached[Cardinality(nodes)] = nodes

\* No moment is counted twice and none is lost.
MeasuresExact(m) ==
    /\ \A n \in nodes :
        <<n.id, Cardinality(Moments(n.from, n.to) \ CoveredBy(Children(n)))>> \in m.self
    /\ \A n \in nodes, k \in Activity :
        LET calls == {i \in CallSpans(k) : spans[i].from <= n.to}
            cut(i) == Moments(spans[i].from, Min({spans[i].to, n.to}))
        IN  <<n.id, k, [count |-> Cardinality(calls),
                        total |-> Cardinality({<<i, t>> \in calls \X (-1..10) : t \in cut(i)}),
                        covered |-> Cardinality(UNION {cut(i) : i \in calls})]>> \in m.calls
    /\ LET moments(set) == UNION {Moments(spans[i].from, spans[i].to) : i \in set}
           llm == moments(CallSpans("model-call"))
           tool == moments(Leaves)
       IN  /\ m.budget.llm = Cardinality(llm) /\ m.budget.tool = Cardinality(tool)
           /\ m.budget.gap = m.budget.wall - Cardinality(llm \cup tool)

(* However spans nest, overlap, fail or lack their parent, fusion keeps each *)
(* span and each error once and hangs calls where they were made, and the   *)
(* sweeps over intervals give each moment to whom it belongs: self times,   *)
(* calls until a node ends, and the budget of the trace.                     *)
TreeSound ==
    /\ nodes # NotYet => FusionLosesNothing
    /\ \A m \in measured : MeasuresExact(m)

=============================================================================
