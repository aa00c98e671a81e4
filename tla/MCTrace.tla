------------------------------- MODULE MCTrace -------------------------------
(* The trace runtime around the evidence loader: the fact graph of a lease, *)
(* the session that opens leases, a batch run over a dataset, and the tree  *)
(* a trace is analysed as.  They meet only through whole leases and whole   *)
(* trees, so each behaviour moves one of them.                              *)
EXTENDS FactGraph, TraceSession, BatchRun, TraceTree

VARIABLE subject
traceVars == <<subject, twinFactVars, sessionVars, batchVars, treeVars>>

\* Facts a, b, c and a metric m: a diamond over evidence, a cycle of three, one
\* of two beside evidence, and a cycle that an innocent fact leads to.
Requires(a, b, c, m) ==
    [k \in {"a", "b", "c", "m"} |-> CASE k = "a" -> a [] k = "b" -> b [] k = "c" -> c [] OTHER -> m]
Diamond == Requires({"b", "c"}, {"c"}, {Evidence}, {"a"})
MCGraphs == {Diamond,
             Requires({"b"}, {"c", Evidence}, {"a"}, {"b"}),
             Requires({"b", "c"}, {"a", "c"}, {Evidence}, {"a", "b"}),
             Requires({"b", Evidence}, {"c"}, {"b"}, {"a", "c"})}

\* Two readers of one trace, one of a trace under the same lock, and one of
\* another dataset.
MCTraceOf == [r \in {"r1", "r2", "r3", "r4"} |->
                CASE r \in {"r1", "r2"} -> "t1" [] r = "r3" -> "t2" [] OTHER -> "t3"]
MCDataset == [t \in {"t1", "t2", "t3"} |-> IF t = "t3" THEN "d2" ELSE "d1"]
MCStripe == [t \in {"t1", "t2", "t3"} |-> 1]

\* Registries in several orders, one with a duplicate and one that lacks x,
\* under every choice of a few requirements, sound or cyclic.
MCMembers == <<"t1", "t2">>
MCOrders == {<<"x", "y", "z">>, <<"z", "x", "y">>, <<"x", "y", "x">>, <<"y", "z">>}
MCLists == {<< >>, <<"x">>, <<"y">>, <<"z">>, <<"y", "z">>, <<"z", "y">>}
Registry(order, x, y, z) ==
    [order |-> order,
     requires |-> [d \in {"x", "y", "z"} |-> CASE d = "x" -> x [] d = "y" -> y [] OTHER -> z]]
MCRegistries == {Registry(o, x, y, z) : o \in MCOrders, x \in MCLists, y \in MCLists, z \in MCLists}
MCSelections == {All, <<"x">>, <<"y", "x">>, <<"w">>, <<"x", "x">>}

\* Four spans linked in every way, of every kind, under three layouts in time:
\* nested with an overlap, staggered with an instant and a pause, and a child
\* that starts before its parent; two of them may fail.
Span(parent, kind, service, failed, interval) ==
    [parent |-> parent, kind |-> kind, service |-> service, failed |-> failed,
     from |-> interval[1], to |-> interval[2]]
MCLayouts == {<< <<0, 6>>, <<1, 5>>, <<1, 2>>, <<2, 4>> >>,
              << <<0, 2>>, <<1, 3>>, <<1, 1>>, <<4, 5>> >>,
              << <<1, 4>>, <<1, 2>>, <<0, 5>>, <<2, 4>> >>}
Shape(parent, kind, layout) ==
    [i \in 1..4 |-> Span(parent[i], kind[i], IF i = 4 THEN "b" ELSE "a", i \in {2, 3}, layout[i])]
MCShapes == {Shape(parent, kind, layout) :
                parent \in {links \in [1..4 -> 0..3] : \A i \in 1..4 : links[i] < i},
                kind \in [1..4 -> Activity \cup {"satellite", "plain"}],
                layout \in MCLayouts}
Plain == Shape([i \in 1..4 |-> 0], [i \in 1..4 |-> "plain"], CHOOSE layout \in MCLayouts : TRUE)

Init ==
    /\ subject \in {"facts", "session", "batch", "tree"}
    /\ subject # "facts" => deps = Diamond
    /\ subject # "batch" => reg = Registry(<<"x", "y", "z">>, << >>, << >>, << >>) /\ selected = All
    /\ subject # "facts" => factTwin = "python"
    /\ TsFactInit /\ SessionInit /\ BatchInit
    /\ IF subject = "tree" THEN TreeInit ELSE spans = Plain /\ nodes = NotYet /\ measured = NotYet

Next ==
    \/ subject = "facts" /\ TwinFactNext /\ UNCHANGED <<subject, sessionVars, batchVars, treeVars>>
    \/ subject = "session" /\ SessionNext /\ UNCHANGED <<subject, twinFactVars, batchVars, treeVars>>
    \/ subject = "batch" /\ BatchNext /\ UNCHANGED <<subject, twinFactVars, sessionVars, treeVars>>
    \/ subject = "tree" /\ TreeNext /\ UNCHANGED <<subject, twinFactVars, sessionVars, batchVars>>

Spec == Init /\ [][Next]_traceVars /\ TwinFactFairness /\ SessionFairness

(* Leases are bounded by the slots while they live and compute nothing once *)
(* they are closed.                                                         *)
LeasesSound == ClosedLeaseIsSettled /\ LeasesWithinSlots

(* What an analysis reports is true of what it was given: the plan and the  *)
(* manifest of a batch run, the nodes of a trace and their measures.        *)
AnalysisSound == BatchSound /\ TreeSound

(* Nobody waits for ever, neither for a fact nor for a lease, a lock or the *)
(* semaphore, whatever is cyclic, fails, is cancelled or closes.            *)
EverybodyServed == RequestsAnswered /\ ReadersServed

=============================================================================
