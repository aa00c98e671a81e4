--------------------------- MODULE MCEvidenceLoader ---------------------------
(* The evidence loader in Python, and the session with its loader and pools in *)
(* TypeScript: each behaviour is of one of the two.  In Python, two leases of  *)
(* one trace and one of another that hashes to the same lock.                  *)
EXTENDS EvidenceLoader, TsTraceSession, TLC
CONSTANTS Twins, t1, t2, s1, s2, s3, e1, e2, e3, a, b, c, base, kind, size, body

Ask(l, ids, fields) == [lease |-> l, ids |-> ids, fields |-> fields]

MCSpansOf == (t1 :> {s1, s2}) @@ (t2 :> {s1})
MCStripeOf == (t1 :> 1) @@ (t2 :> 1)
MCTraceOf == (e1 :> t1) @@ (e2 :> t1) @@ (e3 :> t2)

\* The skeleton of t2 is an earlier session's and has to be extended.
MCSaved == (t1 :> {{}}) @@ (t2 :> {{base}})
MCWeight == (base :> 0) @@ (kind :> 0) @@ (size :> 1) @@ (body :> 3)

\* A call over two spans, too large together; one over one of them; and one
\* of the other lease for a span the skeleton does not have.
MCAsks == (a :> Ask(e1, {s1, s2}, {size})) @@ (b :> Ask(e1, {s1}, {size}))
          @@ (c :> Ask(e2, {s3}, {size}))

\* One lease that asks, exceeds the budget and asks again.
RetryAsks == (a :> Ask(e1, {s1}, {size})) @@ (b :> Ask(e1, {s1}, {body}))
             @@ (c :> Ask(e1, {s1}, {body}))
RetrySpansOf == (t1 :> {s1})
RetryTraceOf == (e1 :> t1)
RetryStripeOf == (t1 :> 1)
RetrySaved == (t1 :> {{}})

\* In TypeScript, three calls of which two share a trace, lazily, with a load each
\* for those two; and the two alone with preloads that share the budget.
MCTsTraceOf == [r \in {"r1", "r2", "r3"} |-> IF r = "r3" THEN "u" ELSE "t"]
MCTsAsks == [l \in {"l1", "l2"} |-> IF l = "l1" THEN [call |-> "r1", items |-> {"p"}]
                                    ELSE [call |-> "r2", items |-> {"p", "q"}]]
LazyUse == [lazy |-> TRUE, calls |-> {"r1", "r2", "r3"}]
MCTsUses == {LazyUse, [lazy |-> FALSE, calls |-> {"r1", "r2"}]}

VARIABLE twin
twinVars == <<twin, vars, tsSessionVars>>

TwinInit ==
    /\ twin \in Twins /\ Init /\ TsSessionInit
    /\ twin = "python" => use = LazyUse /\ skeletons = [t \in TsTraces |-> "lacking"]
    /\ twin = "typescript" => skeleton = [t \in Traces |-> CHOOSE fields \in Saved[t] : TRUE]

TwinNext ==
    \/ twin = "python" /\ Next /\ UNCHANGED <<twin, tsSessionVars>>
    \/ twin = "typescript" /\ TsSessionNext /\ UNCHANGED <<twin, vars>>
    \/ twin = "typescript" /\ closing = "closed" /\ UNCHANGED twinVars

TwinSpec == TwinInit /\ [][TwinNext]_twinVars /\ TsSessionFairness
            /\ (twin = "python" => Fairness)

(* Coalescing is exact, and limits and closing are kept, in either language. *)
SessionsExact == (twin = "python" => ReadsExact) /\ (twin = "typescript" => TsSessionSound)

(* Every load is answered; in TypeScript every call of tree() and close() is *)
(* too, and the loads also when the session closes.                          *)
SessionsAnswer == LoadsAnswered /\ TsSessionSettles

=============================================================================
