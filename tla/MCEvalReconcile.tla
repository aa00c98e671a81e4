--------------------------- MODULE MCEvalReconcile ---------------------------
(* Instances of EvalReconcile for TLC. *)
EXTENDS EvalReconcile, TLC

CONSTANTS k1, k2, r1, r2, m1, m2

\* Two keys and a row on each.
TwoKeys == r1 :> k1 @@ r2 :> k2
\* One key with its row.
OneRow == r1 :> k1

=============================================================================
