---------------------------- MODULE BoundedRetry ----------------------------
(***************************************************************************)
(* What a gated attempt promises to the cell it fills: a producer is       *)
(* called at most Attempts times, never again after it succeeded, never by *)
(* more than MaxLimit callers at once; the attempt fails only when every   *)
(* call was used up, and is cut only by the cancellation of the run.       *)
(***************************************************************************)
EXTENDS Naturals, FiniteSets

CONSTANTS Callers, Attempts, MaxLimit

VARIABLES
    calls,      \* producer calls each caller has made
    busy,       \* callers whose producer is running
    good,       \* callers whose last call succeeded
    outcome     \* "open" until the attempt returns or raises

retryVars == <<calls, busy, good, outcome>>

RetryInit ==
    /\ calls = [c \in Callers |-> 0]
    /\ busy = {} /\ good = {}
    /\ outcome = [c \in Callers |-> "open"]

StartCall(c) ==
    /\ outcome[c] = "open" /\ c \notin busy \cup good
    /\ calls[c] < Attempts /\ Cardinality(busy) < MaxLimit
    /\ calls' = [calls EXCEPT ![c] = @ + 1]
    /\ busy' = busy \cup {c}
    /\ UNCHANGED <<good, outcome>>

EndCall(c) ==
    /\ c \in busy
    /\ busy' = busy \ {c}
    /\ good' \in {good, good \cup {c}}
    /\ UNCHANGED <<calls, outcome>>

Conclude(c) ==
    /\ outcome[c] = "open" /\ c \notin busy
    /\ \/ c \in good /\ outcome' = [outcome EXCEPT ![c] = "ok"]
       \/ /\ c \notin good /\ calls[c] = Attempts
          /\ outcome' = [outcome EXCEPT ![c] = "failed"]
       \/ outcome' = [outcome EXCEPT ![c] = "cut"]
    /\ UNCHANGED <<calls, busy, good>>

RetryNext == \E c \in Callers : StartCall(c) \/ EndCall(c) \/ Conclude(c)

RetrySpec == RetryInit /\ [][RetryNext]_retryVars

=============================================================================
