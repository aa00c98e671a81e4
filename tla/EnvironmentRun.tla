---------------------------- MODULE EnvironmentRun ----------------------------
(* harness_common/access/fixture.py, run_environment: prepare and run in the *)
(* owner's task, then cleanup and disposal in a task of their own, so that a *)
(* cancelled owner neither skips them nor takes the clients away from them.  *)
(* A phase is a callback of the project, and around prepare and cleanup the  *)
(* observation that a finally clause takes, whatever is passing through it.  *)
EXTENDS Naturals, Sequences

CONSTANTS MaxInterrupts    \* cancellations of the owner

VARIABLES
    owner,        \* "prepare", "run", "teardown", "returned" or "raised"
    teardown,     \* its task: "none", "cleanup", "dispose" or "over"
    phases,       \* execution.phases: name and whether an error is recorded
    lost,         \* an exception that is no error of a phase is on its way out
    interrupted,  \* the flag of the loop that waits for teardown
    interrupts,   \* cancellations so far
    mishaps       \* what really went wrong, by phase

environmentVars == <<owner, teardown, phases, lost, interrupted, interrupts, mishaps>>

ASSUME InterruptBound == MaxInterrupts \in Nat

EnvironmentInit ==
    /\ owner = "prepare" /\ teardown = "none" /\ phases = << >>
    /\ lost = FALSE /\ interrupted = FALSE /\ interrupts = 0 /\ mishaps = {}

\* phase(): whatever the callback does, one entry; only an Exception is its error.
Noted(name, ok) == phases' = Append(phases, [name |-> name, ok |-> ok])
\* A callback raises, exceeds its budget, or misses a required fact.
Mishap(name, ok) == mishaps' = IF ok THEN mishaps ELSE mishaps \cup {name}

\* A phase ends well, with an Exception, or with what is none and escapes it: a
\* CancelledError, or a group of errors with one among them.
Outcomes == {"ok", "error", "escaped"}
Ends(name, outcome) ==
    /\ Noted(name, outcome # "error") /\ Mishap(name, outcome = "ok")
    /\ lost' = (lost \/ outcome = "escaped")

Prepare ==
    /\ owner = "prepare"
    /\ \E outcome \in Outcomes :
         /\ Ends("prepare", outcome)
         /\ owner' = IF outcome = "ok" THEN "run" ELSE "teardown"
         /\ teardown' = IF outcome = "ok" THEN "none" ELSE "cleanup"
    /\ UNCHANGED <<interrupted, interrupts>>

Run ==
    /\ owner = "run"
    /\ \E outcome \in Outcomes : Ends("run", outcome)
    /\ owner' = "teardown" /\ teardown' = "cleanup"
    /\ UNCHANGED <<interrupted, interrupts>>

\* The fixture's cleanup, with its observation.
Clean ==
    /\ teardown = "cleanup"
    /\ \E outcome \in Outcomes : Ends("cleanup", outcome)
    /\ teardown' = "dispose"
    /\ UNCHANGED <<owner, interrupted, interrupts>>

\* Disposal is joined even when it exceeds its budget, which is then an error.
DisposeClients ==
    /\ teardown = "dispose"
    /\ \E outcome \in Outcomes : Ends("dispose", outcome)
    /\ teardown' = "over"
    /\ UNCHANGED <<owner, interrupted, interrupts>>

\* Mutant: the cancellations swallowed while teardown ran are forgotten.
LeaveForgetful ==
    /\ owner = "teardown" /\ teardown = "over"
    /\ owner' = IF lost THEN "raised" ELSE "returned"
    /\ UNCHANGED <<teardown, phases, lost, interrupted, interrupts, mishaps>>
Return ==
    /\ owner = "teardown" /\ teardown = "over"
    /\ owner' = IF lost \/ interrupted THEN "raised" ELSE "returned"
    /\ UNCHANGED <<teardown, phases, lost, interrupted, interrupts, mishaps>>

\* A cancellation ends the phase it meets.  It escapes, unless an Exception is
\* raised while it unwinds, by the observation or by a finally clause of the
\* project: that one replaces it and is the phase's error.  The teardown goes on.
Interrupted ==
    /\ interrupts < MaxInterrupts /\ interrupts' = interrupts + 1
    /\ \/ /\ owner \in {"prepare", "run"}
          /\ \E outcome \in {"error", "escaped"} : Ends(owner, outcome)
          /\ owner' = "teardown" /\ teardown' = "cleanup"
          /\ UNCHANGED interrupted
       \/ /\ owner = "teardown" /\ interrupted' = TRUE
          /\ UNCHANGED <<owner, teardown, phases, lost, mishaps>>

EnvironmentNext == Prepare \/ Run \/ Clean \/ DisposeClients \/ Return \/ Interrupted

-----------------------------------------------------------------------------
Names == [i \in DOMAIN phases |-> phases[i].name]
Healthy == \A i \in DOMAIN phases : phases[i].ok
Left == owner \in {"returned", "raised"}

(* The owner never leaves before cleanup, then disposal, are over, each once *)
(* and whatever was cancelled meanwhile.  If it returns, the phases tell all *)
(* that went wrong; a cancellation may be missing only if the phase it met   *)
(* has an error instead, and an execution is healthy only if all four phases *)
(* went well and nothing was cancelled.                                      *)
EnvironmentSettles ==
    /\ Left => /\ teardown = "over"
               /\ SubSeq(Names, Len(phases) - 1, Len(phases)) = <<"cleanup", "dispose">>
               /\ \A i, j \in DOMAIN phases : Names[i] = Names[j] => i = j
    /\ owner = "returned" =>
         /\ Healthy <=> mishaps = {}
         /\ Healthy => Len(phases) = 4 /\ interrupts = 0
         /\ interrupts > 0 => \E i \in DOMAIN phases : /\ Names[i] \in {"prepare", "run"}
                                                     /\ ~phases[i].ok

=============================================================================
