----------------------------- MODULE ProcessScope -----------------------------
(* toolbox/harness_toolbox/process.py: execute() writes a child's input and  *)
(* reads its two outputs in tasks of their own, under a deadline, then stop()*)
(* drains what is left and ends the child: SIGTERM, and SIGKILL two seconds  *)
(* later.  The child echoes its input, so full pipes can block both sides.   *)
EXTENDS Naturals

CONSTANTS
    Input,       \* most blocks written to the child
    Extra,       \* blocks the child writes by itself at its end
    PipeSize,    \* blocks a pipe holds
    MaxOutput,   \* max_bytes
    MaxStops     \* cancellations of the caller, the deadline included

VARIABLES
    standing,    \* of the call: "runs", "stops", "kills", "waits", "returned", "raised" or "left"
    unsent, stdin, stdout,  \* blocks not yet written, and in the pipes
    eof,         \* the input pipe is closed
    taken,       \* blocks read by read_bounded
    child,       \* "runs", "deaf" to SIGTERM, "exited" or "killed"
    own,         \* blocks the child still writes by itself
    term, stops, \* SIGTERM was sent; cancellations so far
    output,      \* the blocks a result holds
    whole        \* the blocks of this call's input and of its child

processVars == <<standing, unsent, stdin, stdout, eof, taken, child, own, term, stops,
                 output, whole>>
pipes == <<unsent, stdin, stdout, eof, taken>>

ASSUME ProcessBounds ==
    /\ {Input, Extra, MaxOutput, MaxStops} \subseteq Nat /\ PipeSize \in Nat \ {0}

ProcessInit ==
    /\ standing = "runs" /\ unsent \in 0..Input /\ stdin = 0 /\ stdout = 0 /\ eof = FALSE /\ taken = 0
    /\ child \in {"runs", "deaf"} /\ own = Extra
    /\ term = FALSE /\ stops = 0 /\ output = 0 /\ whole = unsent + own

Living == child \in {"runs", "deaf"}

\* The writer's task; a child that closed its input ends it too.
Feed ==
    /\ standing = "runs" /\ unsent > 0
    /\ \/ Living /\ stdin < PipeSize /\ unsent' = unsent - 1 /\ stdin' = stdin + 1
       \/ ~Living /\ unsent' = 0 /\ UNCHANGED stdin
    /\ UNCHANGED <<standing, stdout, eof, taken, child, own, term, stops, output, whole>>
CloseInput ==
    /\ ~eof /\ (unsent = 0 \/ standing \notin {"runs"})
    /\ eof' = TRUE
    /\ UNCHANGED <<standing, unsent, stdin, stdout, taken, child, own, term, stops, output, whole>>

\* The child echoes a block, writes one of its own at the end, then exits.
Echo ==
    /\ Living /\ stdout < PipeSize
    /\ \/ stdin > 0 /\ stdin' = stdin - 1 /\ UNCHANGED own
       \/ stdin = 0 /\ eof /\ own > 0 /\ own' = own - 1 /\ UNCHANGED stdin
    /\ stdout' = stdout + 1
    /\ UNCHANGED <<standing, unsent, eof, taken, child, term, stops, output, whole>>
Exit ==
    /\ Living /\ \/ stdin = 0 /\ eof /\ own = 0
                 \/ term /\ child = "runs"
    /\ child' = "exited"
    /\ UNCHANGED <<standing, pipes, own, term, stops, output, whole>>
\* A child may end at any time of its own.
Crashed ==
    /\ child = "runs" /\ child' = "killed"
    /\ UNCHANGED <<standing, pipes, own, term, stops, output, whole>>

\* Mutant: the reader starts when the input has been written.
TakeLate ==
    /\ standing = "runs" /\ stdout > 0 /\ unsent = 0
    /\ stdout' = stdout - 1 /\ taken' = taken + 1
    /\ standing' = IF taken' > MaxOutput THEN "stops" ELSE standing
    /\ UNCHANGED <<unsent, stdin, eof, child, own, term, stops, output, whole>>
\* read_bounded: one block more than the limit ends it.
Take ==
    /\ standing = "runs" /\ stdout > 0
    /\ stdout' = stdout - 1 /\ taken' = taken + 1
    /\ standing' = IF taken' > MaxOutput THEN "stops" ELSE standing
    /\ UNCHANGED <<unsent, stdin, eof, child, own, term, stops, output, whole>>

\* All three tasks and the child are over.
Result ==
    /\ standing = "runs" /\ ~Living /\ unsent = 0 /\ stdout = 0
    /\ standing' = "returned" /\ output' = taken
    /\ UNCHANGED <<pipes, child, own, term, stops, whole>>

\* Mutant: the deadline leaves without stop().
StopUnwound ==
    /\ standing \in {"runs", "stops", "kills", "waits"} /\ stops < MaxStops
    /\ stops' = stops + 1 /\ standing' = "raised"
    /\ UNCHANGED <<pipes, child, own, term, output, whole>>
\* The deadline or the caller's cancellation: the tasks are joined, then stop()
\* follows; one that arrives while stop() waits leaves it where it stands.
StopScope ==
    /\ standing \in {"runs", "stops", "kills", "waits"} /\ stops < MaxStops
    /\ stops' = stops + 1
    /\ standing' = IF standing \in {"runs", "stops"} THEN "stops" ELSE "left"
    /\ UNCHANGED <<pipes, child, own, term, output, whole>>

\* stop(): what the child still writes is read, so that it can end.
Drain ==
    /\ standing \in {"kills", "waits"} /\ stdout > 0 /\ stdout' = stdout - 1
    /\ UNCHANGED <<standing, unsent, stdin, eof, taken, child, own, term, stops, output, whole>>
Terminate ==
    /\ standing = "stops"
    /\ term' = (term \/ Living) /\ standing' = IF Living THEN "kills" ELSE "waits"
    /\ UNCHANGED <<pipes, child, own, stops, output, whole>>
Kill ==
    /\ standing = "kills" /\ standing' = "waits"
    /\ child' = IF Living THEN "killed" ELSE child
    /\ UNCHANGED <<pipes, own, term, stops, output, whole>>

Reap ==
    /\ standing = "waits" /\ ~Living /\ stdout = 0 /\ standing' = "raised"
    /\ UNCHANGED <<pipes, child, own, term, stops, output, whole>>

ProcessStep ==
    Feed \/ CloseInput \/ Echo \/ Exit \/ Take \/ Result \/ Drain \/ Terminate \/ Kill \/ Reap
ProcessNext == ProcessStep \/ Crashed \/ StopScope

-----------------------------------------------------------------------------
(* A child never outlives the call that started it, unless stop() itself was *)
(* cancelled (execute's own deadline does that too, when an output beyond   *)
(* the limit stopped the call first); a result holds all that a child that  *)
(* ended well wrote, and never more than the limit.                         *)
NoOrphan ==
    /\ standing \in {"returned", "raised"} => ~Living
    /\ standing = "returned" => output <= MaxOutput /\ (child = "exited" => output = whole)

(* Every call ends, without its deadline if the child ends once it was read: *)
(* no pair of full pipes blocks both sides for ever, and stop() ends too.    *)
CallOver == standing \in {"returned", "raised", "left"}

=============================================================================
