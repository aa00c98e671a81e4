-------------------------------- MODULE PodLog --------------------------------
(* Captures of container logs: the client of the Python toolbox, which shares  *)
(* them, and the stream that the TypeScript client of one container reads.     *)
EXTENDS Naturals, Sequences, FiniteSets
LOCAL INSTANCE FiniteSetsExt
LOCAL INSTANCE SequencesExt

-----------------------------------------------------------------------------
(* toolbox/harness_toolbox/pod_log.py: captures of container logs.  One    *)
(* task per target is shared by all who ask; the tasks share a number of   *)
(* slots and one byte budget, and a capture is only as good as the         *)
(* identity of the container before and after it.                          *)

CONSTANTS
    Targets,        \* PodLogTarget.key
    Content,        \* bytes the log of each target holds
    Slots,          \* source.concurrency
    MaxCapture,     \* source.max_capture_bytes
    MaxTotal,       \* source.max_total_bytes
    MaxRestarts,    \* restarts of a container a run may see
    MaxTries        \* captures of one target a run may start

VARIABLES
    restarts,    \* the cluster: restarts of each container since it was targeted
    cap,         \* the capture task of each target
    tries,       \* captures started per target
    used,        \* _used_bytes
    files,       \* the targets with a file in the directory
    logs         \* the client: "ready", "disposing" or "disposed"

logVars == <<restarts, cap, tries, used, files, logs>>

ASSUME LogBounds == /\ Slots \in Nat \ {0} /\ MaxCapture \in Nat \ {0} /\ MaxTotal \in Nat \ {0}
                    /\ Content \in [Targets -> Nat]

Idle == [at |-> "none", written |-> 0, truncated |-> FALSE]
InSlot == {"checking", "reading", "verifying"}
Running == {"queued"} \cup InSlot
Least(a, b) == IF a < b THEN a ELSE b

LogInit ==
    /\ restarts = [t \in Targets |-> 0] /\ tries = [t \in Targets |-> 0]
    /\ cap = [t \in Targets |-> Idle]
    /\ used = 0 /\ files = {} /\ logs = "ready"

Moves(t, place) == cap' = [cap EXCEPT ![t].at = place]

Restart(t) ==
    /\ restarts[t] < MaxRestarts
    /\ restarts' = [restarts EXCEPT ![t] = @ + 1]
    /\ UNCHANGED <<cap, tries, used, files, logs>>

\* capture(): joins the task of the target, or starts one.
Capture(t) ==
    /\ logs = "ready" /\ cap[t].at = "none" /\ tries[t] < MaxTries
    /\ Moves(t, "queued")
    /\ tries' = [tries EXCEPT ![t] = @ + 1]
    /\ UNCHANGED <<restarts, used, files, logs>>

TakeSlot(t) ==
    /\ cap[t].at = "queued"
    /\ Cardinality({s \in Targets : cap[s].at \in InSlot}) < Slots
    /\ Moves(t, "checking")
    /\ UNCHANGED <<restarts, tries, used, files, logs>>

\* The first identity check; kubectl starts and the file is opened.
Check(t) ==
    /\ cap[t].at = "checking" /\ restarts[t] = 0
    /\ Moves(t, "reading")
    /\ files' = files \cup {t}
    /\ UNCHANGED <<restarts, tries, used, logs>>

\* Mutant: the budget of all captures is not consulted.
Room0(t) == MaxCapture - cap[t].written
\* What of a chunk may still be written.
Room(t) == Least(MaxCapture - cap[t].written, MaxTotal - used)

\* One chunk is accounted and written, without an await between; a chunk that
\* does not fit ends the capture as truncated.
Chunk(t) ==
    /\ cap[t].at = "reading"
    /\ \E n \in 1..(Content[t] - cap[t].written) :
         LET taken == Least(n, Room(t))
         IN  /\ used' = used + taken
             /\ cap' = [cap EXCEPT ![t].written = @ + taken,
                                   ![t].truncated = taken < n,
                                   ![t].at = IF taken < n THEN "verifying" ELSE @]
    /\ UNCHANGED <<restarts, tries, files, logs>>

\* The stream ends; kubectl must have succeeded.
EndOfLog(t) ==
    /\ cap[t].at = "reading" /\ cap[t].written = Content[t]
    /\ Moves(t, "verifying")
    /\ UNCHANGED <<restarts, tries, used, files, logs>>

\* The second identity check.
Accept(t) ==
    /\ cap[t].at = "verifying" /\ restarts[t] = 0
    /\ Moves(t, "captured")
    /\ UNCHANGED <<restarts, tries, used, files, logs>>

\* A failed check, a failing kubectl, the timeout (in the queue too) or a
\* cancellation: the bytes are given back, the file goes, the task is forgotten.
Fail(t) ==
    /\ cap[t].at \in Running
    /\ used' = used - cap[t].written
    /\ files' = files \ {t}
    /\ cap' = [cap EXCEPT ![t] = Idle]
    /\ UNCHANGED <<restarts, tries, logs>>

\* dispose(): no new capture; the running ones are cancelled and awaited.
DisposeLogs ==
    /\ logs = "ready"
    /\ logs' = "disposing"
    /\ UNCHANGED <<restarts, cap, tries, used, files>>

CleanUp ==
    /\ logs = "disposing" /\ \A t \in Targets : cap[t].at \notin Running
    /\ logs' = "disposed" /\ files' = {}
    /\ UNCHANGED <<restarts, cap, tries, used>>

LogNext ==
    \/ \E t \in Targets : \/ Restart(t) \/ Capture(t) \/ TakeSlot(t) \/ Check(t) \/ Chunk(t)
                          \/ EndOfLog(t) \/ Accept(t) \/ Fail(t)
    \/ DisposeLogs \/ CleanUp

-----------------------------------------------------------------------------
(* The budget is exact: the bytes accounted are those of the captures that *)
(* run or succeeded, never more than the total, whichever fail meanwhile;  *)
(* and as many files exist as such captures.                               *)
BudgetExact ==
    /\ used = FoldSet(LAMBDA t, sum : sum + cap[t].written, 0, Targets)
    /\ used <= MaxTotal
    /\ \A t \in Targets : cap[t].written <= MaxCapture
    /\ logs # "disposed" =>
          files = {t \in Targets : cap[t].at \in {"reading", "verifying", "captured"}}

(* A capture that is handed out is what it says, the whole log or marked   *)
(* as truncated, however little of the budget the others left it; and      *)
(* disposal leaves no file and no task behind it.                          *)
CaptureIsTrue ==
    /\ \A t \in Targets :
         cap[t].at \in {"verifying", "captured"} =>
            cap[t].truncated \/ cap[t].written = Content[t]
    /\ logs = "disposed" => files = {} /\ \A t \in Targets : cap[t].at \notin Running

(* Captures share the budget exactly and none lies about what it holds.     *)
CapturesSound == BudgetExact /\ CaptureIsTrue

-----------------------------------------------------------------------------
(* ts/toolbox/src/kubernetes/client-node-pod-log.ts: the log of one          *)
(* container is read as a stream, and a read that breaks is resumed at the   *)
(* last timestamp it saw.  The API server cuts a line at the byte limit and   *)
(* answers from a timestamp on, so a resumed read sees lines again.  A line   *)
(* has LineSize bytes; a text occurs twice only at one and the same time.    *)

CONSTANTS
    Captures,       \* [lines, since, until, limit]: a line is [time, text], 0 is no bound
    LineSize,
    ReadTries,      \* policy.maxAttempts
    RecentLimit     \* RECENT_LINE_LIMIT

ASSUME StreamBounds == /\ LineSize \in Nat \ {0, 1} /\ ReadTries \in Nat \ {0}
                       /\ RecentLimit \in Nat \ {0}

VARIABLES
    capture,        \* the request, and the log it is about
    streamAt,       \* "idle", "asked", "body", "settled", "done"
    attempt,        \* the read under way
    emitted,        \* what the caller got: [text, whole]
    recent,         \* the last lines, as a list and as the set it is looked up in
    tally,          \* [tries, bytes, resume, timedOut] over all reads
    interrupt,      \* [late, aborted]: the hard deadline is over, the host aborted
    captured        \* the answer

streamVars == <<capture, streamAt, attempt, emitted, recent, tally, interrupt, captured>>

NoAttempt == [from |-> 0, read |-> 0, limit |-> 0, last |-> 0, window |-> FALSE, fired |-> FALSE,
              ok |-> FALSE, retryable |-> FALSE]
NoAnswer == [status |-> "none", reason |-> "none"]

StreamInit ==
    /\ capture \in Captures
    /\ streamAt = "idle" /\ attempt = NoAttempt
    /\ emitted = << >> /\ recent = [list |-> << >>, set |-> {}]
    /\ tally = [tries |-> 0, bytes |-> 0, resume |-> capture.since, timedOut |-> FALSE]
    /\ interrupt = [late |-> FALSE, aborted |-> FALSE]
    /\ captured = NoAnswer

-----------------------------------------------------------------------------
(* The loop over reads.                                                     *)

\* The first line of a response, and the bytes it has.
FirstFrom(since) ==
    Min({i \in 1..Len(capture.lines) : capture.lines[i].time >= since} \cup {Len(capture.lines) + 1})
Available ==
    LET rest == LineSize * (Len(capture.lines) + 1 - attempt.from) IN
    IF capture.limit = 0 THEN rest ELSE Min({rest, attempt.limit})

LimitReached(bytes) == capture.limit # 0 /\ bytes >= capture.limit

CaptureAnswers(status, reason) == captured' = [status |-> status, reason |-> reason] /\ streamAt' = "done"

\* Behind the loop: what was read is partial evidence.
StreamEnds(sums) ==
    /\ CaptureAnswers(IF sums.bytes > 0 THEN "partial" ELSE "unavailable",
              CASE interrupt.aborted -> "cancelled"
                [] ~interrupt.aborted /\ LimitReached(sums.bytes) -> "byte_limit"
                [] OTHER -> IF sums.timedOut THEN "timeout" ELSE "transport_error")
    /\ tally' = sums
    /\ UNCHANGED attempt

\* The head of the loop, up to the first await of a read.
Turn(sums) ==
    IF interrupt.aborted \/ LimitReached(sums.bytes) THEN StreamEnds(sums)
    ELSE IF interrupt.late THEN StreamEnds([sums EXCEPT !.timedOut = TRUE])
    ELSE /\ streamAt' = "asked"
         /\ attempt' = [NoAttempt EXCEPT !.from = FirstFrom(sums.resume),
                                         !.limit = IF capture.limit = 0 THEN 0
                                                   ELSE capture.limit - sums.bytes]
         /\ tally' = [sums EXCEPT !.tries = @ + 1]
         /\ UNCHANGED captured

\* A host that has aborted gets an exception, a request that is not one an
\* answer; neither opens the file.
StreamBegins ==
    /\ streamAt = "idle"
    /\ \/ interrupt.aborted /\ CaptureAnswers("thrown", "cancelled") /\ UNCHANGED <<attempt, tally>>
       \/ ~interrupt.aborted /\ CaptureAnswers("unavailable", "request") /\ UNCHANGED <<attempt, tally>>
       \/ ~interrupt.aborted /\ Turn(tally)
    /\ UNCHANGED <<capture, emitted, recent, interrupt>>

\* Mutant: the next read begins behind the last timestamp.
ResumeBehind == IF attempt.last > 0 THEN attempt.last + 1 ELSE tally.resume
Resume == IF attempt.last > 0 THEN attempt.last ELSE tally.resume

\* captureAttempt has returned.
Settle ==
    /\ streamAt = "settled"
    /\ LET sums == [tally EXCEPT !.bytes = @ + attempt.read, !.resume = Resume,
                                 !.timedOut = @ \/ (attempt.fired /\ ~attempt.ok)]
       IN  IF attempt.ok
           THEN /\ IF ~attempt.window /\ LimitReached(sums.bytes)
                   THEN CaptureAnswers("partial", "byte_limit") ELSE CaptureAnswers("complete", "none")
                /\ tally' = sums /\ UNCHANGED attempt
           ELSE IF interrupt.aborted \/ ~attempt.retryable \/ sums.tries >= ReadTries
           THEN StreamEnds(sums) ELSE Turn(sums)
    /\ UNCHANGED <<capture, emitted, recent, interrupt>>

-----------------------------------------------------------------------------
(* One read.                                                                *)

ReadOver(a, ok, retryable) ==
    streamAt' = "settled" /\ attempt' = [a EXCEPT !.ok = ok, !.retryable = retryable]

Responds ==
    /\ streamAt = "asked"
    /\ \/ streamAt' = "body" /\ UNCHANGED attempt
       \/ \E retryable \in BOOLEAN : ReadOver([attempt EXCEPT !.fired = FALSE], FALSE, retryable)
    /\ UNCHANGED <<capture, emitted, recent, tally, interrupt, captured>>

\* emit and emitLine: a line behind the window ends it; a line seen before is
\* dropped, but only in a read that resumes.  A cut line equals none.
EmitLine(s, line) ==
    IF s.window THEN s
    ELSE IF capture.until # 0 /\ line.time > capture.until THEN [s EXCEPT !.window = TRUE]
    ELSE LET seen == [s EXCEPT !.last = IF line.time > 0 THEN line.time ELSE @] IN
         IF tally.tries > 1 /\ line.whole /\ line.text \in s.recent.set THEN seen
         ELSE LET list == Append(s.recent.list, line.text)
                  over == Len(list) > RecentLimit
              IN  [seen EXCEPT
                     !.emitted = Append(@, [text |-> line.text, whole |-> line.whole]),
                     !.recent = [list |-> IF over THEN Tail(list) ELSE list,
                                 set |-> (@.set \cup {line.text})
                                         \ (IF over THEN {Head(list)} ELSE {})]]

Whole(i) == [time |-> capture.lines[i].time, text |-> capture.lines[i].text, whole |-> TRUE]
Emit(lines) ==
    FoldLeft(EmitLine, [window |-> attempt.window, last |-> attempt.last, emitted |-> emitted,
                        recent |-> recent], lines)
Took(s, read) == [attempt EXCEPT !.window = s.window, !.last = s.last, !.read = read]

\* A chunk of the body, which may end in the middle of a line.
StreamChunk ==
    /\ streamAt = "body"
    /\ \E n \in 1..(LineSize + 1) :
        /\ attempt.read + n <= Available
        /\ LET have == attempt.read \div LineSize
               now == (attempt.read + n) \div LineSize
               s == Emit([k \in 1..(now - have) |-> Whole(attempt.from + have + k - 1)])
           IN  /\ emitted' = s.emitted /\ recent' = s.recent
               /\ IF s.window THEN ReadOver(Took(s, attempt.read + n), TRUE, FALSE)
                  ELSE attempt' = Took(s, attempt.read + n) /\ UNCHANGED streamAt
    /\ UNCHANGED <<capture, tally, interrupt, captured>>

\* The body is over.  The server may have cut its last line: of its newline,
\* of some text, or of its timestamp too.
LastLine(i, bytes) ==
    IF bytes = 0 THEN {<< >>}
    ELSE IF bytes = LineSize - 1 THEN {<<Whole(i)>>}
    ELSE {<<[Whole(i) EXCEPT !.whole = FALSE, !.time = time]>> : time \in {0, capture.lines[i].time}}

BodyEnds ==
    /\ streamAt = "body" /\ attempt.read = Available
    /\ IF interrupt.aborted THEN ReadOver(attempt, FALSE, TRUE) /\ UNCHANGED <<emitted, recent>>
       ELSE \E last \in LastLine(attempt.from + attempt.read \div LineSize, attempt.read % LineSize) :
            LET s == Emit(last)
            IN  /\ emitted' = s.emitted /\ recent' = s.recent
                /\ ReadOver(Took(s, attempt.read), ~attempt.fired, attempt.fired)
    /\ UNCHANGED <<capture, tally, interrupt, captured>>

InRead == streamAt \in {"asked", "body"}

\* The connection breaks, or what fired or was aborted breaks it.
ReadBreaks ==
    /\ InRead /\ ReadOver(attempt, FALSE, TRUE)
    /\ UNCHANGED <<capture, emitted, recent, tally, interrupt, captured>>
Interrupted == (attempt.fired \/ interrupt.aborted) /\ ReadBreaks

IdleTimeout ==
    /\ InRead /\ ~attempt.fired
    /\ attempt' = [attempt EXCEPT !.fired = TRUE]
    /\ UNCHANGED <<capture, streamAt, emitted, recent, tally, interrupt, captured>>

HardTimeout ==
    /\ streamAt \notin {"idle", "done"} /\ ~interrupt.late
    /\ interrupt' = [interrupt EXCEPT !.late = TRUE]
    /\ attempt' = [attempt EXCEPT !.fired = @ \/ InRead]
    /\ UNCHANGED <<capture, streamAt, emitted, recent, tally, captured>>

HostAborts ==
    /\ streamAt # "done" /\ ~interrupt.aborted
    /\ interrupt' = [interrupt EXCEPT !.aborted = TRUE]
    /\ UNCHANGED <<capture, streamAt, attempt, emitted, recent, tally, captured>>

StreamProgress == Settle \/ Interrupted \/ HardTimeout
StreamNext ==
    \/ StreamProgress \/ StreamBegins \/ Responds \/ StreamChunk \/ BodyEnds \/ ReadBreaks
    \/ IdleTimeout \/ HostAborts

-----------------------------------------------------------------------------
(* What a caller may rely on, told from the log alone.                      *)

Texts(lines) ==
    FoldLeft(LAMBDA s, line : IF line.text \in ToSet(s) THEN s ELSE Append(s, line.text),
             << >>, lines)
InWindow(line) == line.time >= capture.since /\ (capture.until # 0 => line.time <= capture.until)
Window == SelectSeq(capture.lines, InWindow)
WholeOnes == SelectSeq(emitted, LAMBDA e : e.whole)
Times(text, lines) == Cardinality({i \in DOMAIN lines : lines[i].text = text})

(* However often a read breaks, times out or is aborted: the caller gets the *)
(* lines of its window in their order, without a gap and none more often     *)
(* than the log has it; only the very last line may be cut, and only at the  *)
(* byte limit, which no read exceeds; and the answer "complete" is given for *)
(* the whole window, any other for what really stood in the way.             *)
StreamTells ==
    /\ IsPrefix(Texts(WholeOnes), Texts(Window))
    /\ \A e \in ToSet(WholeOnes) : Times(e.text, WholeOnes) <= Times(e.text, Window)
    /\ \A i \in DOMAIN emitted : ~emitted[i].whole =>
        i = Len(emitted) /\ capture.limit # 0 /\ streamAt \in {"settled", "done"}
    /\ capture.limit # 0 => tally.bytes <= capture.limit
    /\ captured.status = "complete" => emitted = WholeOnes /\ Texts(emitted) = Texts(Window)
    /\ captured.status \in {"unavailable", "thrown"} => emitted = << >>
    /\ captured.reason = "byte_limit" => tally.bytes = capture.limit
    /\ captured.reason = "cancelled" => interrupt.aborted
    /\ tally.tries <= ReadTries

\* Nobody waits for a stream.
StreamQuiet == streamAt \in {"idle", "done"}

=============================================================================
