------------------------------- MODULE TsEngine -------------------------------
(* perf-harness/src/engine.ts: Engine.run takes the arms one by one through  *)
(* setup, onArmStart, drive(), deactivate, cleanup and onArmFinish.  Every   *)
(* hook may reject and the host may abort its signal at any moment; drive()  *)
(* is TsDrive, here only how it ends.                                        *)
EXTENDS Naturals, Sequences

CONSTANTS TsArms    \* how many arms the experiment expands to

VARIABLES
    tsAt,          \* what run() awaits
    tsArm,         \* arms begun
    tsAborted,     \* the host's signal
    tsExec,        \* ArmExecutionContext with its DriveState
    tsRuns,        \* the finished ArmRuns: their phase errors and their stop
    tsPassed,      \* Run.passed
    tsLog          \* what really happened: hooks called and things that went wrong

tsVars == <<tsAt, tsArm, tsAborted, tsExec, tsRuns, tsPassed, tsLog>>

ASSUME TsArmsBound == TsArms \in Nat \ {0}

TsFresh == [phase |-> "setup", loadPhase |-> "none", stop |-> "aborted", interrupted |-> FALSE,
            broken |-> FALSE, errors |-> << >>, fatal |-> FALSE, cleanupFatal |-> FALSE]

TsInit ==
    /\ tsAt = "next" /\ tsArm = 0 /\ tsAborted = FALSE /\ tsExec = TsFresh
    /\ tsRuns = << >> /\ tsPassed = FALSE
    /\ tsLog = [wrong |-> FALSE, raised |-> << >>, setups |-> 0, cleanups |-> 0, loadedAborted |-> FALSE]

\* A hook rejects: where, for the record of what happened.
Rejected(where) == [tsLog EXCEPT !.wrong = TRUE, !.raised = Append(@, where)]

\* The catch clause: fatal after an abort, otherwise an error of the phase the
\* load reached.
TsCatch(e) ==
    IF tsAborted THEN [e EXCEPT !.fatal = TRUE]
    ELSE LET at == IF e.phase \in {"warmup", "hold"} /\ e.loadPhase # "none"
                   THEN e.loadPhase ELSE e.phase
         IN  [e EXCEPT !.phase = at, !.errors = Append(@, at)]

TsNext ==
    /\ tsAt = "next"
    /\ IF tsAborted \/ tsArm = TsArms
       THEN tsAt' = "returning" /\ UNCHANGED <<tsArm, tsExec, tsLog>>
       ELSE /\ tsAt' = "setup" /\ tsArm' = tsArm + 1 /\ tsExec' = TsFresh
            /\ tsLog' = [tsLog EXCEPT !.setups = @ + 1, !.raised = << >>]
    /\ UNCHANGED <<tsAborted, tsRuns, tsPassed>>

\* throwIfAborted().
TsStopsHere == tsAborted

\* setup, then onArmStart: each is followed by throwIfAborted().
TsHook(at, next) ==
    /\ tsAt = at
    /\ \/ /\ ~TsStopsHere /\ tsAt' = next
          /\ tsExec' = [tsExec EXCEPT !.phase = "warmup"]
          /\ tsLog' = [tsLog EXCEPT !.loadedAborted = @ \/ (next = "drive" /\ tsAborted)]
       \/ /\ TsStopsHere /\ tsAt' = "cleanup" /\ tsExec' = TsCatch(tsExec) /\ UNCHANGED tsLog
       \/ /\ tsAt' = "cleanup" /\ tsExec' = TsCatch(tsExec)
          /\ tsLog' = Rejected(IF at = "setup" THEN "setup" ELSE "warmup")
    /\ UNCHANGED <<tsArm, tsAborted, tsRuns, tsPassed>>
TsSetup == TsHook("setup", "start")
TsStart == TsHook("start", "drive")

\* drive(): the loop ends by its plan, by the breaker, by an abort, or throws
\* the error of a judge while the load is in warmup or hold.
TsMeasured ==
    /\ tsAt = "drive" /\ tsAt' = "drain"
    /\ \/ \E reason \in {"deadline", "error_rate", "aborted"} :
            /\ tsAborted <=> reason = "aborted"
            /\ tsExec' = [tsExec EXCEPT !.stop = reason, !.loadPhase = "cooldown"]
            /\ tsLog' = [tsLog EXCEPT !.wrong = @ \/ reason # "deadline"]
       \/ \E phase \in {"warmup", "hold"} :
            /\ ~tsAborted
            /\ tsExec' = [tsExec EXCEPT !.broken = TRUE, !.loadPhase = phase]
            /\ tsLog' = Rejected(phase)
    /\ UNCHANGED <<tsArm, tsAborted, tsRuns, tsPassed>>

\* The drain ends: it is empty, or out of time, or aborted, and what is left is
\* interrupted.
TsDrained ==
    /\ tsAt = "drain" /\ tsAt' = "join"
    /\ \E left \in BOOLEAN :
         /\ tsExec' = [tsExec EXCEPT !.interrupted = left,
                         !.stop = IF tsAborted /\ ~tsExec.broken THEN "aborted" ELSE @]
         /\ tsLog' = [tsLog EXCEPT !.wrong = @ \/ left]
    /\ UNCHANGED <<tsArm, tsAborted, tsRuns, tsPassed>>

\* All requests are joined; the error of one that ended late is thrown too.
TsJoined ==
    /\ tsAt = "join"
    /\ \/ /\ ~tsExec.broken /\ tsAt' = "deactivate"
          /\ tsExec' = [tsExec EXCEPT !.phase = "cooldown"] /\ UNCHANGED tsLog
       \/ /\ tsAt' = "cleanup" /\ tsExec' = TsCatch(tsExec)
          /\ tsLog' = IF tsExec.broken THEN tsLog ELSE Rejected("cooldown")
    /\ UNCHANGED <<tsArm, tsAborted, tsRuns, tsPassed>>

TsDeactivate ==
    /\ tsAt = "deactivate" /\ tsAt' = "cleanup"
    /\ \/ UNCHANGED <<tsExec, tsLog>>
       \/ tsExec' = TsCatch(tsExec) /\ tsLog' = Rejected("cooldown")
    /\ UNCHANGED <<tsArm, tsAborted, tsRuns, tsPassed>>

\* The finally clause.  What is fatal is thrown; anything else makes an ArmRun.
TsCleanup ==
    /\ tsAt = "cleanup"
    /\ \E fails \in BOOLEAN :
       LET e == CASE fails /\ tsExec.fatal -> [tsExec EXCEPT !.cleanupFatal = TRUE]
                  [] fails /\ ~tsExec.fatal -> [tsExec EXCEPT !.errors = Append(@, "cleanup")]
                  [] OTHER -> tsExec
           log == IF fails THEN Rejected("cleanup") ELSE tsLog IN
         /\ tsExec' = e /\ tsLog' = [log EXCEPT !.cleanups = @ + 1]
         /\ IF e.fatal THEN tsAt' = "threw" /\ UNCHANGED tsRuns
            ELSE /\ tsAt' = "finish"
                 /\ tsRuns' = Append(tsRuns, [errors |-> e.errors, stop |-> e.stop,
                                              interrupted |-> e.interrupted])
    /\ UNCHANGED <<tsArm, tsAborted, tsPassed>>

\* onArmFinish rejects out of run(); after a phase error no other arm begins.
TsFinish ==
    /\ tsAt = "finish"
    /\ \/ tsAt' = (IF tsExec.errors # << >> THEN "returning" ELSE "next") /\ UNCHANGED tsLog
       \/ tsAt' = "threw" /\ tsLog' = Rejected("finish")
    /\ UNCHANGED <<tsArm, tsAborted, tsExec, tsRuns, tsPassed>>

TsReturn ==
    /\ tsAt = "returning" /\ tsAt' = "returned"
    /\ tsPassed' = (/\ ~tsAborted /\ Len(tsRuns) = TsArms
                    /\ \A i \in DOMAIN tsRuns : /\ tsRuns[i].errors = << >>
                                                /\ tsRuns[i].stop = "deadline"
                                                /\ ~tsRuns[i].interrupted)
    /\ UNCHANGED <<tsArm, tsAborted, tsExec, tsRuns, tsLog>>

TsAbort ==
    /\ ~tsAborted /\ tsAborted' = TRUE /\ tsAt \notin {"returning", "returned", "threw"}
    /\ tsLog' = [tsLog EXCEPT !.wrong = TRUE]
    /\ UNCHANGED <<tsAt, tsArm, tsExec, tsRuns, tsPassed>>

TsEngineNext ==
    \/ TsNext \/ TsSetup \/ TsStart \/ TsMeasured \/ TsDrained \/ TsJoined
    \/ TsDeactivate \/ TsCleanup \/ TsFinish \/ TsReturn \/ TsAbort

-----------------------------------------------------------------------------
TsLeft == tsAt \in {"returned", "threw"}

(* A run passes only if every arm ran and nothing was rejected, cut short or *)
(* aborted, by anyone and at any time; it throws only after an abort or a    *)
(* failed onArmFinish; an arm's recorded errors are what was rejected in it, *)
(* each in its phase; every arm that was set up was cleaned up once before   *)
(* the next one or the end; and no load starts under an aborted signal.      *)
TsRunIsTrue ==
    /\ tsAt = "returned" =>
         /\ tsPassed <=> ~tsLog.wrong
         /\ tsPassed => tsArm = TsArms
         /\ Len(tsRuns) = tsArm
    /\ tsAt = "threw" => tsAborted \/ tsLog.raised[Len(tsLog.raised)] = "finish"
    /\ tsAt = "finish" /\ ~tsAborted => tsRuns[Len(tsRuns)].errors = tsLog.raised
    /\ tsAt \in {"next", "finish"} \/ TsLeft => tsLog.cleanups = tsLog.setups
    /\ ~tsLog.loadedAborted

=============================================================================
