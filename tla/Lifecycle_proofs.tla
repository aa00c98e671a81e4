---------------------------- MODULE Lifecycle_proofs ----------------------------
(* What holds of the lifecycles that end in a mandatory cleanup, for any       *)
(* cases, arms, resources and numbers of ticks and cancellations: the verdicts *)
(* of cases in Python and in Go and the results of sweeps in Python and in     *)
(* TypeScript are those of what really happened.                               *)
EXTENDS MCLifecycle, SequenceTheorems, TLAPS

-----------------------------------------------------------------------------
(* Python: the cases of an experiment.                                     *)

CasePhases == {"prepare", "execute", "judge", "cleanup"}
CaseOn == CasePhases \cup {"end"}
PhaseResult == [name : CasePhases, status : Result]

CaseTypeOK ==
    /\ case \in Nat \ {0}
    /\ step \in CaseOn \cup {"start", "interrupt", "out"}
    /\ results \in Seq(PhaseResult) /\ raised \in Seq(Result)
    /\ status \in Result /\ blocked \in BOOLEAN
    /\ facts \in {"unknown", "met", "unmet"} /\ prepared \in {"unknown", "met", "unmet"}
    /\ cases \in Seq(Result) /\ outcome \in Result \cup {"open", "interrupted"}

\* What the status of a case is to be.
Worst == IF Held("error") THEN "error" ELSE IF Held("fail") THEN "fail"
         ELSE IF Held("skipped") THEN "skipped" ELSE "pass"

\* Within a case, the status is that of the steps so far; a phase ran before
\* the judge, and before an execute that is blocked; cleanup's result is the last.
StatusSoFar == step \in CaseOn => status = Worst
SnapshotMet ==
    step \in {"execute", "judge", "cleanup", "end"} /\ status = "pass" /\ This.face = "bound"
      => prepared = "met"
ResultsSoFar ==
    /\ step \in CasePhases => \A i \in DOMAIN results : results[i].name # "cleanup"
    /\ step \in {"judge", "cleanup"} \/ (step = "execute" /\ blocked) => results # << >>
    /\ step = "end" => (This.cleanup <=> results[Len(results)].name = "cleanup")
OutcomeTold ==
    /\ outcome \in Result => step = "start" /\ (outcome = "error" <=> \E i \in DOMAIN cases : cases[i] = "error")
    /\ outcome = "interrupted" => step = "out"

CaseInv == CaseTypeOK /\ StatusSoFar /\ SnapshotMet /\ ResultsSoFar /\ OutcomeTold

LEMMA CaseStarts == CaseInit => CaseInv
<1> SUFFICES ASSUME CaseInit PROVE CaseInv
  OBVIOUS
<1>1. results \in Seq(PhaseResult) /\ raised \in Seq(Result) /\ cases \in Seq(Result)
  BY DEF CaseInit
<1>2. CaseTypeOK
  <2>1. blocked \in BOOLEAN
    BY Zenon DEF CaseInit
  <2> QED BY <1>1, <2>1 DEF CaseInit, CaseTypeOK, Result
<1>3. step = "start" /\ outcome = "open"
  BY DEF CaseInit
<1>4. StatusSoFar /\ SnapshotMet /\ ResultsSoFar /\ OutcomeTold
  BY <1>3 DEF StatusSoFar, SnapshotMet, ResultsSoFar, OutcomeTold, CaseOn, CasePhases, Result
<1> QED BY <1>2, <1>4 DEF CaseInv

(* An element more: what was in a sequence is still there.                 *)
LEMMA Grows ==
    ASSUME NEW S, NEW s \in Seq(S), NEW e \in S
    PROVE  /\ Append(s, e) \in Seq(S) /\ Len(Append(s, e)) = Len(s) + 1 /\ Append(s, e) # << >>
           /\ DOMAIN s = 1..Len(s) /\ DOMAIN Append(s, e) = 1..(Len(s) + 1)
           /\ \A i \in 1..Len(s) : Append(s, e)[i] = s[i]
           /\ Append(s, e)[Len(s) + 1] = e
OBVIOUS

(* The worse status stands.                                                *)
LEMMA ApplyKeeps ==
    ASSUME CaseTypeOK, status = Worst, NEW name \in CasePhases, NEW result \in Result,
           Apply(name, result)
    PROVE  /\ status' \in Result /\ blocked' \in BOOLEAN /\ status' = Worst'
           /\ results' \in Seq(PhaseResult) /\ raised' \in Seq(Result)
           /\ results' # << >> /\ results'[Len(results')].name = name
           /\ name # "cleanup" /\ (\A i \in DOMAIN results : results[i].name # "cleanup") =>
                 \A i \in DOMAIN results' : results'[i].name # "cleanup"
           /\ status' = "pass" => status = "pass" /\ result = "pass"
<1> DEFINE r == [name |-> name, status |-> result]
<1>1. r \in PhaseResult
  BY DEF PhaseResult
<1>2. /\ results' = Append(results, r) /\ raised' = Append(raised, result)
      /\ status' = CASE result = "error" -> "error"
                     [] result = "fail" /\ status # "error" -> "fail"
                     [] result = "skipped" /\ status = "pass" -> "skipped"
                     [] OTHER -> status
      /\ blocked' = (blocked \/ (result # "pass" /\ name # "cleanup"))
  BY DEF Apply
<1>3. \A what \in Result : Held(what)' <=> Held(what) \/ result = what
  <2>1. raised \in Seq(Result)
    BY DEF CaseTypeOK
  <2>2. /\ Len(raised) \in Nat /\ DOMAIN raised = 1..Len(raised) /\ DOMAIN raised' = 1..(Len(raised) + 1)
        /\ \A i \in 1..Len(raised) : raised'[i] = raised[i]
        /\ raised'[Len(raised) + 1] = result
    BY <1>2, <2>1, Grows
  <2> QED BY <2>2 DEF Held
<1>4. status' = Worst' /\ status' \in Result /\ (status' = "pass" => status = "pass" /\ result = "pass")
  BY <1>2, <1>3 DEF Worst, Result
<1>5. blocked' \in BOOLEAN
  BY <1>2
<1>6. results \in Seq(PhaseResult) /\ raised \in Seq(Result)
  BY DEF CaseTypeOK
<1>7. /\ results' \in Seq(PhaseResult) /\ raised' \in Seq(Result)
      /\ results' # << >> /\ results'[Len(results')].name = name
      /\ name # "cleanup" /\ (\A i \in DOMAIN results : results[i].name # "cleanup") =>
            \A i \in DOMAIN results' : results'[i].name # "cleanup"
  <2>1. /\ Len(results) \in Nat /\ results' \in Seq(PhaseResult) /\ raised' \in Seq(Result) /\ results' # << >>
        /\ Len(results') = Len(results) + 1
        /\ DOMAIN results = 1..Len(results) /\ DOMAIN results' = 1..(Len(results) + 1)
        /\ \A i \in 1..Len(results) : results'[i] = results[i]
        /\ results'[Len(results) + 1] = r
    BY <1>1, <1>2, <1>6, Grows
  <2> QED BY <2>1
<1> QED BY <1>4, <1>5, <1>7

(* The worst of the cases is that of the run.                              *)
LEMMA RollupIsWorst ==
    ASSUME NEW statuses \in SUBSET Result
    PROVE  Rollup(statuses) \in Result /\ (Rollup(statuses) = "error" <=> "error" \in statuses)
<1> DEFINE P(i) == Precedence[i] \in statuses /\ \A j \in 1..(i - 1) : Precedence[j] \notin statuses
           first == CHOOSE i \in DOMAIN Precedence : P(i)
<1>1. /\ DOMAIN Precedence = 1..4 /\ Precedence[1] = "error" /\ Precedence[2] = "fail"
      /\ Precedence[3] = "pass" /\ Precedence[4] = "skipped"
  BY DEF Precedence
<1>2. CASE \A i \in DOMAIN Precedence : Precedence[i] \notin statuses
  <2>1. Rollup(statuses) = "skipped"
    BY <1>2 DEF Rollup
  <2>2. "error" \notin statuses
    BY <1>1, <1>2
  <2> QED BY <2>1, <2>2 DEF Result
<1>3. CASE \E i \in DOMAIN Precedence : Precedence[i] \in statuses
  <2>1. \E i \in DOMAIN Precedence : P(i)
    <3>1. CASE Precedence[1] \in statuses
      BY <1>1, <3>1
    <3>2. CASE Precedence[1] \notin statuses /\ Precedence[2] \in statuses
      <4>1. P(2)
        BY <3>2
      <4> QED BY <1>1, <4>1
    <3>3. CASE Precedence[1] \notin statuses /\ Precedence[2] \notin statuses /\ Precedence[3] \in statuses
      <4>1. P(3)
        BY <3>3
      <4> QED BY <1>1, <4>1
    <3>4. CASE Precedence[1] \notin statuses /\ Precedence[2] \notin statuses /\ Precedence[3] \notin statuses
               /\ Precedence[4] \in statuses
      <4>1. P(4)
        BY <3>4
      <4> QED BY <1>1, <4>1
    <3> QED BY <1>1, <1>3, <3>1, <3>2, <3>3, <3>4
  <2>2. first \in DOMAIN Precedence /\ P(first)
    BY <2>1
  <2>3. Rollup(statuses) = Precedence[first]
    BY <1>3 DEF Rollup
  <2>4. Precedence[first] \in Result
    BY <1>1, <2>2 DEF Result
  <2>5. "error" \in statuses => first = 1
    BY <1>1, <2>2
  <2>6. "error" \notin statuses => Precedence[first] # "error"
    BY <2>2
  <2> HIDE DEF first
  <2> QED BY <1>1, <2>3, <2>4, <2>5, <2>6
<1> QED BY <1>2, <1>3

(* A case begins or is over.                                               *)
LEMMA CasesKeep ==
    ASSUME CaseInv, StartCase \/ FinishCase \/ RollUp
    PROVE  CaseInv'
<1> USE DEF CaseInv
<1>0. ASSUME NEW s \in Result, outcome = "open"
      PROVE  Append(cases, s) \in Seq(Result) /\ case + 1 \in Nat \ {0}
  BY DEF CaseTypeOK
<1>1. CASE StartCase
  <2>1. /\ results' = << >> /\ status' = "pass" /\ blocked' = FALSE /\ raised' = << >>
        /\ facts' = "unknown" /\ prepared' = "unknown" /\ outcome' = "open" /\ outcome = "open"
        /\ step = "start"
    BY <1>1 DEF StartCase
  <2>2. \/ /\ \E s \in {"skipped", "error"} : cases' = Append(cases, s)
           /\ case' = case + 1 /\ step' = "start"
        \/ step' \in {"execute", "prepare"} /\ UNCHANGED <<case, cases>>
    BY <1>1 DEF StartCase, EndCase
  <2>3. cases' \in Seq(Result) /\ case' \in Nat \ {0}
    BY <1>0, <2>1, <2>2 DEF CaseTypeOK, Result
  <2>4. results' \in Seq(PhaseResult) /\ raised' \in Seq(Result) /\ blocked' \in BOOLEAN
    <3>1. results' = << >> /\ raised' = << >>
      BY <2>1
    <3>2. blocked' \in BOOLEAN
      BY <2>1, Zenon
    <3> QED BY <3>1, <3>2
  <2>5. step' \in CaseOn \cup {"start", "interrupt", "out"}
    BY <2>2 DEF CaseOn, CasePhases
  <2>6. CaseTypeOK'
    BY <2>1, <2>3, <2>4, <2>5 DEF CaseTypeOK, Result
  <2>7. StatusSoFar' /\ SnapshotMet' /\ ResultsSoFar' /\ OutcomeTold'
    <3>1. Worst' = "pass"
      BY <2>1 DEF Worst, Held
    <3>2. ~(step' \in {"judge", "cleanup", "end", "out"}) /\ ~(step' = "execute" /\ prepared' = "met")
      BY <2>1, <2>2
    <3>3. DOMAIN results' = {}
      BY <2>1
    <3>4. step' = "execute" => This'.face # "bound"
      BY <1>1, <2>1 DEF StartCase, EndCase, This
    <3> QED BY <2>1, <2>2, <3>1, <3>2, <3>3, <3>4
            DEF StatusSoFar, SnapshotMet, ResultsSoFar, OutcomeTold, Result
  <2> QED BY <2>6, <2>7
<1>2. CASE FinishCase
  <2>1. /\ step = "end" /\ cases' = Append(cases, status) /\ case' = case + 1 /\ step' = "start"
        /\ UNCHANGED <<results, status, blocked, facts, prepared, raised, outcome>>
    BY <1>2 DEF FinishCase, EndCase
  <2>2. outcome = "open"
    BY <2>1 DEF OutcomeTold, CaseTypeOK
  <2>3. CaseTypeOK'
    BY <1>0, <2>1, <2>2 DEF CaseTypeOK
  <2> QED BY <2>1, <2>2, <2>3
          DEF StatusSoFar, SnapshotMet, ResultsSoFar, OutcomeTold, Result, CaseOn, CasePhases
<1>3. CASE RollUp
  <2>1. /\ outcome = "open" /\ step = "start" /\ outcome' = Rollup({cases[i] : i \in DOMAIN cases})
        /\ UNCHANGED <<case, step, results, status, blocked, facts, prepared, raised, cases>>
    BY <1>3 DEF RollUp
  <2>2. {cases[i] : i \in DOMAIN cases} \in SUBSET Result
    BY DEF CaseTypeOK
  <2>3. outcome' \in Result /\ (outcome' = "error" <=> \E i \in DOMAIN cases : cases[i] = "error")
    BY <2>1, <2>2, RollupIsWorst
  <2>4. CaseTypeOK'
    BY <2>1, <2>3 DEF CaseTypeOK
  <2> QED BY <2>1, <2>3, <2>4
          DEF StatusSoFar, SnapshotMet, ResultsSoFar, OutcomeTold, Result, CaseOn, CasePhases
<1> QED BY <1>1, <1>2, <1>3

(* A phase runs.                                                           *)
LEMMA PhasesKeep ==
    ASSUME CaseInv, PrepareCase \/ Execute \/ JudgeCase \/ CleanCase
    PROVE  CaseInv'
<1> USE DEF CaseInv
<1>1. PICK name \in CasePhases, next \in CaseOn :
        /\ RunPhase(name, next)
        /\ name = "prepare" => next = "execute"
        /\ name = "execute" => next = "judge" /\ ~blocked
        /\ name = "judge" => next = "cleanup" /\ ~blocked
        /\ name = "cleanup" => next = "end" /\ This.cleanup
  BY DEF PrepareCase, Execute, JudgeCase, CleanCase, CasePhases, CaseOn
<1>2. PICK result \in Result :
        /\ name = "prepare" /\ facts' = "unmet" => result # "pass"
        /\ Apply(name, result)
  BY <1>1 DEF RunPhase
<1>3. /\ step = name /\ step' = next
      /\ facts' \in IF name \in {"prepare", "cleanup"} THEN {"met", "unmet"} ELSE {facts}
      /\ prepared' = IF name = "prepare" THEN facts' ELSE prepared
      /\ UNCHANGED <<case, cases, outcome>>
  BY <1>1 DEF RunPhase, Snapshot
<1>4. status = Worst
  BY <1>3 DEF StatusSoFar, CaseOn
<1>5. /\ status' \in Result /\ blocked' \in BOOLEAN /\ status' = Worst'
      /\ results' \in Seq(PhaseResult) /\ raised' \in Seq(Result)
      /\ results' # << >> /\ results'[Len(results')].name = name
      /\ name # "cleanup" /\ (\A i \in DOMAIN results : results[i].name # "cleanup") =>
            \A i \in DOMAIN results' : results'[i].name # "cleanup"
      /\ status' = "pass" => status = "pass" /\ result = "pass"
  BY <1>2, <1>4, ApplyKeeps
<1>6. CaseTypeOK'
  BY <1>3, <1>5 DEF CaseTypeOK, CaseOn, CasePhases
<1>7. StatusSoFar'
  BY <1>5 DEF StatusSoFar
<1>8. SnapshotMet'
  <2>1. This' = This
    BY <1>3 DEF This
  <2> QED BY <1>1, <1>2, <1>3, <1>5, <2>1 DEF SnapshotMet, CasePhases
<1>9. ResultsSoFar'
  <2>1. This' = This
    BY <1>3 DEF This
  <2> QED BY <1>1, <1>3, <1>5, <2>1 DEF ResultsSoFar, CasePhases
<1>10. OutcomeTold'
  BY <1>1, <1>3 DEF OutcomeTold, CasePhases, CaseOn, CaseTypeOK, Result
<1> QED BY <1>6, <1>7, <1>8, <1>9, <1>10

(* A phase is left out, or the process is interrupted in one.              *)
LEMMA SkipsKeep ==
    ASSUME CaseInv, ExecuteBlocked \/ JudgeBlocked \/ NoCleanup \/ Break \/ CleanAndGo
    PROVE  CaseInv'
<1> USE DEF CaseInv
<1>1. This' = This /\ UNCHANGED <<case, status, blocked, facts, prepared, raised, cases>>
  BY DEF ExecuteBlocked, JudgeBlocked, NoCleanup, Break, CleanAndGo, Skipping, This
<1>2. Worst' = Worst
  BY <1>1 DEF Worst, Held
<1>3. CASE ExecuteBlocked
  <2>1. blocked /\ step = "execute" /\ step' = "judge" /\ UNCHANGED <<results, outcome>>
    BY <1>3 DEF ExecuteBlocked, Skipping
  <2> QED BY <1>1, <1>2, <2>1
          DEF CaseTypeOK, StatusSoFar, SnapshotMet, ResultsSoFar, OutcomeTold, Result, CaseOn, CasePhases
<1>4. CASE JudgeBlocked
  <2> DEFINE r == [name |-> "judge", status |-> "skipped"]
  <2>1. /\ step = "judge" /\ step' = "cleanup" /\ UNCHANGED outcome
        /\ results' \in {Append(results, r), results}
    BY <1>4 DEF JudgeBlocked, Skipping
  <2>2. r \in PhaseResult /\ results \in Seq(PhaseResult) /\ r.name = "judge"
    BY DEF PhaseResult, CasePhases, Result, CaseTypeOK
  <2> HIDE DEF r
  <2>3. results # << >> /\ \A i \in DOMAIN results : results[i].name # "cleanup"
    BY <2>1 DEF ResultsSoFar, CasePhases
  <2>4. results' \in Seq(PhaseResult) /\ results' # << >> /\ \A i \in DOMAIN results' : results'[i].name # "cleanup"
    BY <2>1, <2>2, <2>3, Grows
  <2> QED BY <1>1, <1>2, <2>1, <2>4
          DEF CaseTypeOK, StatusSoFar, SnapshotMet, ResultsSoFar, OutcomeTold, Result, CaseOn, CasePhases
<1>5. CASE NoCleanup
  <2>1. step = "cleanup" /\ step' = "end" /\ ~This.cleanup /\ UNCHANGED <<results, outcome>>
    BY <1>5 DEF NoCleanup, Skipping
  <2>2. Len(results) \in DOMAIN results
    BY <2>1 DEF CaseTypeOK, ResultsSoFar
  <2> QED BY <1>1, <1>2, <2>1, <2>2
          DEF CaseTypeOK, StatusSoFar, SnapshotMet, ResultsSoFar, OutcomeTold, Result, CaseOn, CasePhases
<1>6. CASE Break
  <2>1. /\ step \in CasePhases /\ UNCHANGED results
        /\ \/ step' = "interrupt" /\ outcome' = outcome
           \/ step' = "out" /\ outcome' = "interrupted"
    BY <1>6 DEF Break, CasePhases
  <2> QED BY <1>1, <1>2, <2>1
          DEF CaseTypeOK, StatusSoFar, SnapshotMet, ResultsSoFar, OutcomeTold, Result, CaseOn, CasePhases
<1>7. CASE CleanAndGo
  <2> DEFINE r == [name |-> "cleanup", status |-> "pass"]
  <2>1. step' = "out" /\ outcome' = "interrupted" /\ results' = Append(results, r)
    BY <1>7 DEF CleanAndGo
  <2>2. r \in PhaseResult
    BY DEF PhaseResult, CasePhases, Result
  <2>3. results' \in Seq(PhaseResult)
    BY <2>1, <2>2 DEF CaseTypeOK
  <2> QED BY <1>1, <1>2, <2>1, <2>3
          DEF CaseTypeOK, StatusSoFar, SnapshotMet, ResultsSoFar, OutcomeTold, Result, CaseOn, CasePhases
<1> QED BY <1>3, <1>4, <1>5, <1>6, <1>7

LEMMA CaseStep == CaseInv /\ [CaseNext]_caseVars => CaseInv'
<1> SUFFICES ASSUME CaseInv, [CaseNext]_caseVars PROVE CaseInv'
  OBVIOUS
<1>1. CASE UNCHANGED caseVars
  BY <1>1 DEF caseVars, CaseInv, CaseTypeOK, StatusSoFar, SnapshotMet, ResultsSoFar, OutcomeTold,
              Worst, Held, This
<1> QED BY <1>1, CasesKeep, PhasesKeep, SkipsKeep DEF CaseNext

\* The invariant says how the cases ended.
LEMMA CaseConcludes == CaseInv => CaseVerdictIsTrue
BY DEF CaseInv, StatusSoFar, SnapshotMet, ResultsSoFar, OutcomeTold, CaseVerdictIsTrue, Worst, CaseOn

-----------------------------------------------------------------------------
(* Go: the cases of one invocation.                                        *)

GoCaseIds == DOMAIN GoCases
GoPhases == {"prepare", "execute", "judge", "cleanup"}
GoPlaces == GoPhases \cup {"start", "unselected", "report"} \cup Reported
GoTruths == [came : SUBSET GoEnd, last : GoPhases \cup {"none"}, sent : BOOLEAN,
             facts : {"met", "unmet"}]
GoResults == [at : GoPlaces, valid : BOOLEAN, status : GoEnd, blocked : BOOLEAN, expired : BOOLEAN,
              facts : {"met", "unmet"}, prepared : {"met", "unmet"},
              cleaned : {"none", "met", "unmet"}, truth : GoTruths]
GoRecords == [case : GoCaseIds, status : GoEnd, prepared : {"met", "unmet"}]

GoTypeOK ==
    /\ goCase \in [GoCaseIds -> GoResults]
    /\ recorder \in Seq(GoRecords)
    /\ invocation \in [state : {"new", "tests", "exited"}, code : {0, 1},
                       verdict : GoEnd \cup {"none"}, evidence : BOOLEAN]

\* error before fail before skipped before pass: the order in which a status stands.
GoWorst(came) ==
    CASE "error" \in came -> "error"
      [] "fail" \in came /\ "error" \notin came -> "fail"
      [] "skipped" \in came /\ "error" \notin came /\ "fail" \notin came -> "skipped"
      [] OTHER -> "pass"

\* The status of a case that executes something is the worst that its steps came
\* to; cleanup is the last that a case with one does; and the stimulus is sent
\* to a bound environment only when its facts are met.
GoSoFar(c, this) ==
    /\ this.prepared = this.truth.facts
    /\ this.at \in {"start", "unselected", "prepare"} =>
         this.facts = "unmet" /\ this.prepared = "unmet" /\ ~this.truth.sent
    /\ this.at \in {"start", "unselected"} => this.truth.came = {} /\ this.status = "pass" /\ ~this.blocked
    /\ this.at \in GoPhases => this.valid
    /\ this.at \in {"judge", "cleanup", "report"} \cup Reported /\ this.valid => this.truth.came # {}
    /\ this.valid => this.status = GoWorst(this.truth.came)
    /\ this.at = "prepare" => ~this.blocked
    /\ this.at = "execute" /\ GoCases[c].bound => this.truth.facts = "met"
    /\ this.truth.sent /\ GoCases[c].bound => this.truth.facts = "met"
    /\ this.at \in {"report"} \cup Reported /\ this.valid /\ GoCases[c].cleanup => this.truth.last = "cleanup"

GoLabelled(this) ==
    /\ this.at = "passed" => this.status = "pass"
    /\ this.at = "skipped" => this.status = "skipped"
    /\ this.at = "failed" => this.status \in {"error", "fail"}

\* The recorder has every case that reported, once, and as it is.
GoRecorded ==
    /\ \A c \in GoCaseIds : goCase[c].at \in Reported <=> \E i \in DOMAIN recorder : recorder[i].case = c
    /\ \A i, j \in DOMAIN recorder : recorder[i].case = recorder[j].case => i = j
    /\ \A i \in DOMAIN recorder :
         /\ recorder[i].status = goCase[recorder[i].case].status
         /\ recorder[i].prepared = goCase[recorder[i].case].prepared

GoInv ==
    /\ GoTypeOK /\ GoRecorded /\ ExitZeroIsTrue
    /\ \A c \in GoCaseIds : GoSoFar(c, goCase[c]) /\ GoLabelled(goCase[c])

(* A phase is followed by the next one that the case defines.              *)
LEMMA GoFollows ==
    ASSUME NEW c \in GoCaseIds, NEW n \in 0..4, NEW barred
    PROVE  LET next == GoAfter(c, n, barred) IN
           /\ next \in GoPhases \cup {"report"}
           /\ next = "prepare" => n = 0
           /\ next = "execute" => ~barred /\ n \in {0, 1}
           /\ next = "report" /\ GoCases[c].cleanup => n = 4
           /\ n = 0 /\ GoCases[c].bound => next = "prepare"
           /\ n = 0 /\ ~barred => next \in {"prepare", "execute"}
<1> DEFINE due == {m \in (n + 1)..Len(GoPhase) :
                     GoDefines(c, GoPhase[m]) /\ ~(barred /\ GoPhase[m] = "execute")}
           first == CHOOSE m \in due : \A k \in due : m <= k
<1>1. /\ Len(GoPhase) = 5 /\ GoPhase[1] = "prepare" /\ GoPhase[2] = "execute"
      /\ GoPhase[3] = "judge" /\ GoPhase[4] = "cleanup" /\ GoPhase[5] = "report"
  BY DEF GoPhase
<1>2. due \subseteq 1..5
  BY <1>1
<1>3. 5 \in due
  BY <1>1 DEF GoDefines
<1>4. \E m \in due : \A k \in due : m <= k
  <2>0. \A k \in due : k \in {1, 2, 3, 4, 5}
    BY <1>2
  <2> HIDE DEF due
  <2>1. CASE 1 \in due
    BY <2>0, <2>1
  <2>2. CASE 1 \notin due /\ 2 \in due
    BY <2>0, <2>2
  <2>3. CASE 1 \notin due /\ 2 \notin due /\ 3 \in due
    BY <2>0, <2>3
  <2>4. CASE 1 \notin due /\ 2 \notin due /\ 3 \notin due /\ 4 \in due
    BY <2>0, <2>4
  <2>5. CASE 1 \notin due /\ 2 \notin due /\ 3 \notin due /\ 4 \notin due
    BY <1>3, <2>0, <2>5
  <2> QED BY <2>1, <2>2, <2>3, <2>4, <2>5
<1>5. first \in due /\ \A k \in due : first <= k
  BY <1>4
<1>6. GoAfter(c, n, barred) = GoPhase[first]
  BY DEF GoAfter
<1>7. first \in (n + 1)..5 /\ GoDefines(c, GoPhase[first]) /\ ~(barred /\ GoPhase[first] = "execute")
  BY <1>1, <1>5
<1>8. /\ n = 0 /\ GoCases[c].bound => 1 \in due
      /\ n = 0 /\ ~barred => 2 \in due
      /\ n < 4 /\ GoCases[c].cleanup => 4 \in due
  BY <1>1 DEF GoDefines
<1>9. /\ n = 0 /\ GoCases[c].bound => first = 1
      /\ n = 0 /\ ~barred => first \in {1, 2}
      /\ n < 4 /\ GoCases[c].cleanup => first <= 4
  BY <1>5, <1>7, <1>8
<1> HIDE DEF first
<1>10. GoPhase[first] = "report" => first = 5
  BY <1>1, <1>7
<1>11. GoPhase[first] = "prepare" => first = 1
  BY <1>1, <1>7
<1>12. GoPhase[first] = "execute" => first = 2
  BY <1>1, <1>7
<1>13. GoPhase[first] \in GoPhases \cup {"report"}
  BY <1>1, <1>7 DEF GoPhases
<1>14. GoPhase[first] = "report" /\ GoCases[c].cleanup => n = 4
  BY <1>9, <1>10
<1>15. GoPhase[first] = "execute" => ~barred /\ n \in {0, 1}
  BY <1>7, <1>12
<1> QED BY <1>1, <1>6, <1>7, <1>9, <1>11, <1>13, <1>14, <1>15

(* The status of a case stays the worst of what its steps came to.         *)
LEMMA GoAppliesWorst ==
    ASSUME NEW came \in SUBSET GoEnd, NEW result \in GoEnd
    PROVE  GoApply(GoWorst(came), result) = GoWorst(came \cup {result}) /\ GoWorst(came) \in GoEnd
BY DEF GoApply, GoWorst, GoEnd

(* What a step that ran came to is what its phase counts as.               *)
LEMMA GoCounts ==
    ASSUME NEW c \in GoCaseIds, NEW phase \in GoPhases, NEW returned \in GoEnd, NEW late \in BOOLEAN,
           NEW left \in {"met", "unmet"}, phase \notin GoCases[c].funded => returned = "error",
           goCase[c] \in GoResults
    PROVE  LET truth == GoTruth(c, phase, returned, late, left) IN
           /\ GoVerdictOf(c, phase, returned, late) \in GoEnd
           /\ truth.came = goCase[c].truth.came \cup {GoVerdictOf(c, phase, returned, late)}
           /\ truth.last = phase
           /\ truth.sent <=> goCase[c].truth.sent \/ phase = "execute"
           /\ truth.facts = IF phase = "prepare" THEN left ELSE goCase[c].truth.facts
           /\ truth \in GoTruths
<1>1. goCase[c].truth \in GoTruths
  BY DEF GoResults
<1>2. GoVerdictOf(c, phase, returned, late) \in GoEnd
  BY DEF GoVerdictOf, GoEnd
<1>3. GoVerdictOf(c, phase, returned, late) =
        IF returned = "pass" /\ (late \/ (phase # "cleanup" /\ goCase[c].expired)) THEN "error" ELSE returned
  BY DEF GoVerdictOf, Cancellable
<1>4. goCase[c].truth.sent \in BOOLEAN /\ (goCase[c].truth.sent \/ phase = "execute") \in BOOLEAN
  BY <1>1 DEF GoTruths
<1> QED BY <1>1, <1>2, <1>3, <1>4 DEF GoTruth, GoTruths

(* A case whose record is as it should be, and has not been reported.      *)
GoGood(c, this) == this \in GoResults /\ GoSoFar(c, this) /\ GoLabelled(this) /\ this.at \notin Reported

(* The others stay as they are.                                            *)
LEMMA GoOneMoves ==
    ASSUME GoInv, NEW c \in GoCaseIds, NEW this, GoGood(c, this), Testing, goCase[c].at \notin Reported,
           goCase' = [goCase EXCEPT ![c] = this], UNCHANGED <<recorder, invocation>>
    PROVE  GoInv'
<1> USE DEF GoInv
<1>1. this \in GoResults /\ GoSoFar(c, this) /\ GoLabelled(this) /\ this.at \notin Reported
  BY DEF GoGood
<1>2. goCase' \in [GoCaseIds -> GoResults] /\ goCase'[c] = this /\ \A d \in GoCaseIds \ {c} : goCase'[d] = goCase[d]
  BY <1>1 DEF GoTypeOK
<1>3. GoTypeOK'
  BY <1>2 DEF GoTypeOK
<1>4. \A i \in DOMAIN recorder : recorder[i].case \in GoCaseIds /\ recorder[i].case # c
  <2>1. ASSUME NEW i \in DOMAIN recorder PROVE recorder[i].case \in GoCaseIds
    <3>1. recorder[i] \in GoRecords
      BY DEF GoTypeOK
    <3> QED BY <3>1 DEF GoRecords
  <2> QED BY <2>1 DEF GoRecorded
<1>5. GoRecorded'
  BY <1>1, <1>2, <1>4 DEF GoRecorded
<1>6. ExitZeroIsTrue'
  BY DEF ExitZeroIsTrue, Testing
<1>7. \A d \in GoCaseIds : GoSoFar(d, goCase'[d]) /\ GoLabelled(goCase'[d])
  BY <1>1, <1>2
<1> QED BY <1>3, <1>5, <1>6, <1>7

(* A phase of a case runs.                                                 *)
LEMMA GoRunKeeps ==
    ASSUME GoInv, NEW c \in GoCaseIds, NEW n \in 1..4, GoRuns(c, n)
    PROVE  GoInv'
<1> DEFINE phase == GoPhase[n]
           this == goCase[c]
<1>1. /\ n = 1 => phase = "prepare"
      /\ n = 2 => phase = "execute"
      /\ n = 3 => phase = "judge"
      /\ n = 4 => phase = "cleanup"
  BY DEF GoPhase
<1>2. phase \in GoPhases /\ this \in GoResults /\ GoSoFar(c, this) /\ GoLabelled(this)
      /\ Testing /\ this.at = phase
  BY DEF GoPhase, GoPhases, GoInv, GoTypeOK, GoRuns
<1>3. PICK returned \in GoEnd, late \in BOOLEAN, left \in {"met", "unmet"} :
        LET result == GoVerdictOf(c, phase, returned, late)
            barred == this.blocked \/ (result # "pass" /\ phase # "cleanup")
            called == phase \in GoCases[c].funded IN
        /\ late => returned = "pass"
        /\ left # this.facts => called /\ GoCases[c].bound
        /\ GoCases[c].bound /\ phase = "prepare" /\ returned = "pass" => left = "met"
        /\ ~called => returned = "error" /\ left = this.facts
        /\ GoPut(c, [this EXCEPT
             !.at = GoAfter(c, n, barred), !.blocked = barred, !.facts = left,
             !.status = GoApply(@, result),
             !.prepared = IF called /\ phase = "prepare" THEN left ELSE @,
             !.cleaned = IF called /\ phase = "cleanup" THEN left ELSE @,
             !.truth = GoTruth(c, phase, returned, late, left)])
  BY Zenon DEF GoRuns
<1> DEFINE result == GoVerdictOf(c, phase, returned, late)
           barred == this.blocked \/ (result # "pass" /\ phase # "cleanup")
           called == phase \in GoCases[c].funded
           truth == GoTruth(c, phase, returned, late, left)
           next == GoAfter(c, n, barred)
           moved == [this EXCEPT
             !.at = next, !.blocked = barred, !.facts = left,
             !.status = GoApply(@, result),
             !.prepared = IF called /\ phase = "prepare" THEN left ELSE @,
             !.cleaned = IF called /\ phase = "cleanup" THEN left ELSE @,
             !.truth = truth]
<1>4. /\ result \in GoEnd /\ truth.came = this.truth.came \cup {result}
      /\ truth.last = phase /\ (truth.sent <=> this.truth.sent \/ phase = "execute")
      /\ truth.facts = (IF phase = "prepare" THEN left ELSE this.truth.facts)
      /\ truth \in GoTruths
  BY <1>2, <1>3, GoCounts
<1>5. barred \in BOOLEAN /\ this.blocked \in BOOLEAN
  BY <1>2 DEF GoResults
<1>6. /\ next \in GoPhases \cup {"report"} /\ next # "prepare"
      /\ next = "execute" => ~barred /\ n = 1
      /\ next = "report" /\ GoCases[c].cleanup => n = 4
  <2>1. n \in 0..4 /\ n # 0
    OBVIOUS
  <2> HIDE DEF barred
  <2>2. /\ next \in GoPhases \cup {"report"}
        /\ next = "prepare" => n = 0
        /\ next = "execute" => ~barred /\ n \in {0, 1}
        /\ next = "report" /\ GoCases[c].cleanup => n = 4
    BY <1>5, <2>1, GoFollows
  <2> QED BY <2>1, <2>2
<1>7. /\ this.status = GoWorst(this.truth.came) /\ this.truth.came \in SUBSET GoEnd
      /\ this.valid /\ this.valid \in BOOLEAN
  BY <1>2 DEF GoSoFar, GoResults, GoTruths
<1>8. GoApply(this.status, result) = GoWorst(truth.came) /\ GoApply(this.status, result) \in GoEnd
  BY <1>4, <1>7, GoAppliesWorst
<1>9. /\ moved.at = next /\ moved.blocked = barred /\ moved.facts = left /\ moved.valid = this.valid
      /\ moved.status = GoApply(this.status, result)
      /\ moved.prepared = (IF called /\ phase = "prepare" THEN left ELSE this.prepared)
      /\ moved.truth = truth
  BY <1>2 DEF GoResults
<1>10. moved \in GoResults
  <2>1. next \in GoPlaces
    BY <1>6 DEF GoPlaces
  <2> HIDE DEF next, truth, barred, result, phase, called
  <2> QED BY <1>2, <1>4, <1>5, <1>8, <2>1 DEF GoResults
<1> HIDE DEF moved, next, truth, barred, result, called
<1>11. GoSoFar(c, moved)
  <2>1. moved.prepared = moved.truth.facts
    BY <1>2, <1>3, <1>4, <1>9 DEF GoSoFar, called
  <2>2. moved.at \in GoPhases \cup {"report"} /\ moved.at # "prepare"
    BY <1>6, <1>9
  <2>3. moved.truth.came # {} /\ moved.status = GoWorst(moved.truth.came)
    BY <1>4, <1>8, <1>9
  <2>4. moved.at = "execute" /\ GoCases[c].bound => moved.truth.facts = "met"
    <3>1. SUFFICES ASSUME next = "execute", GoCases[c].bound PROVE truth.facts = "met"
      BY <1>9
    <3>2. n = 1 /\ ~barred /\ phase = "prepare"
      BY <1>1, <1>6, <3>1
    <3>3. result = "pass"
      BY <3>2 DEF barred
    <3>4. returned = "pass"
      BY <3>3 DEF result, GoVerdictOf
    <3> QED BY <1>3, <1>4, <3>1, <3>2, <3>4
  <2>5. moved.truth.sent /\ GoCases[c].bound => moved.truth.facts = "met"
    <3>1. CASE phase = "execute"
      BY <1>2, <1>4, <1>9, <3>1 DEF GoSoFar
    <3>2. CASE phase = "prepare"
      BY <1>2, <1>4, <1>9, <3>2 DEF GoSoFar
    <3>3. CASE phase \notin {"prepare", "execute"}
      BY <1>2, <1>4, <1>9, <3>3 DEF GoSoFar
    <3> QED BY <3>1, <3>2, <3>3
  <2>6. moved.at = "report" /\ GoCases[c].cleanup => moved.truth.last = "cleanup"
    BY <1>1, <1>4, <1>6, <1>9
  <2>7. moved.valid
    BY <1>7, <1>9
  <2> QED BY <2>1, <2>2, <2>3, <2>4, <2>5, <2>6, <2>7 DEF GoSoFar, GoPhases, Reported
<1>12. moved.at \notin Reported
  BY <1>6, <1>9 DEF Reported, GoPhases
<1>13. GoLabelled(moved)
  BY <1>12 DEF GoLabelled, Reported
<1>14. this.at \notin Reported
  BY <1>2 DEF Reported, GoPhases
<1>15. goCase' = [goCase EXCEPT ![c] = moved] /\ UNCHANGED <<recorder, invocation>>
  BY <1>3 DEF GoPut, moved, next, truth, barred, result, called
<1> QED BY <1>2, <1>10, <1>11, <1>12, <1>13, <1>14, <1>15, GoOneMoves DEF GoGood

(* A case begins, its deadline passes, or its judge is left out.           *)
LEMMA GoMovesKeep ==
    ASSUME GoInv, NEW c \in GoCaseIds, GoBegin(c) \/ GoExpires(c) \/ GoJudgeBlocked(c)
    PROVE  GoInv'
<1> DEFINE this == goCase[c]
<1>1. this \in GoResults /\ GoSoFar(c, this) /\ GoLabelled(this) /\ Testing
  BY DEF GoInv, GoTypeOK, GoBegin, GoExpires, GoJudgeBlocked
<1>2. CASE GoBegin(c)
  <2> DEFINE next == GoAfter(c, 0, FALSE)
             valid == [this EXCEPT !.at = next]
             not == [this EXCEPT !.at = "report", !.status = "error"]
  <2>1. this.at = "start" /\ GoPut(c, IF this.valid THEN valid ELSE not)
    BY <1>2 DEF GoBegin
  <2>2. /\ next \in {"prepare", "execute"}
        /\ GoCases[c].bound => next = "prepare"
    <3>1. 0 \in 0..4 /\ FALSE \in BOOLEAN
      OBVIOUS
    <3>2. /\ 0 = 0 /\ GoCases[c].bound => GoAfter(c, 0, FALSE) = "prepare"
          /\ 0 = 0 /\ ~FALSE => GoAfter(c, 0, FALSE) \in {"prepare", "execute"}
      BY <3>1, GoFollows, Zenon
    <3> QED BY <3>2
  <2> HIDE DEF next
  <2>3. CASE this.valid
    <3>1. /\ valid \in GoResults /\ valid.at = next /\ valid.prepared = this.prepared
          /\ valid.facts = this.facts /\ valid.truth = this.truth /\ valid.status = this.status
          /\ valid.blocked = this.blocked /\ valid.valid
      BY <1>1, <2>2, <2>3 DEF GoResults, GoPlaces, GoPhases
    <3> HIDE DEF valid
    <3>2. GoSoFar(c, valid)
      BY <1>1, <2>1, <2>2, <2>3, <3>1 DEF GoSoFar, GoPhases, Reported
    <3>3. GoGood(c, valid)
      BY <2>2, <3>1, <3>2 DEF GoGood, GoLabelled, Reported
    <3>4. goCase' = [goCase EXCEPT ![c] = valid] /\ UNCHANGED <<recorder, invocation>>
      BY <2>1, <2>3 DEF GoPut, valid
    <3> QED BY <1>1, <2>1, <3>3, <3>4, GoOneMoves DEF Reported
  <2>4. CASE ~this.valid
    <3>1. /\ not \in GoResults /\ not.at = "report" /\ not.prepared = this.prepared
          /\ not.truth = this.truth /\ ~not.valid
      BY <1>1, <2>4 DEF GoResults, GoPlaces, GoEnd
    <3> HIDE DEF not
    <3>2. GoSoFar(c, not)
      BY <1>1, <2>1, <2>4, <3>1 DEF GoSoFar, GoPhases, Reported
    <3>3. GoGood(c, not)
      BY <3>1, <3>2 DEF GoGood, GoLabelled, Reported
    <3>4. goCase' = [goCase EXCEPT ![c] = not] /\ UNCHANGED <<recorder, invocation>>
      BY <2>1, <2>4 DEF GoPut, not
    <3> QED BY <1>1, <2>1, <3>3, <3>4, GoOneMoves DEF Reported
  <2> QED BY <2>3, <2>4
<1>3. CASE GoExpires(c)
  <2> DEFINE late == [this EXCEPT !.expired = TRUE]
  <2>1. this.at \in GoPhases /\ GoPut(c, late)
    BY <1>3 DEF GoExpires, GoPhases
  <2>2. /\ late \in GoResults /\ late.at = this.at /\ late.prepared = this.prepared
        /\ late.facts = this.facts /\ late.truth = this.truth /\ late.status = this.status
        /\ late.blocked = this.blocked /\ late.valid = this.valid
    BY <1>1 DEF GoResults
  <2> HIDE DEF late
  <2>3. GoGood(c, late)
    BY <1>1, <2>1, <2>2 DEF GoGood, GoSoFar, GoLabelled, GoPhases, Reported
  <2>4. goCase' = [goCase EXCEPT ![c] = late] /\ UNCHANGED <<recorder, invocation>>
    BY <2>1 DEF GoPut
  <2> QED BY <1>1, <2>1, <2>3, <2>4, GoOneMoves DEF Reported, GoPhases
<1>4. CASE GoJudgeBlocked(c)
  <2> DEFINE next == GoAfter(c, 3, TRUE)
             moved == [this EXCEPT !.at = next]
  <2>1. this.at = "judge" /\ GoPut(c, moved)
    BY <1>4 DEF GoJudgeBlocked
  <2>2. /\ next \in GoPhases \cup {"report"} /\ next # "prepare" /\ next # "execute"
        /\ next = "report" => ~GoCases[c].cleanup
    <3>1. \A b : LET after == GoAfter(c, 3, b) IN
             /\ after \in GoPhases \cup {"report"}
             /\ after # "prepare" /\ (after = "execute" => ~b)
             /\ after = "report" => ~GoCases[c].cleanup
      BY GoFollows
    <3> QED BY <3>1, Zenon
  <2> HIDE DEF next
  <2>3. /\ moved \in GoResults /\ moved.at = next /\ moved.prepared = this.prepared
        /\ moved.facts = this.facts /\ moved.truth = this.truth /\ moved.status = this.status
        /\ moved.blocked = this.blocked /\ moved.valid = this.valid
    BY <1>1, <2>2 DEF GoResults, GoPlaces, GoPhases
  <2> HIDE DEF moved
  <2>4. GoSoFar(c, moved)
    BY <1>1, <2>1, <2>2, <2>3 DEF GoSoFar, GoPhases, Reported
  <2>5. GoGood(c, moved)
    BY <2>2, <2>3, <2>4 DEF GoGood, GoLabelled, GoPhases, Reported
  <2>6. goCase' = [goCase EXCEPT ![c] = moved] /\ UNCHANGED <<recorder, invocation>>
    BY <2>1 DEF GoPut, moved
  <2> QED BY <1>1, <2>1, <2>5, <2>6, GoOneMoves DEF Reported
<1> QED BY <1>2, <1>3, <1>4

(* A case reports: it is recorded as it is.                                *)
LEMMA GoReportKeeps ==
    ASSUME GoInv, NEW c \in GoCaseIds, GoReport(c)
    PROVE  GoInv'
<1> DEFINE this == goCase[c]
           label == CASE this.status = "pass" -> "passed"
                      [] this.status = "skipped" -> "skipped"
                      [] OTHER -> "failed"
           moved == [this EXCEPT !.at = label]
           r == [case |-> c, status |-> this.status, prepared |-> this.prepared]
<1>1. /\ this \in GoResults /\ GoSoFar(c, this) /\ Testing /\ this.at = "report"
      /\ recorder' = Append(recorder, r) /\ UNCHANGED invocation
      /\ goCase' = [goCase EXCEPT ![c].at = label]
  BY DEF GoInv, GoTypeOK, GoReport
<1>2. label \in Reported
  BY DEF Reported
<1>3. /\ moved \in GoResults /\ moved.at = label /\ moved.prepared = this.prepared
      /\ moved.truth = this.truth /\ moved.status = this.status /\ moved.valid = this.valid
  BY <1>1, <1>2 DEF GoResults, GoPlaces
<1>4. r \in GoRecords /\ r.case = c /\ r.status = this.status /\ r.prepared = this.prepared
  BY <1>1 DEF GoRecords, GoResults
<1>5. /\ goCase' \in [GoCaseIds -> GoResults] /\ goCase'[c] = moved
      /\ \A d \in GoCaseIds \ {c} : goCase'[d] = goCase[d]
  BY <1>1, <1>3 DEF GoInv, GoTypeOK
<1> HIDE DEF r
<1>6. /\ Len(recorder) \in Nat /\ recorder' \in Seq(GoRecords)
      /\ DOMAIN recorder = 1..Len(recorder) /\ DOMAIN recorder' = 1..(Len(recorder) + 1)
      /\ \A i \in 1..Len(recorder) : recorder'[i] = recorder[i]
      /\ recorder'[Len(recorder) + 1] = r
  BY <1>1, <1>4, Grows DEF GoInv, GoTypeOK
<1>7. GoTypeOK'
  BY <1>1, <1>5, <1>6 DEF GoInv, GoTypeOK
<1>8. \A i \in DOMAIN recorder : recorder[i].case \in GoCaseIds /\ recorder[i].case # c
  <2>1. ASSUME NEW i \in DOMAIN recorder PROVE recorder[i].case \in GoCaseIds
    <3>1. recorder[i] \in GoRecords
      BY DEF GoInv, GoTypeOK
    <3> QED BY <3>1 DEF GoRecords
  <2> QED BY <1>1, <2>1 DEF GoInv, GoRecorded, Reported
<1> HIDE DEF moved, label
<1>9. GoRecorded'
  <2>1. ASSUME NEW d \in GoCaseIds
        PROVE  goCase'[d].at \in Reported <=> \E i \in DOMAIN recorder' : recorder'[i].case = d
    <3>1. CASE d = c
      BY <1>2, <1>3, <1>4, <1>5, <1>6, <3>1
    <3>2. CASE d # c
      BY <1>4, <1>5, <1>6, <3>2 DEF GoInv, GoRecorded
    <3> QED BY <3>1, <3>2
  <2>2. \A i, j \in DOMAIN recorder' : recorder'[i].case = recorder'[j].case => i = j
    BY <1>4, <1>6, <1>8 DEF GoInv, GoRecorded
  <2>3. ASSUME NEW i \in DOMAIN recorder'
        PROVE  /\ recorder'[i].status = goCase'[recorder'[i].case].status
               /\ recorder'[i].prepared = goCase'[recorder'[i].case].prepared
    <3>1. CASE i = Len(recorder) + 1
      BY <1>3, <1>4, <1>5, <1>6, <3>1
    <3>2. CASE i # Len(recorder) + 1
      <4>1. i \in DOMAIN recorder /\ recorder'[i] = recorder[i]
        BY <1>6, <3>2
      <4> QED BY <1>5, <1>8, <4>1 DEF GoInv, GoRecorded
    <3> QED BY <3>1, <3>2
  <2> QED BY <2>1, <2>2, <2>3 DEF GoRecorded
<1>10. ExitZeroIsTrue'
  BY <1>1 DEF ExitZeroIsTrue, Testing
<1>11. GoSoFar(c, moved)
  BY <1>1, <1>2, <1>3 DEF GoSoFar, GoPhases, Reported
<1>12. GoLabelled(moved)
  <2>1. this.status \in GoEnd
    BY <1>1 DEF GoResults
  <2> QED BY <1>3, <2>1 DEF GoLabelled, label, GoEnd
<1>13. \A d \in GoCaseIds : GoSoFar(d, goCase'[d]) /\ GoLabelled(goCase'[d])
  BY <1>5, <1>11, <1>12 DEF GoInv
<1> QED BY <1>7, <1>9, <1>10, <1>13 DEF GoInv

(* The invocation begins and ends.                                         *)
LEMMA GoMainKeeps ==
    ASSUME GoInv, GoMisconfigured \/ GoStart \/ GoFinish
    PROVE  GoInv'
<1>1. UNCHANGED <<goCase, recorder>>
  BY DEF GoMisconfigured, GoStart, GoFinish
<1>2. GoRecorded' /\ \A c \in GoCaseIds : GoSoFar(c, goCase'[c]) /\ GoLabelled(goCase'[c])
  BY <1>1 DEF GoInv, GoRecorded
<1> DEFINE States == [state : {"new", "tests", "exited"}, code : {0, 1},
                      verdict : GoEnd \cup {"none"}, evidence : BOOLEAN]
<1>3. invocation \in States
  BY DEF GoInv, GoTypeOK
<1>4. CASE GoMisconfigured
  <2>1. invocation' = [invocation EXCEPT !.state = "exited", !.code = 1]
    BY <1>4 DEF GoMisconfigured
  <2>2. invocation' \in States /\ invocation'.code = 1
    BY <1>3, <2>1
  <2> QED BY <1>1, <1>2, <2>2 DEF GoInv, GoTypeOK, ExitZeroIsTrue
<1>5. CASE GoStart
  <2>1. invocation' = [invocation EXCEPT !.state = "tests"]
    BY <1>5 DEF GoStart
  <2>2. invocation' \in States /\ invocation'.state = "tests"
    BY <1>3, <2>1
  <2> QED BY <1>1, <1>2, <2>2 DEF GoInv, GoTypeOK, ExitZeroIsTrue
<1>6. CASE GoFinish
  <2> DEFINE failed == \E c \in DOMAIN goCase : goCase[c].at = "failed"
             bound == \E i \in DOMAIN recorder : GoCases[recorder[i].case].bound
             statuses == {recorder[i].status : i \in DOMAIN recorder}
  <2>1. \A c \in DOMAIN goCase : goCase[c].at \in Reported \cup {"unselected"}
    BY <1>6 DEF GoFinish
  <2>2. PICK code \in {0, 1}, written \in BOOLEAN, copied \in BOOLEAN :
          /\ failed => code = 1
          /\ copied => written /\ bound
          /\ recorder = << >> => ~written
          /\ invocation' =
               [state |-> "exited", verdict |-> IF written THEN GoRollup(statuses) ELSE "none",
                evidence |-> copied,
                code |-> IF recorder # << >> /\ ~(written /\ (bound => copied)) THEN 1 ELSE code]
    BY <1>6 DEF GoFinish
  <2>3. /\ DOMAIN goCase = GoCaseIds
        /\ \A i \in DOMAIN recorder : recorder[i].case \in GoCaseIds /\ recorder[i].status \in GoEnd
    <3>1. ASSUME NEW i \in DOMAIN recorder
          PROVE  recorder[i].case \in GoCaseIds /\ recorder[i].status \in GoEnd
      <4>1. recorder[i] \in GoRecords
        BY DEF GoInv, GoTypeOK
      <4> QED BY <4>1 DEF GoRecords
    <3> QED BY <3>1 DEF GoInv, GoTypeOK
  <2>4. GoRollup(statuses) \in GoEnd
    BY DEF GoRollup, GoEnd
  <2>5. invocation' \in States
    <3> HIDE DEF failed, bound, statuses
    <3> QED BY <2>2, <2>4
  <2>6. CASE invocation'.code # 0
    BY <1>1, <1>2, <2>5, <2>6 DEF GoInv, GoTypeOK, ExitZeroIsTrue
  <2>7. CASE invocation'.code = 0
    <3>1. ~failed /\ (recorder # << >> => written /\ (bound => copied))
      <4> HIDE DEF failed, bound, statuses
      <4> QED BY <2>2, <2>7
    <3>2. \A i \in DOMAIN recorder : recorder[i].status \in {"pass", "skipped"}
      <4> SUFFICES ASSUME NEW i \in DOMAIN recorder PROVE recorder[i].status \in {"pass", "skipped"}
        OBVIOUS
      <4> DEFINE c == recorder[i].case
      <4>1. c \in GoCaseIds /\ recorder[i].status = goCase[c].status /\ goCase[c].at \in Reported
        BY <2>3 DEF GoInv, GoRecorded
      <4>2. goCase[c].at \in {"passed", "skipped"}
        BY <2>3, <3>1, <4>1 DEF Reported
      <4> QED BY <4>1, <4>2 DEF GoInv, GoLabelled
    <3>3. recorder # << >> => invocation'.verdict \in {"pass", "skipped"} /\ invocation'.evidence = copied
      <4>1. recorder # << >> => GoRollup(statuses) \in {"pass", "skipped"}
        BY <3>2 DEF GoRollup
      <4> HIDE DEF failed, bound, statuses
      <4> QED BY <2>2, <3>1, <4>1
    <3>4. {c \in GoCaseIds : goCase[c].at # "unselected"} = {recorder[i].case : i \in DOMAIN recorder}
      <4>1. \A c \in GoCaseIds : goCase[c].at # "unselected" <=> \E i \in DOMAIN recorder : recorder[i].case = c
        BY <2>1, <2>3 DEF GoInv, GoRecorded, Reported
      <4> QED BY <2>3, <4>1
    <3>5. \A i, j \in DOMAIN recorder : recorder[i].case = recorder[j].case => i = j
      BY DEF GoInv, GoRecorded
    <3>6. ASSUME NEW i \in DOMAIN recorder, GoCases[recorder[i].case].bound
          PROVE  invocation'.evidence /\ recorder[i].prepared = goCase[recorder[i].case].truth.facts
      <4>1. recorder # << >> /\ bound
        BY <3>6
      <4>2. GoSoFar(recorder[i].case, goCase[recorder[i].case])
        BY <2>3 DEF GoInv
      <4>3. recorder[i].prepared = goCase[recorder[i].case].prepared
        BY DEF GoInv, GoRecorded
      <4> QED BY <3>1, <3>3, <4>1, <4>2, <4>3 DEF GoSoFar
    <3>7. ExitZeroIsTrue'
      BY <1>1, <2>3, <3>3, <3>4, <3>5, <3>6 DEF ExitZeroIsTrue
    <3> QED BY <1>1, <1>2, <2>5, <3>7 DEF GoInv, GoTypeOK
  <2> QED BY <2>6, <2>7
<1> QED BY <1>4, <1>5, <1>6

LEMMA GoStarts == GoInit => GoInv
<1> SUFFICES ASSUME GoInit PROVE GoInv
  OBVIOUS
<1>1. PICK chosen \in SUBSET DOMAIN GoCases : \E valid \in SUBSET chosen :
        goCase = [c \in DOMAIN GoCases |->
                    GoFresh(IF c \in chosen THEN "start" ELSE "unselected", c \in valid)]
  BY DEF GoInit
<1>2. PICK valid \in SUBSET chosen :
        goCase = [c \in DOMAIN GoCases |->
                    GoFresh(IF c \in chosen THEN "start" ELSE "unselected", c \in valid)]
  BY <1>1
<1>3. /\ recorder = << >>
      /\ invocation = [state |-> "new", code |-> 0, verdict |-> "none", evidence |-> FALSE]
  BY DEF GoInit
<1>4. ASSUME NEW c \in GoCaseIds
      PROVE  /\ goCase[c] \in GoResults /\ goCase[c].at \in {"start", "unselected"}
             /\ GoSoFar(c, goCase[c]) /\ GoLabelled(goCase[c])
  <2> DEFINE this == goCase[c]
             truth == [came |-> {}, last |-> "none", sent |-> FALSE, facts |-> "unmet"]
  <2>1. this = [at |-> IF c \in chosen THEN "start" ELSE "unselected", valid |-> c \in valid,
                status |-> "pass", blocked |-> FALSE, expired |-> FALSE, facts |-> "unmet",
                prepared |-> "unmet", cleaned |-> "none", truth |-> truth]
    BY <1>2 DEF GoFresh, GoCaseIds
  <2>2. truth \in GoTruths
    BY DEF GoTruths
  <2>3. /\ this.at \in {"start", "unselected"} /\ this.status = "pass" /\ ~this.blocked
        /\ this.facts = "unmet" /\ this.prepared = "unmet" /\ this.truth = truth
    <3> HIDE DEF truth
    <3> QED BY <2>1
  <2>4. this \in GoResults
    <3> HIDE DEF truth
    <3> QED BY <2>1, <2>2 DEF GoResults, GoPlaces, GoEnd
  <2>5. truth.came = {} /\ ~truth.sent /\ truth.facts = "unmet"
    OBVIOUS
  <2> HIDE DEF this, truth
  <2>6. GoWorst(this.truth.came) = "pass"
    BY <2>3, <2>5 DEF GoWorst
  <2>7. GoSoFar(c, this) /\ GoLabelled(this)
    BY <2>3, <2>5, <2>6 DEF GoSoFar, GoLabelled, GoPhases, Reported
  <2> QED BY <2>3, <2>4, <2>7 DEF this
<1>5. \A c \in GoCaseIds : /\ goCase[c] \in GoResults /\ goCase[c].at \in {"start", "unselected"}
                           /\ GoSoFar(c, goCase[c]) /\ GoLabelled(goCase[c])
  BY <1>4
<1>6. GoTypeOK
  <2>1. goCase \in [GoCaseIds -> GoResults]
    <3>1. goCase = [c \in GoCaseIds |-> goCase[c]]
      BY <1>2, Zenon DEF GoCaseIds
    <3> QED BY <1>5, <3>1
  <2>2. recorder \in Seq(GoRecords)
    BY <1>3
  <2> QED BY <1>3, <2>1, <2>2 DEF GoTypeOK
<1>7. GoRecorded /\ ExitZeroIsTrue
  BY <1>3, <1>5 DEF GoRecorded, ExitZeroIsTrue, Reported
<1> QED BY <1>5, <1>6, <1>7 DEF GoInv

LEMMA GoStep == GoInv /\ [GoNext]_goVars => GoInv'
<1> SUFFICES ASSUME GoInv, [GoNext]_goVars PROVE GoInv'
  OBVIOUS
<1>1. CASE UNCHANGED goVars
  BY <1>1 DEF goVars, GoInv, GoTypeOK, GoRecorded, ExitZeroIsTrue
<1> QED BY <1>1, GoRunKeeps, GoMovesKeep, GoReportKeeps, GoMainKeeps DEF GoNext, GoCaseIds

\* The invariant says how the cases and the invocation ended.
LEMMA GoConcludes == GoInv => GoVerdictIsTrue
<1> SUFFICES ASSUME GoInv PROVE GoVerdictIsTrue
  OBVIOUS
<1>1. ASSUME NEW c \in DOMAIN goCase, goCase[c].at \in Reported, goCase[c].valid
      PROVE  LET this == goCase[c] IN
             /\ this.at = "passed" <=> this.truth.came = {"pass"}
             /\ this.at = "failed" <=> this.truth.came \cap {"error", "fail"} # {}
             /\ this.status = "error" <=> "error" \in this.truth.came
             /\ GoCases[c].cleanup => this.truth.last = "cleanup"
             /\ GoCases[c].bound /\ this.truth.sent => this.truth.facts = "met"
  <2> DEFINE this == goCase[c]
  <2>1. c \in GoCaseIds /\ this \in GoResults /\ GoSoFar(c, this) /\ GoLabelled(this)
    BY DEF GoInv, GoTypeOK
  <2>2. this.truth.came \in SUBSET GoEnd
    BY <2>1 DEF GoResults, GoTruths
  <2>3. /\ this.status = GoWorst(this.truth.came) /\ this.truth.came # {}
        /\ GoCases[c].cleanup => this.truth.last = "cleanup"
        /\ GoCases[c].bound /\ this.truth.sent => this.truth.facts = "met"
    BY <1>1, <2>1 DEF GoSoFar
  <2>4. this.at \in Reported /\ GoLabelled(this)
    BY <1>1, <2>1
  <2> HIDE DEF this
  <2>5. /\ this.status = "pass" <=> this.truth.came = {"pass"}
        /\ this.status \in {"error", "fail"} <=> this.truth.came \cap {"error", "fail"} # {}
        /\ this.status = "error" <=> "error" \in this.truth.came
    BY <2>2, <2>3 DEF GoWorst, GoEnd
  <2>6. /\ this.at = "passed" <=> this.status = "pass"
        /\ this.at = "failed" <=> this.status \in {"error", "fail"}
    BY <2>4 DEF GoLabelled, Reported
  <2>7. /\ this.at = "passed" <=> this.truth.came = {"pass"}
        /\ this.at = "failed" <=> this.truth.came \cap {"error", "fail"} # {}
        /\ this.status = "error" <=> "error" \in this.truth.came
    BY <2>5, <2>6
  <2> QED BY <2>3, <2>7 DEF this
<1>2. GoCasesAreTrue
  BY <1>1 DEF GoCasesAreTrue
<1> QED BY <1>2 DEF GoInv, GoVerdictIsTrue

-----------------------------------------------------------------------------
(* TypeScript: the arms of a sweep.                                        *)

TsInArm == {"setup", "start", "drive", "drain", "join", "deactivate", "cleanup"}
TsBetween == {"next", "finish", "returning", "returned"}
TsStops == {"aborted", "deadline", "error_rate"}
TsPhases == {"setup", "warmup", "hold", "cooldown"}
TsErrors == TsPhases \cup {"cleanup", "finish"}
TsExecs == [phase : TsPhases, loadPhase : {"none", "warmup", "hold", "cooldown"}, stop : TsStops,
            interrupted : BOOLEAN, broken : BOOLEAN, errors : Seq(TsErrors), fatal : BOOLEAN,
            cleanupFatal : BOOLEAN]
TsArmRuns == [errors : Seq(TsErrors), stop : TsStops, interrupted : BOOLEAN]
TsLogs == [wrong : BOOLEAN, raised : Seq(TsErrors), setups : Nat, cleanups : Nat, loadedAborted : BOOLEAN]

TsTypeOK ==
    /\ tsAt \in TsInArm \cup TsBetween \cup {"threw"}
    /\ tsArm \in Nat /\ tsAborted \in BOOLEAN /\ tsPassed \in BOOLEAN
    /\ tsExec \in TsExecs /\ tsRuns \in Seq(TsArmRuns) /\ tsLog \in TsLogs

\* An arm that does not pass, by its record.
TsBad(run) == run.errors # << >> \/ run.stop # "deadline" \/ run.interrupted
SomeBad == \E i \in DOMAIN tsRuns : TsBad(tsRuns[i])

\* What the arm under way owes to its record when it is cleaned up.
TsPending ==
    CASE tsAt \in {"drain", "join"} -> tsExec.broken \/ tsExec.stop # "deadline" \/ tsExec.interrupted
      [] tsAt = "deactivate" -> tsExec.stop # "deadline" \/ tsExec.interrupted
      [] tsAt = "cleanup" -> TsBad(tsExec)
      [] OTHER -> FALSE

\* Something went wrong exactly if an arm was or will be recorded so, or the
\* host has aborted.
WrongIsKnown == tsAt # "threw" => (tsLog.wrong <=> tsAborted \/ SomeBad \/ TsPending)

\* Arms are recorded as they end, and none begins after a bad one's errors.
ArmsCounted ==
    /\ tsArm <= TsArms
    /\ tsAt \in TsBetween => Len(tsRuns) = tsArm
    /\ tsAt \in TsInArm => Len(tsRuns) + 1 = tsArm
    /\ tsAt = "returning" => tsAborted \/ tsArm = TsArms \/ SomeBad
    /\ tsAt = "returned" =>
         /\ tsPassed => ~tsLog.wrong /\ tsArm = TsArms
         /\ ~tsLog.wrong => tsPassed

\* The errors of an arm are the rejections in it, but for one that drive() is
\* yet to throw.
ErrorsRecorded ==
    /\ tsAt \in {"setup", "start", "drive"} => tsExec.errors = << >> /\ tsLog.raised = << >>
    /\ tsAt \in {"setup", "start", "drive"} => tsExec.loadPhase = "none" /\ ~tsExec.broken
    /\ tsAt \in {"setup", "start", "drive", "drain"} => ~tsExec.interrupted
    /\ tsAt \in {"setup"} => tsExec.phase = "setup"
    /\ tsAt \in {"start", "drive", "drain", "join"} => tsExec.phase = "warmup"
    /\ tsAt \in {"drain", "join"} =>
         /\ tsExec.errors = << >>
         /\ tsExec.broken => tsExec.loadPhase \in {"warmup", "hold"} /\ tsLog.raised = <<tsExec.loadPhase>>
         /\ ~tsExec.broken => tsExec.loadPhase = "cooldown" /\ tsLog.raised = << >>
    /\ tsAt = "deactivate" =>
         tsExec.phase = "cooldown" /\ tsExec.errors = << >> /\ tsLog.raised = << >> /\ ~tsExec.broken
    /\ tsAt = "cleanup" => tsExec.fatal \/ tsExec.errors = tsLog.raised
    /\ tsAt = "finish" => tsRuns # << >> /\ tsRuns[Len(tsRuns)].errors = tsExec.errors
    /\ tsAt = "finish" /\ ~tsAborted => tsExec.errors = tsLog.raised
    /\ tsExec.fatal => tsAborted
    /\ tsAt = "threw" => tsAborted \/ tsLog.raised[Len(tsLog.raised)] = "finish"

CleanedUp ==
    /\ tsAt \in TsInArm => tsLog.cleanups + 1 = tsLog.setups
    /\ tsAt \notin TsInArm => tsLog.cleanups = tsLog.setups
    /\ ~tsLog.loadedAborted

TsSweepInv == TsTypeOK /\ WrongIsKnown /\ ArmsCounted /\ ErrorsRecorded /\ CleanedUp

LEMMA TsStarts == TsInit => TsSweepInv
<1> SUFFICES ASSUME TsInit PROVE TsSweepInv
  OBVIOUS
<1>1. /\ tsAt = "next" /\ tsArm = 0 /\ tsRuns = << >> /\ tsExec = TsFresh
      /\ tsLog = [wrong |-> FALSE, raised |-> << >>, setups |-> 0, cleanups |-> 0, loadedAborted |-> FALSE]
  BY DEF TsInit
<1>2. tsAborted \in BOOLEAN /\ tsPassed \in BOOLEAN /\ ~tsAborted
  BY Zenon DEF TsInit
<1>3. TsFresh \in TsExecs /\ ~TsFresh.fatal
  BY DEF TsFresh, TsExecs, TsPhases, TsStops
<1>4. tsRuns \in Seq(TsArmRuns) /\ tsLog \in TsLogs /\ Len(tsRuns) = 0 /\ DOMAIN tsRuns = {}
  BY <1>1 DEF TsLogs
<1>5. TsTypeOK
  BY <1>1, <1>2, <1>3, <1>4 DEF TsTypeOK, TsBetween
<1>6. /\ ~tsLog.wrong /\ tsLog.setups = 0 /\ tsLog.cleanups = 0 /\ ~tsLog.loadedAborted
  BY <1>1
<1>7. WrongIsKnown /\ CleanedUp
  BY <1>1, <1>2, <1>4, <1>6 DEF WrongIsKnown, SomeBad, TsPending, CleanedUp, TsInArm
<1>8. ArmsCounted /\ ErrorsRecorded
  BY <1>1, <1>2, <1>3, <1>4, TsArmsBound DEF ArmsCounted, ErrorsRecorded, TsInArm, TsBetween
<1> QED BY <1>5, <1>7, <1>8 DEF TsSweepInv

(* What a rejection leaves in the log, and the catch clause in the record. *)
LEMMA TsRejects ==
    ASSUME TsTypeOK, NEW where \in TsErrors
    PROVE  LET log == Rejected(where) IN
           /\ log \in TsLogs /\ log.wrong /\ log.raised = Append(tsLog.raised, where)
           /\ log.setups = tsLog.setups /\ log.cleanups = tsLog.cleanups
           /\ log.loadedAborted = tsLog.loadedAborted
<1> DEFINE log == Rejected(where)
           raisings == Append(tsLog.raised, where)
<1>1. tsLog \in TsLogs /\ tsLog.raised \in Seq(TsErrors)
  BY DEF TsTypeOK, TsLogs
<1>2. raisings \in Seq(TsErrors)
  BY <1>1
<1>3. log = [tsLog EXCEPT !.wrong = TRUE, !.raised = raisings]
  BY DEF Rejected
<1> HIDE DEF raisings, log
<1>4. /\ log \in TsLogs /\ log.wrong /\ log.raised = raisings
      /\ log.setups = tsLog.setups /\ log.cleanups = tsLog.cleanups
      /\ log.loadedAborted = tsLog.loadedAborted
  BY <1>1, <1>2, <1>3 DEF TsLogs
<1> QED BY <1>4 DEF raisings, log

LEMMA TsCatches ==
    ASSUME TsTypeOK
    PROVE  LET e == TsCatch(tsExec)
               at == IF tsExec.phase \in {"warmup", "hold"} /\ tsExec.loadPhase # "none"
                     THEN tsExec.loadPhase ELSE tsExec.phase IN
           /\ e \in TsExecs /\ at \in TsPhases
           /\ e.stop = tsExec.stop /\ e.interrupted = tsExec.interrupted
           /\ tsAborted => e.fatal
           /\ ~tsAborted => e.fatal = tsExec.fatal /\ e.errors = Append(tsExec.errors, at)
<1> DEFINE at == IF tsExec.phase \in {"warmup", "hold"} /\ tsExec.loadPhase # "none"
                 THEN tsExec.loadPhase ELSE tsExec.phase
           more == Append(tsExec.errors, at)
           e == TsCatch(tsExec)
<1>1. tsExec \in TsExecs /\ tsExec.errors \in Seq(TsErrors)
  BY DEF TsTypeOK, TsExecs
<1>2. at \in TsPhases
  BY <1>1 DEF TsExecs, TsPhases
<1>3. more \in Seq(TsErrors)
  BY <1>1, <1>2 DEF TsErrors
<1>4. e = IF tsAborted THEN [tsExec EXCEPT !.fatal = TRUE]
          ELSE [tsExec EXCEPT !.phase = at, !.errors = more]
  BY DEF TsCatch
<1> HIDE DEF at, more, e
<1>5. /\ e \in TsExecs
      /\ e.stop = tsExec.stop /\ e.interrupted = tsExec.interrupted
      /\ tsAborted => e.fatal
      /\ ~tsAborted => e.fatal = tsExec.fatal /\ e.errors = more
  BY <1>1, <1>2, <1>3, <1>4 DEF TsExecs
<1> QED BY <1>2, <1>5 DEF at, more, e

\* The record of the arms that ended stands.
LEMMA TsRunsStand == UNCHANGED tsRuns => (SomeBad' <=> SomeBad)
BY DEF SomeBad

LEMMA TsNextKeeps == ASSUME TsSweepInv, TsNext PROVE TsSweepInv'
<1>1. /\ tsAt = "next" /\ UNCHANGED <<tsAborted, tsRuns, tsPassed>>
      /\ IF tsAborted \/ tsArm = TsArms
         THEN tsAt' = "returning" /\ UNCHANGED <<tsArm, tsExec, tsLog>>
         ELSE /\ tsAt' = "setup" /\ tsArm' = tsArm + 1 /\ tsExec' = TsFresh
              /\ tsLog' = [tsLog EXCEPT !.setups = @ + 1, !.raised = << >>]
  BY Zenon DEF TsNext
<1>2. /\ tsArm \in Nat /\ tsAborted \in BOOLEAN /\ tsPassed \in BOOLEAN
      /\ tsExec \in TsExecs /\ tsRuns \in Seq(TsArmRuns) /\ tsLog \in TsLogs
  BY DEF TsSweepInv, TsTypeOK
<1>3. SomeBad' <=> SomeBad
  BY <1>1, TsRunsStand
<1>4. /\ TsFresh \in TsExecs /\ TsFresh.errors = << >> /\ ~TsFresh.fatal /\ ~TsFresh.broken
      /\ ~TsFresh.interrupted
      /\ TsFresh.loadPhase = "none" /\ TsFresh.phase = "setup"
  BY DEF TsFresh, TsExecs, TsPhases, TsStops
<1>5. CASE tsAborted \/ tsArm = TsArms
  <2>1. tsAt' = "returning" /\ UNCHANGED <<tsArm, tsExec, tsLog>>
    BY <1>1, <1>5
  <2>2. TsTypeOK'
    BY <1>1, <1>2, <2>1 DEF TsTypeOK, TsBetween
  <2>3. WrongIsKnown'
    BY <1>1, <1>3, <2>1 DEF TsSweepInv, WrongIsKnown, TsPending
  <2>4. ArmsCounted'
    BY <1>1, <1>5, <2>1 DEF TsSweepInv, ArmsCounted, TsBetween, TsInArm
  <2>5. ErrorsRecorded'
    BY <1>1, <2>1 DEF TsSweepInv, ErrorsRecorded
  <2>6. CleanedUp'
    BY <1>1, <2>1 DEF TsSweepInv, CleanedUp, TsInArm
  <2> QED BY <2>2, <2>3, <2>4, <2>5, <2>6 DEF TsSweepInv
<1>6. CASE ~(tsAborted \/ tsArm = TsArms)
  <2>1. /\ tsAt' = "setup" /\ tsArm' = tsArm + 1 /\ tsExec' = TsFresh
        /\ tsLog' = [tsLog EXCEPT !.setups = @ + 1, !.raised = << >>]
    BY <1>1, <1>6
  <2>2. /\ tsLog' \in TsLogs /\ tsLog'.raised = << >> /\ tsLog'.setups = tsLog.setups + 1
        /\ tsLog'.wrong = tsLog.wrong /\ tsLog'.cleanups = tsLog.cleanups
        /\ tsLog'.loadedAborted = tsLog.loadedAborted
    <3> DEFINE nothing == << >>
               more == tsLog.setups + 1
    <3>1. /\ nothing \in Seq(TsErrors) /\ more \in Nat
          /\ tsLog' = [tsLog EXCEPT !.setups = more, !.raised = nothing]
      BY <1>2, <2>1 DEF TsLogs
    <3> HIDE DEF nothing, more
    <3>2. /\ tsLog' \in TsLogs /\ tsLog'.raised = nothing /\ tsLog'.setups = more
          /\ tsLog'.wrong = tsLog.wrong /\ tsLog'.cleanups = tsLog.cleanups
          /\ tsLog'.loadedAborted = tsLog.loadedAborted
      BY <1>2, <3>1 DEF TsLogs
    <3> QED BY <3>2 DEF nothing, more
  <2>3. TsTypeOK'
    BY <1>1, <1>2, <1>4, <2>1, <2>2 DEF TsTypeOK, TsInArm
  <2>4. WrongIsKnown'
    BY <1>1, <1>3, <2>1, <2>2 DEF TsSweepInv, WrongIsKnown, TsPending
  <2>5. ArmsCounted'
    BY <1>1, <1>2, <1>6, <2>1, TsArmsBound DEF TsSweepInv, ArmsCounted, TsBetween, TsInArm
  <2>6. ErrorsRecorded'
    BY <1>4, <2>1, <2>2 DEF ErrorsRecorded
  <2>7. CleanedUp'
    BY <1>1, <1>2, <2>1, <2>2 DEF TsSweepInv, CleanedUp, TsInArm, TsLogs
  <2> QED BY <2>3, <2>4, <2>5, <2>6, <2>7 DEF TsSweepInv
<1> QED BY <1>5, <1>6

\* Within an arm nothing is recorded yet: what is left to show of a step there.
LEMMA TsArmMoves ==
    ASSUME TsSweepInv, tsAt \in TsInArm, tsAt' \in TsInArm,
           UNCHANGED <<tsArm, tsAborted, tsRuns, tsPassed>>,
           tsExec' \in TsExecs, tsLog' \in TsLogs,
           tsLog'.setups = tsLog.setups, tsLog'.cleanups = tsLog.cleanups, ~tsLog'.loadedAborted,
           tsAborted \/ ((tsLog'.wrong <=> tsLog.wrong \/ TsPending') /\ (TsPending => TsPending')),
           tsLog.wrong => tsLog'.wrong, ErrorsRecorded'
    PROVE  TsSweepInv'
<1>1. /\ tsAt # "threw" /\ tsAt' # "threw" /\ tsAt' \notin TsBetween /\ tsAt \notin TsBetween
      /\ tsAt' \notin {"returning", "returned"}
  BY DEF TsInArm, TsBetween
<1>2. SomeBad' <=> SomeBad
  BY TsRunsStand
<1>3. TsTypeOK'
  BY DEF TsSweepInv, TsTypeOK
<1>4. tsLog.wrong <=> tsAborted \/ SomeBad \/ TsPending
  BY <1>1 DEF TsSweepInv, WrongIsKnown
<1>5. /\ tsLog.wrong \in BOOLEAN /\ tsLog'.wrong \in BOOLEAN
  BY DEF TsSweepInv, TsTypeOK, TsLogs
<1>6. WrongIsKnown'
  BY <1>1, <1>2, <1>4, <1>5 DEF WrongIsKnown
<1>7. ArmsCounted'
  BY <1>1 DEF TsSweepInv, ArmsCounted
<1>8. CleanedUp'
  BY <1>1 DEF TsSweepInv, CleanedUp
<1> QED BY <1>3, <1>6, <1>7, <1>8 DEF TsSweepInv

\* A hook or the load rejects, or throwIfAborted() does: the catch clause.
LEMMA TsCatchKeeps ==
    ASSUME TsSweepInv, tsAt \in TsInArm \ {"cleanup", "drain"}, tsAt' = "cleanup",
           UNCHANGED <<tsArm, tsAborted, tsRuns, tsPassed>>,
           tsExec' = TsCatch(tsExec), NEW where \in TsErrors,
           tsLog' = tsLog \/ tsLog' = Rejected(where),
           ~tsAborted => /\ tsLog'.wrong
                         /\ LET at == IF tsExec.phase \in {"warmup", "hold"} /\ tsExec.loadPhase # "none"
                                      THEN tsExec.loadPhase ELSE tsExec.phase
                            IN  tsLog'.raised = Append(tsExec.errors, at)
    PROVE  TsSweepInv'
<1>1. TsTypeOK
  BY DEF TsSweepInv
<1> DEFINE log == Rejected(where)
           at == IF tsExec.phase \in {"warmup", "hold"} /\ tsExec.loadPhase # "none"
                 THEN tsExec.loadPhase ELSE tsExec.phase
<1>2. /\ log \in TsLogs /\ log.wrong
      /\ log.setups = tsLog.setups /\ log.cleanups = tsLog.cleanups
      /\ log.loadedAborted = tsLog.loadedAborted
  BY <1>1, TsRejects
<1>3. /\ tsExec' \in TsExecs
      /\ tsAborted => tsExec'.fatal
      /\ ~tsAborted => tsExec'.fatal = tsExec.fatal /\ tsExec'.errors = Append(tsExec.errors, at)
  BY <1>1, TsCatches
<1>4. /\ ~tsAborted => tsLog'.wrong /\ tsLog'.raised = Append(tsExec.errors, at)
      /\ tsLog' = tsLog \/ tsLog' = log
  OBVIOUS
<1>5. tsExec.errors \in Seq(TsErrors) /\ tsLog \in TsLogs /\ ~tsLog.loadedAborted
  BY <1>1 DEF TsTypeOK, TsExecs, TsSweepInv, CleanedUp
<1>6. Append(tsExec.errors, at) # << >>
  BY <1>5
<1> HIDE DEF log, at
<1>7. /\ tsLog' \in TsLogs /\ tsLog'.setups = tsLog.setups /\ tsLog'.cleanups = tsLog.cleanups
      /\ ~tsLog'.loadedAborted /\ (tsLog.wrong => tsLog'.wrong)
  BY <1>2, <1>4, <1>5
<1>8. ~tsAborted => TsPending'
  BY <1>3, <1>6 DEF TsPending, TsBad
<1>9. ErrorsRecorded'
  BY <1>3, <1>4 DEF TsSweepInv, ErrorsRecorded
<1> QED BY <1>3, <1>4, <1>7, <1>8, <1>9, TsArmMoves DEF TsInArm

\* setup and onArmStart.
LEMMA TsHookKeeps ==
    ASSUME TsSweepInv, TsSetup \/ TsStart
    PROVE  TsSweepInv'
<1>1. PICK at, next : /\ (at = "setup" /\ next = "start") \/ (at = "start" /\ next = "drive")
                      /\ TsHook(at, next)
  BY Zenon DEF TsSetup, TsStart
<1> DEFINE where == IF at = "setup" THEN "setup" ELSE "warmup"
<1>2. /\ tsAt = at /\ UNCHANGED <<tsArm, tsAborted, tsRuns, tsPassed>>
      /\ \/ /\ ~tsAborted /\ tsAt' = next
            /\ tsExec' = [tsExec EXCEPT !.phase = "warmup"]
            /\ tsLog' = [tsLog EXCEPT !.loadedAborted = @ \/ (next = "drive" /\ tsAborted)]
         \/ tsAborted /\ tsAt' = "cleanup" /\ tsExec' = TsCatch(tsExec) /\ UNCHANGED tsLog
         \/ tsAt' = "cleanup" /\ tsExec' = TsCatch(tsExec) /\ tsLog' = Rejected(where)
  BY <1>1, Zenon DEF TsHook, TsStopsHere
<1>3. TsTypeOK /\ tsExec \in TsExecs /\ tsLog \in TsLogs /\ tsAborted \in BOOLEAN
  BY DEF TsSweepInv, TsTypeOK
<1>4. /\ tsExec.errors = << >> /\ tsLog.raised = << >> /\ tsExec.loadPhase = "none"
      /\ tsExec.phase = where /\ ~tsExec.broken /\ ~tsLog.loadedAborted /\ ~tsExec.interrupted
  BY <1>1, <1>2 DEF TsSweepInv, ErrorsRecorded, CleanedUp
<1>5. where \in TsErrors /\ tsAt \in TsInArm \ {"cleanup", "drain"}
  BY <1>1, <1>2 DEF TsErrors, TsPhases, TsInArm
<1>6. CASE tsAt' = next
  <2>1. /\ ~tsAborted /\ tsExec' = [tsExec EXCEPT !.phase = "warmup"]
        /\ tsLog' = [tsLog EXCEPT !.loadedAborted = @ \/ (next = "drive" /\ tsAborted)]
    BY <1>1, <1>2, <1>6
  <2>2. /\ tsExec' \in TsExecs /\ tsExec'.phase = "warmup" /\ tsExec'.errors = tsExec.errors
        /\ tsExec'.loadPhase = tsExec.loadPhase /\ tsExec'.broken = tsExec.broken
        /\ tsExec'.fatal = tsExec.fatal /\ tsExec'.interrupted = tsExec.interrupted
    BY <1>3, <2>1 DEF TsExecs, TsPhases
  <2>3. tsLog' = tsLog
    BY <1>3, <1>4, <2>1 DEF TsLogs
  <2>4. ErrorsRecorded'
    BY <1>1, <1>2, <1>4, <1>6, <2>2, <2>3 DEF TsSweepInv, ErrorsRecorded
  <2>5. ~TsPending /\ ~TsPending' /\ tsAt' \in TsInArm
    BY <1>1, <1>2, <1>6 DEF TsPending, TsInArm
  <2> QED BY <1>2, <1>3, <1>4, <1>5, <2>2, <2>3, <2>4, <2>5, TsArmMoves
<1>7. CASE tsAt' = "cleanup" /\ tsExec' = TsCatch(tsExec) /\ tsAborted /\ UNCHANGED tsLog
  BY <1>2, <1>5, <1>7, TsCatchKeeps
<1>8. CASE tsAt' = "cleanup" /\ tsExec' = TsCatch(tsExec) /\ tsLog' = Rejected(where)
  <2>1. tsLog'.wrong /\ tsLog'.raised = Append(tsLog.raised, where)
    BY <1>3, <1>5, <1>8, TsRejects
  <2>2. where = IF tsExec.phase \in {"warmup", "hold"} /\ tsExec.loadPhase # "none"
                THEN tsExec.loadPhase ELSE tsExec.phase
    BY <1>4
  <2> HIDE DEF where
  <2> QED BY <1>2, <1>4, <1>5, <1>8, <2>1, <2>2, TsCatchKeeps
<1> QED BY <1>2, <1>6, <1>7, <1>8

\* drive() ends, or will throw.
LEMMA TsMeasuredKeeps == ASSUME TsSweepInv, TsMeasured PROVE TsSweepInv'
<1>1. /\ tsAt = "drive" /\ tsAt' = "drain" /\ UNCHANGED <<tsArm, tsAborted, tsRuns, tsPassed>>
      /\ \/ \E reason \in {"deadline", "error_rate", "aborted"} :
              /\ tsAborted <=> reason = "aborted"
              /\ tsExec' = [tsExec EXCEPT !.stop = reason, !.loadPhase = "cooldown"]
              /\ tsLog' = [tsLog EXCEPT !.wrong = @ \/ reason # "deadline"]
         \/ \E phase \in {"warmup", "hold"} :
              /\ ~tsAborted
              /\ tsExec' = [tsExec EXCEPT !.broken = TRUE, !.loadPhase = phase]
              /\ tsLog' = Rejected(phase)
  BY Zenon DEF TsMeasured
<1>2. TsTypeOK /\ tsExec \in TsExecs /\ tsLog \in TsLogs /\ tsAborted \in BOOLEAN
  BY DEF TsSweepInv, TsTypeOK
<1>3. /\ tsExec.errors = << >> /\ tsLog.raised = << >> /\ tsExec.phase = "warmup"
      /\ ~tsExec.broken /\ ~tsLog.loadedAborted /\ (tsExec.fatal => tsAborted)
      /\ ~tsExec.interrupted
  BY <1>1 DEF TsSweepInv, ErrorsRecorded, CleanedUp
<1>4. ~TsPending /\ tsAt \in TsInArm /\ tsAt' \in TsInArm
  BY <1>1 DEF TsPending, TsInArm
<1>5. ASSUME NEW reason \in {"deadline", "error_rate", "aborted"},
             tsAborted <=> reason = "aborted",
             tsExec' = [tsExec EXCEPT !.stop = reason, !.loadPhase = "cooldown"],
             tsLog' = [tsLog EXCEPT !.wrong = @ \/ reason # "deadline"]
      PROVE  TsSweepInv'
  <2>1. /\ tsExec' \in TsExecs /\ tsExec'.phase = "warmup" /\ tsExec'.errors = << >>
        /\ tsExec'.loadPhase = "cooldown" /\ ~tsExec'.broken /\ tsExec'.stop = reason
        /\ tsExec'.fatal = tsExec.fatal
        /\ ~tsExec'.interrupted
    BY <1>2, <1>3, <1>5 DEF TsExecs, TsStops
  <2>2. /\ tsLog' \in TsLogs /\ tsLog'.raised = << >> /\ ~tsLog'.loadedAborted
        /\ tsLog'.wrong <=> tsLog.wrong \/ reason # "deadline"
        /\ tsLog'.setups = tsLog.setups /\ tsLog'.cleanups = tsLog.cleanups
    BY <1>2, <1>3, <1>5 DEF TsLogs
  <2>3. ErrorsRecorded'
    BY <1>1, <1>3, <2>1, <2>2 DEF ErrorsRecorded
  <2>4. ~tsAborted => (tsLog'.wrong <=> tsLog.wrong \/ TsPending')
    <3>1. tsLog.wrong <=> tsAborted \/ SomeBad \/ TsPending
      BY <1>1 DEF TsSweepInv, WrongIsKnown
    <3> QED BY <1>1, <2>1, <2>2, <3>1 DEF TsPending
  <2> QED BY <1>1, <1>2, <1>3, <1>4, <2>1, <2>2, <2>3, <2>4, TsArmMoves
<1>6. ASSUME NEW phase \in {"warmup", "hold"},
             ~tsAborted,
             tsExec' = [tsExec EXCEPT !.broken = TRUE, !.loadPhase = phase],
             tsLog' = Rejected(phase)
      PROVE  TsSweepInv'
  <2>1. phase \in TsErrors
    BY DEF TsErrors, TsPhases
  <2>2. /\ tsExec' \in TsExecs /\ tsExec'.phase = "warmup" /\ tsExec'.errors = << >>
        /\ tsExec'.loadPhase = phase /\ tsExec'.broken /\ tsExec'.fatal = tsExec.fatal
        /\ ~tsExec'.interrupted
    BY <1>2, <1>3, <1>6 DEF TsExecs
  <2>3. /\ tsLog' \in TsLogs /\ tsLog'.raised = Append(tsLog.raised, phase) /\ ~tsLog'.loadedAborted
        /\ tsLog'.wrong
        /\ tsLog'.setups = tsLog.setups /\ tsLog'.cleanups = tsLog.cleanups
    BY <1>2, <1>3, <1>6, <2>1, TsRejects
  <2>4. tsLog'.raised = <<phase>>
    BY <1>3, <2>3
  <2>5. ErrorsRecorded'
    BY <1>1, <1>3, <2>2, <2>3, <2>4 DEF ErrorsRecorded
  <2>6. TsPending'
    BY <1>1, <2>2 DEF TsPending
  <2> QED BY <1>1, <1>2, <1>3, <1>4, <2>2, <2>3, <2>5, <2>6, TsArmMoves
<1> QED BY <1>1, <1>5, <1>6

LEMMA TsDrainedKeeps == ASSUME TsSweepInv, TsDrained PROVE TsSweepInv'
<1>1. PICK left \in BOOLEAN :
        /\ tsExec' = [tsExec EXCEPT !.interrupted = left,
                         !.stop = IF tsAborted /\ ~tsExec.broken THEN "aborted" ELSE @]
        /\ tsLog' = [tsLog EXCEPT !.wrong = @ \/ left]
  BY Zenon DEF TsDrained
<1>2. tsAt = "drain" /\ tsAt' = "join" /\ UNCHANGED <<tsArm, tsAborted, tsRuns, tsPassed>>
  BY DEF TsDrained
<1>3. TsTypeOK /\ tsExec \in TsExecs /\ tsLog \in TsLogs /\ tsAborted \in BOOLEAN
  BY DEF TsSweepInv, TsTypeOK
<1>4. /\ tsExec' \in TsExecs /\ tsExec'.phase = tsExec.phase /\ tsExec'.errors = tsExec.errors
      /\ tsExec'.loadPhase = tsExec.loadPhase /\ (tsExec'.broken <=> tsExec.broken)
      /\ (tsExec'.fatal <=> tsExec.fatal) /\ (tsExec'.interrupted <=> left)
      /\ ~tsAborted => tsExec'.stop = tsExec.stop
  BY <1>1, <1>3 DEF TsExecs, TsStops
<1>5. /\ tsLog' \in TsLogs /\ tsLog'.raised = tsLog.raised /\ (tsLog'.wrong <=> tsLog.wrong \/ left)
      /\ tsLog'.setups = tsLog.setups /\ tsLog'.cleanups = tsLog.cleanups
      /\ (tsLog'.loadedAborted <=> tsLog.loadedAborted)
  BY <1>1, <1>3 DEF TsLogs
<1>6. ErrorsRecorded'
  BY <1>2, <1>4, <1>5 DEF TsSweepInv, ErrorsRecorded
<1>7. ~tsLog'.loadedAborted /\ ~tsExec.interrupted
  BY <1>2, <1>5 DEF TsSweepInv, CleanedUp, ErrorsRecorded
<1>8. tsAborted \/ ((tsLog'.wrong <=> tsLog.wrong \/ TsPending') /\ (TsPending => TsPending'))
  <2>1. tsLog.wrong <=> tsAborted \/ SomeBad \/ TsPending
    BY <1>2 DEF TsSweepInv, WrongIsKnown
  <2>2. TsPending <=> tsExec.broken \/ tsExec.stop # "deadline"
    BY <1>2, <1>7 DEF TsPending
  <2>3. TsPending' <=> tsExec'.broken \/ tsExec'.stop # "deadline" \/ tsExec'.interrupted
    BY <1>2 DEF TsPending
  <2> QED BY <1>4, <1>5, <2>1, <2>2, <2>3
<1> QED BY <1>2, <1>4, <1>5, <1>6, <1>7, <1>8, TsArmMoves DEF TsInArm

\* drive() returns or throws what it kept, or what a request that ended late
\* threw.
LEMMA TsJoinedKeeps == ASSUME TsSweepInv, TsJoined PROVE TsSweepInv'
<1>1. /\ tsAt = "join" /\ UNCHANGED <<tsArm, tsAborted, tsRuns, tsPassed>>
      /\ \/ /\ ~tsExec.broken /\ tsAt' = "deactivate"
            /\ tsExec' = [tsExec EXCEPT !.phase = "cooldown"] /\ UNCHANGED tsLog
         \/ /\ tsAt' = "cleanup" /\ tsExec' = TsCatch(tsExec)
            /\ tsLog' = IF tsExec.broken THEN tsLog ELSE Rejected("cooldown")
  BY Zenon DEF TsJoined
<1>2. TsTypeOK /\ tsExec \in TsExecs /\ tsLog \in TsLogs /\ tsAborted \in BOOLEAN
  BY DEF TsSweepInv, TsTypeOK
<1>3. /\ tsExec.phase = "warmup" /\ tsExec.errors = << >> /\ ~tsLog.loadedAborted
      /\ tsExec.broken => tsExec.loadPhase \in {"warmup", "hold"} /\ tsLog.raised = <<tsExec.loadPhase>>
      /\ ~tsExec.broken => tsExec.loadPhase = "cooldown" /\ tsLog.raised = << >>
      /\ tsExec.fatal => tsAborted
  BY <1>1 DEF TsSweepInv, ErrorsRecorded, CleanedUp
<1>4. tsLog.wrong <=> tsAborted \/ SomeBad \/ TsPending
  BY <1>1 DEF TsSweepInv, WrongIsKnown
<1>5. CASE ~tsExec.broken /\ tsAt' = "deactivate"
  <2>1. tsExec' = [tsExec EXCEPT !.phase = "cooldown"] /\ UNCHANGED tsLog
    BY <1>1, <1>5
  <2>2. /\ tsExec' \in TsExecs /\ tsExec'.phase = "cooldown" /\ tsExec'.errors = tsExec.errors
        /\ (tsExec'.broken <=> tsExec.broken) /\ (tsExec'.fatal <=> tsExec.fatal)
        /\ tsExec'.stop = tsExec.stop /\ (tsExec'.interrupted <=> tsExec.interrupted)
    BY <1>2, <2>1 DEF TsExecs, TsPhases
  <2>3. ErrorsRecorded'
    BY <1>1, <1>3, <1>5, <2>1, <2>2 DEF ErrorsRecorded
  <2>4. TsPending' <=> TsPending
    BY <1>1, <1>5, <2>2 DEF TsPending
  <2> QED BY <1>1, <1>2, <1>3, <1>4, <1>5, <2>1, <2>2, <2>3, <2>4, TsArmMoves DEF TsInArm
<1>6. CASE tsAt' = "cleanup" /\ tsExec' = TsCatch(tsExec)
  <2>1. "cooldown" \in TsErrors /\ tsAt \in TsInArm \ {"cleanup", "drain"}
    BY <1>1 DEF TsErrors, TsPhases, TsInArm
  <2> DEFINE at == IF tsExec.phase \in {"warmup", "hold"} /\ tsExec.loadPhase # "none"
                   THEN tsExec.loadPhase ELSE tsExec.phase
  <2>2. at = tsExec.loadPhase
    BY <1>3
  <2>3. CASE tsExec.broken
    <3>1. tsLog' = tsLog /\ tsLog.wrong
      BY <1>1, <1>4, <1>6, <2>3 DEF TsPending
    <3>2. tsLog.raised = Append(tsExec.errors, at)
      BY <1>3, <2>2, <2>3
    <3> HIDE DEF at
    <3> QED BY <1>1, <1>6, <2>1, <3>1, <3>2, TsCatchKeeps DEF at
  <2>4. CASE ~tsExec.broken
    <3>1. tsLog' = Rejected("cooldown")
      BY <1>1, <1>6, <2>4
    <3>2. tsLog'.wrong /\ tsLog'.raised = Append(tsLog.raised, "cooldown")
      BY <1>2, <2>1, <3>1, TsRejects
    <3>3. tsLog'.raised = Append(tsExec.errors, at)
      BY <1>3, <2>2, <2>4, <3>2
    <3> QED BY <1>1, <1>6, <2>1, <3>1, <3>2, <3>3, TsCatchKeeps
  <2> QED BY <2>3, <2>4
<1> QED BY <1>1, <1>5, <1>6

LEMMA TsDeactivateKeeps == ASSUME TsSweepInv, TsDeactivate PROVE TsSweepInv'
<1>1. /\ tsAt = "deactivate" /\ tsAt' = "cleanup" /\ UNCHANGED <<tsArm, tsAborted, tsRuns, tsPassed>>
      /\ \/ UNCHANGED <<tsExec, tsLog>>
         \/ tsExec' = TsCatch(tsExec) /\ tsLog' = Rejected("cooldown")
  BY Zenon DEF TsDeactivate
<1>2. TsTypeOK /\ tsExec \in TsExecs /\ tsLog \in TsLogs /\ tsAborted \in BOOLEAN
  BY DEF TsSweepInv, TsTypeOK
<1>3. /\ tsExec.phase = "cooldown" /\ tsExec.errors = << >> /\ tsLog.raised = << >>
      /\ ~tsLog.loadedAborted /\ (tsExec.fatal => tsAborted)
  BY <1>1 DEF TsSweepInv, ErrorsRecorded, CleanedUp
<1>4. tsLog.wrong <=> tsAborted \/ SomeBad \/ TsPending
  BY <1>1 DEF TsSweepInv, WrongIsKnown
<1>5. "cooldown" \in TsErrors /\ tsAt \in TsInArm \ {"cleanup", "drain"} /\ tsAt' \in TsInArm
  BY <1>1 DEF TsErrors, TsPhases, TsInArm
<1>6. CASE UNCHANGED <<tsExec, tsLog>>
  <2>1. ErrorsRecorded'
    BY <1>1, <1>3, <1>6 DEF ErrorsRecorded
  <2>2. TsPending' <=> TsPending
    BY <1>1, <1>3, <1>6 DEF TsPending, TsBad
  <2> QED BY <1>1, <1>2, <1>3, <1>4, <1>5, <1>6, <2>1, <2>2, TsArmMoves
<1>7. CASE tsExec' = TsCatch(tsExec) /\ tsLog' = Rejected("cooldown")
  <2>1. tsLog'.wrong /\ tsLog'.raised = Append(tsExec.errors, "cooldown")
    BY <1>2, <1>3, <1>5, <1>7, TsRejects
  <2> QED BY <1>1, <1>3, <1>5, <1>7, <2>1, TsCatchKeeps
<1> QED BY <1>1, <1>6, <1>7

\* The finally clause.
LEMMA TsCleanupKeeps == ASSUME TsSweepInv, TsCleanup PROVE TsSweepInv'
<1>1. PICK fails \in BOOLEAN :
        LET e == CASE fails /\ tsExec.fatal -> [tsExec EXCEPT !.cleanupFatal = TRUE]
                   [] fails /\ ~tsExec.fatal -> [tsExec EXCEPT !.errors = Append(@, "cleanup")]
                   [] OTHER -> tsExec
            log == IF fails THEN Rejected("cleanup") ELSE tsLog IN
          /\ tsExec' = e /\ tsLog' = [log EXCEPT !.cleanups = @ + 1]
          /\ IF e.fatal THEN tsAt' = "threw" /\ UNCHANGED tsRuns
             ELSE /\ tsAt' = "finish"
                  /\ tsRuns' = Append(tsRuns, [errors |-> e.errors, stop |-> e.stop,
                                               interrupted |-> e.interrupted])
  BY Zenon DEF TsCleanup
<1> DEFINE log == IF fails THEN Rejected("cleanup") ELSE tsLog
           more == Append(tsExec.errors, "cleanup")
           run == [errors |-> tsExec'.errors, stop |-> tsExec'.stop, interrupted |-> tsExec'.interrupted]
<1>2. /\ tsAt = "cleanup" /\ UNCHANGED <<tsArm, tsAborted, tsPassed>>
      /\ tsExec' = CASE fails /\ tsExec.fatal -> [tsExec EXCEPT !.cleanupFatal = TRUE]
                     [] fails /\ ~tsExec.fatal -> [tsExec EXCEPT !.errors = more]
                     [] OTHER -> tsExec
      /\ tsLog' = [log EXCEPT !.cleanups = @ + 1]
      /\ IF tsExec'.fatal THEN tsAt' = "threw" /\ UNCHANGED tsRuns
         ELSE tsAt' = "finish" /\ tsRuns' = Append(tsRuns, run)
  BY <1>1 DEF TsCleanup
<1>3. /\ TsTypeOK /\ tsExec \in TsExecs /\ tsLog \in TsLogs /\ tsAborted \in BOOLEAN
      /\ tsPassed \in BOOLEAN /\ tsArm \in Nat
      /\ tsExec.errors \in Seq(TsErrors) /\ tsRuns \in Seq(TsArmRuns)
      /\ tsLog.raised \in Seq(TsErrors)
  BY DEF TsSweepInv, TsTypeOK, TsExecs, TsLogs
<1>4. "cleanup" \in TsErrors /\ more \in Seq(TsErrors) /\ more # << >>
  BY <1>3 DEF TsErrors
<1>5. /\ log \in TsLogs /\ log.setups = tsLog.setups /\ log.cleanups = tsLog.cleanups
      /\ log.loadedAborted = tsLog.loadedAborted
      /\ fails => log.wrong /\ log.raised = Append(tsLog.raised, "cleanup")
      /\ ~fails => log = tsLog
  BY <1>3, <1>4, TsRejects
<1> HIDE DEF log, more
<1>6. /\ tsExec' \in TsExecs /\ (tsExec'.fatal <=> tsExec.fatal)
      /\ tsExec'.stop = tsExec.stop /\ (tsExec'.interrupted <=> tsExec.interrupted)
      /\ fails /\ ~tsExec.fatal => tsExec'.errors = more
      /\ ~fails => tsExec'.errors = tsExec.errors
  BY <1>2, <1>3, <1>4 DEF TsExecs
<1>7. /\ tsLog' \in TsLogs /\ (tsLog'.wrong <=> log.wrong) /\ tsLog'.raised = log.raised
      /\ tsLog'.setups = log.setups /\ tsLog'.cleanups = log.cleanups + 1
      /\ (tsLog'.loadedAborted <=> log.loadedAborted)
  <2> DEFINE count == log.cleanups + 1
  <2>1. count \in Nat /\ tsLog' = [log EXCEPT !.cleanups = count]
    BY <1>2, <1>5 DEF TsLogs
  <2> HIDE DEF count
  <2>2. /\ tsLog' \in TsLogs /\ (tsLog'.wrong <=> log.wrong) /\ tsLog'.raised = log.raised
        /\ tsLog'.setups = log.setups /\ tsLog'.cleanups = count
        /\ (tsLog'.loadedAborted <=> log.loadedAborted)
    BY <1>5, <2>1 DEF TsLogs
  <2> QED BY <2>2 DEF count
<1>8. /\ tsExec.fatal => tsAborted
      /\ ~tsExec.fatal => tsExec.errors = tsLog.raised
      /\ Len(tsRuns) + 1 = tsArm /\ tsArm <= TsArms
      /\ tsLog.cleanups + 1 = tsLog.setups /\ ~tsLog.loadedAborted
      /\ tsLog.wrong <=> tsAborted \/ SomeBad \/ TsBad(tsExec)
  BY <1>2 DEF TsSweepInv, ErrorsRecorded, ArmsCounted, TsInArm, CleanedUp, WrongIsKnown, TsPending
<1>9. /\ tsLog'.cleanups = tsLog'.setups /\ ~tsLog'.loadedAborted
      /\ tsAt' \in {"threw", "finish"}
  BY <1>2, <1>5, <1>7, <1>8
<1>10. CleanedUp'
  BY <1>9 DEF CleanedUp, TsInArm
<1>11. CASE tsExec.fatal
  <2>1. tsAt' = "threw" /\ UNCHANGED tsRuns
    BY <1>2, <1>6, <1>11
  <2>2. TsTypeOK'
    BY <1>2, <1>3, <1>6, <1>7, <2>1 DEF TsTypeOK
  <2>3. WrongIsKnown' /\ ArmsCounted'
    BY <1>2, <1>8, <2>1 DEF WrongIsKnown, ArmsCounted, TsBetween, TsInArm
  <2>4. ErrorsRecorded'
    BY <1>2, <1>8, <1>11, <2>1 DEF ErrorsRecorded
  <2> QED BY <1>10, <2>2, <2>3, <2>4 DEF TsSweepInv
<1>12. CASE ~tsExec.fatal
  <2>1. tsAt' = "finish" /\ tsRuns' = Append(tsRuns, run)
    BY <1>2, <1>6, <1>12
  <2>2. run \in TsArmRuns
    BY <1>6 DEF TsExecs, TsArmRuns
  <2>3. run.errors = tsExec'.errors /\ run.stop = tsExec.stop /\ (run.interrupted <=> tsExec.interrupted)
    BY <1>6
  <2> HIDE DEF run
  <2>4. /\ tsRuns' \in Seq(TsArmRuns) /\ Len(tsRuns') = Len(tsRuns) + 1 /\ tsRuns' # << >>
        /\ DOMAIN tsRuns = 1..Len(tsRuns) /\ DOMAIN tsRuns' = 1..(Len(tsRuns) + 1)
        /\ \A i \in 1..Len(tsRuns) : tsRuns'[i] = tsRuns[i]
        /\ tsRuns'[Len(tsRuns) + 1] = run
    BY <1>3, <2>1, <2>2, Grows
  <2>5. TsTypeOK'
    BY <1>2, <1>3, <1>6, <1>7, <2>1, <2>4 DEF TsTypeOK, TsBetween
  <2>6. SomeBad' <=> SomeBad \/ TsBad(run)
    <3>1. ASSUME SomeBad PROVE SomeBad'
      BY <1>3, <2>4, <3>1 DEF SomeBad
    <3>2. ASSUME TsBad(run) PROVE SomeBad'
      <4>1. Len(tsRuns) \in Nat /\ Len(tsRuns) + 1 \in DOMAIN tsRuns'
        BY <1>3, <2>4
      <4> QED BY <2>4, <3>2, <4>1 DEF SomeBad
    <3>3. ASSUME SomeBad', ~TsBad(run) PROVE SomeBad
      BY <1>3, <2>4, <3>3 DEF SomeBad
    <3> QED BY <3>1, <3>2, <3>3
  <2>7. TsBad(run) <=> TsBad(tsExec) \/ fails
    BY <1>4, <1>6, <1>12, <2>3 DEF TsBad
  <2>8. tsLog'.wrong <=> tsLog.wrong \/ fails
    BY <1>5, <1>7
  <2>9. WrongIsKnown'
    BY <1>2, <1>8, <2>1, <2>6, <2>7, <2>8 DEF WrongIsKnown, TsPending
  <2>10. ArmsCounted'
    BY <1>2, <1>3, <1>8, <2>1, <2>4 DEF ArmsCounted, TsBetween, TsInArm
  <2>11. tsExec'.errors = tsLog'.raised
    BY <1>5, <1>6, <1>7, <1>8, <1>12 DEF more
  <2>12. ErrorsRecorded'
    BY <1>2, <1>6, <1>12, <2>1, <2>3, <2>4, <2>11 DEF ErrorsRecorded
  <2> QED BY <1>10, <2>5, <2>9, <2>10, <2>12 DEF TsSweepInv
<1> QED BY <1>11, <1>12

LEMMA TsFinishKeeps == ASSUME TsSweepInv, TsFinish PROVE TsSweepInv'
<1>1. /\ tsAt = "finish" /\ UNCHANGED <<tsArm, tsAborted, tsExec, tsRuns, tsPassed>>
      /\ \/ tsAt' = (IF tsExec.errors # << >> THEN "returning" ELSE "next") /\ UNCHANGED tsLog
         \/ tsAt' = "threw" /\ tsLog' = Rejected("finish")
  BY Zenon DEF TsFinish
<1>2. /\ TsTypeOK /\ tsLog \in TsLogs /\ tsLog.raised \in Seq(TsErrors) /\ tsRuns \in Seq(TsArmRuns)
      /\ tsExec.errors \in Seq(TsErrors)
  BY DEF TsSweepInv, TsTypeOK, TsLogs, TsExecs
<1>3. /\ tsRuns # << >> /\ tsRuns[Len(tsRuns)].errors = tsExec.errors
      /\ Len(tsRuns) = tsArm /\ tsArm <= TsArms /\ (tsExec.fatal => tsAborted)
      /\ tsLog.cleanups = tsLog.setups /\ ~tsLog.loadedAborted
  BY <1>1 DEF TsSweepInv, ErrorsRecorded, ArmsCounted, CleanedUp, TsInArm, TsBetween
<1>4. SomeBad' <=> SomeBad
  BY <1>1, TsRunsStand
<1>5. CASE tsAt' = (IF tsExec.errors # << >> THEN "returning" ELSE "next") /\ UNCHANGED tsLog
  <2>1. tsAt' \in {"returning", "next"} /\ (tsAt' = "returning" <=> tsExec.errors # << >>)
    BY <1>5
  <2>2. TsTypeOK'
    BY <1>1, <1>2, <1>5, <2>1 DEF TsTypeOK, TsBetween
  <2>3. WrongIsKnown'
    BY <1>1, <1>4, <1>5, <2>1 DEF TsSweepInv, WrongIsKnown, TsPending
  <2>4. tsExec.errors # << >> => SomeBad
    <3>1. Len(tsRuns) \in DOMAIN tsRuns
      BY <1>2, <1>3
    <3> QED BY <1>3, <3>1 DEF SomeBad, TsBad
  <2>5. ArmsCounted'
    BY <1>1, <1>3, <1>4, <2>1, <2>4 DEF ArmsCounted, TsBetween, TsInArm
  <2>6. ErrorsRecorded' /\ CleanedUp'
    BY <1>1, <1>3, <1>5, <2>1 DEF ErrorsRecorded, CleanedUp, TsInArm
  <2> QED BY <2>2, <2>3, <2>5, <2>6 DEF TsSweepInv
<1>6. CASE tsAt' = "threw" /\ tsLog' = Rejected("finish")
  <2>1. "finish" \in TsErrors
    BY DEF TsErrors
  <2>2. /\ tsLog' \in TsLogs /\ tsLog'.raised = Append(tsLog.raised, "finish")
        /\ tsLog'.cleanups = tsLog'.setups /\ ~tsLog'.loadedAborted
    BY <1>2, <1>3, <1>6, <2>1, TsRejects
  <2>3. tsLog'.raised[Len(tsLog'.raised)] = "finish"
    BY <1>2, <2>1, <2>2
  <2>4. TsTypeOK'
    BY <1>1, <1>2, <1>6, <2>2 DEF TsTypeOK
  <2>5. WrongIsKnown' /\ CleanedUp'
    BY <1>6, <2>2 DEF WrongIsKnown, CleanedUp, TsInArm
  <2>6. ArmsCounted'
    BY <1>1, <1>3, <1>6 DEF ArmsCounted, TsBetween, TsInArm
  <2>7. ErrorsRecorded'
    BY <1>1, <1>3, <1>6, <2>3 DEF ErrorsRecorded
  <2> QED BY <2>4, <2>5, <2>6, <2>7 DEF TsSweepInv
<1> QED BY <1>1, <1>5, <1>6

\* The run returns, with what it makes of its arms.
LEMMA TsReturnKeeps == ASSUME TsSweepInv, TsReturn PROVE TsSweepInv'
<1>1. /\ tsAt = "returning" /\ tsAt' = "returned"
      /\ UNCHANGED <<tsArm, tsAborted, tsExec, tsRuns, tsLog>>
  BY DEF TsReturn
<1>2. /\ tsPassed' \in BOOLEAN
      /\ tsPassed' <=> /\ ~tsAborted /\ Len(tsRuns) = TsArms
                       /\ \A i \in DOMAIN tsRuns : /\ tsRuns[i].errors = << >>
                                                   /\ tsRuns[i].stop = "deadline"
                                                   /\ ~tsRuns[i].interrupted
  BY Zenon DEF TsReturn
<1>3. tsPassed' <=> ~tsAborted /\ Len(tsRuns) = TsArms /\ ~SomeBad
  BY <1>2, Zenon DEF SomeBad, TsBad
<1>4. /\ Len(tsRuns) = tsArm /\ (tsAborted \/ tsArm = TsArms \/ SomeBad)
      /\ tsLog.wrong <=> tsAborted \/ SomeBad
  BY <1>1 DEF TsSweepInv, ArmsCounted, TsBetween, WrongIsKnown, TsPending
<1>5. SomeBad' <=> SomeBad
  BY <1>1, TsRunsStand
<1>6. TsTypeOK'
  BY <1>1, <1>2 DEF TsSweepInv, TsTypeOK, TsBetween
<1>7. WrongIsKnown'
  BY <1>1, <1>4, <1>5 DEF WrongIsKnown, TsPending
<1>8. ArmsCounted'
  BY <1>1, <1>3, <1>4 DEF TsSweepInv, ArmsCounted, TsBetween, TsInArm
<1>9. ErrorsRecorded' /\ CleanedUp'
  BY <1>1 DEF TsSweepInv, ErrorsRecorded, CleanedUp, TsInArm
<1> QED BY <1>6, <1>7, <1>8, <1>9 DEF TsSweepInv

LEMMA TsAbortKeeps == ASSUME TsSweepInv, TsAbort PROVE TsSweepInv'
<1>1. /\ tsAborted' = TRUE /\ tsAt \notin {"returning", "returned", "threw"}
      /\ tsLog' = [tsLog EXCEPT !.wrong = TRUE]
      /\ UNCHANGED <<tsAt, tsArm, tsExec, tsRuns, tsPassed>>
  BY DEF TsAbort
<1>2. /\ tsLog' \in TsLogs /\ tsLog'.wrong /\ tsLog'.raised = tsLog.raised
      /\ tsLog'.setups = tsLog.setups /\ tsLog'.cleanups = tsLog.cleanups
      /\ (tsLog'.loadedAborted <=> tsLog.loadedAborted)
  BY <1>1 DEF TsSweepInv, TsTypeOK, TsLogs
<1>3. TsTypeOK'
  BY <1>1, <1>2 DEF TsSweepInv, TsTypeOK
<1>4. WrongIsKnown' /\ CleanedUp'
  BY <1>1, <1>2 DEF TsSweepInv, WrongIsKnown, CleanedUp
<1>5. ArmsCounted' /\ ErrorsRecorded'
  BY <1>1, <1>2 DEF TsSweepInv, ArmsCounted, ErrorsRecorded
<1> QED BY <1>3, <1>4, <1>5 DEF TsSweepInv

LEMMA TsStep == TsSweepInv /\ [TsEngineNext]_tsVars => TsSweepInv'
<1> SUFFICES ASSUME TsSweepInv, [TsEngineNext]_tsVars PROVE TsSweepInv'
  OBVIOUS
<1>1. CASE UNCHANGED tsVars
  BY <1>1 DEF tsVars, TsSweepInv, TsTypeOK, WrongIsKnown, SomeBad, TsPending, ArmsCounted,
              ErrorsRecorded, CleanedUp
<1> QED
  BY <1>1, TsNextKeeps, TsHookKeeps, TsMeasuredKeeps, TsDrainedKeeps, TsJoinedKeeps,
     TsDeactivateKeeps, TsCleanupKeeps, TsFinishKeeps, TsReturnKeeps, TsAbortKeeps
  DEF TsEngineNext

\* The invariant says what a run that is over reports, and what it left.
LEMMA TsConcludes == TsSweepInv => TsRunIsTrue
BY DEF TsSweepInv, TsRunIsTrue, TsLeft, ArmsCounted, ErrorsRecorded, CleanedUp, TsBetween, TsInArm

-----------------------------------------------------------------------------
(* Python: the arms of a sweep.                                            *)

SweepStages == {"sweep", "deploy", "judge", "returning", "returned", "raising", "raised"}
ArmStages == {"setup", "waiting", "drive", "drain", "deactivate", "cooling", "ending", "join",
              "aggregate", "finish", "cleanup", "closing"}
ArmErrors == {"setup", "warmup", "hold", "cooldown", "cleanup"}
ArmExecs == [phase : ArmErrors, errors : Seq(ArmErrors), fatal : BOOLEAN, cooling : BOOLEAN,
             broken : {"no", "early", "error", "interrupted", "cancel"},
             loadPhase : ArmErrors, window : Nat, recovered : BOOLEAN, cleanup : BOOLEAN]
Observers == [state : {"none", "first", "held", "tick", "idle"} \cup Over, stop : BOOLEAN,
              start : BOOLEAN, cut : BOOLEAN]
Ticks == [up : BOOLEAN, has : BOOLEAN]

ArmTypeOK ==
    /\ stage \in SweepStages \cup ArmStages
    /\ sweep.arm \in Nat /\ sweep.passed \in BOOLEAN
    /\ sweep = [arm |-> sweep.arm, applied |-> sweep.applied, passed |-> sweep.passed]
    /\ exec \in ArmExecs /\ obs \in Observers /\ ticks \in Seq(Ticks)
    /\ trouble \in BOOLEAN /\ cancels \in Nat

\* The arm under way, or the one that was judged last.
ArmsInTurn ==
    /\ stage \in {"deploy", "setup"} => exec = FreshExec /\ obs = FreshObs
    /\ stage \in {"setup", "waiting", "drive"} =>
         sweep.applied = Resources[sweep.arm] /\ exec.broken = "no"
    /\ stage \in {"returning", "returned"} /\ sweep.passed => sweep.arm = Len(Resources)

\* The observer lives only while its arm does, and is watched.
ObserverOwned ==
    /\ stage \notin {"waiting", "drive", "drain", "deactivate", "cooling", "ending", "join"} =>
         obs.state \in Over \cup {"none"}
    /\ stage = "setup" => obs.state = "none"
    /\ stage \in {"waiting", "drive", "drain", "deactivate", "cooling", "join"} => obs.state # "none"
    /\ stage = "ending" /\ obs.state = "none" => exec.errors # << >> \/ exec.fatal
    /\ obs.state = "cancelled" => obs.cut
    /\ obs.cut => obs.state # "none"
    /\ stage \in ArmStages \ {"join", "aggregate", "finish", "cleanup", "closing"} => ~obs.cut

\* A cancellation is on its way out.
CancelPending ==
    /\ cancels > 0 =>
         \/ exec.fatal
         \/ stage = "drain" /\ exec.broken = "cancel"
         \/ stage = "join" /\ obs.cut /\ obs.state \notin {"done", "failed"}
         \/ stage \in {"raising", "raised"}
    /\ exec.fatal \/ obs.cut \/ exec.broken = "cancel" => cancels > 0
    /\ exec.fatal => stage \in {"ending", "join", "aggregate", "finish", "cleanup", "closing", "raising", "raised"}

\* Trouble is known by the sweep, by the arm or by the observer.
TroubleKnown ==
    /\ stage \in {"sweep", "deploy", "returning", "returned"} => (sweep.passed <=> ~trouble)
    /\ stage \in ArmStages \cup {"judge"} =>
         (trouble <=> \/ ~sweep.passed \/ exec.broken # "no" \/ exec.errors # << >>
                      \/ obs.state = "failed" \/ cancels > 0)
    /\ obs.state = "failed" =>
         exec.errors # << >> \/ exec.fatal
           \/ stage \in {"waiting", "drive", "drain", "deactivate", "cooling", "ending", "join"}

\* The window of a cooldown is closed behind the last tick, and nothing follows.
WindowClosed ==
    /\ stage = "cooling" => exec.cooling /\ Cooldown
    /\ stage \in {"ending", "join"} => exec.errors # << >> \/ exec.fatal \/ exec.broken # "no" \/ (exec.cooling <=> Cooldown)
    /\ stage = "aggregate" /\ exec.errors = << >> /\ ~exec.fatal /\ exec.broken = "no" /\ Cooldown =>
         exec.window = Len(ticks)
    /\ exec.recovered =>
         /\ stage \in {"finish", "cleanup", "closing"} \cup SweepStages
         /\ exec.errors = << >> /\ ~exec.fatal /\ exec.broken = "no" /\ Cooldown =>
              ticks # << >> /\ ticks[Len(ticks)].up /\ ticks[Len(ticks)].has

ArmInv == ArmTypeOK /\ ArmsInTurn /\ ObserverOwned /\ CancelPending /\ TroubleKnown /\ WindowClosed

\* The values the parts of the invariant speak about.
LEMMA ArmFacts ==
    ASSUME ArmTypeOK
    PROVE  /\ stage \in SweepStages \cup ArmStages /\ sweep.arm \in Nat /\ sweep.passed \in BOOLEAN
           /\ exec \in ArmExecs /\ exec.errors \in Seq(ArmErrors) /\ exec.fatal \in BOOLEAN
           /\ exec.phase \in ArmErrors /\ exec.loadPhase \in ArmErrors
           /\ obs \in Observers /\ obs.cut \in BOOLEAN /\ ticks \in Seq(Ticks) /\ Len(ticks) \in Nat
           /\ trouble \in BOOLEAN /\ cancels \in Nat
BY DEF ArmTypeOK, ArmExecs, Observers

LEMMA ArmRecords ==
    ASSUME NEW e \in ArmExecs, NEW phase \in ArmErrors
    PROVE  LET r == Record(e, phase) IN
           /\ r \in ArmExecs /\ r.errors # << >> /\ (r.fatal <=> e.fatal) /\ r.broken = e.broken
           /\ (r.recovered <=> e.recovered) /\ r.window = e.window
<1> DEFINE more == Append(e.errors, phase)
           r == Record(e, phase)
<1>1. more \in Seq(ArmErrors) /\ more # << >>
  BY DEF ArmExecs
<1>2. r = [e EXCEPT !.errors = more]
  BY DEF Record
<1> HIDE DEF more, r
<1>3. /\ r \in ArmExecs /\ r.errors # << >> /\ (r.fatal <=> e.fatal) /\ r.broken = e.broken
      /\ (r.recovered <=> e.recovered) /\ r.window = e.window
  BY <1>1, <1>2 DEF ArmExecs
<1> QED BY <1>3 DEF r

LEMMA ArmStarts == ArmInit => ArmInv
<1> SUFFICES ASSUME ArmInit PROVE ArmInv
  OBVIOUS
<1>1. /\ stage = "sweep" /\ sweep = [arm |-> 0, applied |-> "none", passed |-> TRUE]
      /\ exec = FreshExec /\ obs = FreshObs /\ ticks = << >> /\ cancels = 0
  BY DEF ArmInit
<1>2. trouble \in BOOLEAN /\ ~trouble
  BY Zenon DEF ArmInit
<1>3. /\ FreshExec \in ArmExecs /\ ~FreshExec.fatal /\ ~FreshExec.recovered
      /\ FreshExec.broken = "no" /\ FreshExec.errors = << >>
  BY DEF FreshExec, ArmExecs, ArmErrors
<1>4. FreshObs \in Observers /\ FreshObs.state = "none" /\ ~FreshObs.cut
  BY DEF FreshObs, Observers
<1>5. ArmTypeOK
  BY <1>1, <1>2, <1>3, <1>4 DEF ArmTypeOK, SweepStages
<1>6. ArmsInTurn /\ ObserverOwned /\ CancelPending
  BY <1>1, <1>3, <1>4 DEF ArmsInTurn, ObserverOwned, CancelPending, ArmStages, Over
<1>7. TroubleKnown /\ WindowClosed
  BY <1>1, <1>2, <1>3, <1>4 DEF TroubleKnown, WindowClosed, ArmStages, SweepStages
<1> QED BY <1>5, <1>6, <1>7 DEF ArmInv

\* Between the arms.
LEMMA NextArmKeeps == ASSUME ArmInv, NextArm PROVE ArmInv'
<1>1. /\ stage = "sweep" /\ sweep' = [sweep EXCEPT !.arm = @ + 1]
      /\ stage' = IF sweep.applied = Resources[sweep.arm + 1] THEN "setup" ELSE "deploy"
      /\ exec' = FreshExec /\ obs' = FreshObs /\ ticks' = << >>
      /\ UNCHANGED <<trouble, cancels>>
  BY DEF NextArm, Deployed
<1>2. ArmTypeOK
  BY DEF ArmInv
<1>3. /\ sweep'.arm = sweep.arm + 1 /\ sweep'.applied = sweep.applied /\ sweep'.passed = sweep.passed
      /\ sweep' = [arm |-> sweep'.arm, applied |-> sweep'.applied, passed |-> sweep'.passed]
      /\ sweep'.arm \in Nat /\ sweep'.passed \in BOOLEAN
  BY <1>1, <1>2 DEF ArmTypeOK
<1>4. /\ FreshExec \in ArmExecs /\ ~FreshExec.fatal /\ ~FreshExec.recovered
      /\ FreshExec.broken = "no" /\ FreshExec.errors = << >>
  BY DEF FreshExec, ArmExecs, ArmErrors
<1>5. FreshObs \in Observers /\ FreshObs.state = "none" /\ ~FreshObs.cut
  BY DEF FreshObs, Observers
<1>6. /\ stage' \in {"setup", "deploy"} /\ (sweep.passed <=> ~trouble)
      /\ stage' = "setup" => sweep'.applied = Resources[sweep'.arm]
  BY <1>1, <1>3 DEF ArmInv, TroubleKnown
<1>7. cancels = 0
  BY <1>1, <1>2 DEF ArmInv, CancelPending, ArmTypeOK
<1>8. ArmTypeOK'
  BY <1>1, <1>2, <1>3, <1>4, <1>5, <1>6 DEF ArmTypeOK, ArmStages, SweepStages
<1>9. ArmsInTurn' /\ ObserverOwned'
  BY <1>1, <1>4, <1>5, <1>6 DEF ArmsInTurn, ObserverOwned
<1>10. CancelPending' /\ WindowClosed'
  BY <1>1, <1>4, <1>5, <1>6, <1>7 DEF CancelPending, WindowClosed
<1>11. TroubleKnown'
  BY <1>1, <1>3, <1>4, <1>5, <1>6, <1>7 DEF TroubleKnown
<1> QED BY <1>8, <1>9, <1>10, <1>11 DEF ArmInv

LEMMA DeployKeeps == ASSUME ArmInv, Deploy PROVE ArmInv'
<1>1. /\ stage = "deploy" /\ UNCHANGED <<exec, obs, ticks, cancels>>
      /\ \/ /\ stage' = "setup" /\ sweep' = [sweep EXCEPT !.applied = Resources[sweep.arm]]
            /\ UNCHANGED trouble
         \/ stage' = "raising" /\ trouble' = TRUE /\ UNCHANGED sweep
  BY Zenon DEF Deploy
<1>2. ArmTypeOK
  BY DEF ArmInv
<1>3. /\ sweep' = [arm |-> sweep'.arm, applied |-> sweep'.applied, passed |-> sweep'.passed]
      /\ sweep'.arm = sweep.arm /\ sweep'.passed = sweep.passed
      /\ stage' = "setup" => sweep'.applied = Resources[sweep'.arm] /\ UNCHANGED trouble
      /\ stage' \in {"setup", "raising"} /\ trouble' \in BOOLEAN
  BY <1>1, <1>2 DEF ArmTypeOK
<1>4. /\ exec = FreshExec /\ obs = FreshObs /\ (sweep.passed <=> ~trouble)
  BY <1>1 DEF ArmInv, ArmsInTurn, TroubleKnown
<1>5. /\ ~exec.fatal /\ ~exec.recovered /\ exec.broken = "no" /\ exec.errors = << >>
      /\ obs.state = "none" /\ ~obs.cut
  BY <1>4 DEF FreshExec, FreshObs
<1>6. cancels = 0
  BY <1>1, <1>2, <1>5 DEF ArmInv, CancelPending, ArmTypeOK
<1>7. ArmTypeOK'
  BY <1>1, <1>2, <1>3 DEF ArmTypeOK, ArmStages, SweepStages
<1>8. ArmsInTurn' /\ ObserverOwned'
  BY <1>1, <1>3, <1>4, <1>5 DEF ArmsInTurn, ObserverOwned, ArmStages
<1>9. CancelPending' /\ WindowClosed'
  BY <1>1, <1>3, <1>5, <1>6 DEF CancelPending, WindowClosed
<1>10. TroubleKnown'
  BY <1>1, <1>3, <1>4, <1>5, <1>6 DEF TroubleKnown, ArmStages
<1> QED BY <1>7, <1>8, <1>9, <1>10 DEF ArmInv

LEMMA JudgeKeeps == ASSUME ArmInv, Judge PROVE ArmInv'
<1>1. PICK slo \in BOOLEAN :
         /\ slo => exec.errors = << >>
         /\ sweep' = [sweep EXCEPT !.passed = @ /\ ~Failed(slo)]
         /\ trouble' = (trouble \/ slo)
         /\ stage' = IF exec.errors # << >> \/ (AbortOnFail /\ Failed(slo))
                     THEN "returning" ELSE "sweep"
  BY Zenon DEF Judge
<1>2. stage = "judge" /\ UNCHANGED <<exec, obs, ticks, cancels>>
  BY DEF Judge
<1>3. ArmTypeOK
  BY DEF ArmInv
<1>4. Failed(slo) \in BOOLEAN /\ (Failed(slo) <=> exec.broken # "no" \/ exec.errors # << >> \/ slo)
  BY Zenon DEF Failed
<1> DEFINE failed == Failed(slo)
<1>5. /\ sweep' = [arm |-> sweep'.arm, applied |-> sweep'.applied, passed |-> sweep'.passed]
      /\ sweep'.arm = sweep.arm /\ sweep'.passed \in BOOLEAN
      /\ sweep'.passed <=> sweep.passed /\ ~failed
  <2> HIDE DEF failed
  <2> QED BY <1>1, <1>3, <1>4 DEF ArmTypeOK, failed
<1>6. /\ stage' \in {"returning", "sweep"} /\ (stage' = "returning" => failed)
      /\ trouble' \in BOOLEAN /\ (trouble' <=> trouble \/ slo)
  BY <1>1, <1>3, <1>4 DEF ArmTypeOK
<1> HIDE DEF failed
<1>7. cancels = 0 /\ ~exec.fatal /\ ~obs.cut /\ exec.broken # "cancel"
  BY <1>2, <1>3 DEF ArmInv, CancelPending, ArmTypeOK
<1>8. sweep'.passed <=> ~trouble'
  <2>1. trouble <=> ~sweep.passed \/ exec.broken # "no" \/ exec.errors # << >> \/ obs.state = "failed"
    BY <1>2, <1>7 DEF ArmInv, TroubleKnown
  <2>2. obs.state = "failed" => exec.errors # << >>
    BY <1>2, <1>7 DEF ArmInv, TroubleKnown
  <2> QED BY <1>4, <1>5, <1>6, <2>1, <2>2 DEF failed
<1>9. ArmTypeOK'
  BY <1>2, <1>3, <1>5, <1>6 DEF ArmTypeOK, ArmStages, SweepStages
<1>10. ArmsInTurn' /\ ObserverOwned'
  BY <1>2, <1>5, <1>6 DEF ArmInv, ArmsInTurn, ObserverOwned, ArmStages
<1>11. CancelPending' /\ WindowClosed'
  BY <1>2, <1>6, <1>7 DEF ArmInv, CancelPending, WindowClosed, SweepStages
<1>12. TroubleKnown'
  BY <1>2, <1>6, <1>7, <1>8 DEF ArmInv, TroubleKnown, ArmStages
<1> QED BY <1>9, <1>10, <1>11, <1>12 DEF ArmInv

\* The sweep ends, or a run does: only where the owner stands changes.
LEMMA ArmLeaves ==
    ASSUME ArmInv, SweepEnds \/ Teardown \/ Close
    PROVE  ArmInv'
<1>1. /\ UNCHANGED <<sweep, exec, obs, ticks, trouble, cancels>>
      /\ \/ stage = "sweep" /\ sweep.arm = Len(Resources) /\ stage' = "returning"
         \/ stage = "returning" /\ stage' \in {"returned", "raised"}
         \/ stage = "raising" /\ stage' = "raised"
         \/ stage = "closing" /\ exec.fatal /\ stage' = "raising"
         \/ stage = "closing" /\ ~exec.fatal /\ stage' = "judge"
  BY DEF SweepEnds, Teardown, Close
<1>2. ArmTypeOK'
  BY <1>1 DEF ArmInv, ArmTypeOK, SweepStages
<1>3. ArmsInTurn'
  BY <1>1 DEF ArmInv, ArmsInTurn
<1>4. ObserverOwned'
  BY <1>1 DEF ArmInv, ObserverOwned, ArmStages
<1>5. CancelPending'
  BY <1>1 DEF ArmInv, CancelPending
<1>6. TroubleKnown'
  BY <1>1 DEF ArmInv, TroubleKnown, ArmStages
<1>7. WindowClosed'
  BY <1>1 DEF ArmInv, WindowClosed, SweepStages
<1> QED BY <1>2, <1>3, <1>4, <1>5, <1>6, <1>7 DEF ArmInv

\* The observer.
LEMMA TickBeginsKeeps == ASSUME ArmInv, TickBegins PROVE ArmInv'
<1>1. /\ ~obs.cut /\ obs.state \in {"held", "idle"}
      /\ obs' = [obs EXCEPT !.state = "tick"]
      /\ \/ UNCHANGED ticks
         \/ \E t \in Ticks : ticks' = Append(ticks, t)
      /\ UNCHANGED <<stage, sweep, exec, trouble, cancels>>
  BY Zenon DEF TickBegins, Ticks
<1>2. ArmTypeOK
  BY DEF ArmInv
<1>3. obs' \in Observers /\ obs'.state = "tick" /\ (obs'.cut <=> obs.cut)
  BY <1>1, <1>2 DEF ArmTypeOK, Observers
<1>4. ticks' \in Seq(Ticks)
  <2>1. ASSUME NEW t \in Ticks, ticks' = Append(ticks, t) PROVE ticks' \in Seq(Ticks)
    BY <1>2, <2>1 DEF ArmTypeOK
  <2> QED BY <1>1, <1>2, <2>1 DEF ArmTypeOK
<1>5. stage \in {"waiting", "drive", "drain", "deactivate", "cooling", "ending", "join"}
  BY <1>1 DEF ArmInv, ObserverOwned, Over
<1>6. ArmTypeOK'
  BY <1>1, <1>2, <1>3, <1>4 DEF ArmTypeOK
<1>7. ArmsInTurn' /\ ObserverOwned'
  BY <1>1, <1>3, <1>5 DEF ArmInv, ArmsInTurn, ObserverOwned
<1>8. CancelPending'
  BY <1>1, <1>3, <1>5 DEF ArmInv, CancelPending
<1>9. TroubleKnown'
  BY <1>1, <1>3 DEF ArmInv, TroubleKnown
<1>10. WindowClosed'
  BY <1>1, <1>5 DEF ArmInv, WindowClosed, SweepStages
<1> QED BY <1>6, <1>7, <1>8, <1>9, <1>10 DEF ArmInv

LEMMA TickEndsKeeps == ASSUME ArmInv, TickEnds PROVE ArmInv'
<1>1. /\ ~obs.cut /\ obs.state \in {"first", "tick"}
      /\ \/ obs' = [obs EXCEPT !.state = AfterTick] /\ UNCHANGED trouble
         \/ obs' = [obs EXCEPT !.state = "failed"] /\ trouble' = TRUE
      /\ UNCHANGED <<stage, sweep, exec, ticks, cancels>>
  BY Zenon DEF TickEnds
<1>2. ArmTypeOK
  BY DEF ArmInv
<1>3. AfterTick \in {"held", "done", "idle"}
  BY DEF AfterTick
<1>4. /\ obs' \in Observers /\ obs'.state \in {"held", "done", "idle", "failed"} /\ (obs'.cut <=> obs.cut)
      /\ obs'.state = "failed" => trouble' = TRUE
      /\ obs'.state # "failed" => UNCHANGED trouble
  BY <1>1, <1>2, <1>3 DEF ArmTypeOK, Observers, Over
<1>5. stage \in {"waiting", "drive", "drain", "deactivate", "cooling", "ending", "join"}
  BY <1>1 DEF ArmInv, ObserverOwned, Over
<1>6. ArmTypeOK'
  BY <1>1, <1>2, <1>4 DEF ArmTypeOK
<1>7. ArmsInTurn' /\ ObserverOwned'
  BY <1>1, <1>4, <1>5 DEF ArmInv, ArmsInTurn, ObserverOwned
<1>8. CancelPending'
  BY <1>1, <1>4, <1>5 DEF ArmInv, CancelPending
<1>9. TroubleKnown'
  BY <1>1, <1>4, <1>5 DEF ArmInv, TroubleKnown
<1>10. WindowClosed'
  BY <1>1, <1>5 DEF ArmInv, WindowClosed, SweepStages
<1> QED BY <1>6, <1>7, <1>8, <1>9, <1>10 DEF ArmInv

LEMMA ObserverCutKeeps == ASSUME ArmInv, ObserverCut PROVE ArmInv'
<1>1. /\ obs.cut /\ obs.state \notin Over /\ obs' = [obs EXCEPT !.state = "cancelled"]
      /\ UNCHANGED <<stage, sweep, exec, ticks, trouble, cancels>>
  BY DEF ObserverCut
<1>2. ArmTypeOK
  BY DEF ArmInv
<1>3. obs' \in Observers /\ obs'.state = "cancelled" /\ obs'.cut
  BY <1>1, <1>2 DEF ArmTypeOK, Observers, Over
<1>4. stage = "join"
  BY <1>1 DEF ArmInv, ObserverOwned, ArmStages
<1>5. ArmTypeOK'
  BY <1>1, <1>2, <1>3 DEF ArmTypeOK
<1>6. ArmsInTurn' /\ ObserverOwned' /\ CancelPending'
  BY <1>1, <1>3, <1>4 DEF ArmInv, ArmsInTurn, ObserverOwned, CancelPending
<1>7. TroubleKnown'
  BY <1>1, <1>3 DEF ArmInv, TroubleKnown, Over
<1>8. WindowClosed'
  BY <1>1, <1>4 DEF ArmInv, WindowClosed, SweepStages
<1> QED BY <1>5, <1>6, <1>7, <1>8 DEF ArmInv

\* An await of the arm raises: the record tells, and the finally clause follows.
LEMMA RaiseKeeps ==
    ASSUME ArmInv, stage \in {"setup", "waiting", "deactivate"}, NEW phase \in ArmErrors,
           Raise(phase), UNCHANGED <<sweep, obs, ticks, cancels>>
    PROVE  ArmInv'
<1>1. exec' = Record(exec, phase) /\ stage' = "ending" /\ trouble' = TRUE
  BY DEF Raise
<1>2. ArmTypeOK /\ exec \in ArmExecs
  BY DEF ArmInv, ArmTypeOK
<1>3. /\ exec' \in ArmExecs /\ exec'.errors # << >> /\ (exec'.fatal <=> exec.fatal)
      /\ exec'.broken = exec.broken /\ (exec'.recovered <=> exec.recovered)
  BY <1>1, <1>2, ArmRecords
<1>4. ArmTypeOK'
  BY <1>1, <1>2, <1>3 DEF ArmTypeOK, ArmStages
<1>5. ArmsInTurn' /\ CancelPending'
  BY <1>1, <1>3 DEF ArmInv, ArmsInTurn, CancelPending
<1>6. ObserverOwned'
  BY <1>1, <1>3 DEF ArmInv, ObserverOwned, ArmStages
<1>7. TroubleKnown'
  BY <1>1, <1>3 DEF ArmInv, TroubleKnown
<1>8. WindowClosed'
  BY <1>1, <1>3 DEF ArmInv, WindowClosed, SweepStages
<1> QED BY <1>4, <1>5, <1>6, <1>7, <1>8 DEF ArmInv

LEMMA SetupKeeps == ASSUME ArmInv, Setup PROVE ArmInv'
<1>1. /\ stage = "setup" /\ UNCHANGED <<sweep, ticks, cancels>>
      /\ \/ /\ stage' = "waiting" /\ exec' = [exec EXCEPT !.phase = "warmup"]
            /\ obs' = [obs EXCEPT !.state = "first"] /\ UNCHANGED trouble
         \/ Raise("setup") /\ UNCHANGED obs
  BY Zenon DEF Setup
<1>2. CASE Raise("setup") /\ UNCHANGED obs
  BY <1>1, <1>2, RaiseKeeps DEF ArmErrors
<1>3. CASE /\ stage' = "waiting" /\ exec' = [exec EXCEPT !.phase = "warmup"]
           /\ obs' = [obs EXCEPT !.state = "first"] /\ UNCHANGED trouble
  <2>1. ArmTypeOK
    BY DEF ArmInv
  <2>2. /\ exec' \in ArmExecs /\ exec'.errors = exec.errors /\ (exec'.fatal <=> exec.fatal)
        /\ exec'.broken = exec.broken /\ (exec'.recovered <=> exec.recovered)
    BY <1>3, <2>1 DEF ArmTypeOK, ArmExecs, ArmErrors
  <2>3. obs' \in Observers /\ obs'.state = "first" /\ (obs'.cut <=> obs.cut)
    BY <1>3, <2>1 DEF ArmTypeOK, Observers
  <2>4. obs.state = "none" /\ ~obs.cut
    BY <1>1 DEF ArmInv, ArmsInTurn, FreshObs
  <2>5. ArmTypeOK'
    BY <1>1, <1>3, <2>1, <2>2, <2>3 DEF ArmTypeOK, ArmStages
  <2>6. ArmsInTurn' /\ ObserverOwned' /\ CancelPending'
    BY <1>1, <1>3, <2>2, <2>3, <2>4 DEF ArmInv, ArmsInTurn, ObserverOwned, CancelPending
  <2>7. TroubleKnown'
    BY <1>1, <1>3, <2>2, <2>3, <2>4 DEF ArmInv, TroubleKnown, ArmStages
  <2>8. WindowClosed'
    BY <1>1, <1>3, <2>2 DEF ArmInv, WindowClosed, SweepStages
  <2> QED BY <2>5, <2>6, <2>7, <2>8 DEF ArmInv
<1> QED BY <1>1, <1>2, <1>3

LEMMA WaitKeeps == ASSUME ArmInv, Wait PROVE ArmInv'
<1>1. /\ stage = "waiting" /\ obs.state # "first" /\ UNCHANGED <<sweep, ticks, cancels>>
      /\ IF obs.state = "failed" THEN Raise(exec.loadPhase) /\ UNCHANGED obs
         ELSE stage' = "drive" /\ obs' = [obs EXCEPT !.start = TRUE] /\ UNCHANGED <<exec, trouble>>
  BY DEF Wait
<1>2. ArmTypeOK /\ exec.loadPhase \in ArmErrors
  BY DEF ArmInv, ArmTypeOK, ArmExecs
<1>3. CASE obs.state = "failed"
  BY <1>1, <1>2, <1>3, RaiseKeeps
<1>4. CASE obs.state # "failed"
  <2>1. stage' = "drive" /\ obs' = [obs EXCEPT !.start = TRUE] /\ UNCHANGED <<exec, trouble>>
    BY <1>1, <1>4
  <2>2. obs' \in Observers /\ obs'.state = obs.state /\ (obs'.cut <=> obs.cut)
    BY <1>2, <2>1 DEF ArmTypeOK, Observers
  <2>3. ArmTypeOK'
    BY <1>1, <1>2, <2>1, <2>2 DEF ArmTypeOK, ArmStages
  <2>4. ArmsInTurn' /\ CancelPending'
    BY <1>1, <2>1, <2>2 DEF ArmInv, ArmsInTurn, CancelPending
  <2>5. ObserverOwned'
    BY <1>1, <2>1, <2>2 DEF ArmInv, ObserverOwned, ArmStages
  <2>6. TroubleKnown'
    BY <1>1, <1>4, <2>1, <2>2 DEF ArmInv, TroubleKnown, ArmStages
  <2>7. WindowClosed'
    BY <1>1, <2>1 DEF ArmInv, WindowClosed, SweepStages
  <2> QED BY <2>3, <2>4, <2>5, <2>6, <2>7 DEF ArmInv
<1> QED BY <1>3, <1>4

\* The load.
LEMMA MeasuredKeeps == ASSUME ArmInv, Measured PROVE ArmInv'
<1>1. PICK broken \in {"no", "early", "error"} :
         /\ exec' = [exec EXCEPT !.broken = broken, !.window = Open, !.loadPhase =
                        IF broken = "error" THEN "hold" ELSE "cooldown"]
         /\ trouble' = (trouble \/ broken # "no")
  BY Zenon DEF Measured
<1>2. stage = "drive" /\ stage' = "drain" /\ UNCHANGED <<sweep, obs, ticks, cancels>>
  BY DEF Measured
<1>3. ArmTypeOK
  BY DEF ArmInv
<1>4. Open \in Nat
  BY ArmBounds DEF Open
<1>5. /\ exec' \in ArmExecs /\ exec'.errors = exec.errors /\ (exec'.fatal <=> exec.fatal)
      /\ exec'.broken = broken /\ (exec'.recovered <=> exec.recovered)
  BY <1>1, <1>3, <1>4 DEF ArmTypeOK, ArmExecs, ArmErrors
<1>6. trouble' \in BOOLEAN /\ (trouble' <=> trouble \/ broken # "no")
  BY <1>1, <1>3 DEF ArmTypeOK
<1>7. exec.broken = "no" /\ ~obs.cut
  BY <1>2 DEF ArmInv, ArmsInTurn, ObserverOwned, ArmStages
<1>8. ArmTypeOK'
  BY <1>2, <1>3, <1>5, <1>6 DEF ArmTypeOK, ArmStages
<1>9. ArmsInTurn' /\ ObserverOwned'
  BY <1>2 DEF ArmInv, ArmsInTurn, ObserverOwned, ArmStages
<1>10. CancelPending'
  BY <1>2, <1>5, <1>7 DEF ArmInv, CancelPending
<1>11. TroubleKnown'
  BY <1>2, <1>5, <1>6, <1>7 DEF ArmInv, TroubleKnown, ArmStages
<1>12. WindowClosed'
  BY <1>2, <1>5 DEF ArmInv, WindowClosed, SweepStages
<1> QED BY <1>8, <1>9, <1>10, <1>11, <1>12 DEF ArmInv

LEMMA DrainedKeeps == ASSUME ArmInv, Drained PROVE ArmInv'
<1>1. PICK late \in {"no", "interrupted", "error"} :
       LET closed == [exec EXCEPT !.window = Len(ticks),
                                  !.broken = IF @ = "no" THEN late ELSE @] IN
         /\ trouble' = (trouble \/ late # "no")
         /\ CASE exec.broken = "cancel" ->
                   exec' = [closed EXCEPT !.fatal = TRUE] /\ stage' = "ending"
              [] exec.broken = "error" \/ (exec.broken # "cancel" /\ late = "error") ->
                   exec' = Record([closed EXCEPT !.phase = exec.loadPhase], exec.loadPhase)
                   /\ stage' = "ending"
              [] OTHER ->
                   exec' = [closed EXCEPT !.phase = "cooldown"] /\ stage' = "deactivate"
  BY Zenon DEF Drained
<1> DEFINE closed == [exec EXCEPT !.window = Len(ticks), !.broken = IF @ = "no" THEN late ELSE @]
           noted == [closed EXCEPT !.phase = exec.loadPhase]
<1>2. stage = "drain" /\ UNCHANGED <<sweep, obs, ticks, cancels>>
  BY DEF Drained
<1>3. ArmTypeOK /\ exec \in ArmExecs /\ exec.loadPhase \in ArmErrors /\ Len(ticks) \in Nat
  BY ArmFacts DEF ArmInv
<1>4. /\ closed \in ArmExecs /\ closed.errors = exec.errors /\ (closed.fatal <=> exec.fatal)
      /\ closed.broken = (IF exec.broken = "no" THEN late ELSE exec.broken)
      /\ (closed.recovered <=> exec.recovered)
  BY <1>3 DEF ArmExecs
<1>5. /\ trouble' = (trouble \/ late # "no")
      /\ CASE exec.broken = "cancel" -> exec' = [closed EXCEPT !.fatal = TRUE] /\ stage' = "ending"
           [] exec.broken = "error" \/ (exec.broken # "cancel" /\ late = "error") ->
                exec' = Record(noted, exec.loadPhase) /\ stage' = "ending"
           [] OTHER -> exec' = [closed EXCEPT !.phase = "cooldown"] /\ stage' = "deactivate"
  BY <1>1
<1> HIDE DEF closed
<1>6. /\ noted \in ArmExecs /\ noted.errors = closed.errors /\ (noted.fatal <=> closed.fatal)
      /\ noted.broken = closed.broken /\ (noted.recovered <=> closed.recovered)
  BY <1>3, <1>4 DEF ArmExecs
<1> HIDE DEF noted
<1>7. trouble' \in BOOLEAN /\ (trouble' <=> trouble \/ late # "no")
  BY <1>3, <1>5 DEF ArmTypeOK
<1>8. /\ ~exec.fatal /\ ~exec.recovered /\ ~obs.cut /\ obs.state # "none"
      /\ exec.broken # "cancel" => cancels = 0
      /\ exec.broken = "cancel" => cancels > 0
      /\ trouble <=> \/ ~sweep.passed \/ exec.broken # "no" \/ exec.errors # << >>
                     \/ obs.state = "failed" \/ cancels > 0
  BY <1>2, <1>3 DEF ArmInv, CancelPending, WindowClosed, TroubleKnown, ObserverOwned, ArmStages,
                    SweepStages, ArmTypeOK
<1>9. /\ exec' \in ArmExecs /\ exec'.broken = closed.broken /\ ~exec'.recovered
      /\ stage' \in {"ending", "deactivate"}
      /\ stage' = "ending" => exec'.errors # << >> \/ exec'.fatal
      /\ stage' = "deactivate" => exec'.errors = exec.errors /\ exec.broken # "cancel"
      /\ exec'.fatal <=> exec.broken = "cancel"
      /\ exec.broken = "cancel" => stage' = "ending"
      /\ exec'.errors # << >> => exec.errors # << >> \/ exec'.broken # "no"
      /\ exec.errors # << >> => exec'.errors # << >>
  <2>1. CASE exec.broken = "cancel"
    <3>1. exec' = [closed EXCEPT !.fatal = TRUE] /\ stage' = "ending"
      BY <1>5, <2>1
    <3> QED BY <1>4, <1>8, <2>1, <3>1 DEF ArmExecs
  <2>2. CASE exec.broken # "cancel" /\ (exec.broken = "error" \/ late = "error")
    <3>1. exec' = Record(noted, exec.loadPhase) /\ stage' = "ending"
      BY <1>5, <2>2
    <3>2. /\ exec' \in ArmExecs /\ exec'.errors # << >> /\ (exec'.fatal <=> noted.fatal)
          /\ exec'.broken = noted.broken /\ (exec'.recovered <=> noted.recovered)
      BY <1>3, <1>6, <3>1, ArmRecords
    <3>3. exec'.broken # "no"
      BY <1>4, <1>6, <2>2, <3>2
    <3> QED BY <1>4, <1>6, <1>8, <2>2, <3>1, <3>2, <3>3
  <2>3. CASE exec.broken # "cancel" /\ ~(exec.broken = "error" \/ late = "error")
    <3>1. exec' = [closed EXCEPT !.phase = "cooldown"] /\ stage' = "deactivate"
      BY <1>5, <2>3
    <3> QED BY <1>4, <1>8, <2>3, <3>1 DEF ArmExecs, ArmErrors
  <2> QED BY <2>1, <2>2, <2>3
<1>10. ArmTypeOK'
  BY <1>2, <1>3, <1>7, <1>9 DEF ArmTypeOK, ArmStages
<1>11. ArmsInTurn' /\ CancelPending'
  BY <1>2, <1>4, <1>8, <1>9 DEF ArmInv, ArmsInTurn, CancelPending
<1>12. ObserverOwned'
  BY <1>2, <1>8, <1>9 DEF ArmInv, ObserverOwned, ArmStages
<1>13. trouble' <=> \/ ~sweep.passed \/ exec'.broken # "no" \/ exec'.errors # << >>
                    \/ obs.state = "failed" \/ cancels > 0
  BY <1>4, <1>7, <1>8, <1>9
<1>14. TroubleKnown'
  BY <1>2, <1>9, <1>13 DEF TroubleKnown, ArmStages
<1>15. WindowClosed'
  BY <1>9 DEF WindowClosed
<1> QED BY <1>10, <1>11, <1>12, <1>14, <1>15 DEF ArmInv

\* The way to the finally clause, and the finally clause.
LEMMA DeactivateKeeps == ASSUME ArmInv, Deactivate PROVE ArmInv'
<1>1. /\ stage = "deactivate" /\ UNCHANGED <<sweep, obs, ticks, cancels>>
      /\ \/ /\ stage' = IF Cooldown THEN "cooling" ELSE "ending"
            /\ exec' = [exec EXCEPT !.cooling = Cooldown] /\ UNCHANGED trouble
         \/ Raise("cooldown")
  BY Zenon DEF Deactivate
<1>2. CASE Raise("cooldown")
  BY <1>1, <1>2, RaiseKeeps DEF ArmErrors
<1>3. CASE /\ stage' = IF Cooldown THEN "cooling" ELSE "ending"
           /\ exec' = [exec EXCEPT !.cooling = Cooldown] /\ UNCHANGED trouble
  <2>1. ArmTypeOK
    BY DEF ArmInv
  <2>2. /\ exec' \in ArmExecs /\ exec'.errors = exec.errors /\ (exec'.fatal <=> exec.fatal)
        /\ exec'.broken = exec.broken /\ (exec'.recovered <=> exec.recovered)
        /\ (exec'.cooling <=> Cooldown)
    BY <1>3, <2>1, ArmBounds DEF ArmTypeOK, ArmExecs
  <2>3. stage' \in {"cooling", "ending"} /\ (stage' = "cooling" => Cooldown)
    BY <1>3
  <2>4. ArmTypeOK'
    BY <1>1, <1>3, <2>1, <2>2, <2>3 DEF ArmTypeOK, ArmStages
  <2>5. ArmsInTurn' /\ CancelPending'
    BY <1>1, <2>2, <2>3 DEF ArmInv, ArmsInTurn, CancelPending
  <2>6. ObserverOwned'
    BY <1>1, <2>2, <2>3 DEF ArmInv, ObserverOwned, ArmStages
  <2>7. TroubleKnown'
    BY <1>1, <1>3, <2>2, <2>3 DEF ArmInv, TroubleKnown, ArmStages
  <2>8. WindowClosed'
    BY <1>1, <2>2, <2>3 DEF ArmInv, WindowClosed, SweepStages
  <2> QED BY <2>4, <2>5, <2>6, <2>7, <2>8 DEF ArmInv
<1> QED BY <1>1, <1>2, <1>3

LEMMA CooledKeeps == ASSUME ArmInv, Cooled PROVE ArmInv'
<1>1. /\ stage = "cooling" /\ stage' = "ending"
      /\ UNCHANGED <<sweep, exec, obs, ticks, trouble, cancels>>
  BY DEF Cooled
<1>2. ArmTypeOK' /\ ArmsInTurn' /\ CancelPending'
  BY <1>1 DEF ArmInv, ArmTypeOK, ArmStages, ArmsInTurn, CancelPending
<1>3. ObserverOwned' /\ TroubleKnown'
  BY <1>1 DEF ArmInv, ObserverOwned, TroubleKnown, ArmStages
<1>4. WindowClosed'
  BY <1>1 DEF ArmInv, WindowClosed, SweepStages
<1> QED BY <1>2, <1>3, <1>4 DEF ArmInv

LEMMA EndKeeps == ASSUME ArmInv, End PROVE ArmInv'
<1>1. /\ stage = "ending" /\ UNCHANGED <<sweep, exec, ticks, trouble, cancels>>
      /\ IF obs.state = "none" THEN stage' = "aggregate" /\ UNCHANGED obs
         ELSE /\ stage' = "join"
              /\ obs' = [obs EXCEPT !.stop = TRUE, !.start = TRUE, !.cut = exec.fatal]
  BY DEF End
<1>2. ArmTypeOK /\ exec.fatal \in BOOLEAN
  BY ArmFacts DEF ArmInv
<1>3. ~obs.cut
  BY <1>1 DEF ArmInv, ObserverOwned, ArmStages
<1>4. /\ obs' \in Observers /\ obs'.state = obs.state
      /\ stage' = "aggregate" => obs.state = "none" /\ ~obs'.cut
      /\ stage' = "join" => obs.state # "none" /\ (obs'.cut <=> exec.fatal)
      /\ stage' \in {"aggregate", "join"}
  BY <1>1, <1>2, <1>3 DEF ArmTypeOK, Observers
<1>5. ArmTypeOK'
  BY <1>1, <1>2, <1>4 DEF ArmTypeOK, ArmStages
<1>6. ArmsInTurn' /\ CancelPending'
  BY <1>1, <1>3, <1>4 DEF ArmInv, ArmsInTurn, CancelPending
<1>7. ObserverOwned'
  BY <1>1, <1>3, <1>4 DEF ArmInv, ObserverOwned, ArmStages
<1>8. TroubleKnown'
  BY <1>1, <1>4 DEF ArmInv, TroubleKnown, ArmStages
<1>9. WindowClosed'
  <2>1. stage' = "aggregate" => exec.errors # << >> \/ exec.fatal
    BY <1>1, <1>4 DEF ArmInv, ObserverOwned
  <2> QED BY <1>1, <1>4, <2>1 DEF ArmInv, WindowClosed, SweepStages
<1> QED BY <1>5, <1>6, <1>7, <1>8, <1>9 DEF ArmInv

LEMMA JoinKeeps == ASSUME ArmInv, Join PROVE ArmInv'
<1>1. /\ stage = "join" /\ obs.state \in Over /\ stage' = "aggregate"
      /\ exec' = CASE obs.state = "failed" -> Record(exec, exec.phase)
                   [] obs.state = "cancelled" -> [exec EXCEPT !.fatal = TRUE]
                   [] OTHER -> [exec EXCEPT !.window = IF exec.cooling THEN Len(ticks) ELSE @]
      /\ UNCHANGED <<sweep, obs, ticks, trouble, cancels>>
  BY DEF Join
<1>2. ArmTypeOK /\ exec \in ArmExecs /\ exec.phase \in ArmErrors /\ Len(ticks) \in Nat
  BY ArmFacts DEF ArmInv
<1>3. /\ exec' \in ArmExecs /\ exec'.broken = exec.broken /\ (exec'.recovered <=> exec.recovered)
      /\ obs.state = "failed" => exec'.errors # << >> /\ (exec'.fatal <=> exec.fatal)
      /\ obs.state = "cancelled" => exec'.errors = exec.errors /\ exec'.fatal
      /\ obs.state = "done" => /\ exec'.errors = exec.errors /\ (exec'.fatal <=> exec.fatal)
                               /\ exec.cooling => exec'.window = Len(ticks)
  <2>1. CASE obs.state = "failed"
    BY <1>1, <1>2, <2>1, ArmRecords
  <2>2. CASE obs.state = "cancelled"
    <3>1. exec' = [exec EXCEPT !.fatal = TRUE]
      BY <1>1, <2>2
    <3> QED BY <1>2, <2>2, <3>1 DEF ArmExecs
  <2>3. CASE obs.state = "done"
    <3>1. exec' = [exec EXCEPT !.window = IF exec.cooling THEN Len(ticks) ELSE @]
      BY <1>1, <2>3
    <3> QED BY <1>2, <2>3, <3>1 DEF ArmExecs
  <2> QED BY <1>1, <2>1, <2>2, <2>3 DEF Over
<1>4. obs.state \in {"failed", "cancelled", "done"}
  BY <1>1 DEF Over
<1>5. ArmTypeOK'
  BY <1>1, <1>2, <1>3 DEF ArmTypeOK, ArmStages
<1>6. ArmsInTurn' /\ ObserverOwned'
  BY <1>1 DEF ArmInv, ArmsInTurn, ObserverOwned, ArmStages
<1>7. CancelPending'
  BY <1>1, <1>3, <1>4 DEF ArmInv, CancelPending, ObserverOwned
<1>8. TroubleKnown'
  <2>1. trouble <=> \/ ~sweep.passed \/ exec.broken # "no" \/ exec.errors # << >>
                    \/ obs.state = "failed" \/ cancels > 0
    BY <1>1 DEF ArmInv, TroubleKnown, ArmStages
  <2> QED BY <1>1, <1>3, <1>4, <2>1 DEF TroubleKnown
<1>9. WindowClosed'
  BY <1>1, <1>3, <1>4 DEF ArmInv, WindowClosed, SweepStages
<1> QED BY <1>5, <1>6, <1>7, <1>8, <1>9 DEF ArmInv

\* The recovered state comes from the last tick of a window that it closed.
LEMMA RecoveredFromLast ==
    ASSUME ticks \in Seq(Ticks), NEW e, e.window = Len(ticks), Recovered(e)
    PROVE  ticks # << >> /\ ticks[Len(ticks)].up /\ ticks[Len(ticks)].has
<1> DEFINE seen == SubSeq(ticks, 1, Len(ticks))
<1>1. seen # << >> /\ (\A i \in DOMAIN seen : seen[i].up) /\ seen[Len(seen)].has
  BY Zenon DEF Recovered
<1>2. seen = ticks
  OBVIOUS
<1>3. ticks # << >> /\ (\A i \in DOMAIN ticks : ticks[i].up) /\ ticks[Len(ticks)].has
  BY <1>1, <1>2, Zenon
<1>4. Len(ticks) \in DOMAIN ticks
  BY <1>3
<1> QED BY <1>3, <1>4

LEMMA AggregateKeeps == ASSUME ArmInv, Aggregate PROVE ArmInv'
<1> DEFINE rec == Recovered(exec)
           done == [exec EXCEPT !.recovered = rec]
           noted == Record(exec, "cooldown")
<1>1. /\ stage = "aggregate" /\ UNCHANGED <<sweep, obs, ticks, cancels>>
      /\ \/ /\ IF obs.state # "none" /\ ~exec.fatal
               THEN stage' = "finish" /\ exec' = done
               ELSE stage' = "cleanup" /\ exec' = [done EXCEPT !.cleanup = TRUE]
            /\ UNCHANGED trouble
         \/ exec' = [noted EXCEPT !.cleanup = TRUE] /\ stage' = "cleanup" /\ trouble' = TRUE
  BY Zenon DEF Aggregate
<1>2. ArmTypeOK /\ exec \in ArmExecs /\ ticks \in Seq(Ticks)
  BY ArmFacts DEF ArmInv
<1>3. rec \in BOOLEAN
  BY Zenon DEF Recovered
<1>4. /\ noted \in ArmExecs /\ noted.errors # << >> /\ (noted.fatal <=> exec.fatal)
      /\ noted.broken = exec.broken /\ (noted.recovered <=> exec.recovered)
  BY <1>2, ArmRecords DEF ArmErrors
<1>5. /\ exec.errors = << >> /\ ~exec.fatal /\ exec.broken = "no" /\ Cooldown =>
           exec.window = Len(ticks)
      /\ ~exec.recovered
  BY <1>1 DEF ArmInv, WindowClosed, SweepStages
<1>6. rec /\ exec.window = Len(ticks) => ticks # << >> /\ ticks[Len(ticks)].up /\ ticks[Len(ticks)].has
  BY <1>2, RecoveredFromLast
<1> HIDE DEF rec, noted
<1>7. /\ exec' \in ArmExecs /\ exec'.broken = exec.broken /\ (exec'.fatal <=> exec.fatal)
      /\ \/ exec'.errors = exec.errors /\ UNCHANGED trouble
         \/ exec'.errors # << >> /\ trouble' = TRUE
      /\ exec'.recovered => rec /\ exec'.errors = exec.errors
      /\ stage' \in {"finish", "cleanup"} /\ trouble' \in BOOLEAN
  <2>1. CASE exec' = done /\ UNCHANGED trouble
    BY <1>1, <1>2, <1>3, <2>1 DEF ArmExecs, ArmTypeOK
  <2>2. CASE exec' = [done EXCEPT !.cleanup = TRUE] /\ UNCHANGED trouble
    BY <1>1, <1>2, <1>3, <2>2 DEF ArmExecs, ArmTypeOK
  <2>3. CASE exec' = [noted EXCEPT !.cleanup = TRUE] /\ trouble' = TRUE
    BY <1>1, <1>4, <1>5, <2>3 DEF ArmExecs
  <2> HIDE DEF done
  <2> QED BY <1>1, <2>1, <2>2, <2>3
<1>8. stage' = "finish" => ~exec.fatal
  BY <1>1, <1>2, <1>4, <1>7
<1>9. ArmTypeOK'
  BY <1>1, <1>2, <1>7 DEF ArmTypeOK, ArmStages
<1>10. ArmsInTurn' /\ ObserverOwned'
  BY <1>1, <1>7 DEF ArmInv, ArmsInTurn, ObserverOwned, ArmStages
<1>11. CancelPending'
  BY <1>1, <1>7 DEF ArmInv, CancelPending
<1>12. TroubleKnown'
  <2>1. /\ trouble <=> \/ ~sweep.passed \/ exec.broken # "no" \/ exec.errors # << >>
                       \/ obs.state = "failed" \/ cancels > 0
        /\ obs.state = "failed" => exec.errors # << >> \/ exec.fatal
    BY <1>1 DEF ArmInv, TroubleKnown, ArmStages
  <2> QED BY <1>1, <1>7, <2>1 DEF TroubleKnown
<1>13. WindowClosed'
  BY <1>1, <1>5, <1>6, <1>7 DEF WindowClosed
<1> QED BY <1>9, <1>10, <1>11, <1>12, <1>13 DEF ArmInv

LEMMA FinishKeeps == ASSUME ArmInv, Finish PROVE ArmInv'
<1>1. /\ stage = "finish" /\ stage' = "cleanup" /\ exec' = [exec EXCEPT !.cleanup = TRUE]
      /\ UNCHANGED <<sweep, obs, ticks, trouble, cancels>>
  BY DEF Finish
<1>2. ArmTypeOK /\ exec \in ArmExecs
  BY ArmFacts DEF ArmInv
<1>3. /\ exec' \in ArmExecs /\ exec'.broken = exec.broken /\ (exec'.fatal <=> exec.fatal)
      /\ exec'.errors = exec.errors /\ (exec'.recovered <=> exec.recovered)
  BY <1>1, <1>2 DEF ArmExecs
<1>4. ArmTypeOK' /\ ArmsInTurn'
  BY <1>1, <1>2, <1>3 DEF ArmTypeOK, ArmStages, ArmsInTurn
<1>5. ObserverOwned' /\ CancelPending'
  BY <1>1, <1>3 DEF ArmInv, ObserverOwned, CancelPending, ArmStages
<1>6. TroubleKnown'
  BY <1>1, <1>3 DEF ArmInv, TroubleKnown, ArmStages
<1>7. WindowClosed'
  BY <1>1, <1>3 DEF ArmInv, WindowClosed, SweepStages
<1> QED BY <1>4, <1>5, <1>6, <1>7 DEF ArmInv

LEMMA CleanupKeeps == ASSUME ArmInv, Cleanup PROVE ArmInv'
<1> DEFINE noted == Record(exec, "cleanup")
<1>1. /\ stage = "cleanup" /\ stage' = "closing" /\ UNCHANGED <<sweep, obs, ticks, cancels>>
      /\ \/ UNCHANGED <<exec, trouble>>
         \/ exec' = (IF exec.fatal THEN exec ELSE noted) /\ trouble' = TRUE
  BY Zenon DEF Cleanup
<1>2. ArmTypeOK /\ exec \in ArmExecs /\ trouble \in BOOLEAN
  BY ArmFacts DEF ArmInv
<1>3. /\ noted \in ArmExecs /\ noted.errors # << >> /\ (noted.fatal <=> exec.fatal)
      /\ noted.broken = exec.broken /\ (noted.recovered <=> exec.recovered)
  BY <1>2, ArmRecords DEF ArmErrors
<1> HIDE DEF noted
<1>4. /\ exec' \in ArmExecs /\ exec'.broken = exec.broken /\ (exec'.fatal <=> exec.fatal)
      /\ (exec'.recovered <=> exec.recovered)
      /\ \/ UNCHANGED <<exec, trouble>>
         \/ trouble' = TRUE /\ (exec'.errors # << >> \/ exec.fatal)
      /\ exec'.errors = << >> => exec.errors = << >> \/ exec.fatal
      /\ exec.errors # << >> => exec'.errors # << >>
      /\ trouble' \in BOOLEAN
  BY <1>1, <1>2, <1>3
<1>5. ArmTypeOK' /\ ArmsInTurn'
  BY <1>1, <1>2, <1>4 DEF ArmTypeOK, ArmStages, ArmsInTurn
<1>6. ObserverOwned' /\ CancelPending'
  BY <1>1, <1>4 DEF ArmInv, ObserverOwned, CancelPending, ArmStages
<1>7. TroubleKnown'
  <2>1. /\ trouble <=> \/ ~sweep.passed \/ exec.broken # "no" \/ exec.errors # << >>
                       \/ obs.state = "failed" \/ cancels > 0
        /\ obs.state = "failed" => exec.errors # << >> \/ exec.fatal
        /\ exec.fatal => cancels > 0
    BY <1>1 DEF ArmInv, TroubleKnown, CancelPending, ArmStages
  <2> QED BY <1>1, <1>4, <2>1 DEF TroubleKnown
<1>8. WindowClosed'
  BY <1>1, <1>4 DEF ArmInv, WindowClosed, SweepStages
<1> QED BY <1>5, <1>6, <1>7, <1>8 DEF ArmInv

\* A cancellation becomes fatal wherever it strikes, or is on its way to.
LEMMA CancelKeeps == ASSUME ArmInv, Cancel PROVE ArmInv'
<1>1. /\ cancels' = cancels + 1 /\ trouble' = TRUE /\ UNCHANGED <<sweep, ticks>>
      /\ CancelRun \/ CancelLoad \/ CancelJoin \/ CancelEnd \/ CancelSweep
  BY Zenon DEF Cancel
<1>2. ArmTypeOK /\ exec \in ArmExecs /\ cancels' \in Nat /\ cancels' > 0
  BY <1>1, ArmFacts DEF ArmInv
<1>3. /\ Doomed \in ArmExecs /\ Doomed.fatal
  BY <1>2 DEF Doomed, ArmExecs
<1>4. CASE CancelRun \/ CancelEnd
  <2>1. /\ exec' = Doomed /\ UNCHANGED obs
        /\ \/ stage \in {"setup", "waiting", "deactivate", "cooling"} /\ stage' = "ending"
           \/ stage \in {"finish", "cleanup", "closing"} /\ stage' = "closing"
    BY <1>4 DEF CancelRun, CancelEnd
  <2>2. ArmTypeOK' /\ ArmsInTurn' /\ CancelPending'
    BY <1>1, <1>2, <1>3, <2>1 DEF ArmTypeOK, ArmStages, ArmsInTurn, CancelPending
  <2>3. ObserverOwned'
    BY <1>3, <2>1 DEF ArmInv, ObserverOwned, ArmStages
  <2>4. TroubleKnown'
    BY <1>1, <1>2, <1>3, <2>1 DEF TroubleKnown
  <2>5. WindowClosed'
    BY <1>1, <1>3, <2>1 DEF ArmInv, WindowClosed, SweepStages, Doomed
  <2> QED BY <2>2, <2>3, <2>4, <2>5 DEF ArmInv
<1>5. CASE CancelLoad
  <2>1. stage \in {"drive", "drain"} /\ UNCHANGED obs
    BY <1>5 DEF CancelLoad
  <2>2. ~exec.recovered /\ ~exec.fatal
    BY <2>1 DEF ArmInv, WindowClosed, SweepStages, CancelPending
  <2>3. CASE stage' = "ending" /\ exec' = [Doomed EXCEPT !.window = 0]
    <3>1. exec' \in ArmExecs /\ exec'.fatal
      BY <1>3, <2>3 DEF ArmExecs
    <3>2. ArmTypeOK' /\ ArmsInTurn' /\ CancelPending'
      BY <1>1, <1>2, <2>1, <2>3, <3>1 DEF ArmTypeOK, ArmStages, ArmsInTurn, CancelPending
    <3>3. ObserverOwned'
      BY <2>1, <2>3, <3>1 DEF ArmInv, ObserverOwned, ArmStages
    <3>4. TroubleKnown'
      BY <1>1, <1>2, <2>3 DEF TroubleKnown
    <3>5. exec'.recovered <=> exec.recovered
      BY <1>2, <2>3 DEF Doomed, ArmExecs
    <3>6. WindowClosed'
      BY <2>2, <2>3, <3>1, <3>5 DEF WindowClosed
    <3> QED BY <3>2, <3>3, <3>4, <3>6 DEF ArmInv
  <2>4. CASE stage' = "drain" /\ exec' = [exec EXCEPT !.broken = "cancel", !.window = Open]
    <3>1. Open \in Nat
      BY ArmBounds DEF Open
    <3>2. /\ exec' \in ArmExecs /\ exec'.broken = "cancel" /\ (exec'.fatal <=> exec.fatal)
          /\ (exec'.recovered <=> exec.recovered)
      BY <1>2, <2>4, <3>1 DEF ArmExecs
    <3>3. ArmTypeOK' /\ ArmsInTurn' /\ CancelPending'
      BY <1>1, <1>2, <2>1, <2>2, <2>4, <3>2 DEF ArmTypeOK, ArmStages, ArmsInTurn, CancelPending
    <3>4. ObserverOwned'
      BY <2>1, <2>4 DEF ArmInv, ObserverOwned, ArmStages
    <3>5. TroubleKnown'
      BY <1>1, <1>2, <2>4 DEF TroubleKnown
    <3>6. WindowClosed'
      BY <2>2, <2>4, <3>2 DEF WindowClosed
    <3> QED BY <3>3, <3>4, <3>5, <3>6 DEF ArmInv
  <2> QED BY <1>5, <2>3, <2>4 DEF CancelLoad
<1>6. CASE CancelJoin
  <2>1. stage = "join"
    BY <1>6 DEF CancelJoin
  <2>2. CASE obs.state \in Over
    <3>1. exec' = Doomed /\ stage' = "aggregate" /\ UNCHANGED obs
      BY <1>6, <2>2 DEF CancelJoin
    <3>2. ArmTypeOK' /\ ArmsInTurn' /\ CancelPending'
      BY <1>1, <1>2, <1>3, <3>1 DEF ArmTypeOK, ArmStages, ArmsInTurn, CancelPending
    <3>3. ObserverOwned'
      BY <2>1, <2>2, <3>1 DEF ArmInv, ObserverOwned, ArmStages
    <3>4. TroubleKnown'
      BY <1>1, <1>2, <1>3, <3>1 DEF TroubleKnown
    <3>5. exec'.recovered <=> exec.recovered
      BY <1>2, <3>1 DEF Doomed, ArmExecs
    <3>6. WindowClosed'
      BY <1>3, <2>1, <3>1, <3>5 DEF ArmInv, WindowClosed, SweepStages
    <3> QED BY <3>2, <3>3, <3>4, <3>6 DEF ArmInv
  <2>3. CASE obs.state \notin Over
    <3>1. obs' = [obs EXCEPT !.cut = TRUE] /\ UNCHANGED <<stage, exec>>
      BY <1>6, <2>3 DEF CancelJoin
    <3>2. obs' \in Observers /\ obs'.state = obs.state /\ obs'.cut
      BY <1>2, <3>1 DEF ArmTypeOK, Observers
    <3>3. ArmTypeOK' /\ ArmsInTurn'
      BY <1>1, <1>2, <2>1, <3>1, <3>2 DEF ArmTypeOK, ArmStages, ArmsInTurn
    <3>4. CancelPending'
      BY <1>2, <2>1, <2>3, <3>1, <3>2 DEF ArmInv, CancelPending, Over
    <3>5. ObserverOwned'
      BY <2>1, <3>1, <3>2 DEF ArmInv, ObserverOwned, ArmStages
    <3>6. TroubleKnown'
      BY <1>1, <1>2, <2>1, <3>1 DEF TroubleKnown
    <3>7. WindowClosed'
      BY <1>1, <3>1 DEF ArmInv, WindowClosed
    <3> QED BY <3>3, <3>4, <3>5, <3>6, <3>7 DEF ArmInv
  <2> QED BY <2>2, <2>3
<1>7. CASE CancelSweep
  <2>1. /\ UNCHANGED <<exec, obs>> /\ stage \in {"deploy", "returning", "raising"}
        /\ stage' \in {"raising", "raised"}
    BY <1>7 DEF CancelSweep
  <2>2. ArmTypeOK' /\ ArmsInTurn' /\ CancelPending'
    BY <1>1, <1>2, <2>1 DEF ArmTypeOK, SweepStages, ArmsInTurn, CancelPending
  <2>3. ObserverOwned'
    BY <2>1 DEF ArmInv, ObserverOwned, ArmStages
  <2>4. TroubleKnown'
    BY <1>1, <2>1 DEF ArmInv, TroubleKnown, ArmStages
  <2>5. WindowClosed'
    BY <1>1, <2>1 DEF ArmInv, WindowClosed, SweepStages
  <2> QED BY <2>2, <2>3, <2>4, <2>5 DEF ArmInv
<1> QED BY <1>1, <1>4, <1>5, <1>6, <1>7

LEMMA ArmStep == ArmInv /\ [ArmNext]_armVars => ArmInv'
<1> SUFFICES ASSUME ArmInv, [ArmNext]_armVars PROVE ArmInv'
  OBVIOUS
<1>1. CASE UNCHANGED armVars
  BY <1>1 DEF armVars, ArmInv, ArmTypeOK, ArmsInTurn, ObserverOwned, CancelPending, TroubleKnown,
              WindowClosed
<1> QED
  BY <1>1, NextArmKeeps, DeployKeeps, JudgeKeeps, ArmLeaves, SetupKeeps, WaitKeeps, MeasuredKeeps,
     DrainedKeeps, DeactivateKeeps, CooledKeeps, EndKeeps, JoinKeeps, AggregateKeeps, FinishKeeps,
     CleanupKeeps, TickBeginsKeeps, TickEndsKeeps, ObserverCutKeeps, CancelKeeps
  DEF ArmNext, Owner

\* The invariant says how a sweep and each of its arms ended.
LEMMA ArmConcludes == ArmInv => ArmIsTrue
<1> SUFFICES ASSUME ArmInv PROVE ArmIsTrue
  OBVIOUS
<1>1. cancels \in Nat
  BY DEF ArmInv, ArmTypeOK
<1>2. SweepIsTrue
  BY <1>1 DEF ArmInv, SweepIsTrue, CancelPending, TroubleKnown, ArmsInTurn
<1>3. RecoveryIsFinal
  BY DEF ArmInv, RecoveryIsFinal, WindowClosed
<1>4. QuietCleanup
  BY DEF ArmInv, QuietCleanup, ObserverOwned
<1> QED BY <1>2, <1>3, <1>4 DEF ArmIsTrue

-----------------------------------------------------------------------------
(* The lifecycles side by side.                                            *)

LifecyclesInv == CaseInv /\ GoInv /\ TsSweepInv /\ ArmInv

LEMMA LifecyclesStart == Init => LifecyclesInv
BY CaseStarts, GoStarts, TsStarts, ArmStarts DEF Init, LifecyclesInv

\* Whose turn it is takes a step of its own; the others stand still.
LEMMA LifecyclesStep == LifecyclesInv /\ [Next]_lifecycleVars => LifecyclesInv'
<1> SUFFICES ASSUME LifecyclesInv, [Next]_lifecycleVars PROVE LifecyclesInv'
  OBVIOUS
<1>1. /\ [CaseNext]_caseVars /\ [GoNext]_goVars
      /\ [TsEngineNext]_tsVars /\ [ArmNext]_armVars
  BY DEF Next, Turn, lifecycleVars
<1> QED BY <1>1, CaseStep, GoStep, TsStep, ArmStep DEF LifecyclesInv

LEMMA LifecyclesInvariant == Spec => []LifecyclesInv
BY LifecyclesStart, LifecyclesStep, PTL DEF Spec

(* A verdict is what the steps of its cases came to: in Python, through every  *)
(* blocked phase, raise and interrupt, the status a case records is the worst  *)
(* of its steps and the experiment's is the worst of its cases; in Go every    *)
(* test that ran is recorded once, with the worst of what its phases came to.  *)
(* For any cases and any interrupts.                                           *)
THEOREM VerdictsAreTrue == Spec => []VerdictsTrue
<1>1. LifecyclesInv => VerdictsTrue
  BY CaseConcludes, GoConcludes DEF LifecyclesInv, VerdictsTrue
<1> QED BY <1>1, LifecyclesInvariant, PTL

(* A sweep tells the truth about its arms: whatever hook, load, observer or    *)
(* owner fails or is cancelled, at any await, it passes exactly if nothing     *)
(* went wrong in any arm, an arm's errors are what was raised in it, cleanup   *)
(* runs beside no observer and, in TypeScript, once for every arm that was set *)
(* up.  For any arms, resources and numbers of ticks and cancellations.        *)
THEOREM SweepsAreTrue == Spec => []SweepsTrue
<1>1. LifecyclesInv => SweepsTrue
  BY ArmConcludes, TsConcludes DEF LifecyclesInv, SweepsTrue
<1> QED BY <1>1, LifecyclesInvariant, PTL

=============================================================================
