-------------------------- MODULE PerfDrive_proofs --------------------------
(***************************************************************************)
(* The load controller and the drive of an arm, for any plan, rates, caps  *)
(* and bounds: what is measured is the plan, every arrival has its window, *)
(* calls are counted exactly and a stop is reported as what it was.        *)
(***************************************************************************)
EXTENDS TsDrive, FiniteSetTheorems, SequenceTheorems, WellFoundedInduction, TLAPS

-----------------------------------------------------------------------------
(* Induction over the naturals, for sets.                                  *)

Less == {p \in Nat \X Nat : p[1] < p[2]}

LEMMA LessIsWellFounded == IsWellFoundedOn(Less, Nat)
<1>1. OpToRel(<, Nat) = Less
  BY DEF OpToRel, Less
<1> QED BY <1>1, NatLessThanWellFounded

\* A set of naturals that is not empty has a least element.
LEMMA LeastNatural ==
    ASSUME NEW U \in SUBSET Nat, U # {}
    PROVE  \E m \in U : \A n \in U : m <= n
<1>1. PICK m \in U : \A n \in U : <<n, m>> \notin Less
  BY LessIsWellFounded, WFMin
<1>2. \A n \in U : m \in Nat /\ n \in Nat /\ ~(n < m)
  BY <1>1 DEF Less
<1>3. \A n \in U : m <= n
  BY <1>2
<1> QED BY <1>3

-----------------------------------------------------------------------------
(* Whole division.                                                         *)

LEMMA Quotient == ASSUME NEW a \in Int, NEW d \in Nat \ {0}
  PROVE a \div d \in Int /\ (a \div d) * d <= a /\ a < (a \div d) * d + d
OBVIOUS

LEMMA MulMono == ASSUME NEW x \in Nat, NEW d \in Nat, NEW p \in 0..d PROVE x * p \in Nat /\ x * p <= x * d
OBVIOUS

LEMMA DivDown == ASSUME NEW q \in Int, NEW d \in Nat \ {0}, NEW b \in Int, q * d < b * d + d PROVE q <= b
OBVIOUS

\* A linear move from one value to another stays between them.
LEMMA Between == ASSUME NEW from \in Nat, NEW to \in Nat, NEW d \in Nat \ {0}, NEW p \in 0..d
  PROVE /\ from + (((to - from) * p) \div d) \in Nat
        /\ from + (((to - from) * p) \div d) <= from \/ from + (((to - from) * p) \div d) <= to
        /\ from + (((to - from) * p) \div d) >= from \/ from + (((to - from) * p) \div d) >= to
<1> DEFINE q == ((to - from) * p) \div d
<1>0. (to - from) * p \in Int /\ d \in Nat \ {0} /\ p \in Nat
  OBVIOUS
<1>1. q \in Int /\ q * d <= (to - from) * p /\ (to - from) * p < q * d + d
  BY <1>0, Quotient
<1>2. CASE from <= to
  <2>1. (to - from) * p >= 0 /\ (to - from) * p <= (to - from) * d /\ to - from \in Nat
    BY <1>2, MulMono
  <2> HIDE DEF q
  <2>2. 0 <= q
    <3>1. 0 * d < q * d + d
      BY <1>0, <1>1, <2>1
    <3> QED BY <1>0, <1>1, <3>1, DivDown
  <2>3. q <= to - from
    <3>1. q * d < (to - from) * d + d
      BY <1>0, <1>1, <2>1
    <3> QED BY <1>0, <1>1, <3>1, <2>1, DivDown
  <2>4. from + q \in Nat /\ from + q <= to /\ from + q >= from
    BY <1>1, <2>2, <2>3
  <2> QED BY <2>4 DEF q
<1>3. CASE to < from
  <2>1. (from - to) * p >= 0 /\ (from - to) * p <= (from - to) * d /\ from - to \in Nat
    BY <1>3, MulMono
  <2>2. (to - from) * p = -((from - to) * p) /\ (to - from) * d = -((from - to) * d)
    OBVIOUS
  <2> HIDE DEF q
  <2>3. q <= 0
    <3>1. q * d < 0 * d + d
      BY <1>0, <1>1, <2>1, <2>2
    <3> QED BY <1>0, <1>1, <3>1, DivDown
  <2>4. to - from <= q
    <3>1. (to - from) * d < q * d + d
      BY <1>0, <1>1, <2>1, <2>2
    <3> QED BY <1>0, <1>1, <3>1, <2>1, DivDown
  <2>5. from + q \in Nat /\ from + q <= from /\ from + q >= to
    BY <1>1, <2>3, <2>4
  <2> QED BY <2>5 DEF q
<1> QED BY <1>2, <1>3

-----------------------------------------------------------------------------
(* The load controller.                                                    *)

\* The windows opened so far end with the one of the current stage, which is
\* open until the load is done.
LastIsOpen ==
    /\ ctl.win[ctl.index].opened
    /\ \A j \in StageId : j > ctl.index => ~ctl.win[j].opened
    /\ \A j \in StageId : ctl.win[j].complete => ctl.win[j].opened
    /\ ~Done(ctl) => /\ ctl.win[ctl.index].start = ctl.start
                     /\ ~ctl.win[ctl.index].complete
                     /\ ctl.start <= ctl.last /\ ctl.last <= now /\ ctl.last < Deadline(ctl)
                     /\ ctl.win[ctl.index].limited <= ctl.last - ctl.start

PlanHolds == ExactStages /\ WindowsTile /\ NoHoldSkipped

CtlInv == CtlTypeOK /\ LastIsOpen /\ PlanHolds

\* The elements of a sequence.
LEMMA ElementsOf ==
    ASSUME NEW S, NEW s \in Seq(S) PROVE Len(s) \in Nat /\ \A j \in 1..Len(s) : s[j] \in S
OBVIOUS

\* What the plan's constants are.
LEMMA PlanFacts ==
    /\ N \in Nat /\ N >= 1 /\ StageId = 1..N
    /\ \A j \in StageId : /\ Stages[j].kind \in Kinds /\ Stages[j].dur \in Nat \ {0}
                          /\ Stages[j].rate \in Nat /\ Stages[j].cap \in Nat \ {0}
                          /\ Offset[j + 1] = Offset[j] + Stages[j].dur
    /\ \A j \in 1..(N + 1) : Offset[j] \in Nat
<1>1. N \in Nat /\ N >= 1 /\ StageId = 1..N
  BY PlanAssumption DEF N, StageId
<1>2. \A j \in StageId : Stages[j] \in [kind : Kinds, dur : Nat \ {0}, rate : Nat, cap : Nat \ {0}]
  <2> DEFINE Planned == [kind : Kinds, dur : Nat \ {0}, rate : Nat, cap : Nat \ {0}]
  <2>1. Stages \in Seq(Planned)
    BY PlanAssumption
  <2> HIDE DEF Planned
  <2>2. \A j \in 1..Len(Stages) : Stages[j] \in Planned
    BY <2>1, ElementsOf
  <2> QED BY <2>2 DEF N, StageId, Planned
<1>3. \A j \in StageId : Offset[j + 1] = Offset[j] + Stages[j].dur
  BY OffsetAssumption DEF StageId
<1>4. \A j \in 1..(N + 1) : Offset[j] \in Nat
  BY OffsetAssumption
<1> QED BY <1>1, <1>2, <1>3, <1>4

\* Later stages start later.
LEMMA OffsetsGrow == \A i, j \in 1..(N + 1) : i <= j => Offset[i] <= Offset[j]
<1> SUFFICES ASSUME NEW i \in 1..(N + 1), NEW l \in 1..(N + 1), i <= l, ~(Offset[i] <= Offset[l]) PROVE FALSE
  OBVIOUS
<1> DEFINE U == {j \in i..(N + 1) : ~(Offset[i] <= Offset[j])}
<1>1. U \in SUBSET Nat /\ U # {}
  <2>1. l \in i..(N + 1) /\ i..(N + 1) \subseteq Nat
    BY PlanFacts
  <2> QED BY <2>1
<1>2. PICK m \in U : \A n \in U : m <= n
  BY <1>1, LeastNatural
<1>3. m \in i..(N + 1) /\ m # i /\ ~(Offset[i] <= Offset[m])
  BY <1>2, PlanFacts
<1>4. m - 1 \in i..(N + 1) /\ m - 1 \in StageId /\ m - 1 \notin U /\ (m - 1) + 1 = m
  BY <1>2, <1>3, PlanFacts
<1>5. Offset[m] = Offset[m - 1] + Stages[m - 1].dur /\ Stages[m - 1].dur \in Nat
      /\ Offset[m - 1] \in Nat /\ Offset[i] \in Nat
  <2>1. m - 1 \in 1..(N + 1)
    BY <1>4, PlanFacts
  <2> QED BY <1>4, <2>1, PlanFacts
<1> QED BY <1>3, <1>4, <1>5

\* The advance of `at` that lands in stage k and leaves it for exit.
Reaches(at, k, exit) ==
    /\ ~Done(ctl) /\ at \in Nat /\ ctl.last <= at /\ at <= now'
    /\ k \in ctl.index..(N + 1) /\ Lands(ctl, at, k)
    /\ \/ exit = k
       \/ /\ exit \in (k + 1)..(N + 1) /\ k <= N
          /\ Stages[k].kind = "warmup" /\ NextHold(k, exit)

\* Where the stages it crosses begin and end.
LEMMA Crossed ==
    ASSUME CtlInv, NEW at, NEW k, NEW exit, Reaches(at, k, exit)
    PROVE  /\ ctl.index \in StageId /\ ctl.start \in Nat /\ ctl.last \in Nat /\ k \in Nat /\ exit \in Nat
           /\ OpensAt(ctl, ctl.index) = ctl.start /\ OpensAt(ctl, ctl.index + 1) = Deadline(ctl)
           /\ \A j \in ctl.index..(N + 1) : OpensAt(ctl, j) \in Nat /\ ctl.start <= OpensAt(ctl, j)
           /\ \A j \in ctl.index..N : OpensAt(ctl, j + 1) = OpensAt(ctl, j) + Stages[j].dur
           /\ \A j \in ctl.index..(k - 1) : ClosesAt(ctl, j, at) = OpensAt(ctl, j + 1) /\ at >= OpensAt(ctl, j + 1)
           /\ k <= N => OpensAt(ctl, k) <= at /\ at < OpensAt(ctl, k + 1)
<1>0. /\ ctl.index \in StageId /\ ctl.start \in Nat /\ ctl.last \in Nat
      /\ ctl.start <= ctl.last /\ ctl.last < Deadline(ctl)
  BY DEF CtlInv, CtlTypeOK, LastIsOpen, Reaches
<1>1. k \in ctl.index..(N + 1) /\ k \in Nat /\ exit \in Nat /\ at \in Nat /\ ctl.last <= at
  BY <1>0, PlanFacts DEF Reaches
<1>2. ASSUME NEW j \in ctl.index..(N + 1)
      PROVE  OpensAt(ctl, j) \in Nat /\ ctl.start <= OpensAt(ctl, j)
  <2>1. j \in 1..(N + 1) /\ ctl.index \in 1..(N + 1) /\ ctl.index <= j
    BY <1>0, PlanFacts
  <2>2. Offset[j] \in Nat /\ Offset[ctl.index] \in Nat
    BY <2>1, PlanFacts
  <2>3. Offset[ctl.index] <= Offset[j]
    BY <2>1, OffsetsGrow
  <2> QED BY <1>0, <2>2, <2>3 DEF OpensAt
<1>3. \A j \in ctl.index..N : OpensAt(ctl, j + 1) = OpensAt(ctl, j) + Stages[j].dur
  <2>1. ASSUME NEW j \in ctl.index..N PROVE OpensAt(ctl, j + 1) = OpensAt(ctl, j) + Stages[j].dur
    <3>1. j \in StageId /\ j \in 1..(N + 1) /\ ctl.index \in 1..(N + 1)
      BY <1>0, PlanFacts
    <3>2. /\ Offset[j + 1] = Offset[j] + Stages[j].dur /\ Stages[j].dur \in Nat
          /\ Offset[j] \in Nat /\ Offset[ctl.index] \in Nat
      BY <3>1, PlanFacts
    <3> QED BY <1>0, <3>2 DEF OpensAt
  <2> QED BY <2>1
<1>4. OpensAt(ctl, ctl.index) = ctl.start /\ OpensAt(ctl, ctl.index + 1) = Deadline(ctl)
  <2>1. ctl.index \in 1..(N + 1)
    BY <1>0, PlanFacts
  <2>2. /\ Offset[ctl.index + 1] = Offset[ctl.index] + Stages[ctl.index].dur
        /\ Stages[ctl.index].dur \in Nat /\ Offset[ctl.index] \in Nat
    BY <1>0, <2>1, PlanFacts
  <2> QED BY <1>0, <2>2 DEF OpensAt, Deadline
<1>5. \A j \in ctl.index..(k - 1) : ClosesAt(ctl, j, at) = OpensAt(ctl, j + 1) /\ at >= OpensAt(ctl, j + 1)
  <2>1. ASSUME NEW j \in ctl.index..(k - 1) PROVE ClosesAt(ctl, j, at) = OpensAt(ctl, j + 1) /\ at >= OpensAt(ctl, j + 1)
    <3>1. at >= OpensAt(ctl, j + 1)
      BY DEF Reaches, Lands
    <3>2. j + 1 \in ctl.index..(N + 1)
      BY <1>0, <1>1, PlanFacts
    <3>3. OpensAt(ctl, j + 1) \in Nat
      BY <1>2, <3>2
    <3> QED BY <1>1, <3>1, <3>3 DEF ClosesAt
  <2> QED BY <2>1
<1>6. ASSUME k <= N PROVE OpensAt(ctl, k) <= at /\ at < OpensAt(ctl, k + 1)
  <2>1. at < OpensAt(ctl, k + 1)
    BY <1>6 DEF Reaches, Lands
  <2>2. CASE k = ctl.index
    BY <1>0, <1>1, <1>4, <2>1, <2>2
  <2>3. CASE k # ctl.index
    <3>1. k - 1 \in ctl.index..(k - 1) /\ (k - 1) + 1 = k
      BY <1>0, <1>1, <2>3, PlanFacts
    <3>2. at >= OpensAt(ctl, k)
      BY <1>5, <3>1
    <3>3. OpensAt(ctl, k) \in Nat
      BY <1>1, <1>2
    <3> QED BY <1>1, <2>1, <3>2, <3>3
  <2> QED BY <2>2, <2>3
<1> QED BY <1>0, <1>1, <1>2, <1>3, <1>4, <1>5, <1>6

\* The windows after an advance, from the first stage to the last.
LEMMA RolledTells ==
    ASSUME CtlInv, NEW at, NEW k, NEW exit, NEW limited \in BOOLEAN, Reaches(at, k, exit),
           NEW w, w = Rolled(ctl, at, k, exit, limited)
    PROVE  /\ w \in [StageId -> Windows]
           /\ \A j \in StageId : j < ctl.index => w[j] = ctl.win[j]
           /\ \A j \in ctl.index..(k - 1) :
                /\ w[j].opened /\ w[j].complete
                /\ w[j].start = OpensAt(ctl, j) /\ w[j].end = OpensAt(ctl, j + 1)
                /\ w[j].limited <= w[j].end - w[j].start
           /\ k <= N => /\ w[k].opened /\ (w[k].complete <=> exit # k)
                        /\ w[k].start = OpensAt(ctl, k) /\ w[k].end = at
                        /\ w[k].limited <= at - w[k].start
                        /\ exit # k => w[k].reason = "inflight_limit"
           /\ exit <= N /\ exit # k => w[exit] = Fresh(at)
           /\ \A j \in StageId : j > k /\ j # exit => w[j] = Unopened
           /\ \A j \in StageId : j >= ctl.index => w[j].reason # "aborted"
<1>0. /\ ctl.index \in StageId /\ ctl.start \in Nat /\ ctl.last \in Nat /\ k \in Nat /\ exit \in Nat
      /\ at \in Nat /\ ctl.last <= at /\ ctl.win \in [StageId -> Windows] /\ ctl.limited \in BOOLEAN
      /\ k \in ctl.index..(N + 1) /\ (exit = k \/ exit \in (k + 1)..(N + 1))
  BY Crossed DEF Reaches, CtlInv, CtlTypeOK
<1>1. /\ ctl.win[ctl.index] \in Windows
      /\ ctl.win[ctl.index].limited \in Nat /\ ctl.win[ctl.index].limited <= ctl.last - ctl.start
      /\ ctl.start <= ctl.last /\ ctl.last < Deadline(ctl)
  BY <1>0 DEF CtlInv, LastIsOpen, Reaches, Windows
<1>2. ASSUME NEW j \in ctl.index..k, NEW end \in Nat, j \in StageId,
             OpensAt(ctl, j) <= end, j = ctl.index => ctl.last <= end
      PROVE  /\ Accrued(ctl, j, end, limited) \in Nat
             /\ Accrued(ctl, j, end, limited) <= end - OpensAt(ctl, j)
  <2>0. j \in ctl.index..(N + 1)
    BY <1>0, PlanFacts
  <2>1. OpensAt(ctl, j) \in Nat /\ OpensAt(ctl, ctl.index) = ctl.start
    BY <2>0, Crossed
  <2>2. CASE j = ctl.index
    BY <1>0, <1>1, <1>2, <2>1, <2>2 DEF Accrued
  <2>3. CASE j # ctl.index
    BY <1>0, <1>2, <2>1, <2>3 DEF Accrued
  <2> QED BY <2>2, <2>3
<1>3. ASSUME NEW j \in ctl.index..(k - 1)
      PROVE  /\ j \in StageId /\ w[j] \in Windows
             /\ w[j].opened /\ w[j].complete
             /\ w[j].start = OpensAt(ctl, j) /\ w[j].end = OpensAt(ctl, j + 1)
             /\ w[j].limited <= w[j].end - w[j].start /\ w[j].reason # "aborted"
  <2>1. j \in StageId /\ j \in ctl.index..k /\ j \in ctl.index..N /\ j \in ctl.index..(N + 1)
        /\ j + 1 \in ctl.index..(N + 1) /\ ~(j < ctl.index) /\ j < k
    <3>1. ctl.index \in 1..N /\ N \in Nat /\ k \in ctl.index..(N + 1) /\ StageId = 1..N
      BY <1>0, PlanFacts
    <3> QED BY <3>1
  <2>2. /\ OpensAt(ctl, j) \in Nat /\ OpensAt(ctl, j + 1) \in Nat
        /\ OpensAt(ctl, j + 1) = OpensAt(ctl, j) + Stages[j].dur /\ Stages[j].dur \in Nat
        /\ ClosesAt(ctl, j, at) = OpensAt(ctl, j + 1)
    BY <2>1, Crossed, PlanFacts
  <2>3. j = ctl.index => ctl.last <= OpensAt(ctl, j + 1)
    <3>1. OpensAt(ctl, ctl.index + 1) = Deadline(ctl)
      BY Crossed
    <3> QED BY <1>0, <1>1, <2>2, <3>1
  <2>4. /\ Accrued(ctl, j, OpensAt(ctl, j + 1), limited) \in Nat
        /\ Accrued(ctl, j, OpensAt(ctl, j + 1), limited) <= OpensAt(ctl, j + 1) - OpensAt(ctl, j)
    BY <1>2, <2>1, <2>2, <2>3
  <2>5. w[j] = [opened |-> TRUE, start |-> OpensAt(ctl, j), end |-> OpensAt(ctl, j + 1),
                complete |-> TRUE, reason |-> TimedReason(j),
                limited |-> Accrued(ctl, j, OpensAt(ctl, j + 1), limited)]
    BY <2>1, <2>2 DEF Rolled
  <2>6. TimedReason(j) \in EndReasons \ {"aborted"}
    BY DEF TimedReason, EndReasons
  <2> QED BY <2>1, <2>2, <2>4, <2>5, <2>6 DEF Windows
<1>4. ASSUME k <= N
      PROVE  /\ k \in StageId /\ w[k] \in Windows
             /\ w[k].opened /\ (w[k].complete <=> exit # k)
             /\ w[k].start = OpensAt(ctl, k) /\ w[k].end = at
             /\ w[k].limited <= at - w[k].start
             /\ exit # k => w[k].reason = "inflight_limit"
             /\ w[k].reason # "aborted"
  <2>1. k \in StageId /\ k \in ctl.index..k /\ ~(k < ctl.index) /\ ~(k < k)
    BY <1>0, <1>4, PlanFacts
  <2>2. OpensAt(ctl, k) \in Nat /\ OpensAt(ctl, k) <= at
    BY <1>0, <1>4, Crossed
  <2>3. Accrued(ctl, k, at, limited) \in Nat /\ Accrued(ctl, k, at, limited) <= at - OpensAt(ctl, k)
    BY <1>0, <1>2, <2>1, <2>2
  <2>4. CASE exit = k
    <3>1. w[k] = [opened |-> TRUE, start |-> OpensAt(ctl, k), end |-> at, complete |-> FALSE,
                  reason |-> "none", limited |-> Accrued(ctl, k, at, limited)]
      BY <2>1, <2>4 DEF Rolled
    <3>2. w[k] \in Windows
      BY <1>0, <2>2, <2>3, <3>1 DEF Windows, EndReasons
    <3>3. w[k].opened /\ ~w[k].complete
      BY <3>1
    <3> QED BY <2>1, <2>3, <2>4, <3>1, <3>2, <3>3
  <2>5. CASE exit # k
    <3>1. w[k] = [opened |-> TRUE, start |-> OpensAt(ctl, k), end |-> at, complete |-> TRUE,
                  reason |-> "inflight_limit", limited |-> Accrued(ctl, k, at, limited)]
      BY <2>1, <2>5 DEF Rolled
    <3>2. w[k] \in Windows
      BY <1>0, <2>2, <2>3, <3>1 DEF Windows, EndReasons
    <3>3. w[k].opened /\ w[k].complete
      BY <3>1
    <3> QED BY <2>1, <2>3, <2>5, <3>1, <3>2, <3>3
  <2> QED BY <2>4, <2>5
<1>5. ASSUME exit <= N, exit # k
      PROVE  exit \in StageId /\ w[exit] = Fresh(at) /\ Fresh(at) \in Windows /\ Fresh(at).reason # "aborted"
  BY <1>0, <1>5, PlanFacts DEF Rolled, Fresh, Windows, EndReasons
<1>6. ASSUME NEW j \in StageId, j > k, j # exit
      PROVE  w[j] = Unopened /\ Unopened \in Windows /\ Unopened.reason # "aborted"
  <2>1. ctl.index <= k /\ ctl.index \in Nat /\ j \in Nat
    BY <1>0, PlanFacts
  <2>2. ~(j < ctl.index) /\ ~(j < k) /\ j # k
    BY <1>0, <1>6, <2>1
  <2>3. w[j] = Unopened
    BY <1>6, <2>2 DEF Rolled
  <2>4. Unopened \in Windows /\ Unopened.reason # "aborted"
    BY DEF Unopened, Windows, EndReasons
  <2> QED BY <2>3, <2>4
<1>7. \A j \in StageId : j < ctl.index => w[j] = ctl.win[j] /\ w[j] \in Windows
  BY <1>0 DEF Rolled
<1>8. \A j \in StageId : j < ctl.index \/ j \in ctl.index..(k - 1) \/ (j = k /\ k <= N)
                         \/ (j = exit /\ exit # k /\ exit <= N) \/ (j > k /\ j # exit)
  <2>1. StageId = 1..N /\ N \in Nat /\ ctl.index \in Nat
    BY <1>0, PlanFacts
  <2>2. ASSUME NEW j \in 1..N
        PROVE  j < ctl.index \/ j \in ctl.index..(k - 1) \/ (j = k /\ k <= N)
               \/ (j = exit /\ exit # k /\ exit <= N) \/ (j > k /\ j # exit)
    BY <1>0, <2>1
  <2> QED BY <2>1, <2>2
<1>9. w \in [StageId -> Windows]
  <2>1. w = [j \in StageId |-> w[j]]
    BY DEF Rolled
  <2>2. \A j \in StageId : w[j] \in Windows
    BY <1>3, <1>4, <1>5, <1>6, <1>7, <1>8
  <2> QED BY <2>1, <2>2
<1>10. \A j \in StageId : j >= ctl.index => w[j].reason # "aborted"
  <2>1. \A j \in StageId : j >= ctl.index => ~(j < ctl.index)
    BY <1>0, PlanFacts
  <2> QED BY <1>3, <1>4, <1>5, <1>6, <1>8, <2>1
<1> QED BY <1>3, <1>4, <1>5, <1>6, <1>7, <1>9, <1>10

\* The first hold that a plan of windows has opened starts at a time.
LEMMA FirstHoldType ==
    ASSUME CtlTypeOK, NEW w \in [StageId -> Windows]
    PROVE  FirstHold(ctl, w) \in Nat \cup {NoTime}
<1>1. CASE ctl.holdStart # NoTime
  BY <1>1 DEF FirstHold, CtlTypeOK
<1>2. CASE ctl.holdStart = NoTime /\ ~(\E j \in StageId : w[j].opened /\ Stages[j].kind = "hold")
  BY <1>2 DEF FirstHold
<1>3. CASE ctl.holdStart = NoTime /\ \E j \in StageId : w[j].opened /\ Stages[j].kind = "hold"
  <2> DEFINE Holds == {j \in StageId : w[j].opened /\ Stages[j].kind = "hold"}
             First(j) == /\ w[j].opened /\ Stages[j].kind = "hold"
                         /\ \A m \in 1..(j - 1) : ~(w[m].opened /\ Stages[m].kind = "hold")
  <2>1. Holds \in SUBSET Nat /\ Holds # {}
    BY <1>3, PlanFacts
  <2>2. PICK j \in Holds : \A m \in Holds : j <= m
    BY <2>1, LeastNatural
  <2>3. j \in StageId /\ First(j)
    <3>1. \A m \in 1..(j - 1) : m \in StageId /\ ~(j <= m)
      BY PlanFacts
    <3> QED BY <2>2, <3>1
  <2> HIDE DEF First
  <2>4. (CHOOSE m \in StageId : First(m)) \in StageId
    BY <2>3
  <2>5. FirstHold(ctl, w) = w[CHOOSE m \in StageId : First(m)].start
    BY <1>3 DEF FirstHold, First
  <2> QED BY <2>4, <2>5 DEF Windows
<1> QED BY <1>1, <1>2, <1>3

\* What an advance does to the rest of the controller.
LEMMA MovedTells ==
    ASSUME CtlInv, NEW at, NEW k, NEW exit, NEW limited \in BOOLEAN, Reaches(at, k, exit),
           ctl' = Moved(ctl, at, k, exit, limited)
    PROVE  /\ ctl'.win = Rolled(ctl, at, k, exit, limited)
           /\ ctl' \in [index : StageId, start : Nat, prevRate : Nat, prevCap : Nat \ {0},
                        win : [StageId -> Windows], holdStart : Nat \cup {NoTime},
                        end : Nat \cup {NoTime}, last : Nat, limited : BOOLEAN]
           /\ exit <= N => /\ ctl'.index = exit /\ ctl'.end = NoTime /\ ctl'.last = at
                           /\ ctl'.start = (IF exit = k THEN OpensAt(ctl, k) ELSE at)
           /\ exit = N + 1 => /\ ctl'.index = (IF k = N + 1 THEN N ELSE k)
                              /\ ctl'.end = (IF k = N + 1 THEN OpensAt(ctl, N + 1) ELSE at)
           /\ exit <= N \/ exit = N + 1
           /\ ctl'.prevCap = ctl.prevCap \/ \E j \in StageId : ctl'.prevCap = Stages[j].cap
<1> DEFINE win == Rolled(ctl, at, k, exit, limited)
           stop == IF k = N + 1 THEN OpensAt(ctl, N + 1) ELSE at
           left == IF exit = k THEN k - 1 ELSE k
<1>0. /\ N \in Nat /\ N >= 1 /\ StageId = 1..N /\ ctl.index \in 1..N
      /\ k \in Nat /\ k \in ctl.index..(N + 1) /\ exit \in Nat /\ at \in Nat
      /\ exit = k \/ (exit \in (k + 1)..(N + 1) /\ k <= N)
  BY PlanFacts, Crossed DEF Reaches
<1>1. /\ ctl.prevRate \in Nat /\ ctl.prevCap \in Nat \ {0} /\ ctl.limited \in BOOLEAN /\ CtlTypeOK
  BY DEF CtlInv, CtlTypeOK
<1>2. win \in [StageId -> Windows] /\ FirstHold(ctl, win) \in Nat \cup {NoTime}
  BY <1>1, RolledTells, FirstHoldType
<1>3. OpensAt(ctl, k) \in Nat /\ OpensAt(ctl, N + 1) \in Nat /\ stop \in Nat
  <2>1. N + 1 \in ctl.index..(N + 1)
    BY <1>0
  <2>2. OpensAt(ctl, k) \in Nat /\ OpensAt(ctl, N + 1) \in Nat
    BY <1>0, <2>1, Crossed
  <2> QED BY <1>0, <2>2
<1> HIDE DEF win, stop
<1>4. ctl' = [index     |-> IF exit # N + 1 THEN exit ELSE IF k = N + 1 THEN N ELSE k,
              start     |-> IF exit = N + 1 THEN stop ELSE IF exit = k THEN OpensAt(ctl, k) ELSE at,
              prevRate  |-> IF left < ctl.index THEN ctl.prevRate ELSE Stages[left].rate,
              prevCap   |-> IF left < ctl.index THEN ctl.prevCap ELSE Stages[left].cap,
              win       |-> win,
              holdStart |-> FirstHold(ctl, win),
              end       |-> IF exit = N + 1 THEN stop ELSE NoTime,
              last      |-> IF exit = N + 1 THEN stop ELSE at,
              limited   |-> IF exit = N + 1 /\ left = ctl.index THEN ctl.limited ELSE limited]
  BY DEF Moved, win, stop
<1>5. ctl'.win = win
  BY <1>4
<1>6. exit <= N \/ exit = N + 1
  BY <1>0
<1>7. exit <= N => /\ ctl'.index = exit /\ ctl'.end = NoTime /\ ctl'.last = at
                   /\ ctl'.start = (IF exit = k THEN OpensAt(ctl, k) ELSE at)
  BY <1>0, <1>4
<1>8. exit = N + 1 => /\ ctl'.index = (IF k = N + 1 THEN N ELSE k)
                      /\ ctl'.end = (IF k = N + 1 THEN OpensAt(ctl, N + 1) ELSE at)
  BY <1>0, <1>4 DEF stop
<1>9. ctl'.index \in StageId /\ ctl'.start \in Nat /\ ctl'.end \in Nat \cup {NoTime} /\ ctl'.last \in Nat
  BY <1>0, <1>3, <1>4
<1>10. /\ ctl'.prevRate \in Nat /\ ctl'.prevCap \in Nat \ {0}
       /\ ctl'.prevCap = ctl.prevCap \/ \E j \in StageId : ctl'.prevCap = Stages[j].cap
  <2>1. left >= ctl.index => left \in StageId
    BY <1>0
  <2>2. CASE left < ctl.index
    BY <1>1, <1>4, <2>2
  <2>3. CASE left >= ctl.index
    <3>1. left \in StageId /\ ~(left < ctl.index)
      BY <1>0, <2>1, <2>3
    <3> QED BY <1>4, <3>1, PlanFacts
  <2> QED BY <1>0, <2>2, <2>3
<1>11. ctl'.limited \in BOOLEAN
  <2>0. ctl'.limited = (IF exit = N + 1 /\ left = ctl.index THEN ctl.limited ELSE limited)
    BY <1>4
  <2>1. CASE exit = N + 1 /\ left = ctl.index
    <3>1. ctl'.limited = ctl.limited
      BY <2>0, <2>1
    <3> QED BY <1>1, <3>1
  <2>2. CASE ~(exit = N + 1 /\ left = ctl.index)
    <3>1. ctl'.limited = limited
      BY <2>0, <2>2
    <3> QED BY <3>1
  <2> QED BY <2>1, <2>2
<1>12. ctl'.holdStart \in Nat \cup {NoTime}
  BY <1>2, <1>4
<1>13. ctl' \in [index : StageId, start : Nat, prevRate : Nat, prevCap : Nat \ {0},
                 win : [StageId -> Windows], holdStart : Nat \cup {NoTime},
                 end : Nat \cup {NoTime}, last : Nat, limited : BOOLEAN]
  <2>1. ctl' = [index |-> ctl'.index, start |-> ctl'.start, prevRate |-> ctl'.prevRate,
                prevCap |-> ctl'.prevCap, win |-> ctl'.win, holdStart |-> ctl'.holdStart,
                end |-> ctl'.end, last |-> ctl'.last, limited |-> ctl'.limited]
    BY <1>4, Zenon
  <2> QED BY <1>2, <1>5, <1>9, <1>10, <1>11, <1>12, <2>1
<1> QED BY <1>5, <1>6, <1>7, <1>8, <1>10, <1>13 DEF win

\* An advance keeps the invariant and rewrites no window that was closed.
LEMMA MovedKeeps ==
    ASSUME CtlInv, now' \in Nat, NEW at, NEW k, NEW exit, NEW limited \in BOOLEAN,
           Reaches(at, k, exit), ctl' = Moved(ctl, at, k, exit, limited)
    PROVE  CtlInv' /\ \A j \in StageId : ctl.win[j].complete => ctl'.win[j] = ctl.win[j]
<1> DEFINE w == Rolled(ctl, at, k, exit, limited)
           c == ctl.index
<1>0. /\ N \in Nat /\ N >= 1 /\ StageId = 1..N /\ c \in 1..N /\ ctl.start \in Nat
      /\ k \in Nat /\ k \in c..(N + 1) /\ exit \in Nat /\ at \in Nat
      /\ exit = k \/ (exit \in (k + 1)..(N + 1) /\ k <= N)
      /\ at <= now' /\ now' \in Nat
  BY PlanFacts, Crossed DEF Reaches
<1>1. /\ ctl.win \in [StageId -> Windows] /\ ctl.win[c].opened /\ ctl.win[c].start = ctl.start
      /\ ~ctl.win[c].complete
      /\ \A j \in StageId : j > c => ~ctl.win[j].opened
      /\ \A j \in StageId : ctl.win[j].complete => ctl.win[j].opened
      /\ ExactStages /\ WindowsTile /\ NoHoldSkipped
  BY DEF CtlInv, CtlTypeOK, LastIsOpen, PlanHolds, Reaches
<1>2. /\ w \in [StageId -> Windows]
      /\ \A j \in StageId : j < c => w[j] = ctl.win[j]
      /\ \A j \in c..(k - 1) :
           /\ w[j].opened /\ w[j].complete
           /\ w[j].start = OpensAt(ctl, j) /\ w[j].end = OpensAt(ctl, j + 1)
           /\ w[j].limited <= w[j].end - w[j].start
      /\ k <= N => /\ w[k].opened /\ (w[k].complete <=> exit # k)
                   /\ w[k].start = OpensAt(ctl, k) /\ w[k].end = at
                   /\ w[k].limited <= at - w[k].start
                   /\ exit # k => w[k].reason = "inflight_limit"
      /\ exit <= N /\ exit # k => w[exit] = Fresh(at)
      /\ \A j \in StageId : j > k /\ j # exit => w[j] = Unopened
  BY RolledTells
<1>3. /\ ctl'.win = w
      /\ ctl' \in [index : StageId, start : Nat, prevRate : Nat, prevCap : Nat \ {0},
                   win : [StageId -> Windows], holdStart : Nat \cup {NoTime},
                   end : Nat \cup {NoTime}, last : Nat, limited : BOOLEAN]
      /\ exit <= N => /\ ctl'.index = exit /\ ctl'.end = NoTime /\ ctl'.last = at
                      /\ ctl'.start = (IF exit = k THEN OpensAt(ctl, k) ELSE at)
      /\ exit = N + 1 => ctl'.index = (IF k = N + 1 THEN N ELSE k) /\ ctl'.end # NoTime
      /\ exit <= N \/ exit = N + 1
  <2>1. N + 1 \in c..(N + 1)
    BY <1>0
  <2>2. OpensAt(ctl, N + 1) \in Nat
    BY <2>1, Crossed
  <2>3. exit = N + 1 => ctl'.end # NoTime
    BY <1>0, <2>2, MovedTells DEF NoTime
  <2> QED BY <2>3, MovedTells
<1>4. /\ OpensAt(ctl, c) = ctl.start
      /\ \A j \in c..(N + 1) : OpensAt(ctl, j) \in Nat
      /\ \A j \in c..N : OpensAt(ctl, j + 1) = OpensAt(ctl, j) + Stages[j].dur
      /\ k <= N => OpensAt(ctl, k) <= at /\ at < OpensAt(ctl, k + 1)
  BY Crossed
<1>5. exit # k => k <= N /\ Stages[k].kind = "warmup" /\ NextHold(k, exit)
  BY <1>0 DEF Reaches
<1> HIDE DEF w, c
<1>6. \A j \in StageId : \/ j < c
                         \/ j \in c..(k - 1)
                         \/ j = k
                         \/ j = exit /\ exit # k
                         \/ j > k /\ j # exit
  BY <1>0
<1>7. Unopened.opened = FALSE /\ Unopened.complete = FALSE /\ Unopened.limited = 0 /\ Unopened.end = 0
      /\ Unopened.start = 0
  BY DEF Unopened
<1>8. Fresh(at).opened = TRUE /\ Fresh(at).complete = FALSE /\ Fresh(at).limited = 0
      /\ Fresh(at).end = at /\ Fresh(at).start = at
  BY DEF Fresh
<1>9. CtlTypeOK'
  BY <1>0, <1>3 DEF CtlTypeOK
<1>10. \A j \in StageId : w[j].opened =>
          \/ j < c /\ ctl.win[j].opened
          \/ j \in c..k
          \/ j = exit /\ exit # k /\ exit <= N
  BY <1>0, <1>2, <1>6, <1>7
<1>11. \A j \in StageId : w[j].complete => w[j].opened
  BY <1>0, <1>1, <1>2, <1>6, <1>7, <1>8
<1>12. LastIsOpen'
  <2>1. w[ctl'.index].opened
    <3>1. CASE exit = k /\ k <= N
      BY <1>2, <1>3, <3>1
    <3>2. CASE exit # k /\ exit <= N
      BY <1>2, <1>3, <1>8, <3>2
    <3>3. CASE exit = N + 1 /\ k <= N
      <4>1. ctl'.index = k
        BY <1>0, <1>3, <3>3
      <4> QED BY <1>2, <3>3, <4>1
    <3>4. CASE exit = N + 1 /\ k = N + 1
      <4>1. ctl'.index = N /\ N \in c..(k - 1)
        BY <1>0, <1>3, <3>4
      <4> QED BY <1>2, <4>1
    <3> QED BY <1>0, <3>1, <3>2, <3>3, <3>4
  <2>2. \A j \in StageId : j > ctl'.index => ~w[j].opened
    <3>1. CASE exit <= N
      <4>1. ctl'.index = exit
        BY <1>3, <3>1
      <4> QED BY <1>0, <1>10, <4>1
    <3>2. CASE exit = N + 1
      <4>1. ctl'.index = (IF k = N + 1 THEN N ELSE k)
        BY <1>3, <3>2
      <4> QED BY <1>0, <1>10, <3>2, <4>1
    <3> QED BY <1>3, <3>1, <3>2
  <2>3. ASSUME exit <= N
        PROVE  /\ w[exit].start = ctl'.start /\ ~w[exit].complete
               /\ ctl'.start <= at /\ at < ctl'.start + Stages[exit].dur
               /\ w[exit].limited <= at - ctl'.start
    <3>1. CASE exit = k
      <4>1. OpensAt(ctl, k + 1) = OpensAt(ctl, k) + Stages[k].dur
        <5>1. k \in c..N
          BY <1>0, <2>3, <3>1
        <5> QED BY <1>4, <5>1
      <4>2. ctl'.start = OpensAt(ctl, k) /\ OpensAt(ctl, k) <= at /\ at < OpensAt(ctl, k + 1)
        BY <1>3, <1>4, <2>3, <3>1
      <4> QED BY <1>2, <2>3, <3>1, <4>1, <4>2
    <3>2. CASE exit # k
      <4>1. Stages[exit].dur \in Nat \ {0}
        BY <1>0, <2>3, PlanFacts
      <4>2. ctl'.start = at
        BY <1>3, <2>3, <3>2
      <4>3. w[exit] = Fresh(at)
        BY <1>2, <2>3, <3>2
      <4> QED BY <1>0, <1>8, <4>1, <4>2, <4>3
    <3> QED BY <3>1, <3>2
  <2>4. ~Done(ctl') => exit <= N
    BY <1>3 DEF Done
  <2>5. ~Done(ctl') => /\ w[ctl'.index].start = ctl'.start /\ ~w[ctl'.index].complete
                       /\ ctl'.start <= ctl'.last /\ ctl'.last <= now'
                       /\ ctl'.last < Deadline(ctl')
                       /\ w[ctl'.index].limited <= ctl'.last - ctl'.start
    <3>1. SUFFICES ASSUME exit <= N
                   PROVE /\ w[ctl'.index].start = ctl'.start /\ ~w[ctl'.index].complete
                         /\ ctl'.start <= ctl'.last /\ ctl'.last <= now'
                         /\ ctl'.last < Deadline(ctl')
                         /\ w[ctl'.index].limited <= ctl'.last - ctl'.start
      BY <2>4
    <3>2. ctl'.index = exit /\ ctl'.last = at
      BY <1>3, <3>1
    <3>3. Deadline(ctl') = ctl'.start + Stages[exit].dur
      BY <3>2 DEF Deadline
    <3> QED BY <1>0, <2>3, <3>1, <3>2, <3>3
  <2> QED BY <1>3, <1>11, <2>1, <2>2, <2>5 DEF LastIsOpen
<1>13. ExactStages'
  <2> SUFFICES ASSUME NEW j \in StageId, w[j].complete
               PROVE  \/ w[j].end = w[j].start + Stages[j].dur
                      \/ /\ w[j].reason = "inflight_limit"
                         /\ Stages[j].kind = "warmup"
                         /\ w[j].end < w[j].start + Stages[j].dur
    BY <1>3 DEF ExactStages
  <2>1. CASE j < c
    BY <1>1, <1>2, <2>1 DEF ExactStages
  <2>2. CASE j \in c..(k - 1)
    <3>1. j \in c..N
      BY <1>0, <2>2
    <3> QED BY <1>2, <1>4, <2>2, <3>1
  <2>3. CASE j = k
    <3>1. k <= N /\ k \in c..N
      BY <1>0, <2>3
    <3>2. OpensAt(ctl, k + 1) = OpensAt(ctl, k) + Stages[k].dur
      BY <1>4, <3>1
    <3> QED BY <1>2, <1>4, <1>5, <2>3, <3>1, <3>2
  <2>4. CASE j = exit /\ exit # k
    BY <1>0, <1>2, <1>8, <2>4
  <2>5. CASE j > k /\ j # exit
    BY <1>2, <1>7, <2>5
  <2> QED BY <1>6, <2>1, <2>2, <2>3, <2>4, <2>5
<1>14. WindowsTile'
  <2>1. ASSUME NEW i \in StageId, NEW j \in StageId, i < j, w[i].opened, w[j].opened,
               \A m \in (i + 1)..(j - 1) : ~w[m].opened
        PROVE  w[i].end = w[j].start /\ w[i].complete
    <3>1. CASE j < c
      <4>1. /\ i < c /\ w[i] = ctl.win[i] /\ w[j] = ctl.win[j]
            /\ \A m \in (i + 1)..(j - 1) : m \in StageId /\ m < c
        BY <1>0, <1>2, <2>1, <3>1
      <4>2. \A m \in (i + 1)..(j - 1) : ~ctl.win[m].opened
        BY <1>2, <2>1, <4>1
      <4> QED BY <1>1, <2>1, <4>1, <4>2 DEF WindowsTile
    <3>2. CASE j = c
      <4>1. /\ i < c /\ w[i] = ctl.win[i]
            /\ \A m \in (i + 1)..(j - 1) : m \in StageId /\ m < c
        BY <1>0, <1>2, <2>1, <3>2
      <4>2. \A m \in (i + 1)..(j - 1) : ~ctl.win[m].opened
        BY <1>2, <2>1, <4>1
      <4>3. ctl.win[i].end = ctl.win[j].start /\ ctl.win[i].complete
        BY <1>1, <2>1, <3>2, <4>1, <4>2 DEF WindowsTile
      <4>4. w[c].start = ctl.start
        <5>1. CASE c = k
          BY <1>0, <1>2, <1>4, <5>1
        <5>2. CASE c # k
          <6>1. c \in c..(k - 1)
            BY <1>0, <5>2
          <6> QED BY <1>2, <1>4, <6>1
        <5> QED BY <5>1, <5>2
      <4> QED BY <1>1, <3>2, <4>1, <4>3, <4>4
    <3>3. CASE j > c /\ j <= k
      <4>1. j - 1 \in c..(k - 1) /\ (j - 1) + 1 = j
        BY <1>0, <3>3
      <4>2. i = j - 1
        <5>1. w[j - 1].opened
          BY <1>2, <4>1
        <5> QED BY <1>0, <2>1, <4>1, <5>1
      <4>3. w[i].end = OpensAt(ctl, j) /\ w[i].complete
        BY <1>2, <4>1, <4>2
      <4>4. w[j].start = OpensAt(ctl, j)
        <5>1. j \in c..(k - 1) \/ (j = k /\ k <= N)
          BY <1>0, <3>3
        <5> QED BY <1>2, <5>1
      <4> QED BY <4>3, <4>4
    <3>4. CASE j > k
      <4>1. j = exit /\ exit # k /\ exit <= N /\ k <= N /\ k \in StageId
        BY <1>0, <1>10, <2>1, <3>4
      <4>2. w[k].opened /\ w[k].end = at /\ w[k].complete /\ w[exit].start = at
        BY <1>2, <1>8, <4>1
      <4>3. i <= k
        <5>1. i \in c..k \/ i < c
          BY <1>0, <1>10, <2>1, <4>1
        <5> QED BY <1>0, <5>1
      <4>4. i = k
        BY <1>0, <2>1, <3>4, <4>1, <4>2, <4>3
      <4> QED BY <4>1, <4>2, <4>4
    <3> QED BY <1>0, <3>1, <3>2, <3>3, <3>4
  <2>2. ASSUME NEW j \in StageId PROVE w[j].limited <= w[j].end - w[j].start
    <3>1. CASE j < c
      BY <1>1, <1>2, <3>1 DEF WindowsTile
    <3>2. CASE j \in c..(k - 1)
      BY <1>2, <3>2
    <3>3. CASE j = k
      BY <1>0, <1>2, <3>3
    <3>4. CASE j = exit /\ exit # k
      BY <1>0, <1>2, <1>8, <3>4
    <3>5. CASE j > k /\ j # exit
      BY <1>2, <1>7, <3>5
    <3> QED BY <1>6, <3>1, <3>2, <3>3, <3>4, <3>5
  <2> QED BY <1>3, <2>1, <2>2 DEF WindowsTile
<1>15. NoHoldSkipped'
  <2> SUFFICES ASSUME NEW j \in 1..ctl'.index, Stages[j].kind = "hold" PROVE w[j].opened
    BY <1>3 DEF NoHoldSkipped
  <2>1. ctl'.index \in 1..N /\ j \in StageId /\ (j <= k \/ j <= exit)
    <3>1. ctl'.index \in 1..N
      BY <1>0, <1>3
    <3>2. ctl'.index <= k \/ ctl'.index <= exit
      BY <1>0, <1>3
    <3> QED BY <1>0, <3>1, <3>2
  <2>2. CASE j < c
    BY <1>0, <1>1, <1>2, <2>1, <2>2 DEF NoHoldSkipped, c
  <2>3. CASE j \in c..(k - 1)
    BY <1>2, <2>3
  <2>4. CASE j = k
    BY <1>0, <1>2, <2>1, <2>4
  <2>5. CASE j = exit /\ exit # k
    BY <1>0, <1>2, <1>8, <2>1, <2>5
  <2>6. CASE j > k /\ j # exit
    <3>1. exit # k /\ j \in (k + 1)..(exit - 1)
      BY <1>0, <2>1, <2>6
    <3> QED BY <1>5, <3>1 DEF NextHold
  <2> QED BY <1>6, <2>1, <2>2, <2>3, <2>4, <2>5, <2>6
<1>16. \A j \in StageId : ctl.win[j].complete => w[j] = ctl.win[j]
  <2>1. \A j \in StageId : ctl.win[j].complete => j < c
    BY <1>0, <1>1
  <2> QED BY <1>2, <2>1
<1> QED BY <1>3, <1>9, <1>12, <1>13, <1>14, <1>15, <1>16 DEF CtlInv, PlanHolds

\* The controller starts in the first window.
LEMMA CtlStarts == CtlInit => CtlInv
<1> SUFFICES ASSUME CtlInit PROVE CtlInv
  OBVIOUS
<1>1. /\ N \in Nat /\ N >= 1 /\ StageId = 1..N /\ 1 \in StageId /\ Stages[1].dur \in Nat \ {0}
      /\ Rate0 \in Nat /\ Cap0 \in Nat \ {0}
  BY PlanFacts, PlanAssumption
<1>2. /\ Fresh(0) \in Windows /\ Fresh(0).opened = TRUE /\ Fresh(0).complete = FALSE
      /\ Fresh(0).limited = 0 /\ Fresh(0).end = 0 /\ Fresh(0).start = 0
  BY DEF Fresh, Windows, EndReasons
<1>3. /\ Unopened \in Windows /\ Unopened.opened = FALSE /\ Unopened.complete = FALSE
      /\ Unopened.limited = 0 /\ Unopened.end = 0 /\ Unopened.start = 0
  BY DEF Unopened, Windows, EndReasons
<1>4. /\ now = 0 /\ ctl.index = 1 /\ ctl.start = 0 /\ ctl.last = 0 /\ ctl.end = NoTime
      /\ ctl.win = [j \in StageId |-> IF j = 1 THEN Fresh(0) ELSE Unopened]
  BY DEF CtlInit
<1>5. ctl.win \in [StageId -> Windows]
  BY <1>2, <1>3, <1>4
<1>6. /\ ctl.win[1] = Fresh(0)
      /\ \A j \in StageId : j # 1 => ctl.win[j] = Unopened
  BY <1>1, <1>4
<1>7. CtlTypeOK
  BY <1>1, <1>5, <1>4 DEF CtlInit, CtlTypeOK
<1>8. LastIsOpen
  BY <1>1, <1>2, <1>3, <1>4, <1>6 DEF LastIsOpen, Done, Deadline
<1>9. \A j \in StageId : ~ctl.win[j].complete /\ ctl.win[j].limited <= ctl.win[j].end - ctl.win[j].start
  BY <1>1, <1>2, <1>3, <1>6
<1>10. \A i, j \in StageId : i < j => ~ctl.win[j].opened
  BY <1>1, <1>3, <1>6
<1>11. ExactStages /\ WindowsTile
  BY <1>9, <1>10 DEF ExactStages, WindowsTile
<1>12. NoHoldSkipped
  BY <1>1, <1>2, <1>4, <1>6 DEF NoHoldSkipped
<1> QED BY <1>7, <1>8, <1>11, <1>12 DEF CtlInv, PlanHolds

\* advance() is one of these moves, unless the load is over.
LEMMA AdvanceMoves ==
    ASSUME CtlInv, NEW at \in Nat, at <= now', ~Done(ctl), ctl.last <= at,
           NEW n, NEW limited \in BOOLEAN, Advance(at, n, limited)
    PROVE  \E k, exit \in Nat : Reaches(at, k, exit) /\ ctl' = Moved(ctl, at, k, exit, limited)
<1>1. PICK k \in ctl.index..(N + 1) :
          /\ Lands(ctl, at, k)
          /\ IF Capped(k, n)
             THEN \E h \in (k + 1)..(N + 1) :
                     NextHold(k, h) /\ ctl' = Moved(ctl, at, k, h, limited)
             ELSE ctl' = Moved(ctl, at, k, k, limited)
  BY DEF Advance
<1>2. CASE Capped(k, n)
  <2>1. PICK h \in (k + 1)..(N + 1) : NextHold(k, h) /\ ctl' = Moved(ctl, at, k, h, limited)
    BY <1>1, <1>2
  <2>2. Reaches(at, k, h)
    BY <1>1, <1>2, <2>1 DEF Reaches, Capped
  <2>3. k \in Nat /\ h \in Nat
    BY <2>2, Crossed
  <2> QED BY <2>1, <2>2, <2>3
<1>3. CASE ~Capped(k, n)
  <2>1. Reaches(at, k, k)
    BY <1>1 DEF Reaches
  <2>2. k \in Nat
    BY <2>1, Crossed
  <2> QED BY <1>1, <1>3, <2>1, <2>2
<1> QED BY <1>2, <1>3

\* advance() keeps the invariant and the windows that were closed.
LEMMA AdvanceKeeps ==
    ASSUME CtlInv, now' \in Nat, NEW at \in Nat, at <= now', ~Done(ctl) => ctl.last <= at,
           NEW n, NEW limited \in BOOLEAN, Advance(at, n, limited)
    PROVE  /\ CtlInv'
           /\ \A j \in StageId : ctl.win[j].complete => ctl'.win[j] = ctl.win[j]
           /\ Done(ctl) => ctl' = ctl
<1>1. CASE Done(ctl)
  <2>1. ctl' = ctl
    BY <1>1 DEF Advance
  <2> QED BY <1>1, <2>1 DEF CtlInv, CtlTypeOK, LastIsOpen, PlanHolds, ExactStages, WindowsTile,
                            NoHoldSkipped, Done
<1>2. CASE ~Done(ctl)
  <2>1. PICK k, exit \in Nat : Reaches(at, k, exit) /\ ctl' = Moved(ctl, at, k, exit, limited)
    BY <1>2, AdvanceMoves
  <2> QED BY <1>2, <2>1, MovedKeeps
<1> QED BY <1>1, <1>2

\* The controller that an abort at `at` leaves, which ends at `stop`.
StopsAt(at, stop) ==
    /\ ctl.last <= stop /\ stop = (IF at < Deadline(ctl) THEN at ELSE Deadline(ctl))
    /\ ctl'.end = stop /\ ctl'.index = ctl.index
    /\ ctl'.start = ctl.start /\ ctl'.last = ctl.last
    /\ ctl'.prevRate = ctl.prevRate /\ ctl'.prevCap = ctl.prevCap
    /\ ctl'.holdStart = ctl.holdStart /\ ctl'.limited = ctl.limited
    /\ ctl' = [index |-> ctl'.index, start |-> ctl'.start, prevRate |-> ctl'.prevRate,
               prevCap |-> ctl'.prevCap, win |-> ctl'.win, holdStart |-> ctl'.holdStart,
               end |-> ctl'.end, last |-> ctl'.last, limited |-> ctl'.limited]
    /\ ctl'.win \in [StageId -> Windows]
    /\ \A j \in StageId : j # ctl.index => ctl'.win[j] = ctl.win[j]
    /\ ctl.win[ctl.index].start = ctl.start
    /\ LET cut == ctl'.win[ctl.index]
       IN  /\ cut \in Windows /\ cut.end = stop /\ cut.start = ctl.start /\ ~cut.complete /\ cut.opened
           /\ cut.limited = ctl.win[ctl.index].limited /\ cut.reason = "aborted"

\* What abort() does to a load that is not over.
LEMMA AbortTells ==
    ASSUME CtlInv, NEW at \in Nat, ~Done(ctl), ctl.last <= at, ctl' = Aborted(ctl, at)
    PROVE  \E stop \in Nat : StopsAt(at, stop)
<1> DEFINE c == ctl.index
           stop == IF at < Deadline(ctl) THEN at ELSE Deadline(ctl)
           cut == [ctl.win[c] EXCEPT !.end = stop, !.reason = "aborted"]
<1>1. CtlTypeOK /\ LastIsOpen /\ ExactStages /\ WindowsTile /\ NoHoldSkipped
  BY DEF CtlInv, PlanHolds
<1>2. /\ StageId = 1..N /\ N \in Nat /\ c \in StageId /\ ctl.win[c] \in Windows
      /\ ctl.start \in Nat /\ ctl.last \in Nat /\ Stages[c].dur \in Nat
      /\ ctl.last <= at /\ ctl.last < Deadline(ctl) /\ ctl.win[c].start = ctl.start
      /\ ctl.start <= ctl.last
      /\ ~ctl.win[c].complete /\ ctl.win[c].opened /\ ctl.win[c].limited <= ctl.last - ctl.start
  BY <1>1, PlanFacts DEF CtlTypeOK, LastIsOpen
<1>3. stop \in Nat /\ ctl.last <= stop
  BY <1>2 DEF Deadline
<1> HIDE DEF stop
<1>4. ctl' = [ctl EXCEPT !.win[c].end = stop, !.win[c].reason = "aborted", !.end = stop]
  BY DEF Aborted, stop
<1>5. /\ ctl'.win = [ctl.win EXCEPT ![c].end = stop, ![c].reason = "aborted"]
      /\ ctl'.end = stop /\ ctl'.index = c
      /\ ctl'.start = ctl.start /\ ctl'.last = ctl.last
      /\ ctl'.prevRate = ctl.prevRate /\ ctl'.prevCap = ctl.prevCap
      /\ ctl'.holdStart = ctl.holdStart /\ ctl'.limited = ctl.limited
  BY <1>1, <1>2, <1>4 DEF CtlTypeOK
<1>6. /\ cut \in Windows /\ cut.end = stop /\ cut.start = ctl.start /\ ~cut.complete /\ cut.opened
      /\ cut.limited = ctl.win[c].limited /\ cut.reason = "aborted"
  BY <1>2, <1>3 DEF Windows, EndReasons
<1> HIDE DEF cut, c
<1>7. /\ ctl'.win[c] = cut /\ \A j \in StageId : j # c => ctl'.win[j] = ctl.win[j]
      /\ ctl'.win \in [StageId -> Windows]
  <2>1. ctl.win \in [StageId -> Windows] /\ c \in StageId
    BY <1>1, <1>2 DEF CtlTypeOK
  <2>2. ctl'.win = [ctl.win EXCEPT ![c] = cut]
    BY <1>5, <2>1 DEF cut
  <2> QED BY <1>6, <2>1, <2>2
<1>8. ctl' = [index |-> ctl'.index, start |-> ctl'.start, prevRate |-> ctl'.prevRate,
              prevCap |-> ctl'.prevCap, win |-> ctl'.win, holdStart |-> ctl'.holdStart,
              end |-> ctl'.end, last |-> ctl'.last, limited |-> ctl'.limited]
  BY <1>1, <1>4 DEF CtlTypeOK
<1>9. StopsAt(at, stop)
  <2>1. stop = (IF at < Deadline(ctl) THEN at ELSE Deadline(ctl))
    BY DEF stop
  <2> QED BY <1>2, <1>3, <1>5, <1>6, <1>7, <1>8, <2>1 DEF StopsAt, c
<1> QED BY <1>3, <1>9

\* So does abort().
LEMMA AbortKeeps ==
    ASSUME CtlInv, now' \in Nat, NEW at \in Nat, ~Done(ctl) => ctl.last <= at,
           ctl' = Aborted(ctl, at)
    PROVE  /\ CtlInv' /\ Done(ctl')
           /\ \A j \in StageId : ctl.win[j].complete => ctl'.win[j] = ctl.win[j]
           /\ Done(ctl) => ctl' = ctl
<1>1. CASE Done(ctl)
  <2>1. ctl' = ctl
    BY <1>1 DEF Aborted
  <2> QED BY <1>1, <2>1 DEF CtlInv, CtlTypeOK, LastIsOpen, PlanHolds, ExactStages, WindowsTile,
                            NoHoldSkipped, Done
<1>2. CASE ~Done(ctl)
  <2> DEFINE c == ctl.index
             cut == ctl'.win[c]
  <2>0. PICK stop \in Nat : StopsAt(at, stop)
    BY <1>2, AbortTells
  <2>1. CtlTypeOK /\ LastIsOpen /\ ExactStages /\ WindowsTile /\ NoHoldSkipped
    BY DEF CtlInv, PlanHolds
  <2>2. /\ StageId = 1..N /\ N \in Nat /\ c \in StageId /\ ctl.win[c] \in Windows
        /\ ctl.start \in Nat /\ ctl.last \in Nat /\ Stages[c].dur \in Nat
        /\ ctl.start <= ctl.last
        /\ ~ctl.win[c].complete /\ ctl.win[c].opened /\ ctl.win[c].limited <= ctl.last - ctl.start
    BY <1>2, <2>1, PlanFacts DEF CtlTypeOK, LastIsOpen
  <2>3. stop \in Nat /\ ctl.last <= stop
    BY <2>0 DEF StopsAt
  <2>5. /\ ctl'.end = stop /\ ctl'.index = c
        /\ ctl'.start = ctl.start /\ ctl'.last = ctl.last
        /\ ctl'.prevRate = ctl.prevRate /\ ctl'.prevCap = ctl.prevCap
        /\ ctl'.holdStart = ctl.holdStart /\ ctl'.limited = ctl.limited
    BY <2>0 DEF StopsAt
  <2>6. /\ cut \in Windows /\ cut.end = stop /\ cut.start = ctl.start /\ ~cut.complete /\ cut.opened
        /\ cut.limited = ctl.win[c].limited
        /\ ctl.win[c].start = ctl.start
    BY <2>0 DEF StopsAt
  <2>7. /\ \A j \in StageId : j # c => ctl'.win[j] = ctl.win[j]
        /\ ctl'.win \in [StageId -> Windows]
    BY <2>0 DEF StopsAt
  <2>8. Done(ctl')
    BY <2>3, <2>5 DEF Done, NoTime
  <2> HIDE DEF c, cut
  <2>9. CtlTypeOK'
    <3>1. ctl' = [index |-> ctl'.index, start |-> ctl'.start, prevRate |-> ctl'.prevRate,
                  prevCap |-> ctl'.prevCap, win |-> ctl'.win, holdStart |-> ctl'.holdStart,
                  end |-> ctl'.end, last |-> ctl'.last, limited |-> ctl'.limited]
      BY <2>0 DEF StopsAt
    <3> QED BY <2>1, <2>2, <2>3, <2>5, <2>7, <3>1 DEF CtlTypeOK
  <2>10. LastIsOpen'
    BY <2>1, <2>2, <2>5, <2>6, <2>7, <2>8 DEF LastIsOpen, c, cut
  <2>11. ExactStages'
    BY <2>1, <2>6, <2>7 DEF ExactStages, cut
  <2>12. WindowsTile'
    <3>1. \A j \in StageId : j > c => ~ctl.win[j].opened
      BY <2>1 DEF LastIsOpen, c
    <3>2. \A j \in StageId : (ctl'.win[j].opened <=> ctl.win[j].opened) /\ ctl'.win[j].start = ctl.win[j].start
      BY <2>2, <2>6, <2>7 DEF cut
    <3>3. ASSUME NEW i \in StageId, NEW j \in StageId, i < j, ctl'.win[i].opened, ctl'.win[j].opened,
                 \A m \in (i + 1)..(j - 1) : ~ctl'.win[m].opened
          PROVE  ctl'.win[i].end = ctl'.win[j].start /\ ctl'.win[i].complete
      <4>1. j <= c /\ i # c
        <5>1. ctl.win[j].opened
          BY <3>2, <3>3
        <5>2. ~(j > c) /\ c \in Nat /\ j \in Nat /\ i \in Nat
          BY <2>2, <3>1, <5>1
        <5> QED BY <3>3, <5>2
      <4>2. ASSUME NEW m \in (i + 1)..(j - 1) PROVE m \in StageId /\ ~ctl.win[m].opened
        <5>1. m \in StageId
          BY <2>2
        <5> QED BY <3>2, <3>3, <5>1
      <4>3. ctl.win[i].end = ctl.win[j].start /\ ctl.win[i].complete
        BY <2>1, <3>2, <3>3, <4>2 DEF WindowsTile
      <4> QED BY <2>7, <3>2, <4>1, <4>3
    <3>4. \A j \in StageId : ctl'.win[j].limited <= ctl'.win[j].end - ctl'.win[j].start
      <4>1. ASSUME NEW j \in StageId PROVE ctl'.win[j].limited <= ctl'.win[j].end - ctl'.win[j].start
        <5>1. CASE j = c
          <6>1. ctl.win[c].limited \in Nat
            BY <2>2 DEF Windows
          <6>2. /\ ctl'.win[j].limited = ctl.win[c].limited
                /\ ctl'.win[j].end = stop /\ ctl'.win[j].start = ctl.start
            BY <2>6, <2>7, <5>1 DEF cut
          <6>3. /\ ctl.win[c].limited <= ctl.last - ctl.start /\ ctl.last \in Nat /\ ctl.start \in Nat
                /\ stop \in Nat /\ ctl.last <= stop
            BY <2>2, <2>3
          <6> QED BY <6>1, <6>2, <6>3
        <5>2. CASE j # c
          BY <2>1, <2>7, <5>2 DEF WindowsTile
        <5> QED BY <5>1, <5>2
      <4> QED BY <4>1
    <3> QED BY <3>3, <3>4 DEF WindowsTile
  <2>13. NoHoldSkipped'
    <3>1. \A j \in 1..c : j \in StageId
      BY <2>2
    <3> QED BY <2>1, <2>5, <2>6, <2>7, <3>1 DEF NoHoldSkipped, c, cut
  <2>14. \A j \in StageId : ctl.win[j].complete => ctl'.win[j] = ctl.win[j]
    BY <2>2, <2>7
  <2> QED BY <1>2, <2>8, <2>9, <2>10, <2>11, <2>12, <2>13, <2>14 DEF CtlInv, PlanHolds
<1> QED BY <1>1, <1>2

\* Every step of the controller, with its history.
LEMMA CtlStep ==
    CtlInv /\ [CtlNext]_ctlVars =>
        /\ CtlInv'
        /\ \A j \in StageId : ctl.win[j].complete => ctl'.win[j] = ctl.win[j]
        /\ Done(ctl) => ctl' = ctl
<1> SUFFICES ASSUME CtlInv, [CtlNext]_ctlVars
             PROVE  /\ CtlInv'
                    /\ \A j \in StageId : ctl.win[j].complete => ctl'.win[j] = ctl.win[j]
                    /\ Done(ctl) => ctl' = ctl
  OBVIOUS
<1>0. now \in Nat /\ (~Done(ctl) => ctl.last <= now)
  BY DEF CtlInv, CtlTypeOK, LastIsOpen
<1>1. CASE UNCHANGED ctl /\ now' \in Nat /\ now <= now'
  <2>1. CtlTypeOK' /\ PlanHolds'
    BY <1>1 DEF CtlInv, CtlTypeOK, PlanHolds, ExactStages, WindowsTile, NoHoldSkipped
  <2>2. ~Done(ctl) => ctl.last \in Nat /\ ctl.last <= now'
    BY <1>0, <1>1 DEF CtlInv, CtlTypeOK
  <2>3. LastIsOpen'
    BY <1>1, <2>2 DEF CtlInv, LastIsOpen, Done, Deadline
  <2> QED BY <1>1, <2>1, <2>3 DEF CtlInv
<1>2. CASE Tick \/ UNCHANGED ctlVars
  BY <1>0, <1>1, <1>2 DEF Tick, ctlVars
<1>3. CASE AdvanceAny
  BY <1>0, <1>3, AdvanceKeeps DEF AdvanceAny
<1>4. CASE AbortAny
  BY <1>0, <1>4, AbortKeeps DEF AbortAny
<1> QED BY <1>2, <1>3, <1>4 DEF CtlNext

\* The inductive invariant of the load controller (LoadController.advance and
\* abort): the newest window is the open one, and the others tile the past.
THEOREM ControllerInvariant == CtlSpec => []CtlInv
BY CtlStarts, CtlStep, PTL DEF CtlSpec

\* For any plan and any reports of time, load and blocking, however late: the
\* windows of a load are of the planned length and tile it, no hold is skipped,
\* and a closed window is never rewritten (LoadController.advance and abort).
THEOREM PlanIsKept == CtlSpec => PlanKept
<1>1. CtlInv => ExactStages /\ WindowsTile /\ NoHoldSkipped
  BY DEF CtlInv, PlanHolds
<1>2. CtlInv /\ [CtlNext]_ctlVars =>
         [/\ \A j \in StageId : ctl.win[j].complete => ctl'.win[j] = ctl.win[j]
          /\ Done(ctl) => ctl' = ctl]_ctlVars
  BY CtlStep
<1> QED BY <1>1, <1>2, ControllerInvariant, PTL DEF CtlSpec, PlanKept, ClosedIsFinal

-----------------------------------------------------------------------------
(* What the drive sees of the controller.                                  *)

\* An instant belongs to a window that held it, and to the load.
Placed(c, a) ==
    \E j \in StageId :
        /\ c.win[j].opened /\ c.win[j].start <= a
        /\ a < c.win[j].end \/ j = c.index
Fits(c, a) == Placed(c, a) /\ IF Done(c) THEN a <= c.end ELSE a < Deadline(c)

CutWindow(c) == \E j \in StageId : c.win[j].reason = "aborted"

\* The cap a ramp starts from is the plan's, or that of a stage.
CapsPlanned == ctl.prevCap = Cap0 \/ \E j \in StageId : ctl.prevCap = Stages[j].cap

\* Whatever fitted in still does after an advance at a later time.
LEMMA MovedFits ==
    ASSUME CtlInv, NEW at, NEW k, NEW exit, NEW limited \in BOOLEAN,
           Reaches(at, k, exit), ctl' = Moved(ctl, at, k, exit, limited),
           NEW a \in Nat, a <= at, Fits(ctl, a)
    PROVE  Fits(ctl', a)
<1> DEFINE w == Rolled(ctl, at, k, exit, limited)
           c == ctl.index
<1>0. /\ N \in Nat /\ N >= 1 /\ StageId = 1..N /\ c \in 1..N /\ ctl.start \in Nat
      /\ k \in Nat /\ k \in c..(N + 1) /\ exit \in Nat /\ at \in Nat
      /\ exit = k \/ (exit \in (k + 1)..(N + 1) /\ k <= N)
  BY PlanFacts, Crossed DEF Reaches
<1>1. ctl'.win = w
  BY MovedTells
<1>2. /\ \A j \in StageId : j < c => w[j] = ctl.win[j]
      /\ \A j \in c..(k - 1) : w[j].opened /\ w[j].start = OpensAt(ctl, j) /\ w[j].end = OpensAt(ctl, j + 1)
      /\ k <= N => w[k].opened /\ w[k].start = OpensAt(ctl, k) /\ w[k].end = at
      /\ exit <= N /\ exit # k => w[exit] = Fresh(at)
  BY RolledTells
<1>3. /\ exit <= N => /\ ctl'.index = exit /\ ctl'.end = NoTime /\ ctl'.last = at
                      /\ ctl'.start = (IF exit = k THEN OpensAt(ctl, k) ELSE at)
      /\ exit = N + 1 => /\ ctl'.index = (IF k = N + 1 THEN N ELSE k)
                         /\ ctl'.end = (IF k = N + 1 THEN OpensAt(ctl, N + 1) ELSE at)
      /\ exit <= N \/ exit = N + 1
  BY MovedTells
<1>4. /\ OpensAt(ctl, c) = ctl.start /\ OpensAt(ctl, c + 1) = Deadline(ctl)
      /\ \A j \in c..(N + 1) : OpensAt(ctl, j) \in Nat
      /\ \A j \in c..N : OpensAt(ctl, j + 1) = OpensAt(ctl, j) + Stages[j].dur
      /\ k <= N => OpensAt(ctl, k) <= at /\ at < OpensAt(ctl, k + 1)
  BY Crossed
<1>5. /\ ~Done(ctl) /\ a < Deadline(ctl)
      /\ \A j \in StageId : j > c => ~ctl.win[j].opened
      /\ ctl.win[c].start = ctl.start
  BY DEF Fits, Reaches, CtlInv, LastIsOpen
<1>6. PICK j \in StageId : /\ ctl.win[j].opened /\ ctl.win[j].start <= a
                           /\ a < ctl.win[j].end \/ j = c
  BY DEF Fits, Placed
<1> HIDE DEF w, c
<1>7. Fresh(at).opened = TRUE /\ Fresh(at).start = at
  BY DEF Fresh
<1>8. Placed(ctl', a)
  <2>1. CASE j < c
    BY <1>0, <1>1, <1>2, <1>6, <2>1 DEF Placed
  <2>2. CASE j = c
    <3>1. CASE k = c
      <4>1. w[c].opened /\ w[c].start <= a /\ w[c].end = at /\ k <= N /\ c \in StageId
        BY <1>0, <1>2, <1>4, <1>5, <1>6, <2>2, <3>1
      <4>2. CASE exit = k \/ exit = N + 1
        <5>1. ctl'.index = c
          BY <1>0, <1>3, <3>1, <4>1, <4>2
        <5> QED BY <1>1, <4>1, <5>1 DEF Placed
      <4>3. CASE exit # k /\ exit <= N /\ a < at
        BY <1>1, <4>1, <4>3 DEF Placed
      <4>4. CASE exit # k /\ exit <= N /\ a = at
        <5>1. w[exit].opened /\ w[exit].start <= a /\ ctl'.index = exit /\ exit \in StageId
          BY <1>0, <1>2, <1>3, <1>7, <4>4
        <5> QED BY <1>1, <5>1 DEF Placed
      <4> QED BY <1>0, <1>3, <4>2, <4>3, <4>4
    <3>2. CASE k # c
      <4>1. c \in c..(k - 1) /\ c \in StageId
        BY <1>0, <3>2
      <4>2. w[c].opened /\ w[c].start = ctl.start /\ w[c].end = Deadline(ctl)
        BY <1>2, <1>4, <4>1
      <4> QED BY <1>1, <1>5, <1>6, <2>2, <4>1, <4>2 DEF Placed
    <3> QED BY <3>1, <3>2
  <2>3. CASE j > c
    BY <1>5, <1>6, <2>3
  <2> QED BY <1>0, <2>1, <2>2, <2>3
<1>9. CASE exit <= N
  <2>1. ~Done(ctl')
    BY <1>3, <1>9 DEF Done
  <2>2. CASE exit = k
    <3>1. OpensAt(ctl, k + 1) = OpensAt(ctl, k) + Stages[k].dur
      <4>1. k \in c..N
        BY <1>0, <1>9, <2>2
      <4> QED BY <1>4, <4>1
    <3>2. Deadline(ctl') = OpensAt(ctl, k + 1)
      BY <1>3, <1>9, <2>2, <3>1 DEF Deadline
    <3>3. OpensAt(ctl, k + 1) \in Nat /\ at < OpensAt(ctl, k + 1)
      <4>1. k + 1 \in c..(N + 1)
        BY <1>0, <1>9, <2>2
      <4> QED BY <1>4, <1>9, <2>2, <4>1
    <3> QED BY <1>0, <1>8, <2>1, <3>2, <3>3 DEF Fits
  <2>3. CASE exit # k
    <3>1. Deadline(ctl') = at + Stages[exit].dur
      BY <1>3, <1>9, <2>3 DEF Deadline
    <3>2. Stages[exit].dur \in Nat \ {0}
      BY <1>0, <1>9, PlanFacts
    <3> QED BY <1>0, <1>8, <2>1, <3>1, <3>2 DEF Fits
  <2> QED BY <2>2, <2>3
<1>10. CASE exit = N + 1
  <2>1. ctl'.end \in Nat /\ a <= ctl'.end
    <3>1. CASE k <= N
      BY <1>0, <1>3, <1>10, <3>1
    <3>2. CASE k = N + 1
      <4>1. Deadline(ctl) <= OpensAt(ctl, N + 1) /\ OpensAt(ctl, N + 1) \in Nat /\ Deadline(ctl) \in Nat
        <5>1. /\ Offset[c + 1] <= Offset[N + 1] /\ Offset[c] \in Nat /\ Offset[c + 1] \in Nat
              /\ Offset[N + 1] \in Nat
          <6>1. c \in 1..(N + 1) /\ c + 1 \in 1..(N + 1) /\ N + 1 \in 1..(N + 1) /\ c + 1 <= N + 1
            BY <1>0
          <6>2. Offset[c + 1] <= Offset[N + 1]
            BY <6>1, OffsetsGrow
          <6>3. \A m \in 1..(N + 1) : Offset[m] \in Nat
            BY PlanFacts
          <6> QED BY <6>1, <6>2, <6>3
        <5>2. /\ OpensAt(ctl, N + 1) = ctl.start + (Offset[N + 1] - Offset[c])
              /\ OpensAt(ctl, c + 1) = ctl.start + (Offset[c + 1] - Offset[c])
          BY DEF OpensAt, c
        <5>3. OpensAt(ctl, N + 1) \in Nat /\ OpensAt(ctl, c + 1) \in Nat
          <6>1. c + 1 \in c..(N + 1) /\ N + 1 \in c..(N + 1)
            BY <1>0
          <6> QED BY <1>4, <6>1
        <5>4. ctl.start \in Nat /\ OpensAt(ctl, c + 1) = Deadline(ctl)
          BY <1>0, <1>4
        <5>5. OpensAt(ctl, c + 1) <= OpensAt(ctl, N + 1)
          BY <5>1, <5>2, <5>4
        <5> QED BY <5>3, <5>4, <5>5
      <4> QED BY <1>3, <1>5, <1>10, <3>2, <4>1
    <3> QED BY <1>0, <3>1, <3>2
  <2>2. Done(ctl')
    BY <2>1 DEF Done, NoTime
  <2> QED BY <1>8, <2>1, <2>2 DEF Fits
<1> QED BY <1>3, <1>9, <1>10

\* An advance takes no place from an arrival, cuts no window and keeps the caps.
LEMMA AdvancePlaces ==
    ASSUME CtlInv, NEW at \in Nat, at <= now', ~Done(ctl) => ctl.last <= at,
           NEW n, NEW limited \in BOOLEAN, Advance(at, n, limited)
    PROVE  /\ \A a \in Nat : a <= at /\ Fits(ctl, a) => Fits(ctl', a)
           /\ CutWindow(ctl') => CutWindow(ctl)
           /\ CapsPlanned => CapsPlanned'
<1>1. CASE Done(ctl)
  <2>1. ctl' = ctl
    BY <1>1 DEF Advance
  <2> QED BY <2>1 DEF CapsPlanned
<1>2. CASE ~Done(ctl)
  <2>1. PICK k, exit \in Nat : Reaches(at, k, exit) /\ ctl' = Moved(ctl, at, k, exit, limited)
    BY <1>2, AdvanceMoves
  <2>2. \A a \in Nat : a <= at /\ Fits(ctl, a) => Fits(ctl', a)
    BY <2>1, MovedFits
  <2>3. CutWindow(ctl') => CutWindow(ctl)
    <3>1. ctl'.win = Rolled(ctl, at, k, exit, limited)
      BY <2>1, MovedTells
    <3>2. /\ \A j \in StageId : j < ctl.index => ctl'.win[j] = ctl.win[j]
          /\ \A j \in StageId : j >= ctl.index => ctl'.win[j].reason # "aborted"
      BY <2>1, <3>1, RolledTells
    <3>3. \A j \in StageId : j < ctl.index \/ j >= ctl.index
      BY <2>1, Crossed, PlanFacts
    <3> QED BY <3>2, <3>3 DEF CutWindow
  <2>4. CapsPlanned => CapsPlanned'
    BY <2>1, MovedTells DEF CapsPlanned
  <2> QED BY <2>2, <2>3, <2>4
<1> QED BY <1>1, <1>2

\* Nor does an abort, which cuts the open window if there is one.
LEMMA AbortPlaces ==
    ASSUME CtlInv, NEW at \in Nat, ~Done(ctl) => ctl.last <= at, ctl' = Aborted(ctl, at)
    PROVE  /\ \A a \in Nat : a <= at /\ Fits(ctl, a) => Fits(ctl', a)
           /\ ~Done(ctl) => CutWindow(ctl')
           /\ CapsPlanned => CapsPlanned'
<1>1. CASE Done(ctl)
  <2>1. ctl' = ctl
    BY <1>1 DEF Aborted
  <2> QED BY <1>1, <2>1 DEF CapsPlanned
<1>2. CASE ~Done(ctl)
  <2>1. PICK stop \in Nat : StopsAt(at, stop)
    BY <1>2, AbortTells
  <2>2. ctl.index \in StageId /\ Deadline(ctl) \in Nat
    BY PlanFacts DEF CtlInv, CtlTypeOK, Deadline
  <2>3. ASSUME NEW a \in Nat, a <= at, Fits(ctl, a) PROVE Fits(ctl', a)
    <3>1. a < Deadline(ctl) /\ Placed(ctl, a)
      BY <1>2, <2>3 DEF Fits
    <3>2. a <= stop
      BY <2>2, <2>3, <3>1, <2>1 DEF StopsAt
    <3>3. PICK j \in StageId : /\ ctl.win[j].opened /\ ctl.win[j].start <= a
                               /\ a < ctl.win[j].end \/ j = ctl.index
      BY <3>1 DEF Placed
    <3>4. Placed(ctl', a)
      BY <2>1, <3>3 DEF Placed, StopsAt
    <3>5. Done(ctl') /\ ctl'.end = stop
      BY <2>1 DEF Done, NoTime, StopsAt
    <3> QED BY <3>2, <3>4, <3>5 DEF Fits
  <2>4. CutWindow(ctl')
    BY <2>1, <2>2 DEF CutWindow, StopsAt
  <2>5. CapsPlanned => CapsPlanned'
    BY <2>1 DEF CapsPlanned, StopsAt
  <2> QED BY <2>3, <2>4, <2>5
<1> QED BY <1>1, <1>2


\* What main has read, and not had to read again.
ReadingsHold ==
    /\ pc = "pace" => elapsed = now
    /\ pc \in {"pace", "offer"} => ~Done(ctl) /\ failures = {}
    /\ pc = "offer" => lastRate = RateAt(ctl, elapsed) /\ due <= elapsed
    /\ pc = "stop" => Done(ctl)

\* The next dispatch is due a full gap after the last one.
GapKept ==
    lastDispatch # NoTime => lastRate \in Nat /\ (~Poisson => due >= lastDispatch + Gap(lastRate))

\* The measurement ends with the load, when main winds down.
MeasuredOnce ==
    state.mEnd # NoTime => /\ state.mEnd = ctl.end
                           /\ pc \in {"cooldown", "finally", "gather", "close", "ended"}

\* Until then, main's reason is what the windows say.
ReasonTold ==
    /\ reason # "aborted"
    /\ reason = "error_rate" => CutWindow(ctl) /\ Done(ctl)
    /\ reason = "deadline" /\ state.mEnd = NoTime => ~CutWindow(ctl)

\* Every arrival has its window.
ArrivalsFit == \A i \in Requests : req[i].at <= now /\ Fits(ctl, req[i].at)

\* What the record of a call says, by its task.
WellFormed(r) ==
    /\ r.task = "created" => r.state = "arrived" /\ ~r.op /\ r.eval = "none" /\ ~r.exc
    /\ r.task = "running" => r.state = "dispatched" /\ ~r.op /\ r.eval = "none" /\ ~r.exc
    /\ r.task \in {"ended", "settled"} =>
         \/ r.state = "finished" /\ r.op /\ r.eval \in {"ok", "bad"} /\ ~r.exc
         \/ r.state = "interrupted" /\ r.op /\ r.eval = "none" /\ ~r.exc
         \/ r.state # "interrupted" /\ r.exc

CallsFormed ==
    \A i \in Requests :
        /\ WellFormed(req[i])
        /\ req[i].eval = "raised" \/ (req[i].task = "settled" /\ req[i].exc) => i \in failures

\* Nothing is left to join when main closes.
AllJoined == pc \in {"close", "ended"} => Active = {}

DriveInv ==
    /\ TypeOK /\ CtlInv /\ CapsPlanned
    /\ ReadingsHold /\ GapKept /\ MeasuredOnce /\ ReasonTold /\ StopReasonMatchesWindows
    /\ ArrivalsFit /\ CallsFormed /\ AllJoined
    /\ InflightExact /\ LiveWithinPeak /\ RequestsAccounted

CallRecords == [state : {"arrived", "dispatched", "finished", "interrupted"},
                at : Nat, task : {"created", "running", "ended", "settled"},
                cut : BOOLEAN, op : BOOLEAN,
                eval : {"none", "ok", "bad", "raised"}, exc : BOOLEAN]

TaskStep == \E i \in Requests : FireStart(i) \/ FireReturns(i) \/ Settled(i)

-----------------------------------------------------------------------------
(* Who touches what.                                                       *)

\* The controller is moved by three places of the code.
LEMMA ControllerMovers ==
    [Next]_vars =>
        \/ LoopHead \/ TripBreaker \/ Finally \/ \E i \in Requests : FireStart(i)
        \/ Clock
        \/ UNCHANGED ctlVars
BY DEF Next, Main, Tasks, Ended, Cancel, Pace, Refuse, Offer, Resume, Stop, CooldownOver, Joined, Close,
       FireReturns, FireEnds, FireJudged, FireJudgeRaises, FireDies, FireInterrupted, Settled, vars

\* Calls change in their own tasks, when one arrives and when they are cut.
LEMMA CallMovers ==
    [Next]_vars => \/ TaskStep \/ Offer \/ Finally
                   \/ UNCHANGED <<req, inflight, failures>>
BY DEF Next, Main, Tasks, Ended, Cancel, Pace, Refuse, Resume, Stop, CooldownOver, Joined, Close, Clock,
       LoopHead, TripBreaker, TaskStep, vars, driveVars

(* The controller under the drive.                                         *)
LEMMA ControllerKept ==
    ASSUME DriveInv, [Next]_vars
    PROVE  /\ CtlInv' /\ CapsPlanned' /\ now' \in Nat /\ now <= now'
           /\ Done(ctl) => ctl' = ctl
           /\ \A a \in Nat : a <= now /\ Fits(ctl, a) => Fits(ctl', a)
           /\ CutWindow(ctl') => CutWindow(ctl) \/ TripBreaker \/ (Finally /\ ~Done(ctl))
           /\ TripBreaker => CutWindow(ctl') /\ Done(ctl')
           /\ Finally /\ ~Frozen => Done(ctl')
<1>0. /\ CtlInv /\ CapsPlanned /\ now \in Nat /\ (~Done(ctl) => ctl.last <= now)
      /\ pc = "pace" => elapsed = now /\ ~Done(ctl)
      /\ MeasuredOnce /\ ctl.end \in Nat \cup {NoTime}
  BY DEF DriveInv, CtlInv, CtlTypeOK, LastIsOpen, ReadingsHold
<1>1. ASSUME NEW n, NEW limited \in BOOLEAN, Advance(now, n, limited), now' = now,
             ~TripBreaker, ~Finally
      PROVE  /\ CtlInv' /\ CapsPlanned' /\ (Done(ctl) => ctl' = ctl)
             /\ \A a \in Nat : a <= now /\ Fits(ctl, a) => Fits(ctl', a)
             /\ CutWindow(ctl') => CutWindow(ctl)
  BY <1>0, <1>1, AdvanceKeeps, AdvancePlaces
<1>2. CASE LoopHead
  <2> DEFINE limited == inflight >= TargetCap(ctl, now) /\ now >= due
  <2>1. limited \in BOOLEAN
    OBVIOUS
  <2>2. Advance(now, inflight, limited) /\ now' = now
    BY <1>2 DEF LoopHead
  <2>3. ~TripBreaker /\ ~Finally
    BY <1>2 DEF LoopHead, TripBreaker, Finally
  <2> HIDE DEF limited
  <2> QED BY <1>0, <1>1, <2>1, <2>2, <2>3
<1>3. CASE \E i \in Requests : FireStart(i)
  <2> DEFINE limited == FALSE
  <2>1. Advance(now, inflight, limited) /\ now' = now
    BY <1>3 DEF FireStart
  <2>2. limited \in BOOLEAN /\ ~TripBreaker /\ ~Finally
    BY <1>3 DEF FireStart, TripBreaker, Finally, Parked
  <2> HIDE DEF limited
  <2> QED BY <1>0, <1>1, <2>1, <2>2
<1>4. CASE TripBreaker
  <2>1. ctl' = Aborted(ctl, now) /\ now' = now /\ ~Done(ctl) /\ ~Finally
    BY <1>0, <1>4 DEF TripBreaker, Finally
  <2> QED BY <1>0, <1>4, <2>1, AbortKeeps, AbortPlaces
<1>5. CASE Finally
  <2>1. now' = now /\ ~TripBreaker
    BY <1>5 DEF Finally, TripBreaker
  <2>2. CASE Frozen
    <3>1. ctl' = ctl
      BY <1>5, <2>2 DEF Finally
    <3> QED BY <1>0, <2>1, <2>2, <3>1 DEF CtlInv, CtlTypeOK, LastIsOpen, PlanHolds, ExactStages, WindowsTile,
                              NoHoldSkipped, CapsPlanned
  <2>3. CASE ~Frozen
    <3>1. ctl' = Aborted(ctl, now)
      BY <1>5, <2>3 DEF Finally
    <3>2. CutWindow(ctl') => CutWindow(ctl) \/ ~Done(ctl)
      BY <3>1 DEF Aborted
    <3> QED BY <1>0, <1>5, <2>1, <3>1, <3>2, AbortKeeps, AbortPlaces
  <2> QED BY <2>2, <2>3
<1>6. CASE Clock \/ UNCHANGED ctlVars
  <2>1. ctl' = ctl /\ now' \in Nat /\ now <= now'
    BY <1>0, <1>6 DEF Clock, ctlVars
  <2>2. CtlTypeOK' /\ PlanHolds' /\ CapsPlanned'
    BY <1>0, <2>1 DEF CtlInv, CtlTypeOK, PlanHolds, ExactStages, WindowsTile, NoHoldSkipped, CapsPlanned
  <2>3. ~Done(ctl) => ctl.last \in Nat /\ ctl.last <= now'
    BY <1>0, <2>1 DEF CtlInv, CtlTypeOK
  <2>4. LastIsOpen'
    BY <1>0, <2>1, <2>3 DEF CtlInv, LastIsOpen, Done, Deadline
  <2>5. CASE TripBreaker
    BY <1>4, <2>5
  <2>6. CASE Finally
    BY <1>5, <2>6
  <2> QED BY <2>1, <2>2, <2>4, <2>5, <2>6 DEF CtlInv
<1> QED BY <1>2, <1>3, <1>4, <1>5, <1>6, ControllerMovers


-----------------------------------------------------------------------------
(* The calls.                                                              *)

\* One record of a sequence is replaced.
LEMMA OneReplaced ==
    ASSUME NEW S, NEW s \in Seq(S), NEW i \in DOMAIN s, NEW r \in S, NEW t, t = [s EXCEPT ![i] = r]
    PROVE  /\ t \in Seq(S) /\ DOMAIN t = DOMAIN s /\ Len(t) = Len(s) /\ t[i] = r
           /\ \A j \in DOMAIN s : j # i => t[j] = s[j]
OBVIOUS

\* One record is added.
LEMMA OneAdded ==
    ASSUME NEW S, NEW s \in Seq(S), NEW r \in S, NEW t, t = Append(s, r)
    PROVE  /\ t \in Seq(S) /\ Len(t) = Len(s) + 1 /\ Len(s) \in Nat
           /\ DOMAIN s = 1..Len(s) /\ DOMAIN t = 1..(Len(s) + 1)
           /\ t[Len(s) + 1] = r /\ \A j \in 1..Len(s) : t[j] = s[j]
OBVIOUS

\* The requests are finitely many, and so are the live ones.
LEMMA CallsFinite ==
    ASSUME req \in Seq(CallRecords)
    PROVE  /\ Requests = 1..Len(req) /\ Len(req) \in Nat
           /\ \A i \in Requests : req[i] \in CallRecords
           /\ IsFiniteSet(Requests) /\ IsFiniteSet(Live) /\ Cardinality(Live) \in Nat
<1>1. Requests = 1..Len(req) /\ Len(req) \in Nat /\ \A i \in Requests : req[i] \in CallRecords
  BY DEF Requests
<1>2. IsFiniteSet(Requests)
  BY <1>1, FS_Interval
<1>3. Live \subseteq Requests
  BY DEF Live
<1>4. IsFiniteSet(Live)
  BY <1>2, <1>3, FS_Subset
<1> QED BY <1>1, <1>2, <1>4, FS_CardinalityType

\* What a step of a call's task does: the task starts, ends, or is settled.
TaskMove(i, r) ==
    /\ req' = [req EXCEPT ![i] = r] /\ r \in CallRecords
    /\ r.at = req[i].at /\ WellFormed(r) /\ pc \in Parked
    /\ UNCHANGED <<now, pc, mainVars, waitUntil, state, reason, cooldown, cancels, hard>>
    /\ \/ /\ req[i].task = "created" /\ r.task = "running" /\ r.eval = "none"
          /\ inflight' = inflight /\ failures' = failures /\ wake' = wake
       \/ /\ req[i].task = "running" /\ r.task = "ended"
          /\ inflight' = inflight - 1 /\ wake' = wake
          /\ failures' = failures \/ failures' = failures \cup {i}
          /\ r.eval = "raised" => i \in failures'
       \/ /\ req[i].task = "ended" /\ r.task = "settled" /\ r.eval = req[i].eval /\ wake' = TRUE
          /\ inflight' = inflight
          /\ failures' = failures \/ failures' = failures \cup {i}
          /\ r.exc => i \in failures'

LEMMA TaskMoves ==
    ASSUME req \in Seq(CallRecords), CallsFormed, TaskStep
    PROVE  \E i \in Requests, r \in CallRecords : TaskMove(i, r)
<1>1. PICK i \in Requests : FireStart(i) \/ FireReturns(i) \/ Settled(i)
  BY DEF TaskStep
<1>2. req[i] \in CallRecords /\ WellFormed(req[i]) /\ (req[i].eval = "raised" => i \in failures)
  BY CallsFinite DEF CallsFormed
<1>3. CASE FireStart(i)
  <2> DEFINE r == [req[i] EXCEPT !.task = "running", !.state = "dispatched"]
  <2>1. req' = [req EXCEPT ![i] = r]
    BY <1>3 DEF FireStart
  <2>2. /\ r \in CallRecords /\ r.at = req[i].at /\ r.task = "running" /\ r.state = "dispatched"
        /\ r.op = req[i].op /\ r.eval = req[i].eval /\ r.exc = req[i].exc
    BY <1>2 DEF CallRecords
  <2>3. ~req[i].op /\ req[i].eval = "none" /\ ~req[i].exc /\ req[i].task = "created"
    BY <1>2, <1>3 DEF WellFormed, FireStart
  <2> HIDE DEF r
  <2>4. WellFormed(r)
    BY <2>2, <2>3 DEF WellFormed
  <2>5. TaskMove(i, r)
    BY <1>3, <2>1, <2>2, <2>3, <2>4 DEF FireStart, TaskMove
  <2> QED BY <2>2, <2>5
<1>4. ASSUME NEW r, FireEnds(i, r), req[i].task = "running",
             r \in CallRecords, r.at = req[i].at, r.task = "ended", WellFormed(r),
             failures' = failures \/ failures' = failures \cup {i},
             r.eval = "raised" => i \in failures'
      PROVE  TaskMove(i, r)
  BY <1>4 DEF FireEnds, TaskMove, StatsDone, ctlVars
<1>5. CASE FireReturns(i)
  <2>0. ~req[i].op /\ req[i].eval = "none" /\ ~req[i].exc /\ req[i].task = "running"
    BY <1>2, <1>5 DEF WellFormed, FireReturns, FireEnds, FireJudged, FireJudgeRaises, FireDies, FireInterrupted
  <2>1. CASE \E verdict \in {"ok", "bad"} : FireJudged(i, verdict)
    <3>1. PICK verdict \in {"ok", "bad"} : FireJudged(i, verdict)
      BY <2>1
    <3> DEFINE r == [req[i] EXCEPT !.task = "ended", !.state = "finished", !.op = TRUE, !.eval = verdict]
    <3>2. /\ r \in CallRecords /\ r.at = req[i].at /\ r.task = "ended" /\ r.state = "finished"
          /\ r.op /\ r.eval = verdict /\ r.exc = req[i].exc
      BY <1>2 DEF CallRecords
    <3>3. FireEnds(i, r) /\ failures' = failures
      BY <3>1 DEF FireJudged
    <3> HIDE DEF r
    <3>4. WellFormed(r)
      BY <2>0, <3>2 DEF WellFormed
    <3>5. TaskMove(i, r)
      BY <1>4, <2>0, <3>2, <3>3, <3>4
    <3> QED BY <3>2, <3>5
  <2>2. CASE FireJudgeRaises(i)
    <3> DEFINE r == [req[i] EXCEPT !.task = "ended", !.state = "finished", !.op = TRUE,
                                   !.eval = "raised", !.exc = TRUE]
    <3>2. /\ r \in CallRecords /\ r.at = req[i].at /\ r.task = "ended" /\ r.state = "finished"
          /\ r.op /\ r.eval = "raised" /\ r.exc
      BY <1>2 DEF CallRecords
    <3>3. FireEnds(i, r) /\ failures' = failures \cup {i}
      BY <2>2 DEF FireJudgeRaises
    <3> HIDE DEF r
    <3>4. WellFormed(r)
      BY <2>0, <3>2 DEF WellFormed
    <3>5. TaskMove(i, r)
      BY <1>4, <2>0, <3>2, <3>3, <3>4
    <3> QED BY <3>2, <3>5
  <2>3. CASE \E last \in {"finished", "dispatched"} : FireDies(i, last)
    <3>1. PICK last \in {"finished", "dispatched"} : FireDies(i, last)
      BY <2>3
    <3> DEFINE r == [req[i] EXCEPT !.task = "ended", !.state = last, !.exc = TRUE]
    <3>2. /\ r \in CallRecords /\ r.at = req[i].at /\ r.task = "ended" /\ r.state = last
          /\ r.eval = req[i].eval /\ r.exc
      BY <1>2 DEF CallRecords
    <3>3. FireEnds(i, r) /\ failures' = failures
      BY <3>1 DEF FireDies
    <3> HIDE DEF r
    <3>4. WellFormed(r)
      BY <2>0, <3>2 DEF WellFormed
    <3>5. TaskMove(i, r)
      BY <1>4, <2>0, <3>2, <3>3, <3>4
    <3> QED BY <3>2, <3>5
  <2>4. CASE FireInterrupted(i)
    <3> DEFINE r == [req[i] EXCEPT !.task = "ended", !.state = "interrupted", !.op = TRUE]
    <3>2. /\ r \in CallRecords /\ r.at = req[i].at /\ r.task = "ended" /\ r.state = "interrupted"
          /\ r.op /\ r.eval = req[i].eval /\ r.exc = req[i].exc
      BY <1>2 DEF CallRecords
    <3>3. FireEnds(i, r) /\ failures' = failures
      BY <2>4 DEF FireInterrupted
    <3> HIDE DEF r
    <3>4. WellFormed(r)
      BY <2>0, <3>2 DEF WellFormed
    <3>5. TaskMove(i, r)
      BY <1>4, <2>0, <3>2, <3>3, <3>4
    <3> QED BY <3>2, <3>5
  <2> QED BY <1>5, <2>1, <2>2, <2>3, <2>4 DEF FireReturns
<1>6. CASE Settled(i)
  <2> DEFINE r == [req[i] EXCEPT !.task = "settled"]
  <2>1. req' = [req EXCEPT ![i] = r]
    BY <1>6 DEF Settled
  <2>2. /\ r \in CallRecords /\ r.at = req[i].at /\ r.task = "settled" /\ r.state = req[i].state
        /\ r.op = req[i].op /\ r.eval = req[i].eval /\ r.exc = req[i].exc
    BY <1>2 DEF CallRecords
  <2>3. req[i].task = "ended" /\ failures' = (IF req[i].exc THEN failures \cup {i} ELSE failures)
    BY <1>6 DEF Settled
  <2> HIDE DEF r
  <2>4. WellFormed(r)
    BY <1>2, <2>2, <2>3 DEF WellFormed
  <2>5. r.exc => i \in failures'
    BY <2>2, <2>3
  <2>6. failures' = failures \/ failures' = failures \cup {i}
    BY <2>3
  <2>7. TaskMove(i, r)
    BY <1>6, <2>1, <2>2, <2>3, <2>4, <2>5, <2>6 DEF Settled, TaskMove, ctlVars
  <2> QED BY <2>2, <2>7
<1> QED BY <1>1, <1>3, <1>5, <1>6


\* Fewer live calls are within the peak when more were.
LEMMA PeakMonotone ==
    ASSUME NEW n \in Nat, NEW m \in Nat, m <= n, PeakInflight(n) PROVE PeakInflight(m)
<1>1. CASE n <= Cap0
  BY <1>1, PlanAssumption DEF PeakInflight
<1>2. CASE \E j \in StageId : n <= Stages[j].cap
  <2>1. PICK j \in StageId : n <= Stages[j].cap
    BY <1>2
  <2>2. Stages[j].cap \in Nat
    BY PlanFacts
  <2> QED BY <2>1, <2>2 DEF PeakInflight
<1> QED BY <1>1, <1>2 DEF PeakInflight

\* A ramp moves between the value it starts from and the one it ends at.
LEMMA RampsBetween ==
    ASSUME CtlTypeOK, NEW at \in Nat, NEW from \in Nat, NEW to \in Nat
    PROVE  /\ Interpolate(from, to, at, ctl) \in Nat
           /\ Interpolate(from, to, at, ctl) <= from \/ Interpolate(from, to, at, ctl) <= to
<1> DEFINE dur == Stages[ctl.index].dur
           passed == IF at < ctl.start THEN 0 ELSE IF at - ctl.start > dur THEN dur ELSE at - ctl.start
<1>1. ctl.start \in Nat /\ dur \in Nat \ {0}
  BY PlanFacts DEF CtlTypeOK
<1>2. Interpolate(from, to, at, ctl) = from + (((to - from) * passed) \div dur)
  BY DEF Interpolate
<1> HIDE DEF dur
<1>3. passed \in 0..dur
  BY <1>1
<1> HIDE DEF passed
<1>4. /\ from + (((to - from) * passed) \div dur) \in Nat
      /\ \/ from + (((to - from) * passed) \div dur) <= from
         \/ from + (((to - from) * passed) \div dur) <= to
  BY <1>1, <1>3, Between
<1> QED BY <1>2, <1>4

\* The target at any time lies between the previous target and the stage's.
LEMMA Targets ==
    ASSUME CtlTypeOK, NEW at \in Nat
    PROVE  /\ TargetRate(ctl, at) \in Nat
           /\ TargetCap(ctl, at) \in Nat \ {0}
           /\ TargetCap(ctl, at) <= ctl.prevCap \/ TargetCap(ctl, at) <= Stages[ctl.index].cap
<1> DEFINE rate == Stages[ctl.index].rate
           cap == Stages[ctl.index].cap
<1>1. ctl.prevRate \in Nat /\ ctl.prevCap \in Nat /\ rate \in Nat /\ cap \in Nat \ {0}
  BY PlanFacts DEF CtlTypeOK
<1>2. TargetRate(ctl, at) = rate \/ TargetRate(ctl, at) = Interpolate(ctl.prevRate, rate, at, ctl)
  BY DEF TargetRate
<1>3. \/ TargetCap(ctl, at) = cap
      \/ LET c == Interpolate(ctl.prevCap, cap, at, ctl) IN TargetCap(ctl, at) = (IF c < 1 THEN 1 ELSE c)
  BY DEF TargetCap
<1> HIDE DEF rate, cap
<1>4. Interpolate(ctl.prevRate, rate, at, ctl) \in Nat
  BY <1>1, RampsBetween
<1>5. /\ Interpolate(ctl.prevCap, cap, at, ctl) \in Nat
      /\ Interpolate(ctl.prevCap, cap, at, ctl) <= ctl.prevCap \/ Interpolate(ctl.prevCap, cap, at, ctl) <= cap
  BY <1>1, RampsBetween
<1>6. ctl.prevCap >= 1
  BY DEF CtlTypeOK
<1>7. /\ TargetRate(ctl, at) \in Nat /\ TargetCap(ctl, at) \in Nat \ {0}
      /\ TargetCap(ctl, at) <= ctl.prevCap \/ TargetCap(ctl, at) <= cap
  BY <1>1, <1>2, <1>3, <1>4, <1>5, <1>6
<1> QED BY <1>7 DEF cap

\* What the calls keep.
CallsInv ==
    /\ req \in Seq(CallRecords) /\ inflight \in Nat /\ failures \subseteq Requests
    /\ CallsFormed /\ InflightExact /\ LiveWithinPeak

LEMMA CallsKept ==
    ASSUME DriveInv, CallsInv, [Next]_vars
    PROVE  /\ CallsInv' /\ Requests \subseteq Requests'
           /\ \A i \in Requests : req'[i].at = req[i].at
           /\ \A i \in Requests' : i \in Requests \/ (Offer /\ req'[i].at = now)
           /\ ~Offer => Len(req') = Len(req)
<1>0. /\ Requests = 1..Len(req) /\ Len(req) \in Nat /\ \A i \in Requests : req[i] \in CallRecords
      /\ IsFiniteSet(Live) /\ Cardinality(Live) \in Nat
  BY CallsFinite DEF CallsInv
<1>1. CASE TaskStep
  <2>1. PICK i \in Requests, r \in CallRecords : TaskMove(i, r)
    BY <1>1, TaskMoves DEF CallsInv
  <2>2. /\ req' \in Seq(CallRecords) /\ Requests' = Requests /\ Len(req') = Len(req) /\ req'[i] = r
        /\ \A j \in Requests : j # i => req'[j] = req[j]
    BY <2>1, OneReplaced DEF TaskMove, CallsInv, Requests
  <2>3. \A j \in Requests : req'[j].at = req[j].at
    BY <2>1, <2>2 DEF TaskMove
  <2>4. failures' \subseteq Requests' /\ failures \subseteq failures'
    BY <2>1, <2>2 DEF TaskMove, CallsInv
  <2>5. CallsFormed'
    <3>1. \A j \in Requests : WellFormed(req'[j])
      BY <2>1, <2>2 DEF TaskMove, CallsInv, CallsFormed
    <3>2. \A j \in Requests : j # i => (req'[j].eval = "raised" \/ (req'[j].task = "settled" /\ req'[j].exc) => j \in failures')
      BY <2>2, <2>4 DEF CallsInv, CallsFormed
    <3>3. r.eval = "raised" \/ (r.task = "settled" /\ r.exc) => i \in failures'
      BY <2>1, <2>4 DEF TaskMove, CallsInv, CallsFormed
    <3> QED BY <2>2, <3>1, <3>2, <3>3 DEF CallsFormed
  <2>6. inflight' \in Nat /\ InflightExact' /\ LiveWithinPeak'
    <3>1. CASE req[i].task \in {"created", "ended"}
      <4>1. Live' = Live /\ inflight' = inflight
        BY <2>1, <2>2, <3>1 DEF TaskMove, Live
      <4> QED BY <4>1 DEF CallsInv, InflightExact, LiveWithinPeak, PeakInflight
    <3>2. CASE req[i].task = "running"
      <4>1. Live' = Live \ {i} /\ i \in Live /\ inflight' = inflight - 1
        BY <2>1, <2>2, <3>2 DEF TaskMove, Live
      <4>2. Cardinality(Live') = Cardinality(Live) - 1 /\ Cardinality(Live') \in Nat
        <5>1. Cardinality(Live \ {i}) = Cardinality(Live) - 1 /\ Cardinality(Live \ {i}) \in Nat
          <6>1. IsFiniteSet(Live \ {i})
            BY <1>0, FS_RemoveElement
          <6> QED BY <1>0, <4>1, <6>1, FS_RemoveElement, FS_CardinalityType
        <5> QED BY <4>1, <5>1
      <4>3. PeakInflight(Cardinality(Live'))
        BY <1>0, <4>2, PeakMonotone DEF CallsInv, LiveWithinPeak
      <4> QED BY <4>1, <4>2, <4>3 DEF CallsInv, InflightExact, LiveWithinPeak, PeakInflight
    <3> QED BY <2>1, <3>1, <3>2 DEF TaskMove
  <2> QED BY <2>2, <2>3, <2>4, <2>5, <2>6 DEF CallsInv
<1>2. CASE Offer
  <2> DEFINE new == Len(req) + 1
  <2>1. Arrival(now) \in CallRecords /\ WellFormed(Arrival(now)) /\ Arrival(now).at = now
        /\ Arrival(now).eval = "none" /\ Arrival(now).task = "created"
    BY DEF Arrival, CallRecords, WellFormed, DriveInv, CtlInv, CtlTypeOK
  <2>2. req' = Append(req, Arrival(now)) /\ failures' = failures /\ inflight' = inflight + 1
        /\ inflight < TargetCap(ctl, now)
    BY <1>2 DEF Offer, StatsStart, Admits
  <2>3. /\ req' \in Seq(CallRecords) /\ Requests' = 1..new /\ req'[new] = Arrival(now)
        /\ \A j \in Requests : req'[j] = req[j]
    BY <1>0, <2>1, <2>2, OneAdded DEF CallsInv, Requests
  <2>4. Requests' = Requests \cup {new} /\ new \notin Requests
    BY <1>0, <2>3
  <2>5. failures' \subseteq Requests' /\ CallsFormed'
    BY <2>1, <2>2, <2>3, <2>4 DEF CallsInv, CallsFormed
  <2>6. Live' = Live \cup {new} /\ new \notin Live
    BY <2>1, <2>3, <2>4 DEF Live
  <2>7. Cardinality(Live') = Cardinality(Live) + 1
    BY <1>0, <2>6, FS_AddElement
  <2>8. inflight' \in Nat /\ InflightExact'
    BY <2>2, <2>7 DEF CallsInv, InflightExact
  <2>9. LiveWithinPeak'
    <3>1. /\ TargetCap(ctl, now) \in Nat /\ ctl.prevCap \in Nat /\ ctl.index \in StageId
          /\ Stages[ctl.index].cap \in Nat
          /\ TargetCap(ctl, now) <= ctl.prevCap \/ TargetCap(ctl, now) <= Stages[ctl.index].cap
      BY Targets, PlanFacts DEF DriveInv, CtlInv, CtlTypeOK
    <3>2. inflight' <= ctl.prevCap \/ inflight' <= Stages[ctl.index].cap
      BY <2>2, <3>1 DEF CallsInv
    <3>3. PeakInflight(inflight')
      <4>1. CASE inflight' <= Stages[ctl.index].cap
        BY <3>1, <4>1 DEF PeakInflight
      <4>2. CASE inflight' <= ctl.prevCap
        BY <4>2 DEF DriveInv, CapsPlanned, PeakInflight
      <4> QED BY <3>2, <4>1, <4>2
    <3>4. inflight' = Cardinality(Live')
      BY <2>8 DEF InflightExact
    <3> QED BY <3>3, <3>4 DEF LiveWithinPeak, PeakInflight
  <2>10. \A i \in Requests' : i \in Requests \/ req'[i].at = now
    BY <2>1, <2>3, <2>4
  <2> QED BY <1>2, <2>3, <2>4, <2>5, <2>8, <2>9, <2>10 DEF CallsInv
<1>3. CASE Finally
  <2>1. req' = [i \in Requests |-> IF req[i].task \in {"created", "running"}
                                   THEN [req[i] EXCEPT !.cut = TRUE] ELSE req[i]]
        /\ inflight' = inflight /\ failures' = failures
    BY <1>3 DEF Finally
  <2>2. ASSUME NEW i \in Requests
        PROVE  /\ req'[i] \in CallRecords /\ req'[i].at = req[i].at /\ req'[i].task = req[i].task
               /\ req'[i].state = req[i].state /\ req'[i].op = req[i].op
               /\ req'[i].eval = req[i].eval /\ req'[i].exc = req[i].exc
    <3>1. req[i] \in CallRecords
      BY <1>0
    <3>2. req'[i] = IF req[i].task \in {"created", "running"}
                    THEN [req[i] EXCEPT !.cut = TRUE] ELSE req[i]
      BY <2>1
    <3> QED BY <3>1, <3>2 DEF CallRecords
  <2>3. req' \in Seq(CallRecords) /\ Requests' = Requests /\ Len(req') = Len(req)
    <3>1. req' \in [1..Len(req) -> CallRecords]
      <4>1. DOMAIN req' = 1..Len(req) /\ req' = [i \in 1..Len(req) |-> req'[i]]
        BY <1>0, <2>1
      <4> QED BY <1>0, <2>2, <4>1
    <3>2. req' \in Seq(CallRecords)
      BY <1>0, <3>1, SeqDef
    <3> QED BY <1>0, <3>1, <3>2 DEF Requests
  <2>4. CallsFormed'
    <3>1. \A i \in Requests : WellFormed(req'[i])
      BY <2>2 DEF CallsInv, CallsFormed, WellFormed
    <3>2. ASSUME NEW i \in Requests
          PROVE  req'[i].eval = "raised" \/ (req'[i].task = "settled" /\ req'[i].exc) => i \in failures'
      BY <2>1, <2>2 DEF CallsInv, CallsFormed
    <3> QED BY <2>3, <3>1, <3>2 DEF CallsFormed
  <2>5. Live' = Live
    BY <2>2, <2>3 DEF Live
  <2> QED BY <2>1, <2>2, <2>3, <2>4, <2>5 DEF CallsInv, InflightExact, LiveWithinPeak, PeakInflight
<1>4. CASE UNCHANGED <<req, inflight, failures>>
  BY <1>4 DEF CallsInv, CallsFormed, InflightExact, LiveWithinPeak, PeakInflight, Live, Requests
<1> QED
  <2>1. Offer \/ ~Offer
    OBVIOUS
  <2> QED BY <1>1, <1>2, <1>3, <1>4, CallMovers


LEMMA CallsIn == DriveInv => CallsInv
BY DEF DriveInv, CallsInv, TypeOK, CallRecords

\* Every arrival has its window: a new one the open window, the others theirs.
LEMMA ArrivalsKept ==
    ASSUME DriveInv, [Next]_vars PROVE ArrivalsFit'
<1>1. /\ Requests \subseteq Requests'
      /\ \A i \in Requests : req'[i].at = req[i].at
      /\ \A i \in Requests' : i \in Requests \/ (Offer /\ req'[i].at = now)
  BY CallsIn, CallsKept
<1>2. /\ now \in Nat /\ now' \in Nat /\ now <= now'
      /\ \A a \in Nat : a <= now /\ Fits(ctl, a) => Fits(ctl', a)
  BY ControllerKept DEF DriveInv, CtlInv, CtlTypeOK
<1>3. ASSUME Offer PROVE Fits(ctl, now) /\ ctl' = ctl /\ now' = now
  <2>1. ~Done(ctl) /\ now < Deadline(ctl) /\ ctl' = ctl /\ now' = now
    BY <1>3 DEF Offer, DriveInv, ReadingsHold, Admits, ctlVars
  <2>2. /\ ctl.index \in StageId /\ ctl.win[ctl.index].opened
        /\ ctl.win[ctl.index].start = ctl.start /\ ctl.start <= ctl.last /\ ctl.last <= now
        /\ ctl.start \in Nat /\ ctl.last \in Nat
    BY <2>1 DEF DriveInv, CtlInv, CtlTypeOK, LastIsOpen
  <2>3. ctl.win[ctl.index].start <= now
    BY <1>2, <2>2
  <2> QED BY <2>1, <2>2, <2>3 DEF Fits, Placed
<1>4. ASSUME NEW i \in Requests'
      PROVE  req'[i].at <= now' /\ Fits(ctl', req'[i].at)
  <2>1. CASE i \in Requests
    <3>1. req[i].at \in Nat /\ req[i].at <= now /\ Fits(ctl, req[i].at)
      BY <2>1, CallsFinite, CallsIn DEF DriveInv, ArrivalsFit, CallsInv, CallRecords
    <3> QED BY <1>1, <1>2, <2>1, <3>1
  <2>2. CASE Offer /\ req'[i].at = now
    BY <1>2, <1>3, <2>2
  <2> QED BY <1>1, <2>1, <2>2
<1> QED BY <1>4 DEF ArrivalsFit

\* A gap is a number of ticks.
LEMMA GapIsNat == ASSUME NEW rate \in Nat PROVE Gap(rate) \in Nat /\ \A gap \in Gaps(rate) : gap \in Nat
<1>1. RateUnit \in Nat \ {0} /\ MaxGap \in Nat /\ Horizon \in Nat
  BY DriveAssumption, PlanAssumption
<1>2. CASE rate = 0
  BY <1>1, <1>2 DEF Gap, Gaps, Never
<1>3. CASE rate # 0
  <2>1. rate \in Nat \ {0} /\ RateUnit + rate - 1 \in Nat
    BY <1>1, <1>3
  <2>2. (RateUnit + rate - 1) \div rate \in Nat
    BY <2>1
  <2> QED BY <1>1, <1>3, <2>2 DEF Gap, Gaps
<1> QED BY <1>2, <1>3

LEMMA RateIsNat == ASSUME CtlTypeOK, NEW at \in Nat PROVE RateAt(ctl, at) \in Nat
BY Targets DEF RateAt

\* The clock the pacing goes by.
Pacing == /\ elapsed \in Nat /\ due \in Nat
          /\ lastDispatch \in Nat \cup {NoTime} /\ lastRate \in Nat \cup {NoTime}
          /\ wasFull \in BOOLEAN /\ wake \in BOOLEAN /\ waitUntil \in Nat

\* A new rate, or a freed slot, never makes the next arrival due early.
LEMMA PaceKeeps ==
    ASSUME Pacing, GapKept, CtlInv, inflight \in Nat, Pace
    PROVE  Pacing' /\ GapKept'
<1> DEFINE rate == RateAt(ctl, elapsed)
           cap == TargetCap(ctl, elapsed)
           next == NextDue(rate, cap)
           horizon == Sooner(elapsed + Poll, Deadline(ctl))
<1>1. rate \in Nat /\ cap \in Nat /\ Gap(rate) \in Nat
  BY RateIsNat, Targets, GapIsNat DEF Pacing, CtlInv
<1>2. Deadline(ctl) \in Nat /\ Poll \in Nat
  BY PlanFacts, DriveAssumption DEF CtlInv, CtlTypeOK, Deadline
<1>3. horizon \in Nat
  BY <1>2 DEF Sooner, Pacing
<1>4. /\ due' = next /\ lastRate' = rate /\ wasFull' = (inflight >= cap) /\ wake' = FALSE
      /\ waitUntil' = (IF Sends(rate) /\ next > elapsed THEN Sooner(horizon, next) ELSE horizon)
      /\ elapsed' = elapsed /\ lastDispatch' = lastDispatch
  BY DEF Pace
<1> HIDE DEF rate, cap, horizon
<1>5. next \in Nat /\ (lastDispatch # NoTime /\ ~Poisson => next >= lastDispatch + Gap(rate))
  <2> DEFINE paced == IF rate = lastRate THEN due
                      ELSE IF lastDispatch = NoTime THEN elapsed
                      ELSE Later(elapsed, lastDispatch + Gap(rate))
  <2>1. paced \in Nat
    BY <1>1 DEF Pacing, Later
  <2>2. lastDispatch # NoTime /\ ~Poisson => paced >= lastDispatch + Gap(rate)
    BY <1>1 DEF Pacing, Later, GapKept
  <2>3. next = (IF wasFull /\ inflight < cap THEN Later(paced, elapsed) ELSE paced)
    BY DEF NextDue
  <2> HIDE DEF paced, next
  <2> QED BY <1>1, <2>1, <2>2, <2>3 DEF Pacing, Later
<1> HIDE DEF next
<1>6. waitUntil' \in Nat
  BY <1>3, <1>4, <1>5 DEF Sooner
<1>7. wasFull' \in BOOLEAN
  BY <1>4
<1> QED BY <1>1, <1>4, <1>5, <1>6, <1>7 DEF Pacing, GapKept


\* The steps that move main, one by one.
LEMMA Steps ==
    ASSUME DriveInv, [Next]_vars
    PROVE  \/ LoopHead \/ TripBreaker \/ Pace \/ Offer \/ Stop \/ Finally \/ Close \/ Joined
           \/ Refuse \/ Resume \/ CooldownOver \/ Cancel \/ Clock
           \/ \E i \in Requests, r \in CallRecords : TaskMove(i, r)
           \/ UNCHANGED vars
<1>1. CASE TaskStep
  BY <1>1, TaskMoves, CallsIn DEF CallsInv
<1> QED BY <1>1 DEF Next, Main, Tasks, TaskStep, Ended

MainTypes ==
    /\ pc \in MainRuns \cup Parked \cup {"ended"} /\ Pacing
    /\ reason \in {"deadline", "error_rate", "aborted"}
    /\ cooldown \in {"none", "empty", "cancelled", "timeout"}
    /\ cancels \in Nat /\ hard \in BOOLEAN

LEMMA MainKept ==
    ASSUME DriveInv, [Next]_vars PROVE MainTypes' /\ ReadingsHold' /\ GapKept'
<1>0. /\ MainTypes /\ ReadingsHold /\ GapKept /\ CtlInv /\ inflight \in Nat /\ now \in Nat
      /\ ctl.last \in Nat
  BY DEF DriveInv, TypeOK, MainTypes, Pacing, CtlInv, CtlTypeOK
<1>1. CASE LoopHead
  BY <1>0, <1>1 DEF LoopHead, MainTypes, MainRuns, Parked, Pacing, ReadingsHold, GapKept
<1>2. CASE TripBreaker
  <2>1. Done(ctl')
    BY <1>2, ControllerKept
  <2> QED BY <1>0, <1>2, <2>1 DEF TripBreaker, MainTypes, MainRuns, Parked, Pacing, ReadingsHold, GapKept, mainVars
<1>3. CASE Pace
  <2>1. Pacing' /\ GapKept'
    BY <1>0, <1>3, PaceKeeps DEF MainTypes
  <2>2. /\ pc = "pace" /\ pc' \in {"offer", "wait"} /\ ctl' = ctl /\ elapsed' = elapsed
        /\ lastRate' = RateAt(ctl, elapsed) /\ failures' = failures
        /\ pc' = "offer" => due' <= elapsed
        /\ reason' = reason /\ cooldown' = cooldown /\ cancels' = cancels /\ hard' = hard
    BY <1>3 DEF Pace, ctlVars
  <2>3. RateAt(ctl', elapsed') = RateAt(ctl, elapsed)
    BY <2>2
  <2>4. ReadingsHold'
    BY <1>0, <2>2, <2>3 DEF ReadingsHold, Done
  <2> QED BY <1>0, <2>1, <2>2, <2>4 DEF MainTypes, MainRuns, Parked
<1>4. CASE Offer
  <2>1. PICK gap \in Gaps(lastRate) : due' = elapsed + gap
    BY <1>4 DEF Offer, DueAfter
  <2>2. lastRate \in Nat /\ lastRate' = lastRate /\ lastDispatch' = elapsed /\ elapsed \in Nat
    BY <1>0, <1>4, RateIsNat DEF Offer, ReadingsHold, CtlInv, MainTypes, Pacing
  <2>3. gap \in Nat /\ (~Poisson => gap = Gap(lastRate))
    BY <2>1, <2>2, GapIsNat DEF Gaps
  <2>4. GapKept' /\ due' \in Nat
    BY <2>1, <2>2, <2>3 DEF GapKept
  <2>5. pc' = "yield"
    BY <1>4 DEF Offer
  <2>6. ReadingsHold'
    BY <2>5 DEF ReadingsHold
  <2>7. /\ elapsed' = elapsed /\ wasFull' = wasFull /\ waitUntil' = waitUntil /\ wake' = wake
        /\ reason' = reason /\ cooldown' = cooldown /\ cancels' = cancels /\ hard' = hard
    BY <1>4 DEF Offer
  <2>8. Pacing'
    BY <1>0, <2>2, <2>4, <2>7 DEF MainTypes, Pacing
  <2> QED BY <1>0, <2>4, <2>5, <2>6, <2>7, <2>8 DEF MainTypes, MainRuns, Parked
<1>5. CASE Stop
  <2>1. now + CooldownTimeout \in Nat
    BY <1>0, DriveAssumption
  <2>2. pc' \in {"finally", "cooldown"} /\ waitUntil' = now + CooldownTimeout
    BY <1>5 DEF Stop
  <2>3. UNCHANGED <<mainVars, wake, reason, cooldown, cancels, hard>>
    BY <1>5 DEF Stop
  <2> QED BY <1>0, <2>1, <2>2, <2>3 DEF MainTypes, MainRuns, Parked, Pacing, ReadingsHold, GapKept, mainVars
<1>6. CASE Finally \/ Joined \/ Refuse \/ Resume \/ CooldownOver
  <2>1. /\ pc' \in {"close", "gather", "ended", "loop", "finally"}
        /\ UNCHANGED <<mainVars, wake, waitUntil, reason, cooldown, cancels, hard>>
    BY <1>6 DEF Finally, Joined, Refuse, Resume, CooldownOver
  <2> QED BY <1>0, <2>1 DEF MainTypes, MainRuns, Parked, Pacing, ReadingsHold, GapKept, mainVars
<1>7. CASE Close
  <2>1. /\ pc' = "ended" /\ cooldown' \in {"empty", "cancelled", "timeout"}
        /\ UNCHANGED <<mainVars, wake, waitUntil, reason, cancels, hard>>
    BY <1>7 DEF Close
  <2> QED BY <1>0, <2>1 DEF MainTypes, MainRuns, Parked, Pacing, ReadingsHold, GapKept, mainVars
<1>8. CASE Cancel
  <2>1. /\ pc' = "finally" \/ (pc' = pc /\ pc = "gather")
        /\ hard' = hard \/ hard' = TRUE
        /\ cancels' = cancels + 1
        /\ UNCHANGED <<mainVars, wake, waitUntil, reason, cooldown>>
    BY <1>8 DEF Cancel
  <2>2. cancels' \in Nat
    BY <1>0, <2>1 DEF MainTypes
  <2>3. hard' \in BOOLEAN
    BY <1>0, <2>1 DEF MainTypes
  <2>4. Pacing' /\ GapKept'
    BY <1>0, <2>1 DEF MainTypes, Pacing, GapKept, mainVars
  <2> QED BY <1>0, <2>1, <2>2, <2>3, <2>4 DEF MainTypes, MainRuns, Parked, ReadingsHold
<1>9. CASE Clock
  <2>1. /\ pc' = pc /\ pc \in {"yield", "wait", "cooldown", "offer", "finally"}
        /\ UNCHANGED <<ctl, mainVars, wake, waitUntil, reason, cooldown, cancels, hard, failures>>
    BY <1>9 DEF Clock, driveVars
  <2>2. elapsed' = elapsed /\ RateAt(ctl', elapsed') = RateAt(ctl, elapsed)
    BY <2>1 DEF mainVars
  <2> QED BY <1>0, <2>1, <2>2 DEF MainTypes, Pacing, ReadingsHold, GapKept, mainVars, Done
<1>10. CASE \E i \in Requests, r \in CallRecords : TaskMove(i, r)
  <2>1. /\ pc' = pc /\ pc \in Parked /\ wake' \in BOOLEAN
        /\ UNCHANGED <<mainVars, waitUntil, reason, cooldown, cancels, hard>>
    BY <1>0, <1>10 DEF TaskMove, MainTypes, Pacing
  <2> QED BY <1>0, <2>1 DEF MainTypes, Parked, Pacing, ReadingsHold, GapKept, mainVars
<1>11. CASE UNCHANGED vars
  <2>1. /\ UNCHANGED <<pc, now, ctl, mainVars, wake, waitUntil, reason, cooldown, cancels, hard, failures>>
    BY <1>11 DEF vars, driveVars, ctlVars
  <2>2. elapsed' = elapsed /\ RateAt(ctl', elapsed') = RateAt(ctl, elapsed)
    BY <2>1 DEF mainVars
  <2> QED BY <1>0, <2>1, <2>2 DEF MainTypes, Pacing, ReadingsHold, GapKept, mainVars, Done
<1> QED BY <1>1, <1>2, <1>3, <1>4, <1>5, <1>6, <1>7, <1>8, <1>9, <1>10, <1>11, Steps


StateRecords == [mStart : Nat, mEnd : Nat \cup {NoTime},
                 phase : {"warmup", "hold", "cooldown"},
                 reason : {"aborted", "deadline", "error_rate"}, atStop : Nat,
                 interrupted : Nat, forced : BOOLEAN]

\* The measurement starts with the first hold, or there is none.
LEMMA MeasureIsNat ==
    ASSUME NEW c, c.end \in Nat \cup {NoTime}, c.holdStart \in Nat \cup {NoTime}, Done(c)
    PROVE  MeasureFrom(c) \in Nat /\ c.end \in Nat /\ c.end # NoTime
BY DEF MeasureFrom, Done

\* Where the facts of the stop are taken, and what is taken.
LEMMA FactsMove ==
    ASSUME DriveInv, [Next]_vars
    PROVE  /\ state' \in StateRecords
           /\ \/ /\ Stop /\ (~CutWindow(ctl') <=> reason = "deadline")
                 /\ state'.reason = reason /\ state'.mEnd = ctl'.end /\ state'.mEnd # NoTime /\ Done(ctl)
              \/ /\ Finally /\ ~Frozen
                 /\ state'.reason = "aborted" /\ state'.mEnd = ctl'.end /\ state'.mEnd # NoTime
              \/ state'.reason = state.reason /\ state'.mEnd = state.mEnd
<1>0. /\ state \in StateRecords /\ inflight \in Nat /\ reason \in {"deadline", "error_rate"}
      /\ ctl.end \in Nat \cup {NoTime} /\ ctl.holdStart \in Nat \cup {NoTime}
      /\ ctl'.end \in Nat \cup {NoTime} /\ ctl'.holdStart \in Nat \cup {NoTime}
  <2>1. CtlInv'
    BY ControllerKept
  <2> QED BY <2>1 DEF DriveInv, TypeOK, StateRecords, CtlInv, CtlTypeOK, ReasonTold
<1>1. CASE LoopHead
  <2>1. state' = [state EXCEPT !.phase = Phase(ctl')] /\ Phase(ctl') \in {"warmup", "hold", "cooldown"}
    BY <1>1 DEF LoopHead, Phase
  <2> QED BY <1>0, <2>1 DEF StateRecords
<1>2. CASE Stop
  <2>1. Done(ctl) /\ state.mEnd = NoTime /\ pc = "stop" /\ ctl' = ctl
    BY <1>2 DEF DriveInv, ReadingsHold, MeasuredOnce, Stop, ctlVars
  <2>2. MeasureFrom(ctl) \in Nat /\ ctl.end \in Nat /\ ctl.end # NoTime
    BY <1>0, <2>1, MeasureIsNat
  <2>3. state' = [state EXCEPT !.mEnd = ctl.end, !.mStart = MeasureFrom(ctl), !.reason = reason,
                               !.atStop = inflight, !.phase = "cooldown"]
    BY <1>2 DEF Stop
  <2>4. state' \in StateRecords /\ state'.reason = reason /\ state'.mEnd = ctl.end
    BY <1>0, <2>2, <2>3 DEF StateRecords
  <2>5. ~CutWindow(ctl') <=> reason = "deadline"
    BY <1>0, <2>1 DEF DriveInv, ReasonTold
  <2> QED BY <1>2, <2>1, <2>2, <2>4, <2>5
<1>3. CASE Finally
  <2>1. CASE Frozen
    BY <1>0, <1>3, <2>1 DEF Finally
  <2>2. CASE ~Frozen
    <3>1. Done(ctl')
      BY <1>3, <2>2, ControllerKept
    <3>2. MeasureFrom(ctl') \in Nat /\ ctl'.end \in Nat /\ ctl'.end # NoTime
      BY <1>0, <3>1, MeasureIsNat
    <3>3. state' = [state EXCEPT !.mEnd = ctl'.end, !.mStart = MeasureFrom(ctl'),
                                 !.reason = "aborted", !.atStop = inflight]
      BY <1>3, <2>2 DEF Finally
    <3>4. state' \in StateRecords /\ state'.reason = "aborted" /\ state'.mEnd = ctl'.end
      BY <1>0, <3>2, <3>3 DEF StateRecords
    <3> QED BY <1>3, <2>2, <3>2, <3>4
  <2> QED BY <2>1, <2>2
<1>4. CASE Close
  <2>1. Cardinality(Interrupted) \in Nat
    <3>1. IsFiniteSet(Requests) /\ Interrupted \subseteq Requests
      BY CallsFinite, CallsIn DEF CallsInv, Interrupted
    <3> QED BY <3>1, FS_Subset, FS_CardinalityType
  <2>2. state' = [state EXCEPT !.interrupted = Cardinality(Interrupted), !.forced = (Interrupted # {})]
    BY <1>4 DEF Close
  <2>3. (Interrupted # {}) \in BOOLEAN
    OBVIOUS
  <2> HIDE DEF Interrupted
  <2> QED BY <1>0, <2>1, <2>2, <2>3 DEF StateRecords
<1>5. CASE \E i \in Requests, r \in CallRecords : TaskMove(i, r)
  BY <1>0, <1>5 DEF TaskMove
<1>6. CASE TripBreaker \/ Pace \/ Offer \/ Joined \/ Refuse \/ Resume \/ CooldownOver \/ Cancel
           \/ Clock \/ UNCHANGED vars
  <2>1. state' = state
    BY <1>6 DEF TripBreaker, Pace, Offer, Joined, Refuse, Resume, CooldownOver, Cancel, Clock, vars, driveVars
  <2> QED BY <1>0, <2>1
<1> QED BY <1>1, <1>2, <1>3, <1>4, <1>5, <1>6, Steps

\* The reason is told once, and only where the windows were cut.
LEMMA StopKept ==
    ASSUME DriveInv, [Next]_vars
    PROVE  MeasuredOnce' /\ ReasonTold' /\ StopReasonMatchesWindows'
<1>0. /\ MeasuredOnce /\ ReasonTold /\ StopReasonMatchesWindows
      /\ Done(ctl) => ctl' = ctl
      /\ CutWindow(ctl') => CutWindow(ctl) \/ TripBreaker \/ (Finally /\ ~Done(ctl))
      /\ TripBreaker => CutWindow(ctl') /\ Done(ctl')
  BY ControllerKept DEF DriveInv
<1>1. reason' = reason \/ (TripBreaker /\ reason' = "error_rate" /\ pc = "pace" /\ state' = state)
  BY Steps DEF LoopHead, TripBreaker, Pace, Offer, Stop, Finally, Close, Joined, Refuse, Resume,
               CooldownOver, Cancel, Clock, TaskMove, vars, driveVars
<1>2. pc \in {"cooldown", "finally", "gather", "close", "ended"} =>
          pc' \in {"cooldown", "finally", "gather", "close", "ended"}
  BY Steps DEF LoopHead, TripBreaker, Pace, Offer, Stop, Finally, Close, Joined, Refuse, Resume,
               CooldownOver, Cancel, Clock, TaskMove, vars, driveVars
<1>3. (Stop \/ Finally) => pc' \in {"cooldown", "finally", "gather", "close", "ended"}
  BY DEF Stop, Finally
<1>4. state.mEnd # NoTime => Done(ctl) /\ ctl' = ctl /\ pc # "pace"
  BY <1>0 DEF MeasuredOnce, Done
<1>5. MeasuredOnce'
  BY <1>0, <1>2, <1>3, <1>4, FactsMove DEF MeasuredOnce
<1>6. ReasonTold'
  <2>1. reason' # "aborted"
    BY <1>0, <1>1 DEF ReasonTold
  <2>2. reason' = "error_rate" => CutWindow(ctl') /\ Done(ctl')
    BY <1>0, <1>1 DEF ReasonTold
  <2>3. ASSUME reason' = "deadline", state'.mEnd = NoTime, CutWindow(ctl') PROVE FALSE
    <3>1. reason = "deadline" /\ ~TripBreaker
      BY <1>1, <2>3 DEF TripBreaker
    <3>2. state.mEnd = NoTime
      BY <2>3, FactsMove
    <3>4. ASSUME Finally, ~Frozen PROVE FALSE
      <4>1. ctl'.end # NoTime
        BY <3>4, ControllerKept DEF Done
      <4>2. state'.mEnd = ctl'.end
        BY <3>4 DEF Finally, DriveInv, TypeOK
      <4> QED BY <2>3, <4>1, <4>2
    <3>3. ~Finally
      BY <3>2, <3>4 DEF Frozen
    <3> QED BY <1>0, <2>3, <3>1, <3>2, <3>3 DEF ReasonTold
  <2> QED BY <2>1, <2>2, <2>3 DEF ReasonTold
<1>7. StopReasonMatchesWindows'
  <2>1. state'.mEnd # NoTime =>
            /\ state'.reason = "deadline" => ~CutWindow(ctl')
            /\ state'.reason = "error_rate" => CutWindow(ctl')
    <3>1. CASE Stop /\ (~CutWindow(ctl') <=> reason = "deadline") /\ state'.reason = reason
      BY <1>0, <3>1, FactsMove DEF ReasonTold
    <3>2. CASE state'.reason = "aborted"
      BY <3>2
    <3>3. CASE state'.reason = state.reason /\ state'.mEnd = state.mEnd
      BY <1>0, <1>4, <3>3 DEF StopReasonMatchesWindows, CutWindow
    <3> QED BY <3>1, <3>2, <3>3, FactsMove
  <2> QED BY <2>1 DEF StopReasonMatchesWindows, CutWindow
<1> QED BY <1>5, <1>6, <1>7


\* Main closes only when nothing is left to join, and every record is closed.
LEMMA EndKept ==
    ASSUME DriveInv, [Next]_vars PROVE AllJoined' /\ RequestsAccounted'
<1>0. AllJoined /\ RequestsAccounted /\ CallsInv
  BY CallsIn DEF DriveInv
<1>1. /\ req \in Seq(CallRecords) /\ Requests = 1..Len(req)
      /\ \A i \in Requests : req[i] \in CallRecords /\ WellFormed(req[i])
      /\ \A i \in Requests : req[i].task = "settled" /\ req[i].exc => i \in failures
      /\ Active = {} => \A i \in Requests : req[i].task = "settled"
  BY <1>0, CallsFinite DEF CallsInv, CallsFormed, CallRecords, Active
<1>2. ASSUME Active = {} PROVE inflight = 0
  <2>1. Live = {}
    BY <1>1, <1>2 DEF Live
  <2> QED BY <1>0, <2>1, FS_EmptySet DEF CallsInv, InflightExact
<1>3. ASSUME Active = {}, NEW i \in Requests
      PROVE  /\ req[i].state = "interrupted" => req[i].op /\ req[i].eval = "none"
             /\ ~req[i].exc /\ req[i].state # "interrupted" =>
                   req[i].state = "finished" /\ req[i].op /\ req[i].eval \in {"ok", "bad"}
             /\ req[i].exc => Result # "ok"
  <2>1. req[i].task = "settled" /\ WellFormed(req[i]) /\ req[i] \in CallRecords
    BY <1>1, <1>3
  <2>2. req[i].exc => Result # "ok"
    BY <1>1, <2>1 DEF Result
  <2> QED BY <2>1, <2>2 DEF WellFormed
<1>4. CASE Finally
  <2>1. pc' = "close" => Active = {}
    BY <1>4 DEF Finally
  <2>2. ASSUME Active = {} PROVE req' = req
    <3>1. \A i \in Requests : req[i].task \notin {"created", "running"}
      BY <1>1, <2>2
    <3>2. req' = [i \in Requests |-> req[i]]
      BY <1>4, <3>1 DEF Finally
    <3> QED BY <1>1, <3>2 DEF Requests
  <2>3. pc' \in {"close", "gather"}
    BY <1>4 DEF Finally
  <2> QED BY <2>1, <2>2, <2>3 DEF AllJoined, RequestsAccounted, Active, Requests
<1>5. CASE Joined
  <2>1. /\ Active = {} /\ req' = req /\ inflight' = inflight /\ cancels' = cancels
        /\ failures' = failures /\ hard' = hard /\ pc' = (IF hard THEN "ended" ELSE "close")
    BY <1>5 DEF Joined
  <2>2. AllJoined'
    BY <2>1 DEF AllJoined, Active, Requests
  <2>3. ASSUME NEW i \in Requests'
        PROVE  /\ req'[i].state = "interrupted" => req'[i].op /\ req'[i].eval = "none"
               /\ ~req'[i].exc /\ req'[i].state # "interrupted" =>
                     req'[i].state = "finished" /\ req'[i].op /\ req'[i].eval \in {"ok", "bad"}
               /\ req'[i].exc => Result' # "ok"
    BY <1>3, <2>1 DEF Requests, Result
  <2> QED BY <1>2, <2>1, <2>2, <2>3 DEF RequestsAccounted
<1>6. CASE Close
  <2>1. /\ Active = {} /\ pc' = "ended" /\ req' = req /\ inflight' = inflight /\ cancels' = cancels
        /\ failures' = failures
    BY <1>0, <1>6 DEF Close, AllJoined
  <2>2. AllJoined'
    BY <2>1 DEF AllJoined, Active, Requests
  <2>3. ASSUME NEW i \in Requests'
        PROVE  /\ req'[i].state = "interrupted" => req'[i].op /\ req'[i].eval = "none"
               /\ ~req'[i].exc /\ req'[i].state # "interrupted" =>
                     req'[i].state = "finished" /\ req'[i].op /\ req'[i].eval \in {"ok", "bad"}
               /\ req'[i].exc => Result' # "ok"
    BY <1>3, <2>1 DEF Requests, Result
  <2>4. state'.reason = state.reason
    BY <1>6 DEF Close, DriveInv, TypeOK
  <2>5. cooldown' = (IF Interrupted = {} THEN "empty"
                     ELSE IF state.reason = "aborted" THEN "cancelled" ELSE "timeout")
    BY <1>6 DEF Close
  <2>6. Interrupted' = Interrupted
    BY <2>1 DEF Interrupted, Requests
  <2>7. /\ cooldown' # "none" /\ (cooldown' = "empty" <=> Interrupted' = {})
        /\ (cooldown' = "timeout" => state'.reason # "aborted")
    BY <2>4, <2>5, <2>6
  <2> QED BY <1>2, <2>1, <2>2, <2>3, <2>7 DEF RequestsAccounted
<1>7. CASE UNCHANGED vars
  BY <1>0, <1>7 DEF vars, driveVars, AllJoined, RequestsAccounted, Active, Requests, Interrupted, Result
<1>8. CASE LoopHead \/ TripBreaker \/ Pace \/ Offer \/ Stop \/ Refuse \/ Resume \/ CooldownOver
           \/ Cancel \/ Clock \/ \E i \in Requests, r \in CallRecords : TaskMove(i, r)
  <2>1. pc' \notin {"close", "ended"}
    BY <1>8 DEF LoopHead, TripBreaker, Pace, Offer, Stop, Refuse, Resume, CooldownOver, Cancel, Clock,
                TaskMove, Parked, driveVars
  <2> QED BY <2>1 DEF AllJoined, RequestsAccounted
<1> QED BY <1>4, <1>5, <1>6, <1>7, <1>8, Steps

LEMMA DriveStarts == Init => DriveInv
<1> SUFFICES ASSUME Init PROVE DriveInv
  OBVIOUS
<1>1. CtlInv /\ CtlTypeOK /\ ctl.prevCap = Cap0 /\ ctl.end = NoTime
      /\ \A j \in StageId : ctl.win[j].reason = "none"
  <2>1. CtlInit /\ CtlInv
    BY CtlStarts DEF Init
  <2>2. \A j \in StageId : ctl.win[j] = Fresh(0) \/ ctl.win[j] = Unopened
    BY <2>1 DEF CtlInit
  <2>3. Fresh(0).reason = "none" /\ Unopened.reason = "none"
    BY DEF Fresh, Unopened
  <2>4. ctl.prevCap = Cap0 /\ ctl.end = NoTime
    BY <2>1 DEF CtlInit
  <2> QED BY <2>1, <2>2, <2>3, <2>4 DEF CtlInv
<1>2. /\ pc = "loop" /\ elapsed = 0 /\ due = 0 /\ lastDispatch = NoTime /\ lastRate = NoTime
      /\ wasFull = FALSE /\ wake = FALSE /\ waitUntil = 0
      /\ req = << >> /\ inflight = 0 /\ failures = {}
      /\ state = [mStart |-> 0, mEnd |-> NoTime, phase |-> "warmup",
                  reason |-> "aborted", atStop |-> 0, interrupted |-> 0, forced |-> FALSE]
      /\ reason = "deadline" /\ cooldown = "none" /\ cancels = 0 /\ hard = FALSE
  BY DEF Init
<1>3. req \in Seq(CallRecords) /\ Requests = {} /\ Live = {} /\ Cardinality(Live) = 0
  BY <1>2, FS_EmptySet DEF Requests, Live
<1>4. state \in StateRecords /\ state.mEnd = NoTime
  BY <1>2 DEF StateRecords
<1>5. TypeOK
  BY <1>1, <1>2, <1>3, <1>4 DEF TypeOK, CallRecords, StateRecords, MainRuns, NoTime
<1>6. ~CutWindow(ctl)
  BY <1>1 DEF CutWindow
<1>7. ReadingsHold /\ GapKept /\ MeasuredOnce /\ ReasonTold /\ StopReasonMatchesWindows /\ AllJoined
  BY <1>2, <1>4, <1>6 DEF ReadingsHold, GapKept, MeasuredOnce, ReasonTold, StopReasonMatchesWindows, AllJoined
<1>8. ArrivalsFit /\ CallsFormed /\ InflightExact /\ RequestsAccounted
  BY <1>2, <1>3 DEF ArrivalsFit, CallsFormed, InflightExact, RequestsAccounted
<1>9. LiveWithinPeak
  BY <1>3, PlanAssumption DEF LiveWithinPeak, PeakInflight
<1> QED BY <1>1, <1>5, <1>7, <1>8, <1>9 DEF DriveInv, CapsPlanned

LEMMA DriveStep == DriveInv /\ [Next]_vars => DriveInv'
<1> SUFFICES ASSUME DriveInv, [Next]_vars PROVE DriveInv'
  OBVIOUS
<1>1. CtlInv' /\ CapsPlanned'
  BY ControllerKept
<1>2. CallsInv'
  BY CallsIn, CallsKept
<1>3. TypeOK'
  BY <1>1, <1>2, MainKept, FactsMove DEF TypeOK, CtlInv, CallsInv, CallRecords, StateRecords, MainTypes, Pacing
<1> QED BY <1>1, <1>2, <1>3, ArrivalsKept, MainKept, StopKept, EndKept DEF DriveInv, CallsInv


\* The inductive invariant of one load: every sum of what the plan, the
\* windows, the clock, the calls and the stop say of each other (drive()).
THEOREM DriveInvariant == Spec => []DriveInv
BY DriveStarts, DriveStep, PTL DEF Spec

\* For any plan and any cancellation, hang, failure or stall: every call starts
\* inside a window that is open at that instant, none after the measurement
\* ended, and never more are in flight than the client pools are sized for
\* (drive() and offer() of scheduler.py over LoadController).
THEOREM CallsAdmitted == Spec => []AdmittedByPlan
<1>1. DriveInv => AdmittedByPlan
  <2> SUFFICES ASSUME DriveInv, NEW i \in Requests
               PROVE  /\ \E j \in StageId :
                            /\ ctl.win[j].opened /\ ctl.win[j].start <= req[i].at
                            /\ \/ req[i].at < ctl.win[j].end
                               \/ \A m \in StageId : m > j => ~ctl.win[m].opened
                      /\ state.mEnd # NoTime => req[i].at <= state.mEnd
    BY DEF AdmittedByPlan, ArrivalsInsideWindows, DriveInv
  <2>1. Fits(ctl, req[i].at)
    BY DEF DriveInv, ArrivalsFit
  <2>2. state.mEnd # NoTime => state.mEnd = ctl.end
    BY DEF DriveInv, MeasuredOnce
  <2>3. state.mEnd # NoTime => req[i].at <= state.mEnd
    BY <2>1, <2>2 DEF Fits, Done
  <2>4. PICK j \in StageId : /\ ctl.win[j].opened /\ ctl.win[j].start <= req[i].at
                             /\ req[i].at < ctl.win[j].end \/ j = ctl.index
    BY <2>1 DEF Fits, Placed
  <2>5. j = ctl.index => \A m \in StageId : m > j => ~ctl.win[m].opened
    BY DEF DriveInv, CtlInv, LastIsOpen
  <2> QED BY <2>3, <2>4, <2>5
<1> QED BY <1>1, DriveInvariant, PTL

\* Whatever ends a load, "deadline" is told only of a plan that ran to its end
\* and "error_rate" only of a window that was cut (drive(), finally block).
THEOREM StopReasonTold == Spec => []StopReasonMatchesWindows
<1>1. DriveInv => StopReasonMatchesWindows
  BY DEF DriveInv
<1> QED BY <1>1, DriveInvariant, PTL

\* However a call dies, its slot is freed once and its record is closed: the
\* count of the calls in flight is exact at every await (fire() and drive()).
THEOREM EveryCallAccounted == Spec => []CallsAccounted
<1>1. DriveInv => CallsAccounted
  BY DEF DriveInv, CallsAccounted
<1> QED BY <1>1, DriveInvariant, PTL

\* Nothing arrives once a judge has raised, and two arrivals at one constant
\* rate are a full gap apart, whatever blocked the loop (drive(), offer()).
THEOREM ArrivalsPaced == Spec => PacedArrivals
<1>1. ASSUME DriveInv, [Next]_vars
      PROVE  /\ (\E i \in Requests : req[i].eval = "raised") => Len(req') = Len(req)
             /\ Len(req') > Len(req) /\ lastDispatch # NoTime /\ ~Poisson =>
                   elapsed >= lastDispatch + Gap(RateAt(ctl, elapsed))
  <2>1. CASE Offer
    <3>1. failures = {} /\ lastRate = RateAt(ctl, elapsed) /\ due <= elapsed
      BY <1>1, <2>1 DEF DriveInv, ReadingsHold, Offer
    <3>2. ~\E i \in Requests : req[i].eval = "raised"
      BY <1>1, <3>1 DEF DriveInv, CallsFormed
    <3>3. lastDispatch # NoTime /\ ~Poisson => elapsed >= lastDispatch + Gap(lastRate)
      <4>1. elapsed \in Nat /\ due \in Nat /\ lastDispatch \in Nat \cup {NoTime}
        BY <1>1 DEF DriveInv, TypeOK
      <4>2. lastDispatch # NoTime /\ ~Poisson => due >= lastDispatch + Gap(lastRate) /\ lastRate \in Nat
        BY <1>1 DEF DriveInv, GapKept
      <4>3. lastRate \in Nat => Gap(lastRate) \in Nat
        BY GapIsNat
      <4> QED BY <3>1, <4>1, <4>2, <4>3
    <3> QED BY <3>1, <3>2, <3>3
  <2>2. CASE ~Offer
    <3>1. Len(req') = Len(req) /\ Len(req) \in Nat
      BY <1>1, <2>2, CallsIn, CallsKept, CallsFinite DEF CallsInv
    <3> QED BY <3>1
  <2> QED BY <2>1, <2>2
<1>2. DriveInv /\ [Next]_vars =>
         [(\E i \in Requests : req[i].eval = "raised") => Len(req') = Len(req)]_vars
  BY <1>1
<1>3. DriveInv /\ [Next]_vars =>
         [Len(req') > Len(req) /\ lastDispatch # NoTime /\ ~Poisson =>
             elapsed >= lastDispatch + Gap(RateAt(ctl, elapsed))]_vars
  BY <1>1
<1> QED BY <1>2, <1>3, DriveInvariant, PTL
         DEF Spec, PacedArrivals, NoRefillAfterJudgeFailure, NoBurst

\* The census of the interrupted calls is all that Close writes into the state.
LEMMA CloseTells ==
    ASSUME Close
    PROVE  /\ \E n, b : state' = [state EXCEPT !.interrupted = n, !.forced = b]
           /\ UNCHANGED <<ctl, req, now>> /\ pc' = "ended"
<1>1. UNCHANGED <<ctl, req, now>> /\ pc' = "ended"
  BY DEF Close, ctlVars
<1> DEFINE b == Interrupted # {}
<1>2. state' = [state EXCEPT !.interrupted = Cardinality(Interrupted), !.forced = b]
  BY DEF Close
<1>3. \E n, d : state' = [state EXCEPT !.interrupted = n, !.forced = d]
  BY <1>2, Zenon
<1> QED BY <1>1, <1>3

\* No step of drive() rewrites a fact of a stop that is known.
LEMMA FactsHold ==
    ASSUME DriveInv, [Next]_vars, state.mEnd # NoTime
    PROVE  /\ state'.mEnd = state.mEnd /\ state'.mStart = state.mStart
           /\ state'.atStop = state.atStop
           /\ ctl'.win = ctl.win /\ Len(req') = Len(req)
<1>1. Done(ctl) /\ ctl' = ctl /\ pc \notin {"offer", "stop"}
  BY ControllerKept DEF DriveInv, MeasuredOnce, Done
<1>2. Len(req') = Len(req)
  BY <1>1, CallsIn, CallsKept DEF Offer
<1>3. state \in StateRecords
  BY DEF DriveInv, TypeOK, StateRecords
<1>4. \/ state' = state
      \/ state' = [state EXCEPT !.phase = Phase(ctl')]
      \/ \E n, b : state' = [state EXCEPT !.interrupted = n, !.forced = b]
  <2>1. CASE LoopHead
    BY <2>1 DEF LoopHead
  <2>2. CASE Close
    BY <2>2, CloseTells
  <2>3. CASE Finally
    BY <2>3 DEF Finally, Frozen
  <2>4. CASE TripBreaker \/ Pace \/ Offer \/ Joined \/ Refuse \/ Resume \/ CooldownOver \/ Cancel
             \/ Clock \/ UNCHANGED vars \/ \E i \in Requests, r \in CallRecords : TaskMove(i, r)
    BY <2>4 DEF TripBreaker, Pace, Offer, Joined, Refuse, Resume, CooldownOver, Cancel, Clock, TaskMove,
                vars, driveVars
  <2> QED BY <1>1, <2>1, <2>2, <2>3, <2>4, Steps DEF Stop
<1>5. state'.mEnd = state.mEnd /\ state'.mStart = state.mStart /\ state'.atStop = state.atStop
  BY <1>3, <1>4 DEF StateRecords
<1> QED BY <1>1, <1>2, <1>5

\* "Freeze load facts BEFORE waiting for cancellation": once the end of the
\* measurement is known, no drain, join, cancellation or late call rewrites it.
THEOREM FactsStay == Spec => [][FactsKept]_vars
<1>1. DriveInv /\ [Next]_vars => [FactsKept]_vars
  BY FactsHold DEF FactsKept
<1> QED BY <1>1, DriveInvariant, PTL DEF Spec

-----------------------------------------------------------------------------
(* The TypeScript twin: what a stop wrote is read only behind the stop.     *)

\* The measurement has its end only once the scheduler is past its stop.
TsShape ==
    /\ now \in Nat /\ req \in Seq(CallRecords)
    /\ state = [mStart |-> state.mStart, mEnd |-> state.mEnd, phase |-> state.phase,
                reason |-> state.reason, atStop |-> state.atStop,
                interrupted |-> state.interrupted, forced |-> state.forced]
    /\ state.mEnd # NoTime => pc \in {"cooldown", "finally", "gather", "close", "ended"}

TwinInv ==
    /\ twin \in {"python", "typescript"}
    /\ twin = "python" => DriveInv
    /\ twin = "typescript" => TsShape

\* What a step may do to a stop that is known.
StopKeeps ==
    state.mEnd # NoTime =>
        /\ state'.mEnd = state.mEnd /\ state'.mStart = state.mStart
        /\ state'.atStop = state.atStop
        /\ ctl'.win = ctl.win /\ Len(req') = Len(req)
        /\ state'.reason # state.reason => HostAborted /\ state'.reason = "aborted"

\* A step that leaves the facts and the calls as they are.
LEMMA TsRests ==
    ASSUME TsShape, now' \in Nat, UNCHANGED <<req, state>>,
           state.mEnd # NoTime =>
               ctl' = ctl /\ pc' \in {"cooldown", "finally", "gather", "close", "ended"}
    PROVE  TsShape' /\ StopKeeps
  BY DEF TsShape, StopKeeps

LEMMA TsLoopKeeps ==
    ASSUME TsShape,
           HeadTurn \/ AbortSeen \/ BreakerTurn \/ PaceTurn \/ RefuseTurn \/ ResumeTurn \/ TsOffer \/ TsStop
    PROVE  TsShape' /\ StopKeeps
<1>1. now' = now /\ pc \notin {"cooldown", "finally", "gather", "close", "ended"}
  BY DEF HeadTurn, AbortSeen, BreakerTurn, PaceTurn, RefuseTurn, ResumeTurn, TsOffer, TsStop,
         LoopHead, TripBreaker, Pace, Refuse, Resume, ctlVars
<1>2. state.mEnd = NoTime /\ now' \in Nat
  BY <1>1 DEF TsShape
<1>3. StopKeeps
  BY <1>2 DEF StopKeeps
<1>4. CASE HeadTurn
  <2>1. state' = [state EXCEPT !.phase = Phase(ctl')] /\ req' = req
    BY <1>4 DEF HeadTurn, LoopHead
  <2> QED BY <1>2, <1>3, <2>1 DEF TsShape
<1>5. CASE AbortSeen \/ BreakerTurn \/ PaceTurn \/ RefuseTurn \/ ResumeTurn
  <2>1. UNCHANGED <<req, state>>
    BY <1>5 DEF AbortSeen, BreakerTurn, PaceTurn, RefuseTurn, ResumeTurn, TripBreaker, Pace, Refuse, Resume
  <2> QED BY <1>2, <2>1, TsRests
<1>6. CASE TsOffer
  <2> DEFINE r == [Arrival(now) EXCEPT !.task = "running", !.state = "dispatched"]
  <2>1. req' = Append(req, r) /\ UNCHANGED state
    BY <1>6 DEF TsOffer
  <2>2. r \in CallRecords
    BY DEF TsShape, Arrival, CallRecords
  <2>3. req' \in Seq(CallRecords)
    <3> HIDE DEF r
    <3> QED BY <2>1, <2>2 DEF TsShape
  <2> QED BY <1>2, <1>3, <2>1, <2>3 DEF TsShape
<1>7. CASE TsStop
  <2>1. /\ state' = [state EXCEPT !.mEnd = ctl.end, !.mStart = MeasureFrom(ctl), !.reason = reason,
                                  !.atStop = AtStop, !.phase = "cooldown"]
        /\ pc' \in {"finally", "cooldown"} /\ req' = req
    BY <1>7 DEF TsStop
  <2> QED BY <1>2, <1>3, <2>1 DEF TsShape
<1> QED BY <1>4, <1>5, <1>6, <1>7

\* Only the cooldown that is cut short changes what is known, and its reason alone.
LEMMA TsWindsDown ==
    ASSUME TsShape, TsCooldownOver \/ TsFinally \/ JoinedTurn \/ TsClose
    PROVE  TsShape' /\ StopKeeps
<1>1. now' \in Nat /\ pc' \in {"cooldown", "finally", "gather", "close", "ended"}
  BY DEF TsShape, TsCooldownOver, TsFinally, JoinedTurn, TsClose, Joined, Close, ctlVars
<1>2. CASE TsCooldownOver
  <2>1. UNCHANGED <<ctl, req>>
    BY <1>2 DEF TsCooldownOver, ctlVars
  <2>2. CASE HostAborted
    <3>1. state' = [state EXCEPT !.reason = "aborted"]
      BY <1>2, <2>2 DEF TsCooldownOver
    <3> QED BY <1>1, <2>1, <2>2, <3>1 DEF TsShape, StopKeeps
  <2>3. CASE ~HostAborted
    <3>1. UNCHANGED state
      BY <1>2, <2>3 DEF TsCooldownOver
    <3> QED BY <1>1, <2>1, <3>1, TsRests
  <2> QED BY <2>2, <2>3
<1>3. CASE TsFinally
  <2>1. req' \in Seq(CallRecords) /\ Len(req') = Len(req)
    <3>1. req' = [i \in 1..Len(req) |-> [req[i] EXCEPT !.cut = (@ \/ i \in Active)]]
      BY <1>3 DEF TsFinally, TsShape, Requests
    <3>2. ASSUME NEW i \in 1..Len(req)
          PROVE  [req[i] EXCEPT !.cut = (@ \/ i \in Active)] \in CallRecords
      <4> DEFINE b == (req[i].cut \/ i \in Active)
      <4>1. b \in BOOLEAN /\ req[i] \in CallRecords
        BY DEF TsShape
      <4> HIDE DEF b
      <4>2. [req[i] EXCEPT !.cut = b] \in CallRecords
        BY <4>1 DEF CallRecords
      <4> QED BY <4>2 DEF b
    <3>3. Len(req) \in Nat
      BY DEF TsShape
    <3> QED BY <3>1, <3>2, <3>3
  <2>2. CASE Frozen
    <3>1. UNCHANGED <<ctl, state>>
      BY <1>3, <2>2 DEF TsFinally
    <3> QED BY <1>1, <2>1, <3>1 DEF TsShape, StopKeeps
  <2>3. CASE ~Frozen
    <3>1. state' = [state EXCEPT !.mEnd = ctl'.end, !.mStart = MeasureFrom(ctl'),
                                 !.reason = "aborted", !.atStop = AtStop]
      BY <1>3, <2>3 DEF TsFinally
    <3> QED BY <1>1, <2>1, <2>3, <3>1 DEF TsShape, StopKeeps, Frozen
  <2> QED BY <2>2, <2>3
<1>4. CASE JoinedTurn
  <2>1. UNCHANGED <<ctl, req, state>>
    BY <1>4 DEF JoinedTurn, Joined, ctlVars
  <2> QED BY <1>1, <2>1, TsRests
<1>5. CASE TsClose
  <2>1. UNCHANGED <<ctl, req>> /\ \E n, b : state' = [state EXCEPT !.interrupted = n, !.forced = b]
    BY <1>5, CloseTells DEF TsClose
  <2>2. PICK n, b : state' = [state EXCEPT !.interrupted = n, !.forced = b]
    BY <2>1
  <2> QED BY <1>1, <2>1, <2>2 DEF TsShape, StopKeeps
<1> QED BY <1>2, <1>3, <1>4, <1>5

\* A call that ends, and the host that aborts, touch no fact of the stop.
LEMMA TsCallsKeep ==
    ASSUME TsShape, HostAbort \/ Clock \/ Ended \/ \E i \in Requests : CallSettles(i)
    PROVE  TsShape' /\ StopKeeps
<1>1. CASE HostAbort \/ Ended \/ Clock
  <2>1. UNCHANGED <<ctl, req, state, pc>> /\ now' \in {now, now + 1}
    BY <1>1 DEF HostAbort, Ended, Clock, vars, ctlVars, driveVars
  <2>2. now' \in Nat
    BY <2>1 DEF TsShape
  <2> QED BY <2>1, <2>2, TsRests DEF TsShape
<1>2. CASE \E i \in Requests : CallSettles(i)
  <2>1. PICK i \in Requests : CallSettles(i)
    BY <1>2
  <2>2. i \in 1..Len(req) /\ req[i] \in CallRecords
    BY <2>1 DEF TsShape, Requests
  <2>3. PICK r \in CallRecords : CallEnds(i, r)
    <3>1. CASE CallInterrupted(i)
      <4>1. [req[i] EXCEPT !.task = "settled", !.state = "interrupted", !.op = TRUE] \in CallRecords
        BY <2>2 DEF CallRecords
      <4> QED BY <3>1, <4>1 DEF CallInterrupted
    <3>2. ASSUME NEW v \in {"ok", "bad", "raised"}, CallJudged(i, v)
          PROVE  \E r \in CallRecords : CallEnds(i, r)
      <4>1. [req[i] EXCEPT !.task = "settled", !.state = "finished", !.op = TRUE,
                           !.eval = v, !.exc = (v = "raised")] \in CallRecords
        BY <2>2 DEF CallRecords
      <4> QED BY <3>2, <4>1 DEF CallJudged
    <3> QED BY <2>1, <3>1, <3>2 DEF CallSettles
  <2>4. UNCHANGED <<now, ctl, state, pc>> /\ req' = [req EXCEPT ![i] = r]
    BY <2>3 DEF CallEnds, ctlVars
  <2>5. req' \in Seq(CallRecords) /\ Len(req') = Len(req)
    BY <2>2, <2>3, <2>4 DEF TsShape
  <2> QED BY <2>4, <2>5 DEF TsShape, StopKeeps
<1> QED BY <1>1, <1>2

LEMMA TwinStarts == TsInit => TwinInv
<1> SUFFICES ASSUME TsInit PROVE TwinInv
  OBVIOUS
<1>1. DriveInv
  BY DriveStarts DEF TsInit
<1>2. TsShape
  <2>1. req = << >> /\ now = 0 /\ state.mEnd = NoTime
    BY DEF TsInit, Init, CtlInit
  <2>2. state = [mStart |-> 0, mEnd |-> NoTime, phase |-> "warmup", reason |-> "aborted",
                 atStop |-> 0, interrupted |-> 0, forced |-> FALSE]
    BY DEF TsInit, Init
  <2> QED BY <2>1, <2>2 DEF TsShape
<1> QED BY <1>1, <1>2 DEF TwinInv, TsInit

LEMMA TwinStep ==
    ASSUME TwinInv, [TsNext]_twinVars
    PROVE  /\ TwinInv' /\ StopKeeps
           /\ twin = "python" /\ state.mEnd # NoTime => state'.reason = state.reason
<1>1. twin' = twin
  <2>1. TsMain => twin' = twin
    BY DEF TsMain, tsVars, HeadTurn, AbortSeen, BreakerTurn, PaceTurn, RefuseTurn, ResumeTurn,
           TsOffer, TsStop, TsCooldownOver, TsFinally, JoinedTurn, TsClose
  <2>2. HostAbort \/ (\E i \in Requests : CallSettles(i)) => twin' = twin
    BY DEF HostAbort, CallSettles, CallInterrupted, CallJudged, CallEnds
  <2> QED BY <2>1, <2>2 DEF TsNext, twinVars, tsVars
<1>2. CASE twin = "python"
  <2>1. DriveInv /\ [Next]_vars
    BY <1>2 DEF TwinInv, TsNext, twinVars
  <2>2. DriveInv'
    BY <2>1, DriveStep
  <2>3. state.mEnd # NoTime => state'.reason = state.reason
    BY <2>1, FactsMove DEF DriveInv, MeasuredOnce, Stop, Frozen
  <2>4. StopKeeps
    BY <2>1, <2>3, FactsHold DEF StopKeeps
  <2> QED BY <1>1, <1>2, <2>2, <2>3, <2>4 DEF TwinInv
<1>3. CASE twin = "typescript"
  <2>1. TsShape
    BY <1>3 DEF TwinInv
  <2>2. \/ TsMain \/ HostAbort \/ (\E i \in Requests : CallSettles(i)) \/ Clock \/ Ended
        \/ UNCHANGED vars
    BY <1>3 DEF TsNext, twinVars
  <2>3. TsShape' /\ StopKeeps
    <3>1. CASE UNCHANGED vars
      <4>1. UNCHANGED <<ctl, req, state, pc, now>>
        BY <3>1 DEF vars, ctlVars, driveVars
      <4>2. /\ now' \in Nat
            /\ state.mEnd # NoTime =>
                   ctl' = ctl /\ pc' \in {"cooldown", "finally", "gather", "close", "ended"}
        BY <2>1, <4>1 DEF TsShape
      <4> QED BY <2>1, <4>1, <4>2, TsRests
    <3>2. CASE \/ HeadTurn \/ AbortSeen \/ BreakerTurn \/ PaceTurn \/ RefuseTurn \/ ResumeTurn
               \/ TsOffer \/ TsStop
      BY <2>1, <3>2, TsLoopKeeps
    <3>3. CASE TsCooldownOver \/ TsFinally \/ JoinedTurn \/ TsClose
      BY <2>1, <3>3, TsWindsDown
    <3>4. CASE HostAbort \/ Clock \/ Ended \/ \E i \in Requests : CallSettles(i)
      BY <2>1, <3>4, TsCallsKeep
    <3> QED BY <2>2, <3>1, <3>2, <3>3, <3>4 DEF TsMain
  <2> QED BY <1>1, <1>3, <2>3 DEF TwinInv
<1> QED BY <1>2, <1>3 DEF TwinInv

\* In both twins, however many calls still drain: what a stop wrote stays
\* written, but for the reason, which a host's abort during the TypeScript
\* cooldown turns into "aborted" (scheduler.ts and scheduler.py, drive()).
THEOREM StopStaysHistory == TsSpec => StopIsHistory
<1>1. TwinInv /\ [TsNext]_twinVars =>
         [FactsKept /\ (state.mEnd # NoTime /\ state'.reason # state.reason
                        => twin = "typescript" /\ HostAborted /\ state'.reason = "aborted")]_twinVars
  BY TwinStep DEF TwinInv, StopKeeps, FactsKept
<1>2. TwinInv /\ [TsNext]_twinVars => TwinInv'
  BY TwinStep
<1> QED BY <1>1, <1>2, TwinStarts, PTL DEF TsSpec, StopIsHistory

=============================================================================
