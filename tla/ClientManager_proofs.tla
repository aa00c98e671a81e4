------------------------ MODULE ClientManager_proofs ------------------------
(***************************************************************************)
(* The safety of what owns clients, for any keys, dependencies and         *)
(* consumers: the client manager in Python (ClientManager) and in          *)
(* TypeScript (TsClientManager), and the run around it (EnvironmentRun).   *)
(***************************************************************************)
EXTENDS ClientManager, TsClientManager, EnvironmentRun, SequenceTheorems, TLAPS

Open == disposal \notin {"closing", "done"}

(* The inductive invariant: what ties the tasks, the client objects and    *)
(* the ready list to each other between two steps of the event loop.       *)

\* A client is under construction or cleanup exactly while its task runs.
LiveIsRunning ==
    \A k \in Keys :
        client[k] = "live" <=> task[k] \in {"initializing", "cleaning"}

\* Until clients close, a ready client is one whose task succeeded.
ReadyIsOk ==
    Open => \A k \in Keys : client[k] = "ready" <=> task[k] = "ok"

\* A key that is free, or just stored, has no client to lose.
FreeIsClean ==
    Open => \A k \in Keys :
        task[k] \in {"absent", "created"} => client[k] \in {"none", "closed"}

\* No task is left when clients close.
AllJoined == ~Open => \A k \in Keys : task[k] = "absent"

\* The ready list holds each ready client once.
ListedReady ==
    /\ \A k \in Keys : client[k] = "ready" => k \in Ready
    /\ Open => \A i \in DOMAIN ready : client[ready[i]] = "ready"
    /\ disposal = "done" => ready = << >>
    /\ \A i, j \in DOMAIN ready : ready[i] = ready[j] => i = j

\* Clients that are closed were listed after all that are still open.
ClosedFromTheEnd ==
    \A i, j \in DOMAIN ready :
        i < j /\ client[ready[j]] = "ready" => client[ready[i]] = "ready"

\* A dependency is listed before the client that borrowed it.
DependenciesFirst ==
    \A j \in DOMAIN ready : \A d \in held[ready[j]] :
        \E i \in DOMAIN ready : i < j /\ ready[i] = d

\* Only a running initialize awaits; "ok" is said only of ready clients.
AwaitsHonest ==
    \A k \in Keys : awaits[k] # Nothing =>
        /\ task[k] = "initializing"
        /\ awaits[k].answer = "ok" =>
             awaits[k].key \in Keys /\ client[awaits[k].key] = "ready"

\* What a client under construction has borrowed is ready.
LiveHoldsReady ==
    \A k \in Keys : client[k] = "live" =>
        \A d \in held[k] : client[d] = "ready"

\* A consumer told "ok" has a ready client.
AsksHonest ==
    \A c \in Consumers : asks[c].answer = "ok" /\ Open =>
        asks[c].key \in Keys /\ client[asks[c].key] = "ready"

\* A failed cleanup is reported.
UncleanReported == \A k \in Keys : client[k] = "unclean" => k \in errors

Ledger == LiveIsRunning /\ ReadyIsOk /\ FreeIsClean /\ AllJoined /\ UncleanReported
Listing == ListedReady /\ ClosedFromTheEnd /\ DependenciesFirst
Honesty == AwaitsHonest /\ LiveHoldsReady /\ AsksHonest

IInv == TypeOK /\ Ledger /\ Listing /\ Honesty

-----------------------------------------------------------------------------
(* What the helpers of the model return.                                   *)

(* Telling an answer keeps who waits and for which key, and changes the    *)
(* answer of exactly the pending waits for that key.                       *)
LEMMA TellType ==
    ASSUME NEW D, NEW waiting \in [D -> Waits], NEW k \in Keys,
           NEW answer \in Answers
    PROVE  /\ Tell(waiting, k, answer) \in [D -> Waits]
           /\ \A w \in D :
                /\ Tell(waiting, k, answer)[w].key = waiting[w].key
                /\ waiting[w].key = k /\ waiting[w].answer = "pending" =>
                     Tell(waiting, k, answer)[w].answer = answer
                /\ ~(waiting[w].key = k /\ waiting[w].answer = "pending") =>
                     Tell(waiting, k, answer)[w] = waiting[w]
BY KeysAssumption DEF Tell, Waits, Nothing

(* A key with no task gets one, every other task is left alone.            *)
LEMMA StoredType ==
    ASSUME TypeOK, NEW k \in Keys
    PROVE  /\ Stored(k) \in [Keys -> Tasks]
           /\ \A j \in Keys : Stored(k)[j] # task[j] =>
                 j = k /\ task[j] = "absent" /\ Stored(k)[j] = "created"
BY DEF Stored, TypeOK, Tasks, Unfinished

LEMMA AnswerType ==
    ASSUME NEW k PROVE AnswerOf(k) \in Answers
BY DEF AnswerOf, Answers

-----------------------------------------------------------------------------
(* The type invariant is inductive.                                        *)

LEMMA InitTypeOK == Init => TypeOK
BY DEF Init, TypeOK, Waits, Tasks, ClientStates

LEMMA ConsumerTypeOK ==
    ASSUME TypeOK, NEW c \in Consumers, Consumer(c) PROVE TypeOK'
<1>1. CASE Leave(c)
  BY <1>1 DEF Leave, TypeOK, Answers, Waits, Nothing, taskVars
<1>2. ASSUME NEW k \in Keys, Get(c, k) PROVE TypeOK'
  BY <1>2, StoredType, AnswerType DEF Get, TypeOK, Waits
<1>3. ASSUME NEW k \in Keys, Refused(c, k) PROVE TypeOK'
  BY <1>3 DEF Refused, TypeOK, Answers, Waits, taskVars
<1> QED BY <1>1, <1>2, <1>3 DEF Consumer

LEMMA FailsTypeOK ==
    ASSUME TypeOK, NEW k \in Keys, Fails(k),
           client' \in [Keys -> ClientStates], errors' \subseteq Keys
    PROVE  TypeOK'
<1>1. "error" \in Answers /\ "failed" \in Tasks /\ Nothing \in Waits
  BY DEF Answers, Tasks, Waits
<1>2. /\ Tell(awaits, k, "error") \in [Keys -> Waits]
      /\ Tell(asks, k, "error") \in [Consumers -> Waits]
  BY <1>1, TellType DEF TypeOK
<1> QED BY <1>1, <1>2 DEF Fails, TypeOK

LEMMA TaskTypeOK ==
    ASSUME TypeOK, NEW k \in Keys, Task(k) PROVE TypeOK'
<1>1. CASE Start(k)
  BY <1>1 DEF Start, TypeOK, Tasks, Unfinished, ClientStates
<1>2. CASE NeverBuilt(k)
  BY <1>2, FailsTypeOK DEF NeverBuilt, TypeOK
<1>3. CASE Borrowed(k)
  <2>1. awaits[k].key \in Keys
    BY <1>3 DEF Borrowed, TypeOK, Waits, Nothing
  <2> QED BY <1>3, <2>1 DEF Borrowed, TypeOK, Waits
<1>4. CASE Initialized(k)
  <2>1. "ok" \in Answers
    BY DEF Answers
  <2>2. /\ Tell(awaits, k, "ok") \in [Keys -> Waits]
        /\ Tell(asks, k, "ok") \in [Consumers -> Waits]
    BY <2>1, TellType DEF TypeOK
  <2>3. Append(ready, k) \in Seq(Keys)
    BY DEF TypeOK
  <2> QED BY <1>4, <2>2, <2>3 DEF Initialized, TypeOK, Tasks, ClientStates
<1>5. CASE Breaks(k)
  BY <1>5 DEF Breaks, TypeOK, Tasks, Unfinished, Waits
<1>6. CASE Cleaned(k)
  BY <1>6, FailsTypeOK DEF Cleaned, TypeOK, ClientStates
<1>7. CASE CleanupBreaks(k)
  BY <1>7, FailsTypeOK DEF CleanupBreaks, TypeOK, ClientStates
<1>8. CASE Settled(k)
  BY <1>8 DEF Settled, TypeOK, Tasks
<1>9. ASSUME NEW d \in Keys, Borrow(k, d) PROVE TypeOK'
  BY <1>9, StoredType, AnswerType DEF Borrow, TypeOK, Waits
<1> QED BY <1>1, <1>2, <1>3, <1>4, <1>5, <1>6, <1>7, <1>8, <1>9 DEF Task

LEMMA DisposalTypeOK ==
    ASSUME TypeOK, Dispose \/ Disposal PROVE TypeOK'
<1>1. CASE Dispose BY <1>1 DEF Dispose, TypeOK, taskVars
<1>2. CASE Cut BY <1>2 DEF Cut, ToCut, TypeOK
<1>3. CASE Join BY <1>3 DEF Join, TypeOK, Tasks
<1>4. CASE Close
  <2>1. PICK i \in NewestFirst(StillOpen) :
            /\ client' = [client EXCEPT ![ready[i]] = "closed"]
            /\ errors' \in {errors, errors \cup {ready[i]}}
    BY <1>4 DEF Close
  <2>2. ready[i] \in Keys
    BY <2>1 DEF NewestFirst, StillOpen, TypeOK
  <2> QED BY <1>4, <2>1, <2>2 DEF Close, TypeOK, ClientStates
<1>5. CASE Disposed BY <1>5 DEF Disposed, TypeOK, taskVars
<1> QED BY <1>1, <1>2, <1>3, <1>4, <1>5 DEF Disposal

LEMMA NextTypeOK == TypeOK /\ [Next]_vars => TypeOK'
<1> SUFFICES ASSUME TypeOK, [Next]_vars PROVE TypeOK'
  OBVIOUS
<1>1. CASE UNCHANGED vars BY <1>1 DEF vars, taskVars, TypeOK
<1> QED
  BY <1>1, ConsumerTypeOK, TaskTypeOK, DisposalTypeOK DEF Next, Over

(* Every state of the manager is well formed.                              *)
THEOREM TypeCorrect == Spec => []TypeOK
BY InitTypeOK, NextTypeOK, PTL DEF Spec

-----------------------------------------------------------------------------
(* The inductive invariant, one lemma per group of conjuncts and actions.  *)

USE DEF Open, Ready

(* A step that changes neither clients, nor what they hold, nor the list,  *)
(* nor the disposal leaves the listing as it is.                           *)
LEMMA ListingFrame ==
    ASSUME Listing, UNCHANGED <<client, held, ready, disposal>>
    PROVE  Listing'
BY DEF Listing, ListedReady, ClosedFromTheEnd, DependenciesFirst

(* Nobody is told "ok" of a client that is not ready: an answer other than *)
(* "ok" makes nobody's honest wait dishonest, and no wait begins or ends.  *)
LEMMA TellHonest ==
    ASSUME NEW D, NEW waiting \in [D -> Waits], NEW k \in Keys,
           NEW answer \in Answers, NEW w \in D,
           NEW told, told = Tell(waiting, k, answer)[w]
    PROVE  /\ told.key = waiting[w].key
           /\ told.answer = "ok" =>
                \/ waiting[w].answer = "ok"
                \/ answer = "ok" /\ told.key = k
           /\ told # Nothing => waiting[w] # Nothing
<1>1. /\ told.key = waiting[w].key
      /\ waiting[w].key = k /\ waiting[w].answer = "pending" =>
           told.answer = answer
      /\ ~(waiting[w].key = k /\ waiting[w].answer = "pending") =>
           told = waiting[w]
  BY TellType
<1>2. waiting[w].key = k => waiting[w] # Nothing
  BY KeysAssumption DEF Nothing
<1> QED BY <1>1, <1>2

LEMMA InitIInv == Init => IInv
<1> SUFFICES ASSUME Init PROVE IInv
  OBVIOUS
<1>1. TypeOK
  BY InitTypeOK
<1>2. Ledger
  BY DEF Init, Ledger, LiveIsRunning, ReadyIsOk, FreeIsClean, AllJoined,
         UncleanReported
<1>3. Listing
  BY DEF Init, Listing, ListedReady, ClosedFromTheEnd, DependenciesFirst
<1>4. Honesty
  BY DEF Init, Honesty, AwaitsHonest, LiveHoldsReady, AsksHonest, Nothing
<1> QED BY <1>1, <1>2, <1>3, <1>4 DEF IInv

LEMMA ConsumerIInv ==
    ASSUME IInv, NEW c \in Consumers, Consumer(c) PROVE IInv'
<1>1. TypeOK /\ TypeOK'
  BY ConsumerTypeOK DEF IInv
<1>2. \A k \in Keys : task'[k] # task[k] =>
            task[k] = "absent" /\ task'[k] = "created" /\ disposal = "none"
  BY <1>1, StoredType DEF Consumer, Leave, Get, Refused, taskVars
<1>3. UNCHANGED <<client, held, awaits, ready, errors, disposal>>
  BY DEF Consumer, Leave, Get, Refused, taskVars
<1>4. Ledger'
  BY <1>1, <1>2, <1>3
     DEF IInv, Ledger, LiveIsRunning, ReadyIsOk, FreeIsClean, AllJoined,
         UncleanReported, TypeOK
<1>5. Listing'
  BY <1>3, ListingFrame DEF IInv
<1>6. AwaitsHonest' /\ LiveHoldsReady'
  BY <1>1, <1>2, <1>3
     DEF IInv, Honesty, AwaitsHonest, LiveHoldsReady, TypeOK
<1>7. AsksHonest'
  <2>1. \A b \in Consumers : asks'[b].answer = "ok" =>
            \/ asks'[b] = asks[b]
            \/ disposal = "none" /\ asks'[b].key \in Keys /\ task[asks'[b].key] = "ok"
    <3>1. CASE Leave(c)
      BY <1>1, <3>1 DEF Leave, TypeOK
    <3>2. ASSUME NEW k \in Keys, AnswerOf(k) = "ok" PROVE task[k] = "ok"
      BY <3>2 DEF AnswerOf
    <3>3. ASSUME NEW k \in Keys, Get(c, k)
          PROVE  /\ disposal = "none"
                 /\ \A b \in Consumers \ {c} : asks'[b] = asks[b]
                 /\ asks'[c].key = k
                 /\ asks'[c].answer = AnswerOf(k)
      BY <1>1, <3>3 DEF Get, TypeOK
    <3>4. ASSUME NEW k \in Keys, Refused(c, k)
          PROVE  /\ \A b \in Consumers \ {c} : asks'[b] = asks[b]
                 /\ asks'[c].answer = "error"
      BY <1>1, <3>4 DEF Refused, TypeOK
    <3> QED BY <3>1, <3>2, <3>3, <3>4 DEF Consumer
  <2> QED
    BY <1>3, <2>1 DEF IInv, Honesty, AsksHonest, Ledger, ReadyIsOk
<1> QED BY <1>1, <1>4, <1>5, <1>6, <1>7 DEF IInv, Honesty

(* A task that ends with an exception: its client was not ready, nobody    *)
(* relied on it, and it is closed or its error reported.                   *)
LEMMA FailsIInv ==
    ASSUME IInv, TypeOK', NEW k \in Keys, Fails(k),
           task[k] \in {"created", "cleaning"},
           client'[k] # "live" /\ client'[k] # "ready",
           client'[k] = "unclean" => k \in errors',
           \A j \in Keys \ {k} : client'[j] = client[j],
           errors \subseteq errors'
    PROVE  IInv'
<1>1. TypeOK
  BY DEF IInv
<1>2. /\ \A j \in Keys \ {k} : task'[j] = task[j]
      /\ task'[k] = "failed"
      /\ Open
      /\ client[k] # "ready"
      /\ k \notin Ready
      /\ UNCHANGED <<held, ready, disposal>>
  BY <1>1 DEF Fails, IInv, Ledger, Listing, AllJoined, ReadyIsOk, ListedReady, TypeOK
<1>3. Ledger'
  BY <1>1, <1>2
     DEF IInv, Ledger, LiveIsRunning, ReadyIsOk, FreeIsClean, AllJoined,
         UncleanReported, TypeOK
<1>4. Listing'
  BY <1>1, <1>2
     DEF IInv, Listing, ListedReady, ClosedFromTheEnd, DependenciesFirst, TypeOK
<1>5. LiveHoldsReady'
  BY <1>1, <1>2 DEF IInv, Honesty, LiveHoldsReady, TypeOK
<1>6. /\ "error" \in Answers /\ awaits \in [Keys -> Waits]
      /\ asks \in [Consumers -> Waits]
  BY <1>1 DEF Answers, TypeOK
<1>7. AwaitsHonest'
  <2>1. awaits' = [Tell(awaits, k, "error") EXCEPT ![k] = Nothing]
    BY DEF Fails
  <2>2. Tell(awaits, k, "error") \in [Keys -> Waits]
    BY <1>6, TellType
  <2>3. \A j \in Keys : awaits'[j] # Nothing =>
            /\ j # k /\ awaits[j] # Nothing
            /\ awaits'[j].key = awaits[j].key
            /\ awaits'[j].answer = "ok" => awaits[j].answer = "ok"
    BY <1>6, <2>1, <2>2, TellHonest
  <2> QED
    BY <1>1, <1>2, <2>3 DEF IInv, Honesty, AwaitsHonest, TypeOK
<1>8. AsksHonest'
  <2>1. asks' = Tell(asks, k, "error")
    BY DEF Fails
  <2>2. \A c \in Consumers :
            /\ asks'[c].key = asks[c].key
            /\ asks'[c].answer = "ok" => asks[c].answer = "ok"
    BY <1>6, <2>1, TellHonest
  <2> QED
    BY <1>2, <2>2 DEF IInv, Honesty, AsksHonest
<1> QED BY <1>3, <1>4, <1>5, <1>7, <1>8 DEF IInv, Honesty

LEMMA StartIInv ==
    ASSUME IInv, TypeOK', NEW k \in Keys, Start(k) PROVE IInv'
<1>1. TypeOK /\ Open /\ client[k] # "ready" /\ k \notin Ready
  BY DEF Start, IInv, Ledger, Listing, AllJoined, ReadyIsOk, ListedReady, TypeOK
<1>2. Ledger'
  BY <1>1 DEF Start, IInv, Ledger, LiveIsRunning, ReadyIsOk, FreeIsClean,
              AllJoined, UncleanReported, TypeOK
<1>3. Listing'
  BY <1>1 DEF Start, IInv, Listing, ListedReady, ClosedFromTheEnd,
              DependenciesFirst, TypeOK
<1>4. AwaitsHonest' /\ AsksHonest'
  BY <1>1 DEF Start, IInv, Honesty, AwaitsHonest, AsksHonest, TypeOK
<1>5. LiveHoldsReady'
  BY <1>1 DEF Start, IInv, Honesty, LiveHoldsReady, TypeOK
<1> QED BY <1>2, <1>3, <1>4, <1>5 DEF IInv, Honesty

LEMMA BorrowIInv ==
    ASSUME IInv, TypeOK', NEW k \in Keys, NEW d \in Keys, Borrow(k, d)
    PROVE  IInv'
<1>1. TypeOK
  BY DEF IInv
<1>2. \A j \in Keys : task'[j] # task[j] =>
            task[j] = "absent" /\ task'[j] = "created" /\ j # k
  BY <1>1, StoredType DEF Borrow
<1>3. Ledger'
  BY <1>1, <1>2
     DEF Borrow, IInv, Ledger, LiveIsRunning, ReadyIsOk, FreeIsClean, AllJoined,
         UncleanReported, TypeOK
<1>4. Listing'
  BY ListingFrame DEF Borrow, IInv
<1>5. AwaitsHonest'
  BY <1>1, <1>2
     DEF Borrow, AnswerOf, IInv, Ledger, ReadyIsOk, Honesty, AwaitsHonest, TypeOK
<1>6. LiveHoldsReady' /\ AsksHonest'
  BY DEF Borrow, IInv, Honesty, LiveHoldsReady, AsksHonest
<1> QED BY <1>3, <1>4, <1>5, <1>6 DEF IInv, Honesty

LEMMA BorrowedIInv ==
    ASSUME IInv, TypeOK', NEW k \in Keys, Borrowed(k) PROVE IInv'
<1>1. TypeOK
  BY DEF IInv
<1>2. /\ client[k] = "live"
      /\ awaits[k] # Nothing
      /\ client[awaits[k].key] = "ready"
      /\ Open
  BY <1>1 DEF Borrowed, IInv, Ledger, LiveIsRunning, AllJoined, Honesty,
              AwaitsHonest, Nothing
<1>3. k \notin Ready
  BY <1>1, <1>2 DEF IInv, Listing, ListedReady
<1>4. Ledger'
  BY DEF Borrowed, IInv, Ledger, LiveIsRunning, ReadyIsOk, FreeIsClean, AllJoined,
         UncleanReported
<1>5. Listing'
  <2>1. \A j \in DOMAIN ready : ready[j] # k
    BY <1>3
  <2> QED
    BY <1>1, <2>1 DEF Borrowed, IInv, Listing, ListedReady, ClosedFromTheEnd,
                      DependenciesFirst, TypeOK
<1>6. AwaitsHonest' /\ AsksHonest'
  BY <1>1 DEF Borrowed, IInv, Honesty, AwaitsHonest, AsksHonest, TypeOK
<1>7. LiveHoldsReady'
  BY <1>1, <1>2 DEF Borrowed, IInv, Honesty, LiveHoldsReady, TypeOK
<1> QED BY <1>4, <1>5, <1>6, <1>7 DEF IInv, Honesty

(* A client joins the list behind all its dependencies, and those who are  *)
(* told "ok" asked for it.                                                 *)
LEMMA InitializedIInv ==
    ASSUME IInv, TypeOK', NEW k \in Keys, Initialized(k) PROVE IInv'
<1>1. TypeOK
  BY DEF IInv
<1>2. client[k] = "live" /\ Open
  BY DEF Initialized, IInv, Ledger, LiveIsRunning, AllJoined
<1>3. k \notin Ready
  BY <1>2 DEF IInv, Listing, ListedReady
<1>4. /\ \A j \in Keys \ {k} : client'[j] = client[j] /\ task'[j] = task[j]
      /\ client'[k] = "ready" /\ task'[k] = "ok"
      /\ UNCHANGED <<held, disposal, errors>>
  BY <1>1 DEF Initialized, TypeOK
<1>5. Ledger'
  BY <1>1, <1>2, <1>4
     DEF IInv, Ledger, LiveIsRunning, ReadyIsOk, FreeIsClean, AllJoined,
         UncleanReported, TypeOK
<1>6. Listing'
  <2> DEFINE n == Len(ready)
  <2>1. /\ n \in Nat /\ DOMAIN ready = 1..n /\ DOMAIN ready' = 1..(n + 1)
        /\ ready'[n + 1] = k
        /\ \A i \in 1..n : ready'[i] = ready[i] /\ ready[i] \in Keys \ {k}
    BY <1>1, <1>3 DEF Initialized, TypeOK
  <2> HIDE DEF n
  <2>2. ListedReady'
    <3>1. \A j \in Keys : client'[j] = "ready" => j \in Ready'
      BY <1>4, <2>1 DEF IInv, Listing, ListedReady
    <3> QED BY <1>2, <1>4, <2>1, <3>1 DEF IInv, Listing, ListedReady
  <2>3. ClosedFromTheEnd'
    BY <1>2, <1>4, <2>1 DEF IInv, Listing, ListedReady, ClosedFromTheEnd
  <2>4. DependenciesFirst'
    <3>1. \A d \in held[k] : d \in Ready
      BY <1>1, <1>2 DEF IInv, Honesty, LiveHoldsReady, Listing, ListedReady, TypeOK
    <3>2. \A d \in held[k] : \E i \in 1..(n + 1) : i < n + 1 /\ ready'[i] = d
      BY <2>1, <3>1
    <3>3. ASSUME NEW j \in 1..n, NEW d \in held[ready[j]]
          PROVE  \E i \in 1..(n + 1) : i < j /\ ready'[i] = d
      BY <2>1 DEF IInv, Listing, DependenciesFirst
    <3> QED BY <1>4, <2>1, <3>2, <3>3 DEF DependenciesFirst
  <2> QED BY <2>2, <2>3, <2>4 DEF Listing
<1>7. LiveHoldsReady'
  BY <1>1, <1>2, <1>4 DEF IInv, Honesty, LiveHoldsReady, TypeOK
<1>8. /\ "ok" \in Answers /\ awaits \in [Keys -> Waits]
      /\ asks \in [Consumers -> Waits]
  BY <1>1 DEF Answers, TypeOK
<1>9. AwaitsHonest'
  <2>1. \A j \in Keys : awaits'[j] # Nothing =>
            /\ awaits[j] # Nothing
            /\ awaits'[j].answer = "ok" =>
                 \/ awaits'[j].key = k
                 \/ awaits'[j].key = awaits[j].key /\ awaits[j].answer = "ok"
    BY <1>8, TellHonest DEF Initialized
  <2>2. awaits[k] = Nothing
    BY DEF Initialized
  <2> QED
    BY <1>1, <1>2, <1>4, <2>1, <2>2 DEF IInv, Honesty, AwaitsHonest, TypeOK
<1>10. AsksHonest'
  <2>1. \A c \in Consumers : asks'[c].answer = "ok" =>
            \/ asks'[c].key = k
            \/ asks'[c].key = asks[c].key /\ asks[c].answer = "ok"
    BY <1>8, TellHonest DEF Initialized
  <2> QED
    BY <1>2, <1>4, <2>1 DEF IInv, Honesty, AsksHonest
<1> QED BY <1>5, <1>6, <1>7, <1>9, <1>10 DEF IInv, Honesty

LEMMA BreaksIInv ==
    ASSUME IInv, TypeOK', NEW k \in Keys, Breaks(k) PROVE IInv'
<1>1. TypeOK
  BY DEF IInv
<1>2. Ledger'
  BY <1>1 DEF Breaks, IInv, Ledger, LiveIsRunning, ReadyIsOk, FreeIsClean,
              AllJoined, UncleanReported, TypeOK
<1>3. Listing'
  BY ListingFrame DEF Breaks, IInv
<1>4. Honesty'
  BY <1>1 DEF Breaks, IInv, Honesty, AwaitsHonest, LiveHoldsReady, AsksHonest,
              TypeOK
<1> QED BY <1>2, <1>3, <1>4 DEF IInv

LEMMA SettledIInv ==
    ASSUME IInv, TypeOK', NEW k \in Keys, Settled(k) PROVE IInv'
<1>1. TypeOK
  BY DEF IInv
<1>2. /\ client[k] \in {"none", "closed"} \/ ~Open
      /\ task[k] = "failed"
      /\ \A j \in Keys \ {k} : task'[j] = task[j]
      /\ task'[k] = "absent"
      /\ UNCHANGED <<client, held, awaits, ready, errors, disposal, asks>>
  BY <1>1 DEF Settled, FailedTask, Retries, IInv, Ledger, LiveIsRunning, ReadyIsOk,
              TypeOK, ClientStates
<1>3. Ledger'
  BY <1>2 DEF IInv, Ledger, LiveIsRunning, ReadyIsOk, FreeIsClean,
              AllJoined, UncleanReported
<1>4. Listing'
  BY <1>2, ListingFrame DEF IInv
<1>5. Honesty'
  BY <1>2 DEF IInv, Honesty, AwaitsHonest, LiveHoldsReady, AsksHonest
<1> QED BY <1>3, <1>4, <1>5 DEF IInv

LEMMA TaskIInv ==
    ASSUME IInv, NEW k \in Keys, Task(k) PROVE IInv'
<1>1. TypeOK /\ TypeOK'
  BY TaskTypeOK DEF IInv
<1>2. CASE NeverBuilt(k)
  <2>1. client[k] # "live" /\ client[k] # "ready"
    BY <1>1, <1>2 DEF NeverBuilt, IInv, Ledger, LiveIsRunning, ReadyIsOk, AllJoined
  <2>2. client[k] = "unclean" => k \in errors
    BY DEF IInv, Ledger, UncleanReported
  <2> QED BY <1>1, <1>2, <2>1, <2>2, FailsIInv DEF NeverBuilt
<1>3. CASE Cleaned(k)
  BY <1>1, <1>3, FailsIInv DEF Cleaned, TypeOK
<1>4. CASE CleanupBreaks(k)
  BY <1>1, <1>4, FailsIInv DEF CleanupBreaks, TypeOK
<1> QED
  BY <1>1, <1>2, <1>3, <1>4, StartIInv, BorrowIInv, BorrowedIInv, InitializedIInv,
     BreaksIInv, SettledIInv DEF Task

LEMMA JoinIInv == ASSUME IInv, TypeOK', Join PROVE IInv'
<1>1. TypeOK
  BY DEF IInv
<1>2. /\ Open /\ ~Open' /\ disposal' = "closing"
      /\ \A k \in Keys : task[k] \notin {"created", "initializing", "cleaning"}
      /\ \A k \in Keys : task'[k] = "absent"
      /\ UNCHANGED <<client, held, awaits, ready, errors, asks>>
  BY <1>1 DEF Join, Joined, Unfinished, TypeOK
<1>3. Ledger'
  BY <1>2 DEF IInv, Ledger, LiveIsRunning, ReadyIsOk, FreeIsClean, AllJoined,
              UncleanReported
<1>4. Listing'
  BY <1>2 DEF IInv, Listing, ListedReady, ClosedFromTheEnd, DependenciesFirst
<1>5. Honesty'
  BY <1>2 DEF IInv, Honesty, AwaitsHonest, LiveHoldsReady, AsksHonest
<1> QED BY <1>3, <1>4, <1>5 DEF IInv

(* Closing the newest open client: those that remain open are listed       *)
(* before it, so what they hold is still open.                             *)
LEMMA CloseIInv == ASSUME IInv, TypeOK', Close PROVE IInv'
<1>1. TypeOK /\ ~Open /\ UNCHANGED <<task, held, awaits, ready, disposal, asks>>
  BY DEF Close, IInv
<1>2. PICK n \in DOMAIN ready :
        /\ client[ready[n]] = "ready"
        /\ \A j \in DOMAIN ready : client[ready[j]] = "ready" => j <= n
        /\ client' = [client EXCEPT ![ready[n]] = "closed"]
        /\ errors \subseteq errors'
  BY DEF Close, NewestFirst, StillOpen
<1>3. /\ ready[n] \in Keys
      /\ client'[ready[n]] = "closed"
      /\ \A k \in Keys \ {ready[n]} : client'[k] = client[k]
  BY <1>1, <1>2 DEF TypeOK
<1>4. Ledger'
  BY <1>1, <1>2, <1>3
     DEF IInv, Ledger, LiveIsRunning, ReadyIsOk, FreeIsClean, AllJoined,
         UncleanReported
<1>5. Listing'
  <2>1. DOMAIN ready \subseteq Nat /\ \A i \in DOMAIN ready : ready[i] \in Keys
    BY <1>1 DEF TypeOK
  <2>2. ListedReady'
    BY <1>1, <1>3 DEF IInv, Listing, ListedReady
  <2>3. ClosedFromTheEnd'
    BY <1>1, <1>2, <1>3, <2>1 DEF IInv, Listing, ListedReady, ClosedFromTheEnd
  <2>4. DependenciesFirst'
    BY <1>1 DEF IInv, Listing, DependenciesFirst
  <2> QED BY <2>2, <2>3, <2>4 DEF Listing
<1>6. Honesty'
  BY <1>1, <1>3 DEF IInv, Ledger, LiveIsRunning, AllJoined, Honesty, AwaitsHonest,
              LiveHoldsReady, AsksHonest
<1> QED BY <1>1, <1>4, <1>5, <1>6 DEF IInv

LEMMA DisposedIInv == ASSUME IInv, TypeOK', Disposed PROVE IInv'
<1>1. TypeOK /\ ~Open /\ ~Open' /\ ready' = << >>
  BY DEF Disposed, IInv
<1>2. \A k \in Keys : client[k] # "ready"
  BY DEF Disposed, StillOpen, IInv, Listing, ListedReady
<1>3. UNCHANGED <<task, client, held, awaits, errors, asks>>
  BY DEF Disposed, taskVars
<1>4. Ledger' /\ Honesty'
  BY <1>1, <1>3
     DEF IInv, Ledger, LiveIsRunning, ReadyIsOk, FreeIsClean, AllJoined,
         UncleanReported, Honesty, AwaitsHonest, LiveHoldsReady, AsksHonest
<1>5. Listing'
  BY <1>1, <1>2, <1>3 DEF Listing, ListedReady, ClosedFromTheEnd, DependenciesFirst
<1> QED BY <1>4, <1>5 DEF IInv

LEMMA NextIInv == IInv /\ [Next]_vars => IInv'
<1> SUFFICES ASSUME IInv, [Next]_vars PROVE IInv'
  OBVIOUS
<1>1. TypeOK /\ TypeOK'
  BY NextTypeOK DEF IInv
<1>2. CASE UNCHANGED vars \/ Dispose \/ Cut
  <2>1. /\ UNCHANGED <<task, client, held, awaits, ready, errors, asks>>
        /\ Open' = Open
        /\ disposal' = "done" => disposal = "done"
    BY <1>1, <1>2 DEF vars, taskVars, Dispose, Cut
  <2>2. Ledger'
    BY <2>1 DEF IInv, Ledger, LiveIsRunning, ReadyIsOk, FreeIsClean, AllJoined,
                UncleanReported
  <2>3. Listing'
    BY <2>1 DEF IInv, Listing, ListedReady, ClosedFromTheEnd, DependenciesFirst
  <2>4. Honesty'
    BY <2>1 DEF IInv, Honesty, AwaitsHonest, LiveHoldsReady, AsksHonest
  <2> QED BY <1>1, <2>2, <2>3, <2>4 DEF IInv
<1> QED
  BY <1>1, <1>2, ConsumerIInv, TaskIInv, JoinIInv, CloseIInv, DisposedIInv
     DEF Next, Disposal, Over

THEOREM Inductive == Spec => []IInv
BY InitIInv, NextIInv, PTL DEF Spec

-----------------------------------------------------------------------------
(* What the inductive invariant is for.                                    *)

(* No client in use sees a dependency it borrowed closed under it: a ready *)
(* client is listed behind what it holds, and closing goes from the end.   *)
THEOREM DependenciesOutlive == Spec => []DependenciesOutliveConsumers
<1>1. IInv => DependenciesOutliveConsumers
  <2> SUFFICES ASSUME IInv, NEW k \in Keys, client[k] = "ready",
                      NEW d \in held[k]
               PROVE  client[d] = "ready"
    BY DEF DependenciesOutliveConsumers, IInv, Honesty, LiveHoldsReady
  <2>1. PICK j \in DOMAIN ready : ready[j] = k
    BY DEF IInv, Listing, ListedReady
  <2>2. PICK i \in DOMAIN ready : i < j /\ ready[i] = d
    BY <2>1 DEF IInv, Listing, DependenciesFirst
  <2> QED BY <2>1, <2>2 DEF IInv, Listing, ClosedFromTheEnd
<1> QED BY <1>1, Inductive, PTL

(* After the disposal every client ever built is closed or reported.       *)
THEOREM NothingSurvives == Spec => []NothingSurvivesDisposal
<1>1. IInv => NothingSurvivesDisposal
  <2> SUFFICES ASSUME IInv, disposal = "done", NEW k \in Keys
               PROVE  /\ task[k] = "absent"
                      /\ client[k] \in {"none", "closed", "unclean"}
                      /\ client[k] = "unclean" => k \in errors
    BY DEF NothingSurvivesDisposal
  <2>1. task[k] = "absent" /\ client[k] # "live"
    BY DEF IInv, Ledger, AllJoined, LiveIsRunning
  <2>2. client[k] # "ready"
    BY DEF IInv, Listing, ListedReady
  <2>3. client[k] \in ClientStates
    BY DEF IInv, TypeOK
  <2> QED BY <2>1, <2>2, <2>3 DEF IInv, Ledger, UncleanReported, ClientStates
<1> QED BY <1>1, Inductive, PTL

(* What a consumer was given stays ready until the root closes clients.    *)
THEOREM AnswersStay == Spec => []AnsweredClientsStay
<1>1. IInv => AnsweredClientsStay
  BY DEF IInv, Honesty, AsksHonest, AnsweredClientsStay
<1> QED BY <1>1, Inductive, PTL

(* A key never has two clients, and an unclean one is never replaced.      *)
THEOREM OneClient == Spec => OneClientPerKey
<1> DEFINE Builds == \A k \in Keys :
      client'[k] = "live" /\ client[k] # "live" =>
         /\ client[k] \in {"none", "closed"}
         /\ k \notin Ready
         /\ disposal \notin {"closing", "done"}
<1>1. IInv /\ IInv' /\ [Next]_vars => [Builds]_vars
  <2> SUFFICES ASSUME IInv, IInv', [Next]_vars, NEW k \in Keys,
                      client'[k] = "live", client[k] # "live"
               PROVE  /\ client[k] \in {"none", "closed"}
                      /\ k \notin Ready
                      /\ disposal \notin {"closing", "done"}
    OBVIOUS
  <2>1. task[k] \notin {"initializing", "cleaning"}
        /\ task'[k] \in {"initializing", "cleaning"}
    BY DEF IInv, Ledger, LiveIsRunning
  <2>2. Start(k)
    <3>1. TypeOK
      BY DEF IInv
    <3>2. CASE \E c \in Consumers : Consumer(c)
      BY <2>1, <3>1, <3>2, StoredType DEF Consumer, Leave, Get, Refused, taskVars
    <3>3. ASSUME NEW j \in Keys, Task(j), ~Start(j)
          PROVE  task'[k] = task[k] \/ task'[k] = "created" \/ k = j
      BY <3>1, <3>3, StoredType
         DEF Task, NeverBuilt, Borrowed, Initialized, Breaks, Cleaned, CleanupBreaks,
             Settled, Borrow, Fails, TypeOK
    <3>4. ASSUME Task(k), ~Start(k) PROVE FALSE
      BY <2>1, <3>1, <3>4, StoredType
         DEF Task, NeverBuilt, Borrowed, Initialized, Breaks, Cleaned, CleanupBreaks,
             Settled, Borrow, Fails, TypeOK
    <3>5. ASSUME NEW j \in Keys, Start(j) PROVE j = k \/ task'[k] = task[k]
      BY <3>1, <3>5 DEF Start, TypeOK
    <3>6. CASE Dispose \/ Disposal \/ UNCHANGED vars
      BY <2>1, <3>6
         DEF Dispose, Disposal, Cut, Join, Close, Disposed, vars, taskVars
    <3> QED BY <2>1, <3>2, <3>3, <3>4, <3>5, <3>6 DEF Next, Over
  <2> QED
    BY <2>2 DEF Start, IInv, Ledger, FreeIsClean, AllJoined, Listing, ListedReady
<1> QED BY <1>1, Inductive, PTL DEF Spec, OneClientPerKey

-----------------------------------------------------------------------------
(* The TypeScript manager.                                                 *)

TsClientSpec == TsClientInit /\ [][TsClientNext]_tsClientVars

Promises == {"none", "created", "initializing", "ready", "cleaning", "rejected", "poisoned"}
Builds == {"none", "live", "ready", "closing", "closed", "unclean"}
TsAnswers == {"none", "pending", "ok", "error"}

TsTypeOK ==
    /\ promise \in [TsKeys -> Promises] /\ built \in [TsKeys -> Builds]
    /\ borrows \in [TsKeys -> SUBSET (TsKeys \ TsOwned)]
    /\ wait \in [Waiters -> [on : TsKeys \cup {"nobody"}, answer : TsAnswers]]
    /\ rest \in Seq(TsKeys) /\ blame \subseteq TsKeys
    /\ root \in {"active", "aborted", "settling", "closing", "disposed"}

TsOpen == root \notin {"closing", "disposed"}
TsListed == {rest[i] : i \in DOMAIN rest}

\* What the promise of a key says of its newest client and of #ready.
PromiseTells ==
    /\ \A k \in TsKeys : promise[k] \in {"initializing", "cleaning"} <=> built[k] = "live"
    /\ TsOpen => \A k \in TsKeys :
         /\ promise[k] = "ready" <=> k \in TsListed
         /\ promise[k] = "ready" => built[k] = "ready"
                                    \/ (k \in TsOwned /\ built[k] \in {"closing", "closed", "unclean"})
         /\ promise[k] \in {"none", "created", "rejected"} => built[k] \in {"none", "closed"}
         /\ promise[k] = "poisoned" => built[k] = "unclean"
    /\ ~TsOpen => \A k \in TsKeys : promise[k] = "none"

\* #ready lists once each client that is not closed, every dependency before
\* those that borrowed it, and is closed from its end.
RestInOrder ==
    /\ \A i, j \in DOMAIN rest : rest[i] = rest[j] => i = j
    /\ \A k \in TsKeys : built[k] \in {"ready", "closing"} => k \in TsListed
    /\ \A j \in DOMAIN rest : \A d \in borrows[rest[j]] : \E i \in DOMAIN rest : i < j /\ rest[i] = d
    /\ \A j \in DOMAIN rest : rest[j] \notin TsOwned /\ j # Len(rest) => built[rest[j]] = "ready"
    /\ root = "disposed" => rest = << >>

\* An unclean client is blamed, or still to be disposed by the root.
UncleanIsBlamed == \A k \in TsKeys : built[k] = "unclean" => k \in blame \cup TsListed

\* Who waits does so for a promise that will settle; whoever was answered has
\* what the promise gave.
WaitsHonest ==
    /\ \A w \in Waiters : wait[w].answer = "pending" =>
          wait[w].on \in TsKeys /\ promise[wait[w].on] \in Pending
    /\ \A c \in TsConsumers : wait[c].answer # "none" => wait[c].on = TsWants[c]
    /\ \A c \in TsConsumers : wait[c].answer = "ok" /\ TsOpen => promise[TsWants[c]] = "ready"
    /\ \A k \in TsKeys : wait[k] # NoWait =>
          promise[k] = "initializing" /\ wait[k].on \in TsNeeds[k]
    /\ \A k \in TsKeys : wait[k].answer = "none" => wait[k] = NoWait
    /\ \A k \in TsKeys : wait[k].answer = "ok" => built[wait[k].on] = "ready"

TsInv == TsTypeOK /\ PromiseTells /\ RestInOrder /\ UncleanIsBlamed /\ WaitsHonest /\ TsBorrowedStays

-----------------------------------------------------------------------------
\* What asking for a client does: the answer, and a promise that was missing.
Acquired(w, k) ==
    /\ wait' \in [Waiters -> [on : TsKeys \cup {"nobody"}, answer : TsAnswers]]
    /\ promise' \in [TsKeys -> Promises]
    /\ wait'[w].on = k /\ wait'[w].answer # "none"
    /\ \A v \in Waiters \ {w} : wait'[v] = wait[v]
    /\ \A l \in TsKeys : promise'[l] = promise[l] \/ (l = k /\ promise[k] = "none" /\ promise'[k] = "created" /\ root = "active")
    /\ wait'[w].answer = "ok" => promise[k] = "ready" /\ root = "active"
    /\ wait'[w].answer = "pending" => promise'[k] \in Pending

\* #acquire answers one who waits and stores at most one promise.
LEMMA AcquireType ==
    ASSUME TsTypeOK, NEW w \in Waiters, NEW k \in TsKeys, TsAcquire(w, k)
    PROVE  Acquired(w, k)
<1>1. CASE TsAborted
  BY <1>1 DEF TsTypeOK, TsAcquire, Acquired, TsAnswers
<1>2. CASE ~TsAborted
  <2>1. Said(k) \in {"ok", "error", "pending"} /\ (Said(k) = "ok" => promise[k] = "ready")
        /\ (Said(k) = "pending" => promise[k] \in Pending \cup {"none"})
    BY DEF Said, TsTypeOK, Promises, Pending
  <2>2. /\ wait' = [wait EXCEPT ![w] = [on |-> k, answer |-> Said(k)]]
        /\ promise' = [promise EXCEPT ![k] = IF @ = "none" THEN "created" ELSE @]
        /\ root = "active"
    BY <1>2 DEF TsAcquire, TsAborted
  <2>3. wait' \in [Waiters -> [on : TsKeys \cup {"nobody"}, answer : TsAnswers]]
        /\ wait'[w].on = k /\ wait'[w].answer = Said(k) /\ \A v \in Waiters \ {w} : wait'[v] = wait[v]
    BY <2>1, <2>2 DEF TsTypeOK, TsAnswers
  <2>4. promise' \in [TsKeys -> Promises]
        /\ promise'[k] = (IF promise[k] = "none" THEN "created" ELSE promise[k])
        /\ \A l \in TsKeys \ {k} : promise'[l] = promise[l]
    BY <2>2 DEF TsTypeOK, Promises
  <2> QED BY <2>1, <2>2, <2>3, <2>4 DEF Acquired, Pending
<1> QED BY <1>1, <1>2

\* What settling a promise does: its state, and an answer to all that wait.
Settles(k, state, answer) ==
    /\ promise' \in [TsKeys -> Promises] /\ promise'[k] = state
    /\ \A l \in TsKeys \ {k} : promise'[l] = promise[l]
    /\ wait' \in [Waiters -> [on : TsKeys \cup {"nobody"}, answer : TsAnswers]]
    /\ \A w \in Waiters :
          \/ /\ wait[w].on = k /\ wait[w].answer = "pending"
             /\ wait'[w].on = k /\ wait'[w].answer = answer
          \/ /\ ~(wait[w].on = k /\ wait[w].answer = "pending")
             /\ wait'[w] = wait[w]

\* A promise that settles keeps the types.
LEMMA SettlesType ==
    ASSUME TsTypeOK, NEW k \in TsKeys, NEW state \in Promises, NEW answer \in TsAnswers,
           TsSettles(k, state, answer)
    PROVE  Settles(k, state, answer)
<1>1. ASSUME NEW w \in Waiters
      PROVE  /\ wait'[w] \in [on : TsKeys \cup {"nobody"}, answer : TsAnswers]
             /\ \/ /\ wait[w].on = k /\ wait[w].answer = "pending"
                   /\ wait'[w].on = k /\ wait'[w].answer = answer
                \/ /\ ~(wait[w].on = k /\ wait[w].answer = "pending")
                   /\ wait'[w] = wait[w]
  <2>1. wait[w] \in [on : TsKeys \cup {"nobody"}, answer : TsAnswers]
    BY DEF TsTypeOK
  <2>2. wait[w] = [on |-> k, answer |-> "pending"] <=> wait[w].on = k /\ wait[w].answer = "pending"
    BY <2>1
  <2>3. wait'[w] = IF wait[w] = [on |-> k, answer |-> "pending"]
                   THEN [wait[w] EXCEPT !.answer = answer] ELSE wait[w]
    BY DEF TsSettles
  <2> QED BY <2>1, <2>2, <2>3
<1>2. wait' \in [Waiters -> [on : TsKeys \cup {"nobody"}, answer : TsAnswers]]
  BY <1>1 DEF TsSettles
<1>3. promise' \in [TsKeys -> Promises] /\ promise'[k] = state /\ \A l \in TsKeys \ {k} : promise'[l] = promise[l]
  BY DEF TsSettles, TsTypeOK
<1> QED BY <1>1, <1>2, <1>3 DEF Settles

\* Keys and consumers are different.
LEMMA WhoWaits == \A c \in TsConsumers : c \in Waiters /\ c \notin TsKeys
BY TsClientAssumption DEF Waiters

LEMMA KeysWait == \A k \in TsKeys : k \in Waiters /\ k \notin TsConsumers
BY TsClientAssumption DEF Waiters

\* The clients and their list stay, and so does what ties them together.
LEMMA ListStays ==
    ASSUME TsInv, UNCHANGED <<built, borrows, rest, blame>>, root' = root \/ (TsOpen /\ root' # "disposed")
    PROVE  RestInOrder' /\ UncleanIsBlamed' /\ TsBorrowedStays' /\ TsListed' = TsListed
BY DEF TsInv, RestInOrder, UncleanIsBlamed, TsBorrowedStays, TsListed, TsOpen

\* Whoever asks, a consumer or a client that initializes, keeps the invariant.
LEMMA AcquireKeeps ==
    ASSUME TsInv, NEW w \in Waiters, NEW k \in TsKeys, TsAcquire(w, k),
           w \in TsConsumers => k = TsWants[w],
           w \in TsKeys => promise[w] = "initializing" /\ wait[w] = NoWait /\ k \in TsNeeds[w]
    PROVE  TsInv'
<1>0. TsTypeOK /\ PromiseTells /\ WaitsHonest /\ TsBorrowedStays
  BY DEF TsInv
<1>1. UNCHANGED <<built, borrows, rest, blame, root>>
  BY DEF TsAcquire
<1>2. Acquired(w, k)
  BY <1>0, AcquireType
<1>3. RestInOrder' /\ UncleanIsBlamed' /\ TsBorrowedStays' /\ TsListed' = TsListed
  BY <1>1, ListStays
<1>4. TsTypeOK'
  BY <1>0, <1>1, <1>2 DEF TsTypeOK, Acquired
<1>5. PromiseTells'
  BY <1>0, <1>1, <1>2, <1>3 DEF PromiseTells, Acquired, TsOpen
<1>6. WaitsHonest'
  <2>1. ASSUME NEW v \in Waiters, wait'[v].answer = "pending"
        PROVE  wait'[v].on \in TsKeys /\ promise'[wait'[v].on] \in Pending
    <3>1. CASE v = w
      BY <1>2, <2>1, <3>1 DEF Acquired
    <3>2. CASE v # w
      BY <1>0, <1>2, <2>1, <3>2 DEF Acquired, WaitsHonest, Pending
    <3> QED BY <3>1, <3>2
  <2>2. ASSUME NEW c \in TsConsumers
        PROVE  /\ wait'[c].answer # "none" => wait'[c].on = TsWants[c]
               /\ wait'[c].answer = "ok" /\ TsOpen' => promise'[TsWants[c]] = "ready"
    <3>0. TsWants[c] \in TsKeys
      BY TsClientAssumption
    <3>1. CASE c = w
      BY <1>1, <1>2, <3>0, <3>1 DEF Acquired
    <3>2. CASE c # w
      BY <1>0, <1>1, <1>2, <3>0, <3>2, WhoWaits DEF Acquired, WaitsHonest, TsOpen
    <3> QED BY <3>1, <3>2
  <2>3. ASSUME NEW l \in TsKeys
        PROVE  /\ wait'[l] # NoWait => promise'[l] = "initializing" /\ wait'[l].on \in TsNeeds[l]
               /\ wait'[l].answer = "none" => wait'[l] = NoWait
               /\ wait'[l].answer = "ok" => built'[wait'[l].on] = "ready"
    <3>1. CASE l = w
      <4>1. promise'[l] = "initializing"
        BY <1>2, <3>1 DEF Acquired
      <4>2. k \in TsKeys \ TsOwned
        BY <3>1, TsClientAssumption
      <4>3. wait'[l].answer = "ok" => built[k] = "ready"
        BY <1>0, <1>2, <3>1, <4>2 DEF Acquired, PromiseTells, TsOpen
      <4> QED BY <1>1, <1>2, <3>1, <4>1, <4>3 DEF Acquired
    <3>2. CASE l # w
      BY <1>0, <1>1, <1>2, <3>2, KeysWait DEF Acquired, WaitsHonest
    <3> QED BY <3>1, <3>2
  <2> QED BY <2>1, <2>2, <2>3 DEF WaitsHonest
<1> QED BY <1>3, <1>4, <1>5, <1>6 DEF TsInv

\* A promise settles: whoever waits for it is answered, and nobody else.
LEMMA WaitsSettle ==
    ASSUME TsInv, NEW k \in TsKeys, NEW state \in {"ready", "rejected", "poisoned"}, NEW answer \in {"ok", "error"},
           Settles(k, state, answer), UNCHANGED root,
           promise[k] \in Pending, wait[k] = NoWait,
           \A l \in TsKeys \ {k} : built'[l] = built[l],
           answer = "ok" => state = "ready" /\ built'[k] = "ready",
           built[k] # "ready"
    PROVE  WaitsHonest'
<1>0. WaitsHonest
  BY DEF TsInv
<1>1. ASSUME NEW v \in Waiters, wait'[v].answer = "pending"
      PROVE  wait'[v].on \in TsKeys /\ promise'[wait'[v].on] \in Pending
  BY <1>0, <1>1 DEF Settles, WaitsHonest
<1>2. ASSUME NEW c \in TsConsumers
      PROVE  /\ wait'[c].answer # "none" => wait'[c].on = TsWants[c]
             /\ wait'[c].answer = "ok" /\ TsOpen' => promise'[TsWants[c]] = "ready"
  <2>0. TsWants[c] \in TsKeys /\ c \in Waiters
    BY TsClientAssumption, WhoWaits
  <2>1. CASE wait[c].on = k /\ wait[c].answer = "pending"
    <3>1. wait'[c].on = k /\ wait'[c].answer = answer /\ TsWants[c] = k
      BY <1>0, <2>0, <2>1 DEF Settles, WaitsHonest
    <3> QED BY <3>1 DEF Settles
  <2>2. CASE ~(wait[c].on = k /\ wait[c].answer = "pending")
    <3>1. wait'[c] = wait[c]
      BY <2>0, <2>2 DEF Settles
    <3>2. promise[TsWants[c]] = "ready" => promise'[TsWants[c]] = "ready"
      BY <2>0 DEF Settles, Pending
    <3> QED BY <1>0, <3>1, <3>2 DEF WaitsHonest, TsOpen
  <2> QED BY <2>1, <2>2
<1>3. ASSUME NEW l \in TsKeys
      PROVE  /\ wait'[l] # NoWait => promise'[l] = "initializing" /\ wait'[l].on \in TsNeeds[l]
             /\ wait'[l].answer = "none" => wait'[l] = NoWait
             /\ wait'[l].answer = "ok" => built'[wait'[l].on] = "ready"
  <2>0. l \in Waiters
    BY KeysWait
  <2>1. CASE l = k
    <3>1. wait[l].answer = "none"
      BY <2>1 DEF NoWait
    <3>2. wait'[l] = NoWait
      BY <2>0, <2>1, <3>1 DEF Settles
    <3> QED BY <3>2 DEF NoWait
  <2>2. CASE l # k /\ wait[l].on = k /\ wait[l].answer = "pending"
    <3>1. wait[l] # NoWait
      BY <2>2 DEF NoWait
    <3>2. wait'[l].on = k /\ wait'[l].answer = answer
      BY <2>0, <2>2 DEF Settles
    <3>3. promise[l] = "initializing" /\ k \in TsNeeds[l] /\ promise'[l] = promise[l]
      BY <1>0, <2>2, <3>1 DEF Settles, WaitsHonest
    <3> QED BY <3>2, <3>3
  <2>3. CASE l # k /\ ~(wait[l].on = k /\ wait[l].answer = "pending")
    <3>1. wait'[l] = wait[l] /\ promise'[l] = promise[l]
      BY <2>0, <2>3 DEF Settles
    <3>2. wait[l].answer = "ok" => wait[l].on \in TsKeys \ {k}
      <4>1. ASSUME wait[l].answer = "ok" PROVE wait[l].on \in TsKeys /\ built[wait[l].on] = "ready"
        <5>1. wait[l] # NoWait
          BY <4>1 DEF NoWait
        <5> QED BY <1>0, <4>1, <5>1, TsClientAssumption DEF WaitsHonest
      <4> QED BY <4>1
    <3> QED BY <1>0, <3>1, <3>2 DEF WaitsHonest
  <2> QED BY <2>1, <2>2, <2>3
<1> QED BY <1>1, <1>2, <1>3 DEF WaitsHonest

\* createClient throws, or gives a client that has borrowed nothing yet.
LEMMA ConstructKeeps == ASSUME TsInv, NEW k \in TsKeys, TsConstruct(k) PROVE TsInv'
<1>0. TsTypeOK /\ PromiseTells /\ RestInOrder /\ UncleanIsBlamed /\ WaitsHonest /\ TsBorrowedStays
  BY DEF TsInv
<1>1. promise[k] = "created" /\ wait[k] = NoWait /\ TsOpen /\ built[k] \in {"none", "closed"} /\ k \notin TsListed
  BY <1>0 DEF TsConstruct, WaitsHonest, PromiseTells
<1>2. CASE TsSettles(k, "rejected", "error") /\ UNCHANGED <<built, borrows>>
  <2>1. Settles(k, "rejected", "error")
    BY <1>0, <1>2, SettlesType DEF Promises, TsAnswers
  <2>2. WaitsHonest'
    BY <1>1, <1>2, <2>1, WaitsSettle DEF TsConstruct, Pending
  <2>3. RestInOrder' /\ UncleanIsBlamed' /\ TsBorrowedStays' /\ TsListed' = TsListed
    BY <1>2, ListStays DEF TsConstruct
  <2>4. TsTypeOK'
    BY <1>0, <1>2, <2>1 DEF TsConstruct, TsTypeOK, Settles
  <2>5. PromiseTells'
    BY <1>0, <1>1, <1>2, <2>1, <2>3 DEF TsConstruct, PromiseTells, Settles, TsOpen
  <2> QED BY <2>2, <2>3, <2>4, <2>5 DEF TsInv
<1>3. CASE /\ promise' = [promise EXCEPT ![k] = "initializing"] /\ built' = [built EXCEPT ![k] = "live"]
           /\ borrows' = [borrows EXCEPT ![k] = {}] /\ UNCHANGED wait
  <2>0. UNCHANGED <<rest, blame, root>> /\ TsListed' = TsListed
    BY DEF TsConstruct, TsListed
  <2>1. TsTypeOK'
    BY <1>0, <1>3, <2>0 DEF TsTypeOK, Promises, Builds
  <2>2. /\ promise'[k] = "initializing" /\ built'[k] = "live" /\ borrows'[k] = {}
        /\ \A l \in TsKeys \ {k} : promise'[l] = promise[l] /\ built'[l] = built[l] /\ borrows'[l] = borrows[l]
    BY <1>0, <1>3 DEF TsTypeOK
  <2>3. PromiseTells'
    BY <1>0, <1>1, <2>0, <2>2 DEF PromiseTells, TsOpen
  <2>4. \A i \in DOMAIN rest : rest[i] \in TsKeys \ {k}
    BY <1>0, <1>1 DEF TsTypeOK, TsListed
  <2>5. RestInOrder' /\ UncleanIsBlamed'
    BY <1>0, <2>0, <2>2, <2>4 DEF RestInOrder, UncleanIsBlamed
  <2>6. TsBorrowedStays'
    BY <1>0, <1>1, <2>2 DEF TsBorrowedStays, TsTypeOK
  <2>7. WaitsHonest'
    <3>1. \A l \in TsKeys : wait[l].answer = "ok" => wait[l].on \in TsKeys \ {k}
      <4>1. ASSUME NEW l \in TsKeys, wait[l].answer = "ok" PROVE wait[l].on \in TsKeys \ {k}
        <5>1. wait[l] # NoWait
          BY <4>1 DEF NoWait
        <5> QED BY <1>0, <1>1, <4>1, <5>1, TsClientAssumption DEF WaitsHonest
      <4> QED BY <4>1
    <3>2. \A c \in TsConsumers : TsWants[c] \in TsKeys
      BY TsClientAssumption
    <3> QED BY <1>0, <1>1, <1>3, <2>0, <2>2, <3>1, <3>2 DEF WaitsHonest, TsOpen, Pending
  <2> QED BY <2>1, <2>3, <2>5, <2>6, <2>7 DEF TsInv
<1> QED BY <1>2, <1>3 DEF TsConstruct

\* A client takes a dependency it was answered with, which is ready.
LEMMA BorrowedKeeps == ASSUME TsInv, NEW k \in TsKeys, TsBorrowed(k) PROVE TsInv'
<1>0. TsTypeOK /\ PromiseTells /\ RestInOrder /\ UncleanIsBlamed /\ WaitsHonest /\ TsBorrowedStays
  BY DEF TsInv
<1> DEFINE d == wait[k].on
<1>1. /\ promise[k] = "initializing" /\ wait[k].answer = "ok" /\ built[k] = "live"
      /\ d \in TsKeys \ TsOwned /\ built[d] = "ready"
  <2>1. wait[k] # NoWait
    BY DEF TsBorrowed, NoWait
  <2> QED BY <1>0, <2>1, TsClientAssumption DEF TsBorrowed, WaitsHonest, PromiseTells
<1>2. /\ UNCHANGED <<promise, built, rest, blame, root>> /\ TsListed' = TsListed
      /\ borrows'[k] = borrows[k] \cup {d} /\ \A l \in TsKeys \ {k} : borrows'[l] = borrows[l]
      /\ wait'[k] = NoWait /\ \A v \in Waiters \ {k} : wait'[v] = wait[v]
      /\ borrows' \in [TsKeys -> SUBSET (TsKeys \ TsOwned)]
      /\ wait' \in [Waiters -> [on : TsKeys \cup {"nobody"}, answer : TsAnswers]]
  BY <1>0, <1>1, KeysWait DEF TsBorrowed, TsTypeOK, TsListed, NoWait, TsAnswers
<1>3. k \notin TsListed /\ TsOpen
  BY <1>0, <1>1 DEF PromiseTells
<1>4. TsTypeOK'
  BY <1>0, <1>2 DEF TsTypeOK
<1>5. PromiseTells' /\ UncleanIsBlamed'
  BY <1>0, <1>2 DEF PromiseTells, UncleanIsBlamed, TsOpen
<1>6. RestInOrder'
  <2>1. \A i \in DOMAIN rest : rest[i] \in TsKeys \ {k}
    BY <1>0, <1>3 DEF TsTypeOK, TsListed
  <2> QED BY <1>0, <1>2, <2>1 DEF RestInOrder
<1>7. TsBorrowedStays'
  BY <1>0, <1>1, <1>2 DEF TsBorrowedStays
<1>8. WaitsHonest'
  <2>1. \A c \in TsConsumers : wait'[c] = wait[c]
    BY <1>2, WhoWaits
  <2>2. \A l \in TsKeys \ {k} : wait'[l] = wait[l]
    BY <1>2, KeysWait
  <2> HIDE DEF d
  <2>3. wait'[k].answer = "none"
    BY <1>2 DEF NoWait
  <2> QED BY <1>0, <1>2, <2>1, <2>2, <2>3 DEF WaitsHonest, TsOpen
<1> QED BY <1>4, <1>5, <1>6, <1>7, <1>8 DEF TsInv

\* A client becomes ready behind all it borrowed, or is cleaned up if aborted.
LEMMA InitializedKeeps == ASSUME TsInv, NEW k \in TsKeys, TsInitialized(k) PROVE TsInv'
<1>0. TsTypeOK /\ PromiseTells /\ RestInOrder /\ UncleanIsBlamed /\ WaitsHonest /\ TsBorrowedStays
  BY DEF TsInv
<1>1. promise[k] = "initializing" /\ wait[k] = NoWait /\ TsOpen /\ built[k] = "live" /\ k \notin TsListed
  BY <1>0 DEF TsInitialized, PromiseTells
<1>2. CASE TsAborted
  <2>1. UNCHANGED <<built, borrows, wait, rest, blame, root>> /\ promise' = [promise EXCEPT ![k] = "cleaning"]
    BY <1>2 DEF TsInitialized
  <2>2. RestInOrder' /\ UncleanIsBlamed' /\ TsBorrowedStays' /\ TsListed' = TsListed
    BY <2>1, ListStays
  <2>3. TsTypeOK' /\ promise'[k] = "cleaning" /\ \A l \in TsKeys \ {k} : promise'[l] = promise[l]
    BY <1>0, <2>1 DEF TsTypeOK, Promises
  <2>4. PromiseTells'
    BY <1>0, <1>1, <2>1, <2>2, <2>3 DEF PromiseTells, TsOpen
  <2>5. WaitsHonest'
    <3>1. \A c \in TsConsumers : TsWants[c] \in TsKeys
      BY TsClientAssumption
    <3> QED BY <1>0, <1>1, <2>1, <2>3, <3>1 DEF WaitsHonest, TsOpen, Pending
  <2> QED BY <2>2, <2>3, <2>4, <2>5 DEF TsInv
<1>3. CASE ~TsAborted
  <2>0. TsSettles(k, "ready", "ok") /\ built' = [built EXCEPT ![k] = "ready"] /\ rest' = Append(rest, k)
        /\ UNCHANGED <<borrows, blame, root>>
    BY <1>3 DEF TsInitialized
  <2>1. Settles(k, "ready", "ok")
    BY <1>0, <2>0, SettlesType DEF Promises, TsAnswers
  <2>2. /\ built' \in [TsKeys -> Builds] /\ built'[k] = "ready" /\ \A l \in TsKeys \ {k} : built'[l] = built[l]
        /\ rest' \in Seq(TsKeys) /\ Len(rest) \in Nat /\ Len(rest') = Len(rest) + 1
        /\ DOMAIN rest = 1..Len(rest) /\ DOMAIN rest' = 1..Len(rest) + 1
        /\ rest'[Len(rest) + 1] = k /\ \A i \in DOMAIN rest : rest'[i] = rest[i] /\ rest[i] \in TsKeys
    BY <1>0, <2>0 DEF TsTypeOK, Builds
  <2>3. TsListed' = TsListed \cup {k}
    BY <2>2 DEF TsListed
  <2>4. WaitsHonest'
    BY <1>1, <2>0, <2>1, <2>2, WaitsSettle DEF Pending
  <2>5. TsTypeOK'
    BY <1>0, <2>0, <2>1, <2>2 DEF TsTypeOK, Settles
  <2>6. PromiseTells'
    BY <1>0, <1>1, <2>0, <2>1, <2>2, <2>3 DEF PromiseTells, TsOpen, Settles
  <2>7. UncleanIsBlamed' /\ TsBorrowedStays'
    BY <1>0, <1>1, <2>0, <2>2, <2>3 DEF UncleanIsBlamed, TsBorrowedStays
  <2>8. RestInOrder'
    <3>1. \A i, j \in DOMAIN rest' : rest'[i] = rest'[j] => i = j
      BY <1>0, <1>1, <2>2 DEF RestInOrder, TsListed
    <3>2. \A l \in TsKeys : built'[l] \in {"ready", "closing"} => l \in TsListed'
      BY <1>0, <2>2, <2>3 DEF RestInOrder
    <3>3. ASSUME NEW j \in DOMAIN rest', NEW d \in borrows'[rest'[j]]
          PROVE  \E i \in DOMAIN rest' : i < j /\ rest'[i] = d
      <4>1. CASE j \in DOMAIN rest
        <5>1. PICK i \in DOMAIN rest : i < j /\ rest[i] = d
          BY <1>0, <2>0, <2>2, <3>3, <4>1 DEF RestInOrder
        <5> QED BY <2>2, <5>1
      <4>2. CASE j = Len(rest) + 1
        <5>1. d \in borrows[k] /\ d \in TsKeys
          BY <1>0, <2>0, <2>2, <3>3, <4>2 DEF TsTypeOK
        <5>2. d \in TsListed
          BY <1>0, <1>1, <5>1 DEF TsBorrowedStays, RestInOrder
        <5>3. PICK i \in DOMAIN rest : rest[i] = d
          BY <5>2 DEF TsListed
        <5> QED BY <2>2, <4>2, <5>3
      <4> QED BY <2>2, <3>3, <4>1, <4>2
    <3>4. ASSUME NEW j \in DOMAIN rest', rest'[j] \notin TsOwned, j # Len(rest')
          PROVE  built'[rest'[j]] = "ready"
      <4>1. j \in DOMAIN rest /\ rest'[j] = rest[j] /\ rest[j] \in TsListed /\ rest[j] \in TsKeys
        BY <2>2, <3>4 DEF TsListed
      <4> QED BY <1>0, <1>1, <2>2, <3>4, <4>1 DEF PromiseTells
    <3> QED BY <1>1, <2>0, <3>1, <3>2, <3>3, <3>4 DEF RestInOrder, TsOpen
  <2> QED BY <2>4, <2>5, <2>6, <2>7, <2>8 DEF TsInv
<1> QED BY <1>2, <1>3

\* A construction fails, or what failed has been disposed.
LEMMA CleanedKeeps == ASSUME TsInv, NEW k \in TsKeys, TsCleaned(k) PROVE TsInv'
<1>0. TsTypeOK /\ PromiseTells /\ RestInOrder /\ UncleanIsBlamed /\ WaitsHonest /\ TsBorrowedStays
  BY DEF TsInv
<1>1. promise[k] = "cleaning" /\ wait[k] = NoWait /\ TsOpen /\ built[k] = "live" /\ k \notin TsListed
  BY <1>0 DEF TsCleaned, PromiseTells, WaitsHonest
<1>2. PICK end \in {"rejected", "poisoned"} :
        /\ Settles(k, end, "error")
        /\ built' = [built EXCEPT ![k] = IF end = "rejected" THEN "closed" ELSE "unclean"]
        /\ blame' = IF end = "rejected" THEN blame ELSE blame \cup {k}
  BY <1>0, SettlesType DEF TsCleaned, Promises, TsAnswers
<1>3. UNCHANGED <<borrows, rest, root>> /\ TsListed' = TsListed
  BY DEF TsCleaned, TsListed
<1>4. /\ built' \in [TsKeys -> Builds] /\ built'[k] = IF end = "rejected" THEN "closed" ELSE "unclean"
      /\ \A l \in TsKeys \ {k} : built'[l] = built[l]
  BY <1>0, <1>2 DEF TsTypeOK, Builds
<1>5. WaitsHonest'
  BY <1>1, <1>2, <1>3, <1>4, WaitsSettle DEF Pending
<1>6. TsTypeOK'
  BY <1>0, <1>2, <1>3, <1>4 DEF TsTypeOK, Settles
<1>7. PromiseTells'
  BY <1>0, <1>1, <1>2, <1>3, <1>4 DEF PromiseTells, TsOpen, Settles
<1>8. UncleanIsBlamed'
  BY <1>0, <1>1, <1>2, <1>3, <1>4 DEF UncleanIsBlamed
<1>9. RestInOrder'
  <2>1. \A i \in DOMAIN rest : rest[i] \in TsKeys \ {k}
    BY <1>0, <1>1 DEF TsTypeOK, TsListed
  <2> QED BY <1>0, <1>3, <1>4, <2>1 DEF RestInOrder
<1>10. TsBorrowedStays'
  <2>1. ASSUME NEW l \in TsKeys, built'[l] \in {"live", "ready", "closing"}, NEW d \in borrows'[l]
        PROVE  built'[d] = "ready"
    <3>1. l # k
      BY <1>4, <2>1
    <3>2. built[d] = "ready" /\ d \in TsKeys
      BY <1>0, <1>3, <1>4, <2>1, <3>1 DEF TsBorrowedStays, TsTypeOK
    <3> QED BY <1>1, <1>4, <3>2
  <2> QED BY <2>1 DEF TsBorrowedStays
<1> QED BY <1>5, <1>6, <1>7, <1>8, <1>9, <1>10 DEF TsInv

\* An initialization that fails waits for nobody any more.
LEMMA BreaksKeeps == ASSUME TsInv, NEW k \in TsKeys, TsBreaks(k) PROVE TsInv'
<1>0. TsTypeOK /\ PromiseTells /\ RestInOrder /\ UncleanIsBlamed /\ WaitsHonest /\ TsBorrowedStays
  BY DEF TsInv
<1>1. promise[k] = "initializing" /\ TsOpen /\ built[k] = "live" /\ UNCHANGED <<built, borrows, rest, blame, root>>
  BY <1>0 DEF TsBreaks, PromiseTells
<1>2. RestInOrder' /\ UncleanIsBlamed' /\ TsBorrowedStays' /\ TsListed' = TsListed
  BY <1>1, ListStays
<1>3. /\ promise' \in [TsKeys -> Promises] /\ promise'[k] = "cleaning"
      /\ \A l \in TsKeys \ {k} : promise'[l] = promise[l]
      /\ wait' \in [Waiters -> [on : TsKeys \cup {"nobody"}, answer : TsAnswers]]
      /\ wait'[k] = NoWait /\ \A v \in Waiters \ {k} : wait'[v] = wait[v]
  BY <1>0, KeysWait DEF TsBreaks, TsTypeOK, Promises, NoWait, TsAnswers
<1>4. TsTypeOK'
  BY <1>0, <1>1, <1>3 DEF TsTypeOK
<1>5. PromiseTells'
  BY <1>0, <1>1, <1>2, <1>3 DEF PromiseTells, TsOpen
<1>6. WaitsHonest'
  <2>1. \A c \in TsConsumers : wait'[c] = wait[c] /\ TsWants[c] \in TsKeys
    BY <1>3, WhoWaits, TsClientAssumption
  <2>2. \A l \in TsKeys \ {k} : wait'[l] = wait[l]
    BY <1>3, KeysWait
  <2>3. wait'[k].answer = "none"
    BY <1>3 DEF NoWait
  <2> QED BY <1>0, <1>1, <1>3, <2>1, <2>2, <2>3 DEF WaitsHonest, TsOpen, Pending
<1> QED BY <1>2, <1>4, <1>5, <1>6 DEF TsInv

\* A clean failure is forgotten when nobody waits for it.
LEMMA ForgetKeeps == ASSUME TsInv, NEW k \in TsKeys, TsForget(k) PROVE TsInv'
<1>0. TsTypeOK /\ PromiseTells /\ RestInOrder /\ UncleanIsBlamed /\ WaitsHonest /\ TsBorrowedStays
  BY DEF TsInv
<1>1. promise[k] = "rejected" /\ TsOpen /\ UNCHANGED <<built, borrows, wait, rest, blame, root>>
  BY <1>0 DEF TsForget, PromiseTells
<1>2. RestInOrder' /\ UncleanIsBlamed' /\ TsBorrowedStays' /\ TsListed' = TsListed
  BY <1>1, ListStays
<1>3. TsTypeOK' /\ promise'[k] = "none" /\ \A l \in TsKeys \ {k} : promise'[l] = promise[l]
  BY <1>0, <1>1 DEF TsForget, TsTypeOK, Promises
<1>4. PromiseTells'
  BY <1>0, <1>1, <1>2, <1>3 DEF PromiseTells, TsOpen
<1>5. WaitsHonest'
  <2>1. \A c \in TsConsumers : TsWants[c] \in TsKeys
    BY TsClientAssumption
  <2> QED BY <1>0, <1>1, <1>3, <2>1 DEF WaitsHonest, TsOpen, Pending
<1> QED BY <1>2, <1>3, <1>4, <1>5 DEF TsInv

\* A client that closes, or has closed, was borrowed by nobody who uses it.
LEMMA ClientEnds ==
    ASSUME TsInv, NEW k \in TsKeys, NEW end \in {"closing", "closed", "unclean"},
           (built[k] = "ready" /\ end = "closing") \/ (built[k] = "closing" /\ end # "closing"),
           built' = [built EXCEPT ![k] = end], UNCHANGED <<promise, borrows, wait, rest, blame, root>>,
           k \notin TsOwned => ~TsOpen /\ \A j \in DOMAIN rest : rest[j] = k => j = Len(rest)
    PROVE  TsInv'
<1>0. TsTypeOK /\ PromiseTells /\ RestInOrder /\ UncleanIsBlamed /\ WaitsHonest /\ TsBorrowedStays
  BY DEF TsInv
<1>1. built'[k] = end /\ (\A l \in TsKeys \ {k} : built'[l] = built[l]) /\ TsListed' = TsListed /\ k \in TsListed
  BY <1>0 DEF TsTypeOK, TsListed, RestInOrder
<1>2. TsTypeOK'
  BY <1>0 DEF TsTypeOK, Builds
<1>3. PromiseTells' /\ UncleanIsBlamed'
  BY <1>0, <1>1 DEF PromiseTells, UncleanIsBlamed, TsOpen
<1>4. ASSUME NEW l \in TsKeys, built[l] \in {"live", "ready", "closing"} PROVE k \notin borrows[l]
  <2>1. CASE k \in TsOwned
    BY <1>0, <2>1 DEF TsTypeOK
  <2>2. CASE k \notin TsOwned
    <3>1. built[l] # "live"
      BY <1>0, <2>2 DEF PromiseTells
    <3>2. PICK j \in DOMAIN rest : rest[j] = l
      BY <1>0, <1>4, <3>1 DEF RestInOrder, TsListed
    <3>3. ASSUME k \in borrows[l] PROVE FALSE
      <4>1. PICK i \in DOMAIN rest : i < j /\ rest[i] = k
        BY <1>0, <3>2, <3>3 DEF RestInOrder
      <4>2. Len(rest) \in Nat /\ DOMAIN rest = 1..Len(rest)
        BY <1>0 DEF TsTypeOK
      <4> QED BY <2>2, <3>2, <4>1, <4>2
    <3> QED BY <3>3
  <2> QED BY <2>1, <2>2
<1>5. TsBorrowedStays'
  <2>1. \A l \in TsKeys : borrows[l] \subseteq TsKeys
    BY <1>0 DEF TsTypeOK
  <2> QED BY <1>0, <1>1, <1>4, <2>1 DEF TsBorrowedStays
<1>6. RestInOrder'
  <2>1. \A j \in DOMAIN rest : rest[j] \in TsKeys
    BY <1>0 DEF TsTypeOK
  <2> QED BY <1>0, <1>1, <2>1 DEF RestInOrder
<1>7. WaitsHonest'
  <2>1. ASSUME NEW l \in TsKeys, wait[l].answer = "ok" PROVE wait[l].on \in TsKeys \ {k}
    <3>1. wait[l] # NoWait
      BY <2>1 DEF NoWait
    <3>2. promise[l] = "initializing" /\ wait[l].on \in TsNeeds[l]
      BY <1>0, <3>1 DEF WaitsHonest
    <3>3. TsOpen
      BY <1>0, <3>2 DEF PromiseTells
    <3> QED BY <3>2, <3>3, TsClientAssumption
  <2> QED BY <1>0, <1>1, <2>1 DEF WaitsHonest, TsOpen
<1> QED BY <1>2, <1>3, <1>5, <1>6, <1>7 DEF TsInv

\* The owner, then the root, close clients nobody uses any more.
LEMMA ClosesKeep ==
    ASSUME TsInv, \/ \E c \in TsConsumers : TsOwnerCloses(c)
                  \/ \E k \in TsKeys : TsClosed(k)
                  \/ TsRootCloses
    PROVE  TsInv'
<1>0. TsTypeOK /\ PromiseTells /\ RestInOrder
  BY DEF TsInv
<1>1. Len(rest) \in Nat /\ DOMAIN rest = 1..Len(rest) /\ \A i \in DOMAIN rest : rest[i] \in TsKeys
  BY <1>0 DEF TsTypeOK
<1>2. ASSUME NEW c \in TsConsumers, TsOwnerCloses(c) PROVE TsInv'
  BY <1>2, ClientEnds, TsClientAssumption DEF TsOwnerCloses, Closing
<1>3. ASSUME NEW k \in TsKeys, TsClosed(k) PROVE TsInv'
  <2>1. k \notin TsOwned => ~TsOpen
    BY <1>0, <1>3 DEF PromiseTells, TsClosed, TsTypeOK, Promises
  <2>2. k \notin TsOwned => \A j \in DOMAIN rest : rest[j] = k => j = Len(rest)
    BY <1>0, <1>3 DEF TsClosed, RestInOrder
  <2> QED BY <1>3, <2>1, <2>2, ClientEnds DEF TsClosed
<1>4. ASSUME TsRootCloses PROVE TsInv'
  <2>1. Len(rest) \in DOMAIN rest /\ ~TsOpen /\ Closing(rest[Len(rest)])
    BY <1>0, <1>1, <1>4 DEF TsRootCloses, NewestOf, TsOpen, TsTypeOK
  <2>2. \A j \in DOMAIN rest : rest[j] = rest[Len(rest)] => j = Len(rest)
    BY <1>0, <2>1 DEF RestInOrder
  <2> QED BY <1>1, <2>1, <2>2, ClientEnds DEF Closing
<1> QED BY <1>2, <1>3, <1>4

\* The stages of an abort and of the disposal keep the invariant.
LEMMA DisposalKeeps ==
    ASSUME TsInv, TsOuterAbort \/ TsDispose \/ TsClear \/ TsRootClosed \/ TsDisposed \/ UNCHANGED tsClientVars
    PROVE  TsInv'
<1>0. TsTypeOK /\ PromiseTells /\ RestInOrder /\ UncleanIsBlamed /\ WaitsHonest /\ TsBorrowedStays
  BY DEF TsInv
<1>1. CASE TsOuterAbort \/ TsDispose
  <2>1. UNCHANGED <<promise, built, borrows, wait, rest, blame>> /\ TsOpen /\ TsOpen'
        /\ root' \in {"aborted", "settling"}
    BY <1>1 DEF TsOuterAbort, TsDispose, TsOpen
  <2>2. RestInOrder' /\ UncleanIsBlamed' /\ TsBorrowedStays' /\ TsListed' = TsListed
    BY <2>1, ListStays
  <2> QED BY <1>0, <2>1, <2>2 DEF TsInv, TsTypeOK, PromiseTells, WaitsHonest
<1>2. CASE TsClear
  <2>1. UNCHANGED <<built, borrows, wait, rest, blame>> /\ TsOpen /\ ~TsOpen' /\ root' = "closing"
        /\ (\A k \in TsKeys : promise[k] \notin Pending) /\ promise' = [k \in TsKeys |-> "none"]
    BY <1>2 DEF TsClear, TsOpen, TsAllSettled
  <2>2. RestInOrder' /\ UncleanIsBlamed' /\ TsBorrowedStays' /\ TsListed' = TsListed
    BY <2>1, ListStays
  <2>3. TsTypeOK' /\ PromiseTells'
    BY <1>0, <2>1 DEF TsTypeOK, PromiseTells, Promises, Pending
  <2>4. WaitsHonest'
    BY <1>0, <2>1 DEF WaitsHonest, Pending
  <2> QED BY <2>2, <2>3, <2>4 DEF TsInv
<1>3. CASE TsRootClosed
  <2> DEFINE k == rest[Len(rest)]
  <2>1. /\ Len(rest) \in Nat \ {0} /\ DOMAIN rest = 1..Len(rest) /\ k \in TsKeys
        /\ rest' \in Seq(TsKeys) /\ Len(rest') = Len(rest) - 1 /\ DOMAIN rest' = 1..(Len(rest) - 1)
        /\ \A i \in 1..(Len(rest) - 1) : rest'[i] = rest[i]
    <3>1. rest \in Seq(TsKeys) /\ rest # << >> /\ rest' = SubSeq(rest, 1, Len(rest) - 1)
      BY <1>0, <1>3, Zenon DEF TsRootClosed, TsTypeOK
    <3>2. Len(rest) \in Nat \ {0} /\ DOMAIN rest = 1..Len(rest) /\ k \in TsKeys
      BY <3>1
    <3>3. \A i \in 1..(Len(rest) - 1) : rest[i] \in TsKeys
      BY <3>1, <3>2
    <3>4. /\ rest' \in Seq(TsKeys) /\ Len(rest') = Len(rest) - 1
          /\ \A i \in 1..(Len(rest) - 1) : rest'[i] = rest[i]
      BY <3>1, <3>2, <3>3, SubSeqProperties
    <3> QED BY <3>2, <3>4
  <2>2. /\ root = "closing" /\ UNCHANGED <<promise, built, borrows, wait, root>> /\ built[k] \in {"closed", "unclean"}
        /\ blame' = IF built[k] = "unclean" THEN blame \cup {k} ELSE blame
    BY <1>3 DEF TsRootClosed, NewestOf
  <2>3. TsListed' = TsListed \ {k}
    BY <1>0, <2>1 DEF TsListed, RestInOrder
  <2> HIDE DEF k
  <2>4. TsTypeOK' /\ PromiseTells' /\ WaitsHonest' /\ TsBorrowedStays' /\ UncleanIsBlamed'
    BY <1>0, <2>1, <2>2, <2>3 DEF TsTypeOK, PromiseTells, WaitsHonest, TsBorrowedStays, UncleanIsBlamed, TsOpen
  <2>5. \A i, j \in DOMAIN rest' : rest'[i] = rest'[j] => i = j
    BY <1>0, <2>1 DEF RestInOrder
  <2>6. \A l \in TsKeys : built'[l] \in {"ready", "closing"} => l \in TsListed'
    BY <1>0, <2>2, <2>3 DEF RestInOrder
  <2>7. ASSUME NEW j \in DOMAIN rest', NEW d \in borrows'[rest'[j]]
        PROVE  \E i \in DOMAIN rest' : i < j /\ rest'[i] = d
    <3>1. j \in DOMAIN rest /\ d \in borrows[rest[j]]
      BY <2>1, <2>2, <2>7
    <3>2. PICK i \in DOMAIN rest : i < j /\ rest[i] = d
      BY <1>0, <3>1 DEF RestInOrder
    <3>3. i \in DOMAIN rest'
      BY <2>1, <2>7, <3>2
    <3> QED BY <2>1, <3>2, <3>3
  <2>8. \A j \in DOMAIN rest' : rest'[j] \notin TsOwned => built'[rest'[j]] = "ready"
    BY <1>0, <2>1, <2>2 DEF RestInOrder
  <2>9. RestInOrder'
    BY <2>2, <2>5, <2>6, <2>7, <2>8 DEF RestInOrder
  <2> QED BY <2>4, <2>9 DEF TsInv
<1>4. CASE TsDisposed
  BY <1>0, <1>4 DEF TsDisposed, TsInv, TsTypeOK, PromiseTells, RestInOrder, UncleanIsBlamed, WaitsHonest,
                    TsBorrowedStays, TsOpen, TsListed
<1>5. CASE UNCHANGED tsClientVars
  BY <1>0, <1>5 DEF tsClientVars, TsInv, TsTypeOK, PromiseTells, RestInOrder, UncleanIsBlamed, WaitsHonest,
                    TsBorrowedStays, TsOpen, TsListed
<1> QED BY <1>1, <1>2, <1>3, <1>4, <1>5

\* A new manager knows no client.
LEMMA TsStarts == TsClientInit => TsInv
<1> SUFFICES ASSUME TsClientInit PROVE TsInv
  OBVIOUS
<1>1. rest = << >> /\ DOMAIN rest = {} /\ TsListed = {} /\ rest \in Seq(TsKeys)
  BY DEF TsClientInit, TsListed
<1>2. TsTypeOK /\ WaitsHonest
  BY <1>1, WhoWaits, KeysWait DEF TsClientInit, TsTypeOK, WaitsHonest, Promises, Builds, TsAnswers, NoWait
<1> QED BY <1>1, <1>2 DEF TsClientInit, TsInv, PromiseTells, RestInOrder, UncleanIsBlamed, TsBorrowedStays, TsOpen

\* Every step keeps the invariant.
LEMMA TsStep == TsInv /\ [TsClientNext]_tsClientVars => TsInv'
<1> SUFFICES ASSUME TsInv, [TsClientNext]_tsClientVars PROVE TsInv'
  OBVIOUS
<1>1. ASSUME NEW c \in TsConsumers, TsAsk(c) PROVE TsInv'
  BY <1>1, AcquireKeeps, WhoWaits, TsClientAssumption DEF TsAsk
<1>2. ASSUME NEW k \in TsKeys, TsBorrow(k) PROVE TsInv'
  <2>1. PICK d \in TsNeeds[k] \ borrows[k] : TsAcquire(k, d)
    BY <1>2 DEF TsBorrow
  <2>2. d \in TsKeys
    BY <2>1, TsClientAssumption
  <2> QED BY <1>2, <2>1, <2>2, AcquireKeeps, KeysWait DEF TsBorrow
<1> QED BY <1>1, <1>2, ConstructKeeps, BorrowedKeeps, InitializedKeeps, BreaksKeeps, CleanedKeeps, ForgetKeeps,
           ClosesKeep, DisposalKeeps DEF TsClientNext, TsClientProgress

\* The inductive invariant of the TypeScript manager (#acquire and dispose): a
\* promise, its client and its place in #ready agree, dependencies come first
\* in #ready, and answers are true.
THEOREM TsInvariant == TsClientSpec => []TsInv
<1> QED BY TsStarts, TsStep, PTL DEF TsClientSpec

\* For any keys, owned clients, acyclic or cyclic needs and consumers of the
\* TypeScript manager: a client in use has every client it was given, a key
\* never gets a second client beside or after one that was not closed
\* cleanly, whoever was given a client has it until the root or its owner
\* closes it, and dispose() leaves none unreported.
THEOREM TsClientsAreSound == TsClientSpec => []TsClientsSound
<1>1. ASSUME TsInv PROVE TsClientsSound
  <2>0. TsTypeOK /\ PromiseTells /\ RestInOrder /\ UncleanIsBlamed /\ WaitsHonest /\ TsBorrowedStays
    BY <1>1 DEF TsInv
  <2>1. TsOneClient
    BY <2>0 DEF PromiseTells, TsOneClient, TsOpen, TsListed
  <2>2. TsGivenStays
    BY <2>0, TsClientAssumption DEF PromiseTells, WaitsHonest, TsGivenStays, TsOpen
  <2>3. TsNothingLeft
    <3> SUFFICES ASSUME root = "disposed" PROVE TsNothingLeft
      BY DEF TsNothingLeft
    <3>1. TsListed = {} /\ ~TsOpen
      BY <2>0 DEF RestInOrder, TsListed, TsOpen
    <3>2. \A k \in TsKeys : built[k] \in {"none", "closed"} \cup (IF k \in blame THEN {"unclean"} ELSE {})
      BY <2>0, <3>1 DEF RestInOrder, PromiseTells, UncleanIsBlamed, TsTypeOK, Builds
    <3>3. \A w \in Waiters : wait[w].answer # "pending"
      BY <2>0, <3>1 DEF WaitsHonest, PromiseTells, Pending
    <3> QED BY <3>2, <3>3 DEF TsNothingLeft
  <2> QED BY <2>0, <2>1, <2>2, <2>3 DEF TsClientsSound
<1> QED BY TsInvariant, <1>1, PTL

-----------------------------------------------------------------------------
(* run_environment: what the phases and the cancellations say when it ends. *)

EnvironmentSpec == EnvironmentInit /\ [][EnvironmentNext]_environmentVars

PhaseNames == {"prepare", "run", "cleanup", "dispose"}
PhaseEntries == [name : PhaseNames, ok : BOOLEAN]

EnvironmentTypeOK ==
    /\ owner \in {"prepare", "run", "teardown", "returned", "raised"}
    /\ teardown \in {"none", "cleanup", "dispose", "over"}
    /\ phases \in Seq(PhaseEntries)
    /\ lost \in BOOLEAN /\ interrupted \in BOOLEAN /\ interrupts \in Nat

Early == owner \in {"prepare", "run"}
Finished == CASE teardown = "dispose" -> 1 [] teardown = "over" -> 2 [] OTHER -> 0

\* The phases recorded so far, by where the owner and its teardown are.
PhasesInOrder ==
    /\ owner = "prepare" => Len(phases) = 0
    /\ owner = "run" => Len(phases) = 1
    /\ Early => teardown = "none" /\ \A i \in DOMAIN phases : phases[i].ok
    /\ ~Early => /\ teardown # "none"
                 /\ Len(phases) - Finished \in {1, 2}
                 /\ Len(phases) - Finished = 1 => lost \/ ~phases[1].ok
    /\ Len(phases) > 0 => phases[1].name = "prepare"
    /\ Len(phases) - Finished = 2 => phases[2].name = "run"
    /\ Finished > 0 => phases[Len(phases) - Finished + 1].name = "cleanup"
    /\ Finished = 2 => phases[Len(phases)].name = "dispose"
    /\ Left => teardown = "over"

\* The phase that a cancellation met has an error.
CancelTold == \E i \in DOMAIN phases : phases[i].name \in {"prepare", "run"} /\ ~phases[i].ok

\* A cancellation is remembered, or it was replaced by the error of a phase.
CancelRemembered ==
    /\ ~lost /\ ~interrupted /\ interrupts > 0 => CancelTold
    /\ owner = "returned" => ~lost /\ ~interrupted
    /\ Early => ~lost /\ ~interrupted /\ interrupts = 0

\* Unless an exception that is no error of a phase is on its way out, what
\* went wrong is what the phases say.
MishapsNoted ==
    ~lost => /\ \A i \in DOMAIN phases : ~phases[i].ok => phases[i].name \in mishaps
             /\ \A m \in mishaps : \E i \in DOMAIN phases : phases[i].name = m /\ ~phases[i].ok

EnvironmentInv == EnvironmentTypeOK /\ PhasesInOrder /\ CancelRemembered /\ MishapsNoted

\* A phase is over, and its entry the last.
Lengthened(name, ok) ==
    /\ phases' \in Seq(PhaseEntries)
    /\ Len(phases) \in Nat /\ Len(phases') = Len(phases) + 1
    /\ DOMAIN phases = 1..Len(phases) /\ DOMAIN phases' = 1..(Len(phases) + 1)
    /\ \A i \in 1..Len(phases) : phases'[i] = phases[i]
    /\ phases'[Len(phases) + 1].name = name /\ phases'[Len(phases) + 1].ok = ok

LEMMA NotedLast ==
    ASSUME EnvironmentTypeOK, NEW name \in PhaseNames, NEW ok \in BOOLEAN, Noted(name, ok)
    PROVE  Lengthened(name, ok)
<1>1. [name |-> name, ok |-> ok] \in PhaseEntries
  BY DEF PhaseEntries
<1> QED BY <1>1 DEF EnvironmentTypeOK, Noted, Lengthened

\* A phase's error is its entry's, and no other.
LEMMA MishapsKept ==
    ASSUME MishapsNoted, lost' = FALSE => lost = FALSE, lost \in BOOLEAN, lost' \in BOOLEAN,
           NEW name \in PhaseNames, NEW ok \in BOOLEAN, Lengthened(name, ok), Mishap(name, ok)
    PROVE  MishapsNoted'
<1> SUFFICES ASSUME ~lost' PROVE MishapsNoted'
  BY DEF MishapsNoted
<1>0. ~lost
  OBVIOUS
<1>1. CASE ok
  <2>1. /\ mishaps' = mishaps
        /\ \A i \in DOMAIN phases : ~phases[i].ok => phases[i].name \in mishaps
        /\ \A m \in mishaps : \E i \in DOMAIN phases : phases[i].name = m /\ ~phases[i].ok
    BY <1>0, <1>1 DEF Mishap, MishapsNoted
  <2>2. ASSUME NEW i \in DOMAIN phases', ~phases'[i].ok PROVE phases'[i].name \in mishaps'
    <3>1. i \in DOMAIN phases /\ phases'[i] = phases[i]
      <4>1. i # Len(phases) + 1
        <5> SUFFICES ASSUME i = Len(phases) + 1 PROVE FALSE
          OBVIOUS
        <5>1. phases'[i].ok = ok
          BY DEF Lengthened
        <5> QED BY <1>1, <2>2, <5>1, Zenon
      <4> QED BY <2>2, <4>1 DEF Lengthened
    <3> QED BY <2>1, <2>2, <3>1
  <2>3. \A m \in mishaps' : \E i \in DOMAIN phases' : phases'[i].name = m /\ ~phases'[i].ok
    BY <2>1 DEF Lengthened
  <2> QED BY <2>2, <2>3 DEF MishapsNoted
<1>2. CASE ~ok
  <2>1. /\ mishaps' = mishaps \cup {name}
        /\ \A i \in DOMAIN phases : ~phases[i].ok => phases[i].name \in mishaps
        /\ \A m \in mishaps : \E i \in DOMAIN phases : phases[i].name = m /\ ~phases[i].ok
    BY <1>0, <1>2 DEF Mishap, MishapsNoted
  <2>2. \A i \in DOMAIN phases' : ~phases'[i].ok => phases'[i].name \in mishaps'
    BY <1>2, <2>1 DEF Lengthened
  <2>3. ASSUME NEW m \in mishaps' PROVE \E i \in DOMAIN phases' : phases'[i].name = m /\ ~phases'[i].ok
    <3>1. CASE m = name
      BY <1>2, <3>1 DEF Lengthened
    <3>2. CASE m # name
      BY <2>1, <2>3, <3>2 DEF Lengthened
    <3> QED BY <3>1, <3>2
  <2> QED BY <2>2, <2>3 DEF MishapsNoted
<1> QED BY <1>1, <1>2

\* A phase ends: its entry is added, and neither what went wrong nor what
\* replaced a cancellation is forgotten.
LEMMA PhaseEnded ==
    ASSUME EnvironmentInv, NEW name \in PhaseNames, NEW outcome \in Outcomes, Ends(name, outcome)
    PROVE  /\ MishapsNoted' /\ lost' = (lost \/ outcome = "escaped")
           /\ CancelTold => CancelTold'
           /\ name \in {"prepare", "run"} /\ outcome = "error" => CancelTold'
           /\ \E ok \in BOOLEAN : ok = (outcome # "error") /\ Lengthened(name, ok)
<1> DEFINE ok == outcome # "error"
<1>1. ok \in BOOLEAN /\ Noted(name, ok) /\ Mishap(name, outcome = "ok") /\ lost' = (lost \/ outcome = "escaped")
  BY DEF Ends
<1>2. Lengthened(name, ok)
  BY <1>1, NotedLast DEF EnvironmentInv
<1>3. MishapsNoted'
  <2>1. CASE lost'
    BY <2>1 DEF MishapsNoted
  <2>2. CASE ~lost'
    <3>1. ok = (outcome = "ok")
      BY <1>1, <2>2 DEF Outcomes
    <3>2. Mishap(name, ok)
      BY <1>1, <3>1
    <3>3. MishapsNoted /\ lost \in BOOLEAN /\ lost' \in BOOLEAN /\ (lost' = FALSE => lost = FALSE)
      BY <1>1 DEF EnvironmentInv, EnvironmentTypeOK
    <3> HIDE DEF ok
    <3> QED BY <1>1, <1>2, <3>2, <3>3, MishapsKept
  <2> QED BY <2>1, <2>2
<1>4. CancelTold => CancelTold'
  BY <1>2 DEF Lengthened, CancelTold
<1>5. name \in {"prepare", "run"} /\ outcome = "error" => CancelTold'
  <2>1. SUFFICES ASSUME name \in {"prepare", "run"}, outcome = "error" PROVE CancelTold'
    OBVIOUS
  <2>2. /\ Len(phases) + 1 \in DOMAIN phases' /\ phases'[Len(phases) + 1].name = name
        /\ phases'[Len(phases) + 1].ok = ok
    BY <1>2 DEF Lengthened
  <2>3. ~ok
    BY <2>1
  <2> HIDE DEF ok
  <2>4. ~phases'[Len(phases) + 1].ok
    BY <2>2, <2>3, Zenon
  <2> QED BY <2>1, <2>2, <2>4 DEF CancelTold
<1> QED BY <1>1, <1>2, <1>3, <1>4, <1>5

\* Every step keeps the invariant.
LEMMA EnvironmentStep == EnvironmentInv /\ [EnvironmentNext]_environmentVars => EnvironmentInv'
<1> SUFFICES ASSUME EnvironmentInv, [EnvironmentNext]_environmentVars PROVE EnvironmentInv'
  OBVIOUS
<1>0. Len(phases) \in Nat /\ DOMAIN phases = 1..Len(phases)
  BY DEF EnvironmentInv, EnvironmentTypeOK
<1>1. CASE Prepare
  <2>1. PICK outcome \in Outcomes : /\ Ends("prepare", outcome)
                                    /\ owner' = IF outcome = "ok" THEN "run" ELSE "teardown"
                                    /\ teardown' = IF outcome = "ok" THEN "none" ELSE "cleanup"
    BY <1>1 DEF Prepare
  <2>2. "prepare" \in PhaseNames
    BY DEF PhaseNames
  <2>3. /\ MishapsNoted' /\ lost' = (lost \/ outcome = "escaped") /\ (CancelTold => CancelTold')
        /\ \E ok \in BOOLEAN : ok = (outcome # "error") /\ Lengthened("prepare", ok)
    BY <2>1, <2>2, PhaseEnded
  <2>4. PICK ok \in BOOLEAN : ok = (outcome # "error") /\ Lengthened("prepare", ok)
    BY <2>3
  <2>5. EnvironmentTypeOK'
    BY <1>1, <2>1, <2>3, <2>4 DEF Lengthened, Prepare, EnvironmentInv, EnvironmentTypeOK
  <2>6. CancelRemembered'
    BY <1>1, <2>1, <2>3 DEF Prepare, EnvironmentInv, EnvironmentTypeOK, CancelRemembered, Early
  <2>7. PhasesInOrder'
    <3>1. /\ owner = "prepare" /\ teardown = "none" /\ Len(phases) = 0
          /\ DOMAIN phases' = 1..1 /\ Len(phases') = 1
          /\ phases'[1].name = "prepare" /\ phases'[1].ok = ok
      BY <1>1, <2>4 DEF Lengthened, Prepare, EnvironmentInv, PhasesInOrder, Early
    <3>2. CASE outcome = "ok"
      <4>1. owner' = "run" /\ teardown' = "none" /\ ok
        BY <2>1, <2>4, <3>1, <3>2
      <4>2. phases'[1].ok
        BY <3>1, <4>1, Zenon
      <4> QED BY <3>1, <4>1, <4>2 DEF PhasesInOrder, Early, Finished, Left
    <3>3. CASE outcome # "ok"
      <4>1. owner' = "teardown" /\ teardown' = "cleanup" /\ (lost' \/ ~ok)
        BY <2>1, <2>3, <2>4, <3>3 DEF Outcomes
      <4>2. lost' \/ ~phases'[1].ok
        BY <3>1, <4>1, Zenon
      <4> QED BY <3>1, <4>1, <4>2 DEF PhasesInOrder, Early, Finished, Left
    <3> QED BY <3>2, <3>3
  <2> QED BY <2>3, <2>5, <2>6, <2>7 DEF EnvironmentInv
<1>2. CASE Run
  <2>1. PICK outcome \in Outcomes : Ends("run", outcome)
    BY <1>2 DEF Run
  <2>2. "run" \in PhaseNames
    BY DEF PhaseNames
  <2>3. /\ MishapsNoted' /\ lost' = (lost \/ outcome = "escaped") /\ (CancelTold => CancelTold')
        /\ \E ok \in BOOLEAN : ok = (outcome # "error") /\ Lengthened("run", ok)
    BY <2>1, <2>2, PhaseEnded
  <2>4. PICK ok \in BOOLEAN : ok = (outcome # "error") /\ Lengthened("run", ok)
    BY <2>3
  <2>5. EnvironmentTypeOK'
    BY <1>2, <2>1, <2>3, <2>4 DEF Lengthened, Run, EnvironmentInv, EnvironmentTypeOK
  <2>6. CancelRemembered'
    BY <1>2, <2>1, <2>3 DEF Run, EnvironmentInv, EnvironmentTypeOK, CancelRemembered, Early
  <2>7. PhasesInOrder'
    BY <1>0, <1>2, <2>1, <2>3, <2>4
    DEF Lengthened, Outcomes, Run, EnvironmentInv, EnvironmentTypeOK, PhasesInOrder, CancelRemembered,
        Early, Finished, Left
  <2> QED BY <2>3, <2>5, <2>6, <2>7 DEF EnvironmentInv
<1>3. CASE Clean
  <2>1. PICK outcome \in Outcomes : Ends("cleanup", outcome)
    BY <1>3 DEF Clean
  <2>2. "cleanup" \in PhaseNames
    BY DEF PhaseNames
  <2>3. /\ MishapsNoted' /\ lost' = (lost \/ outcome = "escaped") /\ (CancelTold => CancelTold')
        /\ \E ok \in BOOLEAN : ok = (outcome # "error") /\ Lengthened("cleanup", ok)
    BY <2>1, <2>2, PhaseEnded
  <2>4. PICK ok \in BOOLEAN : ok = (outcome # "error") /\ Lengthened("cleanup", ok)
    BY <2>3
  <2>5. EnvironmentTypeOK'
    BY <1>3, <2>1, <2>3, <2>4 DEF Lengthened, Clean, EnvironmentInv, EnvironmentTypeOK
  <2>6. CancelRemembered'
    BY <1>3, <2>1, <2>3
    DEF Clean, EnvironmentInv, EnvironmentTypeOK, PhasesInOrder, CancelRemembered, Early, Left
  <2>7. PhasesInOrder'
    BY <1>0, <1>3, <2>1, <2>3, <2>4
    DEF Lengthened, Outcomes, Clean, EnvironmentInv, EnvironmentTypeOK, PhasesInOrder, CancelRemembered,
        Early, Finished, Left
  <2> QED BY <2>3, <2>5, <2>6, <2>7 DEF EnvironmentInv
<1>4. CASE DisposeClients
  <2>1. PICK outcome \in Outcomes : Ends("dispose", outcome)
    BY <1>4 DEF DisposeClients
  <2>2. "dispose" \in PhaseNames
    BY DEF PhaseNames
  <2>3. /\ MishapsNoted' /\ lost' = (lost \/ outcome = "escaped") /\ (CancelTold => CancelTold')
        /\ \E ok \in BOOLEAN : ok = (outcome # "error") /\ Lengthened("dispose", ok)
    BY <2>1, <2>2, PhaseEnded
  <2>4. PICK ok \in BOOLEAN : ok = (outcome # "error") /\ Lengthened("dispose", ok)
    BY <2>3
  <2>5. EnvironmentTypeOK'
    BY <1>4, <2>1, <2>3, <2>4 DEF Lengthened, DisposeClients, EnvironmentInv, EnvironmentTypeOK
  <2>6. CancelRemembered'
    BY <1>4, <2>1, <2>3
    DEF DisposeClients, EnvironmentInv, EnvironmentTypeOK, PhasesInOrder, CancelRemembered, Early, Left
  <2>7. PhasesInOrder'
    BY <1>0, <1>4, <2>1, <2>3, <2>4
    DEF Lengthened, Outcomes, DisposeClients, EnvironmentInv, EnvironmentTypeOK, PhasesInOrder, CancelRemembered,
        Early, Finished, Left
  <2> QED BY <2>3, <2>5, <2>6, <2>7 DEF EnvironmentInv
<1>5. CASE Return
  BY <1>5 DEF Return, EnvironmentInv, EnvironmentTypeOK, PhasesInOrder, CancelRemembered, CancelTold, MishapsNoted,
              Early, Finished, Left
<1>6. CASE Interrupted
  <2>1. CASE Early
    <3>1. PICK outcome \in {"error", "escaped"} : Ends(owner, outcome)
      BY <1>6, <2>1 DEF Interrupted, Early
    <3>2. owner \in PhaseNames /\ owner \in {"prepare", "run"} /\ outcome \in Outcomes
      BY <2>1 DEF Early, PhaseNames, Outcomes
    <3>3. /\ MishapsNoted' /\ lost' = (lost \/ outcome = "escaped") /\ (outcome = "error" => CancelTold')
          /\ \E ok \in BOOLEAN : ok = (outcome # "error") /\ Lengthened(owner, ok)
      BY <3>1, <3>2, PhaseEnded
    <3>4. PICK ok \in BOOLEAN : ok = (outcome # "error") /\ Lengthened(owner, ok)
      BY <3>3
    <3>5. owner' = "teardown" /\ teardown' = "cleanup" /\ interrupts' = interrupts + 1 /\ interrupted' = interrupted
      BY <1>6, <2>1 DEF Interrupted, Early
    <3>6. EnvironmentTypeOK'
      BY <3>3, <3>4, <3>5 DEF Lengthened, EnvironmentInv, EnvironmentTypeOK
    <3>7. CancelRemembered'
      BY <3>1, <3>3, <3>5 DEF EnvironmentInv, EnvironmentTypeOK, CancelRemembered, Early
    <3>8. PhasesInOrder'
      BY <1>0, <2>1, <3>1, <3>3, <3>4, <3>5
      DEF Lengthened, EnvironmentInv, EnvironmentTypeOK, PhasesInOrder, CancelRemembered, Early, Finished, Left
    <3> QED BY <3>3, <3>6, <3>7, <3>8 DEF EnvironmentInv
  <2>2. CASE ~Early
    <3>1. owner = "teardown" /\ interrupted' = TRUE /\ UNCHANGED <<owner, teardown, phases, lost, mishaps>>
          /\ interrupts' = interrupts + 1
      BY <1>6, <2>2, Zenon DEF Interrupted, Early
    <3> QED BY <3>1 DEF EnvironmentInv, EnvironmentTypeOK, PhasesInOrder, CancelRemembered, CancelTold, MishapsNoted,
                        Early, Finished, Left
  <2> QED BY <2>1, <2>2
<1>7. CASE UNCHANGED environmentVars
  BY <1>7 DEF environmentVars, EnvironmentInv, EnvironmentTypeOK, PhasesInOrder, CancelRemembered, CancelTold,
              MishapsNoted, Early, Finished, Left
<1> QED BY <1>1, <1>2, <1>3, <1>4, <1>5, <1>6, <1>7 DEF EnvironmentNext

\* When the owner has left, the invariant says what it left behind.
LEMMA EnvironmentConcludes == EnvironmentInv => EnvironmentSettles
<1> SUFFICES ASSUME EnvironmentInv, Left PROVE EnvironmentSettles
  BY DEF EnvironmentSettles, Left
<1>0. Len(phases) \in Nat /\ DOMAIN phases = 1..Len(phases) /\ phases \in Seq(PhaseEntries)
  BY DEF EnvironmentInv, EnvironmentTypeOK
<1>1. /\ teardown = "over" /\ Len(phases) \in {3, 4}
      /\ phases[1].name = "prepare" /\ (Len(phases) = 4 => phases[2].name = "run")
      /\ phases[Len(phases) - 1].name = "cleanup" /\ phases[Len(phases)].name = "dispose"
      /\ Len(phases) = 3 => lost \/ ~phases[1].ok
  BY <1>0 DEF EnvironmentInv, PhasesInOrder, Finished, Left, Early
<1>2. /\ Names \in Seq(PhaseNames) /\ Len(Names) = Len(phases) /\ DOMAIN Names = DOMAIN phases
      /\ \A i \in DOMAIN phases : Names[i] = phases[i].name
  <2>1. ASSUME NEW i \in DOMAIN phases PROVE phases[i].name \in PhaseNames
    <3>1. phases[i] \in PhaseEntries
      BY <1>0
    <3> QED BY <3>1 DEF PhaseEntries
  <2>2. Names \in [1..Len(phases) -> PhaseNames]
    BY <1>0, <2>1 DEF Names
  <2>3. Names \in Seq(PhaseNames) /\ Len(Names) = Len(phases)
    BY <1>0, <2>2
  <2> QED BY <1>0, <2>3 DEF Names
<1>3. SubSeq(Names, Len(phases) - 1, Len(phases)) = <<"cleanup", "dispose">>
  <2> DEFINE s == SubSeq(Names, Len(phases) - 1, Len(phases))
             e == <<"cleanup", "dispose">>
  <2>1. s \in Seq(PhaseNames) /\ Len(s) = 2 /\ s[1] = "cleanup" /\ s[2] = "dispose"
    BY <1>0, <1>1, <1>2
  <2>2. e \in Seq(PhaseNames) /\ Len(e) = 2 /\ e[1] = "cleanup" /\ e[2] = "dispose"
    BY DEF PhaseNames
  <2>3. s = e
    <3>1. \A i \in 1..Len(s) : s[i] = e[i]
      BY <2>1, <2>2
    <3> HIDE DEF s, e
    <3> QED BY <2>1, <2>2, <3>1, SeqEqual
  <2> QED BY <2>3
<1>4. \A i, j \in DOMAIN phases : Names[i] = Names[j] => i = j
  <2>1. CASE Len(phases) = 3
    BY <1>0, <1>1, <1>2, <2>1
  <2>2. CASE Len(phases) = 4
    BY <1>0, <1>1, <1>2, <2>2
  <2> QED BY <1>1, <2>1, <2>2
<1>5. SUFFICES ASSUME owner = "returned"
               PROVE  /\ Healthy <=> mishaps = {}
                      /\ Healthy => Len(phases) = 4 /\ interrupts = 0
                      /\ interrupts > 0 => \E i \in DOMAIN phases : /\ Names[i] \in {"prepare", "run"}
                                                                  /\ ~phases[i].ok
  BY <1>1, <1>3, <1>4 DEF EnvironmentSettles
<1>6. ~lost /\ ~interrupted /\ interrupts \in Nat /\ (interrupts > 0 => CancelTold)
  BY <1>5 DEF EnvironmentInv, EnvironmentTypeOK, CancelRemembered
<1>7. interrupts > 0 => \E i \in DOMAIN phases : Names[i] \in {"prepare", "run"} /\ ~phases[i].ok
  BY <1>2, <1>6 DEF CancelTold
<1>8. Healthy <=> mishaps = {}
  BY <1>6 DEF EnvironmentInv, MishapsNoted, Healthy
<1>9. Healthy => Len(phases) = 4 /\ interrupts = 0
  BY <1>0, <1>1, <1>6, <1>7 DEF Healthy
<1> QED BY <1>7, <1>8, <1>9

\* For any number of cancellations, run_environment leaves only after cleanup
\* and then disposal, each once; where it returns, a cancellation is missing
\* only if the phase it met has an error in its place, and the execution is
\* healthy only if all four phases went well and nothing was cancelled.
THEOREM EnvironmentLeaves == EnvironmentSpec => []EnvironmentSettles
<1>1. ASSUME EnvironmentInit PROVE EnvironmentInv
  <2>1. phases = << >> /\ Len(phases) = 0 /\ phases \in Seq(PhaseEntries) /\ DOMAIN phases = {}
    BY <1>1 DEF EnvironmentInit
  <2>2. EnvironmentTypeOK /\ MishapsNoted
    BY <1>1, <2>1 DEF EnvironmentInit, EnvironmentTypeOK, MishapsNoted
  <2>4. CancelRemembered
    BY <1>1 DEF EnvironmentInit, CancelRemembered, CancelTold, Early
  <2>3. PhasesInOrder
    BY <1>1, <2>1 DEF EnvironmentInit, PhasesInOrder, Early, Finished, Left
  <2> QED BY <2>2, <2>3, <2>4 DEF EnvironmentInv
<1> QED BY <1>1, EnvironmentStep, EnvironmentConcludes, PTL DEF EnvironmentSpec

=============================================================================
