------------------------------- MODULE ReadScope -------------------------------
(* Rounds of shared reads: DataLoader (toolbox/src/data-loader.ts), one scope *)
(* per round, and the ConcurrencyPool (concurrency.ts) of the client that    *)
(* runs the operations of all scopes.  As withReadScope (mysql/scoped.ts)    *)
(* binds them, an operation listens to its client's signal and not to its    *)
(* scope's.                                                                  *)
EXTENDS Naturals, FiniteSets, SequencesExt

CONSTANTS
    Rounds,       \* scopes
    RoundOf,      \* calls of read(): the scope of each
    Wanted,       \* keys; Keyless, if among them, stands for undefined
    Keyless,
    Bytes,        \* serialized size of the value of each key
    MaxEntries, MaxBytes,
    PoolSize      \* concurrency of the client

ASSUME ReadBounds ==
    /\ RoundOf \in Seq(Rounds) /\ MaxEntries \in Nat \ {0} /\ MaxBytes \in Nat \ {0}
    /\ PoolSize \in Nat \ {0} /\ Bytes \in [Wanted -> Nat]

VARIABLES
    op,          \* the pending promises: round, key, whether retained, where they stand
    kept,        \* DataLoader.#entries of each round: the operation of a key, 0 if none
    bytes,       \* DataLoader.#bytes
    round,       \* each scope: "open", "closing", "closed"
    reader,      \* calls of read(): where they stand, operation they share
    slots,       \* ConcurrencyPool.#active
    turn,        \* ConcurrencyPool.#waiting
    pooled       \* the client's signal: "live", "aborted"

readVars == <<op, kept, bytes, round, reader, slots, turn, pooled>>

Ops == DOMAIN op
Reads == DOMAIN RoundOf
NotYet == [at |-> "idle", on |-> 0, key |-> "none"]
Over(c) == reader' = [reader EXCEPT ![c] = [NotYet EXCEPT !.at = "over"]]
None == [k \in Wanted |-> 0]

ReadInit ==
    /\ op = << >> /\ kept = [s \in Rounds |-> None] /\ bytes = [s \in Rounds |-> 0]
    /\ round = [s \in Rounds |-> "open"]
    /\ reader = [c \in Reads |-> NotYet]
    /\ slots = 0 /\ turn = << >> /\ pooled = "live"

Settles(o) == op[o].at \in {"ok", "failed"}
Retained(s) == Cardinality({k \in Wanted : kept[s][k] # 0})

\* read(): refused by a scope that closes, in wait for a shared operation, or the
\* first to ask.  Calls are numbered in the order in which they are made.
ReadThrough(c, k) ==
    /\ reader[c].at = "idle" /\ \A d \in 1..(c - 1) : reader[d].at # "idle"
    /\ LET s == RoundOf[c]
           hit == IF k = Keyless THEN 0 ELSE kept[s][k]
           waits(o) == reader' = [reader EXCEPT ![c] = [at |-> "waits", on |-> o, key |-> k]]
           keep == k # Keyless /\ Retained(s) < MaxEntries
       IN  \/ /\ round[s] # "open" /\ Over(c)
              /\ UNCHANGED <<op, kept>>
           \/ round[s] = "open" /\ hit # 0 /\ waits(hit) /\ UNCHANGED <<op, kept>>
           \/ /\ round[s] = "open" /\ hit = 0
              /\ op' = Append(op, [of |-> s, key |-> k, keep |-> keep, at |-> "new"])
              /\ kept' = IF keep THEN [kept EXCEPT ![s][k] = Len(op')] ELSE kept
              /\ waits(Len(op'))
    /\ UNCHANGED <<bytes, round, slots, turn, pooled>>

\* The signal of a call ends its wait and not the operation.
StopsWaiting(c) ==
    /\ reader[c].at = "waits" /\ Over(c)
    /\ UNCHANGED <<op, kept, bytes, round, slots, turn, pooled>>

Receives(c) ==
    /\ reader[c].at = "waits" /\ Settles(reader[c].on)
    /\ Over(c)
    /\ UNCHANGED <<op, kept, bytes, round, slots, turn, pooled>>

-----------------------------------------------------------------------------
(* The operation: a run of the pool.                                        *)

OpAt(o, place) == op' = [op EXCEPT ![o].at = place]

\* Its turn comes a microtask later; #acquire takes a slot or queues.
Begins(o) ==
    /\ op[o].at = "new"
    /\ \/ /\ round[op[o].of] # "open" \/ pooled = "aborted"
          /\ OpAt(o, "failed") /\ UNCHANGED <<slots, turn>>
       \/ /\ round[op[o].of] = "open" /\ pooled = "live"
          /\ IF slots < PoolSize THEN slots' = slots + 1 /\ OpAt(o, "works") /\ UNCHANGED turn
             ELSE turn' = Append(turn, o) /\ OpAt(o, "queued") /\ UNCHANGED slots
    /\ UNCHANGED <<kept, bytes, round, reader, pooled>>

\* The slot goes to who waits longest.
PassSlot(o, place) ==
    IF turn = << >> THEN slots' = slots - 1 /\ OpAt(o, place) /\ UNCHANGED turn
    ELSE /\ turn' = Tail(turn) /\ UNCHANGED slots
         /\ op' = [op EXCEPT ![o].at = place, ![Head(turn)].at = "granted"]

\* Mutant: the signal is looked at before the try.
Forfeits(o) == OpAt(o, "failed") /\ UNCHANGED <<slots, turn>>
\* Aborted between the grant and its turn: the finally passes the slot on.
GivesBack(o) == PassSlot(o, "failed")

Granted(o) ==
    /\ op[o].at = "granted"
    /\ \/ pooled = "live" /\ OpAt(o, "works") /\ UNCHANGED <<slots, turn>>
       \/ pooled = "aborted" /\ GivesBack(o)
    /\ UNCHANGED <<kept, bytes, round, reader, pooled>>

WorkEnds(o) ==
    /\ op[o].at = "works"
    /\ \E how \in {"returned", "failed"} : PassSlot(o, how)
    /\ UNCHANGED <<kept, bytes, round, reader, pooled>>

\* Back in the loader: a scope that closed meanwhile takes no value, and a value
\* that does not fit is handed out but not retained.
Keeps(o) ==
    /\ op[o].at = "returned"
    /\ LET s == op[o].of
           k == op[o].key
           fits == bytes[s] + Bytes[k] <= MaxBytes
       IN  IF round[s] # "open" THEN OpAt(o, "failed") /\ UNCHANGED <<kept, bytes>>
           ELSE /\ OpAt(o, "ok")
                /\ bytes' = IF op[o].keep /\ fits THEN [bytes EXCEPT ![s] = @ + Bytes[k]] ELSE bytes
                /\ kept' = IF op[o].keep /\ ~fits THEN [kept EXCEPT ![s][k] = 0] ELSE kept
    /\ UNCHANGED <<round, reader, slots, turn, pooled>>

\* The client is shut down: who still queues leaves the queue in the listener.
PoolAborts ==
    /\ pooled = "live" /\ pooled' = "aborted" /\ turn' = << >>
    /\ op' = [o \in Ops |-> IF op[o].at = "queued" THEN [op[o] EXCEPT !.at = "failed"] ELSE op[o]]
    /\ UNCHANGED <<kept, bytes, round, reader, slots>>

-----------------------------------------------------------------------------
(* The end of a scope, by close() or by its owner's signal.                 *)

Closes(s) ==
    /\ round[s] = "open" /\ round' = [round EXCEPT ![s] = "closing"]
    /\ kept' = [kept EXCEPT ![s] = None]
    /\ UNCHANGED <<op, bytes, reader, slots, turn, pooled>>

\* Everything pending has settled, retained or not.
Closed(s) ==
    /\ round[s] = "closing" /\ \A o \in Ops : op[o].of = s => Settles(o)
    /\ round' = [round EXCEPT ![s] = "closed"] /\ bytes' = [bytes EXCEPT ![s] = 0]
    /\ UNCHANGED <<op, kept, reader, slots, turn, pooled>>

ReadNext ==
    \/ \E c \in Reads : \/ StopsWaiting(c) \/ Receives(c)
                        \/ \E k \in Wanted : ReadThrough(c, k)
    \/ \E o \in Ops : Begins(o) \/ Granted(o) \/ WorkEnds(o) \/ Keeps(o)
    \/ \E s \in Rounds : Closes(s) \/ Closed(s)
    \/ PoolAborts

\* Microtasks run, and every operation ends: it has a timeout of its own.
ReadProgress ==
    \/ \E c \in Reads : Receives(c)
    \/ \E o \in Ops : Begins(o) \/ Granted(o) \/ WorkEnds(o) \/ Keeps(o)
    \/ \E s \in Rounds : Closed(s)

-----------------------------------------------------------------------------
(* The slots in use are those of the operations that work or were told to,  *)
(* and nobody queues for a slot that is free, whoever is aborted between a  *)
(* grant and its turn.                                                      *)
SlotsAreHeld ==
    /\ slots = Cardinality({o \in Ops : op[o].at \in {"granted", "works"}}) /\ slots <= PoolSize
    /\ turn # << >> => slots = PoolSize
    /\ ToSet(turn) = {o \in Ops : op[o].at = "queued"}

(* A scope retains one operation per key, of its own round, within both     *)
(* budgets, and counts the bytes of what it retains.                        *)
RoundsKeepTheirOwn ==
    \A s \in Rounds :
        LET held == {k \in Wanted : kept[s][k] # 0} IN
        /\ \A k \in held : op[kept[s][k]].of = s /\ op[kept[s][k]].key = k /\ op[kept[s][k]].keep
        /\ Cardinality(held) <= MaxEntries /\ bytes[s] <= MaxBytes
        /\ round[s] = "open" =>
              bytes[s] = FoldSet(LAMBDA k, n : n + Bytes[k], 0, {k \in held : op[kept[s][k]].at = "ok"})

(* A call gets the value of its own key and round, and nothing that was     *)
(* asked in a scope still works once that scope is closed.                  *)
AnswersAreOwn ==
    /\ \A c \in Reads : reader[c].on # 0 =>
         op[reader[c].on].of = RoundOf[c] /\ op[reader[c].on].key = reader[c].key
    /\ \A s \in Rounds : round[s] = "closed" => \A o \in Ops : op[o].of = s => Settles(o)

ReadsSound == SlotsAreHeld /\ RoundsKeepTheirOwn /\ AnswersAreOwn

(* Every call is answered, and every scope that closes is closed.           *)
ReadsQuiet == (\A c \in Reads : reader[c].at # "waits") /\ \A s \in Rounds : round[s] # "closing"

=============================================================================
