-------------------------------- MODULE Acquire --------------------------------
(* The connections of a TypeScript client: acquireConnection                *)
(* (toolbox/src/connection/acquire.ts) tries the routes of a transport under *)
(* one budget and a deadline per attempt, Transport (transport/lifecycle.ts) *)
(* tracks what it leaves behind, and RedisAccess (redis/client.ts) shares one *)
(* connection per key.  A promise settles in one turn and its continuation  *)
(* runs in another; a signal may abort between the two.                     *)
EXTENDS Naturals, Sequences

CONSTANTS
    MaxAsks,     \* calls of RedisAccess.connection
    Keys,        \* endpoint, database and credentials of a connection
    Routes,      \* how many routes the transport has
    MaxDeaths    \* only the first so many connections may be lost

ASSUME AcquireBounds == MaxAsks \in Nat /\ Routes \in Nat \ {0} /\ MaxDeaths \in Nat

VARIABLES
    entry,       \* RedisAccess.#connections: the acquisition behind each key, 0 if none
    acq,         \* acquisitions: the key, where the loop stands, its current attempt
    late,        \* open() calls that outlived their attempts
    undoing,     \* their connections, while the tracked promise closes them
    asker,       \* calls: where they stand, key, acquisition they await
    access,      \* RedisAccess: "open", "aborted" by its owner, "closing", "closed"
    transport    \* Transport: "open", "closing", "disposed"

acquireVars == <<entry, acq, late, undoing, asker, access, transport>>

Askers == 1..MaxAsks
Acqs == DOMAIN acq
First(k) == [key |-> k, at |-> "racing", route |-> 1, abort |-> "no",
             open |-> "opening", conn |-> "none"]

Connected(k) == [First(k) EXCEPT !.at = "published", !.open = "ok", !.conn = "open"]

\* A cold cache, or one that holds a connection which nobody waits for any more.
AcquireInit ==
    /\ \/ entry = [k \in Keys |-> 0] /\ acq = << >>
       \/ \E k \in Keys : entry = [j \in Keys |-> IF j = k THEN 1 ELSE 0] /\ acq = <<Connected(k)>>
    /\ late = {} /\ undoing = {}
    /\ asker = [c \in Askers |-> [at |-> "idle", key |-> "none", on |-> 0, first |-> FALSE]]
    /\ access = "open" /\ transport = "open"

AccessAborted == access # "open"
Aborted(a) == AccessAborted \/ transport # "open" \/ acq[a].abort = "budget"
AttemptAborted(a) == Aborted(a) \/ acq[a].abort = "attempt"
Settled(a) == acq[a].at \in {"published", "rejected"}
Attempt(a) == <<a, acq[a].route>>

-----------------------------------------------------------------------------
(* An attempt: open(), the continuation that the transport tracks, timers.  *)

\* open() resolves.  An attempt that was aborted meanwhile closes what it got
\* before anybody learns of it.
Opens(a) ==
    /\ acq[a].at = "racing" /\ acq[a].open = "opening"
    /\ IF AttemptAborted(a)
       THEN undoing' = undoing \cup {Attempt(a)} /\ acq' = [acq EXCEPT ![a].open = "undoing"]
       ELSE acq' = [acq EXCEPT ![a].open = "ok", ![a].conn = "open"] /\ UNCHANGED undoing
    /\ UNCHANGED <<entry, late, asker, access, transport>>

\* retryReason decides whether the failure may change the route.
OpenFails(a) ==
    /\ acq[a].at = "racing" /\ acq[a].open = "opening"
    /\ \E why \in {"retry", "fatal"} : acq' = [acq EXCEPT ![a].open = why]
    /\ UNCHANGED <<entry, late, undoing, asker, access, transport>>

LateOpen(x) ==
    /\ x \in late /\ late' = late \ {x}
    /\ undoing' = undoing \cup {x} \/ UNCHANGED undoing
    /\ UNCHANGED <<entry, acq, asker, access, transport>>

\* Closed, or not: the promise has settled.
Undone(x) ==
    /\ x \in undoing /\ undoing' = undoing \ {x}
    /\ UNCHANGED <<entry, acq, late, asker, access, transport>>

\* The timer of the attempt, until its race is over, or that of the acquisition.
Expires(a) ==
    /\ ~Settled(a) /\ acq[a].abort # "budget"
    /\ \E timer \in {"attempt", "budget"} :
         /\ timer = "attempt" => acq[a].at = "racing" /\ acq[a].abort = "no"
         /\ acq' = [acq EXCEPT ![a].abort = timer]
    /\ UNCHANGED <<entry, late, undoing, asker, access, transport>>

-----------------------------------------------------------------------------
(* The loop over the routes.                                                *)

\* An attempt that is left may leave its open() behind, and should hold nothing.
Leaves(a) == late' = IF acq[a].open = "opening" THEN late \cup {Attempt(a)} ELSE late
Kept(a) == IF acq[a].conn = "open" THEN "open" ELSE "none"
Rejects(a) ==
    /\ Leaves(a)
    /\ acq' = [acq EXCEPT ![a] = [First(@.key) EXCEPT !.at = "rejected", !.open = "none",
                                                    !.conn = Kept(a)]]
    /\ entry' = IF entry[acq[a].key] = a THEN [entry EXCEPT ![acq[a].key] = 0] ELSE entry

Retries(a) == acq[a].abort = "attempt" \/ acq[a].open = "retry"

\* Only establishment errors and deadlines advance, and only to a route that is
\* left while nobody has aborted the acquisition.
AfterFailure(a) ==
    \/ /\ Aborted(a) \/ acq[a].route = Routes \/ ~Retries(a)
       /\ Rejects(a)
    \/ /\ ~Aborted(a) /\ acq[a].route < Routes /\ Retries(a)
       /\ Leaves(a)
       /\ acq' = [acq EXCEPT ![a] = [First(@.key) EXCEPT !.route = acq[a].route + 1,
                                                         !.conn = Kept(a)]]
       /\ UNCHANGED entry

\* Mutant: what open() delivered after the abort is nobody's business.
DropsIt(a) == FALSE
\* Cancellation can win after open() resolved and before its result arrived.
Discards(a) == acq[a].conn = "open"

RaceLost(a) ==
    /\ acq[a].at = "racing" /\ (AttemptAborted(a) \/ acq[a].open \in {"retry", "fatal"})
    /\ \/ /\ Discards(a)
          /\ acq' = [acq EXCEPT ![a].conn = "closing", ![a].at = "discarding"]
          /\ UNCHANGED <<entry, late>>
       \/ ~Discards(a) /\ AfterFailure(a)
    /\ UNCHANGED <<undoing, asker, access, transport>>

\* The race was won; an abort since then, or the onRoute callback, still undoes it.
RaceWon(a) ==
    /\ acq[a].at = "racing" /\ acq[a].open = "ok"
    /\ \/ ~AttemptAborted(a) /\ acq' = [acq EXCEPT ![a] = Connected(@.key)]
       \/ acq' = [acq EXCEPT ![a].conn = "closing", ![a].at = "withdrawing"]
    /\ UNCHANGED <<entry, late, undoing, asker, access, transport>>

\* The close is over; a failed one becomes the error of the acquisition.
Discarded(a) ==
    /\ acq[a].at \in {"discarding", "withdrawing"}
    /\ Rejects(a) \/ (acq[a].at = "discarding" /\ AfterFailure(a))
    /\ UNCHANGED <<undoing, asker, access, transport>>

-----------------------------------------------------------------------------
(* RedisAccess.                                                             *)

\* connection(): refused, or in wait for the cached or a fresh acquisition.
Connects(c, k, cached, acqs) ==
    LET waits(a, first) == asker' = [asker EXCEPT ![c] = [at |-> "waits", key |-> k, on |-> a,
                                                          first |-> first]]
    IN  \/ /\ AccessAborted \/ (cached = 0 /\ transport # "open")
           /\ asker' = [asker EXCEPT ![c].at = "failed"]
           /\ entry' = [entry EXCEPT ![k] = cached] /\ acq' = acqs
        \/ /\ ~AccessAborted /\ cached # 0
           /\ waits(cached, FALSE) /\ acq' = acqs /\ UNCHANGED entry
        \/ /\ ~AccessAborted /\ cached = 0 /\ transport = "open"
           /\ acq' = Append(acqs, First(k))
           /\ waits(Len(acq'), TRUE)
           /\ entry' = [entry EXCEPT ![k] = Len(acq')]

\* Calls are numbered in the order in which they are made.
CallConnection(c, k) ==
    /\ asker[c].at = "idle" /\ \A d \in 1..(c - 1) : asker[d].at # "idle"
    /\ Connects(c, k, entry[k], acq)
    /\ UNCHANGED <<late, undoing, access, transport>>

\* The acquisition is settled.  Who found it in the cache looks again when its
\* connection is lost, and the first to notice retires it.
Answered(c) ==
    /\ asker[c].at = "waits" /\ Settled(asker[c].on)
    /\ LET a == asker[c].on
           k == asker[c].key
           usable == acq[a].at = "published"
                     /\ (asker[c].first \/ (acq[a].conn = "open" /\ ~AccessAborted))
           ends(how) == asker' = [asker EXCEPT ![c].at = how] /\ UNCHANGED <<entry, acq>>
       IN  \/ usable /\ ends("got")
           \/ ~usable /\ (acq[a].at = "rejected" \/ AccessAborted) /\ ends("failed")
           \/ /\ ~usable /\ acq[a].at = "published" /\ ~AccessAborted
              /\ IF entry[k] = a    \* else somebody has retired it already
                 THEN Connects(c, k, 0, [acq EXCEPT ![a].conn = "closed"])
                 ELSE Connects(c, k, entry[k], acq)
    /\ UNCHANGED <<late, undoing, access, transport>>

\* The peer closes a connection that was handed out.
Dies(a) ==
    /\ a <= MaxDeaths /\ acq[a].at = "published" /\ acq[a].conn = "open"
    /\ acq' = [acq EXCEPT ![a].conn = "lost"]
    /\ UNCHANGED <<entry, late, undoing, asker, access, transport>>

OwnerAborts ==
    /\ access = "open" /\ access' = "aborted"
    /\ UNCHANGED <<entry, acq, late, undoing, asker, transport>>

AccessCloses ==
    /\ access \in {"open", "aborted"} /\ access' = "closing"
    /\ UNCHANGED <<entry, acq, late, undoing, asker, transport>>

\* Everything in the cache has settled; what was published is closed.
AccessClosed ==
    LET held == {entry[k] : k \in Keys} \ {0}
    IN  /\ access = "closing" /\ \A a \in held : Settled(a)
        /\ access' = "closed" /\ entry' = [k \in Keys |-> 0]
        /\ acq' = [a \in Acqs |-> IF a \in held THEN [acq[a] EXCEPT !.conn = "closed"] ELSE acq[a]]
        /\ UNCHANGED <<late, undoing, asker, transport>>

DisposeBegins ==
    /\ transport = "open" /\ transport' = "closing"
    /\ UNCHANGED <<entry, acq, late, undoing, asker, access>>

\* Every tracked promise has settled.
DisposeEnds ==
    /\ transport = "closing" /\ late = {} /\ undoing = {}
    /\ \A a \in Acqs : acq[a].open # "opening"
    /\ transport' = "disposed"
    /\ UNCHANGED <<entry, acq, late, undoing, asker, access>>

AcquireNext ==
    \/ \E a \in Acqs : Opens(a) \/ OpenFails(a) \/ Expires(a) \/ RaceLost(a) \/ RaceWon(a)
                       \/ Discarded(a) \/ Dies(a)
    \/ \E x \in late \cup undoing : LateOpen(x) \/ Undone(x)
    \/ \E c \in Askers : Answered(c) \/ \E k \in Keys : CallConnection(c, k)
    \/ OwnerAborts \/ AccessCloses \/ AccessClosed \/ DisposeBegins \/ DisposeEnds

\* The event loop runs on, timers fire, and an open() that was aborted ends: it
\* is handed the signal and the remaining time for that.
Progress ==
    \/ \E a \in Acqs : \/ Expires(a) \/ RaceLost(a) \/ RaceWon(a) \/ Discarded(a)
                       \/ AttemptAborted(a) /\ (Opens(a) \/ OpenFails(a))
    \/ \E x \in late \cup undoing : LateOpen(x) \/ Undone(x)
    \/ \E c \in Askers : Answered(c)
    \/ AccessClosed \/ DisposeEnds

-----------------------------------------------------------------------------
(* "A late successful connection is closed, never published" (acquire.ts),  *)
(* and one connection per key: an open connection belongs to the race its   *)
(* acquisition runs, or to the cache under its key.                         *)
ConnectionsOwned ==
    \A a \in Acqs :
        /\ acq[a].conn \in {"open", "lost"} =>
              acq[a].at = "racing" \/ (acq[a].at = "published" /\ entry[acq[a].key] = a)
        /\ acq[a].conn = "closing" => acq[a].at \in {"discarding", "withdrawing"}

(* Nothing is open once the access is closed and its transport disposed, in *)
(* whichever order, and nothing is being closed.                            *)
DisposalIsComplete ==
    access = "closed" /\ transport = "disposed" =>
        /\ late = {} /\ undoing = {}
        /\ \A a \in Acqs : acq[a].conn \in {"none", "closed"}

ConnectionsSound == ConnectionsOwned /\ DisposalIsComplete

(* Nobody waits for an acquisition, and no close is under way.              *)
AccessQuiet ==
    (\A c \in Askers : asker[c].at # "waits") /\ access # "closing" /\ transport # "closing"

=============================================================================
