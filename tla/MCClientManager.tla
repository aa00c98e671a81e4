--------------------------- MODULE MCClientManager ---------------------------
(* Who owns clients and what they reach others through: the client manager in *)
(* Python and in TypeScript, and the tunnels of a transport in Python.  Each   *)
(* behaviour is of one of the three.                                           *)
EXTENDS ClientManager, TsClientManager, PortForward, TLC
CONSTANTS ka, kb, x, y, c1, c2

\* A shared dependency and a transport over it; and two clients that need each
\* other, one of them over the transport.
MCKeys == {ka, kb, x, y}
MCPrompt == {ka, kb}
MCDeps == (ka :> {}) @@ (kb :> {ka})
          @@ (x :> {kb, y}) @@ (y :> {x})

\* A client and one of its caller's own over the same transport, which a third
\* caller uses itself.
MCTsNeeds == [k \in TsKeys |-> IF k = "pod" THEN {} ELSE {"pod"}]
MCTsWants == [c \in TsConsumers |-> CASE c = "n1" -> "db" [] c = "n2" -> "pod" [] OTHER -> "own"]

VARIABLE subject
clientVars == <<subject, vars, tsClientVars, forwardVars>>

OwnerInit == subject \in {"python", "typescript", "tunnels"} /\ Init /\ TsClientInit /\ ForwardInit

OwnerNext ==
    \/ subject = "python" /\ Next /\ UNCHANGED <<subject, tsClientVars, forwardVars>>
    \/ subject = "typescript" /\ TsClientNext /\ UNCHANGED <<subject, vars, forwardVars>>
    \/ subject = "tunnels" /\ ForwardNext /\ UNCHANGED <<subject, vars, tsClientVars>>
    \/ (subject = "tunnels" \/ root = "disposed") /\ UNCHANGED clientVars

OwnerSpec == OwnerInit /\ [][OwnerNext]_clientVars
             /\ DisposalFairness /\ ServiceFairness /\ TsClientFairness

(* Nobody waits for ever, in Python and in TypeScript: neither who asks, nor *)
(* the root that leaves.                                                     *)
NobodyStays == []<>(EverybodyServed /\ TsEverybodyServed)

=============================================================================
