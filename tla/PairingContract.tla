--------------------------- MODULE PairingContract ---------------------------
(***************************************************************************)
(* What a 2W pairing promises to its caller: a pairing that began has one  *)
(* outcome, Success exactly when the channel took the peer over, and a     *)
(* channel takes over only a peer that holds the system key.               *)
(***************************************************************************)
CONSTANTS Node, NoNode

VARIABLES
    outcome,    \* "None", "InProgress" or how the last pairing ended
    keyed,      \* the devices that hold the system key
    stored      \* the node the channel is bound to

vars == <<outcome, keyed, stored>>

Failures == {"NoResponse", "InvalidResponse", "KeyExchangeFailure", "Cancelled"}

Init ==
    /\ outcome = "None"
    /\ keyed \subseteq Node
    /\ stored = NoNode

\* A new pairing; the previous one may have been abandoned without an outcome.
Begin ==
    /\ outcome' = "InProgress"
    /\ UNCHANGED <<keyed, stored>>

Reject ==
    /\ outcome' = "StartRejected"
    /\ UNCHANGED <<keyed, stored>>

\* A device takes the key; the controller may never learn it.
Share ==
    /\ \E n \in Node : keyed' = keyed \union {n}
    /\ UNCHANGED <<outcome, stored>>

\* Success binds a device that holds the key.  A pairing whose telemetry a
\* rejected start took over binds silently.
Bind ==
    /\ outcome \in {"InProgress", "StartRejected"}
    /\ outcome' = IF outcome = "InProgress" THEN "Success" ELSE outcome
    /\ \E n \in keyed : stored' = n
    /\ UNCHANGED keyed

Fail ==
    /\ outcome = "InProgress"
    /\ outcome' \in Failures
    /\ UNCHANGED <<keyed, stored>>

Next == Begin \/ Reject \/ Share \/ Bind \/ Fail

Spec == Init /\ [][Next]_vars
=============================================================================
