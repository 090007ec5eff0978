------------------------------ MODULE KeyRecovery ------------------------------
(***************************************************************************)
(* What a key-extraction session promises: it is armed, binds itself to    *)
(* one hub at most, reports the key of that hub and of no other, and ends. *)
(* KeyExtraction implements it; KeyImport is built on it.                  *)
(***************************************************************************)
CONSTANTS Hub, NoHub

RecoveryAssumption == NoHub \notin Hub

VARIABLES
    armed,              \* mKeyExtractArmed
    status,             \* mKeyExtractStatus
    locked,             \* mKeyExtractHubNodeId
    captured            \* mKeyExtractResult.nodeId

recovery == <<armed, status, locked, captured>>

RecoveryInit ==
    /\ armed = FALSE /\ status = "Idle"
    /\ locked = NoHub /\ captured = NoHub

\* A new session forgets the hub and the result of the one before.
Arm ==
    /\ armed' = TRUE /\ status' = "Armed"
    /\ locked' = NoHub /\ captured' = NoHub

\* The hub that starts the key transfer keeps the session to itself.
Lock(h) ==
    /\ armed /\ locked \in {NoHub, h}
    /\ locked' = h
    /\ UNCHANGED <<armed, status, captured>>

Capture ==
    /\ armed /\ locked # NoHub
    /\ status' = "Captured" /\ captured' = locked
    /\ UNCHANGED <<armed, locked>>

\* Stopped by the user or by the end of the verification window, or timed out.
Disarm(timeout) ==
    /\ timeout => armed
    /\ armed' = FALSE /\ locked' = NoHub
    /\ status' = IF timeout THEN "Timeout"
                 ELSE IF status = "Armed" THEN "Idle" ELSE status
    /\ UNCHANGED captured

Clear ==
    /\ captured' = NoHub
    /\ status' = IF status \in {"Captured", "Timeout"}
                 THEN IF armed THEN "Armed" ELSE "Idle"
                 ELSE status
    /\ UNCHANGED <<armed, locked>>

RecoveryNext ==
    \/ Arm \/ Capture \/ Clear
    \/ \E h \in Hub : Lock(h)
    \/ \E timeout \in BOOLEAN : Disarm(timeout)

RecoverySpec == RecoveryInit /\ [][RecoveryNext]_recovery
=============================================================================
