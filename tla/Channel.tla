------------------------------- MODULE Channel -------------------------------
(***************************************************************************)
(* A 2W channel: its polls, its estimate of the position, its bus objects  *)
(* with scenes and restart, and the remotes that make it ask.  Each part   *)
(* has its own copy of what the reports say of the device: whether it      *)
(* moves (isMoving, travelling, objectsMoving) and where it is.            *)
(***************************************************************************)
EXTENDS ChannelPolls

CONSTANTS
    Full, Pace, Invert, OneWay, TravelTimes, MaxMoves, MaxStops,
    Scenes, Kinds, Behaviours, MaxRestarts,
    Remotes, Devices, MaxEntries, MaxLinks, MaxObserved, NoRemote, MaxHeard

VARIABLES
    current, target, start, total, elapsed, travelling, snapshot, ko, commands, at, dest, moves,
    stops, goal, behind,
    kind, inverted, behaviour, action, ets, ram, objectsCurrent, objectsMoving, feedback,
    status, locked, sent, learned, restarts,
    entries, observed, head, flash, remoteKo, lastCount, wanted, saved, heard

Travel == INSTANCE ChannelTravel WITH Estimates <- TravelTimes, isMoving <- travelling
Objects == INSTANCE ChannelObjects WITH current <- objectsCurrent, isMoving <- objectsMoving
Map == INSTANCE RemoteMap WITH ko <- remoteKo

ChannelAssumption ==
    /\ PollAssumption /\ Travel!TravelAssumption /\ Objects!ObjectsAssumption
    /\ Map!RemoteMapAssumption

-----------------------------------------------------------------------------
(* Properties *)

\* When the device refuses the STOP that broke a travel off, and no other STOP was on its
\* way with it, the channel estimates that travel again (restoreStopTravelSnapshot); that is
\* told apart only while the travel keeps its types.
RejectedStopResumes == Travel!RejectedStopResumes /\ []Travel!TypeOK

\* A scene that was learned brings the device back to where it was, whatever the direction
\* of the settings, and after a restart too (storeSceneStateToEts, handleSceneRecall).
RecallReturns == Objects!TypeOK /\ Objects!RecallReturns

\* A remote that is heard causes polls of the devices linked to it and not unlinked since,
\* whatever was added, removed and saved in between; the ring of addresses heard forgets
\* the one entered longest ago (findRemote, observeAddress).
RemotesKept == Map!TypeOK /\ Map!PollsWhatIsLinked /\ Map!ForgetsOldest
=============================================================================
