------------------------------ MODULE MCChannel ------------------------------
(***************************************************************************)
(* The parts of a channel and the remotes that make channels ask: its      *)
(* polls, with a device that answers and one that does not; its estimate   *)
(* of the position, inverted and with the times a report tells; its bus    *)
(* objects over a restart; the remote map, with its links or with what is  *)
(* heard at their limits.  "part" is what runs, the others keep still;     *)
(* "polls", "inverted travel", "objects" and "links" have the constants of *)
(* the configuration.                                                      *)
(***************************************************************************)
EXTENDS Channel

VARIABLE part

travelVars ==
    <<current, target, start, total, elapsed, travelling, snapshot, ko, commands, at, dest,
      moves, stops, goal, behind>>
objectVars ==
    <<kind, inverted, behaviour, action, ets, ram, objectsCurrent, objectsMoving, feedback,
      status, locked, sent, learned, restarts>>
remoteVars ==
    <<entries, observed, head, flash, remoteKo, lastCount, wanted, saved, heard>>
allVars == <<part, vars, travelVars, objectVars, remoteVars>>

SilentPolls == INSTANCE ChannelPolls WITH
    Answers <- FALSE
TimedTravel == INSTANCE ChannelTravel WITH
    Invert <- FALSE, Estimates <- {1, 5}, isMoving <- travelling
Ring == INSTANCE RemoteMap WITH
    Devices <- {}, MaxHeard <- 4, ko <- remoteKo

ASSUME Assumptions ==
    /\ ChannelAssumption /\ SilentPolls!PollAssumption /\ TimedTravel!TravelAssumption
    /\ Ring!RemoteMapAssumption

Parts ==
    {"polls", "silent polls", "inverted travel", "timed travel", "objects", "links", "ring"}

\* A channel whose objects do not run has one setting.
PartInit ==
    /\ part \in Parts
    /\ Init /\ (IF part = "inverted travel" THEN Travel!Init ELSE TimedTravel!Init)
    /\ Objects!Init /\ Map!Init
    /\ part # "objects" =>
           /\ kind = "shutter" /\ ~inverted /\ behaviour = "status"
           /\ \A s \in DOMAIN ets : ets[s] = -1 /\ action[s] = "position"

PartNext ==
    /\ UNCHANGED part
    /\ \/ /\ \/ part = "polls" /\ Next
             \/ part = "silent polls" /\ SilentPolls!Next
          /\ UNCHANGED <<travelVars, objectVars, remoteVars>>
       \/ /\ \/ part = "inverted travel" /\ Travel!Next
             \/ part = "timed travel" /\ TimedTravel!Next
          /\ UNCHANGED <<vars, objectVars, remoteVars>>
       \/ /\ part = "objects" /\ Objects!Next
          /\ UNCHANGED <<vars, travelVars, remoteVars>>
       \/ /\ \/ part = "links" /\ Map!Next
             \/ part = "ring" /\ Ring!Next
          /\ UNCHANGED <<vars, travelVars, objectVars>>

\* loop() runs and time passes; an exchange ends; a device moves and comes to a stop, and
\* when it is asked again and again it answers; a periodic poll is not refused for ever.
FairSpec ==
    /\ PartInit /\ [][PartNext]_allVars
    /\ WF_vars(part = "polls" /\ Loop) /\ WF_vars(part = "polls" /\ Tick)
    /\ WF_vars(part = "polls" /\ DeviceStops)
    /\ WF_vars(part = "polls" /\ (Answer \/ FailureUntold
                                     \/ \E b \in BOOLEAN : Failure(b)))
    /\ SF_vars(part = "polls" /\ Answer)
    /\ SF_vars(part = "polls" /\ PeriodicPoll(TRUE))
    /\ WF_vars(part = "silent polls" /\ SilentPolls!Loop)
    /\ WF_vars(part = "silent polls" /\ SilentPolls!Tick)
    /\ WF_vars(part = "silent polls" /\ (SilentPolls!FailureUntold
                                            \/ \E b \in BOOLEAN : SilentPolls!Failure(b)))
    /\ WF_travelVars(part = "timed travel" /\ TimedTravel!Loop)
    /\ WF_travelVars(part = "timed travel" /\ TimedTravel!DeviceMoves)
    /\ WF_travelVars(part = "timed travel" /\ TimedTravel!Tick)
    /\ WF_travelVars(part = "timed travel"
                     /\ \E result \in TimedTravel!Results : TimedTravel!Outcome(result))
    /\ SF_travelVars(part = "timed travel" /\ TimedTravel!Status)

-----------------------------------------------------------------------------

\* A travel is shown and its end is learnt: while it lasts the object follows the estimate,
\* with the travel times a device tells and without them,
\* the channel notices that the device stopped, tracking one that does not answer ends, and
\* in the end the object shows where the device is.
MotionEndShown ==
    /\ [](part = "inverted travel" => Travel!FeedbackFollowsEstimate)
    /\ [](part = "timed travel" => TimedTravel!FeedbackFollowsEstimate)
    /\ KeepsWindow
    /\ part = "polls" => MotionEndNoticed
    /\ part = "silent polls" => SilentPolls!TrackingEnds
    /\ part = "timed travel" => TimedTravel!FeedbackSettles
=============================================================================
