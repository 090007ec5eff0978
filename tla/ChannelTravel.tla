--------------------------- MODULE ChannelTravel ---------------------------
(***************************************************************************)
(* The position a channel believes its device to have: the estimate along  *)
(* the travel times of the settings, what the device reports, the position *)
(* object on the bus, and the snapshot that lets a travel go on when STOP  *)
(* turns out not to have been obeyed.                                      *)
(*                                                                         *)
(* A few positions stand for 0 to 100 percent; the device may be slower or *)
(* faster than its settings say.  Commands are answered one after another. *)
(***************************************************************************)
EXTENDS Integers, Sequences

CONSTANTS
    Full,               \* the last position
    Pace,               \* configured time from one position to the next
    Invert,             \* cInvertDir
    OneWay,             \* mIs1W
    Estimates,          \* travel times the device may tell
    MaxMoves, MaxStops  \* bounds: commands

TravelAssumption ==
    /\ {Full, Pace, MaxMoves, MaxStops} \subseteq Nat /\ Full > 0 /\ Pace > 0
    /\ {Invert, OneWay} \subseteq BOOLEAN /\ Estimates \subseteq Nat \ {0}

Position == 0 .. Full

VARIABLES
    current, target,            \* mCurrentPosition, mTargetPosition
    start, total, elapsed,      \* mTravelStartPosition, mTravelDurationMs, time since mTravelStartTime
    isMoving,                   \* mIsMoving
    snapshot,                   \* mStopTravelSnapshot: empty, or the travel before STOP
    ko,                         \* the position object
    commands,                   \* exchanges that have no outcome yet
    at, dest,                   \* where the device is and where it goes
    moves, stops,               \* commands so far
    goal,                       \* where the travel went that a STOP, the only one on its way, broke off
    behind                      \* whether the bus was not told yet of an estimate begun anew

travel == <<target, start, total, elapsed>>
device == <<at, dest>>
count  == <<moves, stops>>
vars == <<current, travel, isMoving, snapshot, ko, commands, device, count, goal, behind>>

NoGoal == -1
Stop == -2

Init ==
    /\ current = 0 /\ target = 0 /\ start = 0 /\ total = 0 /\ elapsed = 0
    /\ isMoving = FALSE /\ snapshot = <<>>
    /\ at = 0 /\ dest = 0 /\ ko = IF Invert THEN Full ELSE 0
    /\ commands = <<>> /\ moves = 0 /\ stops = 0 /\ goal = NoGoal
    /\ behind = FALSE

-----------------------------------------------------------------------------
(* The estimate *)

Distance(a, b) == IF a <= b THEN b - a ELSE a - b

\* interpolatePosition
Between(from, to, e, d) ==
    IF e >= d THEN to
    ELSE IF to >= from THEN from + ((to - from) * e) \div d
    ELSE from - ((from - to) * e) \div d

Interpolated == Between(start, target, elapsed, total)

\* estimateCurrentPosition
Estimate == IF total = 0 \/ ~isMoving THEN current ELSE Interpolated

Reported(p) == IF Invert THEN Full - p ELSE p

\* publishPositionFeedback
Publish(p) == current' = p /\ ko' = Reported(p) /\ behind' = FALSE

\* startTravelEstimation: the duration is estimateTravelDurationMs
StartTravel(t) ==
    /\ current' = Estimate /\ start' = Estimate /\ target' = t
    /\ total' = Distance(Estimate, t) * Pace /\ elapsed' = 0

\* updateEstimatedPosition
UpdateEstimate ==
    /\ current' = Interpolated
    /\ ko' = IF Interpolated = current THEN ko ELSE Reported(Interpolated)
    /\ behind' = (behind /\ Interpolated = current)
    /\ IF elapsed >= total THEN total' = 0 /\ elapsed' = 0 /\ start' = Interpolated
       ELSE UNCHANGED <<total, elapsed, start>>

LoopDue == total > 0 /\ isMoving /\ (Interpolated # current \/ elapsed >= total)

\* loop()
Loop ==
    /\ LoopDue /\ UpdateEstimate
    /\ UNCHANGED <<target, isMoving, snapshot, commands, device, count, goal>>

-----------------------------------------------------------------------------
(* Commands: sendPositionCommand, sendUpDown, sendStop.  The estimate is up to date. *)

Move(t) ==
    /\ ~LoopDue /\ moves < MaxMoves /\ moves' = moves + 1
    /\ commands' = Append(commands, t)
    /\ snapshot' = <<>> /\ StartTravel(t) /\ goal' = NoGoal
    /\ UNCHANGED <<isMoving, ko, device, stops, behind>>

Snapshot == [moving |-> isMoving, target |-> target, start |-> start, total |-> total, elapsed |-> elapsed]

\* stopTravelEstimation
StopTravel == total' = 0 /\ elapsed' = 0 /\ start' = current' /\ target' = current'

SendStop ==
    /\ ~LoopDue /\ stops < MaxStops /\ stops' = stops + 1
    /\ commands' = Append(commands, Stop)
    /\ snapshot' = IF total # 0 \/ isMoving THEN <<Snapshot>> ELSE <<>>
    /\ Publish(Estimate) /\ StopTravel
    /\ goal' = IF total # 0 /\ \A k \in DOMAIN commands : commands[k] # Stop
               THEN target ELSE NoGoal
    /\ UNCHANGED <<isMoving, device, moves>>

\* Mutant: the travel starts anew where STOP was sent.
RestoreFromHere ==
    /\ snapshot # <<>> /\ snapshot' = <<>>
    /\ isMoving' = snapshot[1].moving /\ target' = target
    /\ total' = snapshot[1].total /\ UNCHANGED <<start, elapsed>>
\* restoreStopTravelSnapshot
Restore ==
    /\ snapshot # <<>> /\ snapshot' = <<>>
    /\ isMoving' = snapshot[1].moving /\ target' = snapshot[1].target
    /\ start' = snapshot[1].start /\ total' = snapshot[1].total /\ elapsed' = snapshot[1].elapsed

\* The device obeys, or it does not.
Obeys(command) ==
    dest' = IF command = Stop THEN at ELSE command

\* onCommandExchangeResult: "Rejected" is ExplicitlyRejected and FailedBeforeAuthentication
\* (for a 1W command only the latter), "Unknown" is AuthenticatedUnconfirmed too.
Outcome(result) ==
    /\ ~LoopDue /\ commands # <<>> /\ commands' = Tail(commands)
    /\ OneWay => result # "Unknown"
    /\ \/ result \in {"Completed", "Unknown"} /\ Obeys(Head(commands))
       \/ result \in {"Rejected", "Unknown"} /\ UNCHANGED dest
    /\ IF Head(commands) # Stop \/ result = "Unknown" THEN UNCHANGED <<snapshot, travel, isMoving>>
       ELSE \/ result = "Completed" /\ snapshot' = <<>> /\ UNCHANGED <<travel, isMoving>>
            \/ result = "Rejected" /\ Restore
            \/ result = "Rejected" /\ snapshot = <<>> /\ UNCHANGED <<snapshot, travel, isMoving>>
    /\ goal' = IF Head(commands) = Stop THEN NoGoal ELSE goal
    /\ UNCHANGED <<current, ko, at, count, behind>>

-----------------------------------------------------------------------------
(* The device and its reports *)

DeviceMoves ==
    /\ at # dest /\ at' = IF at < dest THEN at + 1 ELSE at - 1
    /\ UNCHANGED <<current, travel, isMoving, snapshot, ko, commands, dest, count, goal, behind>>

\* dispatchPositionStatus of a device that rests: the end of the estimate overwrites the
\* position just taken from the report, not the object.
AtRest ==
    /\ at = dest
    /\ ko' = Reported(at) /\ behind' = FALSE
    /\ current' = IF total = 0 \/ ~isMoving THEN at ELSE Between(start, at, elapsed, total)
    /\ StopTravel /\ snapshot' = <<>> /\ isMoving' = FALSE
    /\ goal' = NoGoal

\* ... of one that moves, and onEstimate when it tells how long (told is the empty set or
\* that time).
InMotion(told) ==
    LET T == IF snapshot # <<>> THEN snapshot[1]
             ELSE [target |-> dest,
                   start   |-> IF total = 0 THEN at ELSE start,
                   total   |-> IF total = 0 THEN Distance(at, dest) * Pace ELSE total,
                   elapsed |-> IF total = 0 THEN 0 ELSE elapsed]
    IN  /\ at # dest
        /\ isMoving' = TRUE /\ ko' = Reported(at)
        /\ target' = T.target /\ snapshot' = <<>> /\ goal' = NoGoal /\ behind' = (told # {})
        /\ IF told = {}
           THEN current' = at /\ start' = T.start /\ total' = T.total /\ elapsed' = T.elapsed
           ELSE /\ current' = IF T.total = 0 THEN at ELSE Between(T.start, T.target, T.elapsed, T.total)
                /\ start' = current' /\ total' \in told /\ elapsed' = 0

Status ==
    /\ ~OneWay /\ ~LoopDue
    /\ AtRest \/ InMotion({}) \/ \E s \in Estimates : InMotion({s})
    /\ UNCHANGED <<commands, device, count>>

\* Time since the start, as far as the estimate tells it apart.
Further(e, t) == IF e < t THEN e + 1 ELSE e

Tick ==
    /\ ~LoopDue
    /\ elapsed' = Further(elapsed, total)
    /\ snapshot' = IF snapshot = <<>> THEN <<>>
                   ELSE <<[snapshot[1] EXCEPT !.elapsed = Further(@, snapshot[1].total)]>>
    /\ UNCHANGED <<current, target, start, total, isMoving, ko, commands, device, count, goal, behind>>

Results == {"Completed", "Rejected", "Unknown"}

Next ==
    \/ Loop \/ SendStop \/ DeviceMoves \/ Status \/ Tick
    \/ \E t \in Position : Move(t)
    \/ \E result \in Results : Outcome(result)

Spec == Init /\ [][Next]_vars

-----------------------------------------------------------------------------
(* Properties *)

TypeOK ==
    /\ {current, target, start, at, dest, ko} \subseteq Position
    /\ total \in Nat /\ elapsed \in 0 .. total /\ isMoving \in BOOLEAN
    /\ snapshot = <<>> \/ snapshot[1].elapsed <= snapshot[1].total
    /\ goal \in Position \cup {NoGoal} /\ behind \in BOOLEAN

\* While an estimate runs, the object shows the position scenes and slat commands are made
\* from (updateEstimatedPosition tells the bus of every change); an estimate that a time told
\* by the device began anew (onEstimate tells nobody) is shown when it changes next.
FeedbackFollowsEstimate ==
    total > 0 /\ isMoving /\ ~LoopDue /\ ~behind => ko = Reported(current)

\* When the device refuses the STOP that broke a travel off, the channel estimates that
\* travel again (restoreStopTravelSnapshot).  There is one snapshot: a STOP commanded while
\* another one is on its way takes it over, and nothing is said of either.
RejectedStopResumes ==
    [][commands # <<>> /\ Outcome("Rejected") /\ Head(commands) = Stop /\ goal # NoGoal
         => target' = goal]_vars

\* In the end the object shows where the device is.
FeedbackSettles == <>[](ko = Reported(at))

\* The position a resting device reports is the one the channel keeps.
ReportedIsTaken == [][Status /\ at = dest => current' = at]_vars
=============================================================================
