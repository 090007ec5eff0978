---------------------------- MODULE ChannelPolls ----------------------------
(***************************************************************************)
(* When a 2W channel asks its device for its state: a follow-up poll after *)
(* every command, retries of polls that fail, the device's own estimate of *)
(* its travel time, all within a tracking window, and periodic polls when  *)
(* nothing is tracked.                                                     *)
(*                                                                         *)
(* Times are what is left of them, in units of which PollDelay are the two *)
(* seconds of a follow-up; a pass of loop() takes no time.  The controller *)
(* is only the number of polls it holds, the device whether it moves.      *)
(***************************************************************************)
EXTENDS Integers

CONSTANTS
    PollDelay,          \* defaultTrackedStatusPollDelayMs
    Window,             \* kTrackedStatusPollWindowMs
    Interval,           \* the periodic poll of the settings, 0 when there is none
    Estimates,          \* travel times a moving device may tell; it may tell none
    Answers,            \* whether the device answers
    Fails,              \* whether polls may fail or be refused by a full queue
    MaxEvents, MaxPolls \* bounds: commands and other moves, polls queued at once

None == -1

PollAssumption ==
    /\ {PollDelay, Window, Interval, MaxEvents, MaxPolls} \subseteq Nat
    /\ 0 < PollDelay /\ PollDelay <= Window /\ Estimates \subseteq Nat \ {0}
    /\ {Answers, Fails} \subseteq BOOLEAN

VARIABLES
    next, deadline,             \* mNextStatusPollMs, mPollTrackingDeadlineMs
    single, expected,           \* mSingleFollowUpPollPending, mStatusExpected
    failures, authFailures,     \* mStatusPollFailures, mAuthPollFailures
    settle,                     \* mStopSettlePollPending
    timer,                      \* time since mStatusPollTimer
    isMoving,                   \* mIsMoving
    polls,                      \* polls in the controller's queue
    device, events,             \* whether the device moves; events so far
    stopSent                    \* whether the outcome of a STOP is still to come

tracking == <<next, deadline, single, expected, failures, authFailures, settle>>
outside  == <<device, events, stopSent>>
vars == <<tracking, timer, isMoving, polls, outside>>

Init ==
    /\ next = None /\ deadline = None /\ single = FALSE /\ expected = FALSE
    /\ failures = 0 /\ authFailures = 0 /\ settle = FALSE /\ timer = 0
    /\ isMoving = FALSE /\ polls = 0
    /\ device = "still" /\ events = 0 /\ stopSent = FALSE

Least(a, b) == IF a <= b THEN a ELSE b
Opened == IF deadline = None THEN Window ELSE deadline

\* clearStatusPollTracking
Clear ==
    /\ next' = None /\ deadline' = None /\ expected' = FALSE /\ single' = FALSE
    /\ failures' = 0 /\ authFailures' = 0 /\ settle' = FALSE

\* startStatusPollTracking
StartTracking ==
    /\ next' = PollDelay /\ deadline' = Window /\ single' = TRUE /\ expected' = FALSE
    /\ failures' = 0 /\ authFailures' = 0 /\ settle' = FALSE

\* scheduleStatusPoll
Schedule ==
    /\ next' = IF next = None THEN PollDelay ELSE Least(next, PollDelay)
    /\ deadline' = Opened /\ single' = TRUE /\ expected' = FALSE
    /\ failures' = 0 /\ authFailures' = 0

\* isStatusPollTrackingActive
Active == next # None \/ single \/ expected \/ deadline > 0

Event == events < MaxEvents /\ events' = events + 1

-----------------------------------------------------------------------------
(* Commands *)

\* sendPositionCommand, sendUpDown, sendFavorite, sendSlatCommand, queued
Command ==
    /\ Event /\ StartTracking
    /\ device' \in {device, "moving"}
    /\ UNCHANGED <<timer, isMoving, polls, stopSent>>

\* sendStop, queued
SendStop ==
    /\ Event /\ StartTracking /\ stopSent' = TRUE
    /\ device' \in {device, "still"}
    /\ UNCHANGED <<timer, isMoving, polls>>

\* onCommandExchangeResult for a STOP
StopResult(result) ==
    /\ stopSent /\ stopSent' = FALSE
    /\ \/ result = "rejected" /\ UNCHANGED tracking
       \/ /\ result = "completed" /\ settle' = TRUE
          /\ UNCHANGED <<next, deadline, single, expected, failures, authFailures>>
       \/ result = "unconfirmed" /\ settle' = TRUE /\ Schedule
    /\ UNCHANGED <<timer, isMoving, polls, device, events>>

\* Another controller's frame to the device is overheard.
RemoteActivity ==
    /\ Event /\ Schedule /\ UNCHANGED settle
    /\ device' \in {"still", "moving"}
    /\ UNCHANGED <<timer, isMoving, polls, stopSent>>

-----------------------------------------------------------------------------
(* What the device tells *)

\* onStatusUpdate, onStatusExpected, onEstimate, in the order of a response
StatusUpdate(flag, estimate) ==
    LET moving == device = "moving"
        after == IF ~moving THEN None
                 ELSE IF next = None /\ (single \/ expected) THEN PollDelay ELSE next
        estimated == estimate + 1
    IN  /\ isMoving' = moving /\ timer' = 0
        /\ failures' = 0 /\ authFailures' = 0 /\ settle' = (moving /\ settle)
        /\ deadline' = IF moving \/ flag \/ estimate # None
                       THEN (IF moving THEN Opened ELSE Window) ELSE None
        /\ next' = IF estimate # None
                   THEN IF Interval > 0 THEN Least(estimated, Interval) ELSE estimated
                   ELSE IF flag /\ after = None THEN PollDelay ELSE after
        /\ single' = (estimate # None \/ (moving /\ single))
        /\ expected' = (flag \/ (moving /\ expected))

\* A device that stands still announces neither more updates nor a travel time.
Tells(estimates) ==
    \E flag \in (IF device = "moving" THEN BOOLEAN ELSE {FALSE}),
       estimate \in (IF device = "moving" THEN estimates ELSE {None}) :
        StatusUpdate(flag, estimate)

Answer ==
    /\ Answers /\ polls > 0 /\ polls' = polls - 1 /\ Tells(Estimates \cup {None})
    /\ UNCHANGED outside
Unsolicited == Answers /\ Event /\ Tells({None}) /\ UNCHANGED <<polls, device, stopSent>>

\* Mutant: every failed poll opens a new window.
PollFailedExtends(afterChallenge) ==
    /\ expected' = FALSE /\ deadline' = Window /\ single' = TRUE /\ next' = PollDelay
    /\ UNCHANGED <<failures, authFailures>>
\* Mutant: a retry is scheduled past the end of the window.
PollFailedGoesOn(afterChallenge) ==
    /\ failures' = (IF afterChallenge THEN failures ELSE Least(failures + 1, 3))
    /\ authFailures' = (IF afterChallenge THEN Least(authFailures + 1, 3) ELSE authFailures)
    /\ expected' = FALSE /\ deadline' = Opened /\ single' = TRUE
    /\ next' = PollDelay * (IF afterChallenge THEN Least(2 + 2 * authFailures', 8)
                            ELSE Least(1 + failures', 4))
\* onStatusPollFailed; three failures and more are the same to the backoff.
PollFailed(afterChallenge) ==
    /\ failures' = (IF afterChallenge THEN failures ELSE Least(failures + 1, 3))
    /\ authFailures' = (IF afterChallenge THEN Least(authFailures + 1, 3) ELSE authFailures)
    /\ expected' = FALSE /\ deadline' = Opened
    /\ LET factor == IF afterChallenge THEN Least(2 + 2 * authFailures', 8)
                     ELSE Least(1 + failures', 4)
           again == PollDelay * factor < Opened
       IN  /\ single' = again
           /\ next' = IF again THEN PollDelay * factor ELSE None

\* The exchange of a poll fails in the controller.
Failure(afterChallenge) ==
    /\ Fails \/ ~Answers
    /\ polls > 0 /\ polls' = polls - 1
    /\ PollFailed(afterChallenge)
    /\ UNCHANGED <<settle, timer, isMoving, outside>>

\* A frame that cannot be built, or that the driver refuses, reports the outcome of the
\* command and leaves the poll of the channel unmentioned.
FailureUntold ==
    /\ Fails \/ ~Answers
    /\ polls > 0 /\ polls' = polls - 1
    /\ UNCHANGED <<tracking, timer, isMoving, outside>>

DeviceStops ==
    /\ device = "moving" /\ device' = "still"
    /\ UNCHANGED <<tracking, timer, isMoving, polls, events, stopSent>>

-----------------------------------------------------------------------------
(* loop(): what a pass finds due; it is called again at once. *)

WindowOver == deadline = 0 /\ next = None /\ ~single

CloseWindow == WindowOver /\ Clear /\ UNCHANGED <<timer, isMoving, polls, outside>>

\* Mutant: the follow-up stays noted when the poll is sent.
TrackedPollKeepsSingle(queued) ==
    /\ next = 0
    /\ \/ /\ queued /\ polls < MaxPolls /\ polls' = polls + 1 /\ timer' = 0
          /\ next' = None /\ expected' = FALSE /\ settle' = FALSE
          /\ UNCHANGED <<single, deadline, failures, authFailures>>
       \/ /\ ~queued /\ (Fails \/ polls = MaxPolls) /\ PollFailed(FALSE)
          /\ UNCHANGED <<settle, polls, timer>>
    /\ UNCHANGED <<isMoving, outside>>
TrackedPoll(queued) ==
    /\ next = 0
    /\ \/ /\ queued /\ polls < MaxPolls /\ polls' = polls + 1 /\ timer' = 0
          /\ next' = None /\ single' = FALSE /\ expected' = FALSE /\ settle' = FALSE
          /\ UNCHANGED <<deadline, failures, authFailures>>
       \/ /\ ~queued /\ (Fails \/ polls = MaxPolls) /\ PollFailed(FALSE)
          /\ UNCHANGED <<settle, polls, timer>>
    /\ UNCHANGED <<isMoving, outside>>

PeriodicDue == Interval > 0 /\ ~Active /\ timer >= Interval

\* A poll that is refused waits for the next interval.
PeriodicPoll(queued) ==
    /\ PeriodicDue /\ timer' = 0
    /\ \/ queued /\ polls < MaxPolls /\ polls' = polls + 1
       \/ ~queued /\ (Fails \/ polls = MaxPolls) /\ UNCHANGED polls
    /\ UNCHANGED <<tracking, isMoving, outside>>

Loop == CloseWindow \/ \E queued \in BOOLEAN : TrackedPoll(queued) \/ PeriodicPoll(queued)

\* timeReached: a time stays reached.
Down(t) == IF t > 0 THEN t - 1 ELSE t

Tick ==
    /\ next # 0 /\ ~WindowOver /\ ~PeriodicDue
    /\ next' = Down(next) /\ deadline' = Down(deadline)
    /\ timer' = IF timer < Interval THEN timer + 1 ELSE timer
    /\ UNCHANGED <<single, expected, failures, authFailures, settle, isMoving, polls, outside>>

Next ==
    \/ Command \/ SendStop \/ RemoteActivity \/ Answer \/ Unsolicited \/ DeviceStops
    \/ \E result \in {"completed", "unconfirmed", "rejected"} : StopResult(result)
    \/ \E afterChallenge \in BOOLEAN : Failure(afterChallenge)
    \/ FailureUntold \/ Loop \/ Tick

Spec == Init /\ [][Next]_vars

-----------------------------------------------------------------------------
(* Properties *)

\* A poll is due within the window, or when the travel the device told of is over.
TypeOK ==
    /\ next \in Int /\ next >= None /\ (next <= Window \/ \E e \in Estimates : next <= e + 1)
    /\ deadline \in None .. Window /\ timer \in 0 .. Interval
    /\ {single, expected, settle, isMoving, stopSent} \subseteq BOOLEAN
    /\ failures \in 0 .. 3 /\ authFailures \in 0 .. 3 /\ polls \in 0 .. MaxPolls
    /\ device \in {"still", "moving"} /\ events \in 0 .. MaxEvents

\* A follow-up that is noted, and an update that is expected, has a time at which the
\* device is asked, and every such time has a window: otherwise tracking would never end and
\* periodic polls never resume.
FollowUpHasTime ==
    /\ single \/ expected => next # None
    /\ next # None => deadline # None

\* Only a command or a report opens a window anew: failed polls, however many and however
\* they alternate with challenges, do not, nor does any pass of loop() ("Do not keep
\* extending it after every failed poll", onStatusPollFailed).
KeepsWindow ==
    [][(\E afterChallenge \in BOOLEAN : Failure(afterChallenge)) \/ FailureUntold \/ Loop \/ Tick
       => deadline = None \/ deadline' <= deadline]_vars

\* Tracking a device that does not answer ends, and periodic polls resume
\* (onStatusPollFailed's comment).
TrackingEnds == Active ~> ~Active

\* The channel learns of the end of a travel.
MotionEndNoticed == device = "still" /\ isMoving ~> ~isMoving \/ device = "moving"
=============================================================================
