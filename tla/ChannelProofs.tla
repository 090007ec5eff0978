--------------------------- MODULE ChannelProofs ---------------------------
(***************************************************************************)
(* A channel, for any delays, windows and travel times, any scenes, any    *)
(* remotes and devices, tables of any size: whatever it tracks has a time  *)
(* and a window; a STOP that is refused lets the travel go on; scenes and  *)
(* restarts bring the device back; a remote polls what it is linked to.    *)
(***************************************************************************)
EXTENDS Channel, SequenceTheorems, WellFoundedInduction, TLAPS

-----------------------------------------------------------------------------
(* The polls *)

\* TypeOK, which bounds the next poll, and what the bound rests on.
PollInv == TypeOK /\ FollowUpHasTime

-----------------------------------------------------------------------------
(* What the operations leave behind *)

\* Numbers the proofs compare.
LEMMA PollConstants ==
    ASSUME PollAssumption
    PROVE  /\ PollDelay \in Nat /\ 0 < PollDelay /\ PollDelay <= Window
           /\ Window \in Nat /\ Interval \in Nat /\ MaxEvents \in Nat /\ MaxPolls \in Nat
           /\ \A e \in Estimates : e \in Nat /\ e > 0
           /\ None \in Int /\ None < 0
  BY DEF PollAssumption, None

\* The smaller of two numbers.
LEMMA LeastValue ==
    ASSUME NEW a \in Nat, NEW b \in Nat
    PROVE  Least(a, b) \in Nat /\ Least(a, b) <= a /\ Least(a, b) <= b
  BY DEF Least

\* A window that is opened, or already open.
LEMMA OpenedInWindow ==
    ASSUME PollAssumption, TypeOK
    PROVE  Opened \in 0 .. Window /\ (deadline # None => Opened = deadline)
  BY PollConstants DEF TypeOK, Opened, None

\* The variables of tracking after a step, and what is not to be lost of them.
Tracks ==
    /\ next' \in Int /\ next' >= None /\ (next' <= Window \/ \E e \in Estimates : next' <= e + 1)
    /\ deadline' \in None .. Window
    /\ single' \in BOOLEAN /\ expected' \in BOOLEAN /\ settle' \in BOOLEAN
    /\ failures' \in 0 .. 3 /\ authFailures' \in 0 .. 3
    /\ FollowUpHasTime'

\* clearStatusPollTracking leaves nothing to track.
LEMMA ClearTracks == ASSUME PollAssumption, Clear PROVE Tracks
  <1>1. next' = None /\ deadline' = None /\ failures' = 0 /\ authFailures' = 0
    BY DEF Clear
  <1>2. single' = FALSE /\ expected' = FALSE /\ settle' = FALSE
    BY DEF Clear
  <1>3. /\ next' \in Int /\ next' >= None /\ next' <= Window /\ deadline' \in None .. Window
        /\ failures' \in 0 .. 3 /\ authFailures' \in 0 .. 3
    BY <1>1, PollConstants DEF None
  <1> QED BY <1>1, <1>2, <1>3 DEF Tracks, FollowUpHasTime

\* A command opens a window with a follow-up in it.
LEMMA StartTracks == ASSUME PollAssumption, StartTracking PROVE Tracks
  <1>1. next' = PollDelay /\ deadline' = Window /\ failures' = 0 /\ authFailures' = 0
    BY DEF StartTracking
  <1>2. single' = TRUE /\ expected' = FALSE /\ settle' = FALSE
    BY DEF StartTracking
  <1>3. /\ next' \in Int /\ next' >= None /\ next' <= Window /\ deadline' \in None .. Window
        /\ next' # None /\ deadline' # None /\ failures' \in 0 .. 3 /\ authFailures' \in 0 .. 3
    BY <1>1, PollConstants DEF None
  <1> QED BY <1>2, <1>3 DEF Tracks, FollowUpHasTime

\* So does activity that is overheard, or the one that is open goes on.
LEMMA ScheduleTracks ==
    ASSUME PollAssumption, PollInv, Schedule, settle' \in BOOLEAN
    PROVE  Tracks
  <1>1. next' \in Int /\ next' >= 0 /\ next' <= Window
    BY PollConstants DEF Schedule, PollInv, TypeOK, Least, None
  <1>2. deadline' \in 0 .. Window
    BY OpenedInWindow DEF Schedule, PollInv
  <1>3. single' = TRUE /\ expected' = FALSE /\ failures' = 0 /\ authFailures' = 0
    BY DEF Schedule
  <1>4. /\ next' # None /\ deadline' # None /\ next' >= None /\ deadline' \in None .. Window
        /\ failures' \in 0 .. 3 /\ authFailures' \in 0 .. 3
    BY <1>1, <1>2, <1>3, PollConstants DEF None
  <1> QED BY <1>1, <1>3, <1>4 DEF Tracks, FollowUpHasTime

\* A poll that fails is tried again within the window or not at all.
LEMMA FailedTracks ==
    ASSUME PollAssumption, PollInv, NEW a \in BOOLEAN, PollFailed(a), settle' \in BOOLEAN
    PROVE  Tracks /\ (deadline # None => deadline' = deadline)
  <1>1. deadline' \in 0 .. Window /\ (deadline # None => deadline' = deadline)
    BY OpenedInWindow DEF PollFailed, PollInv
  <1>2. failures' \in 0 .. 3 /\ authFailures' \in 0 .. 3 /\ expected' = FALSE
    BY DEF PollFailed, PollInv, TypeOK, Least
  <1> DEFINE factor == IF a THEN Least(2 + 2 * authFailures', 8) ELSE Least(1 + failures', 4)
  <1>3. factor \in Nat
    <2>1. 2 + 2 * authFailures' \in Nat /\ 1 + failures' \in Nat /\ 8 \in Nat /\ 4 \in Nat
      <3>1. failures' \in 0 .. 3 /\ authFailures' \in 0 .. 3
        BY <1>2
      <3>2. \A n \in 0 .. 3 : 2 + 2 * n \in Nat /\ 1 + n \in Nat
        OBVIOUS
      <3> QED BY ONLY <3>1, <3>2
    <2>2. Least(2 + 2 * authFailures', 8) \in Nat /\ Least(1 + failures', 4) \in Nat
      BY <2>1, LeastValue
    <2> QED BY <2>2
  <1>4. PollDelay * factor \in Nat
    BY <1>3, PollConstants
  <1>5. /\ single' = (PollDelay * factor < deadline')
        /\ next' = IF PollDelay * factor < deadline' THEN PollDelay * factor ELSE None
    BY DEF PollFailed
  <1> HIDE DEF factor
  <1>6. next' \in Int /\ next' >= None /\ next' <= Window
    BY <1>1, <1>4, <1>5, PollConstants DEF None
  <1>7. single' \in BOOLEAN
    BY <1>5
  <1>8. single' => next' # None
    <2>1. single' => next' = PollDelay * factor
      BY <1>5
    <2>2. PollDelay * factor # None
      BY <1>4 DEF None
    <2> QED BY <2>1, <2>2
  <1>9. deadline' # None /\ deadline' \in None .. Window
    BY <1>1, PollConstants DEF None
  <1>10. single' \/ expected' => next' # None
    BY <1>2, <1>8
  <1> QED BY <1>1, <1>2, <1>6, <1>7, <1>9, <1>10 DEF Tracks, FollowUpHasTime

\* What the device reports keeps the next poll within the window or the travel it told of,
\* and a report of rest ends the tracking.
LEMMA StatusTracks ==
    ASSUME PollAssumption, PollInv,
           NEW flag \in BOOLEAN, NEW estimate \in Estimates \cup {None},
           device # "moving" => flag = FALSE /\ estimate = None,
           StatusUpdate(flag, estimate)
    PROVE  Tracks
  <1> DEFINE moving == device = "moving"
             after == IF ~moving THEN None
                      ELSE IF next = None /\ (single \/ expected) THEN PollDelay ELSE next
  <1>1. /\ next \in Int /\ next >= None /\ (next <= Window \/ \E e \in Estimates : next <= e + 1)
        /\ single \in BOOLEAN /\ expected \in BOOLEAN /\ settle \in BOOLEAN
        /\ (single \/ expected => next # None)
    BY DEF PollInv, TypeOK, FollowUpHasTime
  <1>2. failures' = 0 /\ authFailures' = 0 /\ settle' = (moving /\ settle)
    BY DEF StatusUpdate
  <1>3. /\ single' = (estimate # None \/ (moving /\ single))
        /\ expected' = (flag \/ (moving /\ expected))
    BY DEF StatusUpdate
  <1>4. next' = IF estimate # None
                THEN IF Interval > 0 THEN Least(estimate + 1, Interval) ELSE estimate + 1
                ELSE IF flag /\ after = None THEN PollDelay ELSE after
    BY DEF StatusUpdate
  <1>5. deadline' = IF moving \/ flag \/ estimate # None
                    THEN (IF moving THEN Opened ELSE Window) ELSE None
    BY DEF StatusUpdate
  <1>6. deadline' \in None .. Window /\ (moving => deadline' # None)
    BY <1>5, OpenedInWindow, PollConstants DEF PollInv, None
  <1>7. after \in Int /\ after >= None /\ (after <= Window \/ \E e \in Estimates : after <= e + 1)
    BY <1>1, PollConstants DEF None
  <1>8. /\ next' \in Int /\ next' >= None
        /\ (next' <= Window \/ \E e \in Estimates : next' <= e + 1)
    <2>1. CASE estimate # None
      <3>1. estimate \in Estimates /\ estimate \in Nat
        BY <2>1, PollConstants
      <3>2. next' = IF Interval > 0 THEN Least(estimate + 1, Interval) ELSE estimate + 1
        BY <1>4, <2>1
      <3>3. next' \in Nat /\ next' <= estimate + 1
        <4>1. estimate + 1 \in Nat /\ Interval \in Nat
          BY <3>1, PollConstants
        <4>2. Least(estimate + 1, Interval) \in Nat /\ Least(estimate + 1, Interval) <= estimate + 1
          BY <4>1, LeastValue
        <4>3. CASE Interval > 0
          BY <3>2, <4>2, <4>3
        <4>4. CASE ~ (Interval > 0)
          BY <3>2, <4>1, <4>4
        <4> QED BY <4>3, <4>4
      <3> QED BY <3>1, <3>3, PollConstants
    <2>2. CASE estimate = None
      <3>1. next' = PollDelay \/ next' = after
        BY <1>4, <2>2
      <3> QED BY <1>7, <3>1, PollConstants
    <2> QED BY <2>1, <2>2
  <1>9. single' \/ expected' => next' # None
    <2>1. CASE estimate # None
      <3>1. estimate \in Nat
        BY <2>1, PollConstants
      <3> QED BY <1>4, <2>1, <3>1, PollConstants DEF Least
    <2>2. CASE estimate = None
      <3>1. next' = IF flag /\ after = None THEN PollDelay ELSE after
        BY <1>4, <2>2
      <3>2. flag => next' # None
        BY <3>1, PollConstants
      <3>3. moving /\ (single \/ expected) => after # None
        BY <1>1
      <3>4. moving /\ (single \/ expected) => next' # None
        BY <3>1, <3>3, PollConstants
      <3> QED BY <1>3, <2>2, <3>2, <3>4
    <2> QED BY <2>1, <2>2
  <1>10. next' # None => deadline' # None
    <2>1. CASE moving
      BY <1>6, <2>1
    <2>2. CASE ~ moving
      BY <1>4, <2>2
    <2> QED BY <2>1, <2>2
  <1>11. single' \in BOOLEAN /\ expected' \in BOOLEAN /\ settle' \in BOOLEAN
    BY <1>2, <1>3
  <1> HIDE DEF moving, after
  <1> QED BY <1>2, <1>6, <1>8, <1>9, <1>10, <1>11 DEF Tracks, FollowUpHasTime

-----------------------------------------------------------------------------
(* The steps *)

OtherPollVariables ==
    /\ timer' \in 0 .. Interval /\ polls' \in 0 .. MaxPolls /\ events' \in 0 .. MaxEvents
    /\ device' \in {"still", "moving"} /\ isMoving' \in BOOLEAN /\ stopSent' \in BOOLEAN

\* Tracks and OtherPollVariables are the invariant after the step.
LEMMA PollInvTogether == ASSUME Tracks, OtherPollVariables PROVE PollInv'
  <1>1. {single', expected', settle', isMoving', stopSent'} \subseteq BOOLEAN
    BY DEF Tracks, OtherPollVariables
  <1> QED BY <1>1 DEF Tracks, OtherPollVariables, PollInv, TypeOK

\* Where nothing of the tracking changes, it stays what it was.
LEMMA TrackingStays == ASSUME PollInv, UNCHANGED tracking PROVE Tracks
  BY DEF PollInv, TypeOK, FollowUpHasTime, Tracks, tracking

\* Commands, what the device does and tells, failures, and every pass of loop() keep PollInv.
LEMMA PollStep == ASSUME PollAssumption, PollInv, [Next]_vars PROVE PollInv'
  <1> USE DEF outside
  <1>1. /\ timer \in 0 .. Interval /\ polls \in 0 .. MaxPolls /\ events \in 0 .. MaxEvents
        /\ 0 \in 0 .. Interval
        /\ device \in {"still", "moving"} /\ isMoving \in BOOLEAN /\ stopSent \in BOOLEAN
        /\ settle \in BOOLEAN
    BY PollConstants DEF PollInv, TypeOK
  <1>2. Event => events' \in 0 .. MaxEvents
    BY <1>1, PollConstants DEF Event
  <1>3. polls > 0 /\ polls' = polls - 1 => polls' \in 0 .. MaxPolls
    BY <1>1, PollConstants
  <1>4. polls < MaxPolls /\ polls' = polls + 1 => polls' \in 0 .. MaxPolls
    BY <1>1, PollConstants
  <1>5. CASE Command
    BY <1>1, <1>2, <1>5, StartTracks, PollInvTogether DEF Command, OtherPollVariables
  <1>6. CASE SendStop
    BY <1>1, <1>2, <1>6, StartTracks, PollInvTogether DEF SendStop, OtherPollVariables
  <1>7. CASE RemoteActivity
    BY <1>1, <1>2, <1>7, ScheduleTracks, PollInvTogether DEF RemoteActivity, OtherPollVariables
  <1>8. ASSUME NEW result, StopResult(result) PROVE PollInv'
    <2>1. OtherPollVariables
      BY <1>1, <1>8 DEF StopResult, OtherPollVariables
    <2>2. CASE UNCHANGED tracking
      BY <2>1, <2>2, TrackingStays, PollInvTogether
    <2>3. CASE settle' = TRUE /\ Schedule
      BY <2>1, <2>3, ScheduleTracks, PollInvTogether
    <2>4. CASE settle' = TRUE
               /\ UNCHANGED <<next, deadline, single, expected, failures, authFailures>>
      <3>1. Tracks
        BY <2>4 DEF PollInv, TypeOK, FollowUpHasTime, Tracks
      <3> QED BY <2>1, <3>1, PollInvTogether
    <2> QED BY <1>8, <2>2, <2>3, <2>4 DEF StopResult
  <1>9. ASSUME NEW E \in SUBSET Estimates, Tells(E \cup {None}) PROVE Tracks
    <2>1. PICK flag \in (IF device = "moving" THEN BOOLEAN ELSE {FALSE}),
               estimate \in (IF device = "moving" THEN E \cup {None} ELSE {None}) :
                   StatusUpdate(flag, estimate)
      BY <1>9 DEF Tells
    <2>2. /\ flag \in BOOLEAN /\ estimate \in Estimates \cup {None}
          /\ device # "moving" => flag = FALSE /\ estimate = None
      OBVIOUS
    <2> QED BY <2>1, <2>2, StatusTracks
  <1>10. ASSUME NEW S, Tells(S) PROVE timer' = 0 /\ isMoving' \in BOOLEAN
    BY <1>10 DEF Tells, StatusUpdate
  <1>11. CASE Answer
    <2>1. Tells(Estimates \cup {None})
      BY <1>11 DEF Answer
    <2>2. Tracks
      BY <1>9, <2>1
    <2>3. OtherPollVariables
      BY <1>1, <1>3, <1>10, <1>11, <2>1 DEF Answer, OtherPollVariables
    <2> QED BY <2>2, <2>3, PollInvTogether
  <1>12. CASE Unsolicited
    <2>1. Tells({None}) /\ {} \in SUBSET Estimates /\ {} \cup {None} = {None}
      BY <1>12 DEF Unsolicited
    <2>2. Tracks
      <3>1. Tells({} \cup {None})
        BY <2>1
      <3> QED BY <1>9, <2>1, <3>1
    <2>3. OtherPollVariables
      BY <1>1, <1>2, <1>10, <1>12, <2>1 DEF Unsolicited, OtherPollVariables
    <2> QED BY <2>2, <2>3, PollInvTogether
  <1>13. CASE DeviceStops
    BY <1>1, <1>13, TrackingStays, PollInvTogether DEF DeviceStops, OtherPollVariables
  <1>14. ASSUME NEW a \in BOOLEAN, Failure(a) PROVE PollInv'
    <2>1. OtherPollVariables
      BY <1>1, <1>3, <1>14 DEF Failure, OtherPollVariables
    <2> QED BY <1>1, <1>14, <2>1, FailedTracks, PollInvTogether DEF Failure
  <1>15. CASE FailureUntold
    BY <1>1, <1>3, <1>15, TrackingStays, PollInvTogether DEF FailureUntold, OtherPollVariables
  <1>16. CASE CloseWindow
    BY <1>1, <1>16, ClearTracks, PollInvTogether DEF CloseWindow, OtherPollVariables
  <1>17. ASSUME NEW queued \in BOOLEAN, TrackedPoll(queued) PROVE PollInv'
    <2>1. CASE polls < MaxPolls /\ polls' = polls + 1 /\ timer' = 0
               /\ next' = None /\ single' = FALSE /\ expected' = FALSE /\ settle' = FALSE
               /\ UNCHANGED <<deadline, failures, authFailures>>
      <3>1. next' = None /\ next' \in Int /\ next' >= None /\ next' <= Window
        BY <2>1, PollConstants DEF None
      <3>2. /\ deadline' \in None .. Window /\ failures' \in 0 .. 3 /\ authFailures' \in 0 .. 3
            /\ single' = FALSE /\ expected' = FALSE /\ settle' = FALSE
        BY <2>1 DEF PollInv, TypeOK
      <3>3. Tracks
        BY <3>1, <3>2 DEF FollowUpHasTime, Tracks
      <3>4. OtherPollVariables
        BY <1>1, <1>4, <1>17, <2>1 DEF TrackedPoll, OtherPollVariables
      <3> QED BY <3>3, <3>4, PollInvTogether
    <2>2. CASE PollFailed(FALSE) /\ UNCHANGED <<settle, polls, timer>>
      <3>1. Tracks
        BY <1>1, <2>2, FailedTracks
      <3>2. OtherPollVariables
        BY <1>1, <1>17, <2>2 DEF TrackedPoll, OtherPollVariables
      <3> QED BY <3>1, <3>2, PollInvTogether
    <2> QED BY <1>17, <2>1, <2>2 DEF TrackedPoll
  <1>18. ASSUME NEW queued \in BOOLEAN, PeriodicPoll(queued) PROVE PollInv'
    BY <1>1, <1>4, <1>18, TrackingStays, PollInvTogether DEF PeriodicPoll, OtherPollVariables
  <1>19. CASE Tick
    <2>1. /\ next # 0 /\ next' = Down(next) /\ deadline' = Down(deadline)
          /\ UNCHANGED <<single, expected, failures, authFailures, settle>>
      BY <1>19 DEF Tick
    <2>2. /\ next \in Int /\ next >= None
          /\ (next <= Window \/ \E e \in Estimates : next <= e + 1)
          /\ deadline \in None .. Window
          /\ (single \/ expected => next # None) /\ (next # None => deadline # None)
      BY DEF PollInv, TypeOK, FollowUpHasTime
    <2>3. /\ next' \in Int /\ next' >= None /\ next' <= next /\ (next' = None <=> next = None)
          /\ deadline' \in None .. Window /\ (deadline' = None <=> deadline = None)
      BY <2>1, <2>2, PollConstants DEF Down, None
    <2>4. next' <= Window \/ \E e \in Estimates : next' <= e + 1
      BY <2>2, <2>3, PollConstants
    <2>5. FollowUpHasTime'
      BY <2>1, <2>2, <2>3 DEF FollowUpHasTime
    <2>6. single' \in BOOLEAN /\ expected' \in BOOLEAN /\ settle' \in BOOLEAN
      BY <2>1 DEF PollInv, TypeOK
    <2>7. failures' \in 0 .. 3 /\ authFailures' \in 0 .. 3
      BY <2>1 DEF PollInv, TypeOK
    <2>8. Tracks
      BY <2>3, <2>4, <2>5, <2>6, <2>7 DEF Tracks
    <2>9. timer' \in 0 .. Interval
      BY <1>1, <1>19, PollConstants DEF Tick
    <2>10. OtherPollVariables
      BY <1>1, <1>19, <2>9 DEF Tick, OtherPollVariables
    <2> QED BY <2>8, <2>10, PollInvTogether
  <1>20. CASE UNCHANGED vars
    BY <1>1, <1>20, TrackingStays, PollInvTogether DEF vars, OtherPollVariables
  <1> QED BY <1>5, <1>6, <1>7, <1>8, <1>11, <1>12, <1>13, <1>14, <1>15, <1>16, <1>17, <1>18,
             <1>19, <1>20 DEF Next, Loop

-----------------------------------------------------------------------------
(* What a channel can rely on *)

\* In every state the tracking has its types, a time and a window.
THEOREM Tracked == ASSUME PollAssumption PROVE Spec => []PollInv
  <1>1. Init => PollInv
    <2> SUFFICES ASSUME Init PROVE PollInv
      OBVIOUS
    <2>1. next = None /\ deadline = None /\ single = FALSE /\ expected = FALSE
      BY DEF Init
    <2>2. FollowUpHasTime
      BY <2>1 DEF FollowUpHasTime
    <2>3. /\ next \in Int /\ next >= None /\ next <= Window
          /\ deadline \in None .. Window /\ 0 \in 0 .. 3
          /\ timer \in 0 .. Interval /\ polls \in 0 .. MaxPolls /\ events \in 0 .. MaxEvents
      BY PollConstants DEF Init, None
    <2>4. failures = 0 /\ authFailures = 0 /\ device \in {"still", "moving"}
      BY DEF Init
    <2>5. {single, expected, settle, isMoving, stopSent} \subseteq BOOLEAN
      BY DEF Init
    <2>6. TypeOK
      BY <2>3, <2>4, <2>5 DEF TypeOK
    <2> QED BY <2>2, <2>6 DEF PollInv
  <1>2. PollInv /\ [Next]_vars => PollInv'
    BY PollStep
  <1> QED BY <1>1, <1>2, PTL DEF Spec

\* The next poll is due within the window, or when the travel the device told of is over.
THEOREM Types == ASSUME PollAssumption PROVE Spec => []TypeOK
  BY Tracked, PTL DEF PollInv

\* No follow-up and no expected update is forgotten: each has a time, and each time a window.
THEOREM HasTime == ASSUME PollAssumption PROVE Spec => []FollowUpHasTime
  BY Tracked, PTL DEF PollInv

\* Failed polls and passes of loop() leave an open window its end (onStatusPollFailed).
THEOREM WindowKept == ASSUME PollAssumption PROVE Spec => KeepsWindow
  <1>1. ASSUME PollInv, \/ \E afterChallenge \in BOOLEAN : Failure(afterChallenge)
                    \/ FailureUntold \/ Loop \/ Tick,
               deadline # None
        PROVE  deadline' <= deadline
    <2>1. deadline \in Int /\ deadline <= deadline /\ None <= deadline
      <3>1. deadline \in None .. Window
        BY <1>1 DEF PollInv, TypeOK
      <3> QED BY ONLY <3>1, PollConstants, PollAssumption
    <2>2. ASSUME NEW a \in BOOLEAN, PollFailed(a) PROVE deadline' = deadline
      BY <1>1, <2>2 DEF PollFailed, Opened
    <2>3. CASE \E afterChallenge \in BOOLEAN : Failure(afterChallenge)
      BY <2>1, <2>2, <2>3 DEF Failure
    <2>4. CASE FailureUntold
      BY <2>1, <2>4 DEF FailureUntold, tracking
    <2>5. CASE CloseWindow
      BY <2>1, <2>5 DEF CloseWindow, Clear
    <2>6. ASSUME NEW queued \in BOOLEAN, TrackedPoll(queued) PROVE deadline' = deadline
      BY <2>2, <2>6 DEF TrackedPoll
    <2>7. ASSUME NEW queued \in BOOLEAN, PeriodicPoll(queued) PROVE deadline' = deadline
      BY <2>7 DEF PeriodicPoll, tracking
    <2>8. CASE Tick
      BY <2>1, <2>8 DEF Tick, Down
    <2> QED BY <1>1, <2>1, <2>3, <2>4, <2>5, <2>6, <2>7, <2>8 DEF Loop
  <1>2. PollInv /\ [Next]_vars =>
            [(\E afterChallenge \in BOOLEAN : Failure(afterChallenge)) \/ FailureUntold
                 \/ Loop \/ Tick => deadline = None \/ deadline' <= deadline]_vars
    BY <1>1
  <1> QED BY <1>2, Tracked, PTL DEF Spec, KeepsWindow

-----------------------------------------------------------------------------
(* The travel *)

Commands == Travel!Position \cup {Travel!Stop}

Travels ==
    {s \in [moving : BOOLEAN, target : Travel!Position, start : Travel!Position, total : Nat,
            elapsed : Nat] : s.elapsed <= s.total}

TravelTypes ==
    /\ {current, target, start, at, dest, ko} \subseteq Travel!Position
    /\ total \in Nat /\ elapsed \in 0 .. total /\ travelling \in BOOLEAN
    /\ snapshot = <<>> \/ \E s \in Travels : snapshot = <<s>>
    /\ goal \in Travel!Position \cup {Travel!NoGoal} /\ behind \in BOOLEAN
    /\ commands \in Seq(Commands) /\ stops \in Nat

\* The travel that a STOP broke off, the only one on its way, is in the snapshot.
StopInv == goal # Travel!NoGoal => snapshot # <<>> /\ snapshot[1].target = goal

\* Along a way of a positions, part of the time is part of the way.
LEMMA PartOfTheWay ==
    ASSUME NEW a \in Nat, NEW e \in Nat, NEW d \in Nat, e < d
    PROVE  (a * e) \div d \in 0 .. a
  <1> DEFINE q == (a * e) \div d
  <1>1. a * e \in Nat /\ a * e <= a * d
    OBVIOUS
  <1>2. q \in Int /\ d * q <= a * e /\ a * e < d * (q + 1)
    BY <1>1
  <1> HIDE DEF q
  <1>3. q >= 0
    <2> SUFFICES ASSUME q + 1 <= 0 PROVE FALSE
      BY <1>2
    <2>1. d * (q + 1) <= 0
      BY <1>2
    <2> QED BY <1>1, <1>2, <2>1
  <1>4. q <= a
    <2> SUFFICES ASSUME a + 1 <= q PROVE FALSE
      BY <1>2
    <2>1. d * (a + 1) <= d * q
      BY <1>2
    <2>2. d * (a + 1) = a * d + d
      OBVIOUS
    <2> QED BY <1>1, <1>2, <2>1, <2>2
  <1> QED BY <1>2, <1>3, <1>4 DEF q

\* An estimate stays between where it starts and where it goes.
LEMMA BetweenThem ==
    ASSUME Travel!TravelAssumption, NEW p \in Travel!Position, NEW to \in Travel!Position,
           NEW e \in Nat, NEW d \in Nat
    PROVE  Travel!Between(p, to, e, d) \in Travel!Position
  <1>1. Full \in Nat /\ p \in 0 .. Full /\ to \in 0 .. Full
    BY DEF Travel!TravelAssumption, Travel!Position
  <1>2. CASE e >= d
    BY <1>2 DEF Travel!Between
  <1>3. CASE e < d /\ to >= p
    <2> DEFINE q == ((to - p) * e) \div d
    <2>1. to - p \in Nat
      BY <1>1, <1>3
    <2>2. q \in 0 .. to - p
      BY <1>3, <2>1, PartOfTheWay
    <2>3. Travel!Between(p, to, e, d) = p + q
      BY <1>3 DEF Travel!Between
    <2> HIDE DEF q
    <2> QED BY <1>1, <1>3, <2>2, <2>3 DEF Travel!Position
  <1>4. CASE e < d /\ ~(to >= p)
    <2> DEFINE q == ((p - to) * e) \div d
    <2>1. p - to \in Nat
      BY <1>1, <1>4
    <2>2. q \in 0 .. p - to
      BY <1>4, <2>1, PartOfTheWay
    <2>3. Travel!Between(p, to, e, d) = p - q
      BY <1>4 DEF Travel!Between
    <2> HIDE DEF q
    <2> QED BY <1>1, <1>4, <2>2, <2>3 DEF Travel!Position
  <1> QED BY <1>2, <1>3, <1>4

\* Numbers and operators of the travel.
LEMMA TravelFacts ==
    ASSUME Travel!TravelAssumption, TravelTypes
    PROVE  /\ Full \in Nat /\ Pace \in Nat /\ Pace > 0 /\ Travel!Position = 0 .. Full
           /\ Travel!Stop = -2 /\ Travel!NoGoal = -1
           /\ \A p \in Travel!Position : Travel!Reported(p) \in Travel!Position
           /\ \A p, q \in Travel!Position : Travel!Distance(p, q) * Pace \in Nat
           /\ Travel!Interpolated \in Travel!Position
           /\ Travel!Estimate \in Travel!Position
           /\ \A e \in Nat, t \in Nat : e <= t => Travel!Further(e, t) \in 0 .. t
           /\ TravelTimes \subseteq Nat
  <1>1. /\ Full \in Nat /\ Pace \in Nat /\ Pace > 0 /\ Travel!Position = 0 .. Full
        /\ Travel!Stop = -2 /\ Travel!NoGoal = -1 /\ TravelTimes \subseteq Nat
    BY DEF Travel!TravelAssumption, Travel!Position, Travel!Stop, Travel!NoGoal
  <1>2. \A p \in Travel!Position : Travel!Reported(p) \in Travel!Position
    BY <1>1 DEF Travel!Reported
  <1>3. ASSUME NEW p \in Travel!Position, NEW q \in Travel!Position
        PROVE  Travel!Distance(p, q) * Pace \in Nat
    <2>1. Travel!Distance(p, q) \in Nat
      BY <1>1 DEF Travel!Distance
    <2> QED BY <1>1, <2>1
  <1>4. Travel!Interpolated \in Travel!Position
    <2>1. /\ start \in Travel!Position /\ target \in Travel!Position
          /\ total \in Nat /\ elapsed \in Nat
      BY DEF TravelTypes
    <2> QED BY <2>1, BetweenThem DEF Travel!Interpolated
  <1>5. Travel!Estimate \in Travel!Position
    BY <1>4 DEF Travel!Estimate, TravelTypes
  <1>6. \A e \in Nat, t \in Nat : e <= t => Travel!Further(e, t) \in 0 .. t
    BY DEF Travel!Further
  <1> QED BY <1>1, <1>2, <1>3, <1>4, <1>5, <1>6

\* The types say what TypeOK says.
LEMMA TravelTypesSay == ASSUME Travel!TravelAssumption, TravelTypes PROVE Travel!TypeOK
  <1>1. snapshot = <<>> \/ snapshot[1].elapsed <= snapshot[1].total
    BY DEF TravelTypes, Travels
  <1> QED BY <1>1 DEF TravelTypes, Travel!TypeOK

\* The travel has its types.
LEMMA TravelStarts == ASSUME Travel!TravelAssumption, Travel!Init PROVE TravelTypes /\ StopInv
  <1>1. Full \in Nat /\ 0 \in Travel!Position /\ Full \in Travel!Position
    BY DEF Travel!TravelAssumption, Travel!Position
  <1>2. <<>> \in Seq(Commands) /\ Len(<<>>) = 0
    OBVIOUS
  <1>3. TravelTypes
    <2>1. /\ current = 0 /\ target = 0 /\ start = 0 /\ at = 0 /\ dest = 0
          /\ ko \in Travel!Position
      BY <1>1 DEF Travel!Init
    <2>2. /\ total = 0 /\ elapsed = 0 /\ travelling = FALSE /\ snapshot = <<>>
          /\ goal = Travel!NoGoal /\ commands = <<>> /\ stops = 0 /\ behind = FALSE
      BY DEF Travel!Init
    <2>3. {current, target, start, at, dest, ko} \subseteq Travel!Position
      BY <1>1, <2>1, <2>2
    <2>4. /\ total \in Nat /\ elapsed \in 0 .. total /\ stops \in Nat
          /\ goal \in Travel!Position \cup {Travel!NoGoal}
      BY <2>2
    <2>6. travelling \in BOOLEAN /\ behind \in BOOLEAN
      BY <2>2
    <2>5. commands \in Seq(Commands)
      BY <1>2, <2>2
    <2> QED BY <2>2, <2>3, <2>4, <2>5, <2>6 DEF TravelTypes
  <1>4. StopInv
    BY DEF Travel!Init, StopInv
  <1> QED BY <1>3, <1>4

\* Sending appends a command.
LEMMA CommandSent ==
    ASSUME TravelTypes, NEW c \in Commands, commands' = Append(commands, c)
    PROVE  commands' \in Seq(Commands)
  BY DEF TravelTypes

\* An outcome takes the first command.
LEMMA CommandDone ==
    ASSUME TravelTypes, commands # <<>>, commands' = Tail(commands)
    PROVE  Head(commands) \in Commands /\ commands' \in Seq(Commands)
  BY HeadTailProperties DEF TravelTypes

\* loop() moves the estimate on.
LEMMA LoopTravels ==
    ASSUME Travel!TravelAssumption, TravelTypes, Travel!Loop
    PROVE  TravelTypes'
  <1>1. /\ current' = Travel!Interpolated /\ ko' \in Travel!Position
        /\ UNCHANGED <<target, travelling, snapshot, commands, at, dest, stops, goal>>
    <2>1. ko \in Travel!Position /\ Travel!Reported(Travel!Interpolated) \in Travel!Position
      BY TravelFacts DEF TravelTypes
    <2> QED BY <2>1 DEF Travel!Loop, Travel!UpdateEstimate, Travel!device, Travel!count
  <1>2. /\ start' \in Travel!Position /\ total' \in Nat /\ elapsed' \in 0 .. total'
    <2>1. \/ total' = 0 /\ elapsed' = 0 /\ start' = Travel!Interpolated
          \/ UNCHANGED <<total, elapsed, start>>
      BY DEF Travel!Loop, Travel!UpdateEstimate
    <2>2. Travel!Interpolated \in Travel!Position
      BY TravelFacts
    <2> QED BY <2>1, <2>2 DEF TravelTypes
  <1>3. Travel!Interpolated \in Travel!Position
    BY TravelFacts
  <1>4. behind' \in BOOLEAN
    BY Zenon DEF Travel!Loop, Travel!UpdateEstimate
  <1> QED BY <1>1, <1>2, <1>3, <1>4 DEF TravelTypes

\* A command to move starts an estimate.
LEMMA MoveTravels ==
    ASSUME Travel!TravelAssumption, TravelTypes, NEW t \in Travel!Position, Travel!Move(t)
    PROVE  TravelTypes'
  <1>1. /\ commands' = Append(commands, t) /\ snapshot' = <<>> /\ goal' = Travel!NoGoal
        /\ current' = Travel!Estimate /\ start' = Travel!Estimate /\ target' = t
        /\ total' = Travel!Distance(Travel!Estimate, t) * Pace /\ elapsed' = 0
        /\ UNCHANGED <<travelling, ko, at, dest, stops, behind>>
    BY DEF Travel!Move, Travel!StartTravel, Travel!device
  <1>2. Travel!Estimate \in Travel!Position /\ total' \in Nat
    BY <1>1, TravelFacts
  <1>3. commands' \in Seq(Commands)
    BY <1>1, CommandSent DEF Commands
  <1>4. {current', target', start', at', dest', ko'} \subseteq Travel!Position
    BY <1>1, <1>2 DEF TravelTypes
  <1>5. elapsed' \in 0 .. total'
    BY <1>1, <1>2
  <1>6. /\ travelling' \in BOOLEAN /\ stops' \in Nat /\ behind' \in BOOLEAN
        /\ goal' \in Travel!Position \cup {Travel!NoGoal}
    BY <1>1 DEF TravelTypes
  <1> QED BY <1>1, <1>2, <1>3, <1>4, <1>5, <1>6 DEF TravelTypes

\* STOP ends the estimate and keeps the travel in the snapshot.
LEMMA StopTravels ==
    ASSUME Travel!TravelAssumption, TravelTypes, Travel!SendStop
    PROVE  TravelTypes'
  <1>1. /\ commands' = Append(commands, Travel!Stop) /\ stops' = stops + 1
        /\ snapshot' = (IF total # 0 \/ travelling THEN <<Travel!Snapshot>> ELSE <<>>)
        /\ current' = Travel!Estimate /\ ko' = Travel!Reported(Travel!Estimate)
        /\ total' = 0 /\ elapsed' = 0 /\ start' = current' /\ target' = current'
        /\ goal' \in {target, Travel!NoGoal} /\ behind' = FALSE
        /\ UNCHANGED <<travelling, at, dest>>
    BY DEF Travel!SendStop, Travel!Publish, Travel!StopTravel, Travel!device
  <1>2. Travel!Snapshot \in Travels
    BY DEF TravelTypes, Travel!Snapshot, Travels
  <1>3. Travel!Estimate \in Travel!Position /\ Travel!Reported(Travel!Estimate) \in Travel!Position
    BY TravelFacts
  <1>4. commands' \in Seq(Commands)
    BY <1>1, CommandSent DEF Commands
  <1>5. {current', target', start', at', dest', ko'} \subseteq Travel!Position
    BY <1>1, <1>3 DEF TravelTypes
  <1>6. /\ total' \in Nat /\ elapsed' \in 0 .. total' /\ travelling' \in BOOLEAN /\ stops' \in Nat
        /\ goal' \in Travel!Position \cup {Travel!NoGoal} /\ behind' \in BOOLEAN
    <2>1. total' = 0 /\ elapsed' = 0 /\ behind' = FALSE
      BY <1>1
    <2>2. total' \in Nat /\ elapsed' \in 0 .. total'
      BY <2>1
    <2>3. behind' \in BOOLEAN
      BY Zenon, <2>1
    <2>4. travelling' \in BOOLEAN /\ stops' \in Nat
      BY <1>1 DEF TravelTypes
    <2>5. target \in Travel!Position
      BY DEF TravelTypes
    <2> QED BY <1>1, <2>2, <2>3, <2>4, <2>5
  <1>7. snapshot' = <<>> \/ \E s \in Travels : snapshot' = <<s>>
    BY <1>1, <1>2
  <1> QED BY <1>4, <1>5, <1>6, <1>7 DEF TravelTypes

\* An outcome lets the device go or not, and a refused STOP brings the snapshot back.
LEMMA OutcomeTravels ==
    ASSUME Travel!TravelAssumption, TravelTypes, NEW result \in Travel!Results,
           Travel!Outcome(result)
    PROVE  TravelTypes'
  <1>1. commands # <<>> /\ commands' = Tail(commands) /\ UNCHANGED <<current, ko, at, stops, behind>>
    BY DEF Travel!Outcome, Travel!count
  <1>2. commands' \in Seq(Commands) /\ Head(commands) \in Commands
    BY <1>1, CommandDone
  <1>3. dest' \in Travel!Position
    <2>1. Travel!Obeys(Head(commands)) => dest' \in Travel!Position
      BY <1>2 DEF Travel!Obeys, Commands, TravelTypes
    <2>2. UNCHANGED dest => dest' \in Travel!Position
      BY DEF TravelTypes
    <2> QED BY <2>1, <2>2 DEF Travel!Outcome
  <1>4. goal' \in Travel!Position \cup {Travel!NoGoal}
    BY DEF Travel!Outcome, TravelTypes
  <1>5. /\ {target', start'} \subseteq Travel!Position /\ total' \in Nat
        /\ elapsed' \in 0 .. total' /\ travelling' \in BOOLEAN
        /\ snapshot' = <<>> \/ \E s \in Travels : snapshot' = <<s>>
    <2>1. CASE UNCHANGED <<target, start, total, elapsed, travelling>>
               /\ (snapshot' = <<>> \/ UNCHANGED snapshot)
      BY <2>1 DEF TravelTypes
    <2>2. CASE Travel!Restore
      <3>1. PICK s \in Travels : snapshot = <<s>>
        BY <2>2 DEF Travel!Restore, TravelTypes
      <3>2. /\ snapshot' = <<>> /\ travelling' = s.moving /\ target' = s.target
            /\ start' = s.start /\ total' = s.total /\ elapsed' = s.elapsed
        BY <2>2, <3>1 DEF Travel!Restore
      <3> QED BY <3>2 DEF Travels
    <2> QED BY <2>1, <2>2 DEF Travel!Outcome, Travel!travel
  <1>6. behind' \in BOOLEAN /\ stops' \in Nat
    BY <1>1 DEF TravelTypes
  <1>7. {current', target', start', at', dest', ko'} \subseteq Travel!Position
    BY <1>1, <1>3, <1>5 DEF TravelTypes
  <1> QED BY <1>2, <1>4, <1>5, <1>6, <1>7 DEF TravelTypes

\* A report is a position, with a travel or without.
LEMMA StatusTravels ==
    ASSUME Travel!TravelAssumption, TravelTypes, Travel!Status
    PROVE  TravelTypes'
  <1>1. UNCHANGED <<commands, at, dest, stops>>
    BY DEF Travel!Status, Travel!device, Travel!count
  <1>2. at \in Travel!Position /\ dest \in Travel!Position
    BY DEF TravelTypes
  <1>3. CASE Travel!AtRest
    <2>1. Travel!Between(start, at, elapsed, total) \in Travel!Position
      BY <1>2, BetweenThem DEF TravelTypes
    <2>2. current' \in Travel!Position
      BY <1>2, <1>3, <2>1 DEF Travel!AtRest
    <2>3. /\ total' = 0 /\ elapsed' = 0 /\ start' = current' /\ target' = current'
          /\ snapshot' = <<>> /\ travelling' = FALSE /\ goal' = Travel!NoGoal
          /\ ko' \in Travel!Position /\ behind' = FALSE
      BY <1>2, <1>3, TravelFacts DEF Travel!AtRest, Travel!StopTravel
    <2>4. {current', target', start', at', dest', ko'} \subseteq Travel!Position
      BY <1>1, <1>2, <2>2, <2>3
    <2>5. total' \in Nat /\ elapsed' \in 0 .. total'
      BY <2>3
    <2>6. commands' \in Seq(Commands) /\ stops' \in Nat
      BY <1>1 DEF TravelTypes
    <2> QED BY <2>3, <2>4, <2>5, <2>6 DEF TravelTypes
  <1>4. ASSUME NEW told, told \subseteq Nat, Travel!InMotion(told)
        PROVE  TravelTypes'
    <2> DEFINE T == IF snapshot # <<>> THEN snapshot[1]
                    ELSE [target  |-> dest,
                          start   |-> IF total = 0 THEN at ELSE start,
                          total   |-> IF total = 0 THEN Travel!Distance(at, dest) * Pace ELSE total,
                          elapsed |-> IF total = 0 THEN 0 ELSE elapsed]
    <2>1. /\ T.target \in Travel!Position /\ T.start \in Travel!Position
          /\ T.total \in Nat /\ T.elapsed \in 0 .. T.total
      <3>1. CASE snapshot # <<>>
        <4>1. PICK s \in Travels : snapshot = <<s>>
          BY <3>1 DEF TravelTypes
        <4>2. T = s
          BY <4>1
        <4> HIDE DEF T
        <4> QED BY <4>2 DEF Travels
      <3>2. CASE snapshot = <<>>
        <4>1. Travel!Distance(at, dest) * Pace \in Nat
          BY <1>2, TravelFacts
        <4>2. total \in Nat /\ elapsed \in 0 .. total /\ start \in Travel!Position
          BY DEF TravelTypes
        <4>3. /\ T.target = dest /\ T.start = (IF total = 0 THEN at ELSE start)
              /\ T.total = (IF total = 0 THEN Travel!Distance(at, dest) * Pace ELSE total)
              /\ T.elapsed = (IF total = 0 THEN 0 ELSE elapsed)
          BY <3>2
        <4> HIDE DEF T
        <4> QED BY <1>2, <4>1, <4>2, <4>3
      <3> QED BY <3>1, <3>2
    <2>2. /\ travelling' = TRUE /\ ko' = Travel!Reported(at) /\ target' = T.target
          /\ snapshot' = <<>> /\ goal' = Travel!NoGoal /\ behind' \in BOOLEAN
          /\ IF told = {}
             THEN current' = at /\ start' = T.start /\ total' = T.total /\ elapsed' = T.elapsed
             ELSE /\ current' = (IF T.total = 0 THEN at
                                 ELSE Travel!Between(T.start, T.target, T.elapsed, T.total))
                  /\ start' = current' /\ total' \in told /\ elapsed' = 0
      BY <1>4 DEF Travel!InMotion
    <2> HIDE DEF T
    <2>3. Travel!Between(T.start, T.target, T.elapsed, T.total) \in Travel!Position
      <3>1. T.total \in Nat /\ T.elapsed \in Nat
        BY <2>1
      <3> QED BY <2>1, <3>1, BetweenThem
    <2>4. /\ current' \in Travel!Position /\ start' \in Travel!Position
          /\ total' \in Nat /\ elapsed' \in 0 .. total'
      <3>1. CASE told = {}
        BY <1>2, <2>1, <2>2, <3>1
      <3>2. CASE told # {}
        <4>1. current' = at \/ current' = Travel!Between(T.start, T.target, T.elapsed, T.total)
          BY <2>2, <3>2
        <4>2. current' \in Travel!Position
          BY <1>2, <2>3, <4>1
        <4>3. start' = current' /\ total' \in Nat /\ elapsed' = 0
          BY <1>4, <2>2, <3>2
        <4>4. elapsed' \in 0 .. total'
          BY <4>3
        <4> QED BY <4>2, <4>3, <4>4
      <3> QED BY <3>1, <3>2
    <2>5. ko' \in Travel!Position
      BY <1>2, <2>2, TravelFacts
    <2>6. {current', target', start', at', dest', ko'} \subseteq Travel!Position
      <3>1. target' \in Travel!Position
        BY <2>1, <2>2
      <3>2. at' \in Travel!Position /\ dest' \in Travel!Position
        BY <1>1, <1>2
      <3> QED BY <2>4, <2>5, <3>1, <3>2
    <2>7. commands' \in Seq(Commands) /\ stops' \in Nat
      BY <1>1 DEF TravelTypes
    <2> QED BY <2>2, <2>4, <2>6, <2>7 DEF TravelTypes
  <1>5. \A s \in TravelTimes : {s} \subseteq Nat
    BY TravelFacts
  <1> QED BY <1>3, <1>4, <1>5 DEF Travel!Status

\* The device takes a step.
LEMMA DeviceTravels ==
    ASSUME Travel!TravelAssumption, TravelTypes, Travel!DeviceMoves
    PROVE  TravelTypes'
  <1>1. /\ at' = (IF at < dest THEN at + 1 ELSE at - 1) /\ at # dest
        /\ UNCHANGED <<current, target, start, total, elapsed, travelling, snapshot, ko, commands,
                       dest, stops, goal, behind>>
    BY DEF Travel!DeviceMoves, Travel!travel, Travel!count
  <1>2. at' \in Travel!Position
    <2>1. at \in 0 .. Full /\ dest \in 0 .. Full /\ Full \in Nat /\ Travel!Position = 0 .. Full
      BY TravelFacts DEF TravelTypes
    <2> QED BY <1>1, <2>1
  <1> QED BY <1>1, <1>2 DEF TravelTypes

\* Time passes for the travel and for the one in the snapshot.
LEMMA TickTravels ==
    ASSUME Travel!TravelAssumption, TravelTypes, Travel!Tick
    PROVE  TravelTypes' /\ (snapshot' = <<>> <=> snapshot = <<>>)
           /\ (snapshot # <<>> => snapshot'[1].target = snapshot[1].target)
  <1>1. UNCHANGED <<current, target, start, total, travelling, ko, commands, at, dest, stops, goal,
                  behind>>
    BY DEF Travel!Tick, Travel!device, Travel!count
  <1>2. elapsed' \in 0 .. total'
    BY <1>1, TravelFacts DEF Travel!Tick, TravelTypes
  <1>3. CASE snapshot = <<>>
    BY <1>1, <1>2, <1>3 DEF Travel!Tick, TravelTypes
  <1>4. CASE snapshot # <<>>
    <2>1. PICK s \in Travels : snapshot = <<s>>
      BY <1>4 DEF TravelTypes
    <2> DEFINE t == [s EXCEPT !.elapsed = Travel!Further(s.elapsed, s.total)]
    <2>2. snapshot' = <<t>>
      BY <1>4, <2>1 DEF Travel!Tick
    <2>3. Travel!Further(s.elapsed, s.total) \in 0 .. s.total
      BY TravelFacts DEF Travels
    <2>4. t \in Travels /\ t.target = s.target
      BY <2>3 DEF Travels
    <2> HIDE DEF t
    <2>5. snapshot' # <<>> /\ snapshot'[1].target = snapshot[1].target
      BY <2>1, <2>2, <2>4
    <2> QED BY <1>1, <1>2, <1>4, <2>2, <2>4, <2>5 DEF TravelTypes
  <1> QED BY <1>3, <1>4

\* Every step of the travel keeps its types.
LEMMA TravelGoesOn ==
    ASSUME Travel!TravelAssumption, TravelTypes, [Travel!Next]_(Travel!vars)
    PROVE  TravelTypes'
  <1>1. CASE UNCHANGED Travel!vars
    BY <1>1 DEF Travel!vars, Travel!travel, Travel!device, Travel!count, TravelTypes
  <1>2. CASE Travel!Loop
    BY <1>2, LoopTravels
  <1>3. CASE Travel!SendStop
    BY <1>3, StopTravels
  <1>4. CASE Travel!DeviceMoves
    BY <1>4, DeviceTravels
  <1>5. CASE Travel!Status
    BY <1>5, StatusTravels
  <1>6. CASE Travel!Tick
    BY <1>6, TickTravels
  <1>7. ASSUME NEW t \in Travel!Position, Travel!Move(t) PROVE TravelTypes'
    BY <1>7, MoveTravels
  <1>8. ASSUME NEW result \in Travel!Results, Travel!Outcome(result) PROVE TravelTypes'
    BY <1>8, OutcomeTravels
  <1> QED BY <1>1, <1>2, <1>3, <1>4, <1>5, <1>6, <1>7, <1>8 DEF Travel!Next

\* Every step keeps what a STOP on its way needs.
LEMMA StopKept ==
    ASSUME Travel!TravelAssumption, TravelTypes, StopInv, [Travel!Next]_(Travel!vars)
    PROVE  StopInv'
  <1>1. CASE UNCHANGED <<snapshot, goal>>
    BY <1>1 DEF StopInv
  <1>2. CASE goal' = Travel!NoGoal
    BY <1>2 DEF StopInv, Travel!NoGoal
  <1>3. CASE Travel!SendStop
    <2>1. /\ snapshot' = (IF total # 0 \/ travelling THEN <<Travel!Snapshot>> ELSE <<>>)
          /\ goal' = (IF total # 0 /\ \A k \in DOMAIN commands : commands[k] # Travel!Stop
                      THEN target ELSE Travel!NoGoal)
      BY <1>3 DEF Travel!SendStop
    <2>2. Travel!Snapshot.target = target
      BY DEF Travel!Snapshot
    <2>3. CASE total # 0
      <3>1. snapshot' # <<>> /\ snapshot'[1].target = target
        BY <2>1, <2>2, <2>3
      <3> QED BY <2>1, <3>1 DEF StopInv, Travel!NoGoal
    <2>4. CASE total = 0
      BY <1>2, <2>1, <2>4
    <2> QED BY <2>3, <2>4
  <1>4. ASSUME NEW t \in Travel!Position, Travel!Move(t)
        PROVE  StopInv'
    BY <1>2, <1>4 DEF Travel!Move
  <1>5. ASSUME NEW result \in Travel!Results, Travel!Outcome(result)
        PROVE  StopInv'
    BY <1>1, <1>2, <1>5 DEF Travel!Outcome
  <1>6. CASE Travel!Status
    BY <1>2, <1>6 DEF Travel!Status, Travel!AtRest, Travel!InMotion
  <1>7. CASE Travel!Tick
    <2>1. /\ goal' = goal /\ (snapshot' = <<>> <=> snapshot = <<>>)
          /\ snapshot # <<>> => snapshot'[1].target = snapshot[1].target
      BY <1>7, TickTravels DEF Travel!Tick
    <2> QED BY <2>1 DEF StopInv, Travel!NoGoal
  <1>8. CASE Travel!Loop
    BY <1>1, <1>8 DEF Travel!Loop
  <1>9. CASE Travel!DeviceMoves
    BY <1>1, <1>9 DEF Travel!DeviceMoves
  <1>10. CASE UNCHANGED Travel!vars
    BY <1>1, <1>10 DEF Travel!vars
  <1> QED BY <1>3, <1>4, <1>5, <1>6, <1>7, <1>8, <1>9, <1>10 DEF Travel!Next

\* A STOP that is refused lets the travel it broke off go on, and the travel keeps its
\* types, whatever the travel times, however many positions and however often STOP is
\* commanded: onCommandExchangeResult brings back the snapshot that sendStop took, and
\* nothing in between loses it without ending that travel or being another STOP.
THEOREM StopResumes ==
    ASSUME Travel!TravelAssumption
    PROVE  Travel!Spec => RejectedStopResumes
  <1> DEFINE Resumed == commands # <<>> /\ Travel!Outcome("Rejected")
                        /\ Head(commands) = Travel!Stop /\ goal # Travel!NoGoal => target' = goal
  <1>1. Travel!Init => TravelTypes /\ StopInv
    BY TravelStarts
  <1>2. TravelTypes /\ StopInv /\ [Travel!Next]_(Travel!vars) => TravelTypes' /\ StopInv'
    BY TravelGoesOn, StopKept
  <1>3. TravelTypes => Travel!TypeOK
    BY TravelTypesSay
  <1>4. StopInv => Resumed
    <2> SUFFICES ASSUME StopInv, Travel!Outcome("Rejected"), Head(commands) = Travel!Stop,
                        goal # Travel!NoGoal
                 PROVE  target' = goal
      OBVIOUS
    <2>1. snapshot # <<>> /\ snapshot[1].target = goal
      BY DEF StopInv
    <2> QED BY <2>1 DEF Travel!Outcome, Travel!Restore
  <1>5. TravelTypes /\ StopInv => [Resumed]_(Travel!vars)
    BY <1>4
  <1> HIDE DEF Resumed
  <1>6. Travel!Spec => [](TravelTypes /\ StopInv)
    BY <1>1, <1>2, PTL DEF Travel!Spec
  <1>7. Travel!Spec => [][Resumed]_(Travel!vars) /\ []Travel!TypeOK
    BY <1>3, <1>5, <1>6, PTL
  <1> QED BY <1>7 DEF RejectedStopResumes, Travel!RejectedStopResumes, Resumed

\* What the object shows while the device is believed to move, but for an estimate begun
\* anew; a travel that was broken off may go on, so the same while the snapshot waits.
ShownInv ==
    /\ ~behind /\ (travelling \/ snapshot # <<>>) => ko = Travel!Reported(current)
    /\ snapshot # <<>> => total = 0

\* Every step keeps that.
LEMMA ShownKept ==
    ASSUME TravelTypes, ShownInv, [Travel!Next]_(Travel!vars)
    PROVE  ShownInv'
  <1>1. CASE UNCHANGED Travel!vars
    BY <1>1 DEF Travel!vars, Travel!travel, ShownInv, Travel!Reported
  <1>2. CASE Travel!Loop
    <2>1. total > 0 /\ snapshot = <<>> /\ snapshot' = <<>> /\ travelling /\ UNCHANGED travelling
      BY <1>2 DEF Travel!Loop, Travel!LoopDue, ShownInv
    <2>2. /\ current' = Travel!Interpolated
          /\ ko' = IF Travel!Interpolated = current THEN ko
                   ELSE Travel!Reported(Travel!Interpolated)
          /\ behind' = (behind /\ Travel!Interpolated = current)
      BY <1>2 DEF Travel!Loop, Travel!UpdateEstimate
    <2>3. ~behind' => ko' = Travel!Reported(current')
      <3>1. CASE Travel!Interpolated = current
        BY <2>1, <2>2, <3>1 DEF ShownInv, Travel!Reported
      <3>2. CASE Travel!Interpolated # current
        BY <2>2, <3>2 DEF Travel!Reported
      <3> QED BY <3>1, <3>2
    <2> QED BY <2>1, <2>3 DEF ShownInv, Travel!Reported
  <1>3. ASSUME NEW t \in Travel!Position, Travel!Move(t) PROVE ShownInv'
    <2>1. /\ ~Travel!LoopDue /\ snapshot' = <<>> /\ current' = Travel!Estimate
          /\ UNCHANGED <<travelling, ko, behind>>
      BY <1>3 DEF Travel!Move, Travel!StartTravel
    <2>2. travelling => Travel!Estimate = current
      BY <2>1 DEF Travel!LoopDue, Travel!Estimate, TravelTypes
    <2>3. travelling /\ ~behind => ko = Travel!Reported(current) /\ current' = current
      BY <2>1, <2>2 DEF ShownInv
    <2> QED BY <2>1, <2>3 DEF ShownInv, Travel!Reported
  <1>4. CASE Travel!SendStop
    BY <1>4 DEF Travel!SendStop, Travel!Publish, Travel!StopTravel, ShownInv, Travel!Reported
  <1>5. ASSUME NEW result \in Travel!Results, Travel!Outcome(result) PROVE ShownInv'
    <2>1. /\ UNCHANGED <<current, ko, behind>>
          /\ \/ UNCHANGED <<total, travelling>> /\ (snapshot' = snapshot \/ snapshot' = <<>>)
             \/ snapshot # <<>> /\ snapshot' = <<>>
      BY <1>5 DEF Travel!Outcome, Travel!Restore, Travel!travel
    <2> QED BY <2>1 DEF ShownInv, Travel!Reported
  <1>6. CASE Travel!DeviceMoves
    BY <1>6 DEF Travel!DeviceMoves, Travel!travel, ShownInv, Travel!Reported
  <1>7. CASE Travel!Status
    <2>1. CASE Travel!AtRest
      BY <2>1 DEF Travel!AtRest, ShownInv
    <2>2. CASE Travel!InMotion({})
      BY <2>2 DEF Travel!InMotion, ShownInv, Travel!Reported
    <2>3. ASSUME NEW s \in TravelTimes, Travel!InMotion({s}) PROVE ShownInv'
      <3>1. behind' = TRUE /\ snapshot' = <<>>
        BY <2>3 DEF Travel!InMotion
      <3> QED BY <3>1 DEF ShownInv
    <2> QED BY <1>7, <2>1, <2>2, <2>3 DEF Travel!Status
  <1>8. CASE Travel!Tick
    BY <1>8 DEF Travel!Tick, ShownInv, Travel!Reported
  <1> QED BY <1>1, <1>2, <1>3, <1>4, <1>5, <1>6, <1>7, <1>8 DEF Travel!Next

\* While an estimate runs, the position object shows the position that scenes and slat
\* commands are made from, whatever is sent, refused or reported in between:
\* updateEstimatedPosition tells the bus of every change, sendStop publishes what its
\* snapshot is later restored upon, and a new command starts from an estimate that was
\* shown.  With or without travel times told by the device: only an estimate that onEstimate
\* began anew, which tells nobody, waits for its next change.
THEOREM FeedbackFollows ==
    ASSUME Travel!TravelAssumption
    PROVE  Travel!Spec => []Travel!FeedbackFollowsEstimate
  <1>1. Travel!Init => TravelTypes /\ ShownInv
    <2>1. Travel!Init => ShownInv
      BY DEF Travel!Init, ShownInv
    <2> QED BY <2>1, TravelStarts
  <1>2. TravelTypes /\ ShownInv /\ [Travel!Next]_(Travel!vars) => TravelTypes' /\ ShownInv'
    BY TravelGoesOn, ShownKept
  <1>3. ShownInv => Travel!FeedbackFollowsEstimate
    BY DEF ShownInv, Travel!FeedbackFollowsEstimate
  <1> QED BY <1>1, <1>2, <1>3, PTL DEF Travel!Spec

-----------------------------------------------------------------------------
(* Bus objects, scenes and restarts *)

\* What was learned of a scene is in the settings as the bus sees it, and in memory; only
\* scenes that can be learned have something.
Remembered ==
    /\ learned \in [Scenes -> Objects!Position \cup {Objects!None}]
    /\ ram = ets
    /\ \A s \in Scenes : learned[s] # Objects!None =>
           Objects!Learnable(s) /\ ets[s] = Objects!Turned(learned[s])

ObjectsInv ==
    /\ Objects!TypeOK /\ kind \in Kinds /\ inverted \in BOOLEAN
    /\ Remembered

\* Turning a position around twice gives it back.
LEMMA TurnedTwice ==
    ASSUME Objects!ObjectsAssumption, NEW p \in Objects!Position
    PROVE  /\ Objects!Turned(p) \in Objects!Position
           /\ Objects!Turned(Objects!Turned(p)) = p
           /\ p # Objects!None
  BY DEF Objects!ObjectsAssumption, Objects!Turned, Objects!Position, Objects!None

\* Settings, scenes and what the objects show decide what ObjectsInv says of a channel, but
\* for the lock and the command sent last.
LEMMA SendsOnly ==
    ASSUME Objects!ObjectsAssumption, ObjectsInv,
           UNCHANGED <<Objects!settings, Objects!scenes, Objects!state>>,
           locked' \in BOOLEAN, sent'.to \in Objects!Position \cup {Objects!None}
    PROVE  ObjectsInv'
  <1>1. UNCHANGED <<kind, inverted, behaviour, action, ets, ram, learned, objectsCurrent,
                    objectsMoving, feedback, status>>
    BY DEF Objects!settings, Objects!scenes, Objects!state
  <1>2. Objects!TypeOK'
    BY <1>1 DEF ObjectsInv, Objects!TypeOK
  <1>3. Remembered'
    BY <1>1 DEF ObjectsInv, Remembered, Objects!Learnable, Objects!Turned
  <1> QED BY <1>1, <1>2, <1>3 DEF ObjectsInv

\* At the start nothing is learned and the device is taken to be at 0.
LEMMA ObjectsStart == ASSUME Objects!ObjectsAssumption, Objects!Init PROVE ObjectsInv
  <1>1. Full \in Nat /\ Full > 0 /\ 0 \in Objects!Position /\ 1 \in Objects!Position
    BY DEF Objects!ObjectsAssumption, Objects!Position
  <1>2. /\ ets \in [Scenes -> {Objects!None, 1}] /\ ram = ets /\ objectsCurrent = 0 /\ feedback = 0
        /\ objectsMoving = FALSE /\ status = FALSE /\ locked = FALSE
        /\ sent = [what |-> "nothing", to |-> Objects!None]
        /\ learned = [s \in Scenes |-> Objects!None] /\ kind \in Kinds /\ inverted \in BOOLEAN
    BY DEF Objects!Init
  <1>3. Objects!TypeOK
    BY <1>1, <1>2 DEF Objects!TypeOK
  <1>4. Remembered
    BY <1>2 DEF Remembered
  <1> QED BY <1>2, <1>3, <1>4 DEF ObjectsInv

\* Calling a scene sends a position or none.
LEMMA RecalledSends ==
    ASSUME Objects!ObjectsAssumption, ObjectsInv, NEW s \in Scenes
    PROVE  Objects!Recalled(s).to \in Objects!Position \cup {Objects!None}
  <1>1. /\ ram[s] \in Objects!Position \cup {Objects!None}
        /\ sent.to \in Objects!Position \cup {Objects!None}
    BY DEF ObjectsInv, Objects!TypeOK
  <1>2. 0 \in Objects!Position /\ Full \in Objects!Position
    BY DEF Objects!ObjectsAssumption, Objects!Position
  <1>3. ram[s] # Objects!None => Objects!SceneToDevice(ram[s]) \in Objects!Position
    BY <1>1, TurnedTwice DEF Objects!SceneToDevice
  <1> QED BY <1>1, <1>2, <1>3 DEF Objects!Recalled

\* A scene is learned with the position the device is at.
LEMMA LearnKeeps ==
    ASSUME Objects!ObjectsAssumption, ObjectsInv, NEW s \in Scenes, Objects!Learn(s)
    PROVE  ObjectsInv'
  <1> DEFINE p == Objects!Turned(objectsCurrent)
  <1>1. /\ ets' = [ets EXCEPT ![s] = p] /\ ram' = [ram EXCEPT ![s] = p]
        /\ learned' = [learned EXCEPT ![s] = objectsCurrent] /\ Objects!Learnable(s)
        /\ UNCHANGED <<kind, inverted, behaviour, action, objectsCurrent, objectsMoving, feedback,
                       status, locked, sent>>
    BY DEF Objects!Learn, Objects!Store, Objects!settings, Objects!state
  <1>2. objectsCurrent \in Objects!Position /\ p \in Objects!Position
    BY TurnedTwice DEF ObjectsInv, Objects!TypeOK
  <1>3. Objects!TypeOK'
    BY <1>1, <1>2 DEF ObjectsInv, Objects!TypeOK
  <1>4. Remembered'
    <2>1. /\ learned' \in [Scenes -> Objects!Position \cup {Objects!None}] /\ ram' = ets'
          /\ ets' \in [Scenes -> Objects!Position \cup {Objects!None}]
      BY <1>1, <1>2, <1>3 DEF ObjectsInv, Remembered, Objects!TypeOK
    <2>2. \A t \in Scenes : Objects!Learnable(t)' = Objects!Learnable(t)
      BY <1>1 DEF Objects!Learnable
    <2>3. \A x : Objects!Turned(x)' = Objects!Turned(x)
      BY <1>1 DEF Objects!Turned
    <2>4. ASSUME NEW t \in Scenes, learned'[t] # Objects!None
          PROVE  Objects!Learnable(t) /\ ets'[t] = Objects!Turned(learned'[t])
      <3>1. CASE t = s
        BY <1>1, <2>1, <3>1 DEF ObjectsInv, Objects!TypeOK, Remembered
      <3>2. CASE t # s
        BY <1>1, <2>1, <2>4, <3>2 DEF ObjectsInv, Objects!TypeOK, Remembered
      <3> QED BY <3>1, <3>2
    <2> QED BY <2>1, <2>2, <2>3, <2>4 DEF Remembered
  <1> QED BY <1>1, <1>3, <1>4 DEF ObjectsInv

\* A device reports where it is.
LEMMA ReportKeeps ==
    ASSUME Objects!ObjectsAssumption, ObjectsInv, NEW p \in Objects!Position,
           NEW moving \in BOOLEAN, Objects!Report(p, moving)
    PROVE  ObjectsInv'
  <1>1. /\ objectsCurrent' = p /\ feedback' = Objects!Turned(p) /\ p \in Objects!Reachable
        /\ status' = (IF Objects!Binary THEN 2 * p >= Full ELSE status)
        /\ objectsMoving' = moving
        /\ UNCHANGED <<kind, inverted, behaviour, action, ets, ram, learned, locked, sent>>
    BY DEF Objects!Report, Objects!Publish, Objects!settings, Objects!scenes
  <1>2. Objects!TypeOK'
    <2>1. status' \in BOOLEAN
      <3>1. (2 * p >= Full) \in BOOLEAN /\ status \in BOOLEAN
        BY DEF ObjectsInv, Objects!TypeOK
      <3> QED BY Zenon, <1>1, <3>1
    <2>2. {objectsMoving', status', locked'} \subseteq BOOLEAN
      BY <1>1, <2>1 DEF ObjectsInv, Objects!TypeOK
    <2>3. objectsCurrent' \in Objects!Position /\ feedback' \in Objects!Position
      BY <1>1, TurnedTwice
    <2>4. /\ ets' = ets /\ ram' = ram /\ sent' = sent
          /\ ets \in [Scenes -> Objects!Position \cup {Objects!None}]
          /\ ram \in [Scenes -> Objects!Position \cup {Objects!None}]
          /\ sent.to \in Objects!Position \cup {Objects!None}
      BY <1>1 DEF ObjectsInv, Objects!TypeOK
    <2> QED BY <2>2, <2>3, <2>4 DEF Objects!TypeOK
  <1>3. Remembered'
    BY <1>1 DEF ObjectsInv, Remembered, Objects!Learnable, Objects!Turned
  <1> QED BY <1>1, <1>2, <1>3 DEF ObjectsInv

\* After a restart the scenes are those of the settings, and the device is taken to be where
\* the objects, which are zero, say.
LEMMA RestartKeeps ==
    ASSUME Objects!ObjectsAssumption, ObjectsInv, Objects!Restart
    PROVE  ObjectsInv'
  <1>1. /\ ram' = ets /\ locked' = FALSE /\ objectsMoving' = FALSE
        /\ feedback' = 0 /\ status' = FALSE
        /\ UNCHANGED <<kind, inverted, behaviour, action, ets, learned>>
        /\ IF behaviour = "restore"
           THEN /\ objectsCurrent' = Objects!Restored(feedback', status')
                /\ sent' = [what |-> "position", to |-> objectsCurrent']
           ELSE /\ objectsCurrent' = 0 /\ sent'.to = Objects!None
    BY DEF Objects!Restart, Objects!settings, Objects!SendPosition, Objects!Send
  <1>2. /\ 0 \in Objects!Position /\ Full \in Objects!Position /\ Full \in Nat /\ Full > 0
    BY DEF Objects!ObjectsAssumption, Objects!Position
  <1>3. feedback' \in Objects!Position /\ status' \in BOOLEAN
    BY <1>1, <1>2
  <1>4. Objects!Restored(feedback', status') \in Objects!Reachable
    BY <1>2, <1>3, TurnedTwice DEF Objects!Restored, Objects!Reachable
  <1>5. objectsCurrent' \in Objects!Reachable /\ objectsCurrent' \in Objects!Position
    BY <1>1, <1>2, <1>4 DEF Objects!Reachable
  <1>6. Objects!TypeOK'
    <2>1. sent'.to \in Objects!Position \cup {Objects!None}
      BY <1>1, <1>5
    <2>2. {objectsMoving', status', locked'} \subseteq BOOLEAN
      BY <1>1, <1>3
    <2>3. ets' \in [Scenes -> Objects!Position \cup {Objects!None}] /\ ram' = ets'
      BY <1>1 DEF ObjectsInv, Objects!TypeOK
    <2> QED BY <1>3, <1>5, <2>1, <2>2, <2>3 DEF Objects!TypeOK
  <1>7. Remembered'
    BY <1>1 DEF ObjectsInv, Remembered, Objects!Learnable, Objects!Turned
  <1> QED BY <1>1, <1>6, <1>7 DEF ObjectsInv

\* Every step of the objects.
LEMMA ObjectsStep ==
    ASSUME Objects!ObjectsAssumption, ObjectsInv, [Objects!Next]_(Objects!vars)
    PROVE  ObjectsInv'
  <1>1. /\ locked \in BOOLEAN /\ sent.to \in Objects!Position \cup {Objects!None}
        /\ inverted \in BOOLEAN
    BY DEF ObjectsInv, Objects!TypeOK
  <1>2. 0 \in Objects!Position /\ Full \in Objects!Position
    BY DEF Objects!ObjectsAssumption, Objects!Position
  <1>3. ASSUME NEW p \in Objects!Position, Objects!PositionObject(p) PROVE ObjectsInv'
    BY <1>1, <1>3, SendsOnly, TurnedTwice
       DEF Objects!PositionObject, Objects!SendPosition, Objects!Send
  <1>4. ASSUME NEW b \in BOOLEAN, Objects!UpDownObject(b) PROVE ObjectsInv'
    BY <1>1, <1>2, <1>4, SendsOnly
       DEF Objects!UpDownObject, Objects!SendUpDown, Objects!Send
  <1>5. ASSUME NEW b \in BOOLEAN, Objects!OnOffObject(b) PROVE ObjectsInv'
    BY <1>1, <1>2, <1>5, SendsOnly
       DEF Objects!OnOffObject, Objects!SendPosition, Objects!Send
  <1>6. ASSUME NEW b \in BOOLEAN, Objects!StepStopObject(b) PROVE ObjectsInv'
    BY <1>1, <1>2, <1>6, SendsOnly
       DEF Objects!StepStopObject, Objects!SendUpDown, Objects!Send
  <1>7. ASSUME NEW b \in BOOLEAN, Objects!LockObject(b) PROVE ObjectsInv'
    BY <1>1, <1>7, SendsOnly DEF Objects!LockObject
  <1>8. CASE Objects!StopObject \/ Objects!FavouriteObject
    BY <1>1, <1>8, SendsOnly DEF Objects!StopObject, Objects!FavouriteObject, Objects!Send
  <1>9. CASE Objects!WindAlarm
    BY <1>1, <1>2, <1>9, SendsOnly
       DEF Objects!WindAlarm, Objects!SendPosition, Objects!SendUpDown, Objects!Send
  <1>10. ASSUME NEW s \in Scenes, Objects!Recall(s) PROVE ObjectsInv'
    BY <1>1, <1>10, SendsOnly, RecalledSends DEF Objects!Recall
  <1>11. CASE UNCHANGED Objects!vars
    BY <1>1, <1>11, SendsOnly DEF Objects!vars
  <1> QED
    BY <1>3, <1>4, <1>5, <1>6, <1>7, <1>8, <1>9, <1>10, <1>11, LearnKeeps, ReportKeeps,
       RestartKeeps DEF Objects!Next

\* A scene that was learned brings the device back to where it was, whatever the direction
\* of the settings, and after a restart too: RecallReturns, for any positions,
\* scenes and settings.
THEOREM ScenesReturn ==
    ASSUME Objects!ObjectsAssumption
    PROVE  Objects!Spec => []RecallReturns
  <1>1. Objects!Init => ObjectsInv
    BY ObjectsStart
  <1>2. ObjectsInv /\ [Objects!Next]_(Objects!vars) => ObjectsInv'
    BY ObjectsStep
  <1>3. ASSUME ObjectsInv PROVE RecallReturns
    <2>1. ASSUME NEW s \in Scenes, learned[s] # Objects!None
          PROVE  Objects!Recalled(s) = [what |-> "position", to |-> learned[s]]
      <3>1. learned[s] \in Objects!Position /\ Objects!Learnable(s)
            /\ ram[s] = Objects!Turned(learned[s])
        BY <1>3, <2>1 DEF ObjectsInv, Remembered
      <3>2. ram[s] # Objects!None /\ Objects!SceneToDevice(ram[s]) = learned[s]
        BY <3>1, TurnedTwice DEF Objects!SceneToDevice
      <3> QED BY <3>1, <3>2 DEF Objects!Recalled, Objects!Learnable
    <2> QED BY <1>3, <2>1 DEF ObjectsInv, Objects!RecallReturns, RecallReturns
  <1> QED BY <1>1, <1>2, <1>3, PTL DEF Objects!Spec

-----------------------------------------------------------------------------
(* Remotes and links *)

Entry == [address : Remotes \cup {NoRemote}, links : Seq(Devices)]

\* A table has one entry of each remote, with room for its links and none of them twice.
Table(e) ==
    /\ e \in [Map!Slots -> Entry]
    /\ \A i, j \in Map!Slots : e[i].address = e[j].address /\ e[i].address # NoRemote => i = j
    /\ \A i \in Map!Slots :
        /\ Len(e[i].links) <= MaxLinks
        /\ \A a, b \in 1 .. Len(e[i].links) : e[i].links[a] = e[i].links[b] => a = b

In(d, list) == \E k \in 1 .. Len(list) : list[k] = d

\* Slot i of table e holds remote r, with device d among its links.
Linking(e, i, r, d) ==
    e[i].address = r /\ In(d, e[i].links)

\* The links of a table are those that are wanted.
Holds(e, w) ==
    /\ w \subseteq Remotes \X Devices
    /\ \A r \in Remotes, d \in Devices :
        <<r, d>> \in w <=> \E i \in Map!Slots : Linking(e, i, r, d)

MapInv ==
    /\ Table(entries) /\ Table(flash)
    /\ Holds(entries, wanted) /\ Holds(flash, saved)

\* The order of slots and of places in a sequence.
Less == {pair \in Nat \X Nat : pair[1] < pair[2]}

\* A set of numbers that is not empty has a first, which is one of them.
LEMMA FirstIsIn ==
    ASSUME NEW S \in SUBSET Nat, S # {}
    PROVE  Map!First(S) \in S
  <1>1. IsWellFoundedOn(Less, Nat)
    BY Zenon, NatLessThanWellFounded DEF OpToRel, Less
  <1>2. PICK x \in S : \A y \in S : ~(<<y, x>> \in Less)
    BY <1>1, WFMin
  <1>3. \A y \in S : x <= y
    <2> SUFFICES ASSUME NEW y \in S, ~(x <= y) PROVE FALSE
      OBVIOUS
    <2>1. <<y, x>> \in Less
      BY DEF Less
    <2> QED BY <1>2, <2>1
  <1> QED BY <1>3 DEF Map!First

\* A table holds a remote in one slot only.
LEMMA TheSlot ==
    ASSUME Map!RemoteMapAssumption, Table(entries), NEW r \in Remotes, Map!Holding(r) # {}
    PROVE  /\ Map!First(Map!Holding(r)) \in Map!Slots
           /\ entries[Map!First(Map!Holding(r))].address = r
           /\ \A i \in Map!Slots : entries[i].address = r => i = Map!First(Map!Holding(r))
  <1>1. Map!Holding(r) \in SUBSET Nat
    BY DEF Map!Holding, Map!Slots
  <1>2. Map!First(Map!Holding(r)) \in Map!Holding(r)
    BY <1>1, FirstIsIn
  <1>3. r # NoRemote
    BY DEF Map!RemoteMapAssumption
  <1> QED BY <1>2, <1>3 DEF Map!Holding, Table

\* The polls of a remote that was heard are those of its links.
LEMMA PollsFollow ==
    ASSUME Map!RemoteMapAssumption, MapInv
    PROVE  Map!PollsWhatIsLinked
  <1> SUFFICES ASSUME NEW r \in Remotes
               PROVE  Map!Polled(r) = {d \in Devices : <<r, d>> \in wanted}
    BY DEF Map!PollsWhatIsLinked
  <1>1. CASE Map!Holding(r) = {}
    BY <1>1 DEF MapInv, Holds, Linking, Map!Holding, Map!Polled
  <1>2. CASE Map!Holding(r) # {}
    <2> DEFINE f == Map!First(Map!Holding(r))
    <2>1. /\ f \in Map!Slots /\ entries[f].address = r
          /\ \A i \in Map!Slots : entries[i].address = r => i = f
      BY <1>2, TheSlot DEF MapInv
    <2>2. entries[f].links \in Seq(Devices)
      BY <2>1 DEF MapInv, Table, Entry
    <2>3. Map!Polled(r) = {entries[f].links[k] : k \in 1 .. Len(entries[f].links)}
      BY <1>2, <2>2 DEF Map!Polled, Map!ToSet
    <2>4. \A d \in Devices : <<r, d>> \in wanted
                <=> In(d, entries[f].links)
      BY <2>1 DEF MapInv, Holds, Linking
    <2> HIDE DEF f
    <2>5. \A k \in 1 .. Len(entries[f].links) : entries[f].links[k] \in Devices
      BY <2>2
    <2> QED BY <2>3, <2>4, <2>5 DEF In
  <1> QED BY <1>1, <1>2

\* A slot that is overwritten with a new or an empty entry keeps the table a table.
LEMMA TableExcept ==
    ASSUME NEW e, Table(e), NEW i \in Map!Slots, NEW new \in Entry,
           \A j \in Map!Slots : j # i /\ e[j].address = new.address => new.address = NoRemote,
           Len(new.links) <= MaxLinks,
           \A a, b \in 1 .. Len(new.links) : new.links[a] = new.links[b] => a = b
    PROVE  Table([e EXCEPT ![i] = new])
  <1> DEFINE f == [e EXCEPT ![i] = new]
  <1>1. f \in [Map!Slots -> Entry] /\ f[i] = new /\ \A j \in Map!Slots : j # i => f[j] = e[j]
    BY DEF Table
  <1> HIDE DEF f
  <1>2. \A j, k \in Map!Slots : f[j].address = f[k].address /\ f[j].address # NoRemote => j = k
    <2> TAKE j, k \in Map!Slots
    <2>1. CASE j # i /\ k # i
      BY <1>1, <2>1 DEF Table
    <2>2. CASE j = i /\ k # i
      BY <1>1, <2>2
    <2>3. CASE j # i /\ k = i
      BY <1>1, <2>3
    <2> QED BY <2>1, <2>2, <2>3
  <1>3. \A j \in Map!Slots :
            /\ Len(f[j].links) <= MaxLinks
            /\ \A a, b \in 1 .. Len(f[j].links) : f[j].links[a] = f[j].links[b] => a = b
    <2> TAKE j \in Map!Slots
    <2>1. CASE j = i
      BY <1>1, <2>1
    <2>2. CASE j # i
      BY <1>1, <2>2 DEF Table
    <2> QED BY <2>1, <2>2
  <1>4. Table(f)
    BY <1>1, <1>2, <1>3 DEF Table
  <1> QED BY <1>4 DEF f

\* The links of a table of which one slot was overwritten: those of the other slots, and
\* those of the new entry.
LEMMA HoldsExcept ==
    ASSUME NEW e, Table(e), NEW w, Holds(e, w), NEW v \in SUBSET (Remotes \X Devices),
           NEW i \in Map!Slots, NEW new \in Entry,
           \A r \in Remotes, d \in Devices :
               r # e[i].address /\ r # new.address => (<<r, d>> \in v <=> <<r, d>> \in w),
           \A r \in Remotes, d \in Devices :
               r = e[i].address /\ r # new.address => <<r, d>> \notin v,
           \A j \in Map!Slots : j # i /\ e[j].address = new.address => new.address = NoRemote,
           \A j \in Map!Slots : j # i /\ e[j].address = e[i].address => e[i].address = NoRemote,
           NoRemote \notin Remotes,
           \A d \in Devices : new.address \in Remotes =>
               (<<new.address, d>> \in v <=> In(d, new.links))
    PROVE  Holds([e EXCEPT ![i] = new], v)
  <1> DEFINE f == [e EXCEPT ![i] = new]
  <1>1. f[i] = new /\ \A j \in Map!Slots : j # i => f[j] = e[j]
    BY DEF Table
  <1> HIDE DEF f
  <1>2. ASSUME NEW r \in Remotes, NEW d \in Devices
        PROVE  <<r, d>> \in v <=> \E j \in Map!Slots : Linking(f, j, r, d)
    <2>1. CASE r # e[i].address /\ r # new.address
      <3>1. \A j \in Map!Slots : Linking(f, j, r, d) <=> Linking(e, j, r, d)
        BY <1>1, <2>1 DEF Linking
      <3> QED BY <2>1, <3>1 DEF Holds
    <2>2. CASE r = e[i].address /\ r # new.address
      <3>1. \A j \in Map!Slots : ~Linking(f, j, r, d)
        BY <1>1, <2>2 DEF Linking
      <3> QED BY <2>2, <3>1
    <2>3. CASE r = new.address
      <3>1. \A j \in Map!Slots : Linking(f, j, r, d)
                <=> j = i /\ In(d, new.links)
        BY <1>1, <2>3 DEF Linking
      <3> QED BY <2>3, <3>1
    <2> QED BY <2>1, <2>2, <2>3
  <1>3. Holds(f, v)
    BY <1>2 DEF Holds
  <1> QED BY <1>3 DEF f

\* The links of a table of which one remote got another list.
LEMMA HoldsRelinked ==
    ASSUME NEW e, Table(e), NEW w, Holds(e, w), NEW v \in SUBSET (Remotes \X Devices),
           NEW i \in Map!Slots, NEW new, NEW r \in Remotes,
           e[i].address = r, new.address = r,
           \A j \in Map!Slots : j # i => e[j].address # r,
           \A q \in Remotes, c \in Devices : q # r => (<<q, c>> \in v <=> <<q, c>> \in w),
           \A c \in Devices : <<r, c>> \in v <=> In(c, new.links)
    PROVE  Holds([e EXCEPT ![i] = new], v)
  <1> DEFINE f == [e EXCEPT ![i] = new]
  <1>1. f[i] = new /\ \A j \in Map!Slots : j # i => f[j] = e[j]
    BY DEF Table
  <1> HIDE DEF f
  <1>2. ASSUME NEW q \in Remotes, NEW c \in Devices
        PROVE  <<q, c>> \in v <=> \E j \in Map!Slots : Linking(f, j, q, c)
    <2>1. CASE q # r
      <3>1. \A j \in Map!Slots : Linking(f, j, q, c) <=> Linking(e, j, q, c)
        BY <1>1, <2>1 DEF Linking
      <3> QED BY <2>1, <3>1 DEF Holds
    <2>2. CASE q = r
      <3>1. \A j \in Map!Slots : Linking(f, j, r, c)
                <=> j = i /\ In(c, new.links)
        BY <1>1 DEF Linking
      <3> QED BY <2>2, <3>1
    <2> QED BY <2>1, <2>2
  <1>3. Holds(f, v)
    BY <1>2 DEF Holds
  <1> QED BY <1>3 DEF f

\* Unlinking takes the one link to the device out of a list and leaves the others.
LEMMA WithoutIt ==
    ASSUME NEW s \in Seq(Devices), NEW d,
           \A a, b \in 1 .. Len(s) : s[a] = s[b] => a = b,
           In(d, s)
    PROVE  LET t == Map!Without(s, d)
           IN  /\ t \in Seq(Devices) /\ Len(t) = Len(s) - 1
               /\ \A a, b \in 1 .. Len(t) : t[a] = t[b] => a = b
               /\ \A c : In(c, t) <=> c # d /\ In(c, s)
  <1> DEFINE p == Map!First({k \in 1 .. Len(s) : s[k] = d})
             t == Map!Without(s, d)
  <1>1. p \in 1 .. Len(s) /\ s[p] = d
    <2>1. p \in {k \in 1 .. Len(s) : s[k] = d}
      <3>1. {k \in 1 .. Len(s) : s[k] = d} \in SUBSET Nat
        BY LenProperties
      <3>2. {k \in 1 .. Len(s) : s[k] = d} # {}
        BY DEF In
      <3> QED BY <3>1, <3>2, FirstIsIn
    <2> QED BY <2>1
  <1>2. t = SubSeq(s, 1, p - 1) \o SubSeq(s, p + 1, Len(s))
    BY DEF Map!Without, Map!RemoveAt
  <1> HIDE DEF p, t
  <1>3. Len(s) \in Nat
    BY LenProperties
  <1> DEFINE u == SubSeq(s, 1, p - 1)
             v == SubSeq(s, p + 1, Len(s))
  <1>4. /\ u \in Seq(Devices) /\ Len(u) = p - 1
        /\ \A k \in 1 .. p - 1 : u[k] = s[k]
    BY <1>1, <1>3
  <1>5. /\ v \in Seq(Devices) /\ Len(v) = Len(s) - p
        /\ \A k \in 1 .. Len(s) - p : v[k] = s[k + p]
    BY <1>1, <1>3
  <1> HIDE DEF u, v
  <1>6. /\ t \in Seq(Devices) /\ Len(t) = Len(s) - 1
        /\ \A k \in 1 .. Len(t) : t[k] = IF k < p THEN s[k] ELSE s[k + 1]
    <2>1. t = u \o v
      BY <1>2 DEF u, v
    <2>2. /\ u \o v \in Seq(Devices) /\ Len(u \o v) = Len(u) + Len(v)
          /\ \A k \in 1 .. Len(u) + Len(v) :
                 (u \o v)[k] = IF k <= Len(u) THEN u[k] ELSE v[k - Len(u)]
      <3>1. u \in Seq(Devices) /\ v \in Seq(Devices)
        BY <1>4, <1>5
      <3> QED BY ONLY <3>1, ConcatProperties
    <2>3. t \in Seq(Devices) /\ Len(t) = Len(u) + Len(v)
      BY <2>1, <2>2
    <2>4. \A k \in 1 .. Len(t) : t[k] = IF k <= Len(u) THEN u[k] ELSE v[k - Len(u)]
      BY <2>1, <2>3, <2>2
    <2>5. Len(u) = p - 1 /\ Len(v) = Len(s) - p /\ p \in 1 .. Len(s) /\ Len(t) = Len(s) - 1
      BY <1>1, <1>3, <1>4, <1>5, <2>3
    <2>6. ASSUME NEW k \in 1 .. Len(t) PROVE t[k] = IF k < p THEN s[k] ELSE s[k + 1]
      <3>1. CASE k < p
        BY <1>3, <1>4, <2>4, <2>5, <3>1
      <3>2. CASE ~(k < p)
        <4>1. t[k] = v[k - (p - 1)] /\ k - (p - 1) \in 1 .. Len(s) - p
          BY <1>3, <2>4, <2>5, <3>2
        <4>2. (k - (p - 1)) + p = k + 1
          BY <1>1, <1>3
        <4> QED BY <1>5, <3>2, <4>1, <4>2
      <3> QED BY <3>1, <3>2
    <2> QED BY <2>3, <2>5, <2>6
  <1>7. \A a, b \in 1 .. Len(t) : t[a] = t[b] => a = b
    BY <1>1, <1>3, <1>6
  <1>8. \A k \in 1 .. Len(t) : t[k] # d /\ \E j \in 1 .. Len(s) : s[j] = t[k]
    BY <1>1, <1>3, <1>6
  <1>9. ASSUME NEW j \in 1 .. Len(s), s[j] # d
        PROVE  \E k \in 1 .. Len(t) : t[k] = s[j]
    <2>1. CASE j < p
      BY <1>1, <1>3, <1>6, <2>1
    <2>2. CASE j > p
      <3>1. j - 1 \in 1 .. Len(t) /\ t[j - 1] = s[j]
        BY <1>1, <1>3, <1>6, <2>2
      <3> QED BY <3>1
    <2> QED BY <1>1, <1>9, <2>1, <2>2
  <1>10. \A c : In(c, t) <=> c # d /\ In(c, s)
    <2>1. ASSUME NEW c, In(c, t) PROVE c # d /\ In(c, s)
      BY <1>8, <2>1 DEF In
    <2>2. ASSUME NEW c, c # d, In(c, s) PROVE In(c, t)
      BY <1>9, <2>2 DEF In
    <2> QED BY <2>1, <2>2
  <1> QED BY <1>6, <1>7, <1>10 DEF t

-----------------------------------------------------------------------------
(* The steps of the table *)

\* Nothing is linked in the empty table of the start.
LEMMA MapStarts == ASSUME Map!RemoteMapAssumption, Map!Init PROVE MapInv
  <1>1. Map!Free \in Entry /\ Len(Map!Free.links) = 0 /\ Map!Free.address = NoRemote
    BY DEF Map!Free, Entry
  <1>2. entries = [i \in Map!Slots |-> Map!Free] /\ flash = entries /\ wanted = {} /\ saved = {}
    BY DEF Map!Init
  <1>3. Table(entries)
    BY <1>1, <1>2 DEF Table, Map!RemoteMapAssumption
  <1>4. Holds(entries, wanted)
    <2>1. \A i \in Map!Slots, r \in Remotes, d \in Devices : ~Linking(entries, i, r, d)
      BY <1>1, <1>2 DEF Linking, Map!RemoteMapAssumption
    <2> QED BY <1>2, <2>1 DEF Holds
  <1> QED BY <1>2, <1>3, <1>4 DEF MapInv

\* A remote that is added takes a free slot, with no links.
LEMMA AddKeeps ==
    ASSUME Map!RemoteMapAssumption, MapInv, NEW r \in Remotes, Map!AddRemote(r)
    PROVE  MapInv'
  <1> DEFINE i == Map!First(Map!Holding(NoRemote))
             new == [Map!Free EXCEPT !.address = r]
  <1>1. i \in Map!Slots /\ entries[i].address = NoRemote
    <2>1. Map!Holding(NoRemote) \in SUBSET Nat /\ Map!Holding(NoRemote) # {}
      BY DEF Map!Holding, Map!Slots, Map!AddRemote, Map!MayAdd
    <2>2. i \in Map!Holding(NoRemote)
      BY <2>1, FirstIsIn
    <2> QED BY <2>2 DEF Map!Holding
  <1>2. new \in Entry /\ new.address = r /\ Len(new.links) = 0
    <2>1. new = [address |-> r, links |-> <<>>]
      BY DEF Map!Free
    <2>2. <<>> \in Seq(Devices) /\ Len(<<>>) = 0
      OBVIOUS
    <2> QED BY <2>1, <2>2 DEF Entry
  <1>3. \A j \in Map!Slots : entries[j].address # r
    BY DEF Map!AddRemote, Map!MayAdd, Map!Holding
  <1>4. entries' = [entries EXCEPT ![i] = new]
    BY DEF Map!AddRemote
  <1>5. UNCHANGED <<wanted, flash, saved>>
    BY DEF Map!AddRemote
  <1> HIDE DEF i, new
  <1>6. Table([entries EXCEPT ![i] = new])
    <2>1. 0 <= MaxLinks
      BY DEF Map!RemoteMapAssumption
    <2> QED BY <1>1, <1>2, <1>3, <2>1, TableExcept DEF MapInv
  <1>7. Holds([entries EXCEPT ![i] = new], wanted)
    <2>1. NoRemote \notin Remotes
      BY DEF Map!RemoteMapAssumption
    <2>2. \A d \in Devices : <<r, d>> \notin wanted
      BY <1>3 DEF MapInv, Holds, Linking
    <2>3. wanted \in SUBSET (Remotes \X Devices) /\ Table(entries) /\ Holds(entries, wanted)
      BY DEF MapInv, Holds
    <2>4. \A d \in Devices : <<new.address, d>> \in wanted
                                   <=> In(d, new.links)
      BY <1>2, <2>2 DEF In
    <2>5. \A j \in Map!Slots : entries[j].address # new.address
      BY <1>2, <1>3
    <2>6. \A q \in Remotes : q # entries[i].address
      BY <1>1, <2>1
    <2>7. \A q \in Remotes, d \in Devices : q = entries[i].address => <<q, d>> \notin wanted
      BY <2>6
    <2>8. \A j \in Map!Slots :
              /\ ~(j # i /\ entries[j].address = new.address)
              /\ entries[j].address = entries[i].address => entries[i].address = NoRemote
      BY <1>1, <2>5
    <2> QED BY ONLY <1>1, <1>2, <2>1, <2>3, <2>4, <2>7, <2>8, HoldsExcept
  <1> QED BY <1>4, <1>5, <1>6, <1>7 DEF MapInv

\* With a remote its links are gone.
LEMMA RemoveKeeps ==
    ASSUME Map!RemoteMapAssumption, MapInv, NEW r \in Remotes, Map!RemoveRemote(r)
    PROVE  MapInv'
  <1> DEFINE i == Map!First(Map!Holding(r))
             v == {link \in wanted : link[1] # r}
  <1>1. /\ i \in Map!Slots /\ entries[i].address = r
        /\ \A j \in Map!Slots : entries[j].address = r => j = i
    BY TheSlot DEF MapInv, Map!RemoveRemote
  <1>2. Map!Free \in Entry /\ Map!Free.address = NoRemote /\ Len(Map!Free.links) = 0
    BY DEF Map!Free, Entry
  <1>3. entries' = [entries EXCEPT ![i] = Map!Free] /\ wanted' = v /\ UNCHANGED <<flash, saved>>
    BY DEF Map!RemoveRemote
  <1>4. NoRemote \notin Remotes /\ 0 <= MaxLinks
    BY DEF Map!RemoteMapAssumption
  <1>5. /\ v \in SUBSET (Remotes \X Devices)
        /\ \A q \in Remotes, d \in Devices : <<q, d>> \in v <=> <<q, d>> \in wanted /\ q # r
    BY DEF MapInv, Holds
  <1> HIDE DEF i, v
  <1>6. Table([entries EXCEPT ![i] = Map!Free])
    BY <1>1, <1>2, <1>4, TableExcept DEF MapInv
  <1>7. Holds([entries EXCEPT ![i] = Map!Free], v)
    BY <1>1, <1>2, <1>4, <1>5, HoldsExcept DEF MapInv
  <1> QED BY <1>3, <1>6, <1>7 DEF MapInv

\* A link is added to those of its remote.
LEMMA LinkKeeps ==
    ASSUME Map!RemoteMapAssumption, MapInv, NEW r \in Remotes, NEW d \in Devices,
           Map!LinkDevice(r, d)
    PROVE  MapInv'
  <1> DEFINE i == Map!First(Map!Holding(r))
             s == entries[i].links
             new == [entries[i] EXCEPT !.links = Append(s, d)]
             v == wanted \cup {<<r, d>>}
  <1>1. /\ i \in Map!Slots /\ entries[i].address = r
        /\ \A j \in Map!Slots : entries[j].address = r => j = i
    BY TheSlot DEF MapInv, Map!LinkDevice
  <1>2. /\ entries[i] \in Entry /\ s \in Seq(Devices) /\ Len(s) \in Nat
        /\ \A a, b \in 1 .. Len(s) : s[a] = s[b] => a = b
    <2>1. Table(entries)
      BY DEF MapInv
    <2>2. entries[i] \in Entry /\ \A a, b \in 1 .. Len(s) : s[a] = s[b] => a = b
      BY <1>1, <2>1 DEF Table
    <2> QED BY <2>2 DEF Entry
  <1>3. Len(s) < MaxLinks /\ ~In(d, s)
    BY DEF Map!LinkDevice, Map!MayLink, Map!Contains, In
  <1>4. entries' = [entries EXCEPT ![i] = new] /\ wanted' = v /\ UNCHANGED <<flash, saved>>
    BY <1>1 DEF Map!LinkDevice, MapInv, Table, Entry
  <1>5. NoRemote \notin Remotes /\ MaxLinks \in Nat
    BY DEF Map!RemoteMapAssumption
  <1>6. new.address = r /\ new.links = Append(s, d) /\ new \in Entry
    <2>1. Append(s, d) \in Seq(Devices)
      BY <1>2
    <2>2. new.address = r /\ new.links = Append(s, d)
      BY <1>1, <1>2 DEF Entry
    <2> QED BY <1>2, <2>1, <2>2 DEF Entry
  <1>7. /\ v \in SUBSET (Remotes \X Devices)
        /\ \A q \in Remotes, c \in Devices :
               <<q, c>> \in v <=> <<q, c>> \in wanted \/ (q = r /\ c = d)
    BY DEF MapInv, Holds
  <1>8. \A c \in Devices : <<r, c>> \in wanted <=> In(c, s)
    BY <1>1 DEF MapInv, Holds, Linking
  <1> HIDE DEF i, s, new, v
  <1>9. /\ Len(Append(s, d)) = Len(s) + 1 /\ Append(s, d)[Len(s) + 1] = d
        /\ \A k \in 1 .. Len(s) : Append(s, d)[k] = s[k]
    BY <1>2
  <1>10. Len(new.links) <= MaxLinks
    BY <1>2, <1>3, <1>5, <1>6, <1>9
  <1>11. \A a, b \in 1 .. Len(new.links) : new.links[a] = new.links[b] => a = b
    BY <1>2, <1>3, <1>6, <1>9 DEF In
  <1>12. \A c \in Devices : <<r, c>> \in v <=> In(c, new.links)
    <2>1. \A c : In(c, Append(s, d)) <=> c = d \/ In(c, s)
      BY <1>2, <1>9 DEF In
    <2> QED BY <1>6, <1>7, <1>8, <1>9, <2>1
  <1>13. Table([entries EXCEPT ![i] = new])
    BY <1>1, <1>5, <1>6, <1>10, <1>11, TableExcept DEF MapInv
  <1>14. Holds([entries EXCEPT ![i] = new], v)
    <2>1. Table(entries) /\ Holds(entries, wanted)
      BY DEF MapInv
    <2>2. \A q \in Remotes, c \in Devices : q # r => (<<q, c>> \in v <=> <<q, c>> \in wanted)
      BY <1>7
    <2>3. \A j \in Map!Slots : j # i => entries[j].address # r
      BY <1>1
    <2> QED BY <1>1, <1>6, <1>7, <1>12, <2>1, <2>2, <2>3, HoldsRelinked
  <1> QED BY <1>4, <1>13, <1>14 DEF MapInv

\* A link is taken from those of its remote.
LEMMA UnlinkKeeps ==
    ASSUME Map!RemoteMapAssumption, MapInv, NEW r \in Remotes, NEW d \in Devices,
           Map!UnlinkDevice(r, d)
    PROVE  MapInv'
  <1> DEFINE i == Map!First(Map!Holding(r))
             s == entries[i].links
             t == Map!Without(s, d)
             new == [entries[i] EXCEPT !.links = t]
             v == wanted \ {<<r, d>>}
  <1>1. /\ i \in Map!Slots /\ entries[i].address = r
        /\ \A j \in Map!Slots : entries[j].address = r => j = i
    BY TheSlot DEF MapInv, Map!UnlinkDevice
  <1>2. /\ entries[i] \in Entry /\ s \in Seq(Devices) /\ Len(s) \in Nat /\ Len(s) <= MaxLinks
        /\ \A a, b \in 1 .. Len(s) : s[a] = s[b] => a = b
    <2>1. Table(entries)
      BY DEF MapInv
    <2>2. /\ entries[i] \in Entry /\ Len(s) <= MaxLinks
          /\ \A a, b \in 1 .. Len(s) : s[a] = s[b] => a = b
      BY <1>1, <2>1 DEF Table
    <2> QED BY <2>2 DEF Entry
  <1>3. In(d, s)
    BY DEF Map!UnlinkDevice, Map!Contains, In, s
  <1>4. entries' = [entries EXCEPT ![i] = new] /\ wanted' = v /\ UNCHANGED <<flash, saved>>
    BY <1>1 DEF Map!UnlinkDevice, MapInv, Table, Entry
  <1>5. NoRemote \notin Remotes /\ MaxLinks \in Nat
    BY DEF Map!RemoteMapAssumption
  <1> HIDE DEF s
  <1>6. /\ t \in Seq(Devices) /\ Len(t) = Len(s) - 1
        /\ \A a, b \in 1 .. Len(t) : t[a] = t[b] => a = b
        /\ \A c : In(c, t) <=> c # d /\ In(c, s)
    BY <1>2, <1>3, WithoutIt
  <1> HIDE DEF t
  <1>7. new.address = r /\ new.links = t /\ new \in Entry
    BY <1>1, <1>2, <1>6 DEF Entry
  <1>8. /\ v \in SUBSET (Remotes \X Devices)
        /\ \A q \in Remotes, c \in Devices :
               <<q, c>> \in v <=> <<q, c>> \in wanted /\ ~(q = r /\ c = d)
    BY DEF MapInv, Holds
  <1>9. \A c \in Devices : <<r, c>> \in wanted <=> In(c, s)
    BY <1>1 DEF MapInv, Holds, Linking, s
  <1> HIDE DEF i, new, v
  <1>10. Len(new.links) <= MaxLinks
    BY <1>2, <1>5, <1>6, <1>7
  <1>11. Table([entries EXCEPT ![i] = new])
    BY <1>1, <1>5, <1>6, <1>7, <1>10, TableExcept DEF MapInv
  <1>12. \A c \in Devices : <<r, c>> \in v <=> In(c, new.links)
    BY <1>6, <1>7, <1>8, <1>9
  <1>13. Holds([entries EXCEPT ![i] = new], v)
    <2>1. Table(entries) /\ Holds(entries, wanted)
      BY DEF MapInv
    <2>2. \A q \in Remotes, c \in Devices : q # r => (<<q, c>> \in v <=> <<q, c>> \in wanted)
      BY <1>8
    <2>3. \A j \in Map!Slots : j # i => entries[j].address # r
      BY <1>1
    <2>4. new.address = r /\ v \in SUBSET (Remotes \X Devices)
      BY <1>7, <1>8
    <2> QED BY ONLY <1>1, <1>12, <2>1, <2>2, <2>3, <2>4, HoldsRelinked
  <1> QED BY <1>4, <1>11, <1>13 DEF MapInv

-----------------------------------------------------------------------------
(* What was heard *)

\* The place in the order of entry of what is in slot i of the ring: what comes after the
\* head is older than what comes before.
Entered(i) == Len(heard.order) - (IF i > head THEN Len(observed) ELSE 0) + i - head

\* The ring holds the addresses entered last, each where its turn put it.
RingInv ==
    /\ observed \in Seq(Remotes) /\ heard.order \in Seq(Remotes)
    /\ heard = [order |-> heard.order, last |-> heard.last] /\ head \in 0 .. MaxObserved - 1
    /\ Len(observed) <= Len(heard.order) /\ Len(observed) <= MaxObserved
    /\ Len(observed) < MaxObserved => head = 0 /\ Len(observed) = Len(heard.order)
    /\ \A i \in 1 .. Len(observed) : observed[i] = heard.order[Entered(i)]
    /\ remoteKo \in Remotes \cup {NoRemote} /\ lastCount \in 0 .. MaxObserved

\* Nothing was heard at the start.
LEMMA RingStarts == ASSUME Map!RemoteMapAssumption, Map!Init PROVE RingInv
  <1>1. /\ observed = <<>> /\ head = 0 /\ heard = [order |-> <<>>, last |-> NoRemote]
        /\ remoteKo = NoRemote /\ lastCount = 0
    BY DEF Map!Init
  <1>2. MaxObserved \in Nat /\ MaxObserved > 0
    BY DEF Map!RemoteMapAssumption
  <1>3. <<>> \in Seq(Remotes) /\ Len(<<>>) = 0
    OBVIOUS
  <1> QED BY <1>1, <1>2, <1>3 DEF RingInv

\* A new address takes the next free slot, or the one of the oldest.
LEMMA ObserveKeeps ==
    ASSUME Map!RemoteMapAssumption, RingInv, NEW r \in Remotes, Map!Observe(r)
    PROVE  RingInv'
  <1> DEFINE old == heard.order
             n == Len(old)
             new == heard'.order
  <1>1. MaxObserved \in Nat /\ MaxObserved > 0
    BY DEF Map!RemoteMapAssumption
  <1>2. UNCHANGED <<remoteKo, lastCount>> /\ n \in Nat /\ Len(observed) \in Nat
    BY DEF Map!Observe, RingInv
  <1>3. heard' = [order |-> new, last |-> heard'.last]
    BY DEF Map!Observe
  <1>4. CASE Map!Contains(observed, r)
    <2>1. new = old /\ UNCHANGED <<observed, head>>
      BY <1>4 DEF Map!Observe
    <2>2. new \in Seq(Remotes) /\ \A i \in 1 .. Len(observed) : Entered(i)' = Entered(i)
      BY <2>1 DEF RingInv, Entered
    <2> QED BY <1>2, <1>3, <2>1, <2>2 DEF RingInv
  <1>5. CASE ~Map!Contains(observed, r)
    <2>1. new = Append(old, r)
      BY <1>5 DEF Map!Observe
    <2>2. /\ new \in Seq(Remotes) /\ Len(new) = n + 1 /\ new[n + 1] = r
          /\ \A k \in 1 .. n : new[k] = old[k]
      BY <2>1 DEF RingInv
    <2>3. CASE Len(observed) < MaxObserved
      <3>1. observed' = Append(observed, r) /\ head' = head
        BY <1>5, <2>3 DEF Map!Observe
      <3>2. /\ observed' \in Seq(Remotes) /\ Len(observed') = Len(observed) + 1
            /\ observed'[Len(observed) + 1] = r
            /\ \A k \in 1 .. Len(observed) : observed'[k] = observed[k]
        BY <3>1 DEF RingInv
      <3>3. head = 0 /\ Len(observed) = n
        BY <2>3 DEF RingInv
      <3>4. \A i \in 1 .. n + 1 : Entered(i)' = i
        <4>1. Len(new) = n + 1 /\ Len(observed') = n + 1 /\ head' = 0
          BY <2>2, <3>1, <3>2, <3>3
        <4>2. ASSUME NEW i \in 1 .. n + 1 PROVE Entered(i)' = i
          <5>1. Entered(i)' = Len(new) - (IF i > head' THEN Len(observed') ELSE 0) + i - head'
            BY DEF Entered
          <5> QED BY <1>2, <4>1, <5>1
        <4> QED BY <4>2
      <3>5. \A i \in 1 .. n : observed[i] = old[i]
        BY <1>2, <3>3 DEF RingInv, Entered
      <3>6. \A i \in 1 .. n + 1 : observed'[i] = new[i]
        BY <1>2, <2>2, <3>2, <3>3, <3>5
      <3> QED BY <1>1, <1>2, <1>3, <2>2, <2>3, <3>1, <3>2, <3>3, <3>4, <3>6 DEF RingInv
    <2>4. CASE ~(Len(observed) < MaxObserved)
      <3>1. Len(observed) = MaxObserved /\ MaxObserved <= n /\ head \in 0 .. MaxObserved - 1
        BY <1>1, <1>2, <2>4 DEF RingInv
      <3>2. observed' = [observed EXCEPT ![head + 1] = r] /\ head' = (head + 1) % MaxObserved
        BY <1>5, <2>4 DEF Map!Observe, Map!NextHead
      <3>3. /\ observed' \in Seq(Remotes) /\ Len(observed') = MaxObserved
            /\ observed'[head + 1] = r
            /\ \A k \in 1 .. MaxObserved : k # head + 1 => observed'[k] = observed[k]
        BY <1>1, <3>1, <3>2 DEF RingInv
      <3>4. head' = IF head + 1 = MaxObserved THEN 0 ELSE head + 1
        BY <1>1, <3>1, <3>2
      <3>5. ASSUME NEW i \in 1 .. MaxObserved PROVE observed'[i] = new[Entered(i)']
        <4> DEFINE before == IF i > head THEN MaxObserved ELSE 0
                   after == IF i > head' THEN MaxObserved ELSE 0
        <4>1. Entered(i) = n - before + i - head /\ Entered(i)' = n + 1 - after + i - head'
          BY <2>2, <3>1, <3>3 DEF Entered
        <4> HIDE DEF n
        <4>2. CASE i = head + 1
          <5>1. Entered(i)' = n + 1
            BY <1>1, <1>2, <3>1, <3>4, <4>1, <4>2
          <5> QED BY <2>2, <3>3, <4>2, <5>1
        <4>3. CASE i # head + 1
          <5>1. Entered(i)' = Entered(i) /\ Entered(i) \in 1 .. n
            BY <1>1, <1>2, <3>1, <3>4, <4>1, <4>3
          <5>2. observed[i] = old[Entered(i)]
            BY <3>1 DEF RingInv
          <5> QED BY <2>2, <3>3, <4>3, <5>1, <5>2
        <4> QED BY <4>2, <4>3
      <3> QED BY <1>1, <1>2, <1>3, <2>2, <3>1, <3>3, <3>4, <3>5 DEF RingInv
    <2> QED BY <2>3, <2>4
  <1> QED BY <1>4, <1>5

\* What a ring in this order holds are the addresses entered last.
LEMMA OldestForgotten ==
    ASSUME Map!RemoteMapAssumption, RingInv
    PROVE  Map!ForgetsOldest
  <1> DEFINE n == Len(heard.order)
             kept == IF n <= MaxObserved THEN n ELSE MaxObserved
  <1>1. /\ MaxObserved \in Nat /\ MaxObserved > 0 /\ n \in Nat /\ Len(observed) \in Nat
        /\ head \in 0 .. MaxObserved - 1
    BY DEF Map!RemoteMapAssumption, RingInv
  <1>2. Len(observed) = kept /\ (Len(observed) < MaxObserved => head = 0)
    BY <1>1 DEF RingInv
  <1>3. \A i \in 1 .. kept : observed[i] = heard.order[Entered(i)]
    BY <1>2 DEF RingInv
  <1>4. \A i : Entered(i) = n - (IF i > head THEN kept ELSE 0) + i - head
    BY <1>2 DEF Entered
  <1> HIDE DEF n
  <1>5. \A i \in 1 .. kept : Entered(i) \in n - kept + 1 .. n
    BY <1>1, <1>2, <1>4
  <1>6. ASSUME NEW k \in n - kept + 1 .. n PROVE \E i \in 1 .. kept : Entered(i) = k
    <2> DEFINE far == k - n + head
               i == IF far > 0 THEN far ELSE far + kept
    <2>1. i \in 1 .. kept /\ Entered(i) = k
      BY <1>1, <1>2, <1>4
    <2> QED BY <2>1
  <1>7. Map!ToSet(observed) = {observed[i] : i \in 1 .. kept}
    <2>1. DOMAIN observed = 1 .. Len(observed)
      BY DEF RingInv
    <2> QED BY <1>2, <2>1 DEF Map!ToSet
  <1> HIDE DEF kept
  <1>8. {observed[i] : i \in 1 .. kept} = {heard.order[k] : k \in n - kept + 1 .. n}
    BY <1>3, <1>5, <1>6
  <1> QED BY <1>2, <1>7, <1>8 DEF Map!ForgetsOldest, kept, n

-----------------------------------------------------------------------------
(* Every step *)

RemoteInv == MapInv /\ RingInv

\* Each step changes the table, the ring or neither.
LEMMA RemoteSteps ==
    ASSUME Map!RemoteMapAssumption, RemoteInv, [Map!Next]_(Map!vars)
    PROVE  RemoteInv'
  <1> USE DEF RemoteInv
  <1>1. MaxObserved \in Nat /\ MaxObserved > 0
    BY DEF Map!RemoteMapAssumption
  <1>2. UNCHANGED <<entries, wanted, flash, saved>> => MapInv'
    BY DEF MapInv, Holds, Table, Linking, In
  <1>3. UNCHANGED <<observed, head, heard, remoteKo, lastCount>> => RingInv'
    BY DEF RingInv, Entered
  <1>4. ASSUME NEW r \in Remotes, Map!AddRemote(r) PROVE RemoteInv'
    BY <1>3, <1>4, AddKeeps DEF Map!AddRemote, Map!ring
  <1>5. ASSUME NEW r \in Remotes, Map!RemoveRemote(r) PROVE RemoteInv'
    BY <1>3, <1>5, RemoveKeeps DEF Map!RemoveRemote, Map!ring
  <1>6. ASSUME NEW r \in Remotes, Map!Observe(r) PROVE RemoteInv'
    BY <1>2, <1>6, ObserveKeeps DEF Map!Observe, Map!map
  <1>7. ASSUME NEW r \in Remotes, NEW d \in Devices, Map!LinkDevice(r, d) PROVE RemoteInv'
    BY <1>3, <1>7, LinkKeeps DEF Map!LinkDevice, Map!ring
  <1>8. ASSUME NEW r \in Remotes, NEW d \in Devices, Map!UnlinkDevice(r, d) PROVE RemoteInv'
    BY <1>3, <1>8, UnlinkKeeps DEF Map!UnlinkDevice, Map!ring
  <1>9. CASE Map!Save
    <2>1. /\ flash' = entries /\ saved' = wanted /\ entries' = entries /\ wanted' = wanted
          /\ UNCHANGED <<observed, head, heard, remoteKo, lastCount>>
      BY <1>9 DEF Map!Save, Map!map, Map!ring
    <2> QED BY <1>3, <2>1 DEF MapInv
  <1>10. CASE Map!Restart
    <2>1. /\ entries' = flash /\ wanted' = saved /\ flash' = flash /\ saved' = saved
          /\ observed' = <<>> /\ head' = 0 /\ remoteKo' = NoRemote /\ lastCount' = 0
          /\ heard' = [heard EXCEPT !.order = <<>>]
      BY <1>10 DEF Map!Restart
    <2>2. MapInv'
      BY <2>1 DEF MapInv
    <2>3. heard = [order |-> heard.order, last |-> heard.last]
      BY DEF RingInv
    <2>4. heard'.order = <<>> /\ heard' = [order |-> heard'.order, last |-> heard'.last]
      BY <2>1, <2>3
    <2>5. <<>> \in Seq(Remotes) /\ Len(<<>>) = 0
      OBVIOUS
    <2>6. RingInv'
      BY <1>1, <2>1, <2>4, <2>5 DEF RingInv
    <2> QED BY <2>2, <2>6
  <1>11. CASE Map!Loop
    <2>1. UNCHANGED <<entries, wanted, flash, saved, observed, head, heard>>
      BY <1>11 DEF Map!Loop, Map!map, Map!ring
    <2>2. remoteKo' \in Remotes \cup {NoRemote} /\ lastCount' \in 0 .. MaxObserved
      <3>1. Len(observed) \in Nat /\ Len(observed) <= MaxObserved /\ lastCount \in Nat
        BY DEF RingInv
      <3>2. Len(observed) > lastCount => observed[Len(observed)] \in Remotes
        BY <3>1 DEF RingInv
      <3> QED BY <1>11, <3>1, <3>2 DEF Map!Loop, RingInv
    <2>3. RingInv'
      BY <2>1, <2>2 DEF RingInv, Entered
    <2> QED BY <1>2, <2>1, <2>3
  <1>12. CASE UNCHANGED Map!vars
    BY <1>2, <1>3, <1>12 DEF Map!vars, Map!map, Map!ring
  <1> QED BY <1>4, <1>5, <1>6, <1>7, <1>8, <1>9, <1>10, <1>11, <1>12 DEF Map!Next

\* The types of the remote map follow.
LEMMA RemoteTypes == ASSUME Map!RemoteMapAssumption, RemoteInv PROVE Map!TypeOK
  <1>1. ASSUME NEW i \in Map!Slots
        PROVE  /\ entries[i].address \in Remotes \cup {NoRemote}
               /\ Len(entries[i].links) <= MaxLinks /\ Map!IsInjective(entries[i].links)
    <2>1. entries[i] \in Entry /\ Len(entries[i].links) <= MaxLinks
      BY DEF RemoteInv, MapInv, Table
    <2>2. \A a, b \in 1 .. Len(entries[i].links) :
              entries[i].links[a] = entries[i].links[b] => a = b
      BY DEF RemoteInv, MapInv, Table
    <2>3. DOMAIN entries[i].links = 1 .. Len(entries[i].links)
      BY <2>1 DEF Entry
    <2> QED BY <2>1, <2>2, <2>3 DEF Entry, Map!IsInjective
  <1> QED BY <1>1 DEF RemoteInv, RingInv, Map!TypeOK

\* A remote that is heard causes polls of the devices linked to it and not unlinked since,
\* whatever was added, removed and saved in between, and the ring of addresses heard forgets
\* the one entered longest ago: RemotesKept, for every size of both tables.
THEOREM RemotesAreKept ==
    ASSUME Map!RemoteMapAssumption
    PROVE  Map!Spec => []RemotesKept
  <1>1. Map!Init => RemoteInv
    BY MapStarts, RingStarts DEF RemoteInv
  <1>2. RemoteInv /\ [Map!Next]_(Map!vars) => RemoteInv'
    BY RemoteSteps
  <1>3. RemoteInv => RemotesKept
    BY RemoteTypes, PollsFollow, OldestForgotten DEF RemoteInv, RemotesKept
  <1> QED BY <1>1, <1>2, <1>3, PTL DEF Map!Spec
=============================================================================
