------------------------------ MODULE Enrollment ------------------------------
(***************************************************************************)
(* 1W enrollment by IoHomeController: the bursts ANNOUNCE, REMOVE, ADD to  *)
(* each destination class, STOP and DOWN, each of one frame repeated at an *)
(* interval, with the rolling numbers they take, the window that ADD opens *)
(* in the actuator, the trace that tells what was sent and the outcome.    *)
(* Nothing is ever answered: the radio's TxDone is all the controller has. *)
(*                                                                         *)
(* The ControllerState PairSend1W<phase>, PairWait1W<phase> is the pair    *)
(* step, phase.  A radio that is Busy while it is being configured makes   *)
(* the handler return without a change: a stuttering step.                 *)
(***************************************************************************)
EXTENDS Naturals, Sequences

CONSTANTS
    Modes,              \* which Pairing1WMode are requested, a subset of EnrollmentModes
    DestinationCounts,  \* values of pairing1WAddDestinationCount
    Finalizers,         \* values of "mPairing1WFinalizer is StopDown"
    Repeats,            \* IOHC_1W_REPEAT_COUNT
    RepeatInterval,     \* IOHC_1W_REPEAT_INTERVAL_MS
    EnrollTimeout,      \* IOHC_PAIR_TIMEOUT_MS
    TxTimeout,          \* currentTxTimeoutMs
    FinalizerDelay,     \* IOHC_1W_ENROLL_FINALIZER_DELAY_MS
    Window,             \* IOHC_1W_ENROLL_FINALIZER_DEADLINE_MS
    TraceSize,          \* kOneWayEnrollmentTraceSize
    MaxStarts,          \* bound: enrollments
    MaxBusy,            \* bound: announcements the radio takes as Busy
    RadioFails          \* whether the driver may refuse an operation

EnrollmentModes == {"AnnounceOnly", "AnnounceAdd", "AddOnly", "Remove", "RemoveAdd"}
Phases == {"Announce", "Remove", "Add", "Stop", "Down"}

EnrollmentAssumption ==
    /\ Modes \subseteq EnrollmentModes /\ DestinationCounts \subseteq Nat \ {0}
    /\ Finalizers \subseteq BOOLEAN /\ RadioFails \in BOOLEAN
    /\ {Repeats, RepeatInterval, EnrollTimeout, TxTimeout, FinalizerDelay, Window, TraceSize,
        MaxStarts, MaxBusy} \subseteq Nat

VARIABLES
    step, phase,        \* mState
    mode,               \* mPairing1WMode
    destinations,       \* pairing1WAddDestinationCount()
    finalizer,          \* mPairing1WFinalizer = StopDown
    known,              \* mDiscoveredNodeId # 0
    index,              \* mPairing1WAddDestinationIndex
    addSequence,        \* mPairing1WAddSequence
    remaining,          \* mTx1WRepeatRemaining
    paused, pauseAge,   \* mTx1WRepeatTimer # 0, and the time since
    onAir,              \* the radio transmits
    age, stateAge,      \* time since mPairingStartTime, mStateTimer
    openAge,            \* time since mPairing1WEnrollmentOpenedAt
    outcome,            \* mPairingTelemetry.outcome
    trace, active,      \* mOneWayEnrollmentTrace, mOneWayEnrollmentActiveTrace
    sequence,           \* the profile's counter
    paired, target, enrolled,    \* the channel: node id, configured target, enrollment flag
    starts, busy,       \* counted for the bounds
    log,                \* history: the bursts of this enrollment, with the copies sent
    floor,              \* history: the counter before this enrollment
    windowAge           \* history: time since the first ADD went on the air

machine  == <<step, phase, mode, destinations, finalizer, known>>
burst    == <<index, addSequence, remaining, paused, onAir>>
clocks   == <<pauseAge, age, stateAge, openAge>>
report   == <<outcome, trace, active>>
channel  == <<paired, target, enrolled>>
bounds   == <<starts, busy>>
history  == <<log, floor, windowAge>>
vars == <<machine, burst, clocks, report, sequence, channel, bounds, history>>

Init ==
    /\ step = "Idle" /\ phase = "Remove" /\ mode = "RemoveAdd"
    /\ destinations = 1 /\ finalizer = FALSE /\ known = FALSE
    /\ index = 0 /\ addSequence = 0 /\ remaining = 0 /\ paused = FALSE /\ onAir = FALSE
    /\ pauseAge = 0 /\ age = 0 /\ stateAge = 0 /\ openAge = 0
    /\ outcome = "None" /\ trace = <<>> /\ active = 0
    /\ sequence = 0
    /\ paired \in BOOLEAN /\ target = FALSE /\ enrolled \in BOOLEAN
    /\ starts = 0 /\ busy = 0
    /\ log = <<>> /\ floor = 0 /\ windowAge = 0

-----------------------------------------------------------------------------
(* The trace and the outcome *)

\* completePairingTelemetry: only an enrollment in progress takes an outcome.
Told(o) == IF outcome = "InProgress" THEN o ELSE outcome

Entry(p, dest, n, ok) == [phase |-> p, dest |-> dest, seq |-> n, ok |-> ok]

\* recordOneWayEnrollmentPhase: a full trace takes no more entries.
Recorded(t, e) == IF Len(t) < TraceSize THEN Append(t, e) ELSE t

\* completeOneWayEnrollmentPhase on the active entry, if there is one.
Marked(ok) == IF active = 0 THEN trace ELSE [trace EXCEPT ![active].ok = ok]

\* failOneWayEnrollment
FailEnrollment ==
    /\ trace' = Recorded(Marked(FALSE), Entry("Failed", 0, 0, FALSE)) /\ active' = 0
    /\ outcome' = Told("ConfigurationFailure")
    /\ step' = "PairFailed"

\* Every failure but that of an announcement is traced and told at once.
Fail ==
    /\ \/ phase # "Announce" /\ FailEnrollment
       \/ phase = "Announce" /\ step' = "PairFailed" /\ UNCHANGED report
    /\ onAir' = FALSE
    /\ UNCHANGED <<phase, index, addSequence, remaining, paused, channel>>

-----------------------------------------------------------------------------
(* Starting, cancelling and the end *)

FirstPhase(md) == CASE md \in {"Remove", "RemoveAdd"} -> "Remove"
                    [] md = "AddOnly" -> "Add"
                    [] OTHER -> "Announce"

\* startPairing on a 1W channel.  The console may have set a target before.
StartEnrollment ==
    /\ step = "Idle"
    /\ starts < MaxStarts /\ starts' = starts + 1
    /\ mode' \in Modes /\ destinations' \in DestinationCounts /\ finalizer' \in Finalizers
    /\ target' \in {target, TRUE}
    /\ known' = (paired \/ target')
    /\ step' = "Send" /\ phase' = FirstPhase(mode')
    /\ index' = 0 /\ addSequence' = 0 /\ remaining' = 0 /\ paused' = FALSE
    /\ age' = 0 /\ stateAge' = 0 /\ openAge' = 0 /\ pauseAge' = 0
    /\ outcome' = "InProgress" /\ trace' = <<>> /\ active' = 0
    /\ log' = <<>> /\ floor' = sequence /\ windowAge' = 0
    /\ UNCHANGED <<onAir, sequence, paired, enrolled, busy>>

CancelPairing ==
    /\ step \notin {"Idle"}
    /\ step' = "Idle" /\ onAir' = FALSE      \* startReceive
    /\ outcome' = Told("Cancelled")
    /\ UNCHANGED <<phase, mode, destinations, finalizer, known, index, addSequence, remaining,
                   paused, clocks, trace, active, sequence, channel, bounds, history>>

\* loop() in PairFailed: a target that was never paired is forgotten.
PairFailed ==
    /\ step = "PairFailed"
    /\ step' = "Idle"
    /\ target' = (target /\ (paired \/ ~ known))
    /\ outcome' = Told("NoResponse")
    /\ UNCHANGED <<phase, mode, destinations, finalizer, known, burst, clocks, trace, active,
                   sequence, paired, enrolled, bounds, history>>

PairComplete ==
    /\ step = "PairComplete"
    /\ step' = "Idle"
    /\ outcome' = Told("Transmitted")
    /\ UNCHANGED <<phase, mode, destinations, finalizer, known, burst, clocks, trace, active,
                   sequence, channel, bounds, history>>

-----------------------------------------------------------------------------
(* Sending the first copy of a burst *)

\* The ADDs to all destinations share the number the first one draws.
Draws == phase # "Add" \/ index = 0

\* DOWN and the gap before it are tested against the window that ADD opened,
\* the other phases against the time limit of the enrollment.
TooLate == IF phase = "Down" \/ step = "Gap" THEN openAge >= Window ELSE age > EnrollTimeout

Opens == phase = "Add" /\ index = 0

Refused ==
    /\ step = "Send"
    /\ TooLate \/ RadioFails     \* standby, configureTxRadio
    /\ Fail
    /\ UNCHANGED <<mode, destinations, finalizer, known, clocks, sequence, bounds, history>>

\* The phase is recorded and the number taken before the radio is asked.
Prepared ==
    /\ step = "Send" /\ ~ TooLate
    /\ sequence' = IF Draws THEN sequence + 1 ELSE sequence
    /\ addSequence' = IF phase = "Add" /\ Draws THEN sequence' ELSE addSequence

\* Number of the frame, once Prepared.
FrameSequence == IF phase = "Add" THEN addSequence' ELSE sequence'

SendBurst ==
    /\ Prepared
    /\ \/ /\ phase = "Announce" /\ UNCHANGED <<trace, active>>
       \/ /\ phase # "Announce"
          /\ trace' = Recorded(trace, Entry(phase, index, FrameSequence, FALSE))
          /\ active' = IF Len(trace) < TraceSize THEN Len(trace) + 1 ELSE active
    /\ log' = Append(log, [phase |-> phase, dest |-> index, seq |-> FrameSequence, copies |-> 0])
    /\ step' = "Wait"
    /\ remaining' = Repeats /\ paused' = FALSE /\ onAir' = TRUE
    /\ stateAge' = 0
    /\ openAge' = IF Opens THEN 0 ELSE openAge
    /\ windowAge' = IF \E i \in DOMAIN log : log[i].phase = "Add" THEN windowAge ELSE 0
    /\ UNCHANGED <<phase, mode, destinations, finalizer, known, index, pauseAge, age, outcome,
                   channel, bounds, floor>>

\* startTransmit is Busy: only an announcement tries again, with a new number.
BusyAnnounce ==
    /\ phase = "Announce" /\ busy < MaxBusy
    /\ Prepared
    /\ busy' = busy + 1
    /\ UNCHANGED <<step, phase, mode, destinations, finalizer, known, index, remaining, paused, onAir,
                   clocks, report, channel, starts, history>>

\* startTransmit refuses: the entry just recorded fails.
RefusedByRadio ==
    /\ RadioFails /\ Prepared
    /\ \/ /\ phase = "Announce"
          /\ step' = "PairFailed" /\ UNCHANGED report
       \/ /\ phase # "Announce"
          /\ LET t == Recorded(trace, Entry(phase, index, FrameSequence, FALSE))
             IN  trace' = Recorded(t, Entry("Failed", 0, 0, FALSE))
          /\ active' = 0
          /\ outcome' = Told("ConfigurationFailure")
          /\ step' = "PairFailed"
    /\ UNCHANGED <<phase, mode, destinations, finalizer, known, index, remaining, paused, onAir,
                   clocks, channel, bounds, history>>

-----------------------------------------------------------------------------
(* processPairWait1WBlind: the copies of a burst *)

BurstOver == remaining = 0

MarkActive == trace' = Marked(TRUE) /\ active' = 0

\* completeOneWayEnrollment
Enroll ==
    /\ trace' = Recorded(Marked(TRUE), Entry("Complete", 0, 0, TRUE)) /\ active' = 0
    /\ outcome' = Told("Transmitted")
    /\ paired' = (paired \/ known)
    /\ target' = (target /\ known)
    /\ enrolled' = TRUE
    /\ step' = "PairComplete"

GoOn(s, p) == step' = s /\ phase' = p /\ UNCHANGED <<outcome, channel>>

\* Mutant: the ADDs go one past the last destination.
PastDestination == index >= destinations

LastDestination == index + 1 >= destinations

AfterAnnounce ==
    /\ phase = "Announce" /\ UNCHANGED <<trace, active>>
    /\ \/ /\ mode # "AnnounceOnly"
          /\ GoOn("Send", "Add") /\ UNCHANGED index
       \/ /\ mode = "AnnounceOnly" /\ ~ LastDestination
          /\ GoOn("Send", "Announce") /\ index' = index + 1
       \/ /\ mode = "AnnounceOnly" /\ LastDestination
          /\ GoOn("PairComplete", phase) /\ UNCHANGED index

\* Mutant: a removal that an ADD follows clears the flag, too.
RemovesAny == TRUE

RemovesOnly == mode = "Remove"

AfterRemove ==
    /\ phase = "Remove" /\ UNCHANGED index
    /\ \/ /\ mode = "RemoveAdd" /\ MarkActive
          /\ step' = "Send" /\ phase' = "Add"
          /\ enrolled' = (enrolled /\ ~ RemovesOnly)
          /\ UNCHANGED <<outcome, paired, target>>
       \/ /\ mode # "RemoveAdd"
          /\ step' = "PairComplete"
          /\ paired' = FALSE /\ enrolled' = (enrolled /\ ~ RemovesOnly)
          /\ trace' = Recorded(Marked(TRUE), Entry("Complete", 0, 0, TRUE)) /\ active' = 0
          /\ UNCHANGED <<phase, outcome, target>>

\* Mutant: the STOP of the finalizer is left out.
FinalizerDownOnly == "Down"

FinalizerPhase == "Stop"

AfterAdd ==
    /\ phase = "Add"
    /\ \/ /\ ~ LastDestination
          /\ MarkActive /\ GoOn("Send", "Add") /\ index' = index + 1
       \/ /\ LastDestination /\ finalizer
          /\ MarkActive /\ GoOn("Send", FinalizerPhase) /\ UNCHANGED index
       \/ /\ LastDestination /\ ~ finalizer
          /\ Enroll /\ UNCHANGED <<phase, index>>

AfterStop == phase = "Stop" /\ MarkActive /\ GoOn("Gap", phase) /\ UNCHANGED index

AfterDown == phase = "Down" /\ Enroll /\ UNCHANGED <<phase, index>>

\* isTxDone
CopyDone ==
    /\ step = "Wait" /\ age <= EnrollTimeout
    /\ ~ paused /\ onAir
    /\ onAir' = FALSE
    /\ log' = [log EXCEPT ![Len(log)].copies = @ + 1]
    /\ \/ /\ ~ BurstOver
          /\ remaining' = remaining - 1
          /\ paused' = TRUE /\ pauseAge' = 0
          /\ UNCHANGED <<step, phase, index, stateAge, report, channel>>
       \/ /\ BurstOver
          /\ AfterAnnounce \/ AfterRemove \/ AfterAdd \/ AfterStop \/ AfterDown
          /\ stateAge' = 0      \* read in the gap and after the next transmission only
          /\ UNCHANGED <<remaining, paused, pauseAge>>
    /\ UNCHANGED <<mode, destinations, finalizer, known, addSequence, age, openAge, sequence,
                   bounds, floor, windowAge>>

\* A Busy radio is not asked again: nothing is on the air until the timeout.
NextCopy ==
    /\ step = "Wait" /\ age <= EnrollTimeout
    /\ paused /\ pauseAge >= RepeatInterval
    /\ paused' = FALSE /\ pauseAge' = 0
    /\ \/ onAir' = TRUE /\ stateAge' = 0
       \/ RadioFails /\ UNCHANGED <<onAir, stateAge>>
    /\ UNCHANGED <<machine, index, addSequence, remaining, age, openAge, report, sequence, channel,
                   bounds, history>>

BurstFails ==
    /\ step = "Wait"
    /\ \/ age > EnrollTimeout
       \/ paused /\ pauseAge >= RepeatInterval /\ RadioFails
       \/ ~ paused /\ stateAge > TxTimeout
    /\ Fail
    /\ UNCHANGED <<mode, destinations, finalizer, known, clocks, sequence, bounds, history>>

\* processPairWait1WFinalizerGap
FinalizerGap ==
    /\ step = "Gap"
    /\ \/ TooLate /\ Fail
       \/ /\ ~ TooLate /\ stateAge >= FinalizerDelay
          /\ step' = "Send" /\ phase' = "Down"
          /\ UNCHANGED <<burst, report, channel>>
    /\ UNCHANGED <<mode, destinations, finalizer, known, clocks, sequence, bounds, history>>

-----------------------------------------------------------------------------
(* Time, and the specification *)

Running == step \in {"Send", "Wait", "Gap"}

Least(a, b) == IF a < b THEN a ELSE b

\* Every age stops at the value past which no handler tells it apart.
Tick ==
    /\ Running
    /\ age' = Least(age + 1, EnrollTimeout + 1)
    /\ stateAge' = IF step = "Send" THEN 0
                   ELSE Least(stateAge + 1, IF step = "Gap" THEN FinalizerDelay ELSE TxTimeout + 1)
    /\ pauseAge' = IF paused THEN Least(pauseAge + 1, RepeatInterval) ELSE 0
    /\ openAge' = IF phase \in {"Add", "Stop", "Down"} THEN Least(openAge + 1, Window) ELSE 0
    /\ windowAge' = IF phase \in {"Add", "Stop", "Down"} THEN Least(windowAge + 1, Window) ELSE 0
    /\ UNCHANGED <<machine, burst, report, sequence, channel, bounds, log, floor>>

Sends == SendBurst \/ Refused \/ BusyAnnounce \/ RefusedByRadio
Waits == CopyDone \/ NextCopy \/ BurstFails \/ FinalizerGap

Ends == PairFailed \/ PairComplete

Next == StartEnrollment \/ CancelPairing \/ Sends \/ Waits \/ Ends \/ Tick

Spec == Init /\ [][Next]_vars

-----------------------------------------------------------------------------
(* Properties *)

TypeOK ==
    /\ step \in {"Idle", "Send", "Wait", "Gap", "PairComplete", "PairFailed"}
    /\ phase \in Phases /\ mode \in EnrollmentModes
    /\ destinations \in Nat \ {0} /\ index \in 0..destinations - 1
    /\ {finalizer, known, paused, onAir, paired, target, enrolled} \subseteq BOOLEAN
    /\ {addSequence, sequence, floor, starts, busy} \subseteq Nat
    /\ remaining \in 0..Repeats /\ pauseAge \in 0..RepeatInterval
    /\ age \in 0..EnrollTimeout + 1 /\ openAge \in 0..Window /\ windowAge \in 0..Window
    /\ stateAge \in Nat
    /\ outcome \in {"None", "InProgress", "Transmitted", "ConfigurationFailure", "NoResponse",
                    "Cancelled"}
    /\ Len(trace) <= TraceSize /\ active \in 0..Len(trace)

Burst(p, d) == [phase |-> p, dest |-> d]
Sweep(p) == [i \in 1..destinations |-> Burst(p, i - 1)]

\* The enrollment gesture of README.md:76, as bursts in their order.
Gesture ==
    LET opening == CASE mode = "AnnounceOnly" -> Sweep("Announce")
                     [] mode = "AnnounceAdd" -> <<Burst("Announce", 0)>>
                     [] mode \in {"Remove", "RemoveAdd"} -> <<Burst("Remove", 0)>>
                     [] mode = "AddOnly" -> <<>>
        last    == destinations - 1
        closing == IF finalizer THEN <<Burst("Stop", last), Burst("Down", last)>> ELSE <<>>
    IN  IF mode \in {"AnnounceOnly", "Remove"} THEN opening
        ELSE opening \o Sweep("Add") \o closing

Full(b) == b.copies = Repeats + 1

\* The bursts on the air are those of the gesture in its order, none left out,
\* and none begins before the one before it was sent in all its copies:
\* nothing else of the channel comes between (README.md:82).
GestureInOrder ==
    /\ Len(log) <= Len(Gesture)
    /\ \A i \in DOMAIN log :
        /\ Burst(log[i].phase, log[i].dest) = Gesture[i]
        /\ i < Len(log) => Full(log[i])

WholeGesture == Len(log) = Len(Gesture) /\ \A i \in DOMAIN log : Full(log[i])

\* The channel becomes enrolled or loses its enrollment, and the outcome says
\* transmitted, only when every copy of every burst of the gesture has left
\* the radio.
OnlyAfterWholeGesture ==
    [][\/ enrolled' # enrolled
       \/ outcome' = "Transmitted" /\ outcome # "Transmitted"
       => WholeGesture']_vars

\* All ADDs of an enrollment share one number; every other burst has a number
\* of its own, and none is taken from an earlier enrollment.
SequencesFresh ==
    \A i, j \in DOMAIN log :
        /\ log[i].seq > floor
        /\ i # j => (log[i].seq = log[j].seq <=> log[i].phase = "Add" /\ log[j].phase = "Add")

\* DOWN begins while the window the first ADD opened in the actuator is open,
\* however late the handlers run.
DownInWindow ==
    [][Len(log') = Len(log) + 1 /\ log'[Len(log')].phase = "Down" => windowAge < Window]_vars

Traced(b) == \E i \in DOMAIN trace :
    trace[i].phase = b.phase /\ trace[i].dest = b.dest /\ trace[i].seq = b.seq /\ trace[i].ok

EndsIn(p) == trace # <<>> /\ trace[Len(trace)].phase = p

\* The trace calls exactly those bursts a success that were sent in all their
\* copies, and its last entry tells how the enrollment ended; it is never too
\* short for that.
TraceTellsTheTruth ==
    /\ \A i \in DOMAIN log : log[i].phase # "Announce" => (Traced(log[i]) <=> Full(log[i]))
    /\ outcome = "ConfigurationFailure" => EndsIn("Failed")
    /\ outcome = "Transmitted" /\ mode # "AnnounceOnly" => EndsIn("Complete")

\* An enrollment takes effect on the channel when its gesture went out as a whole, and on
\* the actuator, whose window closes, when DOWN comes in time.
GestureTakesEffect == OnlyAfterWholeGesture /\ DownInWindow

\* An enrollment that is over has been told.
EndIsTold == step = "Idle" => outcome # "InProgress"

\* Every enrollment ends, whatever the radio does.
Concludes == outcome = "InProgress" ~> outcome # "InProgress"
=============================================================================
