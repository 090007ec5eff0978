--------------------------- MODULE ChannelObjects ---------------------------
(***************************************************************************)
(* What a channel makes of the bus objects: positions, up and down, scenes *)
(* that are called and learned, the lock, the wind alarm, and what it does *)
(* after a restart.  Positions are those of the device; the bus and the    *)
(* settings see them turned around when the direction is inverted.         *)
(***************************************************************************)
EXTENDS Integers

CONSTANTS
    Full,               \* the last position (100 percent)
    Scenes,             \* configured scenes
    Kinds,              \* kinds of device: see Kind
    Behaviours,         \* after a restart: "nothing", "status" or "restore"
    MaxRestarts         \* bound

\* A shutter has positions, a window is closed by the wind alarm, a dimmable light has
\* scenes that cannot be learned, a switch has two states.
Kind == {"shutter", "window", "dimmable", "switch"}

ObjectsAssumption ==
    /\ {Full, MaxRestarts} \subseteq Nat /\ Full > 0 /\ Kinds \subseteq Kind
    /\ Behaviours \subseteq {"nothing", "status", "restore"}

None == -1                                      \* no position, 0xFF
Position == 0 .. Full
Actions == {"position", "favourite", "ventilation"}     \* SceneAction

VARIABLES
    kind, inverted, behaviour, action,  \* settings; action of each scene
    ets, ram,                           \* scene positions in the settings; mScenePositions
    current, isMoving,                  \* mCurrentPosition, mIsMoving
    feedback, status,                   \* the position and the on/off status object
    locked,                             \* mLocked
    sent,                               \* the last command queued: its kind and position
    learned,                            \* position of the device when a scene was learned
    restarts

settings == <<kind, inverted, behaviour, action>>
scenes == <<ets, ram, learned>>
state  == <<current, isMoving, feedback, status>>
vars == <<settings, scenes, state, locked, sent, restarts>>

Binary == kind = "switch"                       \* isBinaryDeviceType, not dimmable
\* The direction of the bus and of the settings.
Turned(p) == IF inverted THEN Full - p ELSE p
Reachable == IF Binary THEN {0, Full} ELSE Position

\* publishPositionFeedback, publishBinaryStatus
Publish(p) ==
    /\ current' = p /\ feedback' = Turned(p)
    /\ status' = IF Binary THEN 2 * p >= Full ELSE status

Init ==
    /\ kind \in Kinds /\ inverted \in BOOLEAN /\ behaviour \in Behaviours
    /\ action \in [Scenes -> Actions]
    /\ ets \in [Scenes -> {None, 1}] /\ ram = ets
    /\ current = 0 /\ isMoving = FALSE /\ feedback = 0 /\ status = FALSE
    /\ locked = FALSE /\ sent = [what |-> "nothing", to |-> None]
    /\ learned = [s \in Scenes |-> None] /\ restarts = 0

-----------------------------------------------------------------------------
(* Commands *)

Send(what, to) == sent' = [what |-> what, to |-> to]
SendPosition(p) == Send("position", p)
SendUpDown(down) == Send("position", IF down THEN Full ELSE 0)

\* Only the lock and the wind alarm pass the lock.
Unlocked == ~locked

PositionObject(p) == Unlocked /\ SendPosition(Turned(p)) /\ UNCHANGED <<settings, scenes, state, locked, restarts>>

UpDownObject(down) ==
    /\ Unlocked /\ SendUpDown(down # inverted)
    /\ UNCHANGED <<settings, scenes, state, locked, restarts>>

OnOffObject(on) ==
    /\ Unlocked /\ SendPosition(IF on THEN Full ELSE 0)
    /\ UNCHANGED <<settings, scenes, state, locked, restarts>>

StopObject == Unlocked /\ Send("stop", None) /\ UNCHANGED <<settings, scenes, state, locked, restarts>>

FavouriteObject == Unlocked /\ Send("favourite", None) /\ UNCHANGED <<settings, scenes, state, locked, restarts>>

\* handleStepStop
StepStopObject(down) ==
    /\ Unlocked
    /\ IF isMoving THEN Send("stop", None) ELSE SendUpDown(down # inverted)
    /\ UNCHANGED <<settings, scenes, state, locked, restarts>>

LockObject(lock) == locked' = lock /\ UNCHANGED <<settings, scenes, state, sent, restarts>>

\* handleWindAlarm: a window closes, everything else goes up.
WindAlarm ==
    /\ IF kind = "window" THEN SendPosition(0) ELSE SendUpDown(FALSE)
    /\ UNCHANGED <<settings, scenes, state, locked, restarts>>

-----------------------------------------------------------------------------
(* Scenes *)

\* sceneToDevicePosition
SceneToDevice(p) == Turned(p)

\* handleSceneRecall (a dimmable light is sent 0xFF too): what calling scene s sends; nothing when it has no position.  Neither
\* favourite nor ventilation is a learned position, and ventilation sends nothing in 2W.
Recalled(s) ==
    IF kind = "switch" THEN [what |-> "position", to |-> IF ram[s] # 0 THEN Full ELSE 0]
    ELSE IF kind = "dimmable" THEN [what |-> "position", to |-> IF ram[s] = None THEN None ELSE SceneToDevice(ram[s])]
    ELSE IF action[s] = "favourite" THEN [what |-> "favourite", to |-> None]
    ELSE IF action[s] = "ventilation" \/ ram[s] = None THEN sent
    ELSE [what |-> "position", to |-> SceneToDevice(ram[s])]

\* The objects of scenes: DPT 17.001, and DPT 18.001 without the bit for learning.
Recall(s) == Unlocked /\ sent' = Recalled(s) /\ UNCHANGED <<settings, scenes, state, locked, restarts>>

Learnable(s) == kind \in {"shutter", "window"} /\ action[s] = "position"

\* Mutant: what is learned stays in memory.
StoreInMemory(s, p) == ram' = [ram EXCEPT ![s] = p] /\ UNCHANGED ets
\* storeSceneStateToEts
Store(s, p) == ets' = [ets EXCEPT ![s] = p] /\ ram' = [ram EXCEPT ![s] = p]

\* handleSceneControl with the bit for learning
Learn(s) ==
    /\ Unlocked /\ Learnable(s)
    /\ Store(s, Turned(current)) /\ learned' = [learned EXCEPT ![s] = current]
    /\ UNCHANGED <<settings, state, locked, sent, restarts>>

-----------------------------------------------------------------------------
(* The device, and restarts *)

Report(p, moving) ==
    /\ p \in Reachable /\ Publish(p) /\ isMoving' = moving
    /\ UNCHANGED <<settings, scenes, locked, sent, restarts>>

\* restoreLastKnownStateAfterStartup
Restored(shown, on) == IF Binary THEN IF on THEN Full ELSE 0 ELSE Turned(shown)

\* setup(), loadSceneConfiguration and processAfterStartupDelay.  writeFlash saves neither
\* object, the bus is not asked for them (IoHomecontrol.templ.xml:157): both are zero.
Restart ==
    /\ restarts < MaxRestarts /\ restarts' = restarts + 1
    /\ ram' = ets /\ locked' = FALSE /\ isMoving' = FALSE
    /\ feedback' = 0 /\ status' = FALSE
    /\ IF behaviour = "restore"
       THEN current' = Restored(feedback', status') /\ SendPosition(current')
       ELSE current' = 0 /\ Send(IF behaviour = "status" THEN "status" ELSE "nothing", None)
    /\ UNCHANGED <<settings, ets, learned>>

Next ==
    \/ \E p \in Position : PositionObject(p) \/ \E moving \in BOOLEAN : Report(p, moving)
    \/ \E b \in BOOLEAN : UpDownObject(b) \/ OnOffObject(b) \/ StepStopObject(b) \/ LockObject(b)
    \/ StopObject \/ FavouriteObject \/ WindAlarm \/ Restart
    \/ \E s \in Scenes : Recall(s) \/ Learn(s)

Spec == Init /\ [][Next]_vars

-----------------------------------------------------------------------------
(* Properties *)

TypeOK ==
    /\ ets \in [Scenes -> Position \cup {None}] /\ ram \in [Scenes -> Position \cup {None}]
    /\ current \in Position /\ feedback \in Position
    /\ {isMoving, status, locked} \subseteq BOOLEAN
    /\ sent.to \in Position \cup {None}

\* A scene that was learned brings the device back to where it was, whatever the direction
\* of the settings, and after a restart too (storeSceneStateToEts, handleSceneRecall).
RecallReturns ==
    \A s \in Scenes : learned[s] # None => Recalled(s) = [what |-> "position", to |-> learned[s]]

\* Settings that restore the last position send the device where it last said it was: "Das
\* Modul sendet nach dem Neustart den zuletzt gespeicherten Zustand erneut"
\* (doc/Applikationsbeschreibung-IoHomecontrol.md:474).
RestartHoldsStill ==
    [][Restart /\ behaviour = "restore" /\ feedback = Turned(current)
         => sent' = [what |-> "position", to |-> current]]_vars
=============================================================================
