---------------------------- MODULE CommandQueue ----------------------------
(***************************************************************************)
(* The circular command queue of IoHomeController (mCmdQueue, mQueueHead,  *)
(* mQueueTail).  One slot stays free to tell a full queue from an empty    *)
(* one.  A popped slot keeps its old contents, as in the code.             *)
(***************************************************************************)
EXTENDS Integers, Sequences

CONSTANTS Command,          \* what an entry asks for; opaque here
          Attempts,         \* the values callers put into maxAttempts
          DefaultAttempts,  \* IOHC_EXCHANGE_MAX_ATTEMPTS
          QueueSize,        \* IOHC_CMD_QUEUE_SIZE
          NoEntry           \* a slot never written, an output never assigned

ASSUME QueueSizeAssumption == QueueSize \in Nat /\ QueueSize > 1
ASSUME AttemptsAssumption  == Attempts \subseteq Nat /\ DefaultAttempts \in Nat \ {0}

Request == [cmd : Command, background : BOOLEAN, maxAttempts : Attempts]
Entry   == [cmd : Command, background : BOOLEAN,
            maxAttempts : (Attempts \cup {DefaultAttempts}) \ {0}]

ASSUME NoEntryAssumption == NoEntry \notin Entry

VARIABLES mCmdQueue,    \* the slots
          mQueueHead,   \* the next slot to write
          mQueueTail,   \* the oldest entry
          taken         \* the entry the last pop handed out, NoEntry if none

vars == <<mCmdQueue, mQueueHead, mQueueTail, taken>>

Slots == 0 .. QueueSize - 1

Init ==
    /\ mCmdQueue = [s \in Slots |-> NoEntry]
    /\ mQueueHead = 0
    /\ mQueueTail = 0
    /\ taken = NoEntry

Succ(s) == (s + 1) % QueueSize
Prev(s) == (s + QueueSize - 1) % QueueSize

\* How far slot s lies behind the tail, and how many entries are queued.
Offset(s) == (s + QueueSize - mQueueTail) % QueueSize
Count     == Offset(mQueueHead)

queueEmpty == mQueueTail = mQueueHead

\* maxAttempts 0 means the default.
Normalised(r) ==
    IF r.maxAttempts = 0 THEN [r EXCEPT !.maxAttempts = DefaultAttempts] ELSE r

\* Mutant: the head leaves the array.
QueuePushNoWrap(r) ==
    /\ Succ(mQueueHead) # mQueueTail
    /\ mCmdQueue' = [mCmdQueue EXCEPT ![mQueueHead] = Normalised(r)]
    /\ mQueueHead' = mQueueHead + 1
    /\ UNCHANGED <<mQueueTail, taken>>

\* queuePush: false (and no change) when full.
QueuePush(r) ==
    /\ Succ(mQueueHead) # mQueueTail
    /\ mCmdQueue' = [mCmdQueue EXCEPT ![mQueueHead] = Normalised(r)]
    /\ mQueueHead' = Succ(mQueueHead)
    /\ UNCHANGED <<mQueueTail, taken>>

\* Mutant: an empty queue is popped.
QueuePopUnguarded ==
    /\ taken' = mCmdQueue[mQueueTail]
    /\ mQueueTail' = Succ(mQueueTail)
    /\ UNCHANGED <<mCmdQueue, mQueueHead>>

\* queuePop: the oldest entry, or false.
QueuePop ==
    IF queueEmpty
    THEN taken' = NoEntry /\ UNCHANGED <<mCmdQueue, mQueueHead, mQueueTail>>
    ELSE /\ taken' = mCmdQueue[mQueueTail]
         /\ mQueueTail' = Succ(mQueueTail)
         /\ UNCHANGED <<mCmdQueue, mQueueHead>>

\* Slot s is the first one from the tail that holds a foreground entry.
IsFirstForeground(s) ==
    /\ Offset(s) < Count
    /\ ~ mCmdQueue[s].background
    /\ \A t \in Slots : Offset(t) < Offset(s) => mCmdQueue[t].background

\* Mutant: the slot of the entry taken keeps it.
ShiftedTooLittle(f) ==
    [s \in Slots |-> IF 0 < Offset(s) /\ Offset(s) < Offset(f)
                     THEN mCmdQueue[Prev(s)] ELSE mCmdQueue[s]]

\* The entries before slot f move one slot towards it.
ShiftedUpTo(f) ==
    [s \in Slots |-> IF 0 < Offset(s) /\ Offset(s) <= Offset(f)
                     THEN mCmdQueue[Prev(s)] ELSE mCmdQueue[s]]

\* queuePopForeground: the oldest foreground entry, past the background
\* polls, which keep their order; false when there is none.
TakeForeground(s) ==
    /\ IsFirstForeground(s)
    /\ taken' = mCmdQueue[s]
    /\ mCmdQueue' = ShiftedUpTo(s)
    /\ mQueueTail' = Succ(mQueueTail)
    /\ UNCHANGED mQueueHead

NoForeground ==
    /\ ~ \E s \in Slots : IsFirstForeground(s)
    /\ taken' = NoEntry
    /\ UNCHANGED <<mCmdQueue, mQueueHead, mQueueTail>>

QueuePopForeground == NoForeground \/ \E s \in Slots : TakeForeground(s)

\* startPairing over a controller that is not idle.
DropQueue == mQueueTail' = mQueueHead /\ UNCHANGED <<mCmdQueue, mQueueHead, taken>>

Next ==
    \/ \E r \in Request : QueuePush(r)
    \/ QueuePop
    \/ QueuePopForeground
    \/ DropQueue

Spec == Init /\ [][Next]_vars

-----------------------------------------------------------------------------
\* Type correctness: the indices stay inside the array, the slots between
\* them hold entries with a non-zero attempt limit (queuePush, queuePop).
TypeOK ==
    /\ mCmdQueue \in [Slots -> Entry \cup {NoEntry}]
    /\ mQueueHead \in Slots
    /\ mQueueTail \in Slots
    /\ taken \in Entry \cup {NoEntry}

\* Every slot between tail and head holds an accepted entry: neither a pop
\* nor the shift of queuePopForeground exposes a slot that was never written.
LiveSlots == \A s \in Slots : Offset(s) < Count => mCmdQueue[s] \in Entry

\* The queue implements the bounded sequence FifoQueue promises: nothing
\* accepted is lost, duplicated or overtaken other than by queuePopForeground.
Contents == [i \in 1 .. Count |-> mCmdQueue[(mQueueTail + i - 1) % QueueSize]]

Fifo == INSTANCE FifoQueue WITH Capacity <- QueueSize - 1, pending <- Contents
ImplementsFifo == Fifo!FifoSpec
=============================================================================
