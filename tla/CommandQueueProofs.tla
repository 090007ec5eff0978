-------------------------- MODULE CommandQueueProofs --------------------------
(***************************************************************************)
(* For every queue size, every set of commands and every set of attempt    *)
(* limits: the indices stay in range, no slot between tail and head is     *)
(* ever one that was not written by queuePush, and the circular queue      *)
(* implements the bounded FIFO with priority of FifoQueue, seen through    *)
(* the mapping Contents.                                                   *)
(***************************************************************************)
EXTENDS CommandQueue, SequenceTheorems, TLAPS

\* The index arithmetic (i + 1) % SIZE of queuePush and queuePop.
LEMMA SuccValue ==
    ASSUME NEW s \in Slots
    PROVE  Succ(s) \in Slots /\ Succ(s) = IF s = QueueSize - 1 THEN 0 ELSE s + 1
BY QueueSizeAssumption, SMT DEF Succ, Slots

\* The index arithmetic (i + SIZE - 1) % SIZE of queuePopForeground.
LEMMA PrevValue ==
    ASSUME NEW s \in Slots
    PROVE  Prev(s) \in Slots /\ Prev(s) = IF s = 0 THEN QueueSize - 1 ELSE s - 1
BY QueueSizeAssumption, SMT DEF Prev, Slots

\* How many steps lead from index t to index s of a ring of n slots.
LEMMA RingDistance ==
    ASSUME NEW n \in Nat, n > 1, NEW s \in 0 .. n - 1, NEW t \in 0 .. n - 1
    PROVE  /\ (s + n - t) % n \in 0 .. n - 1
           /\ (s + n - t) % n = IF s >= t THEN s - t ELSE s + n - t
BY SMT

\* The distance of a slot from the tail.
LEMMA OffsetValue ==
    ASSUME mQueueTail \in Slots, NEW s \in Slots
    PROVE  /\ Offset(s) \in Slots
           /\ Offset(s) = IF s >= mQueueTail THEN s - mQueueTail
                                             ELSE s + QueueSize - mQueueTail
BY RingDistance, QueueSizeAssumption DEF Offset, Slots

\* The same distance one step later.
LEMMA OffsetValueNext ==
    ASSUME mQueueTail' \in Slots, NEW s \in Slots
    PROVE  /\ Offset(s)' \in Slots
           /\ Offset(s)' = IF s >= mQueueTail' THEN s - mQueueTail'
                                               ELSE s + QueueSize - mQueueTail'
BY RingDistance, QueueSizeAssumption DEF Offset, Slots

\* Advancing the tail brings every other slot one step nearer (queuePop).
LEMMA OffsetAfterPop ==
    ASSUME mQueueTail \in Slots, mQueueTail' = Succ(mQueueTail), NEW s \in Slots
    PROVE  Offset(s)' = IF s = mQueueTail THEN QueueSize - 1 ELSE Offset(s) - 1
<1>1. mQueueTail' \in Slots
        /\ mQueueTail' = IF mQueueTail = QueueSize - 1 THEN 0 ELSE mQueueTail + 1
    BY SuccValue
<1>2. Offset(s) = IF s >= mQueueTail THEN s - mQueueTail
                                     ELSE s + QueueSize - mQueueTail
    BY OffsetValue
<1>3. Offset(s)' = IF s >= mQueueTail' THEN s - mQueueTail'
                                       ELSE s + QueueSize - mQueueTail'
    BY <1>1, OffsetValueNext
<1> QED
    BY <1>1, <1>2, <1>3, QueueSizeAssumption, SMT DEF Slots

\* queuePush stores a normalised request.
LEMMA NormalisedIsEntry ==
    ASSUME NEW r \in Request
    PROVE  Normalised(r) \in Entry
<1>1. CASE r.maxAttempts = 0
    <2>1. Normalised(r) = [r EXCEPT !.maxAttempts = DefaultAttempts]
        BY <1>1 DEF Normalised
    <2> QED
        BY <2>1, AttemptsAssumption DEF Request, Entry
<1>2. CASE r.maxAttempts # 0
    <2>1. Normalised(r) = r
        BY <1>2 DEF Normalised
    <2>2. r.maxAttempts \in (Attempts \cup {DefaultAttempts}) \ {0}
        BY <1>2 DEF Request
    <2> QED
        BY <2>1, <2>2 DEF Request, Entry
<1> QED
    BY <1>1, <1>2

QueueInv == TypeOK /\ LiveSlots

\* The empty queue has its types and no live slot.
LEMMA QueueInvInit == Init => QueueInv
<1> SUFFICES ASSUME Init PROVE QueueInv
    OBVIOUS
<1>1. TypeOK
    BY QueueSizeAssumption, SMT DEF Init, TypeOK, Slots
<1>2. Count = 0
    BY QueueSizeAssumption, OffsetValue, <1>1, SMT DEF Init, Count, TypeOK
<1>3. \A s \in Slots : Offset(s) \in Slots
    BY OffsetValue, <1>1 DEF TypeOK
<1>4. LiveSlots
    BY <1>2, <1>3, QueueSizeAssumption, SMT DEF LiveSlots, Slots
<1> QED
    BY <1>1, <1>4 DEF QueueInv

\* A push, either pop and the drop keep types and live slots.
LEMMA QueueInvNext == QueueInv /\ [Next]_vars => QueueInv'
<1> SUFFICES ASSUME QueueInv, [Next]_vars PROVE QueueInv'
    OBVIOUS
<1> USE DEF QueueInv
<1>1. ASSUME NEW r \in Request, QueuePush(r) PROVE QueueInv'
    <2>1. Normalised(r) \in Entry
        BY NormalisedIsEntry
    <2>2. TypeOK'
        BY <1>1, <2>1, SuccValue DEF QueuePush, TypeOK
    <2>3. ASSUME NEW s \in Slots, Offset(s)' < Count' PROVE mCmdQueue'[s] \in Entry
        <3>1. CASE s = mQueueHead
            BY <1>1, <2>1, <3>1 DEF QueuePush, TypeOK
        <3>2. CASE s # mQueueHead
            <4>1. Offset(s)' = Offset(s)
                BY <1>1 DEF QueuePush, Offset
            <4> DEFINE h == mQueueHead  g == Succ(mQueueHead)  t == mQueueTail
            <4>2. h \in Slots /\ t \in Slots /\ g \in Slots /\ g # t
                    /\ g = IF h = QueueSize - 1 THEN 0 ELSE h + 1
                BY <1>1, SuccValue DEF TypeOK, QueuePush
            <4>3. Count' = Offset(g)
                BY <1>1 DEF QueuePush, Count, Offset
            <4>4. /\ Offset(s) = IF s >= t THEN s - t ELSE s + QueueSize - t
                  /\ Offset(h) = IF h >= t THEN h - t ELSE h + QueueSize - t
                  /\ Offset(g) = IF g >= t THEN g - t ELSE g + QueueSize - t
                BY <4>2, OffsetValue
            <4>5. Offset(s) < Offset(g)
                BY <2>3, <4>1, <4>3
            <4>6. Offset(s) < Offset(h)
                <5> HIDE DEF g
                <5> QED
                    BY <3>2, <4>2, <4>4, <4>5, QueueSizeAssumption, SMT DEF Slots
            <4>7. Offset(s) < Count
                BY <4>6 DEF Count
            <4> QED
                BY <1>1, <3>2, <4>7 DEF QueuePush, LiveSlots, TypeOK
        <3> QED
            BY <3>1, <3>2
    <2> QED
        BY <2>2, <2>3 DEF LiveSlots
<1>2. CASE QueuePop
    <2>1. CASE queueEmpty
        BY <1>2, <2>1 DEF QueuePop, TypeOK, LiveSlots, Count, Offset
    <2>2. CASE ~ queueEmpty
        <3>1. TypeOK'
            BY <1>2, <2>2, SuccValue DEF QueuePop, TypeOK
        <3>2. ASSUME NEW s \in Slots, Offset(s)' < Count' PROVE mCmdQueue'[s] \in Entry
            <4>1. Offset(s)' = IF s = mQueueTail THEN QueueSize - 1 ELSE Offset(s) - 1
                BY <1>2, <2>2, OffsetAfterPop DEF QueuePop, TypeOK
            <4>2. Count' = Count - 1
                BY <1>2, <2>2, OffsetAfterPop DEF QueuePop, TypeOK, Count, queueEmpty
            <4>3. Offset(s) \in Slots /\ Count \in Slots
                BY OffsetValue DEF Count, TypeOK
            <4>4. Offset(s) < Count
                BY <3>2, <4>1, <4>2, <4>3, QueueSizeAssumption, SMT DEF Slots
            <4> QED
                BY <1>2, <2>2, <4>4 DEF QueuePop, LiveSlots
        <3> QED
            BY <3>1, <3>2 DEF LiveSlots
    <2> QED
        BY <2>1, <2>2
<1>3. CASE NoForeground
    BY <1>3 DEF NoForeground, TypeOK, LiveSlots, Count, Offset
<1>4. ASSUME NEW f \in Slots, TakeForeground(f) PROVE QueueInv'
    <2>1. mCmdQueue' = ShiftedUpTo(f) /\ mQueueTail' = Succ(mQueueTail)
            /\ mQueueHead' = mQueueHead /\ taken' = mCmdQueue[f] /\ Offset(f) < Count
        BY <1>4 DEF TakeForeground, IsFirstForeground
    <2>2. TypeOK'
        BY <2>1, SuccValue, PrevValue DEF TypeOK, ShiftedUpTo
    <2>3. ASSUME NEW s \in Slots, Offset(s)' < Count' PROVE mCmdQueue'[s] \in Entry
        <3>1. Count' = Count - 1
            BY <2>1, OffsetAfterPop, OffsetValue, QueueSizeAssumption, SMT
            DEF TypeOK, Count, Slots
        <3>2. s # mQueueTail /\ Offset(s) < Count
            <4>1. mQueueTail \in Slots /\ mQueueHead \in Slots
                BY DEF TypeOK
            <4>2. Offset(s)' = IF s = mQueueTail THEN QueueSize - 1 ELSE Offset(s) - 1
                BY <2>1, <4>1, OffsetAfterPop
            <4>3. Offset(s) \in Slots /\ Count \in Slots
                BY <4>1, OffsetValue DEF Count
            <4> QED
                BY <2>3, <3>1, <4>2, <4>3, QueueSizeAssumption, SMT DEF Slots
        <3>3. Offset(Prev(s)) = Offset(s) - 1
            <4> DEFINE p == Prev(s)
            <4>1. p \in Slots /\ p = IF s = 0 THEN QueueSize - 1 ELSE s - 1
                BY PrevValue
            <4>2. mQueueTail \in Slots
                BY DEF TypeOK
            <4> HIDE DEF p
            <4>3. Offset(p) = IF p >= mQueueTail THEN p - mQueueTail
                                                 ELSE p + QueueSize - mQueueTail
                BY <4>1, <4>2, OffsetValue
            <4>4. Offset(s) = IF s >= mQueueTail THEN s - mQueueTail
                                                 ELSE s + QueueSize - mQueueTail
                BY <4>2, OffsetValue
            <4>5. Offset(p) = Offset(s) - 1
                BY <3>2, <4>1, <4>2, <4>3, <4>4, QueueSizeAssumption, SMT DEF Slots
            <4> QED
                BY <4>5 DEF p
        <3>4. mCmdQueue[Prev(s)] \in Entry
            <4>1. Prev(s) \in Slots /\ mQueueTail \in Slots /\ mQueueHead \in Slots
                BY PrevValue DEF TypeOK
            <4>2. Offset(s) \in Int /\ Count \in Int
                BY <4>1, OffsetValue DEF Count, Slots
            <4>3. Offset(Prev(s)) < Count
                BY <3>2, <3>3, <4>2
            <4> QED
                BY <4>1, <4>3 DEF LiveSlots
        <3> QED
            BY <2>1, <3>2, <3>4 DEF ShiftedUpTo, LiveSlots
    <2> QED
        BY <2>2, <2>3 DEF LiveSlots
<1>5. CASE DropQueue
    <2>1. TypeOK'
        BY <1>5 DEF DropQueue, TypeOK
    <2>2. Count' = 0
        BY <1>5, QueueSizeAssumption, SMT DEF DropQueue, Count, Offset, TypeOK, Slots
    <2>3. ASSUME NEW s \in Slots PROVE ~ (Offset(s)' < Count')
        BY <2>1, <2>2, OffsetValueNext, QueueSizeAssumption, SMT DEF TypeOK, Slots
    <2> QED
        BY <2>1, <2>3, Zenon DEF LiveSlots
<1>6. CASE UNCHANGED vars
    BY <1>6 DEF vars, TypeOK, LiveSlots, Count, Offset
<1> QED
    BY <1>1, <1>2, <1>3, <1>4, <1>5, <1>6 DEF Next, QueuePopForeground

\* Type correctness of the queue in every reachable state (queuePush,
\* queuePop, queuePopForeground and the drop in startPairing).
THEOREM QueueTypeOK == Spec => []TypeOK
<1>1. QueueInv => TypeOK
    BY DEF QueueInv
<1> QED
    BY QueueInvInit, QueueInvNext, <1>1, PTL DEF Spec

\* No pop ever hands out a slot that no push has written: every slot between
\* tail and head holds an accepted entry, also after the shift.
THEOREM QueueLiveSlots == Spec => []LiveSlots
<1>1. QueueInv => LiveSlots
    BY DEF QueueInv
<1> QED
    BY QueueInvInit, QueueInvNext, <1>1, PTL DEF Spec

-----------------------------------------------------------------------------
(* The refinement: Contents is the sequence that FifoQueue speaks of. *)


\* What Append returns, element by element.
LEMMA AppendValue ==
    ASSUME NEW S, NEW c \in Seq(S), NEW e \in S
    PROVE  Append(c, e) = [i \in 1 .. Len(c) + 1 |-> IF i <= Len(c) THEN c[i] ELSE e]
  <1> DEFINE n == Len(c)  a == Append(c, e)
             f == [i \in 1 .. n + 1 |-> IF i <= n THEN c[i] ELSE e]
  <1>1. /\ a \in Seq(S) /\ Len(a) = n + 1
        /\ \A i \in 1 .. n : a[i] = c[i]
        /\ a[n + 1] = e
    BY AppendProperties
  <1>2. a \in [1 .. n + 1 -> S] /\ n \in Nat
    BY <1>1, LenProperties
  <1>3. \A i \in 1 .. n + 1 : a[i] = IF i <= n THEN c[i] ELSE e
    <2> HIDE DEF a, n
    <2> TAKE i \in 1 .. n + 1
    <2>1. (i <= n /\ i \in 1 .. n) \/ (~ (i <= n) /\ i = n + 1)
      BY <1>2, SMT
    <2> QED BY <1>1, <2>1
  <1> HIDE DEF a, n
  <1>4. a = f
    BY <1>2, <1>3
  <1> QED BY <1>4 DEF a, n

\* The slot of the i-th entry from the tail.
At(i) == (mQueueTail + i - 1) % QueueSize

\* A step around a ring of n slots, without the remainder.
LEMMA RingStep ==
    ASSUME NEW n \in Nat, n > 1, NEW t \in 0 .. n - 1, NEW i \in 1 .. n
    PROVE  /\ (t + i - 1) % n \in 0 .. n - 1
           /\ (t + i - 1) % n = IF t + i - 1 < n THEN t + i - 1 ELSE t + i - 1 - n
  BY SMT

\* Its value, without the remainder.
LEMMA AtValue ==
    ASSUME mQueueTail \in Slots, NEW i \in 1 .. QueueSize
    PROVE  /\ At(i) \in Slots
           /\ At(i) = IF mQueueTail + i - 1 < QueueSize THEN mQueueTail + i - 1
                                                        ELSE mQueueTail + i - 1 - QueueSize
  BY RingStep, QueueSizeAssumption DEF At, Slots

\* The same slot one step later.
LEMMA AtValueNext ==
    ASSUME mQueueTail' \in Slots, NEW i \in 1 .. QueueSize
    PROVE  /\ At(i)' \in Slots
           /\ At(i)' = IF mQueueTail' + i - 1 < QueueSize THEN mQueueTail' + i - 1
                                                          ELSE mQueueTail' + i - 1 - QueueSize
  BY RingStep, QueueSizeAssumption DEF At, Slots

\* The i-th slot is i - 1 steps from the tail, and the slot at a distance is the one
\* of the next number.
LEMMA OffsetOfAt ==
    ASSUME mQueueTail \in Slots, NEW i \in 1 .. QueueSize
    PROVE  Offset(At(i)) = i - 1
  <1> DEFINE s == At(i)
  <1>1. /\ s \in Slots
        /\ s = IF mQueueTail + i - 1 < QueueSize THEN mQueueTail + i - 1
                                                 ELSE mQueueTail + i - 1 - QueueSize
    BY AtValue
  <1> HIDE DEF s
  <1>2. Offset(s) = IF s >= mQueueTail THEN s - mQueueTail ELSE s + QueueSize - mQueueTail
    BY <1>1, OffsetValue
  <1>3. Offset(s) = i - 1
    BY <1>1, <1>2, QueueSizeAssumption, SMT DEF Slots
  <1> QED BY <1>3 DEF s

\* A slot is the one at its own distance from the tail: At is inverse to Offset.
LEMMA AtOfOffset ==
    ASSUME mQueueTail \in Slots, NEW s \in Slots
    PROVE  Offset(s) + 1 \in 1 .. QueueSize /\ At(Offset(s) + 1) = s
  <1> DEFINE i == Offset(s) + 1
  <1>1. /\ Offset(s) \in Slots
        /\ Offset(s) = IF s >= mQueueTail THEN s - mQueueTail ELSE s + QueueSize - mQueueTail
    BY OffsetValue
  <1>2. i \in 1 .. QueueSize
    BY <1>1, QueueSizeAssumption, SMT DEF Slots
  <1>3. At(i) = IF mQueueTail + i - 1 < QueueSize THEN mQueueTail + i - 1
                                                  ELSE mQueueTail + i - 1 - QueueSize
    BY <1>2, AtValue
  <1>4. At(i) = s
    BY <1>1, <1>2, <1>3, QueueSizeAssumption, SMT DEF Slots
  <1> QED BY <1>2, <1>4

\* After a pop the i-th slot is what was the next one.
LEMMA AtAfterPop ==
    ASSUME mQueueTail \in Slots, mQueueTail' = Succ(mQueueTail), NEW i \in 1 .. QueueSize - 1
    PROVE  At(i)' = At(i + 1)
  <1>1. mQueueTail' \in Slots
        /\ mQueueTail' = IF mQueueTail = QueueSize - 1 THEN 0 ELSE mQueueTail + 1
    BY SuccValue
  <1>2. i \in 1 .. QueueSize /\ i + 1 \in 1 .. QueueSize
    BY QueueSizeAssumption, SMT
  <1>3. At(i)' = IF mQueueTail' + i - 1 < QueueSize THEN mQueueTail' + i - 1
                                                    ELSE mQueueTail' + i - 1 - QueueSize
    BY <1>1, <1>2, AtValueNext
  <1>4. At(i + 1) = IF mQueueTail + (i + 1) - 1 < QueueSize THEN mQueueTail + (i + 1) - 1
                                         ELSE mQueueTail + (i + 1) - 1 - QueueSize
    BY <1>2, AtValue
  <1> QED BY <1>1, <1>2, <1>3, <1>4, QueueSizeAssumption, SMT DEF Slots

\* The slot before the (i + 1)-th is the i-th.
LEMMA PrevOfAt ==
    ASSUME mQueueTail \in Slots, NEW i \in 1 .. QueueSize - 1
    PROVE  Prev(At(i + 1)) = At(i)
  <1> DEFINE s == At(i + 1)  r == At(i)
  <1>1. i \in 1 .. QueueSize /\ i + 1 \in 1 .. QueueSize
    BY QueueSizeAssumption, SMT
  <1>2. s \in Slots /\ s = IF mQueueTail + (i + 1) - 1 < QueueSize THEN mQueueTail + (i + 1) - 1
                                         ELSE mQueueTail + (i + 1) - 1 - QueueSize
    BY <1>1, AtValue
  <1>3. r \in Slots /\ r = IF mQueueTail + i - 1 < QueueSize THEN mQueueTail + i - 1
                                                 ELSE mQueueTail + i - 1 - QueueSize
    BY <1>1, AtValue
  <1> HIDE DEF s, r
  <1>4. Prev(s) = IF s = 0 THEN QueueSize - 1 ELSE s - 1
    BY <1>2, PrevValue
  <1>5. Prev(s) = r
    BY <1>1, <1>2, <1>3, <1>4, QueueSizeAssumption, SMT DEF Slots
  <1> QED BY <1>5 DEF s, r

\* A function on no index is the empty sequence.
LEMMA EmptyDomain ==
    ASSUME NEW n, n = 0, NEW f, f = [i \in 1 .. n |-> f[i]]
    PROVE  f = << >>
  BY SMT

\* What the mapping gives: a sequence of the entries from the tail on.
LEMMA ContentsValue ==
    ASSUME TypeOK
    PROVE  /\ Count \in 0 .. QueueSize - 1
           /\ Contents = [i \in 1 .. Count |-> mCmdQueue[At(i)]]
           /\ Len(Contents) = Count
           /\ \A i \in 1 .. Count : i \in 1 .. QueueSize /\ Contents[i] = mCmdQueue[At(i)]
  <1>1. Count \in 0 .. QueueSize - 1
    BY OffsetValue DEF TypeOK, Count, Slots
  <1>2. Contents = [i \in 1 .. Count |-> mCmdQueue[At(i)]]
    BY DEF Contents, At
  <1>3. DOMAIN Contents = 1 .. Count
    BY <1>2
  <1>4. Len(Contents) = Count
    BY <1>1, <1>2, SMT
  <1>5. \A i \in 1 .. Count : i \in 1 .. QueueSize
    BY <1>1, QueueSizeAssumption, SMT
  <1> QED BY <1>1, <1>2, <1>4, <1>5

\* The mapped variables of a step, and of its end.
LEMMA ContentsNext ==
    ASSUME TypeOK'
    PROVE  /\ Count' \in 0 .. QueueSize - 1
           /\ Contents' = [i \in 1 .. Count' |-> mCmdQueue'[At(i)']]
  <1>1. Count' \in 0 .. QueueSize - 1
    BY OffsetValueNext DEF TypeOK, Count, Slots
  <1> QED BY <1>1 DEF Contents, At

\* What is queued: entries, as many as lie between tail and head.
LEMMA ContentsType == QueueInv => Contents \in Seq(Entry)
  <1> SUFFICES ASSUME QueueInv PROVE Contents \in Seq(Entry)
    OBVIOUS
  <1>1. TypeOK /\ LiveSlots
    BY DEF QueueInv
  <1>2. \A i \in 1 .. Count : mCmdQueue[At(i)] \in Entry
    <2> TAKE i \in 1 .. Count
    <2>1. i \in 1 .. QueueSize /\ Count \in 0 .. QueueSize - 1
      BY <1>1, ContentsValue
    <2>2. At(i) \in Slots /\ Offset(At(i)) = i - 1
      BY <1>1, <2>1, AtValue, OffsetOfAt DEF TypeOK
    <2>3. Offset(At(i)) < Count
      BY <2>1, <2>2, SMT
    <2> QED BY <1>1, <2>2, <2>3 DEF LiveSlots
  <1> HIDE DEF Count
  <1>3. Count \in Nat /\ Contents = [i \in 1 .. Count |-> mCmdQueue[At(i)]]
    BY <1>1, ContentsValue, QueueSizeAssumption, SMT
  <1> QED BY <1>2, <1>3, SMT

\* queuePush accepts an entry at the end, and only while there is room.
LEMMA PushAccepts ==
    ASSUME QueueInv, QueueInv', NEW r \in Request, QueuePush(r)
    PROVE  Fifo!Accept(Normalised(r))
  <1>1. TypeOK /\ TypeOK'
    BY DEF QueueInv
  <1> DEFINE h == mQueueHead  g == Succ(mQueueHead)  t == mQueueTail
  <1>2. /\ h \in Slots /\ t \in Slots /\ g \in Slots /\ g # t
        /\ g = IF h = QueueSize - 1 THEN 0 ELSE h + 1
    BY <1>1, SuccValue DEF TypeOK, QueuePush
  <1>3. Count' = Offset(g)
    BY DEF QueuePush, Count, Offset
  <1>4. /\ Count = IF h >= t THEN h - t ELSE h + QueueSize - t
        /\ Offset(g) = IF g >= t THEN g - t ELSE g + QueueSize - t
    BY <1>2, OffsetValue DEF Count
  <1>5. Count' = Count + 1
    <2> HIDE DEF h, g, t
    <2> QED BY <1>2, <1>3, <1>4, QueueSizeAssumption, SMT DEF Slots
  <1>6. /\ Count \in 0 .. QueueSize - 1 /\ Len(Contents) = Count
        /\ Contents = [i \in 1 .. Count |-> mCmdQueue[At(i)]]
        /\ Count' \in 0 .. QueueSize - 1
        /\ Contents' = [i \in 1 .. Count' |-> mCmdQueue'[At(i)']]
    BY <1>1, ContentsValue, ContentsNext
  <1>7. Len(Contents) < QueueSize - 1
    BY <1>5, <1>6, QueueSizeAssumption, SMT
  <1>8. ASSUME NEW i \in 1 .. Count + 1
        PROVE  mCmdQueue'[At(i)'] = IF i <= Count THEN mCmdQueue[At(i)] ELSE Normalised(r)
    <2>1. i \in 1 .. QueueSize /\ i \in Nat
      BY <1>5, <1>6, QueueSizeAssumption, SMT
    <2>2. At(i)' = At(i)
      BY DEF At, QueuePush
    <2>3. At(i) \in Slots /\ Offset(At(i)) = i - 1
      BY <1>2, <2>1, AtValue, OffsetOfAt
    <2>4. CASE i <= Count
      <3>1. At(i) # mQueueHead
        BY <2>1, <2>3, <2>4, <1>6, SMT DEF Count
      <3> QED BY <2>2, <2>3, <2>4, <3>1, <1>1 DEF QueuePush, TypeOK
    <2>5. CASE ~ (i <= Count)
      <3>1. i = Count + 1
        BY <1>6, <2>1, <2>5, SMT
      <3>2. Offset(mQueueHead) + 1 = i
        BY <3>1 DEF Count
      <3>3. At(i) = mQueueHead
        BY <1>2, <3>2, AtOfOffset
      <3> QED BY <2>2, <2>5, <3>3, <1>1 DEF QueuePush, TypeOK
    <2> QED BY <2>4, <2>5
  <1>9. Contents' = Append(Contents, Normalised(r))
    <2> DEFINE c == Contents  n == Count
    <2>1. Contents' = [i \in 1 .. n + 1 |-> IF i <= n THEN mCmdQueue[At(i)] ELSE Normalised(r)]
      BY <1>5, <1>6, <1>8
    <2>2. c \in Seq(Entry) /\ Len(c) = n /\ n \in Nat
      BY ContentsType, <1>6, SMT
    <2>3. \A i \in 1 .. n : c[i] = mCmdQueue[At(i)]
      BY <1>6
    <2>4. Contents' = [i \in 1 .. n + 1 |-> IF i <= n THEN c[i] ELSE Normalised(r)]
      <3> HIDE DEF c, n
      <3>1. \A i \in 1 .. n + 1 : i <= n => i \in 1 .. n
        BY <2>2, SMT
      <3> QED BY <2>1, <2>3, <3>1
    <2>5. Normalised(r) \in Entry
      BY NormalisedIsEntry
    <2> HIDE DEF c, n
    <2>6. Append(c, Normalised(r)) = [i \in 1 .. n + 1 |-> IF i <= n THEN c[i] ELSE Normalised(r)]
      BY <2>2, <2>5, AppendValue
    <2> QED BY <2>4, <2>6 DEF c
  <1> QED BY <1>7, <1>9 DEF Fifo!Accept, QueuePush

\* Taking the i-th entry: the queue behind the taken one moves up, whatever pop did it.
LEMMA RemovalIsTake ==
    ASSUME QueueInv, QueueInv', NEW k \in 1 .. Count,
           mQueueTail' = Succ(mQueueTail), mQueueHead' = mQueueHead,
           taken' = mCmdQueue[At(k)],
           \A j \in 1 .. k - 1 : mCmdQueue[At(j)].background,
           \A i \in 1 .. Count - 1 :
               mCmdQueue'[At(i + 1)] = IF i < k THEN mCmdQueue[At(i)] ELSE mCmdQueue[At(i + 1)]
    PROVE  k \in 1 .. Len(Contents) /\ Fifo!Take(k)
  <1>1. TypeOK /\ TypeOK'
    BY DEF QueueInv
  <1>2. /\ Count \in 0 .. QueueSize - 1 /\ Len(Contents) = Count
        /\ \A i \in 1 .. Count : i \in 1 .. QueueSize /\ Contents[i] = mCmdQueue[At(i)]
        /\ Contents' = [i \in 1 .. Count' |-> mCmdQueue'[At(i)']]
    BY <1>1, ContentsValue, ContentsNext
  <1>3. Count' = Count - 1
    <2>1. mQueueTail \in Slots /\ mQueueHead \in Slots
      BY <1>1 DEF TypeOK
    <2>2. Offset(mQueueHead)' = IF mQueueHead = mQueueTail THEN QueueSize - 1
                                                            ELSE Offset(mQueueHead) - 1
      BY <2>1, OffsetAfterPop
    <2>3. Count' = Offset(mQueueHead)'
      BY DEF Count, Offset
    <2>4. mQueueHead # mQueueTail
      <3>1. SUFFICES ASSUME mQueueHead = mQueueTail PROVE FALSE
        OBVIOUS
      <3>2. Count = 0
        BY <2>1, <3>1, OffsetValue, QueueSizeAssumption, SMT DEF Count, Slots
      <3> QED BY <3>2, SMT
    <2> QED BY <2>2, <2>3, <2>4 DEF Count
  <1> DEFINE n == Count
  <1>4. n \in Nat /\ k \in 1 .. n /\ n <= QueueSize - 1
    BY <1>2, QueueSizeAssumption, SMT
  <1>5. \A j \in 1 .. k - 1 : Contents[j].background
    <2> HIDE DEF n
    <2> TAKE j \in 1 .. k - 1
    <2>1. j \in 1 .. n
      BY <1>4, SMT
    <2> QED BY <1>2, <2>1 DEF n
  <1>6. \A i \in 1 .. n - 1 :
            mCmdQueue'[At(i)'] = IF i < k THEN Contents[i] ELSE Contents[i + 1]
    <2> TAKE i \in 1 .. n - 1
    <2>1. i \in 1 .. QueueSize - 1 /\ i \in 1 .. n /\ i + 1 \in 1 .. n
      <3> HIDE DEF n
      <3> QED BY <1>4, QueueSizeAssumption, SMT
    <2>2. At(i)' = At(i + 1)
      BY <1>1, <2>1, AtAfterPop DEF TypeOK
    <2> QED BY <1>2, <2>1, <2>2
  <1>7. Contents' = Fifo!Without(Contents, k)
    BY <1>2, <1>3, <1>6 DEF Fifo!Without
  <1> QED BY <1>2, <1>5, <1>7 DEF Fifo!Take

\* queuePop takes the oldest entry, or nothing.
LEMMA PopTakes ==
    ASSUME QueueInv, QueueInv', QueuePop
    PROVE  Fifo!FifoNext
  <1>1. TypeOK
    BY DEF QueueInv
  <1>2. CASE queueEmpty
    BY <1>2 DEF QueuePop, Contents, Count, Offset, Fifo!TakeNothing, Fifo!FifoNext
  <1>3. CASE ~ queueEmpty
    <2>1. /\ mQueueTail \in Slots /\ mQueueHead \in Slots /\ mQueueHead # mQueueTail
          /\ Count \in 0 .. QueueSize - 1
      BY <1>1, <1>3, ContentsValue DEF TypeOK, queueEmpty
    <2>2. Count # 0
      <3>1. Count = IF mQueueHead >= mQueueTail THEN mQueueHead - mQueueTail
                                               ELSE mQueueHead + QueueSize - mQueueTail
        BY <2>1, OffsetValue DEF Count
      <3> QED BY <2>1, <3>1, QueueSizeAssumption, SMT DEF Slots
    <2>3. 1 \in 1 .. Count
      <3> HIDE DEF Count
      <3> QED BY <2>1, <2>2, QueueSizeAssumption, SMT
    <2>4. At(1) = mQueueTail
      <3>1. 1 \in 1 .. QueueSize
        BY QueueSizeAssumption, SMT
      <3>2. At(1) = IF mQueueTail + 1 - 1 < QueueSize THEN mQueueTail + 1 - 1
                                         ELSE mQueueTail + 1 - 1 - QueueSize
        BY <2>1, <3>1, AtValue
      <3> QED BY <2>1, <3>2, QueueSizeAssumption, SMT DEF Slots
    <2>5. \A i \in 1 .. Count - 1 :
              mCmdQueue'[At(i + 1)] = IF i < 1 THEN mCmdQueue[At(i)] ELSE mCmdQueue[At(i + 1)]
      <3> TAKE i \in 1 .. Count - 1
      <3>1. ~ (i < 1)
        <4> HIDE DEF Count
        <4> QED BY <2>1, SMT
      <3> QED BY <1>3, <3>1 DEF QueuePop
    <2>6. \A j \in 1 .. 1 - 1 : mCmdQueue[At(j)].background
      BY SMT
    <2>7. 1 \in 1 .. Len(Contents) /\ Fifo!Take(1)
      BY <1>3, <2>3, <2>4, <2>5, <2>6, RemovalIsTake DEF QueuePop
    <2> QED BY <2>7 DEF Fifo!FifoNext
  <1> QED BY <1>2, <1>3

\* queuePopForeground takes the first foreground entry and passes background polls only.
LEMMA ForegroundTakes ==
    ASSUME QueueInv, QueueInv', NEW f \in Slots, TakeForeground(f)
    PROVE  Fifo!FifoNext
  <1>1. TypeOK
    BY DEF QueueInv
  <1>2. mQueueTail \in Slots /\ Offset(f) \in Slots /\ Count \in Slots
        /\ Count \in 0 .. QueueSize - 1
    BY <1>1, OffsetValue, ContentsValue DEF TypeOK, Count
  <1>3. Offset(f) < Count
    BY DEF TakeForeground, IsFirstForeground
  <1> DEFINE k == Offset(f) + 1
  <1>4. At(k) = f /\ k \in 1 .. QueueSize
    BY <1>2, AtOfOffset
  <1>5. k \in 1 .. Count
    <2> HIDE DEF Count
    <2> QED BY <1>2, <1>3, SMT DEF Slots
  <1>6. \A j \in 1 .. k - 1 : mCmdQueue[At(j)].background
    <2> TAKE j \in 1 .. k - 1
    <2>1. j \in 1 .. QueueSize /\ j - 1 < Offset(f)
      BY <1>2, QueueSizeAssumption, SMT DEF Slots
    <2>2. At(j) \in Slots /\ Offset(At(j)) = j - 1
      BY <1>2, <2>1, AtValue, OffsetOfAt
    <2> QED BY <2>1, <2>2 DEF TakeForeground, IsFirstForeground
  <1>7. \A i \in 1 .. Count - 1 :
            mCmdQueue'[At(i + 1)] = IF i < k THEN mCmdQueue[At(i)] ELSE mCmdQueue[At(i + 1)]
    <2> TAKE i \in 1 .. Count - 1
    <2>1. i \in 1 .. QueueSize - 1 /\ i \in Nat /\ i > 0 /\ i + 1 \in 1 .. QueueSize
      <3> HIDE DEF Count
      <3> QED BY <1>2, QueueSizeAssumption, SMT
    <2>2. At(i + 1) \in Slots /\ Offset(At(i + 1)) = i
      <3>1. At(i + 1) \in Slots /\ Offset(At(i + 1)) = (i + 1) - 1
        BY <1>2, <2>1, AtValue, OffsetOfAt
      <3> QED BY <2>1, <3>1, SMT
    <2>3. Prev(At(i + 1)) = At(i)
      BY <1>2, <2>1, PrevOfAt
    <2>4. (0 < i /\ i <= Offset(f)) <=> i < k
      BY <1>2, <2>1, SMT DEF Slots
    <2>5. mCmdQueue'[At(i + 1)] = IF 0 < i /\ i <= Offset(f)
                                  THEN mCmdQueue[Prev(At(i + 1))] ELSE mCmdQueue[At(i + 1)]
      BY <2>2 DEF TakeForeground, ShiftedUpTo
    <2> QED BY <2>3, <2>4, <2>5
  <1>8. k \in 1 .. Len(Contents) /\ Fifo!Take(k)
    <2> HIDE DEF k
    <2> QED BY <1>4, <1>5, <1>6, <1>7, RemovalIsTake DEF TakeForeground
  <1> QED BY <1>8 DEF Fifo!FifoNext

\* Every step of the circular queue is one of the FIFO, or changes nothing it shows.
LEMMA StepImplements == QueueInv /\ QueueInv' /\ [Next]_vars => [Fifo!FifoNext]_(Fifo!fifoVars)
  <1> SUFFICES ASSUME QueueInv, QueueInv', [Next]_vars
               PROVE  Fifo!FifoNext \/ UNCHANGED Fifo!fifoVars
    BY DEF Fifo!fifoVars
  <1>1. ASSUME NEW r \in Request, QueuePush(r) PROVE Fifo!FifoNext
    <2>1. Normalised(r) \in Entry
      BY NormalisedIsEntry
    <2> QED BY <1>1, <2>1, PushAccepts DEF Fifo!FifoNext
  <1>2. CASE QueuePop
    BY <1>2, PopTakes
  <1>3. CASE NoForeground
    BY <1>3 DEF NoForeground, Contents, Count, Offset, Fifo!TakeNothing, Fifo!FifoNext
  <1>4. ASSUME NEW f \in Slots, TakeForeground(f) PROVE Fifo!FifoNext
    BY <1>4, ForegroundTakes
  <1>5. CASE DropQueue
    <2>1. TypeOK' /\ mQueueTail' = mQueueHead' /\ taken' = taken
      BY <1>5 DEF DropQueue, QueueInv
    <2>2. Count' = 0
      BY <2>1, OffsetValueNext, QueueSizeAssumption, SMT DEF TypeOK, Count, Slots
    <2>3. Contents' = << >>
      BY <2>1, <2>2, ContentsNext, EmptyDomain
    <2> QED BY <2>1, <2>3 DEF Fifo!Forget, Fifo!FifoNext
  <1>6. CASE UNCHANGED vars
    BY <1>6 DEF vars, Contents, Count, Offset, Fifo!fifoVars
  <1> QED BY <1>1, <1>2, <1>3, <1>4, <1>5, <1>6 DEF Next, QueuePopForeground

\* The circular queue with its shifts and its wrap-around is the bounded FIFO its callers
\* rely on: nothing that queuePush accepted is lost, repeated or overtaken except by
\* queuePopForeground, for every size of the queue and every set of commands.
THEOREM QueueImplementsFifo == Spec => ImplementsFifo
  <1>1. Init => Fifo!FifoInit
    <2> SUFFICES ASSUME Init PROVE Fifo!FifoInit
      OBVIOUS
    <2>1. TypeOK
      BY QueueInvInit DEF QueueInv
    <2>2. Count = 0
      BY <2>1, OffsetValue, QueueSizeAssumption, SMT DEF Init, TypeOK, Count, Slots
    <2>3. Contents = << >>
      BY <2>1, <2>2, ContentsValue, EmptyDomain
    <2> QED BY <2>3 DEF Init, Fifo!FifoInit
  <1>2. QueueInv /\ [Next]_vars => QueueInv'
    BY QueueInvNext
  <1> QED
    BY <1>1, <1>2, QueueInvInit, StepImplements, PTL DEF Spec, ImplementsFifo, Fifo!FifoSpec

=============================================================================
