-------------------------- MODULE EnrollmentProofs --------------------------
(***************************************************************************)
(* What an enrollment puts on the air, for any destinations, repetitions,  *)
(* delays and windows, however the radio fails and loop() is late: the     *)
(* gesture in its order, numbers that are fresh, DOWN within the window,   *)
(* a channel that follows only a gesture that was sent as a whole, and a   *)
(* trace that says what was sent.                                          *)
(***************************************************************************)
EXTENDS PairingAndEnrollment, TLAPS

Bursts == [phase : Phases, dest : Nat, seq : Nat, copies : Nat]
Entries == [phase : Phases \cup {"Failed", "Complete"}, dest : Nat, seq : Nat, ok : BOOLEAN]

TypeInv ==
    /\ step \in {"Idle", "Send", "Wait", "Gap", "PairComplete", "PairFailed"}
    /\ phase \in Phases /\ mode \in EnrollmentModes
    /\ destinations \in Nat \ {0} /\ index \in Nat /\ index < destinations
    /\ finalizer \in BOOLEAN /\ known \in BOOLEAN /\ paused \in BOOLEAN /\ onAir \in BOOLEAN
    /\ paired \in BOOLEAN /\ target \in BOOLEAN /\ enrolled \in BOOLEAN
    /\ addSequence \in Nat /\ sequence \in Nat /\ floor \in Nat /\ starts \in Nat /\ busy \in Nat
    /\ remaining \in Nat /\ remaining <= Repeats
    /\ pauseAge \in Nat /\ pauseAge <= RepeatInterval
    /\ age \in Nat /\ age <= EnrollTimeout + 1 /\ stateAge \in Nat
    /\ openAge \in Nat /\ openAge <= Window /\ windowAge \in Nat /\ windowAge <= Window
    /\ outcome \in {"None", "InProgress", "Transmitted", "ConfigurationFailure", "NoResponse",
                    "Cancelled"}
    /\ log \in Seq(Bursts)
    /\ trace \in Seq(Entries) /\ Len(trace) <= TraceSize
    /\ active \in Nat /\ active <= Len(trace)

Adds == mode \in {"AnnounceAdd", "AddOnly", "RemoveAdd"}

\* How many bursts of the gesture come before its first ADD, and before the one at hand.
Offset == IF mode \in {"AnnounceAdd", "RemoveAdd"} THEN 1 ELSE 0
Place == CASE phase = "Add" -> Offset + index
           [] phase = "Stop" -> Offset + destinations
           [] phase = "Down" -> Offset + destinations + 1
           [] OTHER -> index

\* The phases of a mode.
PhaseInv ==
    Running =>
        /\ destinations \in DestinationCounts
        /\ phase = "Announce" => /\ mode \in {"AnnounceOnly", "AnnounceAdd"}
                                 /\ mode = "AnnounceAdd" => index = 0
        /\ phase = "Remove" => mode \in {"Remove", "RemoveAdd"} /\ index = 0
        /\ phase \in {"Add", "Stop", "Down"} => Adds
        /\ phase \in {"Stop", "Down"} => finalizer /\ index = destinations - 1
        /\ step = "Gap" => phase = "Stop"

\* What is on the air is the gesture up to the burst at hand, and all of it when the
\* enrollment completes.
LogInv ==
    /\ GestureInOrder
    /\ \A i \in DOMAIN log : log[i].phase = "Add" => i = Offset + log[i].dest + 1
    /\ step = "Send" => Len(log) = Place /\ \A i \in DOMAIN log : Full(log[i])
    /\ step \in {"Wait", "Gap"} => /\ Len(log) = Place + 1
                                   /\ log[Len(log)].phase = phase /\ log[Len(log)].dest = index
    /\ step = "Wait" => log[Len(log)].copies = Repeats - remaining
    /\ step = "Gap" => Full(log[Len(log)])
    /\ step = "PairComplete" => WholeGesture

\* The window is open since the first ADD.
AddSent == \E i \in DOMAIN log : log[i].phase = "Add"

AddInv ==
    /\ windowAge = openAge
    /\ Running => /\ phase \in {"Announce", "Remove"} => ~AddSent /\ openAge = 0
                  /\ phase \in {"Stop", "Down"} => AddSent
                  /\ phase = "Add" => (AddSent <=> step = "Wait" \/ index > 0)

\* The numbers lie between the counter of before and that of now.
SeqInv ==
    /\ floor <= sequence
    /\ \A i \in DOMAIN log : /\ floor < log[i].seq /\ log[i].seq <= sequence
                             /\ log[i].phase = "Add" => log[i].seq = addSequence
    /\ SequencesFresh

\* Only a running enrollment is still in progress, or one about to be told of.
OutcomeInv ==
    /\ Running => outcome = "InProgress"
    /\ step = "PairComplete" => outcome \in {"InProgress", "Transmitted"}
    /\ step = "Idle" => outcome # "InProgress"

\* The trace t calls no burst of g a success but those sent in full, and all of these.
Matches(e, b) == e.phase = b.phase /\ e.dest = b.dest /\ e.seq = b.seq

Tells(t, g) ==
    /\ \A k \in DOMAIN t : t[k].ok /\ t[k].phase # "Complete" =>
           \E i \in DOMAIN g : Matches(t[k], g[i]) /\ Full(g[i])
    /\ \A i \in DOMAIN g : g[i].phase # "Announce" /\ Full(g[i]) =>
           \E k \in DOMAIN t : Matches(t[k], g[i]) /\ t[k].ok

\* The active entry is that of the burst at hand, and the trace has room for its end.
TraceInv ==
    /\ Tells(trace, log)
    /\ step = "Wait" /\ phase # "Announce" =>
           /\ active \in DOMAIN trace
           /\ Matches(trace[active], log[Len(log)]) /\ ~trace[active].ok
    /\ ~(step = "Wait" /\ phase # "Announce") => active = 0 \/ outcome = "Cancelled"
    /\ Running => Len(trace) <= Len(log)
    /\ outcome = "ConfigurationFailure" => EndsIn("Failed")
    /\ outcome = "Transmitted" \/ step = "PairComplete" =>
           mode = "AnnounceOnly" \/ EndsIn("Complete")

-----------------------------------------------------------------------------
(* Sequences *)

\* A burst is added at the end.
LEMMA Appended ==
    ASSUME NEW S, NEW s \in Seq(S), NEW b \in S
    PROVE  /\ Append(s, b) \in Seq(S) /\ Len(Append(s, b)) = Len(s) + 1
           /\ Append(s, b)[Len(s) + 1] = b
           /\ \A i \in DOMAIN s : Append(s, b)[i] = s[i]
           /\ DOMAIN Append(s, b) = DOMAIN s \cup {Len(s) + 1}
  OBVIOUS

\* A sequence after another.
LEMMA Joined ==
    ASSUME NEW S, NEW s \in Seq(S), NEW t \in Seq(S)
    PROVE  /\ s \o t \in Seq(S) /\ Len(s \o t) = Len(s) + Len(t)
           /\ \A i \in 1 .. Len(s) : (s \o t)[i] = s[i]
           /\ \A i \in 1 .. Len(t) : (s \o t)[Len(s) + i] = t[i]
  OBVIOUS

\* A length is a number, and that of nothing is 0.
LEMMA Lengths == /\ \A s \in Seq(Entries) : Len(s) \in Nat /\ 0 <= Len(s)
                 /\ <<>> \in Seq(Entries) /\ <<>> \in Seq(Bursts)
                 /\ Len(<<>>) = 0
  OBVIOUS

\* A copy is counted in the last burst, and nothing else changes.
LEMMA Counted ==
    ASSUME NEW s \in Seq(Bursts), s # <<>>,
           NEW t, t = [s EXCEPT ![Len(s)].copies = @ + 1]
    PROVE  /\ t \in Seq(Bursts) /\ Len(t) = Len(s) /\ DOMAIN t = DOMAIN s
           /\ \A i \in DOMAIN s : /\ t[i].phase = s[i].phase /\ t[i].dest = s[i].dest
                                  /\ t[i].seq = s[i].seq
                                  /\ t[i].copies = IF i = Len(s) THEN s[i].copies + 1
                                                   ELSE s[i].copies
  <1>1. Len(s) \in DOMAIN s /\ Len(s) \in Nat /\ DOMAIN s = 1 .. Len(s)
    OBVIOUS
  <1> DEFINE last == s[Len(s)]
             b == [last EXCEPT !.copies = @ + 1]
  <1>2. last \in Bursts
    BY <1>1
  <1>3. last.copies + 1 \in Nat
    BY <1>2 DEF Bursts
  <1>4. t = [s EXCEPT ![Len(s)] = b]
    OBVIOUS
  <1>7. /\ b \in Bursts /\ b.phase = last.phase /\ b.dest = last.dest
        /\ b.seq = last.seq /\ b.copies = last.copies + 1
    BY <1>2, <1>3 DEF Bursts
  <1> HIDE DEF b
  <1>5. t \in Seq(Bursts) /\ Len(t) = Len(s) /\ DOMAIN t = DOMAIN s
    BY <1>1, <1>4, <1>7
  <1>6. \A i \in DOMAIN s : t[i] = IF i = Len(s) THEN b ELSE s[i]
    BY <1>1, <1>4
  <1> QED BY <1>5, <1>6, <1>7

\* An entry is recorded unless the trace is full.
LEMMA Records ==
    ASSUME NEW t \in Seq(Entries), NEW e \in Entries, TraceSize \in Nat, Len(t) <= TraceSize
    PROVE  /\ Recorded(t, e) \in Seq(Entries)
           /\ Len(Recorded(t, e)) <= TraceSize /\ Len(Recorded(t, e)) >= Len(t)
           /\ Len(t) < TraceSize => Recorded(t, e) = Append(t, e)
  BY Appended DEF Recorded

-----------------------------------------------------------------------------
(* The gesture *)

\* One burst to each destination.
LEMMA SweepLaw ==
    ASSUME destinations \in Nat, NEW p
    PROVE  /\ Sweep(p) \in Seq([phase : {p}, dest : Nat]) /\ Len(Sweep(p)) = destinations
           /\ \A i \in 1 .. destinations : Sweep(p)[i] = Burst(p, i - 1)
  <1>1. \A i \in 1 .. destinations : Burst(p, i - 1) \in [phase : {p}, dest : Nat]
    BY DEF Burst
  <1> QED BY <1>1 DEF Sweep

\* How long the gesture of a mode is, and which burst has which place in it.
LEMMA GestureLaw ==
    ASSUME destinations \in Nat \ {0}, finalizer \in BOOLEAN, mode \in EnrollmentModes
    PROVE  /\ mode = "AnnounceOnly" =>
                  /\ Len(Gesture) = destinations
                  /\ \A d \in 0 .. destinations - 1 : Gesture[d + 1] = Burst("Announce", d)
           /\ mode = "Remove" => Len(Gesture) = 1
           /\ mode \in {"Remove", "RemoveAdd"} => Gesture[1] = Burst("Remove", 0)
           /\ mode = "AnnounceAdd" => Gesture[1] = Burst("Announce", 0)
           /\ Adds => /\ Len(Gesture) = Offset + destinations + (IF finalizer THEN 2 ELSE 0)
                      /\ \A d \in 0 .. destinations - 1 : Gesture[Offset + d + 1] = Burst("Add", d)
                      /\ finalizer =>
                             /\ Gesture[Offset + destinations + 1] = Burst("Stop", destinations - 1)
                             /\ Gesture[Offset + destinations + 2] = Burst("Down", destinations - 1)
  <1> DEFINE B == [phase : Phases, dest : Nat]
             last == destinations - 1
             opening == CASE mode = "AnnounceOnly" -> Sweep("Announce")
                          [] mode = "AnnounceAdd" -> <<Burst("Announce", 0)>>
                          [] mode \in {"Remove", "RemoveAdd"} -> <<Burst("Remove", 0)>>
                          [] mode = "AddOnly" -> <<>>
             closing == IF finalizer THEN <<Burst("Stop", last), Burst("Down", last)>> ELSE <<>>
  <1>1. Gesture = IF mode \in {"AnnounceOnly", "Remove"} THEN opening
                  ELSE opening \o Sweep("Add") \o closing
    BY DEF Gesture
  <1>2. last \in Nat /\ \A d \in 0 .. last : d + 1 \in 1 .. destinations /\ (d + 1) - 1 = d
    OBVIOUS
  <1>3. \A p \in Phases, d \in Nat : Burst(p, d) \in B
    BY DEF Burst
  <1>4. /\ Sweep("Add") \in Seq(B) /\ Len(Sweep("Add")) = destinations
        /\ \A d \in 0 .. last : Sweep("Add")[d + 1] = Burst("Add", d)
    <2>1. \A i \in 1 .. destinations : Burst("Add", i - 1) \in B
      BY <1>3 DEF Phases
    <2> QED BY <1>2, <2>1 DEF Sweep
  <1>5. CASE mode = "AnnounceOnly"
    <2>1. Gesture = Sweep("Announce")
      BY <1>1, <1>5
    <2> QED BY <1>2, <1>5, <2>1, SweepLaw DEF Adds
  <1>6. CASE mode = "Remove"
    <2>1. Gesture = <<Burst("Remove", 0)>>
      BY <1>1, <1>6
    <2> QED BY <1>6, <2>1 DEF Adds
  <1>7. CASE Adds
    <2> DEFINE sweep == Sweep("Add")
    <2>1. Gesture = (opening \o sweep) \o closing
      BY <1>1, <1>7 DEF Adds
    <2>2. /\ opening \in Seq(B) /\ Len(opening) = Offset /\ Offset \in {0, 1}
          /\ mode = "AnnounceAdd" => opening[1] = Burst("Announce", 0)
          /\ mode = "RemoveAdd" => opening[1] = Burst("Remove", 0)
      <3>1. Burst("Announce", 0) \in B /\ Burst("Remove", 0) \in B
        BY <1>3 DEF Phases
      <3>2. CASE mode = "AddOnly"
        <4>1. opening = <<>> /\ Offset = 0
          BY <3>2 DEF Offset
        <4> QED BY <3>2, <4>1
      <3>3. CASE mode = "AnnounceAdd"
        <4>1. opening = <<Burst("Announce", 0)>> /\ Offset = 1
          BY <3>3 DEF Offset
        <4> HIDE DEF opening, B
        <4> QED BY <3>1, <3>3, <4>1
      <3>4. CASE mode = "RemoveAdd"
        <4>1. opening = <<Burst("Remove", 0)>> /\ Offset = 1
          BY <3>4 DEF Offset
        <4> HIDE DEF opening, B
        <4> QED BY <3>1, <3>4, <4>1
      <3> QED BY <1>7, <3>2, <3>3, <3>4 DEF Adds
    <2>3. /\ closing \in Seq(B) /\ Len(closing) = IF finalizer THEN 2 ELSE 0
          /\ finalizer => closing[1] = Burst("Stop", last) /\ closing[2] = Burst("Down", last)
      <3>1. Burst("Stop", last) \in B /\ Burst("Down", last) \in B
        BY <1>2, <1>3 DEF Phases
      <3> HIDE DEF B, last
      <3> QED BY <3>1
    <2> HIDE DEF opening, closing, B, sweep, last
    <2>4. sweep \in Seq(B) /\ Len(sweep) = destinations
      BY <1>4 DEF sweep
    <2>5. /\ Len(opening \o sweep) = Offset + destinations /\ opening \o sweep \in Seq(B)
          /\ \A i \in 1 .. Offset : (opening \o sweep)[i] = opening[i]
          /\ \A i \in 1 .. destinations : (opening \o sweep)[Offset + i] = sweep[i]
      BY <2>2, <2>4
    <2>6. /\ Len(Gesture) = Offset + destinations + Len(closing)
          /\ \A i \in 1 .. Offset + destinations : Gesture[i] = (opening \o sweep)[i]
          /\ \A i \in 1 .. Len(closing) : Gesture[Offset + destinations + i] = closing[i]
      <3> DEFINE front == opening \o sweep
      <3>1. front \in Seq(B) /\ Len(front) = Offset + destinations /\ Gesture = front \o closing
        BY <2>1, <2>5
      <3> HIDE DEF front
      <3>2. /\ Len(front \o closing) = Len(front) + Len(closing)
            /\ \A i \in 1 .. Len(front) : (front \o closing)[i] = front[i]
            /\ \A i \in 1 .. Len(closing) : (front \o closing)[Len(front) + i] = closing[i]
        <4>1. front \in Seq(B) /\ closing \in Seq(B)
          BY <2>3, <3>1
        <4> QED BY ONLY <4>1, Joined
      <3> QED BY <3>1, <3>2 DEF front
    <2>7. Offset = 1 => Gesture[1] = opening[1]
      BY <2>2, <2>5, <2>6
    <2>8. ASSUME NEW d \in 0 .. destinations - 1 PROVE Gesture[Offset + d + 1] = Burst("Add", d)
      <3>1. d + 1 \in 1 .. destinations /\ Offset + (d + 1) \in 1 .. Offset + destinations
        BY <2>2
      <3>2. Gesture[Offset + (d + 1)] = sweep[d + 1]
        BY <2>5, <2>6, <3>1
      <3>3. sweep[d + 1] = Burst("Add", d)
        BY <1>4 DEF sweep, last
      <3>4. Offset + (d + 1) = Offset + d + 1
        BY <2>2
      <3> QED BY <3>2, <3>3, <3>4
    <2>9. ASSUME finalizer
          PROVE  /\ Gesture[Offset + destinations + 1] = Burst("Stop", last)
                 /\ Gesture[Offset + destinations + 2] = Burst("Down", last)
      BY <2>3, <2>6, <2>9
    <2> QED BY <1>7, <2>2, <2>3, <2>6, <2>7, <2>8, <2>9 DEF Adds, Offset, last
  <1> QED BY <1>5, <1>6, <1>7 DEF EnrollmentModes, Adds

\* The burst at hand has its place in the gesture.
LEMMA AtPlace ==
    ASSUME TypeInv, PhaseInv, Running
    PROVE  /\ Place \in Nat /\ Place + 1 <= Len(Gesture) /\ Len(Gesture) \in Nat
           /\ Gesture[Place + 1] = Burst(phase, index)
  <1>1. /\ destinations \in Nat \ {0} /\ finalizer \in BOOLEAN /\ mode \in EnrollmentModes
        /\ index \in 0 .. destinations - 1 /\ phase \in Phases
    BY DEF TypeInv
  <1>2. Offset \in {0, 1} /\ (mode = "AnnounceAdd" => Offset = 1)
        /\ (mode = "RemoveAdd" => Offset = 1)
    BY DEF Offset
  <1>3. CASE phase = "Announce"
    <2>1. Place = index
      BY <1>3 DEF Place
    <2>2. CASE mode = "AnnounceOnly"
      BY <1>1, <1>3, <2>1, <2>2, GestureLaw
    <2>3. CASE mode = "AnnounceAdd" /\ index = 0
      BY <1>1, <1>2, <1>3, <2>1, <2>3, GestureLaw DEF Adds
    <2> QED BY <1>3, <2>2, <2>3 DEF PhaseInv
  <1>4. CASE phase = "Remove"
    <2>1. Place = 0 /\ index = 0 /\ mode \in {"Remove", "RemoveAdd"}
      BY <1>4 DEF Place, PhaseInv
    <2> QED BY <1>1, <1>2, <1>4, <2>1, GestureLaw DEF Adds
  <1>5. CASE phase = "Add"
    <2>1. Place = Offset + index /\ Adds
      BY <1>5 DEF Place, PhaseInv
    <2> QED BY <1>1, <1>2, <1>5, <2>1, GestureLaw
  <1>6. CASE phase = "Stop"
    <2>1. Place = Offset + destinations /\ Adds /\ finalizer /\ index = destinations - 1
      BY <1>6 DEF Place, PhaseInv
    <2> QED BY <1>1, <1>2, <1>6, <2>1, GestureLaw
  <1>7. CASE phase = "Down"
    <2>1. Place = Offset + destinations + 1 /\ Adds /\ finalizer /\ index = destinations - 1
      BY <1>7 DEF Place, PhaseInv
    <2>2. Place + 1 = Offset + destinations + 2
      BY <1>1, <1>2, <2>1
    <2> QED BY <1>1, <1>2, <1>7, <2>1, <2>2, GestureLaw
  <1> QED BY <1>1, <1>3, <1>4, <1>5, <1>6, <1>7 DEF Phases

-----------------------------------------------------------------------------
(* The steps *)

\* The types of the module follow from those of the invariant.
LEMMA ImpliesTypeOK == TypeInv => TypeOK
  BY DEF TypeInv, TypeOK

\* The assumption on the constants, apart.
LEMMA Constants ==
    ASSUME EnrollmentAssumption
    PROVE  /\ Modes \subseteq EnrollmentModes /\ DestinationCounts \subseteq Nat \ {0}
           /\ Finalizers \subseteq BOOLEAN
           /\ Repeats \in Nat /\ RepeatInterval \in Nat /\ EnrollTimeout \in Nat
           /\ TxTimeout \in Nat /\ FinalizerDelay \in Nat /\ Window \in Nat /\ TraceSize \in Nat
  BY DEF EnrollmentAssumption

\* The active entry is marked, the rest of the trace stays.
LEMMA Marks ==
    ASSUME TypeInv, NEW ok \in BOOLEAN
    PROVE  /\ Marked(ok) \in Seq(Entries) /\ Len(Marked(ok)) = Len(trace)
           /\ DOMAIN Marked(ok) = DOMAIN trace
           /\ \A k \in DOMAIN trace :
                  /\ Marked(ok)[k].phase = trace[k].phase /\ Marked(ok)[k].dest = trace[k].dest
                  /\ Marked(ok)[k].seq = trace[k].seq
                  /\ Marked(ok)[k].ok = IF k = active THEN ok ELSE trace[k].ok
  <1>1. trace \in Seq(Entries) /\ active \in Nat /\ active <= Len(trace)
    BY DEF TypeInv
  <1>2. CASE active = 0
    BY <1>1, <1>2 DEF Marked
  <1>3. CASE active # 0
    <2>1. active \in DOMAIN trace /\ DOMAIN trace = 1 .. Len(trace)
      BY <1>1, <1>3
    <2> DEFINE e == trace[active]
               n == [e EXCEPT !.ok = ok]
    <2>2. e \in Entries
      BY <1>1, <2>1
    <2>3. n \in Entries /\ n.phase = e.phase /\ n.dest = e.dest /\ n.seq = e.seq /\ n.ok = ok
      BY <2>2 DEF Entries
    <2>4. Marked(ok) = [trace EXCEPT ![active] = n]
      BY <1>3 DEF Marked
    <2> HIDE DEF n
    <2>5. Marked(ok) \in Seq(Entries) /\ Len(Marked(ok)) = Len(trace)
          /\ DOMAIN Marked(ok) = DOMAIN trace
      BY <1>1, <2>1, <2>3, <2>4
    <2>6. \A k \in DOMAIN trace : Marked(ok)[k] = IF k = active THEN n ELSE trace[k]
      BY <1>1, <2>1, <2>4
    <2> QED BY <2>3, <2>5, <2>6
  <1> QED BY <1>2, <1>3

\* What the trace becomes when the enrollment ends keeps its type.
LEMMA EndRecorded ==
    ASSUME EnrollmentAssumption, TypeInv, NEW ok \in BOOLEAN, NEW e \in Entries
    PROVE  /\ Recorded(Marked(ok), e) \in Seq(Entries)
           /\ Len(Recorded(Marked(ok), e)) <= TraceSize
  BY Marks, Records, Constants DEF TypeInv

\* The entries that end a trace.
LEMMA EndEntries == Entry("Failed", 0, 0, FALSE) \in Entries /\ Entry("Complete", 0, 0, TRUE) \in Entries
  BY DEF Entry, Entries

\* A step that ends the enrollment, and one that leaves it where it is.
Stops == /\ step' \in {"Idle", "PairFailed"}
         /\ UNCHANGED <<phase, mode, destinations, finalizer, index, log, floor>>

Stays == UNCHANGED <<step, phase, mode, destinations, finalizer, index, remaining, log, floor>>

GapOver == /\ step = "Gap" /\ step' = "Send" /\ phase' = "Down"
           /\ UNCHANGED <<mode, destinations, finalizer, index, log, floor>>

\* What a step can do to the gesture.
LEMMA Shapes ==
    ASSUME [Next]_vars
    PROVE  StartEnrollment \/ SendBurst \/ CopyDone \/ GapOver \/ Stops \/ Stays
  <1>1. CASE UNCHANGED vars
    BY <1>1 DEF vars, machine, burst, history, Stays
  <1>2. CASE CancelPairing
    BY <1>2 DEF CancelPairing, Stops, history
  <1>3. CASE PairFailed
    BY <1>3 DEF PairFailed, Stops, history, burst
  <1>4. CASE PairComplete
    BY <1>4 DEF PairComplete, Stops, history, burst
  <1>5. CASE Refused
    BY <1>5 DEF Refused, Fail, FailEnrollment, Stops, history
  <1>6. CASE RefusedByRadio
    BY <1>6 DEF RefusedByRadio, Stops, history
  <1>7. CASE BurstFails
    BY <1>7 DEF BurstFails, Fail, FailEnrollment, Stops, history
  <1>8. CASE FinalizerGap
    BY <1>8 DEF FinalizerGap, Fail, FailEnrollment, Stops, GapOver, history, burst
  <1>9. CASE BusyAnnounce
    BY <1>9 DEF BusyAnnounce, Stays, history
  <1>10. CASE NextCopy
    BY <1>10 DEF NextCopy, Stays, history, machine
  <1>11. CASE Tick
    BY <1>11 DEF Tick, Stays, machine, burst
  <1> QED BY <1>1, <1>2, <1>3, <1>4, <1>5, <1>6, <1>7, <1>8, <1>9, <1>10, <1>11
          DEF Next, Sends, Waits, Ends

-----------------------------------------------------------------------------
(* Types *)

\* The parts of the state that a step changes or keeps together.
LEMMA Kept ==
    /\ UNCHANGED vars <=> UNCHANGED <<machine, burst, clocks, report, sequence, channel, bounds,
                                      history>>
    /\ UNCHANGED machine <=> UNCHANGED <<step, phase, mode, destinations, finalizer, known>>
    /\ UNCHANGED burst <=> UNCHANGED <<index, addSequence, remaining, paused, onAir>>
    /\ UNCHANGED clocks <=> UNCHANGED <<pauseAge, age, stateAge, openAge>>
    /\ UNCHANGED report <=> UNCHANGED <<outcome, trace, active>>
    /\ UNCHANGED channel <=> UNCHANGED <<paired, target, enrolled>>
    /\ UNCHANGED bounds <=> UNCHANGED <<starts, busy>>
    /\ UNCHANGED history <=> UNCHANGED <<log, floor, windowAge>>
  BY DEF vars, machine, burst, clocks, report, channel, bounds, history

\* The initial state.
LEMMA InitTypes == ASSUME EnrollmentAssumption, Init PROVE TypeInv
  <1>1. trace \in Seq(Entries) /\ log \in Seq(Bursts) /\ Len(trace) = 0
    BY Lengths DEF Init
  <1>2. 1 \in Nat \ {0} /\ 0 < 1 /\ 0 <= EnrollTimeout + 1
    BY Constants
  <1>3. /\ step = "Idle" /\ phase = "Remove" /\ mode = "RemoveAdd"
        /\ destinations = 1 /\ finalizer = FALSE /\ known = FALSE
        /\ index = 0 /\ addSequence = 0 /\ remaining = 0 /\ paused = FALSE /\ onAir = FALSE
        /\ pauseAge = 0 /\ age = 0 /\ stateAge = 0 /\ openAge = 0
        /\ outcome = "None" /\ active = 0 /\ sequence = 0
        /\ paired \in BOOLEAN /\ target = FALSE /\ enrolled \in BOOLEAN
        /\ starts = 0 /\ busy = 0 /\ floor = 0 /\ windowAge = 0
    BY DEF Init
  <1>4. phase \in Phases /\ mode \in EnrollmentModes
    BY <1>3 DEF Phases, EnrollmentModes
  <1>5. /\ finalizer \in BOOLEAN /\ known \in BOOLEAN /\ paused \in BOOLEAN /\ onAir \in BOOLEAN
        /\ paired \in BOOLEAN /\ target \in BOOLEAN /\ enrolled \in BOOLEAN
    BY <1>3
  <1>6. /\ index = 0 /\ addSequence = 0 /\ remaining = 0 /\ pauseAge = 0 /\ age = 0 /\ stateAge = 0
        /\ openAge = 0 /\ active = 0 /\ sequence = 0 /\ starts = 0 /\ busy = 0 /\ floor = 0
        /\ windowAge = 0 /\ destinations = 1 /\ step = "Idle" /\ outcome = "None"
    BY <1>3
  <1> HIDE <1>3
  <1> QED BY <1>1, <1>2, <1>4, <1>5, <1>6, Constants DEF TypeInv

\* An enrollment that fails keeps the types.
LEMMA FailTypes ==
    ASSUME EnrollmentAssumption, TypeInv, Fail,
           UNCHANGED <<mode, destinations, finalizer, known, clocks, sequence, bounds, history>>
    PROVE  TypeInv'
  <1>1. /\ trace' \in Seq(Entries) /\ Len(trace') <= TraceSize
        /\ active' \in Nat /\ active' <= Len(trace')
        /\ outcome' \in {outcome, "ConfigurationFailure"}
    <2>1. CASE FailEnrollment
      <3>1. trace' \in Seq(Entries) /\ Len(trace') <= TraceSize /\ active' = 0
        BY <2>1, EndRecorded, EndEntries DEF FailEnrollment
      <3>2. 0 <= Len(trace')
        BY <3>1, Lengths
      <3>3. outcome' \in {outcome, "ConfigurationFailure"}
        BY <2>1 DEF FailEnrollment, Told
      <3> QED BY <3>1, <3>2, <3>3
    <2>2. CASE UNCHANGED report
      <3>1. UNCHANGED <<outcome, trace, active>>
        BY <2>2, Kept
      <3> QED BY <3>1 DEF TypeInv
    <2> QED BY <2>1, <2>2 DEF Fail
  <1>2. step' = "PairFailed" /\ onAir' = FALSE
    BY DEF Fail, FailEnrollment
  <1>3. UNCHANGED <<phase, mode, destinations, finalizer, known, index, addSequence, remaining,
                    paused, pauseAge, age, stateAge, openAge, sequence, paired, target, enrolled,
                    starts, busy, log, floor, windowAge>>
    BY Kept DEF Fail
  <1> QED BY <1>1, <1>2, <1>3 DEF TypeInv

\* The number of a burst is a number.
LEMMA PreparedTypes ==
    ASSUME TypeInv, Prepared
    PROVE  sequence' \in Nat /\ addSequence' \in Nat /\ FrameSequence \in Nat
  BY DEF TypeInv, Prepared, FrameSequence

\* A burst begins.
LEMMA SendTypes ==
    ASSUME EnrollmentAssumption, TypeInv, SendBurst
    PROVE  TypeInv'
  <1>1. sequence' \in Nat /\ addSequence' \in Nat /\ FrameSequence \in Nat
    BY PreparedTypes DEF SendBurst
  <1>2. log' \in Seq(Bursts)
    <2> DEFINE b == [phase |-> phase, dest |-> index, seq |-> FrameSequence, copies |-> 0]
    <2>1. b \in Bursts
      BY <1>1 DEF Bursts, TypeInv
    <2>2. log' = Append(log, b) /\ log \in Seq(Bursts)
      BY DEF SendBurst, TypeInv
    <2> HIDE DEF b
    <2> QED BY <2>1, <2>2, Appended
  <1>3. trace' \in Seq(Entries) /\ Len(trace') <= TraceSize /\ active' \in Nat /\ active' <= Len(trace')
    <2>1. CASE phase = "Announce"
      BY <2>1 DEF SendBurst, TypeInv
    <2>2. CASE phase # "Announce"
      <3> DEFINE e == Entry(phase, index, FrameSequence, FALSE)
      <3>1. e \in Entries
        BY <1>1 DEF Entry, Entries, TypeInv
      <3>2. /\ trace' = Recorded(trace, e)
            /\ active' = IF Len(trace) < TraceSize THEN Len(trace) + 1 ELSE active
            /\ trace \in Seq(Entries) /\ Len(trace) <= TraceSize /\ active \in Nat /\ active <= Len(trace)
        BY <2>2 DEF SendBurst, TypeInv
      <3> HIDE DEF e
      <3> QED BY <3>1, <3>2, Appended, Constants DEF Recorded
    <2> QED BY <2>1, <2>2
  <1>4. openAge' \in Nat /\ openAge' <= Window /\ windowAge' \in Nat /\ windowAge' <= Window
    BY Constants DEF SendBurst, TypeInv
  <1>5. /\ UNCHANGED <<phase, mode, destinations, finalizer, known, index, pauseAge, age, outcome,
                       channel, bounds, floor>>
        /\ step' = "Wait" /\ remaining' = Repeats /\ paused' = FALSE /\ onAir' = TRUE /\ stateAge' = 0
    BY DEF SendBurst
  <1>6. UNCHANGED <<paired, target, enrolled, starts, busy>>
    BY <1>5, Kept
  <1>7. Repeats \in Nat /\ Repeats <= Repeats /\ 0 \in Nat
    BY Constants
  <1> QED BY <1>1, <1>2, <1>3, <1>4, <1>5, <1>6, <1>7 DEF TypeInv

\* The radio refuses a burst that has its number.
LEMMA RefusedTypes ==
    ASSUME EnrollmentAssumption, TypeInv, RefusedByRadio
    PROVE  TypeInv'
  <1>1. sequence' \in Nat /\ addSequence' \in Nat /\ FrameSequence \in Nat
    BY PreparedTypes DEF RefusedByRadio
  <1>2. /\ trace' \in Seq(Entries) /\ Len(trace') <= TraceSize /\ active' \in Nat /\ active' <= Len(trace')
        /\ outcome' \in {outcome, "ConfigurationFailure"}
    <2>1. CASE phase = "Announce"
      BY <2>1, Kept DEF RefusedByRadio, TypeInv
    <2>2. CASE phase # "Announce"
      <3> DEFINE e == Entry(phase, index, FrameSequence, FALSE)
      <3>1. e \in Entries
        BY <1>1 DEF Entry, Entries, TypeInv
      <3>2. /\ trace' = Recorded(Recorded(trace, e), Entry("Failed", 0, 0, FALSE)) /\ active' = 0
            /\ outcome' \in {outcome, "ConfigurationFailure"}
        BY <2>2 DEF RefusedByRadio, Told
      <3> HIDE DEF e
      <3>3. Recorded(trace, e) \in Seq(Entries) /\ Len(Recorded(trace, e)) <= TraceSize
        BY <3>1, Records, Constants DEF TypeInv
      <3>4. trace' \in Seq(Entries) /\ Len(trace') <= TraceSize
        BY <3>2, <3>3, EndEntries, Records, Constants
      <3> QED BY <3>2, <3>4, Lengths
    <2> QED BY <2>1, <2>2
  <1>3. /\ UNCHANGED <<phase, mode, destinations, finalizer, known, index, remaining, paused, onAir,
                       clocks, channel, bounds, history>>
        /\ step' = "PairFailed"
    BY DEF RefusedByRadio
  <1> QED BY <1>1, <1>2, <1>3, Kept DEF TypeInv

\* What follows a burst that is over.
AfterBurst == AfterAnnounce \/ AfterRemove \/ AfterAdd \/ AfterStop \/ AfterDown

\* The report and the channel after a burst.
LEMMA AfterTypes ==
    ASSUME EnrollmentAssumption, TypeInv, AfterBurst
    PROVE  /\ trace' \in Seq(Entries) /\ Len(trace') <= TraceSize /\ active' \in Nat /\ active' <= Len(trace')
           /\ outcome' \in {outcome, "Transmitted"}
           /\ paired' \in BOOLEAN /\ target' \in BOOLEAN /\ enrolled' \in BOOLEAN
           /\ step' \in {"Send", "Gap", "PairComplete"} /\ phase' \in Phases
           /\ index' \in Nat /\ index' < destinations
  <1>1. \/ trace' = Marked(TRUE) /\ active' = 0
        \/ trace' = Recorded(Marked(TRUE), Entry("Complete", 0, 0, TRUE)) /\ active' = 0
        \/ UNCHANGED <<trace, active>>
    <2>1. CASE AfterAnnounce
      BY <2>1 DEF AfterAnnounce
    <2>2. CASE AfterRemove
      BY <2>2 DEF AfterRemove, MarkActive
    <2>3. CASE AfterAdd
      BY <2>3 DEF AfterAdd, MarkActive, Enroll
    <2>4. CASE AfterStop
      BY <2>4 DEF AfterStop, MarkActive
    <2>5. CASE AfterDown
      BY <2>5 DEF AfterDown, Enroll
    <2> QED BY <2>1, <2>2, <2>3, <2>4, <2>5 DEF AfterBurst
  <1>2. trace' \in Seq(Entries) /\ Len(trace') <= TraceSize /\ active' \in Nat /\ active' <= Len(trace')
    <2>1. CASE trace' = Marked(TRUE) /\ active' = 0
      <3>1. Marked(TRUE) \in Seq(Entries) /\ Len(Marked(TRUE)) = Len(trace)
        BY Marks
      <3>2. 0 <= Len(trace) /\ Len(trace) <= TraceSize
        BY Lengths DEF TypeInv
      <3> QED BY <2>1, <3>1, <3>2
    <2>2. CASE trace' = Recorded(Marked(TRUE), Entry("Complete", 0, 0, TRUE)) /\ active' = 0
      <3>1. trace' \in Seq(Entries) /\ Len(trace') <= TraceSize
        BY <2>2, EndRecorded, EndEntries
      <3>2. 0 <= Len(trace')
        BY <3>1, Lengths
      <3> QED BY <2>2, <3>1, <3>2
    <2>3. CASE UNCHANGED <<trace, active>>
      BY <2>3 DEF TypeInv
    <2> QED BY <1>1, <2>1, <2>2, <2>3
  <1>8. /\ index \in Nat /\ index < destinations /\ phase \in Phases
        /\ paired \in BOOLEAN /\ target \in BOOLEAN /\ enrolled \in BOOLEAN
    BY DEF TypeInv
  <1>9. ~LastDestination => index + 1 \in Nat /\ index + 1 < destinations
    <2>1. index \in Nat /\ destinations \in Nat
      BY DEF TypeInv
    <2> QED BY <2>1 DEF LastDestination
  <1>3. CASE AfterAnnounce
    <2>1. /\ step' \in {"Send", "PairComplete"} /\ phase' \in {phase, "Add", "Announce"}
          /\ index' = index \/ (~LastDestination /\ index' = index + 1)
          /\ UNCHANGED <<outcome, channel>>
      BY <1>3 DEF AfterAnnounce, GoOn
    <2>3. UNCHANGED <<outcome, paired, target, enrolled>>
      BY <2>1 DEF channel
    <2>2. phase' \in Phases
      BY <1>8, <2>1 DEF Phases
    <2> QED BY <1>2, <1>8, <1>9, <2>1, <2>2, <2>3
  <1>4. CASE AfterRemove
    BY <1>2, <1>4 DEF AfterRemove, RemovesOnly, TypeInv, Phases
  <1>5. CASE AfterAdd
    <2>1. CASE ~LastDestination
      <3>1. /\ step' = "Send" /\ phase' = "Add" /\ index' = index + 1
            /\ UNCHANGED <<outcome, paired, target, enrolled>>
        BY <1>5, <2>1, Kept DEF AfterAdd, GoOn
      <3>2. phase' \in Phases
        BY <3>1 DEF Phases
      <3>3. index' \in Nat /\ index' < destinations
        BY <1>9, <2>1, <3>1
      <3> QED BY <1>2, <1>8, <3>1, <3>2, <3>3
    <2>2. CASE LastDestination /\ finalizer
      BY <1>2, <1>5, <2>2, Kept DEF AfterAdd, GoOn, FinalizerPhase, TypeInv, Phases
    <2>3. CASE LastDestination /\ ~finalizer
      BY <1>2, <1>5, <2>3 DEF AfterAdd, Enroll, Told, TypeInv, Phases
    <2> QED BY <2>1, <2>2, <2>3 DEF TypeInv
  <1>6. CASE AfterStop
    BY <1>2, <1>6, Kept DEF AfterStop, GoOn, TypeInv, Phases
  <1>7. CASE AfterDown
    BY <1>2, <1>7 DEF AfterDown, Enroll, Told, TypeInv, Phases
  <1> QED BY <1>3, <1>4, <1>5, <1>6, <1>7 DEF AfterBurst

\* A copy has left the radio.
LEMMA CopyTypes ==
    ASSUME EnrollmentAssumption, TypeInv, CopyDone, log # <<>>
    PROVE  TypeInv'
  <1>1. log' \in Seq(Bursts)
    BY Counted DEF CopyDone, TypeInv
  <1>2. /\ UNCHANGED <<mode, destinations, finalizer, known, addSequence, age, openAge, sequence,
                       bounds, floor, windowAge>>
        /\ onAir' = FALSE
    BY DEF CopyDone
  <1>3. CASE BurstOver /\ AfterBurst
    <2>1. stateAge' = 0 /\ UNCHANGED <<remaining, paused, pauseAge>>
      BY <1>3 DEF CopyDone, BurstOver
    <2> QED BY <1>1, <1>2, <1>3, <2>1, AfterTypes, Kept DEF TypeInv
  <1>4. CASE ~BurstOver
    <2>1. /\ remaining' = remaining - 1 /\ remaining # 0 /\ paused' = TRUE /\ pauseAge' = 0
          /\ UNCHANGED <<step, phase, index, stateAge, report, channel>>
      BY <1>4 DEF CopyDone, BurstOver
    <2>2. remaining' \in Nat /\ remaining' <= Repeats /\ 0 \in Nat /\ 0 <= RepeatInterval
      <3>1. remaining \in Nat /\ remaining <= Repeats
        BY DEF TypeInv
      <3> QED BY <2>1, <3>1, Constants
    <2>3. UNCHANGED <<outcome, trace, active, paired, target, enrolled, starts, busy>>
      BY <1>2, <2>1, Kept
    <2>4. pauseAge' \in Nat /\ pauseAge' <= RepeatInterval /\ paused' \in BOOLEAN
      BY <2>1, <2>2
    <2>5. UNCHANGED <<step, phase, index, stateAge>> /\ onAir' \in BOOLEAN
      BY <1>2, <2>1
    <2> QED BY <1>1, <1>2, <2>2, <2>3, <2>4, <2>5 DEF TypeInv
  <1> QED BY <1>3, <1>4 DEF CopyDone, AfterBurst

\* An age stops at its bound.
LEMMA LeastBound ==
    ASSUME NEW a \in Nat, NEW b \in Nat
    PROVE  Least(a + 1, b) \in 0 .. b /\ Least(a + 1, b) \in Nat
  BY DEF Least

\* Every step keeps the types; a copy is counted in a burst that has begun.
LEMMA TypeStep ==
    ASSUME EnrollmentAssumption, TypeInv, [Next]_vars, step = "Wait" => log # <<>>
    PROVE  TypeInv'
  <1>1. CASE UNCHANGED vars
    BY <1>1, Kept DEF TypeInv
  <1>2. CASE StartEnrollment
    <2>1. mode' \in EnrollmentModes /\ destinations' \in Nat \ {0} /\ finalizer' \in BOOLEAN
      BY <1>2, Constants DEF StartEnrollment
    <2>2. /\ step' = "Send" /\ phase' \in Phases /\ known' \in BOOLEAN /\ target' \in BOOLEAN
          /\ starts' \in Nat
      <3>1. FirstPhase(mode') \in Phases
        BY <2>1 DEF FirstPhase, Phases, EnrollmentModes
      <3>2. /\ step' = "Send" /\ phase' = FirstPhase(mode') /\ target' \in {target, TRUE}
            /\ known' = (paired \/ target') /\ starts' = starts + 1
        BY <1>2 DEF StartEnrollment
      <3>3. paired \in BOOLEAN /\ target \in BOOLEAN /\ starts \in Nat
        BY DEF TypeInv
      <3>4. known' \in BOOLEAN
        BY <3>2
      <3>5. target' \in BOOLEAN
        BY <3>2, <3>3
      <3>6. starts' \in Nat
        BY <3>2, <3>3
      <3> QED BY <3>1, <3>2, <3>4, <3>5, <3>6
    <2>3. /\ index' = 0 /\ addSequence' = 0 /\ remaining' = 0 /\ paused' = FALSE /\ age' = 0
          /\ stateAge' = 0 /\ openAge' = 0 /\ pauseAge' = 0 /\ outcome' = "InProgress"
          /\ trace' = <<>> /\ active' = 0 /\ log' = <<>> /\ floor' = sequence /\ windowAge' = 0
          /\ UNCHANGED <<onAir, sequence, paired, enrolled, busy>>
      BY <1>2 DEF StartEnrollment
    <2>4. trace' \in Seq(Entries) /\ log' \in Seq(Bursts) /\ Len(trace') = 0
      BY <2>3, Lengths
    <2>5. 0 < destinations' /\ 0 <= EnrollTimeout + 1
      BY <2>1, Constants
    <2>6. paused' \in BOOLEAN /\ onAir' \in BOOLEAN /\ paired' \in BOOLEAN /\ enrolled' \in BOOLEAN
      BY <2>3 DEF TypeInv
    <2>7. /\ index' = 0 /\ addSequence' = 0 /\ remaining' = 0 /\ age' = 0
          /\ stateAge' = 0 /\ openAge' = 0 /\ pauseAge' = 0 /\ outcome' = "InProgress"
          /\ active' = 0 /\ floor' = sequence /\ windowAge' = 0
          /\ UNCHANGED <<sequence, busy>> /\ sequence \in Nat /\ busy \in Nat
      BY <2>3 DEF TypeInv
    <2> QED BY <2>1, <2>2, <2>4, <2>5, <2>6, <2>7, Constants DEF TypeInv
  <1>3. CASE CancelPairing
    BY <1>3, Kept DEF CancelPairing, Told, TypeInv
  <1>4. CASE PairFailed
    BY <1>4, Kept DEF PairFailed, Told, TypeInv
  <1>5. CASE PairComplete
    BY <1>5, Kept DEF PairComplete, Told, TypeInv
  <1>6. CASE Refused
    BY <1>6, FailTypes DEF Refused
  <1>7. CASE BusyAnnounce
    BY <1>7, PreparedTypes, Kept DEF BusyAnnounce, TypeInv
  <1>8. CASE CopyDone
    BY <1>8, CopyTypes DEF CopyDone
  <1>9. CASE NextCopy
    <2>1. /\ UNCHANGED <<machine, index, addSequence, remaining, age, openAge, report, sequence,
                          channel, bounds, history>>
          /\ onAir' \in {onAir, TRUE} /\ stateAge' \in {stateAge, 0} /\ paused' = FALSE
          /\ pauseAge' = 0
      BY <1>9 DEF NextCopy
    <2>2. /\ paused' \in BOOLEAN
          /\ onAir' \in BOOLEAN
          /\ stateAge' \in Nat /\ pauseAge' = 0
      <3>1. onAir \in BOOLEAN /\ stateAge \in Nat
        BY DEF TypeInv
      <3>2. paused' \in BOOLEAN
        BY <2>1
      <3>3. onAir' \in BOOLEAN
        BY <2>1, <3>1
      <3>4. stateAge' \in Nat /\ pauseAge' = 0
        BY <2>1, <3>1
      <3> QED BY <3>2, <3>3, <3>4
    <2>3. UNCHANGED <<machine, index, addSequence, remaining, age, openAge, report, sequence,
                      channel, bounds, history>>
      BY <2>1
    <2> QED BY <2>2, <2>3, Constants, Kept DEF TypeInv
  <1>10. CASE BurstFails
    BY <1>10, FailTypes DEF BurstFails
  <1>11. CASE FinalizerGap
    <2>1. CASE Fail
      BY <1>11, <2>1, FailTypes DEF FinalizerGap
    <2>2. CASE ~Fail
      <3>1. /\ step' = "Send" /\ phase' = "Down"
            /\ UNCHANGED <<mode, destinations, finalizer, known, burst, clocks, report, sequence,
                           channel, bounds, history>>
        BY <1>11, <2>2 DEF FinalizerGap
      <3> QED BY <3>1, Kept DEF TypeInv, Phases
    <2> QED BY <2>1, <2>2
  <1>12. CASE Tick
    <2>1. /\ UNCHANGED <<machine, burst, report, sequence, channel, bounds, log, floor>>
          /\ age' \in Nat /\ age' <= EnrollTimeout + 1 /\ pauseAge' \in Nat /\ pauseAge' <= RepeatInterval
          /\ openAge' \in Nat /\ openAge' <= Window /\ windowAge' \in Nat /\ windowAge' <= Window
          /\ stateAge' \in Nat
      <3>1. age \in Nat /\ stateAge \in Nat /\ pauseAge \in Nat /\ openAge \in Nat /\ windowAge \in Nat
        BY DEF TypeInv
      <3>2. /\ EnrollTimeout + 1 \in Nat /\ TxTimeout + 1 \in Nat /\ FinalizerDelay \in Nat
            /\ RepeatInterval \in Nat /\ Window \in Nat
        BY Constants
      <3>3. UNCHANGED <<machine, burst, report, sequence, channel, bounds, log, floor>>
        BY <1>12 DEF Tick
      <3>4. age' = Least(age + 1, EnrollTimeout + 1)
            /\ \/ stateAge' = 0 \/ stateAge' = Least(stateAge + 1, FinalizerDelay)
               \/ stateAge' = Least(stateAge + 1, TxTimeout + 1)
        BY <1>12 DEF Tick
      <3>5. pauseAge' = 0 \/ pauseAge' = Least(pauseAge + 1, RepeatInterval)
        BY <1>12 DEF Tick
      <3>6. /\ openAge' = 0 \/ openAge' = Least(openAge + 1, Window)
            /\ windowAge' = 0 \/ windowAge' = Least(windowAge + 1, Window)
        BY <1>12 DEF Tick
      <3>7. 0 \in Nat /\ 0 <= RepeatInterval /\ 0 <= Window
        BY <3>2
      <3>8. age' \in Nat /\ age' <= EnrollTimeout + 1 /\ stateAge' \in Nat
        <4>1. Least(age + 1, EnrollTimeout + 1) \in 0 .. EnrollTimeout + 1
          BY <3>1, <3>2, LeastBound
        <4>2. Least(stateAge + 1, FinalizerDelay) \in Nat /\ Least(stateAge + 1, TxTimeout + 1) \in Nat
          BY <3>1, <3>2, LeastBound
        <4> QED BY <3>2, <3>4, <4>1, <4>2
      <3>9. pauseAge' \in Nat /\ pauseAge' <= RepeatInterval
        <4>1. Least(pauseAge + 1, RepeatInterval) \in 0 .. RepeatInterval
          BY <3>1, <3>2, LeastBound
        <4> QED BY <3>2, <3>5, <3>7, <4>1
      <3>10. openAge' \in Nat /\ openAge' <= Window /\ windowAge' \in Nat /\ windowAge' <= Window
        <4>1. Least(openAge + 1, Window) \in 0 .. Window /\ Least(windowAge + 1, Window) \in 0 .. Window
          BY <3>1, <3>2, LeastBound
        <4> QED BY <3>2, <3>6, <3>7, <4>1
      <3> QED BY <3>3, <3>8, <3>9, <3>10
    <2> QED BY <2>1, Kept DEF TypeInv
  <1> QED BY <1>1, <1>2, <1>3, <1>4, <1>5, <1>6, <1>7, <1>8, <1>9, <1>10, <1>11, <1>12,
             SendTypes, RefusedTypes DEF Next, Sends, Waits, Ends

-----------------------------------------------------------------------------
(* The gesture on the air *)

\* The gesture of an enrollment does not change while it runs.
LEMMA SameGesture ==
    ASSUME UNCHANGED <<mode, destinations, finalizer>>
    PROVE  Gesture' = Gesture /\ Offset' = Offset /\ (Adds' <=> Adds)
  BY DEF Gesture, Sweep, Burst, Offset, Adds

\* After a burst comes the next one of the gesture, the gap before DOWN, or the end.
LEMMA AfterLaw ==
    ASSUME TypeInv, PhaseInv, step = "Wait", AfterBurst, UNCHANGED <<mode, destinations, finalizer>>
    PROVE  /\ PhaseInv'
           /\ \/ step' = "Send" /\ Place' = Place + 1
              \/ step' = "Gap" /\ UNCHANGED <<phase, index>> /\ Place' = Place
              \/ step' = "PairComplete" /\ Len(Gesture) = Place + 1
  <1>1. /\ destinations \in Nat \ {0} /\ finalizer \in BOOLEAN /\ mode \in EnrollmentModes
        /\ index \in Nat /\ index < destinations
    BY DEF TypeInv
  <1>2. Running /\ Offset' = Offset /\ Offset \in {0, 1}
    BY SameGesture DEF Running, Offset
  <1>3. CASE AfterAnnounce
    <2>1. phase = "Announce" /\ Place = index
      BY <1>3 DEF AfterAnnounce, Place
    <2>2. CASE mode # "AnnounceOnly"
      <3>1. step' = "Send" /\ phase' = "Add" /\ index' = index
        BY <1>3, <2>2 DEF AfterAnnounce, GoOn
      <3>2. mode = "AnnounceAdd" /\ index = 0 /\ Offset = 1 /\ destinations \in DestinationCounts
        BY <1>2, <2>1, <2>2 DEF PhaseInv, Offset
      <3>3. Place' = Place + 1
        BY <1>2, <2>1, <3>1, <3>2 DEF Place
      <3> QED BY <3>1, <3>2, <3>3 DEF PhaseInv, Running, Adds
    <2>3. CASE mode = "AnnounceOnly" /\ ~LastDestination
      <3>1. step' = "Send" /\ phase' = "Announce" /\ index' = index + 1
        BY <1>3, <2>3 DEF AfterAnnounce, GoOn
      <3> QED BY <1>1, <1>2, <2>1, <2>3, <3>1 DEF PhaseInv, Place, Running
    <2>4. CASE mode = "AnnounceOnly" /\ LastDestination
      <3>1. step' = "PairComplete"
        BY <1>3, <2>4 DEF AfterAnnounce, GoOn
      <3>2. Len(Gesture) = destinations /\ index + 1 = destinations
        BY <1>1, <2>4, GestureLaw DEF LastDestination
      <3> QED BY <2>1, <3>1, <3>2 DEF PhaseInv, Running
    <2> QED BY <2>2, <2>3, <2>4
  <1>4. CASE AfterRemove
    <2>1. phase = "Remove" /\ Place = index /\ index' = index /\ index = 0
          /\ mode \in {"Remove", "RemoveAdd"} /\ destinations \in DestinationCounts
      BY <1>2, <1>4 DEF AfterRemove, Place, PhaseInv
    <2>2. CASE mode = "RemoveAdd"
      <3>1. step' = "Send" /\ phase' = "Add"
        BY <1>4, <2>2 DEF AfterRemove
      <3>2. Offset = 1 /\ Place' = Place + 1
        BY <1>2, <2>1, <2>2, <3>1 DEF Offset, Place
      <3> QED BY <2>1, <2>2, <3>1, <3>2 DEF PhaseInv, Running, Adds
    <2>3. CASE mode = "Remove"
      <3>1. step' = "PairComplete"
        BY <1>4, <2>3 DEF AfterRemove
      <3> QED BY <1>1, <2>1, <2>3, <3>1, GestureLaw DEF PhaseInv, Running
    <2> QED BY <2>1, <2>2, <2>3
  <1>5. CASE AfterAdd
    <2>1. phase = "Add" /\ Place = Offset + index /\ Adds /\ destinations \in DestinationCounts
      BY <1>2, <1>5 DEF AfterAdd, Place, PhaseInv
    <2>2. Adds' /\ Len(Gesture) = Offset + destinations + (IF finalizer THEN 2 ELSE 0)
      BY <1>1, <2>1, GestureLaw, SameGesture
    <2>3. CASE ~LastDestination
      <3>1. step' = "Send" /\ phase' = "Add" /\ index' = index + 1
        BY <1>5, <2>3 DEF AfterAdd, GoOn
      <3>2. Place' = Place + 1
        BY <1>1, <1>2, <2>1, <3>1 DEF Place
      <3> QED BY <2>1, <2>2, <3>1, <3>2 DEF PhaseInv, Running
    <2>4. CASE LastDestination /\ finalizer
      <3>1. step' = "Send" /\ phase' = "Stop" /\ index' = index
        BY <1>5, <2>4 DEF AfterAdd, GoOn, FinalizerPhase
      <3>2. index = destinations - 1
        BY <1>1, <2>4 DEF LastDestination
      <3>3. Place' = Place + 1
        BY <1>1, <1>2, <2>1, <3>1, <3>2 DEF Place
      <3> QED BY <2>1, <2>2, <2>4, <3>1, <3>2, <3>3 DEF PhaseInv, Running
    <2>5. CASE LastDestination /\ ~finalizer
      <3>1. step' = "PairComplete"
        BY <1>5, <2>5 DEF AfterAdd, Enroll
      <3>2. index + 1 = destinations
        BY <1>1, <2>5 DEF LastDestination
      <3> QED BY <1>1, <1>2, <2>1, <2>2, <2>5, <3>1, <3>2 DEF PhaseInv, Running
    <2> QED BY <2>3, <2>4, <2>5
  <1>6. CASE AfterStop
    <2>1. phase = "Stop" /\ step' = "Gap" /\ UNCHANGED <<phase, index>>
      BY <1>6 DEF AfterStop, GoOn
    <2>2. Place' = Place /\ (Adds' <=> Adds)
      BY <1>2, <2>1, SameGesture DEF Place
    <2> QED BY <1>2, <2>1, <2>2 DEF PhaseInv, Running
  <1>7. CASE AfterDown
    <2>1. phase = "Down" /\ step' = "PairComplete" /\ Adds /\ finalizer
      BY <1>2, <1>7 DEF AfterDown, Enroll, PhaseInv
    <2>2. Place = Offset + destinations + 1 /\ Len(Gesture) = Offset + destinations + 2
      BY <1>1, <2>1, GestureLaw DEF Place
    <2> QED BY <1>1, <1>2, <2>1, <2>2 DEF PhaseInv, Running
  <1> QED BY <1>3, <1>4, <1>5, <1>6, <1>7 DEF AfterBurst

\* A step keeps the phases to their mode.
LEMMA PhaseStep ==
    ASSUME EnrollmentAssumption, TypeInv, PhaseInv, [Next]_vars
    PROVE  PhaseInv'
  <1>1. CASE StartEnrollment
    <2>1. /\ step' = "Send" /\ phase' = FirstPhase(mode') /\ index' = 0
          /\ mode' \in EnrollmentModes /\ destinations' \in DestinationCounts
      BY <1>1, Constants DEF StartEnrollment
    <2> QED BY <2>1 DEF PhaseInv, FirstPhase, EnrollmentModes, Adds
  <1>2. CASE SendBurst
    <2>1. step = "Send" /\ step' = "Wait" /\ UNCHANGED <<phase, mode, destinations, finalizer, index>>
      BY <1>2 DEF SendBurst, Prepared
    <2> QED BY <2>1, SameGesture DEF PhaseInv, Running
  <1>3. CASE CopyDone
    <2>1. step = "Wait" /\ UNCHANGED <<mode, destinations, finalizer>>
          /\ (AfterBurst \/ UNCHANGED <<step, phase, index>>)
      BY <1>3 DEF CopyDone, AfterBurst
    <2>2. CASE UNCHANGED <<step, phase, index>>
      BY <2>1, <2>2, SameGesture DEF PhaseInv, Running
    <2> QED BY <2>1, <2>2, AfterLaw
  <1>4. CASE GapOver
    <2>1. step = "Gap" /\ step' = "Send" /\ phase' = "Down"
          /\ UNCHANGED <<mode, destinations, finalizer, index>>
      BY <1>4 DEF GapOver
    <2> QED BY <2>1, SameGesture DEF PhaseInv, Running
  <1>5. CASE Stops
    BY <1>5 DEF Stops, PhaseInv, Running
  <1>6. CASE Stays
    <2>1. UNCHANGED <<step, phase, mode, destinations, finalizer, index>>
      BY <1>6 DEF Stays
    <2> QED BY <2>1, SameGesture DEF PhaseInv, Running
  <1> QED BY <1>1, <1>2, <1>3, <1>4, <1>5, <1>6, Shapes

-----------------------------------------------------------------------------
(* The log *)

\* AtPlace, of the state a step leads to.
LEMMA AtPlaceNext ==
    TypeInv /\ PhaseInv /\ Running =>
        Place \in Nat /\ Place + 1 <= Len(Gesture) /\ Len(Gesture) \in Nat
  BY AtPlace

\* A burst that begins is the next one of the gesture.
LEMMA LogSend ==
    ASSUME EnrollmentAssumption, TypeInv, PhaseInv, LogInv, SendBurst
    PROVE  LogInv'
  <1> DEFINE b == [phase |-> phase, dest |-> index, seq |-> FrameSequence, copies |-> 0]
  <1>1. /\ step = "Send" /\ step' = "Wait" /\ remaining' = Repeats /\ log' = Append(log, b)
        /\ UNCHANGED <<phase, mode, destinations, finalizer, index>>
    BY DEF SendBurst, Prepared
  <1>2. Gesture' = Gesture /\ Offset' = Offset /\ Place' = Place
    BY <1>1, SameGesture DEF Place
  <1>3. /\ Place \in Nat /\ Place + 1 <= Len(Gesture) /\ Gesture[Place + 1] = Burst(phase, index)
    BY <1>1, AtPlace DEF Running
  <1>4. b \in Bursts /\ b.phase = phase /\ b.dest = index /\ b.copies = 0
    BY <1>1, PreparedTypes DEF SendBurst, Bursts, TypeInv
  <1> HIDE DEF b
  <1>5. /\ log \in Seq(Bursts) /\ Len(log) = Place /\ DOMAIN log = 1 .. Place
        /\ \A i \in DOMAIN log : Full(log[i])
    BY <1>1 DEF TypeInv, LogInv
  <1>6. /\ Len(log') = Place + 1 /\ DOMAIN log' = 1 .. Place + 1 /\ log'[Place + 1] = b
        /\ \A i \in DOMAIN log : log'[i] = log[i]
    BY <1>1, <1>4, <1>5, Appended
  <1>7. \A i \in DOMAIN log' : i \in DOMAIN log \/ i = Place + 1
    BY <1>3, <1>5, <1>6
  <1>8. GestureInOrder'
    <2>1. ASSUME NEW i \in DOMAIN log
          PROVE  Burst(log'[i].phase, log'[i].dest) = Gesture'[i] /\ Full(log'[i])
      <3>1. Burst(log[i].phase, log[i].dest) = Gesture[i] /\ Full(log[i])
        BY <1>5 DEF LogInv, GestureInOrder
      <3> QED BY <1>2, <1>6, <3>1
    <2>2. Burst(log'[Place + 1].phase, log'[Place + 1].dest) = Gesture'[Place + 1]
      BY <1>2, <1>3, <1>4, <1>6
    <2>3. Len(log') <= Len(Gesture')
      BY <1>2, <1>3, <1>6
    <2>4. \A i \in DOMAIN log' : /\ Burst(log'[i].phase, log'[i].dest) = Gesture'[i]
                                 /\ i < Len(log') => Full(log'[i])
      BY <1>3, <1>6, <1>7, <2>1, <2>2
    <2> QED BY <2>3, <2>4 DEF GestureInOrder, Burst, Full
  <1>9. \A i \in DOMAIN log' : log'[i].phase = "Add" => i = Offset' + log'[i].dest + 1
    <2>1. \A i \in DOMAIN log : log[i].phase = "Add" => i = Offset + log[i].dest + 1
      BY DEF LogInv
    <2>2. phase = "Add" => Place = Offset + index
      BY DEF Place
    <2> QED BY <1>2, <1>4, <1>6, <1>7, <2>1, <2>2
  <1>10. log'[Len(log')].copies = Repeats - remaining'
    BY <1>1, <1>3, <1>4, <1>6, Constants
  <1> QED BY <1>1, <1>2, <1>3, <1>4, <1>6, <1>8, <1>9, <1>10 DEF LogInv

\* A copy that leaves the radio is counted in the burst at hand.
LEMMA LogCopy ==
    ASSUME EnrollmentAssumption, TypeInv, PhaseInv, LogInv, CopyDone
    PROVE  LogInv'
  <1>1. /\ step = "Wait" /\ UNCHANGED <<mode, destinations, finalizer>>
        /\ log' = [log EXCEPT ![Len(log)].copies = @ + 1]
        /\ \/ remaining = 0 /\ AfterBurst
           \/ remaining # 0 /\ remaining' = remaining - 1 /\ UNCHANGED <<step, phase, index>>
    BY DEF CopyDone, AfterBurst, BurstOver
  <1>2. Gesture' = Gesture /\ Offset' = Offset
    BY <1>1, SameGesture
  <1>3. /\ Place \in Nat /\ Place + 1 <= Len(Gesture) /\ Len(Gesture) \in Nat
    BY <1>1, AtPlace DEF Running
  <1>4. /\ log \in Seq(Bursts) /\ Len(log) = Place + 1 /\ log # <<>> /\ DOMAIN log = 1 .. Place + 1
        /\ log[Len(log)].phase = phase /\ log[Len(log)].dest = index
        /\ log[Len(log)].copies = Repeats - remaining
        /\ remaining \in Nat /\ Repeats \in Nat
    <2>1. log \in Seq(Bursts) /\ remaining \in Nat /\ Repeats \in Nat
      BY Constants DEF TypeInv
    <2>2. /\ Len(log) = Place + 1 /\ log[Len(log)].phase = phase /\ log[Len(log)].dest = index
          /\ log[Len(log)].copies = Repeats - remaining
      BY <1>1 DEF LogInv
    <2>3. log # <<>> /\ DOMAIN log = 1 .. Place + 1
      BY <1>3, <2>1, <2>2
    <2> QED BY <2>1, <2>2, <2>3
  <1>5. /\ Len(log') = Place + 1 /\ DOMAIN log' = DOMAIN log
        /\ \A i \in DOMAIN log : /\ log'[i].phase = log[i].phase /\ log'[i].dest = log[i].dest
                                 /\ log'[i].copies = IF i = Place + 1 THEN log[i].copies + 1
                                                     ELSE log[i].copies
    BY <1>1, <1>4, Counted
  <1>6. \A i \in DOMAIN log : i < Len(log) => Full(log'[i])
    BY <1>4, <1>5 DEF LogInv, GestureInOrder, Full
  <1>7. GestureInOrder'
    <2>1. \A i \in DOMAIN log : Burst(log'[i].phase, log'[i].dest) = Gesture'[i]
      BY <1>2, <1>5 DEF LogInv, GestureInOrder, Burst
    <2> QED BY <1>2, <1>3, <1>4, <1>5, <1>6, <2>1 DEF GestureInOrder, Burst, Full
  <1>8. \A i \in DOMAIN log' : log'[i].phase = "Add" => i = Offset' + log'[i].dest + 1
    BY <1>2, <1>5 DEF LogInv
  <1>9. CASE remaining # 0
    <2>1. remaining' = remaining - 1 /\ UNCHANGED <<step, phase, index>>
      BY <1>1, <1>9
    <2>2. Place' = Place
      BY <1>1, <1>2, <2>1 DEF Place
    <2>3. log'[Len(log')].copies = Repeats - remaining' /\ Len(log') = Place' + 1
          /\ log'[Len(log')].phase = phase' /\ log'[Len(log')].dest = index'
      BY <1>3, <1>4, <1>5, <1>9, <2>1, <2>2
    <2> QED BY <1>1, <1>7, <1>8, <2>1, <2>3 DEF LogInv
  <1>10. CASE remaining = 0 /\ AfterBurst
    <2>1. \A i \in DOMAIN log' : Full(log'[i])
      <3>1. Full(log'[Place + 1])
        BY <1>3, <1>4, <1>5, <1>10 DEF Full
      <3>2. \A i \in DOMAIN log' : i < Len(log) \/ i = Place + 1
        BY <1>3, <1>4, <1>5
      <3> QED BY <1>5, <1>6, <3>1, <3>2
    <2>2. CASE step' = "Send" /\ Place' = Place + 1
      BY <1>5, <1>7, <1>8, <2>1, <2>2 DEF LogInv, Full
    <2>3. CASE step' = "Gap" /\ UNCHANGED <<phase, index>> /\ Place' = Place
      <3>1. Place + 1 \in DOMAIN log' /\ Place + 1 \in DOMAIN log
        BY <1>3, <1>4, <1>5
      <3>2. /\ Len(log') = Place' + 1 /\ Full(log'[Len(log')])
            /\ log'[Len(log')].phase = phase' /\ log'[Len(log')].dest = index'
        BY <1>4, <1>5, <2>1, <2>3, <3>1
      <3> QED BY <1>7, <1>8, <2>3, <3>2 DEF LogInv, Full
    <2>4. CASE step' = "PairComplete" /\ Len(Gesture) = Place + 1
      <3>1. WholeGesture'
        BY <1>2, <1>5, <2>1, <2>4 DEF WholeGesture, Full
      <3> QED BY <1>7, <1>8, <2>4, <3>1 DEF LogInv
    <2> QED BY <1>1, <1>10, <2>2, <2>3, <2>4, AfterLaw
  <1> QED BY <1>1, <1>9, <1>10

\* Every step keeps the log to the gesture.
LEMMA LogStep ==
    ASSUME EnrollmentAssumption, TypeInv, PhaseInv, LogInv, TypeInv', PhaseInv', [Next]_vars
    PROVE  LogInv'
  <1>1. CASE StartEnrollment
    <2>1. log' = <<>> /\ step' = "Send" /\ phase' = FirstPhase(mode') /\ index' = 0
      BY <1>1 DEF StartEnrollment
    <2>2. Place' = 0
      BY <2>1 DEF Place, Offset, FirstPhase
    <2>3. Len(Gesture') \in Nat
      <3>1. Running'
        BY <2>1 DEF Running
      <3>2. (TypeInv /\ PhaseInv /\ Running)' =>
                (Place \in Nat /\ Place + 1 <= Len(Gesture) /\ Len(Gesture) \in Nat)'
        BY AtPlaceNext, PTL
      <3> QED BY <3>1, <3>2
    <2>4. Len(log') = 0 /\ DOMAIN log' = {}
      BY <2>1
    <2> QED BY <2>1, <2>2, <2>3, <2>4 DEF LogInv, GestureInOrder
  <1>2. CASE GapOver
    <2>1. /\ step = "Gap" /\ step' = "Send" /\ phase' = "Down" /\ phase = "Stop"
          /\ UNCHANGED <<mode, destinations, finalizer, index, log>>
      BY <1>2 DEF GapOver, PhaseInv, Running
    <2>2. Gesture' = Gesture /\ Offset' = Offset /\ Place' = Place + 1
      BY <2>1, SameGesture DEF Place, TypeInv, Offset
    <2>3. /\ Len(log) = Place' /\ \A i \in DOMAIN log : Full(log[i])
      <3>1. Place \in Nat /\ Len(log) = Place + 1 /\ DOMAIN log = 1 .. Place + 1
        BY <2>1, AtPlace DEF Running, LogInv, TypeInv
      <3>2. \A i \in DOMAIN log : i < Len(log) \/ i = Len(log)
        BY <3>1
      <3> QED BY <2>1, <2>2, <3>1, <3>2 DEF LogInv, GestureInOrder
    <2> QED BY <2>1, <2>2, <2>3 DEF LogInv, GestureInOrder, Burst, Full
  <1>3. CASE Stops
    <2>1. /\ step' \in {"Idle", "PairFailed"}
          /\ UNCHANGED <<mode, destinations, finalizer, log>>
      BY <1>3 DEF Stops
    <2> QED BY <2>1, SameGesture DEF LogInv, GestureInOrder, Burst, Full
  <1>4. CASE Stays
    <2>1. UNCHANGED <<step, phase, mode, destinations, finalizer, index, remaining, log>>
      BY <1>4 DEF Stays
    <2>2. Gesture' = Gesture /\ Offset' = Offset /\ Place' = Place
      BY <2>1, SameGesture DEF Place
    <2> QED BY <2>1, <2>2 DEF LogInv, GestureInOrder, WholeGesture, Burst, Full
  <1> QED BY <1>1, <1>2, <1>3, <1>4, LogSend, LogCopy, Shapes

-----------------------------------------------------------------------------
(* The window and the numbers *)

\* Which steps touch the window, and which the numbers.
LEMMA Touches ==
    ASSUME [Next]_vars
    PROVE  /\ StartEnrollment \/ SendBurst \/ Tick \/ UNCHANGED <<openAge, windowAge>>
           /\ StartEnrollment \/ SendBurst \/ BusyAnnounce \/ RefusedByRadio
              \/ UNCHANGED <<sequence, addSequence, floor>>
  <1>1. CASE UNCHANGED vars
    BY <1>1, Kept
  <1>2. CASE CancelPairing
    BY <1>2, Kept DEF CancelPairing
  <1>3. CASE PairFailed \/ PairComplete
    BY <1>3, Kept DEF PairFailed, PairComplete
  <1>4. CASE Refused
    BY <1>4, Kept DEF Refused, Fail
  <1>5. CASE BusyAnnounce \/ RefusedByRadio
    BY <1>5, Kept DEF BusyAnnounce, RefusedByRadio
  <1>6. CASE CopyDone
    BY <1>6 DEF CopyDone
  <1>7. CASE NextCopy
    BY <1>7, Kept DEF NextCopy
  <1>8. CASE BurstFails
    BY <1>8, Kept DEF BurstFails, Fail
  <1>9. CASE FinalizerGap
    BY <1>9, Kept DEF FinalizerGap, Fail
  <1>10. CASE Tick
    BY <1>10, Kept DEF Tick
  <1> QED BY <1>1, <1>2, <1>3, <1>4, <1>5, <1>6, <1>7, <1>8, <1>9, <1>10 DEF Next, Sends, Waits, Ends

\* A counted copy changes neither what was sent nor its numbers.
LEMMA CopyKeepsBursts ==
    ASSUME TypeInv, CopyDone, log # <<>>
    PROVE  /\ DOMAIN log' = DOMAIN log /\ Len(log') = Len(log)
           /\ \A i \in DOMAIN log : /\ log'[i].phase = log[i].phase /\ log'[i].dest = log[i].dest
                                    /\ log'[i].seq = log[i].seq
                                    /\ i # Len(log) => log'[i].copies = log[i].copies
           /\ AddSent' <=> AddSent
  <1>1. log \in Seq(Bursts) /\ log' = [log EXCEPT ![Len(log)].copies = @ + 1]
    BY DEF TypeInv, CopyDone
  <1>2. /\ DOMAIN log' = DOMAIN log /\ Len(log') = Len(log)
        /\ \A i \in DOMAIN log : /\ log'[i].phase = log[i].phase /\ log'[i].dest = log[i].dest
                                 /\ log'[i].seq = log[i].seq
                                 /\ i # Len(log) => log'[i].copies = log[i].copies
    BY <1>1, Counted
  <1> QED BY <1>2 DEF AddSent

\* Burst by burst, what begins is added to the log.
LEMMA SendAdds ==
    ASSUME TypeInv, SendBurst
    PROVE  /\ FrameSequence \in Nat /\ log \in Seq(Bursts) /\ Len(log) \in Nat
           /\ Len(log') = Len(log) + 1 /\ DOMAIN log' = DOMAIN log \cup {Len(log) + 1}
           /\ Len(log) + 1 \notin DOMAIN log
           /\ \A i \in DOMAIN log : log'[i] = log[i]
           /\ log'[Len(log) + 1].phase = phase /\ log'[Len(log) + 1].dest = index
           /\ log'[Len(log) + 1].seq = FrameSequence /\ log'[Len(log) + 1].copies = 0
           /\ AddSent' <=> AddSent \/ phase = "Add"
  <1> DEFINE b == [phase |-> phase, dest |-> index, seq |-> FrameSequence, copies |-> 0]
  <1>1. FrameSequence \in Nat
    BY PreparedTypes DEF SendBurst
  <1>2. /\ b \in Bursts /\ b.phase = phase /\ b.dest = index /\ b.seq = FrameSequence
        /\ b.copies = 0
    BY <1>1 DEF Bursts, TypeInv
  <1>3. log' = Append(log, b) /\ log \in Seq(Bursts)
    BY DEF SendBurst, TypeInv
  <1> HIDE DEF b
  <1>4. /\ Len(log') = Len(log) + 1 /\ DOMAIN log' = DOMAIN log \cup {Len(log) + 1}
        /\ log'[Len(log) + 1] = b /\ \A i \in DOMAIN log : log'[i] = log[i]
    BY <1>2, <1>3, Appended
  <1>5. Len(log) \in Nat /\ Len(log) + 1 \notin DOMAIN log
    BY <1>3
  <1>6. AddSent' <=> AddSent \/ phase = "Add"
    <2>1. AddSent' <=> \E i \in DOMAIN log \cup {Len(log) + 1} : log'[i].phase = "Add"
      BY <1>4 DEF AddSent
    <2> QED BY <1>2, <1>4, <2>1 DEF AddSent
  <1> QED BY <1>1, <1>2, <1>3, <1>4, <1>5, <1>6

\* Every step keeps the window to the first ADD.
LEMMA AddStep ==
    ASSUME EnrollmentAssumption, TypeInv, PhaseInv, LogInv, AddInv, [Next]_vars
    PROVE  AddInv'
  <1>1. CASE StartEnrollment
    <2>1. /\ log' = <<>> /\ step' = "Send" /\ index' = 0 /\ openAge' = 0 /\ windowAge' = 0
          /\ phase' \in {"Announce", "Remove", "Add"}
      BY <1>1 DEF StartEnrollment, FirstPhase
    <2>2. ~AddSent'
      BY <2>1 DEF AddSent
    <2> QED BY <2>1, <2>2 DEF AddInv
  <1>2. CASE SendBurst
    <2>1. /\ step = "Send" /\ step' = "Wait" /\ UNCHANGED <<phase, index>>
          /\ openAge' = (IF Opens THEN 0 ELSE openAge)
          /\ windowAge' = (IF AddSent THEN windowAge ELSE 0)
      BY <1>2 DEF SendBurst, Prepared, AddSent
    <2>2. phase \in Phases /\ index \in Nat
      BY DEF TypeInv
    <2>3. /\ windowAge = openAge
          /\ phase \in {"Announce", "Remove"} => ~AddSent /\ openAge = 0
          /\ phase \in {"Stop", "Down"} => AddSent
          /\ phase = "Add" => (AddSent <=> index > 0)
      BY <2>1 DEF AddInv, Running
    <2>4. openAge' = windowAge'
      BY <2>1, <2>2, <2>3 DEF Opens, Phases
    <2> QED BY <1>2, <2>1, <2>3, <2>4, SendAdds DEF AddInv, Running
  <1>3. CASE CopyDone
    <2>1. /\ step = "Wait" /\ UNCHANGED <<openAge, windowAge, mode, destinations, finalizer>>
          /\ (AfterBurst \/ UNCHANGED <<step, phase, index>>)
      BY <1>3 DEF CopyDone, AfterBurst
    <2>2. AddSent' <=> AddSent
      <3>1. Len(log) = Place + 1 /\ Place \in Nat
        BY <2>1, AtPlace DEF LogInv, Running
      <3>2. log # <<>>
        BY <3>1
      <3> QED BY <1>3, <3>2, CopyKeepsBursts
    <2>3. CASE UNCHANGED <<step, phase, index>>
      BY <2>1, <2>2, <2>3 DEF AddInv, Running
    <2>4. CASE AfterBurst
      <3>1. /\ windowAge = openAge
            /\ phase \in {"Announce", "Remove"} => ~AddSent /\ openAge = 0
            /\ phase \in {"Stop", "Down", "Add"} => AddSent
        BY <2>1 DEF AddInv, Running
      <3>2. CASE AfterAnnounce
        <4>1. phase = "Announce" /\ (mode = "AnnounceOnly" \/ index = 0)
          BY <2>1, <3>2 DEF AfterAnnounce, PhaseInv, Running
        <4> QED BY <2>1, <2>2, <3>1, <3>2, <4>1 DEF AfterAnnounce, GoOn, AddInv, Running
      <3>3. CASE AfterRemove
        <4>1. phase = "Remove" /\ index = 0
          BY <2>1, <3>3 DEF AfterRemove, PhaseInv, Running
        <4>2. index' = index /\ ((step' = "Send" /\ phase' = "Add") \/ step' = "PairComplete")
          BY <3>3 DEF AfterRemove
        <4> QED BY <2>1, <2>2, <3>1, <4>1, <4>2 DEF AddInv, Running
      <3>4. CASE AfterAdd
        <4>1. phase = "Add" /\ index \in Nat
          BY <3>4 DEF AfterAdd, TypeInv
        <4>2. \/ step' = "Send" /\ phase' = "Add" /\ index' = index + 1
              \/ step' = "Send" /\ phase' = "Stop"
              \/ step' = "PairComplete"
          BY <3>4 DEF AfterAdd, GoOn, Enroll, FinalizerPhase
        <4> QED BY <2>1, <2>2, <3>1, <4>1, <4>2 DEF AddInv, Running
      <3>5. CASE AfterStop
        BY <2>1, <2>2, <3>1, <3>5 DEF AfterStop, GoOn, AddInv, Running
      <3>6. CASE AfterDown
        BY <2>1, <2>2, <3>1, <3>6 DEF AfterDown, Enroll, AddInv, Running
      <3> QED BY <2>4, <3>2, <3>3, <3>4, <3>5, <3>6 DEF AfterBurst
    <2> QED BY <2>1, <2>3, <2>4
  <1>4. CASE Tick
    <2>1. UNCHANGED <<step, phase, index, log>> /\ openAge' = windowAge' /\ Running
      BY <1>4, Kept DEF Tick, AddInv
    <2>2. phase \in {"Announce", "Remove"} => openAge' = 0
      BY <1>4 DEF Tick
    <2> QED BY <2>1, <2>2 DEF AddInv, AddSent, Running
  <1>5. CASE UNCHANGED <<openAge, windowAge>> /\ (GapOver \/ Stops \/ Stays)
    <2>1. CASE GapOver
      <3>1. phase = "Stop"
        BY <2>1 DEF GapOver, PhaseInv, Running
      <3> QED BY <1>5, <2>1, <3>1 DEF GapOver, AddInv, AddSent, Running
    <2>2. CASE Stops
      BY <1>5, <2>2 DEF Stops, AddInv, Running
    <2>3. CASE Stays
      BY <1>5, <2>3 DEF Stays, AddInv, AddSent, Running
    <2> QED BY <1>5, <2>1, <2>2, <2>3
  <1> QED BY <1>1, <1>2, <1>3, <1>4, <1>5, Shapes, Touches

\* Every step keeps the numbers fresh.
LEMMA SeqStep ==
    ASSUME EnrollmentAssumption, TypeInv, PhaseInv, LogInv, AddInv, SeqInv, [Next]_vars
    PROVE  SeqInv'
  <1>1. sequence \in Nat /\ addSequence \in Nat /\ floor \in Nat /\ log \in Seq(Bursts)
    BY DEF TypeInv
  <1>2. \A i \in DOMAIN log : log[i].seq \in Nat
    <2>1. \A i \in DOMAIN log : log[i] \in Bursts
      BY <1>1
    <2> QED BY <2>1 DEF Bursts
  <1>3. CASE StartEnrollment
    <2>1. log' = <<>> /\ floor' = sequence /\ sequence' = sequence
      BY <1>3 DEF StartEnrollment
    <2> QED BY <1>1, <2>1 DEF SeqInv, SequencesFresh
  <1>4. CASE SendBurst
    <2> DEFINE n == Len(log) + 1
    <2>1. /\ step = "Send" /\ floor' = floor
          /\ sequence' = (IF Draws THEN sequence + 1 ELSE sequence)
          /\ addSequence' = (IF phase = "Add" /\ Draws THEN sequence' ELSE addSequence)
          /\ FrameSequence = (IF phase = "Add" THEN addSequence' ELSE sequence')
      BY <1>4 DEF SendBurst, Prepared, FrameSequence
    <2>2. phase = "Add" => (AddSent <=> index > 0)
      BY <2>1 DEF AddInv, Running
    <2>3. /\ DOMAIN log' = DOMAIN log \cup {n} /\ n \notin DOMAIN log
          /\ \A i \in DOMAIN log : log'[i] = log[i]
          /\ log'[n].phase = phase /\ log'[n].seq = FrameSequence
      BY <1>4, SendAdds
    <2> HIDE DEF n
    <2>4. \A i \in DOMAIN log : /\ floor < log[i].seq /\ log[i].seq <= sequence
                                /\ log[i].phase = "Add" => log[i].seq = addSequence
      BY DEF SeqInv
    <2>5. floor <= sequence /\ index \in Nat
      BY DEF SeqInv, TypeInv
    <2>6. CASE Draws
      <3>1. sequence' = sequence + 1 /\ FrameSequence = sequence + 1
        BY <2>1, <2>6
      <3>2. ~(phase = "Add" /\ AddSent)
        BY <2>2, <2>5, <2>6 DEF Draws
      <3>3. phase # "Add" => addSequence' = addSequence
        BY <2>1
      <3>4. phase = "Add" => addSequence' = sequence + 1
        BY <2>1, <2>6
      <3>5. phase = "Add" => \A i \in DOMAIN log : log[i].phase # "Add"
        BY <3>2 DEF AddSent
      <3>6. \A i \in DOMAIN log' :
                /\ floor' < log'[i].seq /\ log'[i].seq <= sequence'
                /\ log'[i].phase = "Add" => log'[i].seq = addSequence'
        BY <1>1, <1>2, <2>1, <2>3, <2>4, <2>5, <3>1, <3>3, <3>4, <3>5
      <3>7. \A i \in DOMAIN log : log[i].seq < FrameSequence
        BY <1>1, <1>2, <2>4, <3>1
      <3>8. SequencesFresh'
        <4>1. \A i, j \in DOMAIN log' : i # j =>
                  (log'[i].seq = log'[j].seq <=> log'[i].phase = "Add" /\ log'[j].phase = "Add")
          <5>1. \A i, j \in DOMAIN log : i # j =>
                    (log[i].seq = log[j].seq <=> log[i].phase = "Add" /\ log[j].phase = "Add")
            BY DEF SeqInv, SequencesFresh
          <5>2. \A i \in DOMAIN log : /\ log'[i].seq # log'[n].seq
                                      /\ ~(log'[i].phase = "Add" /\ log'[n].phase = "Add")
            BY <1>2, <2>3, <3>1, <3>5, <3>7, <1>1
          <5> QED BY <2>3, <5>1, <5>2
        <4> QED BY <3>6, <4>1 DEF SequencesFresh
      <3>9. floor' <= sequence'
        BY <1>1, <2>1, <2>5, <3>1
      <3> QED BY <3>6, <3>8, <3>9 DEF SeqInv
    <2>7. CASE ~Draws
      <3>1. /\ phase = "Add" /\ AddSent /\ sequence' = sequence /\ addSequence' = addSequence
            /\ FrameSequence = addSequence
        BY <2>1, <2>2, <2>5, <2>7 DEF Draws
      <3>2. PICK k \in DOMAIN log : log[k].phase = "Add"
        BY <3>1 DEF AddSent
      <3>3. floor < addSequence /\ addSequence <= sequence
        BY <2>4, <3>2
      <3>4. \A i \in DOMAIN log' :
                /\ floor' < log'[i].seq /\ log'[i].seq <= sequence'
                /\ log'[i].phase = "Add" => log'[i].seq = addSequence'
        BY <2>1, <2>3, <2>4, <3>1, <3>3
      <3>5. \A i, j \in DOMAIN log : i # j =>
                (log[i].seq = log[j].seq <=> log[i].phase = "Add" /\ log[j].phase = "Add")
        BY DEF SeqInv, SequencesFresh
      <3>6. \A i \in DOMAIN log : log[i].seq = addSequence <=> log[i].phase = "Add"
        BY <2>4, <3>2, <3>5
      <3>7. \A i, j \in DOMAIN log' : i # j =>
                (log'[i].seq = log'[j].seq <=> log'[i].phase = "Add" /\ log'[j].phase = "Add")
        BY <2>3, <3>1, <3>5, <3>6
      <3> QED BY <2>1, <2>5, <3>1, <3>4, <3>7 DEF SeqInv, SequencesFresh
    <2> QED BY <2>6, <2>7
  <1>5. CASE BusyAnnounce \/ RefusedByRadio
    <2>1. /\ UNCHANGED <<log, floor>> /\ step = "Send"
          /\ sequence' = (IF Draws THEN sequence + 1 ELSE sequence)
          /\ addSequence' = (IF phase = "Add" /\ Draws THEN sequence' ELSE addSequence)
      BY <1>5, Kept DEF BusyAnnounce, RefusedByRadio, Prepared
    <2>2. phase = "Add" /\ Draws => ~AddSent
      BY <2>1 DEF AddInv, Running, Draws, TypeInv
    <2>3. sequence <= sequence' /\ sequence' \in Nat
      BY <1>1, <2>1
    <2>4. \A i \in DOMAIN log : log[i].phase = "Add" => addSequence' = addSequence
      BY <2>1, <2>2 DEF AddSent
    <2>5. /\ floor <= sequence
          /\ \A i \in DOMAIN log : /\ floor < log[i].seq /\ log[i].seq <= sequence
                                   /\ log[i].phase = "Add" => log[i].seq = addSequence
      BY DEF SeqInv
    <2>6. \A i \in DOMAIN log : log[i].seq <= sequence'
      BY <1>1, <1>2, <2>3, <2>5
    <2>7. SequencesFresh' /\ floor <= sequence'
      BY <1>1, <2>1, <2>3, <2>5 DEF SeqInv, SequencesFresh
    <2> QED BY <2>1, <2>4, <2>5, <2>6, <2>7 DEF SeqInv
  <1>6. CASE CopyDone
    <2>1. UNCHANGED <<sequence, addSequence, floor>> /\ step = "Wait"
      BY <1>6 DEF CopyDone
    <2>2. log # <<>>
      <3>1. Len(log) = Place + 1 /\ Place \in Nat
        BY <2>1, AtPlace DEF LogInv, Running
      <3> QED BY <3>1
    <2>3. /\ DOMAIN log' = DOMAIN log
          /\ \A i \in DOMAIN log : log'[i].phase = log[i].phase /\ log'[i].seq = log[i].seq
      BY <1>6, <2>2, CopyKeepsBursts
    <2>4. SequencesFresh'
      BY <2>1, <2>3 DEF SeqInv, SequencesFresh
    <2> QED BY <2>1, <2>3, <2>4 DEF SeqInv
  <1>7. CASE UNCHANGED <<sequence, addSequence, floor, log>>
    BY <1>7 DEF SeqInv, SequencesFresh
  <1> QED BY <1>3, <1>4, <1>5, <1>6, <1>7, Shapes, Touches DEF GapOver, Stops, Stays

-----------------------------------------------------------------------------
(* The outcome *)

\* Every step keeps the outcome to the state of the enrollment.
LEMMA OutcomeStep ==
    ASSUME OutcomeInv, [Next]_vars
    PROVE  OutcomeInv'
  <1>1. CASE UNCHANGED vars
    BY <1>1, Kept DEF OutcomeInv, Running
  <1>2. CASE StartEnrollment
    BY <1>2 DEF StartEnrollment, OutcomeInv
  <1>3. CASE CancelPairing
    BY <1>3 DEF CancelPairing, Told, OutcomeInv, Running
  <1>4. CASE PairFailed
    BY <1>4 DEF PairFailed, Told, OutcomeInv, Running
  <1>5. CASE PairComplete
    BY <1>5 DEF PairComplete, Told, OutcomeInv, Running
  <1>6. CASE SendBurst
    BY <1>6 DEF SendBurst, Prepared, OutcomeInv, Running
  <1>7. CASE Refused \/ BurstFails
    BY <1>7 DEF Refused, BurstFails, Fail, FailEnrollment, OutcomeInv, Running
  <1>8. CASE BusyAnnounce
    BY <1>8, Kept DEF BusyAnnounce, OutcomeInv, Running
  <1>9. CASE RefusedByRadio
    BY <1>9 DEF RefusedByRadio, OutcomeInv, Running
  <1>10. CASE CopyDone
    <2>1. step = "Wait" /\ (AfterBurst \/ UNCHANGED <<step, outcome>>)
      BY <1>10, Kept DEF CopyDone, AfterBurst
    <2>2. \/ step' \in {"Send", "Gap", "PairComplete"} /\ outcome' = outcome
          \/ step' = "PairComplete" /\ outcome' = Told("Transmitted")
          \/ UNCHANGED <<step, outcome>>
      <3>1. CASE AfterAnnounce \/ AfterStop
        BY <3>1 DEF AfterAnnounce, AfterStop, GoOn
      <3>2. CASE AfterRemove
        BY <3>2 DEF AfterRemove
      <3>3. CASE AfterAdd
        BY <3>3 DEF AfterAdd, GoOn, Enroll
      <3>4. CASE AfterDown
        BY <3>4 DEF AfterDown, Enroll
      <3> QED BY <2>1, <3>1, <3>2, <3>3, <3>4 DEF AfterBurst
    <2> QED BY <2>1, <2>2 DEF Told, OutcomeInv, Running
  <1>11. CASE NextCopy
    BY <1>11, Kept DEF NextCopy, OutcomeInv, Running
  <1>12. CASE FinalizerGap
    BY <1>12, Kept DEF FinalizerGap, Fail, FailEnrollment, OutcomeInv, Running
  <1>13. CASE Tick
    BY <1>13, Kept DEF Tick, OutcomeInv, Running
  <1> QED BY <1>1, <1>2, <1>3, <1>4, <1>5, <1>6, <1>7, <1>8, <1>9, <1>10, <1>11, <1>12, <1>13
          DEF Next, Sends, Waits, Ends

-----------------------------------------------------------------------------
(* The trace *)

\* While an enrollment runs, the trace takes one more entry than the gesture has bursts.
LEMMA HasRoom ==
    ASSUME EnrollmentAssumption, Room, TypeInv, PhaseInv, Running
    PROVE  Len(Gesture) + 1 <= TraceSize /\ Len(Gesture) \in Nat
  <1>1. /\ destinations \in Nat \ {0} /\ finalizer \in BOOLEAN /\ mode \in EnrollmentModes
        /\ destinations \in DestinationCounts /\ destinations + 4 <= TraceSize /\ TraceSize \in Nat
    BY Constants DEF TypeInv, PhaseInv, Room
  <1>2. Offset \in {0, 1}
    BY DEF Offset
  <1>3. \/ Len(Gesture) = destinations \/ Len(Gesture) = 1
        \/ Len(Gesture) = Offset + destinations + (IF finalizer THEN 2 ELSE 0)
    BY <1>1, GestureLaw DEF EnrollmentModes, Adds
  <1>4. destinations \in Nat /\ 1 <= destinations
    BY <1>1
  <1>5. Len(Gesture) \in Nat /\ Len(Gesture) <= destinations + 3
    BY <1>2, <1>3, <1>4
  <1> QED BY <1>1, <1>4, <1>5

\* An entry that is recorded where there is room.
LEMMA Recording ==
    ASSUME EnrollmentAssumption, NEW t \in Seq(Entries), NEW e \in Entries, Len(t) < TraceSize
    PROVE  /\ Recorded(t, e) \in Seq(Entries) /\ Len(Recorded(t, e)) = Len(t) + 1
           /\ DOMAIN Recorded(t, e) = DOMAIN t \cup {Len(t) + 1} /\ Len(t) + 1 \notin DOMAIN t
           /\ Recorded(t, e)[Len(t) + 1] = e
           /\ \A k \in DOMAIN t : Recorded(t, e)[k] = t[k]
           /\ Recorded(t, e) # <<>>
  <1>1. Recorded(t, e) = Append(t, e) /\ Len(t) \in Nat /\ Len(t) + 1 \notin DOMAIN t
    BY DEF Recorded
  <1>2. Recorded(t, e) # <<>>
    BY <1>1
  <1> QED BY <1>1, <1>2, Appended

\* An entry that calls no burst a success leaves the others what they tell.
LEMMA StillTells ==
    ASSUME EnrollmentAssumption, NEW t \in Seq(Entries), NEW e \in Entries, Len(t) < TraceSize,
           ~e.ok \/ e.phase = "Complete", NEW g, Tells(t, g)
    PROVE  Tells(Recorded(t, e), g)
  <1> DEFINE r == Recorded(t, e)
             n == Len(t) + 1
  <1>1. DOMAIN r = DOMAIN t \cup {n} /\ r[n] = e /\ \A k \in DOMAIN t : r[k] = t[k]
    BY Recording
  <1> HIDE DEF r, n
  <1>2. \A k \in DOMAIN r : r[k].ok /\ r[k].phase # "Complete" =>
            \E i \in DOMAIN g : Matches(r[k], g[i]) /\ Full(g[i])
    BY <1>1 DEF Tells
  <1>3. \A i \in DOMAIN g : g[i].phase # "Announce" /\ Full(g[i]) =>
            \E k \in DOMAIN r : Matches(r[k], g[i]) /\ r[k].ok
    BY <1>1 DEF Tells
  <1> QED BY <1>2, <1>3 DEF Tells, r

\* A step that leaves trace and log alone keeps what the trace tells, unless it leaves a
\* burst behind that was being sent, which only a cancellation does.
LEMMA TraceQuiet ==
    ASSUME OutcomeInv, TraceInv, UNCHANGED <<trace, active, log, mode>>,
           \/ outcome' = outcome
           \/ outcome = "InProgress" /\ outcome' \in {"Cancelled", "NoResponse"}
           \/ step = "PairComplete" /\ outcome' = Told("Transmitted"),
           \/ UNCHANGED <<step, phase>>
           \/ step = "Gap" /\ step' = "Send"
           \/ step = "Send" /\ step' = "PairFailed"
           \/ step = "Wait" /\ phase = "Announce" /\ step' = "PairFailed"
           \/ step' = "Idle" /\ (Running => outcome' = "Cancelled")
    PROVE  TraceInv'
  <1>1. Tells(trace', log')
    BY DEF TraceInv
  <1>2. step' = "Wait" => step = "Wait" /\ phase' = phase
    OBVIOUS
  <1>3. Running' => Running
    BY DEF Running
  <1>4. outcome' = "ConfigurationFailure" => outcome = "ConfigurationFailure"
    BY DEF Told
  <1>5. outcome' = "Transmitted" \/ step' = "PairComplete" => outcome = "Transmitted" \/ step = "PairComplete"
    BY DEF Told
  <1>6. (~(step = "Wait" /\ phase # "Announce") => active = 0 \/ outcome = "Cancelled")
        /\ (outcome = "Cancelled" => outcome' = "Cancelled")
    BY DEF TraceInv, Told
  <1>7. ~(step' = "Wait" /\ phase' # "Announce") => active = 0 \/ outcome' = "Cancelled"
    BY <1>6 DEF Running
  <1> QED BY <1>1, <1>2, <1>3, <1>4, <1>5, <1>7 DEF TraceInv, EndsIn, Matches

\* A new burst, not yet sent in full, is not called a success.
LEMMA TraceSend ==
    ASSUME EnrollmentAssumption, Room, TypeInv, PhaseInv, LogInv, OutcomeInv, TraceInv, SendBurst
    PROVE  TraceInv'
  <1> DEFINE n == Len(log) + 1
             m == Len(trace) + 1
             e == Entry(phase, index, FrameSequence, FALSE)
  <1>1. /\ step = "Send" /\ step' = "Wait" /\ UNCHANGED <<phase, mode, index, outcome>>
        /\ outcome = "InProgress" /\ active = 0 /\ Running
    BY DEF SendBurst, Prepared, OutcomeInv, TraceInv, Running
  <1>2. /\ DOMAIN log' = DOMAIN log \cup {n} /\ Len(log') = n /\ n \notin DOMAIN log
        /\ \A i \in DOMAIN log : log'[i] = log[i]
        /\ log'[n].phase = phase /\ log'[n].dest = index /\ log'[n].seq = FrameSequence
        /\ log'[n].copies = 0 /\ FrameSequence \in Nat /\ Len(log) \in Nat
    BY SendAdds
  <1>3. /\ trace \in Seq(Entries) /\ Len(trace) \in Nat /\ Len(trace) <= Len(log)
        /\ Len(trace) < TraceSize
    <2>1. trace \in Seq(Entries) /\ Len(trace) <= Len(log)
      BY <1>1 DEF TypeInv, TraceInv
    <2>2. Len(log) + 1 <= Len(Gesture) /\ Len(Gesture) + 1 <= TraceSize /\ TraceSize \in Nat
          /\ Len(Gesture) \in Nat
      BY <1>1, AtPlace, HasRoom, Constants DEF LogInv
    <2>3. Len(trace) \in Nat
      BY <2>1, Lengths
    <2> QED BY <1>2, <2>1, <2>2, <2>3
  <1>4. ~Full(log'[n])
    BY <1>2, Constants DEF Full
  <1>5. Tells(trace, log')
    BY <1>2, <1>4 DEF TraceInv, Tells
  <1>6. CASE phase = "Announce"
    <2>1. UNCHANGED <<trace, active>>
      BY <1>6 DEF SendBurst
    <2> HIDE DEF n, m, e
    <2>2. Running' => Len(trace') <= Len(log')
      <3>1. Len(trace) <= n
        BY <1>2, <1>3 DEF n
      <3> QED BY <1>2, <2>1, <3>1
    <2> QED BY <1>1, <1>5, <1>6, <2>1, <2>2 DEF TraceInv
  <1>7. CASE phase # "Announce"
    <2>1. trace' = Recorded(trace, e) /\ active' = m
      BY <1>3, <1>7 DEF SendBurst
    <2>2. /\ e \in Entries /\ e.phase = phase /\ e.dest = index /\ e.seq = FrameSequence
          /\ e.ok = FALSE
      BY <1>2 DEF Entry, Entries, TypeInv
    <2> HIDE DEF e
    <2>3. /\ Len(trace') = m /\ DOMAIN trace' = DOMAIN trace \cup {m} /\ trace'[m] = e
      BY <1>3, <2>1, <2>2, Recording
    <2>4. Tells(trace', log')
      BY <1>3, <1>5, <2>1, <2>2, StillTells
    <2>5. m <= n
      BY <1>2, <1>3
    <2> HIDE DEF n, m
    <2>6. active' \in DOMAIN trace' /\ Matches(trace'[active'], log'[Len(log')])
          /\ ~trace'[active'].ok
      BY <1>2, <2>1, <2>2, <2>3 DEF Matches
    <2> QED BY <1>1, <1>2, <1>7, <2>3, <2>4, <2>5, <2>6 DEF TraceInv, Matches
  <1> QED BY <1>6, <1>7

\* The trace of a burst that did not succeed tells what it told; its end is recorded.
LEMMA TraceFails ==
    ASSUME EnrollmentAssumption, Room, TypeInv, PhaseInv, LogInv, OutcomeInv, TraceInv, Running,
           FailEnrollment, UNCHANGED <<log, mode>>
    PROVE  TraceInv'
  <1> DEFINE t == Marked(FALSE)
             e == Entry("Failed", 0, 0, FALSE)
  <1>1. /\ trace' = Recorded(t, e) /\ active' = 0 /\ step' = "PairFailed"
        /\ outcome' = "ConfigurationFailure" /\ outcome = "InProgress"
    BY DEF FailEnrollment, Told, OutcomeInv
  <1>2. e \in Entries /\ e.ok = FALSE /\ e.phase = "Failed"
    BY EndEntries DEF Entry
  <1>3. /\ t \in Seq(Entries) /\ Len(t) = Len(trace) /\ DOMAIN t = DOMAIN trace
        /\ \A k \in DOMAIN trace :
               /\ t[k].phase = trace[k].phase /\ t[k].dest = trace[k].dest
               /\ t[k].seq = trace[k].seq
               /\ t[k].ok = IF k = active THEN FALSE ELSE trace[k].ok
    BY Marks
  <1> HIDE DEF t, e
  <1>4. active \in DOMAIN trace => ~trace[active].ok
    <2>1. CASE step = "Wait" /\ phase # "Announce"
      BY <2>1 DEF TraceInv
    <2>2. CASE ~(step = "Wait" /\ phase # "Announce")
      <3>1. active = 0 /\ trace \in Seq(Entries)
        BY <1>1, <2>2 DEF TraceInv, TypeInv
      <3> QED BY <3>1
    <2> QED BY <2>1, <2>2
  <1>5. Tells(t, log)
    <2>1. Tells(trace, log)
      BY DEF TraceInv
    <2>2. \A k \in DOMAIN t : t[k].ok => trace[k].ok
      BY <1>3
    <2>3. \A k \in DOMAIN trace : trace[k].ok => k # active
      BY <1>4
    <2>4. \A k \in DOMAIN trace : trace[k].ok => t[k].ok
      BY <1>3, <2>3
    <2>5. \A k \in DOMAIN t : \A b : Matches(t[k], b) <=> Matches(trace[k], b)
      BY <1>3 DEF Matches
    <2>6. \A k \in DOMAIN t : t[k].ok /\ t[k].phase # "Complete" =>
              \E i \in DOMAIN log : Matches(t[k], log[i]) /\ Full(log[i])
      BY <1>3, <2>1, <2>2, <2>5 DEF Tells
    <2>7. \A i \in DOMAIN log : log[i].phase # "Announce" /\ Full(log[i]) =>
              \E k \in DOMAIN t : Matches(t[k], log[i]) /\ t[k].ok
      BY <1>3, <2>1, <2>4, <2>5 DEF Tells
    <2> QED BY <2>6, <2>7 DEF Tells
  <1>6. Len(t) < TraceSize
    <2>1. Len(trace) <= Len(log) /\ Len(log) <= Len(Gesture) /\ trace \in Seq(Entries)
          /\ log \in Seq(Bursts)
      BY DEF TraceInv, LogInv, GestureInOrder, TypeInv
    <2>2. Len(Gesture) + 1 <= TraceSize /\ Len(Gesture) \in Nat /\ TraceSize \in Nat
      BY HasRoom, Constants
    <2>3. Len(trace) \in Nat /\ Len(log) \in Nat
      BY <2>1
    <2> QED BY <1>3, <2>1, <2>2, <2>3
  <1>7. Tells(trace', log')
    BY <1>1, <1>2, <1>3, <1>5, <1>6, StillTells
  <1>8. EndsIn("Failed")'
    <2>1. trace' # <<>> /\ Len(trace') = Len(t) + 1 /\ trace'[Len(t) + 1] = e
      BY <1>1, <1>2, <1>3, <1>6, Recording
    <2> QED BY <1>2, <2>1 DEF EndsIn
  <1> QED BY <1>1, <1>7, <1>8 DEF TraceInv, Running

\* With the last copy of a burst the entry of the burst, and no other, becomes a success.
LEMMA TraceMarks ==
    ASSUME EnrollmentAssumption, TypeInv, PhaseInv, LogInv, OutcomeInv, TraceInv, CopyDone,
           phase # "Announce", remaining = 0
    PROVE  Tells(Marked(TRUE), log')
  <1> DEFINE t == Marked(TRUE)
             n == Len(log)
  <1>1. step = "Wait"
    BY DEF CopyDone
  <1>2. /\ log \in Seq(Bursts) /\ log # <<>> /\ n \in DOMAIN log /\ log[n].copies = Repeats
        /\ Repeats \in Nat
    <2>1. Len(log) = Place + 1 /\ Place \in Nat /\ log \in Seq(Bursts)
      BY <1>1, AtPlace DEF LogInv, Running, TypeInv
    <2>2. log # <<>> /\ Len(log) \in DOMAIN log
      BY <2>1
    <2> QED BY <1>1, <2>1, <2>2, Constants DEF LogInv
  <1>3. /\ DOMAIN log' = DOMAIN log
        /\ \A i \in DOMAIN log : /\ log'[i].phase = log[i].phase /\ log'[i].dest = log[i].dest
                                 /\ log'[i].seq = log[i].seq
                                 /\ i # n => log'[i].copies = log[i].copies
    BY <1>2, CopyKeepsBursts
  <1>4. Full(log'[n])
    <2>1. log'[n].copies = log[n].copies + 1
      BY <1>2, Counted DEF CopyDone
    <2> QED BY <1>2, <2>1 DEF Full
  <1>5. /\ DOMAIN t = DOMAIN trace
        /\ \A k \in DOMAIN trace :
               /\ t[k].phase = trace[k].phase /\ t[k].dest = trace[k].dest
               /\ t[k].seq = trace[k].seq
               /\ t[k].ok = IF k = active THEN TRUE ELSE trace[k].ok
    BY Marks
  <1>6. active \in DOMAIN trace /\ Matches(trace[active], log[n])
    BY <1>1 DEF TraceInv
  <1> HIDE DEF t, n
  <1>7. \A k \in DOMAIN trace : \A i \in DOMAIN log :
            Matches(t[k], log'[i]) <=> Matches(trace[k], log[i])
    BY <1>3, <1>5 DEF Matches
  <1>8. \A i \in DOMAIN log : Full(log[i]) => Full(log'[i])
    BY <1>3, <1>4 DEF Full
  <1>9. \A i \in DOMAIN log : i # n => (Full(log'[i]) => Full(log[i]))
    BY <1>3 DEF Full
  <1>10. Tells(trace, log)
    BY DEF TraceInv
  <1>11. \A k \in DOMAIN t : t[k].ok /\ t[k].phase # "Complete" =>
             \E i \in DOMAIN log' : Matches(t[k], log'[i]) /\ Full(log'[i])
    <2>1. Matches(t[active], log'[n]) /\ Full(log'[n]) /\ n \in DOMAIN log'
      BY <1>2, <1>3, <1>4, <1>6, <1>7
    <2>2. ASSUME NEW k \in DOMAIN trace, k # active, t[k].ok, t[k].phase # "Complete"
          PROVE  \E i \in DOMAIN log' : Matches(t[k], log'[i]) /\ Full(log'[i])
      <3>1. trace[k].ok /\ trace[k].phase # "Complete"
        BY <1>5, <2>2
      <3>2. PICK i \in DOMAIN log : Matches(trace[k], log[i]) /\ Full(log[i])
        BY <1>10, <3>1 DEF Tells
      <3> QED BY <1>3, <1>7, <1>8, <3>2
    <2> QED BY <1>5, <2>1, <2>2
  <1>12. \A i \in DOMAIN log' : log'[i].phase # "Announce" /\ Full(log'[i]) =>
             \E k \in DOMAIN t : Matches(t[k], log'[i]) /\ t[k].ok
    <2>1. active \in DOMAIN t /\ Matches(t[active], log'[n]) /\ t[active].ok
      BY <1>2, <1>5, <1>6, <1>7
    <2>2. ASSUME NEW i \in DOMAIN log, i # n, log'[i].phase # "Announce", Full(log'[i])
          PROVE  \E k \in DOMAIN t : Matches(t[k], log'[i]) /\ t[k].ok
      <3>1. log[i].phase # "Announce" /\ Full(log[i])
        BY <1>3, <1>9, <2>2
      <3>2. PICK k \in DOMAIN trace : Matches(trace[k], log[i]) /\ trace[k].ok
        BY <1>10, <3>1 DEF Tells
      <3> QED BY <1>5, <1>7, <3>2
    <2> QED BY <1>3, <2>1, <2>2
  <1> QED BY <1>11, <1>12 DEF Tells, t

\* A copy that leaves the radio: the entry of the burst is marked with the last one.
LEMMA TraceCopy ==
    ASSUME EnrollmentAssumption, Room, TypeInv, PhaseInv, LogInv, OutcomeInv, TraceInv, CopyDone
    PROVE  TraceInv'
  <1>1. /\ step = "Wait" /\ UNCHANGED mode /\ Running /\ outcome = "InProgress"
        /\ \/ remaining = 0 /\ AfterBurst
           \/ remaining # 0 /\ UNCHANGED <<step, phase, index, report>>
    BY DEF CopyDone, AfterBurst, BurstOver, OutcomeInv, Running
  <1>2. /\ log \in Seq(Bursts) /\ log # <<>> /\ Len(log) \in DOMAIN log /\ Len(log) \in Nat
        /\ log[Len(log)].copies = Repeats - remaining
        /\ Repeats \in Nat /\ remaining \in Nat /\ Len(log) <= Len(Gesture)
    <2>1. Len(log) = Place + 1 /\ Place \in Nat /\ log \in Seq(Bursts)
      BY <1>1, AtPlace DEF LogInv, TypeInv
    <2>2. log # <<>> /\ Len(log) \in DOMAIN log
      BY <2>1
    <2> QED BY <1>1, <2>1, <2>2, Constants DEF LogInv, GestureInOrder, TypeInv
  <1>3. /\ DOMAIN log' = DOMAIN log /\ Len(log') = Len(log)
        /\ \A i \in DOMAIN log : /\ log'[i].phase = log[i].phase /\ log'[i].dest = log[i].dest
                                 /\ log'[i].seq = log[i].seq
                                 /\ i # Len(log) => log'[i].copies = log[i].copies
    BY <1>2, CopyKeepsBursts
  <1>4. log'[Len(log)].copies = log[Len(log)].copies + 1
    BY <1>2, Counted DEF CopyDone
  <1>5. CASE remaining # 0
    <2>1. UNCHANGED <<step, phase, trace, active, outcome>>
      BY <1>1, <1>5, Kept
    <2>2. \A i \in DOMAIN log : Full(log'[i]) <=> Full(log[i])
      BY <1>2, <1>3, <1>4, <1>5 DEF Full
    <2>3. \A i \in DOMAIN log : \A e : Matches(e, log'[i]) <=> Matches(e, log[i])
      BY <1>3 DEF Matches
    <2>4. Tells(trace, log')
      BY <1>3, <2>2, <2>3 DEF TraceInv, Tells
    <2> QED BY <1>1, <1>2, <1>3, <2>1, <2>3, <2>4 DEF TraceInv, EndsIn
  <1>6. CASE remaining = 0 /\ AfterBurst
    <2>1. /\ trace \in Seq(Entries) /\ Len(trace) \in Nat /\ Len(trace) <= Len(log)
          /\ Len(trace) < TraceSize
      <3>1. trace \in Seq(Entries) /\ Len(trace) <= Len(log)
        BY <1>1 DEF TypeInv, TraceInv
      <3>2. Len(Gesture) + 1 <= TraceSize /\ Len(Gesture) \in Nat /\ TraceSize \in Nat
        BY <1>1, HasRoom, Constants
      <3> QED BY <1>2, <3>1, <3>2, Lengths
    <2>2. CASE AfterAnnounce
      <3>1. /\ phase = "Announce" /\ UNCHANGED <<trace, active, outcome>>
            /\ step' \in {"Send", "PairComplete"}
            /\ step' = "PairComplete" => mode = "AnnounceOnly"
        BY <2>2 DEF AfterAnnounce, GoOn
      <3>2. log[Len(log)].phase = "Announce" /\ active = 0
        BY <1>1, <3>1 DEF LogInv, TraceInv
      <3>3. \A i \in DOMAIN log : Full(log[i]) => Full(log'[i])
        BY <1>2, <1>3, <1>4, <1>6 DEF Full
      <3>4. \A i \in DOMAIN log : i # Len(log) => (Full(log'[i]) => Full(log[i]))
        BY <1>3 DEF Full
      <3>5. \A i \in DOMAIN log : \A e : Matches(e, log'[i]) <=> Matches(e, log[i])
        BY <1>3 DEF Matches
      <3>6. Tells(trace, log')
        BY <1>3, <3>2, <3>3, <3>4, <3>5 DEF TraceInv, Tells
      <3> QED BY <1>1, <1>3, <2>1, <3>1, <3>2, <3>6 DEF TraceInv
    <2>3. CASE phase # "Announce"
      <3> DEFINE t == Marked(TRUE)
                 e == Entry("Complete", 0, 0, TRUE)
      <3>1. Tells(t, log')
        BY <1>6, <2>3, TraceMarks
      <3>2. t \in Seq(Entries) /\ Len(t) = Len(trace)
        BY Marks
      <3>3. e \in Entries /\ e.phase = "Complete"
        BY EndEntries DEF Entry
      <3>4. \/ trace' = t /\ active' = 0 /\ outcome' = outcome /\ step' \in {"Send", "Gap"}
            \/ /\ trace' = Recorded(t, e) /\ active' = 0 /\ step' = "PairComplete"
               /\ outcome' \in {outcome, "Transmitted"}
        <4>1. CASE AfterRemove
          BY <4>1 DEF AfterRemove, MarkActive
        <4>2. CASE AfterAdd
          BY <4>2 DEF AfterAdd, MarkActive, GoOn, Enroll, Told
        <4>3. CASE AfterStop
          BY <4>3 DEF AfterStop, MarkActive, GoOn
        <4>4. CASE AfterDown
          BY <4>4 DEF AfterDown, Enroll, Told
        <4> QED BY <1>6, <2>3, <4>1, <4>2, <4>3, <4>4 DEF AfterBurst, AfterAnnounce
      <3> HIDE DEF t, e
      <3>5. CASE trace' = t /\ active' = 0 /\ outcome' = outcome /\ step' \in {"Send", "Gap"}
        BY <1>1, <1>3, <2>1, <3>1, <3>2, <3>5 DEF TraceInv
      <3>6. CASE /\ trace' = Recorded(t, e) /\ active' = 0 /\ step' = "PairComplete"
                 /\ outcome' \in {outcome, "Transmitted"}
        <4>1. Tells(trace', log')
          BY <2>1, <3>1, <3>2, <3>3, <3>6, StillTells
        <4>2. trace' # <<>> /\ Len(trace') = Len(t) + 1 /\ trace'[Len(t) + 1] = e
          BY <2>1, <3>2, <3>3, <3>6, Recording
        <4>3. EndsIn("Complete")'
          BY <3>3, <4>2 DEF EndsIn
        <4> QED BY <1>1, <3>6, <4>1, <4>3 DEF TraceInv, Running
      <3> QED BY <3>4, <3>5, <3>6
    <2>4. AfterAnnounce \/ phase # "Announce"
      BY <1>6 DEF AfterBurst, AfterRemove, AfterAdd, AfterStop, AfterDown
    <2> QED BY <2>2, <2>3, <2>4
  <1> QED BY <1>1, <1>5, <1>6

\* The entry of a burst the radio refuses stays without success.
LEMMA TraceRefused ==
    ASSUME EnrollmentAssumption, Room, TypeInv, PhaseInv, LogInv, OutcomeInv, TraceInv,
           RefusedByRadio
    PROVE  TraceInv'
  <1>1. /\ step = "Send" /\ step' = "PairFailed" /\ UNCHANGED <<phase, mode, log>> /\ Running
        /\ outcome = "InProgress"
    BY Kept DEF RefusedByRadio, Prepared, OutcomeInv, Running
  <1>2. CASE phase = "Announce"
    <2>1. UNCHANGED <<trace, active, outcome>>
      BY <1>2, Kept DEF RefusedByRadio
    <2> QED BY <1>1, <2>1, TraceQuiet
  <1>3. CASE phase # "Announce"
    <2> DEFINE e == Entry(phase, index, FrameSequence, FALSE)
               f == Entry("Failed", 0, 0, FALSE)
               t == Recorded(trace, e)
    <2>1. trace' = Recorded(t, f) /\ active' = 0 /\ outcome' = "ConfigurationFailure"
      BY <1>1, <1>3 DEF RefusedByRadio, Told
    <2>2. e \in Entries /\ e.ok = FALSE
      BY PreparedTypes DEF RefusedByRadio, Entry, Entries, TypeInv
    <2>3. f \in Entries /\ f.ok = FALSE /\ f.phase = "Failed"
      BY EndEntries DEF Entry
    <2>4. trace \in Seq(Entries) /\ Len(trace) \in Nat /\ Len(trace) + 1 < TraceSize
      <3>1. trace \in Seq(Entries) /\ Len(trace) <= Len(log) /\ Len(log) = Place
        BY <1>1 DEF TypeInv, TraceInv, LogInv
      <3>2. Place \in Nat /\ Place + 1 <= Len(Gesture) /\ Len(Gesture) + 1 <= TraceSize
            /\ Len(Gesture) \in Nat /\ TraceSize \in Nat
        BY <1>1, AtPlace, HasRoom, Constants
      <3>3. Len(trace) \in Nat
        BY <3>1, Lengths
      <3> QED BY <3>1, <3>2, <3>3
    <2>5. Len(trace) < TraceSize
      BY <2>4, Constants
    <2> HIDE DEF e, f
    <2>6. t \in Seq(Entries) /\ Len(t) = Len(trace) + 1 /\ Tells(t, log)
      BY <2>2, <2>4, <2>5, Recording, StillTells DEF TraceInv
    <2> HIDE DEF t
    <2>7. Len(t) < TraceSize
      BY <2>4, <2>6
    <2>8. Tells(trace', log)
      BY <2>1, <2>3, <2>6, <2>7, StillTells
    <2>9. EndsIn("Failed")'
      <3>1. trace' # <<>> /\ Len(trace') = Len(t) + 1 /\ trace'[Len(t) + 1] = f
        BY <2>1, <2>3, <2>6, <2>7, Recording
      <3> QED BY <2>3, <3>1 DEF EndsIn
    <2> QED BY <1>1, <2>1, <2>8, <2>9 DEF TraceInv, Running
  <1> QED BY <1>2, <1>3

\* An enrollment that fails: an announcement leaves no entry.
LEMMA TraceFail ==
    ASSUME EnrollmentAssumption, Room, TypeInv, PhaseInv, LogInv, OutcomeInv, TraceInv, Running,
           Fail, UNCHANGED <<log, mode>>, step = "Gap" => phase # "Announce"
    PROVE  TraceInv'
  <1>1. CASE FailEnrollment
    BY <1>1, TraceFails
  <1>2. CASE ~FailEnrollment
    <2>1. phase = "Announce" /\ step' = "PairFailed" /\ UNCHANGED <<trace, active, outcome, phase>>
      BY <1>2, Kept DEF Fail
    <2> QED BY <2>1, TraceQuiet DEF Running
  <1> QED BY <1>1, <1>2

\* Every step keeps what the trace tells.
LEMMA TraceStep ==
    ASSUME EnrollmentAssumption, Room, TypeInv, PhaseInv, LogInv, OutcomeInv, TraceInv,
           OutcomeInv', [Next]_vars
    PROVE  TraceInv'
  <1>1. CASE UNCHANGED vars
    BY <1>1, Kept, TraceQuiet
  <1>2. CASE StartEnrollment
    <2>1. /\ step' = "Send" /\ outcome' = "InProgress" /\ trace' = <<>> /\ active' = 0 /\ log' = <<>>
      BY <1>2 DEF StartEnrollment
    <2>2. Len(trace') <= Len(log') /\ Tells(trace', log')
      BY <2>1 DEF Tells
    <2> QED BY <2>1, <2>2 DEF TraceInv
  <1>3. CASE CancelPairing
    <2>1. /\ UNCHANGED <<trace, active, log, mode>> /\ step' = "Idle"
          /\ outcome' = Told("Cancelled")
      BY <1>3, Kept DEF CancelPairing
    <2> QED BY <2>1, TraceQuiet DEF Told, OutcomeInv
  <1>4. CASE PairFailed
    <2>1. /\ UNCHANGED <<trace, active, log, mode>> /\ step' = "Idle" /\ step = "PairFailed"
          /\ outcome' = Told("NoResponse")
      BY <1>4, Kept DEF PairFailed
    <2> QED BY <2>1, TraceQuiet DEF Told, Running
  <1>5. CASE PairComplete
    <2>1. /\ UNCHANGED <<trace, active, log, mode>> /\ step' = "Idle" /\ step = "PairComplete"
          /\ outcome' = Told("Transmitted")
      BY <1>5, Kept DEF PairComplete
    <2> QED BY <2>1, TraceQuiet DEF Running
  <1>6. CASE Refused
    <2>1. step = "Send" /\ Fail /\ UNCHANGED <<log, mode>>
      BY <1>6, Kept DEF Refused
    <2> QED BY <2>1, TraceFail DEF Running
  <1>7. CASE BusyAnnounce
    BY <1>7, Kept, TraceQuiet DEF BusyAnnounce
  <1>8. CASE NextCopy
    BY <1>8, Kept, TraceQuiet DEF NextCopy
  <1>9. CASE BurstFails
    <2>1. step = "Wait" /\ Fail /\ UNCHANGED <<log, mode>>
      BY <1>9, Kept DEF BurstFails
    <2> QED BY <2>1, TraceFail DEF Running
  <1>10. CASE FinalizerGap
    <2>1. step = "Gap" /\ phase = "Stop" /\ UNCHANGED <<log, mode>>
      BY <1>10, Kept DEF FinalizerGap, PhaseInv, Running
    <2>2. CASE Fail
      BY <2>1, <2>2, TraceFail DEF Running
    <2>3. CASE ~Fail
      <3>1. step' = "Send" /\ UNCHANGED <<trace, active, outcome>>
        BY <1>10, <2>3, Kept DEF FinalizerGap
      <3> QED BY <2>1, <3>1, TraceQuiet
    <2> QED BY <2>2, <2>3
  <1>11. CASE Tick
    BY <1>11, Kept, TraceQuiet DEF Tick
  <1> QED BY <1>1, <1>2, <1>3, <1>4, <1>5, <1>6, <1>7, <1>8, <1>9, <1>10, <1>11,
             TraceSend, TraceCopy, TraceRefused DEF Next, Sends, Waits, Ends

\* What the invariants say of the trace is what the property says.
LEMMA TellsTheTruth ==
    ASSUME EnrollmentAssumption, TypeInv, LogInv, SeqInv, TraceInv
    PROVE  TraceTellsTheTruth
  <1>1. ASSUME NEW i \in DOMAIN log, log[i].phase # "Announce"
        PROVE  Traced(log[i]) <=> Full(log[i])
    <2>1. Full(log[i]) => Traced(log[i])
      BY <1>1 DEF TraceInv, Tells, Traced, Matches
    <2>2. ASSUME Traced(log[i]) PROVE Full(log[i])
      <3>1. PICK k \in DOMAIN trace : Matches(trace[k], log[i]) /\ trace[k].ok
        BY <2>2 DEF Traced, Matches
      <3>2. log[i].phase # "Complete"
        <4>1. log[i] \in Bursts
          BY DEF TypeInv
        <4> QED BY <4>1 DEF Bursts, Phases
      <3>3. PICK j \in DOMAIN log : Matches(trace[k], log[j]) /\ Full(log[j])
        BY <3>1, <3>2 DEF TraceInv, Tells, Matches
      <3>4. /\ log[j].phase = log[i].phase /\ log[j].dest = log[i].dest
            /\ log[j].seq = log[i].seq
        BY <3>1, <3>3 DEF Matches
      <3>5. i = j
        <4>1. i # j => log[i].phase = "Add" /\ log[j].phase = "Add"
          BY <3>4 DEF SeqInv, SequencesFresh
        <4>2. log[i].phase = "Add" /\ log[j].phase = "Add" => i = j
          BY <3>4 DEF LogInv
        <4> QED BY <4>1, <4>2
      <3> QED BY <3>3, <3>5
    <2> QED BY <2>1, <2>2
  <1> QED BY <1>1 DEF TraceTellsTheTruth, TraceInv

-----------------------------------------------------------------------------
(* The theorems *)

Inv == TypeInv /\ PhaseInv /\ LogInv /\ AddInv /\ SeqInv /\ OutcomeInv

\* Every enrollment keeps its phases, its log, its window, its numbers and its outcome.
THEOREM Enrolling == ASSUME EnrollmentAssumption PROVE Spec => []Inv
  <1>1. Init => Inv
    <2> SUFFICES ASSUME Init PROVE Inv
      OBVIOUS
    <2>1. TypeInv
      BY InitTypes
    <2>2. step = "Idle" /\ log = <<>> /\ floor = 0 /\ sequence = 0 /\ openAge = 0 /\ windowAge = 0
          /\ outcome = "None"
      BY DEF Init
    <2>3. LogInv
      <3>1. mode = "RemoveAdd" /\ destinations = 1 /\ finalizer = FALSE
        BY DEF Init
      <3>2. Len(Gesture) = 2
        <4>1. /\ destinations \in Nat \ {0} /\ finalizer \in BOOLEAN /\ mode \in EnrollmentModes
              /\ Adds /\ Offset = 1
          BY <2>1, <3>1 DEF TypeInv, Adds, Offset
        <4>2. Len(Gesture) = Offset + destinations + (IF finalizer THEN 2 ELSE 0)
          BY <4>1, GestureLaw
        <4> QED BY <3>1, <4>1, <4>2
      <3> QED BY <2>2, <3>2 DEF LogInv, GestureInOrder
    <2> QED BY <2>1, <2>2, <2>3
            DEF Inv, PhaseInv, AddInv, SeqInv, SequencesFresh, OutcomeInv, Running
  <1>2. Inv /\ [Next]_vars => Inv'
    <2> SUFFICES ASSUME Inv, [Next]_vars PROVE Inv'
      OBVIOUS
    <2>1. step = "Wait" => log # <<>>
      <3>1. step = "Wait" => Len(log) = Place + 1 /\ Place \in Nat
        BY AtPlace DEF Inv, LogInv, Running
      <3> QED BY <3>1
    <2>2. TypeInv' /\ PhaseInv'
      BY <2>1, TypeStep, PhaseStep DEF Inv
    <2> QED BY <2>2, LogStep, AddStep, SeqStep, OutcomeStep DEF Inv
  <1> QED BY <1>1, <1>2, PTL DEF Spec

\* The variables keep their types.
THEOREM Types == ASSUME EnrollmentAssumption PROVE Spec => []TypeOK
  BY Enrolling, ImpliesTypeOK, PTL DEF Inv

\* The bursts on the air are those of the gesture, in its order, each in all its copies
\* before the next, whatever mode, destinations, repeats and failures of the radio.
THEOREM InGestureOrder == ASSUME EnrollmentAssumption PROVE Spec => []GestureInOrder
  <1>1. Inv => GestureInOrder
    BY DEF Inv, LogInv
  <1> QED BY <1>1, Enrolling, PTL

\* No number is used for two bursts that do not share it by intent, nor one of an
\* enrollment before.
THEOREM FreshSequences == ASSUME EnrollmentAssumption PROVE Spec => []SequencesFresh
  <1>1. Inv => SequencesFresh
    BY DEF Inv, SeqInv
  <1> QED BY <1>1, Enrolling, PTL

\* An enrollment that is over was told.
THEOREM ToldAtTheEnd == ASSUME EnrollmentAssumption PROVE Spec => []EndIsTold
  <1>1. Inv => EndIsTold
    BY DEF Inv, OutcomeInv, EndIsTold
  <1> QED BY <1>1, Enrolling, PTL

\* The channel follows only a gesture that went out as a whole.
THEOREM WholeOrNothing == ASSUME EnrollmentAssumption PROVE Spec => OnlyAfterWholeGesture
  <1> DEFINE Takes == \/ enrolled' # enrolled
                      \/ outcome' = "Transmitted" /\ outcome # "Transmitted"
  <1>1. ASSUME Inv, Inv', Next, Takes PROVE WholeGesture'
    <2> USE <1>1
    <2>1. step' = "PairComplete" => WholeGesture'
      BY DEF Inv, LogInv
    <2>2. CASE PairComplete
      <3>1. WholeGesture /\ UNCHANGED <<log, mode, destinations, finalizer>>
        BY <2>2, Kept DEF PairComplete, Inv, LogInv
      <3> QED BY <3>1, SameGesture DEF WholeGesture, Full
    <2>3. CASE CopyDone
      <3>1. AfterBurst \/ UNCHANGED <<enrolled, outcome>>
        BY <2>3, Kept DEF CopyDone, AfterBurst
      <3>2. CASE AfterAnnounce \/ AfterStop
        BY <3>2, Kept DEF AfterAnnounce, AfterStop, GoOn
      <3>3. CASE AfterRemove
        <4>1. enrolled \in BOOLEAN
          BY DEF Inv, TypeInv
        <4>2. \/ mode = "RemoveAdd" /\ enrolled' = (enrolled /\ ~RemovesOnly) /\ outcome' = outcome
              \/ step' = "PairComplete"
          BY <3>3 DEF AfterRemove
        <4>3. mode = "RemoveAdd" => (enrolled /\ ~RemovesOnly) = enrolled
          BY <4>1 DEF RemovesOnly
        <4> QED BY <2>1, <4>2, <4>3
      <3>4. CASE AfterAdd
        BY <2>1, <3>4, Kept DEF AfterAdd, GoOn, Enroll
      <3>5. CASE AfterDown
        BY <2>1, <3>5 DEF AfterDown, Enroll
      <3> QED BY <3>1, <3>2, <3>3, <3>4, <3>5 DEF AfterBurst
    <2>4. CASE StartEnrollment
      BY <2>4 DEF StartEnrollment
    <2>5. CASE CancelPairing \/ PairFailed
      BY <2>5, Kept DEF CancelPairing, PairFailed, Told
    <2>6. CASE SendBurst
      BY <2>6, Kept DEF SendBurst
    <2>7. CASE Refused \/ BurstFails \/ FinalizerGap
      BY <2>7, Kept DEF Refused, BurstFails, FinalizerGap, Fail, FailEnrollment, Told
    <2>8. CASE BusyAnnounce \/ NextCopy \/ Tick
      BY <2>8, Kept DEF BusyAnnounce, NextCopy, Tick
    <2>9. CASE RefusedByRadio
      BY <2>9, Kept DEF RefusedByRadio, Told
    <2> QED BY <2>2, <2>3, <2>4, <2>5, <2>6, <2>7, <2>8, <2>9 DEF Next, Sends, Waits, Ends
  <1> HIDE DEF Takes
  <1>2. Inv /\ Inv' /\ [Next]_vars => [Takes => WholeGesture']_vars
    BY <1>1
  <1>3. Spec => [][Takes => WholeGesture']_vars
    BY <1>2, Enrolling, PTL DEF Spec
  <1> QED BY <1>3 DEF OnlyAfterWholeGesture, Takes

\* DOWN begins within the window that the first ADD opened, for every window and delay.
THEOREM WithinTheWindow == ASSUME EnrollmentAssumption PROVE Spec => DownInWindow
  <1>1. Inv /\ [Next]_vars =>
            [Len(log') = Len(log) + 1 /\ log'[Len(log')].phase = "Down" => windowAge < Window]_vars
    <2> SUFFICES ASSUME Inv, Next, Len(log') = Len(log) + 1, log'[Len(log')].phase = "Down"
                 PROVE  windowAge < Window
      OBVIOUS
    <2>1. Len(log) \in Nat /\ log \in Seq(Bursts) /\ openAge \in Nat /\ Window \in Nat
      BY Constants DEF Inv, TypeInv
    <2>2. CASE SendBurst
      <3>1. phase = "Down"
        BY <2>2, SendAdds DEF Inv
      <3>2. ~(openAge >= Window)
        BY <2>2, <3>1 DEF SendBurst, Prepared, TooLate
      <3> QED BY <2>1, <3>2 DEF Inv, AddInv
    <2>3. CASE CopyDone
      <3>1. log # <<>>
        <4>1. step = "Wait" /\ Place \in Nat
          BY <2>3, AtPlace DEF CopyDone, Inv, Running
        <4>2. Len(log) = Place + 1
          BY <4>1 DEF Inv, LogInv
        <4> QED BY <4>1, <4>2
      <3>2. Len(log') = Len(log)
        BY <2>3, <3>1, CopyKeepsBursts DEF Inv
      <3> QED BY <2>1, <3>2
    <2>4. CASE StartEnrollment
      <3>1. log' = <<>>
        BY <2>4 DEF StartEnrollment
      <3> QED BY <2>1, <3>1
    <2>5. CASE log' = log
      BY <2>1, <2>5
    <2> QED BY <2>2, <2>3, <2>4, <2>5, Shapes DEF GapOver, Stops, Stays
  <1> QED BY <1>1, Enrolling, PTL DEF Spec, DownInWindow

\* An enrollment takes effect on the channel after the whole gesture only, and DOWN reaches
\* the actuator while it still listens.
THEOREM TakesEffect == ASSUME EnrollmentAssumption PROVE Spec => GestureTakesEffect
  BY WholeOrNothing, WithinTheWindow, PTL DEF GestureTakesEffect

\* Where the trace has room, it calls a success what was sent in full, and only that, and
\* ends in how the enrollment ended.
THEOREM TraceIsTrue == ASSUME EnrollmentAssumption, Room PROVE Spec => []TraceTellsTheTruth
  <1>1. Init => TraceInv
    BY DEF Init, TraceInv, Tells, Running
  <1>2. Inv /\ Inv' /\ TraceInv /\ [Next]_vars => TraceInv'
    BY TraceStep DEF Inv
  <1>3. Inv /\ TraceInv => TraceTellsTheTruth
    BY TellsTheTruth DEF Inv
  <1> QED BY <1>1, <1>2, <1>3, Enrolling, PTL DEF Spec

-----------------------------------------------------------------------------
(* The pairing beside it *)

P == INSTANCE PairingProofs WITH
    Modes <- PairModes, MaxStarts <- MaxPairings, mode <- pairMode, known <- knownPeer,
    stateAge <- pairStateAge, outcome <- pairOutcome, starts <- pairings

\* PairingProofs speaks of the pairing that is modelled here: their actions are the same.
LEMMA SameActions ==
    /\ P!Init <=> Pairing2W!Init
    /\ P!Next <=> Pairing2W!Next
    /\ P!vars = Pairing2W!vars
  <1> USE DEF P!controller, Pairing2W!controller, P!clocks, Pairing2W!clocks, P!telemetry,
              Pairing2W!telemetry, P!devices, Pairing2W!devices, P!medium, Pairing2W!medium,
              P!bounds, Pairing2W!bounds, P!history, Pairing2W!history, P!vars, Pairing2W!vars,
              P!Nothing, Pairing2W!Nothing, P!Frame, Pairing2W!Frame, P!Requests,
              Pairing2W!Requests, P!Replies, Pairing2W!Replies, P!SendStates,
              Pairing2W!SendStates, P!WaitStates, Pairing2W!WaitStates, P!PairStates,
              Pairing2W!PairStates, P!Limit, Pairing2W!Limit, P!sendKeeps, Pairing2W!sendKeeps,
              P!Transmit, Pairing2W!Transmit, P!GoTo, Pairing2W!GoTo, P!waitKeeps,
              Pairing2W!waitKeeps, P!TimedOut, Pairing2W!TimedOut, P!Lapsed, Pairing2W!Lapsed,
              P!receiveKeeps, Pairing2W!receiveKeeps, P!deviceKeeps, Pairing2W!deviceKeeps
  <1>1. /\ P!Init <=> Pairing2W!Init
    BY DEF P!Init, Pairing2W!Init
  <1>2. /\ P!StartPairing <=> Pairing2W!StartPairing
        /\ P!RejectStart <=> Pairing2W!RejectStart
        /\ P!CancelPairing <=> Pairing2W!CancelPairing
        /\ P!LeavePairing <=> Pairing2W!LeavePairing
        /\ P!OtherEnds <=> Pairing2W!OtherEnds
    BY DEF P!Result, Pairing2W!Result, P!Complete, Pairing2W!Complete, P!StartPairing,
           Pairing2W!StartPairing, P!RejectStart, Pairing2W!RejectStart, P!CancelPairing,
           Pairing2W!CancelPairing, P!LeavePairing, Pairing2W!LeavePairing, P!OtherEnds,
           Pairing2W!OtherEnds
  <1>3. /\ P!SendDiscovery <=> Pairing2W!SendDiscovery
        /\ P!SendConfirmation <=> Pairing2W!SendConfirmation
        /\ P!SendLaunch <=> Pairing2W!SendLaunch
        /\ P!SendPullChallenge <=> Pairing2W!SendPullChallenge
    BY DEF P!Expired, Pairing2W!Expired, P!SendDiscovery, Pairing2W!SendDiscovery,
           P!ConfirmationOver, Pairing2W!ConfirmationOver, P!AfterConfirmation,
           Pairing2W!AfterConfirmation, P!SendConfirmation, Pairing2W!SendConfirmation,
           P!SendLaunch, Pairing2W!SendLaunch, P!SendPullChallenge, Pairing2W!SendPullChallenge
  <1>4. /\ P!SendKeyInit <=> Pairing2W!SendKeyInit
        /\ P!SendKeyTransfer <=> Pairing2W!SendKeyTransfer
        /\ P!SendKeyAuth <=> Pairing2W!SendKeyAuth
        /\ P!SendConfig <=> Pairing2W!SendConfig
    BY DEF P!KeyExchangeOver, Pairing2W!KeyExchangeOver, P!SendKeyInit, Pairing2W!SendKeyInit,
           P!SendKeyTransfer, Pairing2W!SendKeyTransfer, P!SendKeyAuth, Pairing2W!SendKeyAuth,
           P!SendConfig, Pairing2W!SendConfig
  <1>5. /\ P!DiscoveryLapses <=> Pairing2W!DiscoveryLapses
        /\ P!ConfirmationLapses <=> Pairing2W!ConfirmationLapses
        /\ P!KeyInitDelayElapses <=> Pairing2W!KeyInitDelayElapses
        /\ P!PullLapses <=> Pairing2W!PullLapses
        /\ P!KeyExchangeLapses <=> Pairing2W!KeyExchangeLapses
        /\ P!ConfigLapses <=> Pairing2W!ConfigLapses
    BY DEF P!ConfirmationOver, Pairing2W!ConfirmationOver, P!AfterConfirmation,
           Pairing2W!AfterConfirmation, P!KeyExchangeOver, Pairing2W!KeyExchangeOver,
           P!DiscoveryLapses, Pairing2W!DiscoveryLapses, P!ConfirmationLapses,
           Pairing2W!ConfirmationLapses, P!KeyInitDelayElapses, Pairing2W!KeyInitDelayElapses,
           P!PullLapses, Pairing2W!PullLapses, P!KeyExchangeLapses, Pairing2W!KeyExchangeLapses,
           P!ConfigLapses, Pairing2W!ConfigLapses
  <1>6. /\ P!PairFailed <=> Pairing2W!PairFailed
        /\ P!PairComplete <=> Pairing2W!PairComplete
    BY DEF P!Result, Pairing2W!Result, P!Complete, Pairing2W!Complete, P!FailureOutcome,
           Pairing2W!FailureOutcome, P!PairFailed, Pairing2W!PairFailed, P!PairComplete,
           Pairing2W!PairComplete
  <1>7. /\ P!Receive <=> Pairing2W!Receive
    BY DEF P!Result, Pairing2W!Result, P!Complete, Pairing2W!Complete, P!Uncorrelated,
           Pairing2W!Uncorrelated, P!AfterConfirmation, Pairing2W!AfterConfirmation, P!FromPeer,
           Pairing2W!FromPeer, P!MayBecomePeer, Pairing2W!MayBecomePeer, P!AfterDiscovery,
           Pairing2W!AfterDiscovery, P!TakeDiscoverResponse, Pairing2W!TakeDiscoverResponse,
           P!TakeConfirmation, Pairing2W!TakeConfirmation, P!TakePull, Pairing2W!TakePull,
           P!TakeChallenge, Pairing2W!TakeChallenge, P!TakeKeyConfirmation,
           Pairing2W!TakeKeyConfirmation, P!TakeConfig, Pairing2W!TakeConfig, P!Take,
           Pairing2W!Take, P!Taken, Pairing2W!Taken, P!Diagnosed, Pairing2W!Diagnosed, P!Receive,
           Pairing2W!Receive
  <1>8. /\ P!ReceiveStatus <=> Pairing2W!ReceiveStatus
        /\ P!StrayFrame <=> Pairing2W!StrayFrame
        /\ P!Tick <=> Pairing2W!Tick
    BY DEF P!ReceiveStatus, Pairing2W!ReceiveStatus, P!StrayFrame, Pairing2W!StrayFrame, P!Capped,
           Pairing2W!Capped, P!Tick, Pairing2W!Tick
  <1>9. ASSUME NEW n \in Node PROVE P!DeviceAnswers(n) <=> Pairing2W!DeviceAnswers(n)
    BY DEF P!Reply, Pairing2W!Reply, P!Ask, Pairing2W!Ask, P!Answers, Pairing2W!Answers,
           P!DeviceAnswers, Pairing2W!DeviceAnswers
  <1>10. P!vars = Pairing2W!vars
    OBVIOUS
  <1> QED BY <1>1, <1>2, <1>3, <1>4, <1>5, <1>6, <1>7, <1>8, <1>9, <1>10
          DEF P!Sends, Pairing2W!Sends, P!Lapses, Pairing2W!Lapses, P!Handlers,
              Pairing2W!Handlers, P!Next, Pairing2W!Next

\* So are the properties, and the assumptions about the constants.
LEMMA SameProperties ==
    /\ P!Assumptions <=> Pairing2W!NodeAssumption /\ Pairing2W!BoundAssumption
    /\ P!TypeOK <=> Pairing2W!TypeOK
    /\ P!StoredMeansShared <=> Pairing2W!StoredMeansShared
    /\ P!BindsTheKnownPeer <=> Pairing2W!BindsTheKnownPeer
    /\ P!KeyExchangeBounded <=> Pairing2W!KeyExchangeBounded
    /\ P!SuccessIffBound <=> Pairing2W!SuccessIffBound
    /\ P!EndIsTold <=> Pairing2W!EndIsTold
  <1> USE DEF P!PairStates, Pairing2W!PairStates, P!SendStates, Pairing2W!SendStates,
              P!WaitStates, Pairing2W!WaitStates
  <1>1. P!Assumptions <=> Pairing2W!NodeAssumption /\ Pairing2W!BoundAssumption
    BY DEF P!Assumptions, P!PairingModes, Pairing2W!PairingModes, P!InterruptionKinds,
           Pairing2W!InterruptionKinds, P!NodeAssumption, Pairing2W!NodeAssumption,
           P!BoundAssumption, Pairing2W!BoundAssumption
  <1>2. P!TypeOK <=> Pairing2W!TypeOK
    BY DEF P!PairingModes, Pairing2W!PairingModes, P!Requests, Pairing2W!Requests, P!Replies,
           Pairing2W!Replies, P!Outcomes, Pairing2W!Outcomes, P!FrameType, Pairing2W!FrameType,
           P!TypeOK, Pairing2W!TypeOK
  <1> QED BY <1>1, <1>2 DEF P!StoredMeansShared, Pairing2W!StoredMeansShared, P!BindsTheKnownPeer,
             Pairing2W!BindsTheKnownPeer, P!KeyExchangeBounded, Pairing2W!KeyExchangeBounded,
             P!SuccessIffBound, Pairing2W!SuccessIffBound, P!EndIsTold, Pairing2W!EndIsTold

\* What runs takes its own steps, and what does not keeps still: both specifications are kept.
LEMMA BothRun == StartSpec => P!Spec /\ Spec
  <1>1. StartInit => P!Init /\ Init
    BY SameActions DEF StartInit
  <1>2. [StartNext]_allVars => [P!Next]_(P!vars) /\ [Next]_vars
    <2>1. UNCHANGED pairingVars => UNCHANGED P!vars
      BY DEF pairingVars, P!vars, P!controller, P!clocks, P!telemetry, P!medium, P!devices,
             P!bounds, P!history
    <2>2. CASE UNCHANGED allVars
      BY <2>1, <2>2 DEF allVars
    <2>3. CASE StartNext
      BY <2>1, <2>3, SameActions DEF StartNext
    <2> QED BY <2>2, <2>3
  <1> QED BY <1>1, <1>2, PTL DEF StartSpec, P!Spec, Spec

\* The outcome of a pairing is true, for any devices, modes, timeouts, failures and
\* interruptions, and so are the numbers, the outcome and the trace of an enrollment.
THEOREM ToldTrue == ASSUME StartAssumption PROVE StartSpec => []PairingToldTrue
  <1>1. P!Assumptions /\ EnrollmentAssumption
    BY SameProperties DEF StartAssumption
  <1>2. P!Spec => [](P!TypeOK /\ P!StoredMeansShared /\ P!BindsTheKnownPeer
                      /\ P!KeyExchangeBounded)
    BY <1>1, P!Types, P!Shared, P!NamedPeer, P!ExchangeBounded, PTL
  <1>3. P!Spec => []("reject" \notin Interruptions => P!SuccessIffBound)
    <2>1. CASE "reject" \notin Interruptions
      BY <1>1, <2>1, P!SuccessTold, PTL
    <2>2. CASE ~("reject" \notin Interruptions)
      BY <2>2, PTL
    <2> QED BY <2>1, <2>2
  <1>4. P!Spec => [](Interruptions \cap {"status", "other"} = {} => P!EndIsTold)
    <2>1. CASE Interruptions \cap {"status", "other"} = {}
      BY <1>1, <2>1, P!EndTold, PTL
    <2>2. CASE ~(Interruptions \cap {"status", "other"} = {})
      BY <2>2, PTL
    <2> QED BY <2>1, <2>2
  <1>5. Spec => [](SequencesFresh /\ EndIsTold)
    BY <1>1, FreshSequences, ToldAtTheEnd, PTL
  <1>6. Spec => [](Room => TraceTellsTheTruth)
    <2>1. CASE Room
      BY <1>1, <2>1, TraceIsTrue, PTL
    <2>2. CASE ~ Room
      BY <2>2, PTL
    <2> QED BY <2>1, <2>2
  <1>7. /\ P!TypeOK /\ P!StoredMeansShared /\ P!BindsTheKnownPeer /\ P!KeyExchangeBounded
        /\ "reject" \notin Interruptions => P!SuccessIffBound
        /\ Interruptions \cap {"status", "other"} = {} => P!EndIsTold
        /\ SequencesFresh /\ EndIsTold
        /\ Room => TraceTellsTheTruth
        => PairingToldTrue
    BY SameProperties DEF PairingToldTrue
  <1> QED BY <1>2, <1>3, <1>4, <1>5, <1>6, <1>7, BothRun, PTL

\* What startPairing begins keeps the promise of PairingContract: one outcome, and only a
\* device that holds the system key is bound.
THEOREM StartKeepsContract == ASSUME StartAssumption PROVE StartSpec => KeepsContract
  <1>1. P!Assumptions
    BY SameProperties DEF StartAssumption
  <1>2. P!Spec => P!KeepsContract
    BY <1>1, P!PairingKeepsContract
  <1>3. /\ P!Contract!Init <=> Contract!Init
        /\ P!Contract!Next <=> Contract!Next
        /\ P!Contract!vars = Contract!vars
    BY DEF P!Contract!Init, Contract!Init, P!Contract!vars, Contract!vars,
           P!Contract!Next, P!Contract!Begin, P!Contract!Reject, P!Contract!Share,
           P!Contract!Bind, P!Contract!Fail, P!Contract!Failures,
           Contract!Next, Contract!Begin, Contract!Reject, Contract!Share, Contract!Bind,
           Contract!Fail, Contract!Failures
  <1>4. [P!Contract!Next]_(P!Contract!vars) => [Contract!Next]_(Contract!vars)
    BY <1>3 DEF P!Contract!vars, Contract!vars
  <1> QED BY <1>2, <1>3, <1>4, BothRun, PTL
          DEF KeepsContract, Contract!Spec, P!KeepsContract, P!Contract!Spec

=============================================================================
