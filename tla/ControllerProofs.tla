-------------------------- MODULE ControllerProofs --------------------------
(***************************************************************************)
(* What the controller promises besides exchanges and pairings: a session  *)
(* of key extraction, reports and their challenges, gateway mode, passive  *)
(* listening, discovery, the command scan and the key import, for any      *)
(* devices, deadlines and frequencies, however frames interleave, repeat   *)
(* and are lost, and whatever operations of the radio are refused.         *)
(***************************************************************************)
EXTENDS Controller, Sequences, FiniteSetTheorems, SequenceTheorems, WellFoundedInduction, TLAPS

-----------------------------------------------------------------------------
(* A session of key extraction *)

Commands == {"None", "DiscoverRequest", "Confirmation", "KeyInitTransfer", "KeyTransfer",
             "NodeVerifyRequest", "ChallengeRequest", "DiscoverResponse", "ConfirmationAck",
             "KeyTransferConfirmation", "NodeVerifyResponse", "ChallengeResponse"}
Hubs == Hub \union {NoHub}
Messages == [cmd : Commands, hub : Hubs, session : Nat, ch : Nat]

\* Messages and numbers have their types, beyond what TypeOK says.
TypeInv ==
    /\ TypeOK
    /\ heard \in [Hub -> Messages] /\ rx \in Messages /\ reply \in Messages
    /\ session \in Nat /\ challenge \in Nat /\ challenges \in Nat /\ frames \in Nat
    /\ result \in [hub : Hubs, key : Hubs]

\* The challenge m carries is the one that is open, of the hub that locked the session.
Given(m) == locked = m.hub /\ m.ch = challenge

\* While a reply goes out nothing is received, and a challenge in it is the open one.
ReplyInv ==
    reply # NoMessage =>
        /\ armed /\ rx = NoMessage /\ radio # "Receiving"
        /\ reply.hub \in Hub /\ reply.session = session
        /\ reply.cmd = "ChallengeRequest" => Given(reply)

\* A challenge of this session that a hub has heard is the open one: whoever starts over
\* forgets it before it gets another.
HeardInv ==
    \A h \in Hub :
        /\ heard[h].session <= session
        /\ heard[h] = NoMessage \/ heard[h].hub = h
        /\ (armed /\ heard[h].cmd = "ChallengeRequest" /\ heard[h].session = session) =>
               Given(heard[h])

\* A frame that waits follows from what its hub heard, or the hub has started over since;
\* a key that waits is encrypted with the open challenge.
FrameInv ==
    rx # NoMessage =>
        /\ rx.hub \in Hub /\ rx.session <= session
        /\ heard[rx.hub] = NoMessage \/ rx.cmd \in Follows(heard[rx.hub].cmd)
        /\ (armed /\ rx.cmd = "KeyTransfer" /\ rx.session = session) => Given(rx)

\* The hub that was given the challenge has locked the session.  In the verification the key
\* is that hub's; before, nothing was verified.
CheckInv ==
    armed => /\ stage = "ExtractSentChallenge" => locked \in Hub
             /\ stage \in Verification => key = locked /\ locked \in Hub
             /\ stage \notin Verification => ~ verifySeen /\ ~ authDone

\* The result keeps to the hub that has locked the session.
CaptureInv ==
    /\ result.key = result.hub
    /\ (armed /\ status = "Captured" /\ result # NoResult) =>
           result.hub = locked /\ locked \in Hub

\* The channel is held at least as long as the verification lasts.
GraceInv == grace # 0 => armed /\ stage \in Verification /\ hold >= grace

Safe == ReplyInv /\ HeardInv /\ FrameInv /\ CheckInv /\ CaptureInv /\ GraceInv

-----------------------------------------------------------------------------
(* Messages *)

\* What a message carries is what it was made of.
LEMMA MessageFields ==
    ASSUME NEW c, NEW h, NEW s, NEW x
    PROVE  /\ Message(c, h, s, x).cmd = c /\ Message(c, h, s, x).hub = h
           /\ Message(c, h, s, x).session = s /\ Message(c, h, s, x).ch = x
           /\ c \in Commands /\ h \in Hubs /\ s \in Nat /\ x \in Nat =>
                  Message(c, h, s, x) \in Messages
  BY DEF Message, Messages

\* No message is told from every message that is sent.
LEMMA NoMessageFields ==
    /\ NoMessage.cmd = "None" /\ NoMessage.hub = NoHub
    /\ NoMessage.session = 0 /\ NoMessage.ch = 0
    /\ NoMessage \in Messages
  <1>1. "None" \in Commands /\ NoHub \in Hubs
    BY DEF Commands, Hubs
  <1> QED BY <1>1, MessageFields DEF NoMessage

\* What a hub says next: a key only to a challenge, and a key transfer begins only after a
\* discovery or a confirmation.
LEMMA FollowsOnly ==
    ASSUME NEW c
    PROVE  /\ Follows(c) \subseteq Commands \ {"None", "DiscoverRequest"}
           /\ "KeyTransfer" \in Follows(c) => c = "ChallengeRequest"
           /\ "KeyInitTransfer" \in Follows(c) => c \in {"DiscoverResponse", "ConfirmationAck"}
  BY DEF Follows, Commands

\* The deadlines and the bounds are numbers.
LEMMA ConstantsTyped ==
    ASSUME ExtractionAssumption
    PROVE  /\ Timeout \in Nat /\ MidHold \in Nat /\ Grace \in Nat /\ Channels \in Nat
           /\ Timeout > 0 /\ MidHold > 0 /\ Grace > 0 /\ Channels > 0
           /\ MaxCommands \in Nat /\ MaxStarts \in Nat /\ MaxFrames \in Nat
           /\ NoHub \notin Hub
  <1>1. \A n \in {Timeout, MidHold, Grace, Channels} : n \in Nat /\ n > 0
    BY DEF ExtractionAssumption
  <1> QED BY <1>1 DEF ExtractionAssumption

\* Where the deadlines start.
LEMMA DeadlinesTyped ==
    ASSUME ExtractionAssumption
    PROVE  /\ 0 \in 0 .. Timeout /\ Timeout \in 0 .. Timeout
           /\ 0 \in 0 .. Grace /\ Grace \in 0 .. Grace
           /\ 0 \in 0 .. Grace + MidHold /\ MidHold \in 0 .. Grace + MidHold
           /\ Grace \in 0 .. Grace + MidHold
           /\ 0 \in 0 .. Channels /\ 1 \in 0 .. Channels
  BY ConstantsTyped

\* No session has begun, and nothing was heard.
LEMMA InitHolds == ExtractionAssumption /\ Init => TypeInv /\ Safe
  <1> SUFFICES ASSUME ExtractionAssumption, Init PROVE TypeInv /\ Safe
    OBVIOUS
  <1>1. \A h \in Hub : heard[h] = NoMessage
    BY DEF Init
  <1>2. heard \in [Hub -> Messages]
    BY NoMessageFields DEF Init
  <1>3. TypeOK
    <2>1. /\ {candidate, locked, key, result.hub, result.key} \subseteq Hub \union {NoHub}
          /\ {verifySeen, authDone} \subseteq BOOLEAN
      BY DEF Init, NoResult
    <2>2. overall \in 0 .. Timeout /\ grace \in 0 .. Grace /\ hold \in 0 .. Grace + MidHold
      BY ConstantsTyped DEF Init
    <2>3. /\ phase \in 0 .. Channels /\ foreground \in 0 .. MaxCommands
          /\ background \in 0 .. MaxCommands
      BY ConstantsTyped DEF Init
    <2> QED BY <2>1, <2>2, <2>3 DEF Init, TypeOK, Stages
  <1>4. TypeInv
    BY <1>2, <1>3, NoMessageFields DEF Init, TypeInv, NoResult, Hubs
  <1>5. HeardInv
    <2> SUFFICES ASSUME NEW h \in Hub
                 PROVE  /\ heard[h].session <= session
                        /\ heard[h] = NoMessage
                        /\ heard[h].cmd # "ChallengeRequest"
      BY DEF HeardInv
    <2> QED BY <1>1, NoMessageFields DEF Init
  <1> QED
    BY <1>4, <1>5 DEF Init, Safe, ReplyInv, FrameInv, CheckInv, CaptureInv, GraceInv, NoResult

-----------------------------------------------------------------------------
(* Types *)

\* What a reply changes.
LEMMA AnswerTypes ==
    ASSUME TypeInv, ExtractionAssumption, rx.hub \in Hub,
           NEW c \in Commands, NEW x \in Nat, Answer(c, x)
    PROVE  /\ heard' \in [Hub -> Messages] /\ reply' \in Messages
           /\ phase' \in 0 .. Channels /\ (reply' = NoMessage <=> phase' = 0)
           /\ radio' \in {"Receiving", "Transmitting", "Standby"}
  <1> DEFINE m == Message(c, rx.hub, session, x)
  <1>1. m \in Messages /\ m.hub = rx.hub
    BY MessageFields DEF TypeInv, Hubs
  <1>2. m # NoMessage
    BY <1>1, NoMessageFields, ConstantsTyped
  <1>3. CASE /\ reply' = m /\ phase' = 1 /\ radio' = "Transmitting"
             /\ heard' \in {heard, [heard EXCEPT ![rx.hub] = m]}
    <2> HIDE DEF m
    <2>1. heard' \in [Hub -> Messages]
      BY <1>1, <1>3 DEF TypeInv
    <2> QED BY <1>1, <1>2, <1>3, <2>1, ConstantsTyped
  <1>4. CASE UNCHANGED <<reply, phase, heard>> /\ StartReceive
    BY <1>4 DEF StartReceive, TypeInv, TypeOK
  <1> QED BY <1>3, <1>4, Zenon DEF Answer

\* Every step keeps the types; a frame that waits is of a hub.
LEMMA TypeStep ==
    ASSUME ExtractionAssumption, TypeInv, FrameInv, [Next]_vars
    PROVE  TypeInv'
  <1> USE DEF controller, attempt, deadlines, air, queue, hubs
  <1>1. CASE StartKeyExtraction
    <2>1. session' \in Nat /\ radio' \in {"Receiving", "Transmitting", "Standby"}
      BY <1>1 DEF StartKeyExtraction, StartReceive, TypeInv, TypeOK
    <2>2. result' \in [hub : Hubs, key : Hubs] /\ result'.hub = NoHub /\ result'.key = NoHub
      BY <1>1 DEF StartKeyExtraction, NoResult, Hubs
    <2>3. TypeOK'
      BY <1>1, <2>1, <2>2, DeadlinesTyped DEF StartKeyExtraction, TypeInv, TypeOK, Stages
    <2> QED
      BY <1>1, <2>1, <2>2, <2>3, NoMessageFields DEF StartKeyExtraction, TypeInv
  <1>2. CASE StopKeyExtraction
    <2>1. radio' \in {"Receiving", "Transmitting", "Standby"}
      BY <1>2 DEF StopKeyExtraction, StartReceive, TypeInv, TypeOK
    <2>2. TypeOK'
      BY <1>2, <2>1, DeadlinesTyped
         DEF StopKeyExtraction, Disarmed, ResetSession, TypeInv, TypeOK, Stages
    <2> QED
      BY <1>2, <2>2, NoMessageFields DEF StopKeyExtraction, ResetSession, TypeInv
  <1>3. CASE ClearKeyExtractResult
    BY <1>3 DEF ClearKeyExtractResult, TypeInv, TypeOK, NoResult, Hubs
  <1>4. CASE TimedOut
    <2>1. radio' \in {"Receiving", "Transmitting", "Standby"}
      BY <1>4 DEF TimedOut, StartReceive, TypeInv, TypeOK
    <2>2. TypeOK'
      BY <1>4, <2>1, DeadlinesTyped DEF TimedOut, ResetSession, TypeInv, TypeOK, Stages
    <2> QED
      BY <1>4, <2>2, NoMessageFields DEF TimedOut, ResetSession, TypeInv
  <1>5. CASE GraceElapsed
    BY <1>2, <1>5 DEF GraceElapsed
  <1>6. CASE TimePasses
    <2>1. overall' \in 0 .. Timeout /\ grace' \in 0 .. Grace /\ hold' \in 0 .. Grace + MidHold
      BY <1>6, ConstantsTyped DEF TimePasses, Left, TypeInv, TypeOK
    <2> QED BY <1>6, <2>1 DEF TimePasses, TypeInv, TypeOK
  <1>7. CASE ServiceKeyExtractReply
    <2>1. CASE Transmit
      <3>1. phase' \in 0 .. Channels
        BY <1>7, <2>1, ConstantsTyped
           DEF ServiceKeyExtractReply, Transmit, DropReply, TypeInv, TypeOK
      <3>2. heard' \in [Hub -> Messages]
        BY <2>1 DEF Transmit, TypeInv
      <3> QED
        BY <1>7, <2>1, <3>1, <3>2 DEF ServiceKeyExtractReply, Transmit, TypeInv, TypeOK
    <2>2. CASE DropReply
      BY <1>7, <2>2, NoMessageFields, ConstantsTyped
         DEF ServiceKeyExtractReply, DropReply, StartReceive, TypeInv, TypeOK
    <2> QED BY <1>7, <2>1, <2>2 DEF ServiceKeyExtractReply
  <1>8. CASE TakeFrame
    <2>1. CASE Dispatched
      BY <1>8, <2>1, NoMessageFields DEF TakeFrame, Dispatched, TypeInv, TypeOK
    <2>2. CASE Accepted
      <3>1. rx.hub \in Hub /\ rx.hub \in Hubs
        BY <1>8 DEF TakeFrame, FrameInv, Hubs
      <3> DEFINE Answers == \E c \in Commands, x \in Nat : Answer(c, x)
      <3>2. ASSUME Answers
            PROVE  /\ heard' \in [Hub -> Messages] /\ reply' \in Messages
                   /\ phase' \in 0 .. Channels /\ (reply' = NoMessage <=> phase' = 0)
                   /\ radio' \in {"Receiving", "Transmitting", "Standby"}
        BY <3>1, <3>2, AnswerTypes
      <3>3. rx' \in Messages
        BY <1>8, NoMessageFields DEF TakeFrame
      <3> USE DEF TakeFrame
      <3>4. CASE DiscoverRequest
        <4>1. Answers
          BY <3>4 DEF DiscoverRequest, Commands
        <4>2. /\ challenge' \in Nat /\ key' \in Hubs /\ grace' \in 0 .. Grace
              /\ verifySeen' \in BOOLEAN /\ authDone' \in BOOLEAN
          <5>1. key \in Hubs /\ NoHub \in Hubs /\ grace \in 0 .. Grace
            BY DEF TypeInv, TypeOK, Hubs
          <5>2. verifySeen \in BOOLEAN /\ authDone \in BOOLEAN /\ challenge \in Nat
            BY DEF TypeInv, TypeOK
          <5>3. CASE UNCHANGED <<challenge, key, verifySeen, authDone, grace>>
            BY <5>1, <5>2, <5>3
          <5>4. CASE ForgetAttempt /\ challenge' = 0 /\ grace' = 0
            BY <5>1, <5>4, DeadlinesTyped DEF ForgetAttempt
          <5> QED BY <3>4, <5>3, <5>4 DEF DiscoverRequest
        <4> HIDE DEF Answers
        <4> QED
          BY <1>8, <3>1, <3>2, <3>3, <3>4, <4>1, <4>2, DeadlinesTyped
             DEF DiscoverRequest, MidAttempt, TypeInv, TypeOK, Stages, Hubs
      <3>5. CASE Confirmation
        <4>1. Answers
          BY <3>5 DEF Confirmation, Commands
        <4> HIDE DEF Answers
        <4> QED
          BY <1>8, <3>1, <3>2, <3>3, <3>5, <4>1, DeadlinesTyped
             DEF Confirmation, MidAttempt, TypeInv, TypeOK, Stages, Hubs
      <3>6. CASE KeyInitTransfer
        <4>1. challenge' \in Nat /\ challenges' \in Nat
          BY <3>6 DEF KeyInitTransfer, TypeInv
        <4>2. Answers
          BY <3>6, <4>1 DEF KeyInitTransfer, Commands
        <4> HIDE DEF Answers
        <4> QED
          BY <1>8, <3>1, <3>2, <3>3, <3>6, <4>1, <4>2, DeadlinesTyped
             DEF KeyInitTransfer, MidAttempt, TypeInv, TypeOK, Stages, Hubs
      <3>7. CASE KeyTransfer
        <4>1. Answers
          BY <3>7 DEF KeyTransfer, Commands
        <4>2. key' \in Hubs /\ result' \in [hub : Hubs, key : Hubs]
              /\ result'.hub \in Hubs /\ result'.key \in Hubs
          BY <3>1, <3>7 DEF KeyTransfer, Hubs
        <4> HIDE DEF Answers
        <4> QED
          BY <1>8, <3>1, <3>2, <3>3, <3>7, <4>1, <4>2, DeadlinesTyped
             DEF KeyTransfer, CaptureHolds, Verifies, TypeInv, TypeOK, Stages, Hubs
      <3>8. CASE NodeVerifyRequest
        <4>1. Answers
          BY <3>8 DEF NodeVerifyRequest, Commands
        <4> HIDE DEF Answers
        <4> QED
          BY <1>8, <3>1, <3>2, <3>3, <3>8, <4>1, DeadlinesTyped
             DEF NodeVerifyRequest, Verifies, TypeInv, TypeOK, Stages, Hubs
      <3>9. CASE ChallengeRequest
        <4>1. Answers
          BY <3>9 DEF ChallengeRequest, Commands
        <4> HIDE DEF Answers
        <4> QED
          BY <1>8, <3>1, <3>2, <3>3, <3>9, <4>1, DeadlinesTyped
             DEF ChallengeRequest, Verifies, TypeInv, TypeOK, Stages, Hubs
      <3> QED BY <2>2, <3>4, <3>5, <3>6, <3>7, <3>8, <3>9 DEF Accepted
    <2> QED BY <1>8, <2>1, <2>2 DEF TakeFrame
  <1>9. CASE Queue
    BY <1>9, ConstantsTyped DEF Queue, TypeInv, TypeOK
  <1>10. CASE ProcessIdle
    BY <1>10, ConstantsTyped DEF ProcessIdle, TypeInv, TypeOK
  <1>11. CASE RestartReceive
    BY <1>11 DEF RestartReceive, TypeInv, TypeOK
  <1>12. CASE CommandEnds
    BY <1>12 DEF CommandEnds, TypeInv, TypeOK
  <1>13. CASE TxDone
    BY <1>13 DEF TxDone, TypeInv, TypeOK
  <1>14. ASSUME NEW h \in Hub, HubSends(h) PROVE TypeInv'
    <2>1. PICK cmd \in Follows(heard[h].cmd) \union {"DiscoverRequest"} :
              /\ heard' = IF cmd = "DiscoverRequest" THEN [heard EXCEPT ![h] = NoMessage]
                          ELSE heard
              /\ \/ UNCHANGED rx
                 \/ rx' = Message(cmd, h, heard[h].session, heard[h].ch)
      BY <1>14 DEF HubSends
    <2>2. cmd \in Commands
      BY <2>1, FollowsOnly DEF Commands
    <2>3. heard[h].session \in Nat /\ heard[h].ch \in Nat /\ h \in Hubs
      BY DEF TypeInv, Messages, Hubs
    <2>4. heard' \in [Hub -> Messages] /\ rx' \in Messages
      BY <2>1, <2>2, <2>3, MessageFields, NoMessageFields DEF TypeInv
    <2> QED BY <1>14, <2>4 DEF HubSends, TypeInv, TypeOK
  <1>15. CASE UNCHANGED vars
    BY <1>15 DEF vars, TypeInv, TypeOK
  <1> QED
    BY <1>1, <1>2, <1>3, <1>4, <1>5, <1>6, <1>7, <1>8, <1>9, <1>10, <1>11, <1>12, <1>13, <1>14,
       <1>15 DEF Next, Tick

-----------------------------------------------------------------------------
(* Safety *)

\* A session that begins makes everything heard before one of an earlier session.
LEMMA StartSafe ==
    ASSUME TypeInv, Safe, StartKeyExtraction
    PROVE  Safe'
  <1> USE DEF Safe, controller, attempt, deadlines, air, queue, hubs
  <1>1. session \in Nat /\ session' = session + 1 /\ rx' = rx /\ heard' = heard
    BY DEF StartKeyExtraction, TypeInv
  <1>2. HeardInv'
    <2> SUFFICES ASSUME NEW h \in Hub
                 PROVE  /\ heard'[h].session <= session'
                        /\ heard'[h] = NoMessage \/ heard'[h].hub = h
                        /\ heard'[h].session # session'
      BY DEF HeardInv
    <2>1. heard[h].session \in Nat /\ heard[h].session <= session
      BY DEF TypeInv, Messages, HeardInv
    <2> QED BY <1>1, <2>1 DEF HeardInv
  <1>3. FrameInv'
    <2>1. rx # NoMessage => rx.session \in Nat /\ rx.session <= session
      BY DEF TypeInv, Messages, FrameInv
    <2> QED BY <1>1, <2>1 DEF FrameInv
  <1> QED
    BY <1>2, <1>3 DEF StartKeyExtraction, ReplyInv, CheckInv, CaptureInv, GraceInv, NoResult,
       Verification

\* What ends a session.
LEMMA EndSafe ==
    ASSUME TypeInv, Safe, armed' = FALSE, ResetSession, result' = result,
           UNCHANGED <<session, rx, heard>>
    PROVE  Safe'
  BY DEF Safe, ReplyInv, HeardInv, FrameInv, CheckInv, CaptureInv, GraceInv, ResetSession

\* A step that leaves the attempt, the session and the messages alone.
LEMMA QuietSafe ==
    ASSUME Safe,
           UNCHANGED <<armed, status, session, stage, locked, challenge, key, result,
                       verifySeen, authDone, reply, heard>>,
           rx' = rx \/ rx' = NoMessage,
           radio' # "Receiving" \/ reply = NoMessage \/ radio' = radio,
           grace' # 0 => grace # 0 /\ (hold >= grace => hold' >= grace')
    PROVE  Safe'
  BY DEF Safe, ReplyInv, HeardInv, FrameInv, CheckInv, CaptureInv, GraceInv, Given

\* A frame that is taken up is of the hub that has locked the session, if one has; so no
\* other hub holds a challenge of the session, and an answer may carry a new one.
LEMMA AnswerSafe ==
    ASSUME ExtractionAssumption, TypeInv, Safe, rx.hub \in Hub, FromHub, armed, reply = NoMessage,
           armed' = armed, session' = session, rx' = NoMessage,
           NEW c \in Commands, NEW x \in Nat, Answer(c, x),
           c = "ChallengeRequest" => locked' = rx.hub /\ challenge' = x,
           (heard[rx.hub].cmd = "ChallengeRequest" /\ heard[rx.hub].session = session) =>
               UNCHANGED <<locked, challenge>>
    PROVE  ReplyInv' /\ HeardInv' /\ FrameInv'
  <1> DEFINE m == Message(c, rx.hub, session, x)
  <1>1. m.cmd = c /\ m.hub = rx.hub /\ m.session = session /\ m.ch = x
    BY MessageFields
  <1>2. c = "ChallengeRequest" => locked' = m.hub /\ m.ch = challenge'
    BY <1>1
  <1>3. \/ reply' = m /\ radio' = "Transmitting" /\ heard' \in {heard, [heard EXCEPT ![rx.hub] = m]}
        \/ reply' = reply /\ heard' = heard
    BY DEF Answer
  <1> HIDE DEF m
  <1>4. ReplyInv'
    BY <1>1, <1>2, <1>3 DEF ReplyInv, Given
  <1>5. ASSUME NEW h \in Hub
        PROVE  /\ heard'[h].session <= session'
               /\ heard'[h] = NoMessage \/ heard'[h].hub = h
               /\ (armed' /\ heard'[h].cmd = "ChallengeRequest" /\ heard'[h].session = session') =>
                      locked' = heard'[h].hub /\ heard'[h].ch = challenge'
    <2>1. /\ heard[h].session <= session
          /\ heard[h] = NoMessage \/ heard[h].hub = h
          /\ (heard[h].cmd = "ChallengeRequest" /\ heard[h].session = session) =>
                 locked = heard[h].hub /\ heard[h].ch = challenge
      BY DEF Safe, HeardInv, Given
    <2>2. CASE heard'[h] = heard[h]
      <3>1. CASE h = rx.hub
        BY <2>1, <2>2, <3>1
      <3>2. CASE h # rx.hub
        <4>1. ~ (heard[h].cmd = "ChallengeRequest" /\ heard[h].session = session)
          BY <2>1, <3>2, NoMessageFields, ConstantsTyped DEF FromHub
        <4> QED BY <2>1, <2>2, <4>1
      <3> QED BY <3>1, <3>2
    <2>3. CASE h = rx.hub /\ heard'[h] = m
      <3>1. session <= session
        BY DEF TypeInv
      <3> QED BY <1>1, <2>3, <3>1
    <2>4. heard'[h] = heard[h] \/ (h = rx.hub /\ heard'[h] = m)
      BY <1>3 DEF TypeInv
    <2> QED BY <2>2, <2>3, <2>4
  <1>6. HeardInv'
    BY <1>5 DEF HeardInv, Given
  <1> QED BY <1>4, <1>6 DEF FrameInv

\* A frame that is taken up is of a hub of this session that has heard what it follows from.
LEMMA TakeSafe ==
    ASSUME ExtractionAssumption, TypeInv, Safe, TakeFrame
    PROVE  Safe'
  <1> USE DEF controller, attempt, deadlines, air, queue, hubs
  <1>1. /\ rx # NoMessage /\ rx.hub \in Hub /\ rx.hub # NoHub /\ rx' = NoMessage
        /\ UNCHANGED <<armed, session>>
    BY ConstantsTyped DEF TakeFrame, Safe, FrameInv
  <1>2. CASE Dispatched
    <2>1. UNCHANGED <<armed, status, session, stage, locked, challenge, key, result,
                      verifySeen, authDone, reply, heard, radio, grace, hold>>
      BY <1>1, <1>2 DEF Dispatched
    <2> QED BY <1>1, <2>1, QuietSafe
  <1>3. ASSUME armed, Accepted
        PROVE  Safe'
    <2>1. FromHub /\ reply = NoMessage
      BY <1>3 DEF Accepted, TakeFrame
    <2>2. heard[rx.hub] = NoMessage \/ rx.cmd \in Follows(heard[rx.hub].cmd)
      BY <1>1 DEF Safe, FrameInv
    <2> DEFINE Kept == (heard[rx.hub].cmd = "ChallengeRequest" /\ heard[rx.hub].session = session) =>
                           UNCHANGED <<locked, challenge>>
               Sent == \E c \in Commands, x \in Nat :
                           /\ Answer(c, x)
                           /\ c = "ChallengeRequest" => locked' = rx.hub /\ challenge' = x
    <2>3. ASSUME Kept, Sent PROVE ReplyInv' /\ HeardInv' /\ FrameInv'
      BY <1>1, <1>3, <2>1, <2>3, AnswerSafe
    <2>4. CASE DiscoverRequest
      <3>1. Kept
        BY <2>2, <2>4, FollowsOnly, NoMessageFields DEF DiscoverRequest
      <3>2. Sent
        BY <2>4 DEF DiscoverRequest, Commands
      <3> HIDE DEF Kept, Sent
      <3>3. CheckInv' /\ CaptureInv' /\ GraceInv'
        BY <1>1, <2>4 DEF DiscoverRequest, MidAttempt, ForgetAttempt, Safe, CheckInv, CaptureInv,
           GraceInv, Verification
      <3> QED BY <2>3, <3>1, <3>2, <3>3 DEF Safe
    <2>5. CASE Confirmation
      <3>1. Kept
        BY <2>5 DEF Confirmation
      <3>2. Sent
        BY <2>5 DEF Confirmation, Commands
      <3> HIDE DEF Kept, Sent
      <3>3. CheckInv' /\ CaptureInv' /\ GraceInv'
        BY <1>1, <2>5 DEF Confirmation, MidAttempt, Safe, CheckInv, CaptureInv, GraceInv,
           Verification
      <3> QED BY <2>3, <3>1, <3>2, <3>3 DEF Safe
    <2>6. CASE KeyInitTransfer
      <3>1. Kept
        BY <2>2, <2>6, FollowsOnly, NoMessageFields DEF KeyInitTransfer
      <3>2. Sent
        <4>1. challenge' \in Nat /\ Answer("ChallengeRequest", challenge')
          BY <2>6 DEF KeyInitTransfer, TypeInv
        <4>2. locked' = rx.hub
          BY <1>3, <2>1, <2>6, ConstantsTyped DEF KeyInitTransfer, FromHub, Safe, CheckInv
        <4> QED BY <4>1, <4>2 DEF Commands
      <3> HIDE DEF Kept, Sent
      <3>3. /\ stage' = "ExtractSentChallenge" /\ stage \notin Verification
            /\ UNCHANGED <<key, verifySeen, authDone, grace, status, result>>
        BY <2>6 DEF KeyInitTransfer, MidAttempt, Verification
      <3>4. locked' = rx.hub /\ (locked \in Hub => locked' = locked)
        BY <1>1, <1>3, <2>1, <2>6, ConstantsTyped DEF KeyInitTransfer, FromHub, Safe, CheckInv
      <3>5. CheckInv'
        BY <1>1, <1>3, <3>3, <3>4 DEF Safe, CheckInv, Verification
      <3>6. CaptureInv'
        BY <1>1, <3>3, <3>4 DEF Safe, CaptureInv, NoResult
      <3>7. GraceInv'
        BY <1>1, <3>3 DEF Safe, GraceInv, Verification
      <3> QED BY <2>3, <3>1, <3>2, <3>5, <3>6, <3>7 DEF Safe
    <2>7. CASE KeyTransfer
      <3>1. Kept
        BY <2>7 DEF KeyTransfer
      <3>2. Sent
        BY <2>7 DEF KeyTransfer, Commands
      <3>3. locked = rx.hub /\ rx.ch = challenge
        BY <1>1, <1>3, <2>7 DEF KeyTransfer, ToUs, Safe, FrameInv, Given
      <3> HIDE DEF Kept, Sent
      <3>4. CheckInv' /\ CaptureInv'
        BY <1>1, <2>7, <3>3 DEF KeyTransfer, Safe, CheckInv, CaptureInv, Verification
      <3>5. GraceInv'
        BY <1>1, <1>3, <2>7, ConstantsTyped
           DEF KeyTransfer, CaptureHolds, Verifies, GraceInv, Verification
      <3> QED BY <2>3, <3>1, <3>2, <3>4, <3>5 DEF Safe
    <2>8. CASE NodeVerifyRequest
      <3>1. Kept
        BY <2>8 DEF NodeVerifyRequest
      <3>2. Sent
        BY <2>8 DEF NodeVerifyRequest, Commands
      <3> HIDE DEF Kept, Sent
      <3>3. CheckInv' /\ CaptureInv'
        BY <1>1, <2>8 DEF NodeVerifyRequest, Safe, CheckInv, CaptureInv, Verification
      <3>4. GraceInv'
        BY <1>1, <1>3, <2>8, ConstantsTyped DEF NodeVerifyRequest, Verifies, GraceInv, Verification
      <3> QED BY <2>3, <3>1, <3>2, <3>3, <3>4 DEF Safe
    <2>9. CASE ChallengeRequest
      <3>1. Kept
        BY <2>9 DEF ChallengeRequest
      <3>2. Sent
        BY <2>9 DEF ChallengeRequest, Commands
      <3> HIDE DEF Kept, Sent
      <3>3. CheckInv' /\ CaptureInv'
        BY <1>1, <2>9 DEF ChallengeRequest, Safe, CheckInv, CaptureInv, Verification
      <3>4. GraceInv'
        BY <1>1, <1>3, <2>9, ConstantsTyped DEF ChallengeRequest, Verifies, GraceInv, Verification
      <3> QED BY <2>3, <3>1, <3>2, <3>3, <3>4 DEF Safe
    <2> QED BY <1>3, <2>4, <2>5, <2>6, <2>7, <2>8, <2>9 DEF Accepted
  <1> QED BY <1>2, <1>3 DEF TakeFrame

\* The reply that goes out on the next frequency is the one that was queued, so what the hub
\* hears is of this session, and a challenge in it is the open one.
LEMMA ReplySafe ==
    ASSUME ExtractionAssumption, TypeInv, Safe, ServiceKeyExtractReply
    PROVE  Safe'
  <1> USE DEF controller, attempt, deadlines, air, queue, hubs
  <1>1. /\ reply # NoMessage /\ armed /\ rx = NoMessage /\ rx' = rx
        /\ UNCHANGED <<armed, session, locked, challenge, stage, status, key, result,
                       verifySeen, authDone, grace, hold>>
    BY DEF ServiceKeyExtractReply, Safe, ReplyInv
  <1>2. CheckInv' /\ CaptureInv' /\ GraceInv' /\ FrameInv'
    BY <1>1 DEF Safe, CheckInv, CaptureInv, GraceInv, FrameInv
  <1>3. CASE Transmit
    <2>1. ReplyInv'
      BY <1>1, <1>3 DEF Transmit, Safe, ReplyInv, Given
    <2>2. ASSUME NEW h \in Hub
          PROVE  /\ heard'[h].session <= session'
                 /\ heard'[h] = NoMessage \/ heard'[h].hub = h
                 /\ (armed' /\ heard'[h].cmd = "ChallengeRequest" /\ heard'[h].session = session') =>
                        locked' = heard'[h].hub /\ heard'[h].ch = challenge'
      <3>1. CASE heard'[h] = heard[h]
        BY <1>1, <3>1 DEF Safe, HeardInv, Given
      <3>2. CASE h = reply.hub /\ heard'[h] = reply
        <4>1. reply.session <= session
          BY <1>1 DEF Safe, ReplyInv, TypeInv
        <4> QED BY <1>1, <3>2, <4>1 DEF Safe, ReplyInv, Given
      <3>3. heard'[h] = heard[h] \/ (h = reply.hub /\ heard'[h] = reply)
        BY <1>3 DEF Transmit, TypeInv
      <3> QED BY <3>1, <3>2, <3>3
    <2>3. HeardInv'
      BY <2>2 DEF HeardInv, Given
    <2> QED BY <1>2, <2>1, <2>3 DEF Safe
  <1>4. CASE DropReply
    BY <1>1, <1>2, <1>4 DEF DropReply, Safe, ReplyInv, HeardInv, Given
  <1> QED BY <1>3, <1>4 DEF ServiceKeyExtractReply

\* A hub sends what follows from the reply it heard, with the challenge of that reply; one
\* that starts over has forgotten the reply.
LEMMA HubSafe ==
    ASSUME ExtractionAssumption, TypeInv, Safe, NEW h \in Hub, HubSends(h)
    PROVE  Safe'
  <1> USE DEF controller, attempt, deadlines, air, queue, hubs
  <1> DEFINE last == heard[h]
  <1>1. /\ UNCHANGED <<armed, session, locked, challenge, stage, status, key, result,
                       verifySeen, authDone, grace, hold, reply, radio>>
        /\ rx' = rx \/ (rx = NoMessage /\ radio = "Receiving")
    BY DEF HubSends
  <1>2. PICK cmd \in Follows(last.cmd) \union {"DiscoverRequest"} :
            /\ heard' = IF cmd = "DiscoverRequest" THEN [heard EXCEPT ![h] = NoMessage] ELSE heard
            /\ \/ UNCHANGED rx
               \/ rx = NoMessage /\ rx' = Message(cmd, h, last.session, last.ch)
    BY DEF HubSends
  <1>3. CheckInv' /\ CaptureInv' /\ GraceInv'
    BY <1>1 DEF Safe, CheckInv, CaptureInv, GraceInv
  <1>4. ReplyInv'
    BY <1>1 DEF Safe, ReplyInv, Given
  <1>5. \A g \in Hub : heard'[g] = heard[g] \/ heard'[g] = NoMessage
    BY <1>2 DEF TypeInv
  <1>6. HeardInv'
    <2> SUFFICES ASSUME NEW g \in Hub
                 PROVE  /\ heard'[g].session <= session'
                        /\ heard'[g] = NoMessage \/ heard'[g].hub = g
                        /\ (armed' /\ heard'[g].cmd = "ChallengeRequest"
                              /\ heard'[g].session = session') =>
                               locked' = heard'[g].hub /\ heard'[g].ch = challenge'
      BY DEF HeardInv, Given
    <2>1. CASE heard'[g] = heard[g]
      BY <1>1, <2>1 DEF Safe, HeardInv, Given
    <2>2. CASE heard'[g] = NoMessage
      BY <1>1, <2>2, NoMessageFields DEF TypeInv
    <2> QED BY <1>5, <2>1, <2>2
  <1>7. FrameInv'
    <2>1. CASE rx' = rx
      <3>1. rx.hub \in Hub => heard'[rx.hub] = heard[rx.hub] \/ heard'[rx.hub] = NoMessage
        BY <1>5
      <3> QED BY <1>1, <2>1, <3>1 DEF Safe, FrameInv, Given
    <2>2. CASE rx' = Message(cmd, h, last.session, last.ch)
      <3>1. /\ rx'.cmd = cmd /\ rx'.hub = h /\ rx'.session = last.session /\ rx'.ch = last.ch
        BY <2>2, MessageFields
      <3>2. last.session <= session
        BY DEF Safe, HeardInv
      <3>3. heard'[h] = NoMessage \/ (cmd \in Follows(last.cmd) /\ heard'[h] = last)
        BY <1>2 DEF TypeInv
      <3>4. ASSUME armed, cmd = "KeyTransfer", last.session = session
            PROVE  locked = h /\ last.ch = challenge
        <4>1. last.cmd = "ChallengeRequest"
          BY <1>2, <3>4, FollowsOnly
        <4>2. last # NoMessage
          BY <4>1, NoMessageFields
        <4> QED BY <3>4, <4>1, <4>2 DEF Safe, HeardInv, Given
      <3> HIDE DEF last
      <3> QED BY <1>1, <3>1, <3>2, <3>3, <3>4 DEF FrameInv, Given
    <2> QED BY <1>2, <2>1, <2>2
  <1> QED BY <1>3, <1>4, <1>6, <1>7 DEF Safe

\* Every step keeps what Safe says.
LEMMA SafeStep ==
    ASSUME ExtractionAssumption, TypeInv, Safe, [Next]_vars
    PROVE  Safe'
  <1> USE DEF controller, attempt, deadlines, air, queue, hubs
  <1>1. CASE StartKeyExtraction
    BY <1>1, StartSafe
  <1>2. CASE StopKeyExtraction
    BY <1>2, EndSafe DEF StopKeyExtraction, ResetSession
  <1>3. CASE ClearKeyExtractResult
    BY <1>3 DEF ClearKeyExtractResult, NoResult, Safe, ReplyInv, HeardInv, FrameInv, CheckInv,
       CaptureInv, GraceInv, Given
  <1>4. CASE TimedOut
    BY <1>4, EndSafe DEF TimedOut, ResetSession
  <1>5. CASE GraceElapsed
    BY <1>2, <1>5 DEF GraceElapsed
  <1>6. CASE TimePasses
    <2>1. grace' # 0 => grace # 0 /\ (hold >= grace => hold' >= grace')
      <3>1. grace \in Nat /\ hold \in Nat
        BY ConstantsTyped DEF TypeInv, TypeOK
      <3> QED BY <1>6, <3>1 DEF TimePasses, Left
    <2>2. UNCHANGED <<armed, status, session, stage, locked, challenge, key, result,
                      verifySeen, authDone, reply, heard, rx, radio>>
      BY <1>6 DEF TimePasses
    <2> QED BY <2>1, <2>2, QuietSafe
  <1>7. CASE ServiceKeyExtractReply
    BY <1>7, ReplySafe
  <1>8. CASE TakeFrame
    BY <1>8, TakeSafe
  <1>9. CASE Queue \/ ProcessIdle \/ CommandEnds
    <2>1. UNCHANGED <<armed, status, session, stage, locked, challenge, key, result,
                      verifySeen, authDone, reply, heard, rx, radio, grace, hold>>
      BY <1>9 DEF Queue, ProcessIdle, CommandEnds
    <2> QED BY <2>1, QuietSafe
  <1>10. CASE RestartReceive
    <2>1. UNCHANGED <<armed, status, session, stage, locked, challenge, key, result,
                      verifySeen, authDone, reply, heard, rx, grace, hold>>
      BY <1>10 DEF RestartReceive
    <2>2. reply = NoMessage
      BY <1>10 DEF RestartReceive, Safe, ReplyInv
    <2> QED BY <2>1, <2>2, QuietSafe
  <1>11. CASE TxDone
    <2>1. UNCHANGED <<armed, status, session, stage, locked, challenge, key, result,
                      verifySeen, authDone, reply, heard, rx, grace, hold>>
          /\ radio' # "Receiving"
      BY <1>11 DEF TxDone
    <2> QED BY <2>1, QuietSafe
  <1>12. ASSUME NEW h \in Hub, HubSends(h) PROVE Safe'
    BY <1>12, HubSafe
  <1>13. CASE UNCHANGED vars
    <2>1. UNCHANGED <<armed, status, session, stage, locked, challenge, key, result,
                      verifySeen, authDone, reply, heard, rx, radio, grace, hold>>
      BY <1>13 DEF vars
    <2> QED BY <2>1, QuietSafe
  <1> QED
    BY <1>1, <1>2, <1>3, <1>4, <1>5, <1>6, <1>7, <1>8, <1>9, <1>10, <1>11, <1>12, <1>13
       DEF Next, Tick

-----------------------------------------------------------------------------
(* What a session promises *)

\* The types and what Safe says hold in every reachable state.
THEOREM Extracting ==
    ASSUME ExtractionAssumption
    PROVE  Spec => [](TypeInv /\ Safe)
  <1>1. Init => TypeInv /\ Safe
    BY InitHolds
  <1>2. TypeInv /\ Safe /\ [Next]_vars => (TypeInv /\ Safe)'
    BY TypeStep, SafeStep DEF Safe
  <1> QED BY <1>1, <1>2, PTL DEF Spec

\* Every variable keeps its type; in particular the deadlines, the frequency of the reply and
\* the queued commands stay in their ranges.
THEOREM Types ==
    ASSUME ExtractionAssumption
    PROVE  Spec => []TypeOK
  <1>1. TypeInv => TypeOK
    BY DEF TypeInv
  <1> QED BY <1>1, Extracting, PTL

\* The key that is reported is one the locked hub sent, decrypted with the challenge that hub
\* was given, however many hubs interleave their frames (processKeyExtractFrame).
THEOREM KeyOfHub ==
    ASSUME ExtractionAssumption
    PROVE  Spec => []KeyOfTheHub
  <1>1. Safe => KeyOfTheHub
    BY DEF Safe, CaptureInv, KeyOfTheHub
  <1> QED BY <1>1, Extracting, PTL

\* A device is reported as verified only with the key of the attempt that is verified: a
\* fresh attempt of the hub forgets the key together with what was checked with it.
THEOREM Checks ==
    ASSUME ExtractionAssumption
    PROVE  Spec => []ChecksTheKey
  <1>1. Safe => ChecksTheKey
    <2> SUFFICES ASSUME Safe, armed, verifySeen \/ authDone PROVE key = locked /\ key # NoHub
      BY DEF ChecksTheKey
    <2> QED BY ExtractionAssumption DEF Safe, CheckInv, ExtractionAssumption
  <1> QED BY <1>1, Extracting, PTL

\* The key that is told and the one that devices are verified with are the key of the hub
\* that locked the session.
THEOREM RightKey ==
    ASSUME ExtractionAssumption
    PROVE  Spec => []KeyIsRight
  <1>1. KeyOfTheHub /\ ChecksTheKey => KeyIsRight
    BY DEF KeyIsRight
  <1> QED BY <1>1, KeyOfHub, Checks, PTL

\* No background command takes over the radio during the verification window: the window
\* is open no longer than the channel is held (processIdle).
THEOREM PollsWaitVerification ==
    ASSUME ExtractionAssumption
    PROVE  Spec => PollsWait
  <1> USE DEF controller, attempt, deadlines, air, queue, hubs
  <1>1. TypeInv /\ Safe /\ [Next]_vars => [grace # 0 => background' >= background]_vars
    <2> SUFFICES ASSUME TypeInv, Safe, Next, grace # 0
                 PROVE  background' >= background
      OBVIOUS
    <2>1. background \in Nat
      BY ExtractionAssumption DEF TypeInv, TypeOK, ExtractionAssumption
    <2>2. AwaitingReply
      <3>1. grace \in Nat /\ hold \in Nat
        BY ConstantsTyped DEF TypeInv, TypeOK
      <3> QED BY <3>1 DEF Safe, GraceInv, AwaitingReply, Verification
    <2>3. CASE ProcessIdle
      BY <2>1, <2>2, <2>3 DEF ProcessIdle
    <2>4. CASE Queue
      BY <2>1, <2>4 DEF Queue
    <2>5. CASE ~ ProcessIdle /\ ~ Queue
      <3>1. background' = background
        BY <2>5 DEF Next, Tick, StartKeyExtraction, StopKeyExtraction, ClearKeyExtractResult,
           TimedOut, GraceElapsed, TimePasses, ServiceKeyExtractReply, TakeFrame, RestartReceive,
           CommandEnds, TxDone, HubSends
      <3> QED BY <2>1, <3>1
    <2> QED BY <2>3, <2>4, <2>5
  <1> QED BY <1>1, Extracting, PTL DEF PollsWait, Spec

\* A session is a key recovery: it is armed, binds itself to one hub at most, reports the key
\* of that hub and of no other, and ends.  Every step is a step of KeyRecovery or none.
THEOREM SessionKeepsRecovery ==
    ASSUME ExtractionAssumption
    PROVE  Spec => Recovers
  <1> USE DEF controller, attempt, deadlines, air, queue, hubs
  <1> DEFINE Abstract == <<armed, status, locked, result.hub>>
  <1>1. Init => Recovery!RecoveryInit
    BY DEF Init, NoResult, Recovery!RecoveryInit
  <1>2. TypeInv /\ Safe /\ [Next]_vars => [Recovery!RecoveryNext]_(Recovery!recovery)
    <2> SUFFICES ASSUME TypeInv, Safe, [Next]_vars
                 PROVE  Recovery!RecoveryNext \/ UNCHANGED Abstract
      BY DEF Recovery!recovery
    <2>1. CASE StartKeyExtraction
      BY <2>1 DEF StartKeyExtraction, NoResult, Recovery!RecoveryNext, Recovery!Arm
    <2>2. CASE StopKeyExtraction
      <3>1. Recovery!Disarm(FALSE)
        BY <2>2 DEF StopKeyExtraction, ResetSession, Disarmed, Recovery!Disarm
      <3> QED BY <3>1 DEF Recovery!RecoveryNext
    <2>3. CASE ClearKeyExtractResult
      BY <2>3 DEF ClearKeyExtractResult, NoResult, Recovery!RecoveryNext, Recovery!Clear
    <2>4. CASE TimedOut
      <3>1. Recovery!Disarm(TRUE)
        BY <2>4 DEF TimedOut, ResetSession, Recovery!Disarm
      <3> QED BY <3>1 DEF Recovery!RecoveryNext
    <2>5. CASE GraceElapsed
      BY <2>2, <2>5 DEF GraceElapsed
    <2>6. CASE TakeFrame
      <3>1. CASE Dispatched
        BY <2>6, <3>1 DEF TakeFrame, Dispatched
      <3>2. ASSUME armed, Accepted
            PROVE  Recovery!RecoveryNext \/ UNCHANGED Abstract
        <4>1. rx.hub \in Hub /\ UNCHANGED armed /\ FromHub
          BY <2>6, <3>2 DEF TakeFrame, Accepted, Safe, FrameInv
        <4>2. CASE DiscoverRequest \/ Confirmation \/ NodeVerifyRequest \/ ChallengeRequest
          BY <4>1, <4>2 DEF DiscoverRequest, Confirmation, NodeVerifyRequest, ChallengeRequest,
             MidAttempt
        <4>3. CASE KeyInitTransfer
          <5>1. UNCHANGED <<status, result>>
            BY <4>3 DEF KeyInitTransfer, MidAttempt
          <5>2. locked' = rx.hub \/ locked' = locked
            BY <4>3 DEF KeyInitTransfer
          <5>3. CASE locked' = rx.hub
            <6>1. Recovery!Lock(rx.hub)
              BY <3>2, <4>1, <5>1, <5>3 DEF FromHub, Recovery!Lock
            <6> QED BY <4>1, <6>1 DEF Recovery!RecoveryNext
          <5> QED BY <4>1, <5>1, <5>2, <5>3
        <4>4. CASE KeyTransfer
          <5>1. locked = rx.hub /\ rx.hub # NoHub
            BY <2>6, <3>2, <4>1, <4>4, ConstantsTyped
               DEF TakeFrame, KeyTransfer, ToUs, Safe, FrameInv, Given
          <5>2. Recovery!Capture
            BY <3>2, <4>1, <4>4, <5>1 DEF KeyTransfer, Recovery!Capture
          <5> QED BY <5>2 DEF Recovery!RecoveryNext
        <4> QED BY <3>2, <4>2, <4>3, <4>4 DEF Accepted
      <3> QED BY <2>6, <3>1, <3>2 DEF TakeFrame
    <2>7. CASE \/ TimePasses \/ ServiceKeyExtractReply \/ Queue \/ ProcessIdle
               \/ RestartReceive \/ CommandEnds \/ TxDone \/ \E h \in Hub : HubSends(h)
               \/ UNCHANGED vars
      BY <2>7 DEF TimePasses, ServiceKeyExtractReply, Queue, ProcessIdle, RestartReceive,
         CommandEnds, TxDone, HubSends, vars
    <2> QED BY <2>1, <2>2, <2>3, <2>4, <2>5, <2>6, <2>7 DEF Next, Tick
  <1> QED BY <1>1, <1>2, Extracting, PTL DEF Spec, Recovers, Recovery!RecoverySpec

-----------------------------------------------------------------------------
(* Reports and their challenges *)

\* Frames that bring a report, or the answer that proves one.
Bringing == {"StatusUpdate", "PrivateResponse", "ChallengeResponse"}

Air == [cmd : Bringing \cup {"None", "Remote", "Foreign"}, src : Device \cup {NoDevice},
        dest : {"Own", "All"}, report : Nat, ch : Nat]

ReportTypes ==
    /\ Reports!TypeOK
    /\ authRx \in Air /\ pending \in Air
    /\ authRx.cmd # "None" => authRx.src \in Device
    /\ mState = "StatusAckTxWait" => ackFreq < Frequencies

\* A frame that has arrived is no older than what the channel was told last, for whatever
\* tells the channel more takes the frame away; and a device has made what was applied.
InOrder ==
    /\ \A d \in Device : applied[d] <= reports[d]
    /\ authRx.cmd \in Bringing =>
           applied[authRx.src] <= authRx.report /\ authRx.report <= reports[authRx.src]

\* What the new frame is compared with.
NotOlder(d, n) == applied'[d] <= n /\ n <= reports'[d]

\* Nothing has arrived, been applied or been put aside at the start.
LEMMA ReportsStart ==
    ASSUME Reports!ReceiveAssumption, Reports!Init
    PROVE  ReportTypes /\ InOrder
  <1>1. Reports!NoFrame \in Air /\ Reports!NoFrame.cmd = "None" /\ Reports!NoFrame.src = NoDevice
        /\ "None" \notin Bringing
    BY DEF Reports!NoFrame, Air, Bringing
  <1>2. authRx = Reports!NoFrame /\ pending = Reports!NoFrame
    BY DEF Reports!Init
  <1>3. 0 \in 0 .. Frequencies
    BY DEF Reports!ReceiveAssumption
  <1>4. /\ mState = "Idle" /\ passive = FALSE /\ ackDest = NoDevice /\ ackFreq = 0
        /\ radio = "Receiving" /\ authChallenge = 0 /\ stateAge = 0
    BY DEF Reports!Init
  <1>5. /\ applied \in [Device -> Nat] /\ poll \in [Device -> BOOLEAN]
        /\ reports \in [Device -> Nat] /\ challenged \in [Device -> Nat]
        /\ \A d \in Device : applied[d] <= reports[d]
    BY DEF Reports!Init
  <1>6. Reports!TypeOK
    BY <1>1, <1>2, <1>3, <1>4, <1>5 DEF Reports!TypeOK
  <1> QED BY <1>1, <1>2, <1>4, <1>5, <1>6 DEF ReportTypes, InOrder

\* A frame arrives whole or not at all.
LEMMA ArrivesWhole ==
    ASSUME ReportTypes, InOrder, NEW f \in Air, f.cmd # "None", f.src \in Device,
           Reports!Arrives(f), UNCHANGED applied,
           reports' \in [Device -> Nat], \A e \in Device : reports[e] <= reports'[e],
           f.cmd \in Bringing => applied[f.src] <= f.report /\ f.report <= reports'[f.src]
    PROVE  /\ authRx' \in Air /\ (authRx'.cmd # "None" => authRx'.src \in Device)
           /\ authRx'.cmd \in Bringing => NotOlder(authRx'.src, authRx'.report)
  <1>1. CASE authRx' = f
    BY <1>1 DEF NotOlder
  <1>2. CASE UNCHANGED authRx
    <2>1. authRx \in Air /\ (authRx.cmd # "None" => authRx.src \in Device) /\ "None" \notin Bringing
      BY DEF ReportTypes, Bringing
    <2>2. authRx.cmd \in Bringing => NotOlder(authRx.src, authRx.report)
      <3> SUFFICES ASSUME authRx.cmd \in Bringing PROVE NotOlder(authRx.src, authRx.report)
        OBVIOUS
      <3>1. authRx.src \in Device /\ authRx.report \in Nat
        BY <2>1 DEF Air
      <3>2. reports[authRx.src] \in Nat /\ reports'[authRx.src] \in Nat
        BY <3>1 DEF ReportTypes, Reports!TypeOK
      <3> QED BY <3>1, <3>2 DEF InOrder, NotOlder
    <2> QED BY <1>2, <2>1, <2>2
  <1> QED BY <1>1, <1>2 DEF Reports!Arrives

\* Devices report, answer, and are commanded by others.
LEMMA DeviceReports ==
    ASSUME Reports!ReceiveAssumption, ReportTypes, InOrder, NEW d \in Device, Reports!Report(d)
    PROVE  ReportTypes' /\ InOrder'
  <1>1. /\ reports' = [reports EXCEPT ![d] = @ + 1]
        /\ UNCHANGED <<mState, passive, pending, authChallenge, ackDest, ackFreq, radio, stateAge,
                       applied, poll, challenged>>
    BY DEF Reports!Report, Reports!controller, Reports!channel
  <1>2. /\ reports' \in [Device -> Nat] /\ applied[d] <= reports'[d]
        /\ \A e \in Device : applied'[e] <= reports'[e] /\ reports[e] <= reports'[e]
    BY <1>1 DEF ReportTypes, Reports!TypeOK, InOrder
  <1>3. PICK cmd \in {"StatusUpdate", "PrivateResponse"}, dest \in {"Own", "All"} :
            Reports!Arrives(Reports!Frame(cmd, d, dest, reports'[d], 0))
    BY DEF Reports!Report
  <1> DEFINE f == Reports!Frame(cmd, d, dest, reports'[d], 0)
  <1>4. f \in Air /\ f.cmd # "None" /\ f.src = d /\ f.report = reports'[d]
    BY <1>2 DEF Reports!Frame, Air, Bringing
  <1> HIDE DEF f
  <1>5. Reports!Arrives(f)
    BY <1>3 DEF f
  <1>6. /\ authRx' \in Air /\ (authRx'.cmd # "None" => authRx'.src \in Device)
        /\ authRx'.cmd \in Bringing => NotOlder(authRx'.src, authRx'.report)
    BY <1>1, <1>2, <1>4, <1>5, ArrivesWhole
  <1> QED BY <1>1, <1>2, <1>6 DEF ReportTypes, Reports!TypeOK, InOrder, NotOlder

\* An answer to a challenge covers the latest report of its device.
LEMMA DeviceAnswers ==
    ASSUME Reports!ReceiveAssumption, ReportTypes, InOrder, NEW d \in Device, Reports!Answer(d)
    PROVE  ReportTypes' /\ InOrder'
  <1>1. /\ challenged' = [challenged EXCEPT ![d] = 0]
        /\ UNCHANGED <<mState, passive, pending, authChallenge, ackDest, ackFreq, radio, stateAge,
                       applied, poll, reports>>
    BY DEF Reports!Answer, Reports!controller, Reports!channel
  <1>2. challenged' \in [Device -> Nat]
    BY <1>1 DEF ReportTypes, Reports!TypeOK
  <1> DEFINE f == Reports!Frame("ChallengeResponse", d, "Own", reports[d], challenged[d])
  <1>3. f \in Air /\ f.cmd # "None" /\ f.src = d /\ f.report = reports[d]
    BY DEF Reports!Frame, Air, Bringing, ReportTypes, Reports!TypeOK
  <1>4. Reports!Arrives(f)
    BY DEF Reports!Answer
  <1> HIDE DEF f
  <1>5. /\ authRx' \in Air /\ (authRx'.cmd # "None" => authRx'.src \in Device)
        /\ authRx'.cmd \in Bringing => NotOlder(authRx'.src, authRx'.report)
    BY <1>1, <1>3, <1>4, ArrivesWhole DEF InOrder, ReportTypes, Reports!TypeOK
  <1> QED BY <1>1, <1>2, <1>5 DEF ReportTypes, Reports!TypeOK, InOrder, NotOlder

\* A frame of others brings no report.
LEMMA OthersHeard ==
    ASSUME Reports!ReceiveAssumption, ReportTypes, InOrder, Reports!Overheard
    PROVE  ReportTypes' /\ InOrder'
  <1>1. UNCHANGED <<mState, passive, pending, authChallenge, ackDest, ackFreq, radio, stateAge,
                    applied, poll, reports, challenged>>
    BY DEF Reports!Overheard, Reports!controller, Reports!channel, Reports!devices
  <1>2. PICK cmd \in {"Remote", "Foreign"}, d \in Device :
            Reports!Arrives(Reports!Frame(cmd, d, "All", 0, 0))
    BY DEF Reports!Overheard
  <1> DEFINE f == Reports!Frame(cmd, d, "All", 0, 0)
  <1>3. f \in Air /\ f.cmd # "None" /\ f.src = d /\ f.cmd \notin Bringing
    BY DEF Reports!Frame, Air, Bringing
  <1> HIDE DEF f
  <1>4. Reports!Arrives(f)
    BY <1>2 DEF f
  <1>5. /\ authRx' \in Air /\ (authRx'.cmd # "None" => authRx'.src \in Device)
        /\ authRx'.cmd \in Bringing => NotOlder(authRx'.src, authRx'.report)
    BY <1>1, <1>3, <1>4, ArrivesWhole DEF ReportTypes, Reports!TypeOK
  <1> QED BY <1>1, <1>5 DEF ReportTypes, Reports!TypeOK, InOrder, NotOlder

\* A frame that is taken is gone, and what it makes the channel show is not older than what
\* is shown: the report put aside was proved by an answer about the same report.
LEMMA FrameTaken ==
    ASSUME Reports!ReceiveAssumption, ReportTypes, InOrder, Reports!TakeFrame
    PROVE  /\ ReportTypes' /\ InOrder'
           /\ \A d \in Device : applied'[d] >= applied[d]
  <1>1. /\ authRx # Reports!NoFrame /\ authRx' = Reports!NoFrame
        /\ UNCHANGED <<stateAge, reports, challenged>>
    BY DEF Reports!TakeFrame, Reports!devices
  <1>2. authRx' \in Air /\ authRx'.cmd = "None" /\ authRx' = Reports!NoFrame
    BY <1>1 DEF Reports!NoFrame, Air
  <1>3. \/ Reports!Authenticated \/ Reports!Rejected \/ Reports!Ignored
        \/ Reports!SchedulePolls \/ Reports!PutAside \/ Reports!ApplyReport
        \/ Reports!DispatchOther
    BY DEF Reports!TakeFrame
  <1>4. radio' \in {"Receiving", "Transmitting", "Standby"}
    BY DEF Reports!TakeFrame, Reports!Restarts, ReportTypes, Reports!TypeOK
  <1>5. /\ mState' \in {"Idle", "AuthSendChallenge", "AuthWaitResponse", "StatusAckSend",
                        "StatusAckTxWait", "PassiveListening"}
        /\ pending' \in Air /\ pending'.src \in Device \cup {NoDevice}
        /\ ackDest' \in Device \cup {NoDevice} /\ ackFreq' \in 0 .. Frequencies
        /\ authChallenge' \in Nat /\ passive' \in BOOLEAN
        /\ poll' \in [Device -> BOOLEAN]
        /\ mState' = "StatusAckTxWait" => ackFreq' < Frequencies
    <2>1. CASE Reports!PutAside
      BY <2>1 DEF Reports!PutAside, Reports!Challengeable, Reports!channel, ReportTypes,
                  Reports!TypeOK, Bringing
    <2>2. CASE Reports!SchedulePolls
      BY <2>2 DEF Reports!SchedulePolls, Reports!controller, ReportTypes, Reports!TypeOK
    <2>3. CASE Reports!Rejected \/ Reports!Ignored \/ Reports!DispatchOther
      BY <2>3 DEF Reports!Rejected, Reports!Ignored, Reports!DispatchOther,
                  Reports!controller, Reports!channel, ReportTypes, Reports!TypeOK
    <2>4. CASE Reports!Authenticated
      BY <2>4 DEF Reports!Authenticated, Reports!ReceiveAssumption, ReportTypes, Reports!TypeOK
    <2>5. CASE Reports!ApplyReport
      BY <2>5 DEF Reports!ApplyReport, Reports!controller, ReportTypes, Reports!TypeOK
    <2> QED BY <1>3, <2>1, <2>2, <2>3, <2>4, <2>5
  <1>6. ASSUME applied' \in [Device -> Nat], \A d \in Device : applied'[d] <= reports'[d]
        PROVE  ReportTypes' /\ InOrder'
    BY <1>1, <1>2, <1>4, <1>5, <1>6 DEF ReportTypes, Reports!TypeOK, InOrder, Bringing
  <1>7. CASE UNCHANGED applied
    BY <1>1, <1>6, <1>7 DEF ReportTypes, Reports!TypeOK, InOrder
  <1>8. ASSUME NEW d \in Device, NEW n \in Nat, applied' = [applied EXCEPT ![d] = n],
               applied[d] <= n, n <= reports[d]
        PROVE  /\ ReportTypes' /\ InOrder'
               /\ \A e \in Device : applied'[e] >= applied[e]
    BY <1>1, <1>6, <1>8 DEF ReportTypes, Reports!TypeOK, InOrder
  <1>9. CASE Reports!Authenticated
    <2>1. /\ authRx.cmd \in Bringing /\ authRx.cmd # "None"
          /\ applied' = [applied EXCEPT ![authRx.src] = authRx.report]
      BY <1>9 DEF Reports!Authenticated, Reports!FromReporter, Reports!Verified, Bringing
    <2>2. authRx.src \in Device /\ authRx.report \in Nat
      BY <2>1 DEF ReportTypes, Air
    <2> QED BY <1>8, <2>1, <2>2 DEF InOrder
  <1>10. CASE Reports!ApplyReport
    <2>1. /\ authRx.cmd \in Bringing /\ authRx.cmd # "None"
          /\ applied' = [applied EXCEPT ![authRx.src] = authRx.report]
      BY <1>10 DEF Reports!ApplyReport, Bringing
    <2>2. authRx.src \in Device /\ authRx.report \in Nat
      BY <2>1 DEF ReportTypes, Air
    <2> QED BY <1>8, <2>1, <2>2 DEF InOrder
  <1>11. Reports!Authenticated \/ Reports!ApplyReport \/ UNCHANGED applied
    BY <1>3 DEF Reports!Rejected, Reports!Ignored, Reports!SchedulePolls, Reports!PutAside,
                Reports!DispatchOther, Reports!channel
  <1> QED BY <1>7, <1>9, <1>10, <1>11

\* The handlers and the rest tell the channel nothing.
LEMMA ReportHandlers ==
    ASSUME Reports!ReceiveAssumption, ReportTypes, InOrder,
           \/ Reports!Handlers \/ Reports!TxDone \/ Reports!SetPassiveMode \/ Reports!PollSent
           \/ Reports!Tick
    PROVE  ReportTypes' /\ InOrder' /\ UNCHANGED applied
  <1>1. UNCHANGED <<authRx, applied, reports>>
    BY DEF Reports!Handlers, Reports!SendChallenge, Reports!RestartReceive, Reports!AuthTimeout,
           Reports!SendAck, Reports!AckSent, Reports!TxDone, Reports!SetPassiveMode,
           Reports!PollSent, Reports!Tick, Reports!channel, Reports!devices
  <1>2. InOrder'
    BY <1>1 DEF InOrder
  <1>3. Frequencies \in Nat /\ NoDevice \notin Device
    BY DEF Reports!ReceiveAssumption
  <1> DEFINE Rest == /\ mState \in {"Idle", "AuthSendChallenge", "AuthWaitResponse",
                                    "StatusAckSend", "StatusAckTxWait", "PassiveListening"}
                     /\ passive \in BOOLEAN /\ pending \in Air
                     /\ pending.src \in Device \cup {NoDevice}
                     /\ ackDest \in Device \cup {NoDevice}
                     /\ authChallenge \in Nat /\ ackFreq \in 0 .. Frequencies
                     /\ radio \in {"Receiving", "Transmitting", "Standby"}
                     /\ stateAge \in Nat /\ poll \in [Device -> BOOLEAN]
                     /\ challenged \in [Device -> Nat]
                     /\ mState = "StatusAckTxWait" => ackFreq < Frequencies
  <1>4. Rest
    BY DEF ReportTypes, Reports!TypeOK
  <1>5. Rest'
    <2>1. CASE Reports!SendChallenge
      <3>1. [challenged EXCEPT ![pending.src] = authChallenge] \in [Device -> Nat]
        BY <1>4
      <3> QED BY <1>4, <2>1, <3>1 DEF Reports!SendChallenge, Reports!GoIdle, Reports!Restarts,
                                      Reports!channel
    <2>2. CASE Reports!RestartReceive
      BY <1>4, <2>2 DEF Reports!RestartReceive, Reports!GoIdle, Reports!controller,
                        Reports!channel, Reports!devices
    <2>3. CASE Reports!AuthTimeout
      BY <1>4, <2>3 DEF Reports!AuthTimeout, Reports!GoIdle, Reports!Restarts, Reports!channel,
                        Reports!devices
    <2>4. CASE Reports!SendAck
      BY <1>3, <1>4, <2>4 DEF Reports!SendAck, Reports!AckEnds, Reports!GoIdle, Reports!Restarts,
                              Reports!channel, Reports!Ack, Reports!AllSent, Reports!NextFrequency
    <2>5. CASE Reports!AckSent
      BY <1>3, <1>4, <2>5 DEF Reports!AckSent, Reports!Ack, Reports!NextFrequency,
                              Reports!channel, Reports!devices
    <2>6. CASE Reports!TxDone
      BY <1>4, <2>6 DEF Reports!TxDone, Reports!controller, Reports!channel, Reports!devices
    <2>8. CASE Reports!PollSent
      <3>1. poll' \in [Device -> BOOLEAN]
        BY <1>4, <2>8 DEF Reports!PollSent
      <3> QED BY <1>4, <2>8, <3>1 DEF Reports!PollSent, Reports!controller, Reports!devices
    <2>9. CASE Reports!Tick
      BY <1>4, <2>9 DEF Reports!Tick, Reports!controller, Reports!channel, Reports!devices
    <2>7. CASE Reports!SetPassiveMode
      BY <1>4, <2>7 DEF Reports!SetPassiveMode, Reports!Restarts, Reports!channel, Reports!devices
    <2> QED BY <2>1, <2>2, <2>3, <2>4, <2>5, <2>6, <2>7, <2>8, <2>9
           DEF Reports!Handlers
  <1>6. ReportTypes'
    BY <1>1, <1>5 DEF ReportTypes, Reports!TypeOK
  <1> QED BY <1>1, <1>2, <1>6

\* Every step keeps the order.
LEMMA ReportStep ==
    ASSUME Reports!ReceiveAssumption, ReportTypes, InOrder, [Reports!Next]_(Reports!vars)
    PROVE  /\ ReportTypes' /\ InOrder'
           /\ \A d \in Device : applied'[d] >= applied[d]
  <1>1. applied \in [Device -> Nat]
    BY DEF ReportTypes, Reports!TypeOK
  <1>2. UNCHANGED applied => \A d \in Device : applied'[d] >= applied[d]
    BY <1>1
  <1>3. CASE UNCHANGED Reports!vars
    BY <1>2, <1>3 DEF Reports!vars, Reports!controller, Reports!channel, Reports!devices,
                      ReportTypes, Reports!TypeOK, InOrder
  <1>4. CASE Reports!TakeFrame
    BY <1>4, FrameTaken
  <1>5. CASE Reports!Overheard
    BY <1>2, <1>5, OthersHeard DEF Reports!Overheard, Reports!channel
  <1>6. ASSUME NEW d \in Device, Reports!Report(d) \/ Reports!Answer(d)
        PROVE  ReportTypes' /\ InOrder' /\ UNCHANGED applied
    BY <1>6, DeviceReports, DeviceAnswers DEF Reports!Report, Reports!Answer, Reports!channel
  <1>7. CASE \/ Reports!Handlers \/ Reports!TxDone \/ Reports!SetPassiveMode \/ Reports!PollSent
             \/ Reports!Tick
    BY <1>2, <1>7, ReportHandlers
  <1> QED BY <1>2, <1>3, <1>4, <1>5, <1>6, <1>7 DEF Reports!Next

\* The reports of a device are applied in the order it made them, however many devices,
\* reports and challenges there are and whatever is lost, late or refused by the driver.
THEOREM ReportsInOrder ==
    ASSUME Reports!ReceiveAssumption
    PROVE  Reports!Spec => AppliedInOrder
  <1>1. Reports!Init => ReportTypes /\ InOrder
    BY ReportsStart
  <1>2. ReportTypes /\ InOrder /\ [Reports!Next]_(Reports!vars) => ReportTypes' /\ InOrder'
    BY ReportStep
  <1>3. ReportTypes /\ InOrder /\ [Reports!Next]_(Reports!vars)
        => [\A d \in DOMAIN applied : applied'[d] >= applied[d]]_(Reports!vars)
    <2>1. ReportTypes => DOMAIN applied = Device
      BY DEF ReportTypes, Reports!TypeOK
    <2> QED BY <2>1, ReportStep
  <1> QED BY <1>1, <1>2, <1>3, PTL DEF Reports!Spec, AppliedInOrder, Reports!AppliedInOrder

\* Frames, challenges, polls and deadlines of the reports keep their types, whatever arrives.
THEOREM ReportsTyped ==
    ASSUME Reports!ReceiveAssumption
    PROVE  Reports!Spec => []Reports!TypeOK
  <1>1. ReportTypes => Reports!TypeOK
    BY DEF ReportTypes
  <1> QED BY <1>1, ReportsStart, ReportStep, PTL DEF Reports!Spec

\* With a driver that refuses nothing no way back to Idle forgets to start the receiver.
THEOREM ListensWhenIdle ==
    ASSUME ~AnswersFail
    PROVE  Reports!Spec => []Reports!IdleListens
  <1>1. Reports!Init => Reports!IdleListens
    BY DEF Reports!Init, Reports!IdleListens
  <1>2. ASSUME Reports!IdleListens, [Reports!Next]_(Reports!vars)
        PROVE  Reports!IdleListens'
    <2>1. CASE UNCHANGED <<mState, radio>>
      BY <1>2, <2>1 DEF Reports!IdleListens
    <2>2. CASE Reports!TakeFrame
      <3>1. CASE mState = "AuthWaitResponse"
        BY <2>2, <3>1 DEF Reports!TakeFrame, Reports!Restarts, Reports!IdleListens
      <3>2. CASE mState # "AuthWaitResponse"
        BY <1>2, <2>2, <3>2 DEF Reports!TakeFrame, Reports!SchedulePolls, Reports!PutAside,
               Reports!ApplyReport, Reports!DispatchOther, Reports!controller,
               Reports!IdleListens
      <3> QED BY <3>1, <3>2
    <2>3. CASE Reports!Handlers
      BY <2>3 DEF Reports!Handlers, Reports!SendChallenge, Reports!RestartReceive,
             Reports!AuthTimeout, Reports!SendAck, Reports!AckSent, Reports!AckEnds,
             Reports!GoIdle, Reports!Restarts, Reports!Ack, Reports!controller,
             Reports!IdleListens
    <2>4. CASE Reports!TxDone
      BY <1>2, <2>4 DEF Reports!TxDone, Reports!controller, Reports!IdleListens
    <2>5. CASE Reports!SetPassiveMode
      BY <2>5 DEF Reports!SetPassiveMode, Reports!Restarts, Reports!IdleListens
    <2> QED BY <1>2, <2>1, <2>2, <2>3, <2>4, <2>5
            DEF Reports!Next, Reports!vars, Reports!Report, Reports!Answer, Reports!Overheard,
                Reports!PollSent, Reports!Tick, Reports!controller
  <1> QED BY <1>1, <1>2, PTL DEF Reports!Spec

-----------------------------------------------------------------------------
(* Passive listening *)

\* Every start, end and timeout of the three users leaves the flag and the state in step,
\* however they overlap, and with frames that are missed and pairings that break in.
THEOREM MuteMeansListening ==
    Listening!Spec => []Listening!PassiveMeansListening
  <1>1. Listening!Init => Listening!PassiveMeansListening
    BY DEF Listening!Init, Listening!PassiveMeansListening
  <1>2. ASSUME Listening!PassiveMeansListening, [Listening!Next]_(Listening!vars)
        PROVE  Listening!PassiveMeansListening'
    <2> USE <1>2 DEF Listening!PassiveMeansListening, Listening!passive
    <2>1. CASE UNCHANGED <<mState, mPassiveMode, networkScan>>
      BY <2>1
    <2>2. CASE Listening!StartNetworkScan \/ Listening!StopNetworkScan
      BY <2>2 DEF Listening!StartNetworkScan, Listening!StopNetworkScan, Listening!Listen,
                  Listening!StopListening, Listening!Leave
    <2>3. CASE Listening!StartPassiveKeySniff \/ Listening!StopPassiveKeySniff
               \/ Listening!SniffTimeout
      BY <2>3 DEF Listening!StartPassiveKeySniff, Listening!StopPassiveKeySniff,
                  Listening!SniffTimeout, Listening!SniffTimeoutLeaves,
                  Listening!LeaveUnlessScanning, Listening!Listen, Listening!Leave
    <2>4. CASE Listening!StartOneWayKeyReceive
      BY <2>4 DEF Listening!StartOneWayKeyReceive, Listening!Listen
    <2>5. ASSUME Listening!EndOneWay, UNCHANGED networkScan
          PROVE  Listening!PassiveMeansListening'
      BY <2>5 DEF Listening!EndOneWay, Listening!StopListening, Listening!Leave
    <2>6. CASE Listening!StopOneWayKeyReceive \/ Listening!OneWayTimeout
      BY <2>5, <2>6 DEF Listening!StopOneWayKeyReceive, Listening!OneWayTimeout
    <2>7. ASSUME NEW n \in Node,
                 \/ Listening!KeyInitTransfer(n) \/ Listening!ChallengeRequest(n)
                 \/ Listening!KeyTransfer(n)
          PROVE  Listening!PassiveMeansListening'
      BY <2>7 DEF Listening!KeyInitTransfer, Listening!ChallengeRequest, Listening!KeyTransfer,
                  Listening!Missed, Listening!Capture, Listening!Leave
    <2>8. ASSUME NEW mac, Listening!SendKey1W(mac)
          PROVE  Listening!PassiveMeansListening'
      <3>1. UNCHANGED networkScan
        BY <2>8 DEF Listening!SendKey1W
      <3>2. UNCHANGED Listening!passive \/ Listening!EndOneWay
        BY <2>8 DEF Listening!SendKey1W
      <3> QED BY <2>1, <2>5, <3>1, <3>2
    <2>9. CASE Listening!StartPairing \/ Listening!StartDiscovery
      BY <2>9 DEF Listening!StartPairing, Listening!AbortListening, Listening!StartDiscovery,
                  Listening!MayListen
    <2>10. CASE Listening!OwnExchange \/ Listening!BusyEnds
      BY <2>10 DEF Listening!OwnExchange, Listening!BusyEnds
    <2> QED BY <2>1, <2>2, <2>3, <2>4, <2>6, <2>7, <2>8, <2>9, <2>10
            DEF Listening!Next, Listening!Timeouts, Listening!Frames, Listening!vars,
                Listening!ClearPassiveKeyResult, Listening!StartKeyExtraction,
                Listening!StopKeyExtraction, Listening!ImportSameRemote
  <1> QED BY <1>1, <1>2, PTL DEF Listening!Spec

\* A timeout leaves the mode only where it was set, and then no one else has the controller.
THEOREM TimeoutsTakeNothing ==
    Listening!Spec => Listening!TimeoutsLeaveOthersAlone
  <1>1. ASSUME Listening!PassiveMeansListening, Listening!Timeouts, mState = "Busy"
        PROVE  mState' = "Busy"
    BY <1>1 DEF Listening!PassiveMeansListening, Listening!Timeouts, Listening!SniffTimeout,
                Listening!SniffTimeoutLeaves, Listening!OneWayTimeout, Listening!EndOneWay,
                Listening!LeaveUnlessScanning, Listening!passive
  <1>2. Listening!PassiveMeansListening
        => [Listening!Timeouts /\ mState = "Busy" => mState' = "Busy"]_(Listening!vars)
    BY <1>1
  <1> QED BY <1>2, MuteMeansListening, PTL DEF Listening!TimeoutsLeaveOthersAlone, Listening!Spec

\* A device encrypts its key under its last challenge, and the challenge a sniff holds is that
\* one, unless a later one went unheard; who does not sniff follows no device.
SniffsRight ==
    /\ device \in [Node -> [issued : Nat, key : Nat]]
    /\ \A n \in Node : device[n].key \in {0, device[n].issued}
    /\ pairNode \in Node \cup {NoNode}
    /\ sniff = "Listening" \/ pairNode = NoNode
    /\ pairNode # NoNode /\ nodeChallenge # 0 /\ pairNode \notin unheard
           => nodeChallenge = device[pairNode].issued
    /\ Listening!CapturedKeyIsRight

\* What hears no frame keeps what the sniff follows, or forgets it.
LEMMA SniffKept ==
    ASSUME SniffsRight, UNCHANGED <<device, unheard>>,
           UNCHANGED sniffed \/ sniffed' = Listening!NoResult,
           \/ pairNode' = NoNode
           \/ UNCHANGED <<pairNode, nodeChallenge>> /\ (sniff = "Listening" => sniff' = "Listening")
    PROVE  SniffsRight'
  BY DEF SniffsRight, Listening!CapturedKeyIsRight, Listening!NoResult

\* A device that challenges: who follows it holds the new challenge, or has not heard it.
LEMMA SniffChallenged ==
    ASSUME Listening!PassiveListenAssumption, SniffsRight, NEW n \in Node,
           Listening!ChallengeRequest(n)
    PROVE  SniffsRight'
  <1> DEFINE c == device[n].issued + 1
  <1>1. n # NoNode /\ device[n] \in [issued : Nat, key : Nat]
    BY DEF Listening!PassiveListenAssumption, SniffsRight
  <1>2. /\ device' = [device EXCEPT ![n] = [issued |-> c, key |-> c]]
        /\ UNCHANGED <<sniff, sniffed>>
    BY DEF Listening!ChallengeRequest, Listening!Missed, Listening!sniffing
  <1>3. \/ Listening!Sniffs /\ Listening!ChallengeOfPeer(n) /\ pairNode' = n /\ nodeChallenge' = c
        \/ /\ UNCHANGED <<pairNode, nodeChallenge>>
           /\ \/ unheard' = unheard \cup {n}
              \/ unheard' = unheard \ {n} /\ ~(Listening!Sniffs /\ Listening!ChallengeOfPeer(n))
                 /\ mState = "PassiveListening"
    BY DEF Listening!ChallengeRequest, Listening!Missed, Listening!sniffing, Listening!Heard,
           Listening!Sniffs
  <1>4. c \in Nat
    BY <1>1
  <1> HIDE DEF c
  <1>5. /\ device' \in [Node -> [issued : Nat, key : Nat]]
        /\ device'[n].issued = c /\ device'[n].key = c
        /\ \A m \in Node : m # n => device'[m] = device[m]
    BY <1>2, <1>4 DEF SniffsRight
  <1>6. \A m \in Node : device'[m].key \in {0, device'[m].issued}
    BY <1>5 DEF SniffsRight
  <1>7. Listening!CapturedKeyIsRight'
    BY <1>2 DEF SniffsRight, Listening!CapturedKeyIsRight
  <1>8. CASE Listening!Sniffs /\ pairNode' = n /\ nodeChallenge' = c
    BY <1>2, <1>5, <1>6, <1>7, <1>8 DEF SniffsRight, Listening!Sniffs
  <1>9. CASE UNCHANGED <<pairNode, nodeChallenge>> /\ unheard' = unheard \cup {n}
    BY <1>2, <1>5, <1>6, <1>7, <1>9 DEF SniffsRight
  <1>10. CASE /\ UNCHANGED <<pairNode, nodeChallenge>> /\ unheard' = unheard \ {n}
              /\ ~(Listening!Sniffs /\ Listening!ChallengeOfPeer(n)) /\ mState = "PassiveListening"
    <2>1. pairNode # n
      BY <1>1, <1>10 DEF SniffsRight, Listening!Sniffs, Listening!ChallengeOfPeer
    <2> QED BY <1>2, <1>5, <1>6, <1>7, <1>10, <2>1 DEF SniffsRight
  <1> QED BY <1>3, <1>8, <1>9, <1>10

\* A frame of another controller's pairing, heard or not, keeps the sniff in step with the
\* device.
LEMMA SniffHears ==
    ASSUME Listening!PassiveListenAssumption, SniffsRight, NEW n \in Node,
           \/ Listening!KeyInitTransfer(n) \/ Listening!ChallengeRequest(n)
           \/ Listening!KeyTransfer(n)
    PROVE  SniffsRight'
  <1>1. n # NoNode /\ device[n] \in [issued : Nat, key : Nat]
    BY DEF Listening!PassiveListenAssumption, SniffsRight
  <1>2. CASE Listening!KeyInitTransfer(n)
    <2>1. /\ device' = [device EXCEPT ![n].key = 0]
          /\ UNCHANGED <<sniff, sniffed, unheard>>
          /\ \/ Listening!Sniffs /\ pairNode' = n /\ nodeChallenge' = 0
             \/ UNCHANGED <<pairNode, nodeChallenge>>
      BY <1>2 DEF Listening!KeyInitTransfer, Listening!KeyInit, Listening!Missed,
                  Listening!sniffing
    <2>2. /\ device' \in [Node -> [issued : Nat, key : Nat]] /\ device'[n].key = 0
          /\ \A m \in Node : device'[m].issued = device[m].issued
          /\ \A m \in Node : m # n => device'[m] = device[m]
      BY <2>1 DEF SniffsRight
    <2>3. \A m \in Node : device'[m].key \in {0, device'[m].issued}
      BY <2>2 DEF SniffsRight
    <2>4. Listening!CapturedKeyIsRight'
      BY <2>1 DEF SniffsRight, Listening!CapturedKeyIsRight
    <2> QED BY <2>1, <2>2, <2>3, <2>4 DEF SniffsRight, Listening!Sniffs
  <1>3. CASE Listening!KeyTransfer(n)
    <2>1. device[n].key # 0 /\ UNCHANGED <<device, unheard>>
      BY <1>3 DEF Listening!KeyTransfer, Listening!outside
    <2>2. CASE /\ Listening!Sniffs /\ nodeChallenge # 0 /\ Listening!KeyOfPeer(n)
               /\ Listening!Capture(n)
      <3>1. pairNode = n /\ (n \notin unheard => nodeChallenge = device[n].key)
        BY <1>1, <2>1, <2>2 DEF SniffsRight, Listening!KeyOfPeer
      <3>2. /\ pairNode' = NoNode
            /\ sniffed' = [node |-> n, with |-> nodeChallenge, under |-> device[n].key,
                           late |-> n \in unheard]
        BY <2>2, <3>1 DEF Listening!Capture, Listening!Forget
      <3>3. Listening!CapturedKeyIsRight'
        <4>1. CASE n \in unheard
          <5>1. sniffed'.late
            BY <3>2, <4>1
          <5> QED BY <5>1 DEF Listening!CapturedKeyIsRight
        <4>2. CASE n \notin unheard
          <5>1. sniffed'.with = sniffed'.under
            BY <3>1, <3>2, <4>2
          <5> QED BY <5>1 DEF Listening!CapturedKeyIsRight
        <4> QED BY <4>1, <4>2
      <3> QED BY <2>1, <3>2, <3>3 DEF SniffsRight
    <2>3. CASE UNCHANGED <<sniff, pairNode, nodeChallenge, sniffed>>
      BY <2>1, <2>3, SniffKept
    <2> QED BY <1>3, <2>2, <2>3 DEF Listening!KeyTransfer, Listening!Missed, Listening!sniffing
  <1> QED BY <1>2, <1>3, SniffChallenged

\* A sniff reads each key with the challenge it was encrypted under, though pairings of
\* several devices overlap, the three users come and go and pairings of its own break in;
\* only where a challenge went unheard after the one it holds can it read a key wrong.
THEOREM SniffedKeyIsRight ==
    ASSUME Listening!PassiveListenAssumption
    PROVE  Listening!Spec => []Listening!CapturedKeyIsRight
  <1>1. Listening!Init => SniffsRight
    <2> SUFFICES ASSUME Listening!Init PROVE SniffsRight
      OBVIOUS
    <2>1. device = [n \in Node |-> [issued |-> 0, key |-> 0]] /\ pairNode = NoNode
      BY DEF Listening!Init
    <2>2. Listening!CapturedKeyIsRight
      BY DEF Listening!Init, Listening!CapturedKeyIsRight, Listening!NoResult
    <2> QED BY <2>1, <2>2 DEF SniffsRight
  <1>2. ASSUME SniffsRight, [Listening!Next]_(Listening!vars)
        PROVE  SniffsRight'
    <2> USE <1>2
    <2>1. CASE \E n \in Node : \/ Listening!KeyInitTransfer(n) \/ Listening!ChallengeRequest(n)
                               \/ Listening!KeyTransfer(n)
      BY <2>1, SniffHears
    <2>2. CASE Listening!StartPassiveKeySniff
      BY <2>2, SniffKept
         DEF Listening!StartPassiveKeySniff, Listening!Forget, Listening!outside
    <2>3. CASE Listening!ClearPassiveKeyResult
      <3>1. /\ UNCHANGED <<device, unheard, pairNode, nodeChallenge>>
            /\ sniffed' = Listening!NoResult /\ (sniff = "Listening" => sniff' = "Listening")
        BY <2>3 DEF Listening!ClearPassiveKeyResult, Listening!outside
      <3> QED BY <3>1, SniffKept
    <2>4. CASE Listening!StartNetworkScan \/ Listening!StopNetworkScan
      BY <2>4, SniffKept
         DEF Listening!StartNetworkScan, Listening!StopNetworkScan, Listening!StopListening,
             Listening!Forget, Listening!sniffing, Listening!outside
    <2>5. CASE Listening!StopPassiveKeySniff \/ Listening!SniffTimeout
      BY <2>5, SniffKept DEF Listening!StopPassiveKeySniff, Listening!SniffTimeout,
                             Listening!Forget, Listening!outside
    <2>6. CASE Listening!StartOneWayKeyReceive
      BY <2>6, SniffKept DEF Listening!StartOneWayKeyReceive, Listening!sniffing,
                             Listening!outside
    <2>7. ASSUME Listening!EndOneWay, UNCHANGED <<device, unheard>>
          PROVE  SniffsRight'
      BY <2>7, SniffKept DEF Listening!EndOneWay, Listening!StopListening, Listening!Forget,
                             Listening!sniffing
    <2>8. CASE \/ Listening!StopOneWayKeyReceive \/ Listening!OneWayTimeout
               \/ \E mac \in {"Absent", "Valid", "Invalid"} : Listening!SendKey1W(mac)
      <3>1. UNCHANGED <<device, unheard>>
        BY <2>8 DEF Listening!StopOneWayKeyReceive, Listening!OneWayTimeout,
                    Listening!SendKey1W, Listening!outside
      <3>2. Listening!EndOneWay \/ UNCHANGED <<sniff, pairNode, nodeChallenge, sniffed>>
        BY <2>8 DEF Listening!StopOneWayKeyReceive, Listening!OneWayTimeout,
                    Listening!SendKey1W, Listening!sniffing
      <3> QED BY <2>7, <3>1, <3>2, SniffKept
    <2>9. CASE Listening!StartDiscovery
      BY <2>9, SniffKept DEF Listening!StartDiscovery, Listening!Forget, Listening!outside
    <2>10. CASE Listening!StartPairing \/ Listening!OwnExchange \/ Listening!BusyEnds
      BY <2>10, SniffKept DEF Listening!StartPairing, Listening!OwnExchange,
                              Listening!BusyEnds, Listening!sniffing, Listening!outside
    <2>11. CASE \/ UNCHANGED Listening!vars \/ Listening!StartKeyExtraction
                \/ Listening!StopKeyExtraction \/ Listening!ImportSameRemote
      BY <2>11, SniffKept DEF Listening!vars, Listening!StartKeyExtraction,
                Listening!StopKeyExtraction, Listening!ImportSameRemote, Listening!sniffing,
                Listening!outside
    <2> QED BY <2>1, <2>2, <2>3, <2>4, <2>5, <2>6, <2>8, <2>9, <2>10, <2>11
            DEF Listening!Next, Listening!Timeouts, Listening!Frames
  <1>3. SniffsRight => Listening!CapturedKeyIsRight
    BY DEF SniffsRight
  <1> QED BY <1>1, <1>2, <1>3, PTL DEF Listening!Spec

\* The types of passive listening in groups: the three users, the devices that are counted,
\* the sniff, and the devices themselves with the calls.
ListenStates ==
    /\ mState \in {"Idle", "PassiveListening", "Busy"}
    /\ mPassiveMode \in BOOLEAN /\ networkScan \in BOOLEAN /\ oneWay \in BOOLEAN
    /\ shared \in BOOLEAN /\ extracting \in BOOLEAN
    /\ sniff \in {"Idle", "Listening", "Captured", "Timeout"}
    /\ oneWayStatus \in {"Idle", "Listening", "Captured", "CapturedTrailerMacVerified",
                         "TrailerMacInvalid", "SharedProfile", "Timeout"}
CountedNodes ==
    /\ tracked \subseteq Node /\ IsFiniteSet(tracked)
    /\ Cardinality(tracked) <= MaxScanBuffer
Numbers == 0 .. MaxChallenges
Results == [node : Node \union {NoNode}, with : Numbers, under : Numbers, late : BOOLEAN]
SniffTyped ==
    /\ pairNode \in Node \union {NoNode} /\ nodeChallenge \in Numbers
    /\ sniffed \in Results
    /\ device \in [Node -> [issued : Numbers, key : Numbers]] /\ unheard \subseteq Node
    /\ calls \in 0 .. MaxCalls
ListenTyped == ListenStates /\ CountedNodes /\ SniffTyped

\* The devices are counted as any set is.
LEMMA NodesCount ==
    ASSUME NEW S
    PROVE  Listening!Cardinality(S) = Cardinality(S)
  BY DEF Listening!Cardinality, Cardinality

\* The bounds are numbers.
LEMMA ListenBounds ==
    ASSUME Listening!PassiveListenAssumption
    PROVE  /\ MaxScanBuffer \in Nat /\ MaxChallenges \in Nat /\ MaxCalls \in Nat
           /\ 0 \in Numbers
  <1>1. MaxScanBuffer \in Nat /\ MaxChallenges \in Nat /\ MaxCalls \in Nat
    BY DEF Listening!PassiveListenAssumption
  <1> QED BY <1>1 DEF Numbers

\* Together the groups are the type invariant.
LEMMA ListenTypesFollow == ListenTyped => Listening!TypeOK
  <1> SUFFICES ASSUME ListenTyped PROVE Listening!TypeOK
    OBVIOUS
  <1>1. {mPassiveMode, networkScan, oneWay, shared, extracting} \subseteq BOOLEAN
    BY DEF ListenTyped, ListenStates
  <1>2. tracked \subseteq Node /\ Listening!Cardinality(tracked) <= MaxScanBuffer
    BY NodesCount DEF ListenTyped, CountedNodes
  <1>3. ListenStates /\ SniffTyped
    BY DEF ListenTyped
  <1> QED BY <1>1, <1>2, <1>3 DEF ListenStates, SniffTyped, Numbers, Results, Listening!TypeOK

\* A device is counted once, and only while there is room.
LEMMA CountedKept ==
    ASSUME Listening!PassiveListenAssumption, CountedNodes,
           UNCHANGED tracked \/ \E n \in Node : Listening!Recorded(n)
    PROVE  CountedNodes'
  <1>1. CASE UNCHANGED tracked
    BY <1>1 DEF CountedNodes
  <1>2. CASE \E n \in Node : Listening!Recorded(n)
    <2>1. PICK n \in Node : Listening!Recorded(n)
      BY <1>2
    <2>2. tracked' = tracked \/ (tracked' = tracked \cup {n} /\ ~(Cardinality(tracked) >= MaxScanBuffer))
      BY <2>1, NodesCount DEF Listening!Recorded
    <2>3. CASE tracked' = tracked \cup {n} /\ ~(Cardinality(tracked) >= MaxScanBuffer)
      <3>1. /\ IsFiniteSet(tracked) /\ Cardinality(tracked) \in Nat
            /\ MaxScanBuffer \in Nat
        BY FS_CardinalityType, ListenBounds DEF CountedNodes
      <3>2. /\ IsFiniteSet(tracked \cup {n})
            /\ Cardinality(tracked \cup {n}) \in {Cardinality(tracked), Cardinality(tracked) + 1}
        BY <3>1, FS_AddElement
      <3>3. Cardinality(tracked \cup {n}) <= MaxScanBuffer
        BY <2>3, <3>1, <3>2 DEF CountedNodes
      <3> QED BY <2>3, <3>2, <3>3 DEF CountedNodes
    <2> QED BY <1>1, <2>2, <2>3
  <1> QED BY <1>1, <1>2

\* A call is counted within its bound.
LEMMA CallCounted ==
    ASSUME Listening!PassiveListenAssumption, calls \in 0 .. MaxCalls, Listening!Call
    PROVE  calls' \in 0 .. MaxCalls
  BY ListenBounds DEF Listening!Call

\* Every step keeps the states of the users and their status.
LEMMA ListenStatesKept ==
    ASSUME ListenStates, Listening!Next
    PROVE  ListenStates'
  <1> USE DEF ListenStates, Listening!passive, Listening!sniffing, Listening!cloning,
              Listening!outside
  <1>1. CASE Listening!StartNetworkScan \/ Listening!StopNetworkScan
    BY <1>1 DEF Listening!StartNetworkScan, Listening!StopNetworkScan, Listening!Listen,
                Listening!StopListening, Listening!Leave
  <1>2. CASE Listening!StartPassiveKeySniff \/ Listening!StopPassiveKeySniff
             \/ Listening!ClearPassiveKeyResult
    <2>1. CASE Listening!StartPassiveKeySniff
      BY <2>1 DEF Listening!StartPassiveKeySniff, Listening!Listen
    <2>2. CASE Listening!StopPassiveKeySniff
      BY <2>2 DEF Listening!StopPassiveKeySniff, Listening!LeaveUnlessScanning, Listening!Leave
    <2>3. CASE Listening!ClearPassiveKeyResult
      BY <2>3 DEF Listening!ClearPassiveKeyResult
    <2> QED BY <1>2, <2>1, <2>2, <2>3
  <1>3. CASE Listening!StartOneWayKeyReceive
    BY <1>3 DEF Listening!StartOneWayKeyReceive, Listening!Listen
  <1>4. CASE Listening!SniffTimeout
    BY <1>4 DEF Listening!SniffTimeout, Listening!SniffTimeoutLeaves,
                Listening!LeaveUnlessScanning, Listening!Leave
  <1>5. ASSUME Listening!EndOneWay, UNCHANGED <<networkScan, shared, extracting>>,
               oneWayStatus' \in {oneWayStatus, "Idle", "Timeout", "Captured",
                                  "CapturedTrailerMacVerified"}
        PROVE  ListenStates'
    BY <1>5 DEF Listening!EndOneWay, Listening!StopListening, Listening!Leave
  <1>6. CASE Listening!StopOneWayKeyReceive \/ Listening!OneWayTimeout
    BY <1>5, <1>6 DEF Listening!StopOneWayKeyReceive, Listening!OneWayTimeout
  <1>7. ASSUME NEW n \in Node,
               \/ Listening!KeyInitTransfer(n) \/ Listening!ChallengeRequest(n)
               \/ Listening!KeyTransfer(n)
        PROVE  ListenStates'
    <2>1. UNCHANGED <<networkScan, oneWay, oneWayStatus, shared, extracting>>
      BY <1>7 DEF Listening!KeyInitTransfer, Listening!ChallengeRequest, Listening!KeyTransfer
    <2>2. \/ UNCHANGED <<mState, mPassiveMode, sniff>>
          \/ Listening!Capture(n)
      BY <1>7 DEF Listening!KeyInitTransfer, Listening!ChallengeRequest, Listening!KeyTransfer,
                  Listening!Missed
    <2>3. CASE Listening!Capture(n)
      BY <2>1, <2>3 DEF Listening!Capture, Listening!Leave
    <2>4. CASE UNCHANGED <<mState, mPassiveMode, sniff>>
      BY <2>1, <2>4
    <2> QED BY <2>2, <2>3, <2>4
  <1>8. ASSUME NEW mac \in {"Absent", "Valid", "Invalid"}, Listening!SendKey1W(mac)
        PROVE  ListenStates'
    <2>1. CASE Listening!EndOneWay
      BY <1>5, <1>8, <2>1 DEF Listening!SendKey1W
    <2>2. CASE ~Listening!EndOneWay
      BY <1>8, <2>2 DEF Listening!SendKey1W
    <2> QED BY <2>1, <2>2
  <1>9. CASE Listening!StartPairing \/ Listening!StartDiscovery
    BY <1>9 DEF Listening!StartPairing, Listening!AbortListening, Listening!StartDiscovery
  <1>10. CASE Listening!OwnExchange \/ Listening!BusyEnds
    BY <1>10 DEF Listening!OwnExchange, Listening!BusyEnds
  <1>11. CASE Listening!StartKeyExtraction \/ Listening!StopKeyExtraction
              \/ Listening!ImportSameRemote
    <2>1. CASE Listening!StartKeyExtraction
      BY <2>1 DEF Listening!StartKeyExtraction
    <2>2. CASE Listening!StopKeyExtraction
      BY <2>2 DEF Listening!StopKeyExtraction
    <2>3. CASE Listening!ImportSameRemote
      BY <2>3 DEF Listening!ImportSameRemote
    <2> QED BY <1>11, <2>1, <2>2, <2>3
  <1> QED BY <1>1, <1>2, <1>3, <1>4, <1>6, <1>7, <1>8, <1>9, <1>10, <1>11
          DEF Listening!Next, Listening!Timeouts, Listening!Frames

\* Every step counts only devices, and no more than the table holds.
LEMMA CountedStep ==
    ASSUME Listening!PassiveListenAssumption, CountedNodes, Listening!Next
    PROVE  CountedNodes'
  <1>1. ASSUME NEW n \in Node,
               \/ Listening!KeyInitTransfer(n) \/ Listening!ChallengeRequest(n)
               \/ Listening!KeyTransfer(n)
        PROVE  CountedNodes'
    <2>1. UNCHANGED tracked \/ Listening!Recorded(n)
      BY <1>1 DEF Listening!KeyInitTransfer, Listening!ChallengeRequest, Listening!KeyTransfer,
                  Listening!Missed, Listening!Overheard
    <2> QED BY <2>1, CountedKept
  <1>2. CASE UNCHANGED tracked
    BY <1>2, CountedKept
  <1> QED BY <1>1, <1>2
          DEF Listening!Next, Listening!Timeouts, Listening!Frames, Listening!StartNetworkScan,
              Listening!StopNetworkScan, Listening!StartPassiveKeySniff,
              Listening!StopPassiveKeySniff, Listening!ClearPassiveKeyResult,
              Listening!StartOneWayKeyReceive, Listening!StopOneWayKeyReceive,
              Listening!SniffTimeout, Listening!OneWayTimeout, Listening!SendKey1W,
              Listening!StartPairing, Listening!StartDiscovery, Listening!OwnExchange,
              Listening!BusyEnds, Listening!StartKeyExtraction, Listening!StopKeyExtraction,
              Listening!ImportSameRemote

\* Every step keeps the sniff, the devices and the calls within their bounds.
LEMMA SniffTypedStep ==
    ASSUME Listening!PassiveListenAssumption, SniffTyped, Listening!Next
    PROVE  SniffTyped'
  <1> USE DEF Listening!sniffing, Listening!outside
  <1>1. /\ pairNode \in Node \union {NoNode} /\ nodeChallenge \in Numbers
        /\ sniffed \in Results
        /\ device \in [Node -> [issued : Numbers, key : Numbers]] /\ unheard \subseteq Node
        /\ calls \in 0 .. MaxCalls
    BY DEF SniffTyped
  <1>2. 0 \in Numbers /\ Listening!NoResult \in Results
    BY ListenBounds DEF Listening!NoResult, Results
  <1>3. ASSUME \/ UNCHANGED <<pairNode, nodeChallenge>>
               \/ Listening!Forget,
               sniffed' \in {sniffed, Listening!NoResult}, UNCHANGED <<device, unheard>>,
               UNCHANGED calls \/ Listening!Call
        PROVE  SniffTyped'
    BY <1>1, <1>2, <1>3, CallCounted DEF Listening!Forget, SniffTyped
  <1>4. CASE Listening!StartNetworkScan \/ Listening!StopNetworkScan
             \/ Listening!StartPassiveKeySniff \/ Listening!StopPassiveKeySniff
             \/ Listening!ClearPassiveKeyResult
    BY <1>3, <1>4 DEF Listening!StartNetworkScan, Listening!StopNetworkScan,
       Listening!StartPassiveKeySniff, Listening!StopPassiveKeySniff,
       Listening!ClearPassiveKeyResult, Listening!StopListening
  <1>5. CASE Listening!StartOneWayKeyReceive \/ Listening!StopOneWayKeyReceive
             \/ Listening!SniffTimeout \/ Listening!OneWayTimeout
    BY <1>3, <1>5 DEF Listening!StartOneWayKeyReceive, Listening!StopOneWayKeyReceive,
       Listening!SniffTimeout, Listening!OneWayTimeout, Listening!EndOneWay,
       Listening!StopListening
  <1>6. ASSUME NEW mac \in {"Absent", "Valid", "Invalid"}, Listening!SendKey1W(mac)
        PROVE  SniffTyped'
    BY <1>3, <1>6 DEF Listening!SendKey1W, Listening!EndOneWay, Listening!StopListening
  <1>7. CASE Listening!StartPairing \/ Listening!StartDiscovery \/ Listening!OwnExchange
             \/ Listening!BusyEnds
    BY <1>3, <1>7 DEF Listening!StartPairing, Listening!StartDiscovery, Listening!OwnExchange,
       Listening!BusyEnds
  <1>8. CASE Listening!StartKeyExtraction \/ Listening!StopKeyExtraction
             \/ Listening!ImportSameRemote
    BY <1>3, <1>8 DEF Listening!StartKeyExtraction, Listening!StopKeyExtraction,
       Listening!ImportSameRemote
  <1>9. ASSUME NEW n \in Node, Listening!KeyInitTransfer(n)
        PROVE  SniffTyped'
    <2>1. /\ device' = [device EXCEPT ![n].key = 0] /\ UNCHANGED <<sniffed, unheard, calls>>
          /\ \/ UNCHANGED <<pairNode, nodeChallenge>>
             \/ pairNode' = n /\ nodeChallenge' = 0
      BY <1>9 DEF Listening!KeyInitTransfer, Listening!Missed, Listening!KeyInit
    <2>2. device' \in [Node -> [issued : Numbers, key : Numbers]]
      BY <1>1, <1>2, <2>1
    <2> QED BY <1>1, <1>2, <2>1, <2>2 DEF SniffTyped
  <1>10. ASSUME NEW n \in Node, Listening!ChallengeRequest(n)
         PROVE  SniffTyped'
    <2> DEFINE c == device[n].issued + 1
    <2>1. /\ c <= MaxChallenges
          /\ device' = [device EXCEPT ![n] = [issued |-> c, key |-> c]]
          /\ UNCHANGED <<sniffed, calls>> /\ unheard' \subseteq Node
          /\ \/ UNCHANGED <<pairNode, nodeChallenge>>
             \/ pairNode' = n /\ nodeChallenge' = c
      BY <1>1, <1>10 DEF Listening!ChallengeRequest, Listening!Missed, Listening!Heard
    <2>2. c \in Numbers
      <3>1. device[n].issued \in Numbers
        BY <1>1
      <3> QED BY <2>1, <3>1, ListenBounds DEF Numbers
    <2> HIDE DEF c
    <2>3. device' \in [Node -> [issued : Numbers, key : Numbers]]
      BY <1>1, <2>1, <2>2
    <2> QED BY <1>1, <2>1, <2>2, <2>3 DEF SniffTyped
  <1>11. ASSUME NEW n \in Node, Listening!KeyTransfer(n)
         PROVE  SniffTyped'
    <2>1. UNCHANGED <<device, unheard, calls>>
      BY <1>11 DEF Listening!KeyTransfer
    <2>2. CASE Listening!Capture(n)
      <3>1. /\ sniffed' = [node |-> pairNode, with |-> nodeChallenge, under |-> device[n].key,
                           late |-> n \in unheard]
            /\ pairNode' = NoNode /\ nodeChallenge' = 0
        BY <2>2 DEF Listening!Capture, Listening!Forget
      <3>2. device[n].key \in Numbers
        BY <1>1
      <3>3. sniffed' \in Results
        <4>1. (n \in unheard) \in BOOLEAN
          OBVIOUS
        <4> QED BY Zenon, <1>1, <3>1, <3>2, <4>1 DEF Results
      <3> QED BY <1>1, <1>2, <2>1, <3>1, <3>3 DEF SniffTyped
    <2>3. CASE ~Listening!Capture(n)
      <3>1. UNCHANGED <<pairNode, nodeChallenge, sniffed>>
        BY <1>11, <2>3 DEF Listening!KeyTransfer, Listening!Missed
      <3> QED BY <1>1, <2>1, <3>1 DEF SniffTyped
    <2> QED BY <2>2, <2>3
  <1> QED BY <1>4, <1>5, <1>6, <1>7, <1>8, <1>9, <1>10, <1>11
          DEF Listening!Next, Listening!Timeouts, Listening!Frames

\* However the three users of passive listening overlap and whatever is heard or missed, the
\* devices that are counted fit their table, and the sniff names a device and its challenge.
THEOREM ListenTypes ==
    ASSUME Listening!PassiveListenAssumption
    PROVE  Listening!Spec => []Listening!TypeOK
  <1>1. Listening!Init => ListenTyped
    <2> SUFFICES ASSUME Listening!Init PROVE ListenTyped
      OBVIOUS
    <2>1. ListenStates
      BY DEF Listening!Init, ListenStates
    <2>2. CountedNodes
      BY ListenBounds, FS_EmptySet DEF Listening!Init, CountedNodes
    <2>3. [issued |-> 0, key |-> 0] \in [issued : Numbers, key : Numbers]
      BY ListenBounds
    <2>4. device \in [Node -> [issued : Numbers, key : Numbers]]
      BY <2>3 DEF Listening!Init
    <2>5. sniffed \in Results
      BY ListenBounds DEF Listening!Init, Listening!NoResult, Results
    <2>6. SniffTyped
      BY <2>4, <2>5, ListenBounds DEF Listening!Init, SniffTyped
    <2> QED BY <2>1, <2>2, <2>6 DEF ListenTyped
  <1>2. ASSUME ListenTyped, [Listening!Next]_(Listening!vars)
        PROVE  ListenTyped'
    <2>1. CASE UNCHANGED Listening!vars
      BY <1>2, <2>1 DEF Listening!vars, Listening!passive, Listening!sniffing,
         Listening!cloning, Listening!outside, ListenTyped, ListenStates, CountedNodes, SniffTyped
    <2>2. CASE Listening!Next
      BY <1>2, <2>2, ListenStatesKept, CountedStep, SniffTypedStep DEF ListenTyped
    <2> QED BY <1>2, <2>1, <2>2
  <1> QED BY <1>1, <1>2, ListenTypesFollow, PTL DEF Listening!Spec

-----------------------------------------------------------------------------
(* Gateway mode *)

\* A session that waits for a challenge belongs to a device the key went out to.
SessionSound ==
    /\ gatewayState \in {"GatewayIdle", "GatewayWaitDiscoveryResponse",
                         "GatewayWaitKeyTransfer", "GatewayWaitChallenge"}
    /\ gatewayRx # Serving!NoFrame => gatewayRx.src \in Joiner
    /\ sentKey \subseteq Joiner
    /\ Serving!WaitsForWhomItServed

\* With a sound driver only the session that waits for a challenge remembers one.
ListedSound ==
    /\ paired \in Seq(Joiner)
    /\ memory # NoDevice => gatewayState = "GatewayWaitChallenge"
    /\ Serving!PairedWasSentKey

\* Every step keeps a session with the device it serves.
LEMMA SessionStep ==
    ASSUME Serving!GatewayAssumption, SessionSound, [Serving!Next]_(Serving!vars)
    PROVE  SessionSound'
  <1> USE DEF Serving!Answers, Serving!Refused, Serving!session
  <1>1. ASSUME UNCHANGED <<gatewayState, peer, memory, sentKey>>,
               gatewayRx' # Serving!NoFrame => gatewayRx'.src \in Joiner
        PROVE  SessionSound'
    BY <1>1 DEF SessionSound, Serving!WaitsForWhomItServed
  <1>2. CASE Serving!TakeFrame
    <2>1. gatewayRx' = Serving!NoFrame /\ gatewayRx.src \in Joiner /\ gatewayRx # Serving!NoFrame
      BY <1>2 DEF Serving!TakeFrame, SessionSound
    <2>2. CASE Serving!Dispatched \/ Serving!Info
      BY <1>1, <2>1, <2>2 DEF Serving!Dispatched, Serving!Info
    <2>3. CASE Serving!DiscoverAnew
      BY <2>1, <2>3 DEF Serving!DiscoverAnew, Serving!Discover, SessionSound,
                        Serving!WaitsForWhomItServed
    <2>4. CASE Serving!FromPeer /\ Serving!Expected /\ Serving!Confirm
      <3>1. gatewayState # "GatewayWaitChallenge"
        BY <2>4 DEF Serving!Expected, Serving!Confirm
      <3> QED BY <2>1, <2>4, <3>1 DEF Serving!Confirm, SessionSound,
                                      Serving!WaitsForWhomItServed
    <2>5. CASE Serving!FromPeer /\ Serving!Expected /\ Serving!Launch
      <3>1. gatewayState # "GatewayWaitChallenge"
        BY <2>5 DEF Serving!Expected, Serving!Launch
      <3> QED BY <2>1, <2>5, <3>1 DEF Serving!Launch, SessionSound,
                                      Serving!WaitsForWhomItServed
    <2>6. CASE Serving!FromPeer /\ Serving!Expected /\ Serving!AnswerChallenge
      <3>1. NoDevice \notin Joiner
        BY DEF Serving!GatewayAssumption
      <3> QED BY <2>1, <2>6, <3>1 DEF Serving!FromPeer, Serving!AnswerChallenge, Serving!Reset,
                                      SessionSound, Serving!WaitsForWhomItServed
    <2> QED BY <1>2, <2>2, <2>3, <2>4, <2>5, <2>6 DEF Serving!TakeFrame, Serving!GatewayFrame
  <1>3. CASE Serving!DeviceSends
    <2>1. gatewayRx'.src \in Joiner
      BY <1>3 DEF Serving!DeviceSends, Serving!Frame
    <2> QED BY <1>1, <1>3, <2>1 DEF Serving!DeviceSends
  <1>4. CASE Serving!SetGatewayMode \/ Serving!ClearGatewayPairedDevices
    BY <1>4 DEF Serving!SetGatewayMode, Serving!ClearGatewayPairedDevices, Serving!Reset,
                SessionSound, Serving!WaitsForWhomItServed
  <1>5. CASE Serving!TxDone \/ Serving!OwnExchange \/ UNCHANGED Serving!vars
    BY <1>1, <1>5 DEF Serving!TxDone, Serving!OwnExchange, Serving!vars, SessionSound
  <1> QED BY <1>2, <1>3, <1>4, <1>5 DEF Serving!Next

\* Whatever is refused, lost or sent by others, the challenge a session waits for is that of
\* the device the key was encrypted for, and the key has gone out to it.
THEOREM WaitsForTheServed ==
    ASSUME Serving!GatewayAssumption
    PROVE  Serving!Spec => []Serving!WaitsForWhomItServed
  <1>1. Serving!Init => SessionSound
    BY DEF Serving!Init, SessionSound, Serving!WaitsForWhomItServed
  <1>2. SessionSound /\ [Serving!Next]_(Serving!vars) => SessionSound'
    BY SessionStep
  <1>3. SessionSound => Serving!WaitsForWhomItServed
    BY DEF SessionSound
  <1> QED BY <1>1, <1>2, <1>3, PTL DEF Serving!Spec

\* What is listed is what was, or the device that challenged as well.
LEMMA ListedAdds ==
    ASSUME paired \in Seq(Joiner), NEW d \in Joiner
    PROVE  /\ Serving!Listed(d) \in Seq(Joiner)
           /\ Serving!ToSet(Serving!Listed(d)) \subseteq Serving!ToSet(paired) \cup {d}
  BY DEF Serving!Listed, Serving!ToSet

\* With a driver that refuses nothing a device is listed as paired only after the key went
\* out to it, however many devices break into each other's sessions.
THEOREM ListedWasServed ==
    ASSUME Serving!GatewayAssumption, ~AnswersFail
    PROVE  Serving!Spec => []Serving!PairedWasSentKey
  <1>1. Serving!Init => SessionSound /\ ListedSound
    BY DEF Serving!Init, SessionSound, ListedSound, Serving!WaitsForWhomItServed,
           Serving!PairedWasSentKey, Serving!ToSet
  <1>2. ASSUME SessionSound, ListedSound, [Serving!Next]_(Serving!vars)
        PROVE  ListedSound'
    <2> USE <1>2 DEF Serving!Answers, Serving!Refused, Serving!session
    <2>1. ASSUME UNCHANGED <<paired>>, sentKey \subseteq sentKey',
                 memory' # NoDevice => gatewayState' = "GatewayWaitChallenge"
          PROVE  ListedSound'
      BY <2>1 DEF ListedSound, Serving!PairedWasSentKey
    <2>2. ASSUME UNCHANGED <<gatewayState, memory, paired, sentKey>>
          PROVE  ListedSound'
      BY <2>1, <2>2 DEF ListedSound
    <2>3. CASE Serving!TakeFrame
      <3>1. gatewayRx # Serving!NoFrame /\ gatewayRx.src \in Joiner
        BY <2>3 DEF Serving!TakeFrame, SessionSound
      <3>2. CASE Serving!Dispatched \/ Serving!Info
        BY <2>2, <3>2 DEF Serving!Dispatched, Serving!Info
      <3>3. CASE Serving!DiscoverAnew
        <4>1. memory' = NoDevice
          BY <3>3 DEF Serving!DiscoverAnew, Serving!Discover, ListedSound
        <4> QED BY <2>1, <3>3, <4>1 DEF Serving!DiscoverAnew, Serving!Discover
      <3>4. CASE Serving!FromPeer /\ Serving!Expected /\ Serving!Confirm
        <4>1. gatewayState # "GatewayWaitChallenge"
          BY <3>4 DEF Serving!Expected, Serving!Confirm
        <4> QED BY <2>1, <3>4, <4>1 DEF Serving!Confirm, ListedSound
      <3>5. CASE Serving!FromPeer /\ Serving!Expected /\ Serving!Launch
        BY <2>1, <3>5 DEF Serving!Launch
      <3>6. CASE Serving!FromPeer /\ Serving!Expected /\ Serving!AnswerChallenge
        <4>1. gatewayState = "GatewayWaitChallenge"
          BY <3>6 DEF Serving!Expected, Serving!AnswerChallenge, Serving!Remembers, ListedSound,
                      SessionSound
        <4>2. gatewayRx.src \in sentKey
          <5>1. NoDevice \notin Joiner
            BY DEF Serving!GatewayAssumption
          <5> QED BY <3>6, <4>1, <5>1 DEF Serving!FromPeer, SessionSound,
                                          Serving!WaitsForWhomItServed
        <4>3. /\ paired' = Serving!Listed(gatewayRx.src) /\ memory' = NoDevice
              /\ UNCHANGED sentKey
          BY <3>6 DEF Serving!AnswerChallenge, Serving!Reset
        <4>4. /\ paired' \in Seq(Joiner)
              /\ Serving!ToSet(paired') \subseteq Serving!ToSet(paired) \cup {gatewayRx.src}
          BY <3>1, <4>3, ListedAdds DEF ListedSound
        <4> QED BY <4>2, <4>3, <4>4 DEF ListedSound, Serving!PairedWasSentKey
      <3> QED BY <2>3, <3>2, <3>3, <3>4, <3>5, <3>6 DEF Serving!TakeFrame, Serving!GatewayFrame
    <2>4. CASE Serving!SetGatewayMode
      BY <2>1, <2>4 DEF Serving!SetGatewayMode, Serving!Reset
    <2>5. CASE Serving!ClearGatewayPairedDevices
      BY <2>5 DEF Serving!ClearGatewayPairedDevices, Serving!Reset, ListedSound,
                  Serving!PairedWasSentKey, Serving!ToSet
    <2> QED BY <2>2, <2>3, <2>4, <2>5 DEF Serving!Next, Serving!vars, Serving!DeviceSends,
                Serving!TxDone, Serving!OwnExchange
  <1>3. SessionSound /\ [Serving!Next]_(Serving!vars) => SessionSound'
    BY SessionStep
  <1>4. ListedSound => Serving!PairedWasSentKey
    BY DEF ListedSound
  <1> QED BY <1>1, <1>2, <1>3, <1>4, PTL DEF Serving!Spec

\* A table that has room for a device it does not list, lists it once.
LEMMA ListedOnce ==
    ASSUME paired \in Seq(Joiner), Serving!IsInjective(paired), Len(paired) <= MaxPaired,
           MaxPaired \in Nat, NEW d \in Joiner
    PROVE  LET q == Serving!Listed(d)
           IN  q \in Seq(Joiner) /\ Serving!IsInjective(q) /\ Len(q) <= MaxPaired
  <1>1. CASE d \in Serving!ToSet(paired) \/ Len(paired) >= MaxPaired
    BY <1>1 DEF Serving!Listed
  <1>2. CASE d \notin Serving!ToSet(paired) /\ ~(Len(paired) >= MaxPaired)
    <2> DEFINE q == Append(paired, d)
    <2>1. Serving!Listed(d) = q
      BY <1>2 DEF Serving!Listed
    <2>2. /\ q \in Seq(Joiner) /\ Len(q) = Len(paired) + 1 /\ Len(q) <= MaxPaired
          /\ DOMAIN q = 1 .. Len(paired) + 1 /\ DOMAIN paired = 1 .. Len(paired)
          /\ Len(paired) \in Nat
      BY <1>2
    <2>3. /\ q[Len(paired) + 1] = d
          /\ \A i \in 1 .. Len(paired) : q[i] = paired[i] /\ paired[i] # d
      BY <1>2 DEF Serving!ToSet
    <2>4. Serving!IsInjective(q)
      <3> HIDE DEF q
      <3> SUFFICES ASSUME NEW i \in DOMAIN q, NEW j \in DOMAIN q, q[i] = q[j] PROVE i = j
        BY DEF Serving!IsInjective
      <3>1. CASE i \in 1 .. Len(paired) /\ j \in 1 .. Len(paired)
        BY <2>2, <2>3, <3>1 DEF Serving!IsInjective
      <3>2. CASE i = Len(paired) + 1 \/ j = Len(paired) + 1
        BY <2>2, <2>3, <3>2
      <3> QED BY <2>2, <3>1, <3>2
    <2> QED BY <2>1, <2>2, <2>4
  <1> QED BY <1>1, <1>2

\* Every step keeps the types of the gateway.
LEMMA GatewayTypeStep ==
    ASSUME Serving!GatewayAssumption, SessionSound, Serving!TypeOK, [Serving!Next]_(Serving!vars)
    PROVE  Serving!TypeOK'
  <1> USE DEF Serving!session
  <1> DEFINE SessionTyped ==
                 /\ gatewayState \in {"GatewayIdle", "GatewayWaitDiscoveryResponse",
                                      "GatewayWaitKeyTransfer", "GatewayWaitChallenge"}
                 /\ {peer, memory} \subseteq Joiner \union {NoDevice}
             ListTyped ==
                 paired \in Seq(Joiner) /\ Len(paired) <= MaxPaired /\ Serving!IsInjective(paired)
  <1>1. SessionTyped /\ ListTyped
    BY DEF Serving!TypeOK
  <1>2. UNCHANGED <<gatewayState, peer, memory>> => SessionTyped'
    BY <1>1
  <1>3. UNCHANGED paired => ListTyped'
    BY <1>1
  <1> HIDE DEF ListTyped
  <1>4. MaxPaired \in Nat
    BY DEF Serving!GatewayAssumption
  <1>5. ASSUME Serving!Reset PROVE SessionTyped'
    BY <1>5 DEF Serving!Reset
  <1>6. ASSUME SessionTyped', ListTyped', mState' \in {"Idle", "Busy"},
               {gatewayMode', transmitting'} \subseteq BOOLEAN, sentKey' \subseteq Joiner
        PROVE  Serving!TypeOK'
    BY <1>6 DEF Serving!TypeOK, ListTyped
  <1>7. /\ mState \in {"Idle", "Busy"} /\ {gatewayMode, transmitting} \subseteq BOOLEAN
        /\ sentKey \subseteq Joiner
    BY DEF Serving!TypeOK
  <1> HIDE DEF SessionTyped
  <1>8. CASE Serving!TakeFrame
    <2>1. gatewayRx.src \in Joiner /\ UNCHANGED <<mState, gatewayMode>>
      BY <1>8 DEF Serving!TakeFrame, SessionSound
    <2>2. ASSUME Serving!Answers \/ Serving!Refused PROVE transmitting' \in BOOLEAN
      BY <1>7, <2>2 DEF Serving!Answers, Serving!Refused
    <2>3. CASE Serving!Dispatched \/ Serving!Info
      BY <1>2, <1>3, <1>6, <1>7, <2>1, <2>2, <2>3 DEF Serving!Dispatched, Serving!Info
    <2>4. CASE Serving!DiscoverAnew
      <3>1. SessionTyped'
        BY <1>1, <2>1, <2>4 DEF Serving!DiscoverAnew, Serving!Discover, SessionTyped
      <3> QED BY <1>3, <1>6, <1>7, <2>1, <2>2, <2>4, <3>1
              DEF Serving!DiscoverAnew, Serving!Discover
    <2>5. CASE Serving!Confirm
      <3>1. SessionTyped'
        BY <1>1, <2>1, <2>5 DEF Serving!Confirm, SessionTyped
      <3> QED BY <1>3, <1>6, <1>7, <2>1, <2>2, <2>5, <3>1 DEF Serving!Confirm
    <2>6. CASE Serving!Launch
      <3>1. SessionTyped'
        BY <1>1, <2>1, <2>6 DEF Serving!Launch, SessionTyped
      <3>2. sentKey' \subseteq Joiner
        BY <1>7, <2>1, <2>6 DEF Serving!Launch
      <3> QED BY <1>3, <1>6, <1>7, <2>1, <2>2, <2>6, <3>1, <3>2 DEF Serving!Launch
    <2>7. CASE Serving!AnswerChallenge
      <3>1. SessionTyped'
        BY <1>1, <1>5, <2>1, <2>7 DEF Serving!AnswerChallenge, SessionTyped
      <3>2. ListTyped'
        BY <1>1, <1>3, <1>4, <2>1, <2>7, ListedOnce DEF Serving!AnswerChallenge, ListTyped
      <3> QED BY <1>6, <1>7, <2>1, <2>2, <2>7, <3>1, <3>2 DEF Serving!AnswerChallenge
    <2> QED BY <1>8, <2>3, <2>4, <2>5, <2>6, <2>7 DEF Serving!TakeFrame, Serving!GatewayFrame
  <1>9. CASE Serving!SetGatewayMode
    BY <1>3, <1>5, <1>6, <1>7, <1>9 DEF Serving!SetGatewayMode
  <1>10. CASE Serving!ClearGatewayPairedDevices
    <2>1. paired' = <<>>
      BY <1>10 DEF Serving!ClearGatewayPairedDevices
    <2>2. ListTyped'
      BY <1>4, <2>1 DEF ListTyped, Serving!IsInjective
    <2> QED BY <1>5, <1>6, <1>7, <1>10, <2>2 DEF Serving!ClearGatewayPairedDevices
  <1>11. CASE Serving!DeviceSends \/ Serving!TxDone \/ UNCHANGED Serving!vars
    BY <1>2, <1>3, <1>6, <1>7, <1>11 DEF Serving!DeviceSends, Serving!TxDone, Serving!vars
  <1>12. CASE Serving!OwnExchange
    BY <1>2, <1>3, <1>6, <1>7, <1>12 DEF Serving!OwnExchange
  <1> QED BY <1>8, <1>9, <1>10, <1>11, <1>12 DEF Serving!Next

\* Whatever devices send in whatever order, the table of paired devices lists none twice and
\* never outgrows its size, and a session stays in its states (recordGatewayPairedDevice).
THEOREM GatewayTypes ==
    ASSUME Serving!GatewayAssumption
    PROVE  Serving!Spec => []Serving!TypeOK
  <1>1. Serving!Init => SessionSound /\ Serving!TypeOK
    <2> SUFFICES ASSUME Serving!Init PROVE SessionSound /\ Serving!TypeOK
      OBVIOUS
    <2>1. SessionSound
      BY DEF Serving!Init, SessionSound, Serving!WaitsForWhomItServed
    <2>2. paired = <<>> /\ MaxPaired \in Nat
      BY DEF Serving!Init, Serving!GatewayAssumption
    <2>3. paired \in Seq(Joiner) /\ Len(paired) <= MaxPaired /\ Serving!IsInjective(paired)
      BY <2>2 DEF Serving!IsInjective
    <2> QED BY <2>1, <2>3 DEF Serving!Init, Serving!TypeOK
  <1>2. SessionSound /\ Serving!TypeOK /\ [Serving!Next]_(Serving!vars)
        => SessionSound' /\ Serving!TypeOK'
    BY SessionStep, GatewayTypeStep
  <1> QED BY <1>1, <1>2, PTL DEF Serving!Spec

-----------------------------------------------------------------------------
(* Discovery *)

\* The frequency whose turn has the channel c, and the frames sent on each.
Turn(c) == IF spe THEN Sweeps!SpeOrder(c) ELSE c
Shapes == IF Sweeps!ClassicAndAlt THEN BOOLEAN ELSE {FALSE}

\* The requests of the sweeps, and those whose time has come.
Wanted == Sweeps!Frequency \X (0 .. Sweeps!SweepCount - 1) \X Shapes
Due(c, s, b) ==
    \/ s < sweep
    \/ /\ s = sweep
       /\ \/ Turn(c) < freqIndex
          \/ Turn(c) = freqIndex /\ (Sweeps!Listening \/ (alt /\ ~b))

\* A discovery in course has made every request whose time has come, and none unwanted.
AskedSoFar ==
    /\ {alt, spe, complete} \subseteq BOOLEAN /\ sweep \in Nat
    /\ Sweeps!Active(mState) =>
          /\ freqIndex \in Sweeps!Frequency /\ sweep < Sweeps!SweepCount
          /\ alt => Sweeps!Sending /\ Sweeps!ClassicAndAlt
          /\ sent \subseteq Wanted
          /\ \A c \in Sweeps!Frequency, s \in 0 .. Sweeps!SweepCount - 1, b \in Shapes :
                 Due(c, s, b) => <<c, s, b>> \in sent
    /\ complete => ~Sweeps!Active(mState) /\ Sweeps!EveryChannelAsked

\* The channels are taken in an order that leaves none out.
LEMMA EachHasItsTurn ==
    ASSUME Sweeps!DiscoveryAssumption, spe \in BOOLEAN, NEW c \in Sweeps!Frequency
    PROVE  /\ Turn(c) \in Sweeps!Frequency /\ Turn(Turn(c)) = c
           /\ freqIndex = c => Sweeps!TxChannel = Turn(c)
  BY DEF Sweeps!DiscoveryAssumption, Sweeps!Frequency, Turn, Sweeps!SpeOrder, Sweeps!TxChannel

\* There is at least one sweep.
LEMMA SweepCounts ==
    ASSUME Sweeps!DiscoveryAssumption
    PROVE  Sweeps!SweepCount \in Nat \ {0}
  BY DEF Sweeps!DiscoveryAssumption, Sweeps!SweepCount

\* What is wanted is settled when the discovery starts.
LEMMA PlanKept ==
    ASSUME UNCHANGED spe
    PROVE  /\ Sweeps!SweepCount' = Sweeps!SweepCount
           /\ Sweeps!ClassicAndAlt' <=> Sweeps!ClassicAndAlt
           /\ Shapes' = Shapes /\ Wanted' = Wanted
           /\ \A c : Turn(c)' = Turn(c)
  <1>1. Sweeps!SweepCount' = Sweeps!SweepCount /\ \A c : Turn(c)' = Turn(c)
    BY DEF Sweeps!SweepCount, Turn, Sweeps!SpeOrder
  <1>2. Sweeps!ClassicAndAlt' <=> Sweeps!ClassicAndAlt
    BY DEF Sweeps!ClassicAndAlt
  <1>3. Shapes' = Shapes
    BY <1>2 DEF Shapes
  <1> QED BY <1>1, <1>2, <1>3 DEF Wanted, Sweeps!Frequency

\* What the discovery does not look at changes nothing.
LEMMA AskedKept ==
    ASSUME AskedSoFar, UNCHANGED <<freqIndex, sweep, spe, sent>>,
           \/ UNCHANGED <<mState, alt, complete>>
           \/ /\ ~Sweeps!Active(mState') /\ alt' \in BOOLEAN
              /\ complete' = FALSE \/ UNCHANGED complete
    PROVE  AskedSoFar'
  <1> USE PlanKept
  <1>1. ASSUME complete' = complete, Sweeps!EveryChannelAsked
        PROVE  Sweeps!EveryChannelAsked'
    BY <1>1 DEF Sweeps!EveryChannelAsked, Sweeps!Frequency
  <1>2. CASE UNCHANGED <<mState, alt, complete>>
    <2>1. ASSUME NEW c, NEW s, NEW b, Due(c, s, b)'
          PROVE  Due(c, s, b)
      BY <1>2, <2>1 DEF Due, Sweeps!Listening
    <2>2. /\ Sweeps!Active(mState') <=> Sweeps!Active(mState)
          /\ Sweeps!Sending' <=> Sweeps!Sending
      BY <1>2 DEF Sweeps!Active, Sweeps!Sending
    <2>3. {alt', spe', complete'} \subseteq BOOLEAN /\ sweep' \in Nat
      BY <1>2 DEF AskedSoFar
    <2>4. complete' => ~Sweeps!Active(mState') /\ Sweeps!EveryChannelAsked'
      BY <1>1, <1>2, <2>2 DEF AskedSoFar
    <2>5. Sweeps!Active(mState')
          => /\ freqIndex' \in Sweeps!Frequency /\ sweep' < Sweeps!SweepCount'
             /\ alt' => Sweeps!Sending' /\ Sweeps!ClassicAndAlt'
             /\ sent' \subseteq Wanted'
      BY <1>2, <2>2 DEF AskedSoFar
    <2>6. Sweeps!Active(mState')
          => \A c \in Sweeps!Frequency, s \in 0 .. Sweeps!SweepCount' - 1, b \in Shapes' :
                 Due(c, s, b)' => <<c, s, b>> \in sent'
      BY <1>2, <2>1, <2>2 DEF AskedSoFar
    <2> QED BY <2>3, <2>4, <2>5, <2>6 DEF AskedSoFar, Sweeps!Frequency
  <1>3. CASE ~Sweeps!Active(mState') /\ alt' \in BOOLEAN
             /\ (complete' = FALSE \/ UNCHANGED complete)
    <2>1. {alt', spe', complete'} \subseteq BOOLEAN /\ sweep' \in Nat
      BY <1>3 DEF AskedSoFar
    <2>2. complete' => Sweeps!EveryChannelAsked'
      BY <1>1, <1>3 DEF AskedSoFar
    <2> QED BY <1>3, <2>1, <2>2 DEF AskedSoFar
  <1> QED BY <1>2, <1>3

\* A discovery starts with nothing asked and nothing due.
LEMMA AskedStart ==
    ASSUME Sweeps!DiscoveryAssumption, AskedSoFar, NEW e \in BOOLEAN, Sweeps!Begin(e)
    PROVE  AskedSoFar'
  <1>1. /\ freqIndex' = 0 /\ sweep' = 0 /\ spe' = e /\ alt' = FALSE /\ sent' = {}
        /\ mState' = "DiscoverySending" /\ complete' = FALSE
    BY DEF Sweeps!Begin
  <1>2. 0 < Sweeps!SweepCount' /\ 0 \in Sweeps!Frequency
    BY <1>1 DEF Sweeps!DiscoveryAssumption, Sweeps!SweepCount, Sweeps!Frequency
  <1>3. ASSUME NEW c \in Sweeps!Frequency, NEW s \in 0 .. Sweeps!SweepCount' - 1, NEW b
        PROVE  ~Due(c, s, b)'
    BY <1>1, <1>2 DEF Due, Turn, Sweeps!SpeOrder, Sweeps!Frequency, Sweeps!Listening,
                Sweeps!DiscoveryAssumption
  <1> QED BY <1>1, <1>2, <1>3 DEF AskedSoFar, Sweeps!Sending

\* A transmission makes the one request whose time comes with it (processDiscovery).
LEMMA AskedSend ==
    ASSUME Sweeps!DiscoveryAssumption, AskedSoFar, Sweeps!StartTransmit
    PROVE  AskedSoFar'
  <1>1. /\ Sweeps!Sending /\ UNCHANGED <<freqIndex, sweep, spe, complete>>
        /\ sent' = sent \cup {<<Sweeps!TxChannel, sweep, alt>>}
        /\ IF Sweeps!ClassicAndAlt /\ ~alt
           THEN alt' = TRUE /\ mState' = mState
           ELSE alt' = FALSE /\ mState' = "DiscoveryListening"
    BY DEF Sweeps!StartTransmit, Sweeps!AfterTransmit
  <1>2. /\ Sweeps!Active(mState) /\ freqIndex \in Sweeps!Frequency /\ sweep \in Nat
        /\ {alt, spe, complete} \subseteq BOOLEAN /\ ~complete
        /\ sweep < Sweeps!SweepCount
        /\ alt => Sweeps!ClassicAndAlt
    BY <1>1 DEF AskedSoFar, Sweeps!Sending, Sweeps!Active
  <1>3. /\ Sweeps!SweepCount' = Sweeps!SweepCount /\ Shapes' = Shapes /\ Wanted' = Wanted
        /\ Sweeps!ClassicAndAlt' <=> Sweeps!ClassicAndAlt
    BY <1>1, PlanKept
  <1>4. <<Sweeps!TxChannel, sweep, alt>> \in Wanted /\ Sweeps!TxChannel = Turn(freqIndex)
    <2>1. Sweeps!TxChannel \in Sweeps!Frequency /\ Sweeps!TxChannel = Turn(freqIndex)
      BY <1>2, EachHasItsTurn
    <2>2. sweep \in 0 .. Sweeps!SweepCount - 1
      BY <1>2, SweepCounts
    <2>3. alt \in Shapes
      BY <1>2 DEF Shapes
    <2> QED BY <2>1, <2>2, <2>3 DEF Wanted
  <1>5. sent' \subseteq Wanted
    BY <1>1, <1>2, <1>4 DEF AskedSoFar
  <1>6. ASSUME NEW c \in Sweeps!Frequency, NEW s \in 0 .. Sweeps!SweepCount - 1,
               NEW b \in Shapes, Due(c, s, b)'
        PROVE  <<c, s, b>> \in sent'
    <2>1. Due(c, s, b) \/ (s = sweep /\ Turn(c) = freqIndex /\ b = alt)
      <3>1. Turn(c)' = Turn(c) /\ b \in BOOLEAN
        BY <1>1, PlanKept DEF Shapes
      <3>2. \/ s < sweep \/ (s = sweep /\ Turn(c) < freqIndex)
            \/ s = sweep /\ Turn(c) = freqIndex /\ (Sweeps!Listening' \/ (alt' /\ ~b))
        BY <1>1, <1>6, <3>1 DEF Due
      <3>3. Sweeps!Listening' => ~(Sweeps!ClassicAndAlt /\ ~alt)
        BY <1>1 DEF Sweeps!Listening, Sweeps!Sending
      <3>4. ASSUME Sweeps!Listening' \/ (alt' /\ ~b), b # alt
            PROVE  alt /\ ~b
        <4>1. CASE Sweeps!ClassicAndAlt /\ ~alt
          BY <1>1, <1>2, <3>1, <3>3, <3>4, <4>1
        <4>2. CASE alt
          BY <1>2, <3>1, <3>4, <4>2
        <4>3. CASE ~Sweeps!ClassicAndAlt
          BY <1>2, <1>6, <3>4, <4>3 DEF Shapes
        <4> QED BY <4>1, <4>2, <4>3
      <3> QED BY <3>2, <3>4 DEF Due
    <2>2. CASE Due(c, s, b)
      BY <1>1, <1>2, <2>2 DEF AskedSoFar
    <2>3. CASE s = sweep /\ Turn(c) = freqIndex /\ b = alt
      BY <1>1, <1>2, <1>4, <2>3, EachHasItsTurn
    <2> QED BY <2>1, <2>2, <2>3
  <1>7. Sweeps!Active(mState') /\ (alt' => Sweeps!Sending' /\ Sweeps!ClassicAndAlt)
    BY <1>1 DEF Sweeps!Active, Sweeps!Sending
  <1>8. {alt', spe', complete'} \subseteq BOOLEAN /\ ~complete'
    BY <1>1, <1>2
  <1> QED BY <1>1, <1>2, <1>3, <1>5, <1>6, <1>7, <1>8 DEF AskedSoFar

\* The next frequency, the next sweep or the end: what is due then was asked.
LEMMA AskedNext ==
    ASSUME Sweeps!DiscoveryAssumption, AskedSoFar, Sweeps!WindowOver
    PROVE  AskedSoFar'
  <1>1. Sweeps!Listening /\ Sweeps!Active(mState) /\ UNCHANGED <<alt, spe, sent>>
    BY DEF Sweeps!WindowOver, Sweeps!Listening, Sweeps!Active
  <1>2. /\ freqIndex \in 0 .. 2 /\ sweep \in Nat /\ sweep < Sweeps!SweepCount
        /\ alt = FALSE /\ {alt, spe, complete} \subseteq BOOLEAN /\ complete = FALSE
        /\ Sweeps!Frequency = 0 .. 2 /\ Sweeps!SweepCount \in Nat
    BY <1>1, SweepCounts DEF AskedSoFar, Sweeps!Listening, Sweeps!Sending,
           Sweeps!DiscoveryAssumption, Sweeps!Frequency
  <1>3. /\ Sweeps!SweepCount' = Sweeps!SweepCount /\ Shapes' = Shapes /\ Wanted' = Wanted
        /\ Sweeps!ClassicAndAlt' <=> Sweeps!ClassicAndAlt
    BY <1>1, PlanKept
  <1>4. /\ sent \subseteq Wanted
        /\ \A c \in Sweeps!Frequency, s \in 0 .. Sweeps!SweepCount - 1, b \in Shapes :
               s < sweep \/ (s = sweep /\ Turn(c) <= freqIndex) => <<c, s, b>> \in sent
    <2>1. ASSUME NEW c \in Sweeps!Frequency, NEW s, NEW b,
                 s < sweep \/ (s = sweep /\ Turn(c) <= freqIndex)
          PROVE  Due(c, s, b)
      <3>1. Turn(c) \in 0 .. 2
        BY <1>2, EachHasItsTurn
      <3>2. Turn(c) <= freqIndex => Turn(c) < freqIndex \/ Turn(c) = freqIndex
        BY <1>2, <3>1
      <3>3. s < sweep \/ (s = sweep /\ (Turn(c) < freqIndex \/ Turn(c) = freqIndex))
        BY <2>1, <3>2
      <3> QED BY <1>1, <3>3 DEF Due
    <2> QED BY <1>1, <2>1 DEF AskedSoFar
  <1>5. CASE /\ freqIndex + 1 < NumFrequencies \/ sweep + 1 < Sweeps!SweepCount
             /\ \/ freqIndex' = freqIndex + 1 /\ sweep' = sweep /\ freqIndex + 1 < NumFrequencies
                \/ freqIndex' = 0 /\ sweep' = sweep + 1 /\ freqIndex + 1 = NumFrequencies
                   /\ sweep + 1 < Sweeps!SweepCount
             /\ mState' = "DiscoverySending" /\ UNCHANGED complete
    <2>1. ASSUME NEW c \in Sweeps!Frequency, NEW s \in 0 .. Sweeps!SweepCount - 1,
                 NEW b \in Shapes, Due(c, s, b)'
          PROVE  <<c, s, b>> \in sent
      <3>1. Turn(c) \in 0 .. 2 /\ UNCHANGED Turn(c)
        BY <1>1, <1>2, EachHasItsTurn DEF Turn, Sweeps!SpeOrder
      <3>2. s < sweep' \/ (s = sweep' /\ Turn(c) < freqIndex')
        <4>1. ~Sweeps!Listening' /\ alt' = FALSE
          BY <1>1, <1>2, <1>5 DEF Sweeps!Listening
        <4> QED BY <2>1, <3>1, <4>1 DEF Due
      <3>3. s < sweep \/ (s = sweep /\ Turn(c) <= freqIndex)
        BY <1>2, <1>5, <3>1, <3>2 DEF Sweeps!DiscoveryAssumption
      <3> QED BY <1>4, <3>3
    <2>2. /\ sweep' \in Nat /\ freqIndex' \in Sweeps!Frequency /\ sweep' < Sweeps!SweepCount
      BY <1>2, <1>5 DEF Sweeps!DiscoveryAssumption
    <2> QED BY <1>1, <1>2, <1>3, <1>4, <1>5, <2>1, <2>2 DEF AskedSoFar
  <1>6. CASE /\ freqIndex + 1 = NumFrequencies /\ sweep + 1 >= Sweeps!SweepCount
             /\ mState' = "Idle" /\ complete' = TRUE /\ UNCHANGED sweep
    <2>1. ASSUME NEW c \in Sweeps!Frequency, NEW s \in 0 .. Sweeps!SweepCount - 1, NEW b \in Shapes
          PROVE  <<c, s, b>> \in sent
      <3>1. Turn(c) \in 0 .. 2
        BY <1>2, EachHasItsTurn
      <3> QED BY <1>2, <1>4, <1>6, <3>1 DEF Sweeps!DiscoveryAssumption
    <2>2. sent = Wanted
      BY <1>4, <2>1 DEF Wanted
    <2>3. Sweeps!EveryChannelAsked'
      BY <1>1, <1>3, <2>2 DEF Sweeps!EveryChannelAsked, Wanted, Shapes
    <2> QED BY <1>1, <1>2, <1>6, <2>3 DEF AskedSoFar, Sweeps!Active
  <1> QED BY <1>5, <1>6 DEF Sweeps!WindowOver, Sweeps!NextSweep

\* Every step of the discovery asks what is due.
LEMMA AskedStep ==
    ASSUME Sweeps!DiscoveryAssumption, AskedSoFar, Sweeps!Next
    PROVE  AskedSoFar'
  <1>1. CASE \E e \in BOOLEAN : Sweeps!StartDiscovery(e)
    BY <1>1, AskedStart, AskedKept DEF Sweeps!StartDiscovery, Sweeps!plan
  <1>2. CASE Sweeps!StartTransmit
    BY <1>2, AskedSend
  <1>3. CASE Sweeps!WindowOver
    BY <1>3, AskedNext
  <1>4. CASE Sweeps!SendFails
    BY <1>4, AskedKept DEF Sweeps!SendFails, Sweeps!ToIdle, Sweeps!Active, AskedSoFar
  <1>5. CASE Sweeps!Interrupt
    BY <1>5 DEF Sweeps!Interrupt, Sweeps!Active, AskedSoFar
  <1>6. CASE Sweeps!OtherEnds
    BY <1>6, AskedKept DEF Sweeps!OtherEnds, Sweeps!Active, Sweeps!plan, AskedSoFar
  <1>7. CASE \/ Sweeps!SetFrequency \/ Sweeps!SetPreamble \/ Sweeps!Receive \/ Sweeps!IdlePass
             \/ Sweeps!FrameArrives \/ Sweeps!Hop \/ Sweeps!PacketSent \/ Sweeps!Tick
    BY <1>7, AskedKept DEF Sweeps!SetFrequency, Sweeps!SetPreamble, Sweeps!Receive,
           Sweeps!IdlePass, Sweeps!FrameArrives, Sweeps!Hop, Sweeps!PacketSent, Sweeps!Tick,
           Sweeps!plan
  <1> QED BY <1>1, <1>2, <1>3, <1>4, <1>5, <1>6, <1>7
          DEF Sweeps!Next, Sweeps!Handler, Sweeps!Environment

\* The types of a discovery in groups: its flags, those of the group object, its states, and
\* where it is.
SweepFlags == /\ alt \in BOOLEAN /\ spe \in BOOLEAN /\ packetSent \in BOOLEAN
              /\ arriving \in BOOLEAN /\ complete \in BOOLEAN
SweepShown == ko \in BOOLEAN /\ koLast \in BOOLEAN /\ asked \in BOOLEAN
SweepStates == /\ mState \in {"Idle", "DiscoverySending", "DiscoveryListening", "Other"}
               /\ sendPhase \in {"SetFrequency", "SetPreamble", "StartTransmit"}
               /\ radio \in {"Idle", "Receiving", "Transmitting"}
               /\ listened \in {"Open", "Extended", "Over"}
SweepPlaces == /\ freqIndex \in 0 .. 3 /\ sweep \in 0 .. MaxSweeps /\ channel \in 0 .. 2
               /\ sent \subseteq (0 .. 2) \X (0 .. MaxSweeps) \X BOOLEAN
               /\ Sweeps!Active(mState) => freqIndex \in 0 .. 2
SweepTyped == SweepFlags /\ SweepShown /\ SweepStates /\ SweepPlaces

\* There are three frequencies.
LEMMA ThreeFrequencies ==
    ASSUME Sweeps!DiscoveryAssumption
    PROVE  /\ Sweeps!Frequency = 0 .. 2 /\ NumFrequencies = 3 /\ MaxSweeps \in Nat \ {0}
           /\ SX1262 \in BOOLEAN
  BY DEF Sweeps!DiscoveryAssumption, Sweeps!Frequency

\* Together they are the type invariant.
LEMMA SweepTypesFollow ==
    ASSUME Sweeps!DiscoveryAssumption, AskedSoFar, SweepTyped
    PROVE  Sweeps!TypeOK
  <1>1. {alt, spe, packetSent, arriving, ko, koLast, asked, complete} \subseteq BOOLEAN
    BY DEF SweepTyped, SweepFlags, SweepShown
  <1>2. Sweeps!Active(mState) => freqIndex \in Sweeps!Frequency /\ sweep < Sweeps!SweepCount
    BY DEF AskedSoFar
  <1>3. /\ freqIndex \in 0 .. NumFrequencies /\ channel \in Sweeps!Frequency
        /\ sweep \in 0 .. MaxSweeps
        /\ sent \subseteq Sweeps!Frequency \X (0 .. MaxSweeps) \X BOOLEAN
    BY ThreeFrequencies DEF SweepTyped, SweepPlaces
  <1>4. SweepStates
    BY DEF SweepTyped
  <1> QED BY <1>1, <1>2, <1>3, <1>4 DEF SweepStates, Sweeps!TypeOK

\* Every step keeps the flags.
LEMMA SweepFlagsKept ==
    ASSUME SweepFlags, Sweeps!Next
    PROVE  SweepFlags'
  <1> USE DEF SweepFlags, Sweeps!plan, Sweeps!window
  <1>1. CASE \/ Sweeps!SetFrequency \/ Sweeps!SetPreamble \/ Sweeps!Receive \/ Sweeps!IdlePass
             \/ Sweeps!Tick \/ Sweeps!Hop \/ Sweeps!OtherEnds
    BY <1>1 DEF Sweeps!SetFrequency, Sweeps!SetPreamble, Sweeps!Receive, Sweeps!IdlePass,
       Sweeps!Tick, Sweeps!Hop, Sweeps!OtherEnds
  <1>2. CASE Sweeps!StartTransmit
    BY <1>2 DEF Sweeps!StartTransmit, Sweeps!AfterTransmit
  <1>3. CASE Sweeps!SendFails
    BY <1>3 DEF Sweeps!SendFails, Sweeps!ToIdle
  <1>4. CASE Sweeps!WindowOver
    BY <1>4 DEF Sweeps!WindowOver
  <1>5. CASE Sweeps!FrameArrives \/ Sweeps!PacketSent
    BY <1>5 DEF Sweeps!FrameArrives, Sweeps!PacketSent
  <1>6. CASE Sweeps!Interrupt
    BY <1>6 DEF Sweeps!Interrupt
  <1>7. CASE \E encrypted \in BOOLEAN : Sweeps!StartDiscovery(encrypted)
    BY <1>7 DEF Sweeps!StartDiscovery, Sweeps!Begin
  <1> QED BY <1>1, <1>2, <1>3, <1>4, <1>5, <1>6, <1>7
          DEF Sweeps!Next, Sweeps!Handler, Sweeps!Environment

\* Every step keeps those of the group object.
LEMMA SweepShownKept ==
    ASSUME SweepShown, Sweeps!Next
    PROVE  SweepShown'
  <1> USE DEF SweepShown, Sweeps!knx
  <1>1. Sweeps!Feedback => SweepShown'
    <2>1. Sweeps!Active(mState') \in BOOLEAN
      BY DEF Sweeps!Active
    <2> QED BY <2>1 DEF Sweeps!Feedback
  <1>2. CASE Sweeps!Tick \/ Sweeps!FrameArrives \/ Sweeps!PacketSent
    BY <1>2 DEF Sweeps!Tick, Sweeps!FrameArrives, Sweeps!PacketSent
  <1>3. CASE \E encrypted \in BOOLEAN : Sweeps!StartDiscovery(encrypted)
    BY <1>3 DEF Sweeps!StartDiscovery
  <1>4. CASE Sweeps!Feedback
    BY <1>1, <1>4
  <1> QED BY <1>2, <1>3, <1>4
          DEF Sweeps!Next, Sweeps!Handler, Sweeps!Environment, Sweeps!SetFrequency,
              Sweeps!SetPreamble, Sweeps!StartTransmit, Sweeps!Receive, Sweeps!WindowOver,
              Sweeps!IdlePass, Sweeps!OtherEnds, Sweeps!Interrupt, Sweeps!Hop, Sweeps!SendFails

\* Every step keeps the states.
LEMMA SweepStatesKept ==
    ASSUME SweepStates, Sweeps!Next
    PROVE  SweepStates'
  <1> USE DEF SweepStates, Sweeps!plan, Sweeps!window
  <1>1. CASE \/ Sweeps!SetFrequency \/ Sweeps!SetPreamble \/ Sweeps!Receive \/ Sweeps!IdlePass
             \/ Sweeps!Hop \/ Sweeps!OtherEnds
    BY <1>1 DEF Sweeps!SetFrequency, Sweeps!SetPreamble, Sweeps!Receive, Sweeps!IdlePass,
       Sweeps!Hop, Sweeps!OtherEnds
  <1>2. CASE Sweeps!StartTransmit
    BY <1>2 DEF Sweeps!StartTransmit, Sweeps!AfterTransmit
  <1>3. CASE Sweeps!SendFails
    BY <1>3 DEF Sweeps!SendFails, Sweeps!ToIdle
  <1>4. CASE Sweeps!WindowOver
    BY <1>4 DEF Sweeps!WindowOver
  <1>5. CASE Sweeps!FrameArrives \/ Sweeps!PacketSent \/ Sweeps!Tick
    BY <1>5 DEF Sweeps!FrameArrives, Sweeps!PacketSent, Sweeps!Tick
  <1>6. CASE Sweeps!Interrupt
    BY <1>6 DEF Sweeps!Interrupt
  <1>7. CASE \E encrypted \in BOOLEAN : Sweeps!StartDiscovery(encrypted)
    BY <1>7 DEF Sweeps!StartDiscovery, Sweeps!Begin
  <1> QED BY <1>1, <1>2, <1>3, <1>4, <1>5, <1>6, <1>7
          DEF Sweeps!Next, Sweeps!Handler, Sweeps!Environment

\* Every step keeps to the frequencies and the sweeps.
LEMMA SweepPlacesKept ==
    ASSUME Sweeps!DiscoveryAssumption, AskedSoFar', SweepFlags, SweepPlaces, Sweeps!Next
    PROVE  SweepPlaces'
  <1> USE DEF Sweeps!plan
  <1>1. /\ freqIndex \in 0 .. 3 /\ sweep \in 0 .. MaxSweeps /\ channel \in 0 .. 2
        /\ sent \subseteq (0 .. 2) \X (0 .. MaxSweeps) \X BOOLEAN
    BY DEF SweepPlaces
  <1>2. ASSUME freqIndex' \in 0 .. 3, sweep' \in 0 .. MaxSweeps, channel' \in 0 .. 2,
               sent' \subseteq (0 .. 2) \X (0 .. MaxSweeps) \X BOOLEAN
        PROVE  SweepPlaces'
    <2>1. Sweeps!Active(mState') => freqIndex' \in 0 .. 2
      BY ThreeFrequencies DEF AskedSoFar, Sweeps!Frequency
    <2> QED BY <1>2, <2>1 DEF SweepPlaces
  <1>3. Sweeps!Sending => Sweeps!TxChannel \in 0 .. 2
    BY ThreeFrequencies
       DEF SweepPlaces, Sweeps!Sending, Sweeps!Active, Sweeps!TxChannel, Sweeps!SpeOrder
  <1>4. CASE Sweeps!SetFrequency
    BY <1>1, <1>2, <1>3, <1>4 DEF Sweeps!SetFrequency
  <1>5. CASE \/ Sweeps!SetPreamble \/ Sweeps!Receive \/ Sweeps!IdlePass \/ Sweeps!PacketSent
             \/ Sweeps!Tick \/ Sweeps!FrameArrives \/ Sweeps!OtherEnds \/ Sweeps!Interrupt
             \/ Sweeps!SendFails
    <2>1. UNCHANGED <<freqIndex, sweep, channel, sent>>
      BY <1>5 DEF Sweeps!SetPreamble, Sweeps!Receive, Sweeps!IdlePass, Sweeps!PacketSent,
         Sweeps!Tick, Sweeps!FrameArrives, Sweeps!OtherEnds, Sweeps!Interrupt, Sweeps!SendFails
    <2> QED BY <1>1, <1>2, <2>1
  <1>6. CASE Sweeps!StartTransmit
    <2>1. /\ UNCHANGED <<freqIndex, sweep>> /\ channel' = Sweeps!TxChannel /\ Sweeps!Sending
          /\ sent' = sent \cup {<<Sweeps!TxChannel, sweep, alt>>}
      BY <1>6 DEF Sweeps!StartTransmit
    <2>2. alt \in BOOLEAN
      BY DEF SweepFlags
    <2>3. <<Sweeps!TxChannel, sweep, alt>> \in (0 .. 2) \X (0 .. MaxSweeps) \X BOOLEAN
      BY <1>1, <1>3, <2>1, <2>2
    <2> QED BY <1>1, <1>2, <1>3, <2>1, <2>3
  <1>7. CASE Sweeps!WindowOver
    <2>1. UNCHANGED <<channel, sent>>
      BY <1>7 DEF Sweeps!WindowOver
    <2>2. freqIndex' \in 0 .. 3
      BY <1>1, <1>7, ThreeFrequencies DEF Sweeps!WindowOver, Sweeps!NextSweep
    <2>3. sweep' \in 0 .. MaxSweeps
      <3>1. CASE UNCHANGED sweep
        BY <1>1, <3>1
      <3>2. CASE sweep + 1 < Sweeps!SweepCount /\ Sweeps!NextSweep
        <4>1. sweep' = sweep + 1 /\ sweep \in Nat /\ MaxSweeps \in Nat \ {0}
          BY <1>1, <3>2, ThreeFrequencies DEF Sweeps!NextSweep
        <4>2. Sweeps!SweepCount \in {2, MaxSweeps}
          BY DEF Sweeps!SweepCount
        <4>3. CASE Sweeps!SweepCount = 2
          BY <3>2, <4>1, <4>3
        <4>4. CASE Sweeps!SweepCount = MaxSweeps
          BY <3>2, <4>1, <4>4
        <4> QED BY <4>2, <4>3, <4>4
      <3> QED BY <1>7, <3>1, <3>2 DEF Sweeps!WindowOver
    <2> QED BY <1>1, <1>2, <2>1, <2>2, <2>3
  <1>8. CASE Sweeps!Hop
    <2>1. UNCHANGED <<freqIndex, sweep, sent>>
      BY <1>8 DEF Sweeps!Hop
    <2>2. channel' \in 0 .. 2
      <3>1. \A c \in 0 .. 2 : (c + 1) % 3 \in 0 .. 2
        OBVIOUS
      <3> QED BY <1>1, <1>8, <3>1, ThreeFrequencies DEF Sweeps!Hop, Sweeps!NextChannel
    <2> QED BY <1>1, <1>2, <2>1, <2>2
  <1>9. CASE \E encrypted \in BOOLEAN : Sweeps!StartDiscovery(encrypted)
    <2>1. UNCHANGED <<freqIndex, sweep, sent>> \/ (freqIndex' = 0 /\ sweep' = 0 /\ sent' = {})
      BY <1>9 DEF Sweeps!StartDiscovery, Sweeps!Begin
    <2>2. UNCHANGED channel
      BY <1>9 DEF Sweeps!StartDiscovery
    <2>3. MaxSweeps \in Nat
      BY ThreeFrequencies
    <2> QED BY <1>1, <1>2, <2>1, <2>2, <2>3
  <1> QED BY <1>4, <1>5, <1>6, <1>7, <1>8, <1>9
          DEF Sweeps!Next, Sweeps!Handler, Sweeps!Environment

\* Every discovery keeps the account of what it has sent.
LEMMA SweepsAsk ==
    ASSUME Sweeps!DiscoveryAssumption
    PROVE  Sweeps!Spec => [](AskedSoFar /\ SweepTyped)
  <1>1. Sweeps!Init => AskedSoFar /\ SweepTyped
    <2> SUFFICES ASSUME Sweeps!Init PROVE AskedSoFar /\ SweepTyped
      OBVIOUS
    <2>1. AskedSoFar
      BY DEF Sweeps!Init, AskedSoFar, Sweeps!Active
    <2>2. MaxSweeps \in Nat
      BY ThreeFrequencies
    <2>3. SweepPlaces
      BY <2>2 DEF Sweeps!Init, SweepPlaces
    <2> QED BY <2>1, <2>3
            DEF Sweeps!Init, SweepTyped, SweepFlags, SweepShown, SweepStates
  <1>2. ASSUME AskedSoFar, SweepTyped, [Sweeps!Next]_(Sweeps!vars)
        PROVE  AskedSoFar' /\ SweepTyped'
    <2>1. CASE UNCHANGED Sweeps!vars
      <3>1. AskedSoFar'
        BY <1>2, <2>1, AskedKept DEF Sweeps!vars, Sweeps!plan
      <3>2. SweepTyped'
        BY <1>2, <2>1 DEF Sweeps!vars, Sweeps!plan, Sweeps!window, Sweeps!knx, Sweeps!Active,
           SweepTyped, SweepFlags, SweepShown, SweepStates, SweepPlaces
      <3> QED BY <3>1, <3>2
    <2>2. CASE Sweeps!Next
      <3>1. AskedSoFar'
        BY <1>2, <2>2, AskedStep
      <3> QED BY <1>2, <2>2, <3>1, SweepFlagsKept, SweepShownKept, SweepStatesKept,
                 SweepPlacesKept DEF SweepTyped
    <2> QED BY <1>2, <2>1, <2>2
  <1> QED BY <1>1, <1>2, PTL DEF Sweeps!Spec

\* With either driver and however often it is asked for, refused or interrupted, a discovery
\* stays on its frequencies and within its sweeps, and sends on no others.
THEOREM SweepTypes ==
    ASSUME Sweeps!DiscoveryAssumption
    PROVE  Sweeps!Spec => []Sweeps!TypeOK
  <1>1. AskedSoFar /\ SweepTyped => Sweeps!TypeOK
    BY SweepTypesFollow
  <1> QED BY <1>1, SweepsAsk, PTL

-----------------------------------------------------------------------------
(* The command scan *)

\* The bits are those of the places gone through, and the answer to the one in course.
ScannedSoFar ==
    /\ scanIndex \in Nat /\ bitmask \subseteq Scan!Place
    /\ mState \in {"ScanSending", "ScanWaitResponse"} => scanIndex < Scan!Count
    /\ mState = "ScanSending" => bitmask = 0 .. scanIndex - 1
    /\ mState = "ScanWaitResponse" => bitmask \in {0 .. scanIndex - 1, 0 .. scanIndex}
    /\ Scan!FoundCountsBits /\ Scan!StoredIsWholeScan

\* The scan's sets are finite and counted as any are.
LEMMA ScanCounts ==
    ASSUME NEW S
    PROVE  Scan!Cardinality(S) = Cardinality(S) /\ (Scan!IsFiniteSet(S) <=> IsFiniteSet(S))
  BY DEF Scan!Cardinality, Scan!IsFiniteSet, Cardinality, IsFiniteSet

\* A place is counted when its bit is new.
LEMMA RecordCounts ==
    ASSUME Scan!CommandScanAssumption, bitmask \subseteq Scan!Place, Scan!FoundCountsBits,
           NEW i \in Scan!Place, Scan!Record(i)
    PROVE  bitmask' \subseteq Scan!Place /\ Scan!FoundCountsBits'
  <1>1. IsFiniteSet(bitmask)
    BY FS_Subset, ScanCounts DEF Scan!CommandScanAssumption
  <1>2. CASE i \in bitmask
    BY <1>2 DEF Scan!Record, Scan!FoundCountsBits
  <1>3. CASE i \notin bitmask
    <2>1. Scan!Cardinality(bitmask \cup {i}) = Scan!Cardinality(bitmask) + 1
      BY <1>1, <1>3, FS_AddElement, ScanCounts
    <2> QED BY <1>3, <2>1 DEF Scan!Record, Scan!FoundCountsBits
  <1> QED BY <1>2, <1>3

\* The list has a length.
LEMMA CountIsNat ==
    ASSUME Scan!CommandScanAssumption
    PROVE  Scan!Count \in Nat \ {0} /\ Scan!Place = 0 .. Scan!Count - 1
  BY FS_CardinalityType, ScanCounts DEF Scan!CommandScanAssumption, Scan!Count, Scan!Place

\* Every step keeps the bits to the places gone through.
LEMMA ScannedStep ==
    ASSUME Scan!CommandScanAssumption, ScannedSoFar, Scan!Next
    PROVE  ScannedSoFar'
  <1>1. Scan!Count \in Nat \ {0} /\ Scan!Place = 0 .. Scan!Count - 1 /\ scanIndex \in Nat
    BY CountIsNat DEF ScannedSoFar
  <1>2. CASE Scan!StartCommandScan
    <2>1. bitmask' = {} /\ 0 .. 0 - 1 = {} /\ Scan!Cardinality({}) = 0
      BY <1>2, FS_EmptySet, ScanCounts DEF Scan!StartCommandScan
    <2> QED BY <1>1, <1>2, <2>1 DEF Scan!StartCommandScan, ScannedSoFar, Scan!FoundCountsBits,
               Scan!StoredIsWholeScan
  <1>3. CASE Scan!Send \/ Scan!Sent \/ Scan!Expire \/ Scan!OtherEnds
    BY <1>3 DEF Scan!Send, Scan!Sent, Scan!Expire, Scan!OtherEnds, ScannedSoFar,
                Scan!FoundCountsBits, Scan!StoredIsWholeScan
  <1>4. CASE Scan!Interrupt
    BY <1>4 DEF Scan!Interrupt, ScannedSoFar, Scan!FoundCountsBits, Scan!StoredIsWholeScan
  <1>5. ASSUME Scan!Waiting, Scan!Record(scanIndex)
        PROVE  /\ scanIndex \in Scan!Place /\ bitmask' = 0 .. scanIndex
               /\ bitmask' \subseteq Scan!Place /\ Scan!FoundCountsBits'
    <2>1. scanIndex \in Scan!Place
      BY <1>1, <1>5 DEF Scan!Waiting, ScannedSoFar
    <2>2. (0 .. scanIndex - 1) \cup {scanIndex} = 0 .. scanIndex
      BY <1>1
    <2>3. bitmask \in {0 .. scanIndex - 1, 0 .. scanIndex} /\ bitmask' = bitmask \cup {scanIndex}
      BY <1>5 DEF Scan!Waiting, Scan!Record, ScannedSoFar
    <2>4. scanIndex \in 0 .. scanIndex
      BY <1>1
    <2>5. bitmask' = 0 .. scanIndex
      BY <2>2, <2>3, <2>4
    <2> QED BY <1>5, <2>1, <2>5, RecordCounts DEF ScannedSoFar
  <1>6. CASE \E seen \in BOOLEAN : Scan!Answer(seen)
    <2>1. Scan!Waiting /\ UNCHANGED <<mState, scanIndex, stored>>
      BY <1>6 DEF Scan!Answer
    <2>2. Scan!Record(scanIndex) \/ UNCHANGED <<bitmask, found>>
      BY <1>6 DEF Scan!Answer
    <2>3. CASE UNCHANGED <<bitmask, found>>
      BY <2>1, <2>3 DEF ScannedSoFar, Scan!FoundCountsBits, Scan!StoredIsWholeScan
    <2>4. CASE Scan!Record(scanIndex)
      BY <1>5, <2>1, <2>4 DEF ScannedSoFar, Scan!StoredIsWholeScan, Scan!Waiting
    <2> QED BY <2>2, <2>3, <2>4
  <1>7. CASE Scan!WindowOver
    <2>1. /\ scanIndex \in Scan!Place /\ bitmask' = 0 .. scanIndex
          /\ bitmask' \subseteq Scan!Place /\ Scan!FoundCountsBits'
      BY <1>5, <1>7 DEF Scan!WindowOver
    <2>2. scanIndex' = scanIndex + 1 /\ scanIndex' - 1 = scanIndex
      BY <1>1, <1>7 DEF Scan!WindowOver, Scan!Advance
    <2>3. CASE scanIndex + 1 < Scan!Count /\ mState' = "ScanSending" /\ UNCHANGED stored
      BY <1>1, <2>1, <2>2, <2>3 DEF ScannedSoFar, Scan!StoredIsWholeScan
    <2>4. CASE scanIndex + 1 >= Scan!Count /\ mState' = "Idle" /\ Scan!Store
      <3>1. bitmask' = Scan!Place
        <4>1. scanIndex = Scan!Count - 1
          BY <1>1, <2>1, <2>4
        <4> QED BY <1>1, <2>1, <4>1
      <3> QED BY <1>1, <2>1, <2>2, <2>4, <3>1 DEF ScannedSoFar, Scan!Store,
                 Scan!StoredIsWholeScan
    <2> QED BY <1>7, <2>3, <2>4 DEF Scan!WindowOver, Scan!Advance
  <1> QED BY <1>2, <1>3, <1>4, <1>6, <1>7 DEF Scan!Next

\* A scan records and sends only places of the list.
ScanTyped ==
    /\ mState \in {"Idle", "ScanSending", "ScanWaitResponse", "Other"}
    /\ {onAir, expired} \subseteq BOOLEAN
    /\ scanIndex <= Scan!Count /\ (mState = "ScanWaitResponse" => scanIndex \in probed)
    /\ probed \subseteq Scan!Place /\ scanAnswered \subseteq probed

\* The types of a scan follow from what it has gone through.
LEMMA ScanTypesFollow ==
    ASSUME Scan!CommandScanAssumption, ScannedSoFar, ScanTyped
    PROVE  Scan!TypeOK
  <1>1. Scan!Count \in Nat \ {0} /\ Scan!Place = 0 .. Scan!Count - 1 /\ scanIndex \in Nat
    BY CountIsNat DEF ScannedSoFar
  <1>2. bitmask \subseteq Scan!Place /\ stored \subseteq Scan!Place
    BY DEF ScannedSoFar, Scan!StoredIsWholeScan
  <1>3. found \in 0 .. Scan!Count
    <2>1. IsFiniteSet(Scan!Place) /\ Cardinality(Scan!Place) = Scan!Count
      <3>1. IsFiniteSet(DOMAIN Code) /\ DOMAIN Code = Scan!Place
        BY ScanCounts DEF Scan!CommandScanAssumption
      <3> QED BY <3>1, ScanCounts DEF Scan!Count
    <2>2. /\ IsFiniteSet(bitmask) /\ Cardinality(bitmask) \in Nat
          /\ Cardinality(bitmask) <= Cardinality(Scan!Place)
      BY <1>2, <2>1, FS_Subset, FS_CardinalityType
    <2>3. found = Cardinality(bitmask)
      BY ScanCounts DEF ScannedSoFar, Scan!FoundCountsBits
    <2> QED BY <1>1, <2>1, <2>2, <2>3
  <1> QED BY <1>1, <1>2, <1>3 DEF ScanTyped, Scan!TypeOK

\* Every step keeps them.
LEMMA ScanTypeStep ==
    ASSUME Scan!CommandScanAssumption, ScannedSoFar, ScanTyped, [Scan!Next]_(Scan!vars)
    PROVE  ScanTyped'
  <1>1. Scan!Count \in Nat \ {0} /\ Scan!Place = 0 .. Scan!Count - 1 /\ scanIndex \in Nat
    BY CountIsNat DEF ScannedSoFar
  <1> USE DEF ScanTyped
  <1>2. CASE Scan!StartCommandScan
    BY <1>1, <1>2 DEF Scan!StartCommandScan
  <1>3. CASE Scan!Send
    <2>1. scanIndex \in Scan!Place
      BY <1>1, <1>3 DEF Scan!Send
    <2> QED BY <1>3, <2>1 DEF Scan!Send
  <1>4. CASE Scan!Sent \/ Scan!Expire \/ Scan!OtherEnds \/ UNCHANGED Scan!vars
    BY <1>4 DEF Scan!Sent, Scan!Expire, Scan!OtherEnds, Scan!vars
  <1>5. CASE Scan!Interrupt
    BY <1>1, <1>5 DEF Scan!Interrupt
  <1>6. CASE \E seen \in BOOLEAN : Scan!Answer(seen)
    BY <1>6 DEF Scan!Answer, Scan!Waiting
  <1>7. CASE Scan!WindowOver
    <2>1. scanIndex' <= Scan!Count
      BY <1>1, <1>7 DEF Scan!WindowOver, Scan!Waiting, Scan!Advance
    <2> QED BY <1>7, <2>1 DEF Scan!WindowOver
  <1> QED BY <1>2, <1>3, <1>4, <1>5, <1>6, <1>7 DEF Scan!Next

\* Every scan keeps the account of what was answered.
LEMMA ScansCount ==
    ASSUME Scan!CommandScanAssumption
    PROVE  Scan!Spec => [](ScannedSoFar /\ ScanTyped)
  <1>1. Scan!Init => ScannedSoFar /\ ScanTyped
    <2> SUFFICES ASSUME Scan!Init PROVE ScannedSoFar /\ ScanTyped
      OBVIOUS
    <2>1. Scan!FoundCountsBits
      BY FS_EmptySet, ScanCounts DEF Scan!Init, Scan!FoundCountsBits
    <2>2. Scan!Count \in Nat
      BY CountIsNat
    <2>3. ScannedSoFar
      BY <2>1 DEF Scan!Init, ScannedSoFar, Scan!StoredIsWholeScan
    <2>4. scanIndex <= Scan!Count /\ {onAir, expired} \subseteq BOOLEAN
      <3>1. scanIndex = 0 /\ onAir = FALSE /\ expired = FALSE
        BY DEF Scan!Init
      <3>2. scanIndex <= Scan!Count
        BY <2>2, <3>1
      <3> QED BY <3>1, <3>2
    <2>5. ScanTyped
      BY <2>4 DEF Scan!Init, ScanTyped
    <2> QED BY <2>3, <2>5
  <1>2. ASSUME ScannedSoFar, [Scan!Next]_(Scan!vars) PROVE ScannedSoFar'
    <2>1. CASE UNCHANGED Scan!vars
      BY <1>2, <2>1 DEF Scan!vars, ScannedSoFar, Scan!FoundCountsBits, Scan!StoredIsWholeScan
    <2> QED BY <1>2, <2>1, ScannedStep
  <1>3. ScannedSoFar /\ ScanTyped /\ [Scan!Next]_(Scan!vars) => ScanTyped'
    BY ScanTypeStep
  <1> QED BY <1>1, <1>2, <1>3, PTL DEF Scan!Spec

\* However a scan is refused, interrupted or answered late, it counts no more answers than the
\* list has commands, and only a command that was sent is answered.
THEOREM ScanTypes ==
    ASSUME Scan!CommandScanAssumption
    PROVE  Scan!Spec => []Scan!TypeOK
  <1>1. ScannedSoFar /\ ScanTyped => Scan!TypeOK
    BY ScanTypesFollow
  <1> QED BY <1>1, ScansCount, PTL

-----------------------------------------------------------------------------
(* Both, of one controller *)

\* Neither takes the controller into a state of the other.
LEMMA SweepsMove ==
    ASSUME Sweeps!Next
    PROVE  UNCHANGED mState \/ mState' \notin {"ScanSending", "ScanWaitResponse"}
  BY DEF Sweeps!Next, Sweeps!Handler, Sweeps!Environment, Sweeps!SetFrequency,
         Sweeps!SetPreamble, Sweeps!StartTransmit, Sweeps!AfterTransmit, Sweeps!Receive,
         Sweeps!WindowOver, Sweeps!IdlePass, Sweeps!OtherEnds, Sweeps!FrameArrives,
         Sweeps!Interrupt, Sweeps!Hop, Sweeps!SendFails, Sweeps!ToIdle, Sweeps!PacketSent,
         Sweeps!Tick, Sweeps!StartDiscovery, Sweeps!Begin

\* Nor does the command scan take the controller into a discovery.
LEMMA ScanMoves ==
    ASSUME Scan!Next
    PROVE  UNCHANGED mState \/ ~Sweeps!Active(mState')
  BY DEF Scan!Next, Scan!StartCommandScan, Scan!Send, Scan!Sent, Scan!Answer, Scan!Expire,
         Scan!WindowOver, Scan!Interrupt, Scan!OtherEnds, Sweeps!Active

\* A controller that discovers and scans in any order, refused and interrupted anywhere, has
\* asked on every channel in every sweep when its discovery is complete, and gives the remote
\* map only what a scan of the whole list recorded, each answer counted once.
THEOREM WholeInAnyOrder ==
    ASSUME Sweeps!DiscoveryAssumption, Scan!CommandScanAssumption
    PROVE  ScanningSpec => []ScansWhole
  <1>1. ScanningInit => AskedSoFar /\ ScannedSoFar
    <2> SUFFICES ASSUME ScanningInit PROVE AskedSoFar /\ ScannedSoFar
      OBVIOUS
    <2>1. AskedSoFar
      BY DEF ScanningInit, Sweeps!Init, AskedSoFar, Sweeps!Active
    <2>2. Scan!FoundCountsBits
      BY FS_EmptySet, ScanCounts DEF ScanningInit, Scan!Init, Scan!FoundCountsBits
    <2>3. ScannedSoFar
      BY <2>2 DEF ScanningInit, Scan!Init, ScannedSoFar, Scan!StoredIsWholeScan
    <2> QED BY <2>1, <2>3
  <1>2. ASSUME AskedSoFar, ScannedSoFar, [ScanningNext]_<<mState, radio, discoveryVars, scanVars>>
        PROVE  AskedSoFar' /\ ScannedSoFar'
    <2>1. CASE Sweeps!Next /\ UNCHANGED scanVars
      <3>1. UNCHANGED mState \/ mState' \notin {"ScanSending", "ScanWaitResponse"}
        BY <2>1, SweepsMove
      <3>2. ScannedSoFar'
        BY <1>2, <2>1, <3>1
           DEF scanVars, ScannedSoFar, Scan!FoundCountsBits, Scan!StoredIsWholeScan
      <3> QED BY <1>2, <2>1, <3>2, AskedStep
    <2>2. CASE Scan!Next /\ UNCHANGED <<radio, discoveryVars>>
      <3>1. UNCHANGED mState \/ ~Sweeps!Active(mState')
        BY <2>2, ScanMoves
      <3>2. alt \in BOOLEAN
        BY <1>2 DEF AskedSoFar
      <3>3. AskedSoFar'
        BY <1>2, <2>2, <3>1, <3>2, AskedKept DEF discoveryVars
      <3> QED BY <1>2, <2>2, <3>3, ScannedStep
    <2>3. CASE UNCHANGED <<mState, radio, discoveryVars, scanVars>>
      BY <1>2, <2>3, AskedKept DEF discoveryVars, scanVars, ScannedSoFar,
         Scan!FoundCountsBits, Scan!StoredIsWholeScan
    <2> QED BY <1>2, <2>1, <2>2, <2>3 DEF ScanningNext
  <1>3. AskedSoFar /\ ScannedSoFar => ScansWhole
    BY DEF AskedSoFar, ScannedSoFar, ScansWhole, Sweeps!EveryChannelAsked
  <1> QED BY <1>1, <1>2, <1>3, PTL DEF ScanningSpec

-----------------------------------------------------------------------------
(* The key import *)

Queued == {"Poll", "User"} \cup Candidate

\* The types of controller and workflow, and of the session they see.
ControlTypes ==
    /\ mState \in {"Idle", "Command", "Discovery", "Passive"}
    /\ importQueue \in Seq(Queued) /\ Len(importQueue) <= QueueSize

WorkTypes ==
    /\ importPhase \in Import!Phases /\ importHub \in Hub \cup Candidate \cup {NoHub}
    /\ devices \subseteq Candidate /\ Import!Cardinality(devices) <= MaxDevices
    /\ candidates \in Seq(Candidate) /\ index \in 1 .. Len(candidates) + 1
    /\ awaiting \in Candidate \cup {NoHub}

SessionTypes == turn \in {"Loop", "Workflow", "Calls"} /\ locked \in Hub \cup {NoHub} /\ sniffs \in Nat

ImportTypes == ControlTypes /\ WorkTypes /\ SessionTypes

\* Without a sniff the key an import holds is that of the gateway it was captured from.
HubsOwnKey ==
    sniffs = 0 => /\ mState # "Passive"
                  /\ importPhase = "Verifying" => importHub \in Hub /\ importKey.key = importHub

\* The order of numbers.
Less == {pair \in Nat \X Nat : pair[1] < pair[2]}

\* A set of numbers has a least one.
LEMMA LeastOf ==
    ASSUME NEW S \in SUBSET Nat, S # {}
    PROVE  \E x \in S : \A y \in S : x <= y
  <1>1. IsWellFoundedOn(Less, Nat)
    BY Zenon, NatLessThanWellFounded DEF OpToRel, Less
  <1>2. PICK x \in S : \A y \in S : ~ (<<y, x>> \in Less)
    BY <1>1, WFMin
  <1>3. ASSUME NEW y \in S PROVE x <= y
    <2>1. x \in Nat /\ y \in Nat /\ ~ (<<y, x>> \in Less)
      BY <1>2
    <2> QED BY <2>1 DEF Less
  <1> QED BY <1>3

\* What processIdle takes is in the queue.
LEMMA TakenIsQueued ==
    ASSUME importQueue \in Seq(Queued)
    PROVE  Import!Taken \in 0 .. Len(importQueue)
  <1>1. CASE armed' /\ status = "Captured"
    <2> DEFINE S == {i \in 1 .. Len(importQueue) : importQueue[i] = "User"}
    <2>1. Import!Taken = IF S # {} THEN Import!Min(S) ELSE 0
      BY <1>1 DEF Import!Taken, Import!SelectInSeq
    <2>2. CASE S # {}
      <3>1. \E x \in S : \A y \in S : x <= y
        <4>1. S \in SUBSET Nat
          OBVIOUS
        <4> QED BY <2>2, <4>1, LeastOf, Zenon
      <3>2. Import!Min(S) \in S
        BY <3>1 DEF Import!Min
      <3> QED BY <2>1, <2>2, <3>2
    <2> QED BY <2>1, <2>2
  <1>2. CASE ~ (armed' /\ status = "Captured")
    BY <1>2 DEF Import!Taken
  <1> QED BY <1>1, <1>2

\* Taking a command leaves a queue of commands, no longer than before.
LEMMA TakenAway ==
    ASSUME importQueue \in Seq(Queued), NEW i \in 1 .. Len(importQueue)
    PROVE  /\ Import!RemoveAt(importQueue, i) \in Seq(Queued)
           /\ Len(Import!RemoveAt(importQueue, i)) <= Len(importQueue)
  <1> DEFINE u == SubSeq(importQueue, 1, i - 1)
             v == SubSeq(importQueue, i + 1, Len(importQueue))
  <1>1. u \in Seq(Queued) /\ Len(u) = i - 1
    BY SubSeqProperties
  <1>2. v \in Seq(Queued) /\ Len(v) = Len(importQueue) - i
    BY SubSeqProperties
  <1>3. Import!RemoveAt(importQueue, i) = u \o v
    BY DEF Import!RemoveAt
  <1> HIDE DEF u, v
  <1>4. u \o v \in Seq(Queued) /\ Len(u \o v) = Len(u) + Len(v)
    BY <1>1, <1>2, ConcatProperties
  <1>5. Len(u) + Len(v) <= Len(importQueue)
    BY <1>1, <1>2, LenProperties
  <1> QED BY <1>3, <1>4, <1>5

\* The candidate that is asked next is one, or there is none left.
LEMMA NextUnknown ==
    ASSUME candidates \in Seq(Candidate), NEW i \in 1 .. Len(candidates) + 1
    PROVE  Import!Unknown(i) \in i .. Len(candidates) + 1
  <1> DEFINE left == {j \in i .. Len(candidates) : candidates[j] \notin devices}
  <1>1. CASE left = {}
    BY <1>1 DEF Import!Unknown
  <1>2. CASE left # {}
    <2>1. \E j \in left : \A k \in left : j <= k
      <3>1. left \in SUBSET Nat
        OBVIOUS
      <3> QED BY <1>2, <3>1, LeastOf, Zenon
    <2>2. Import!Unknown(i) \in left
      BY <1>2, <2>1 DEF Import!Unknown
    <2> QED BY <2>2
  <1> QED BY <1>1, <1>2

\* The types the actions of the controller change.
LEMMA PopTypes ==
    ASSUME Import!ImportAssumption, ControlTypes, mState = "Idle", Import!PopCommand
    PROVE  ControlTypes' /\ mState' \in {"Idle", "Command"}
  <1>1. importQueue \in Seq(Queued) /\ Len(importQueue) <= QueueSize
    BY DEF ControlTypes
  <1>2. CASE Import!Taken = 0
    BY <1>2 DEF Import!PopCommand, Import!controller, ControlTypes
  <1>3. CASE Import!Taken # 0
    <2>1. Import!Taken \in 1 .. Len(importQueue)
      BY <1>1, <1>3, TakenIsQueued
    <2>2. mState' = "Command" /\ importQueue' = Import!RemoveAt(importQueue, Import!Taken)
      BY <1>3 DEF Import!PopCommand
    <2>3. /\ Import!RemoveAt(importQueue, Import!Taken) \in Seq(Queued)
          /\ Len(Import!RemoveAt(importQueue, Import!Taken)) <= Len(importQueue)
      BY <1>1, <2>1, TakenAway
    <2>4. Len(importQueue') \in Nat /\ Len(importQueue) \in Nat
      BY <1>1, <2>2, <2>3, LenProperties
    <2>5. QueueSize \in Nat
      BY DEF Import!ImportAssumption
    <2> QED BY <1>1, <2>2, <2>3, <2>4, <2>5 DEF ControlTypes
  <1> QED BY <1>2, <1>3

\* A device is added to the results while there is room.
LEMMA FoundTypes ==
    ASSUME Import!ImportAssumption, WorkTypes, NEW d \in Candidate
    PROVE  Import!Added(d) \subseteq Candidate /\ Import!Cardinality(Import!Added(d)) <= MaxDevices
  <1>1. Import!Cardinality(devices) = Cardinality(devices)
    BY DEF Import!Cardinality, Cardinality
  <1>2. devices \subseteq Candidate /\ Cardinality(devices) <= MaxDevices /\ IsFiniteSet(devices)
    <2>1. IsFiniteSet(Candidate)
      BY DEF Import!ImportAssumption, Import!IsFiniteSet, IsFiniteSet
    <2> QED BY <1>1, <2>1, FS_Subset DEF WorkTypes
  <1>3. CASE Cardinality(devices) < MaxDevices
    <2>1. Import!Added(d) = devices \cup {d}
      BY <1>1, <1>3 DEF Import!Added
    <2>2. Cardinality(devices \cup {d}) <= Cardinality(devices) + 1
      <3>1. Cardinality(devices \cup {d})
            = IF d \in devices THEN Cardinality(devices) ELSE Cardinality(devices) + 1
        BY <1>2, FS_AddElement
      <3> QED BY <1>2, <3>1, FS_CardinalityType
    <2>3. Import!Cardinality(devices \cup {d}) = Cardinality(devices \cup {d})
      BY DEF Import!Cardinality, Cardinality
    <2>4. MaxDevices \in Nat /\ Cardinality(devices) \in Nat /\ Cardinality(devices \cup {d}) \in Nat
      BY <1>2, FS_AddElement, FS_CardinalityType DEF Import!ImportAssumption
    <2> QED BY <1>2, <1>3, <2>1, <2>2, <2>3, <2>4
  <1>4. CASE ~ (Cardinality(devices) < MaxDevices)
    BY <1>1, <1>2, <1>4 DEF Import!Added
  <1> QED BY <1>3, <1>4

\* What the controller reports keeps the workflow's types, and a key of the locked hub is kept
\* with that hub.
LEMMA ReportedKeeps ==
    ASSUME Import!ImportAssumption, WorkTypes, SessionTypes,
           \/ UNCHANGED Import!workflow
           \/ \E n \in Hub \cup Candidate, k \in Hub : Import!KeyCaptured(n, k)
           \/ \E d \in Candidate : Import!CandidateObserved(d) \/ Import!DeviceFound(d)
    PROVE  WorkTypes'
  <1>1. CASE UNCHANGED Import!workflow
    BY <1>1 DEF Import!workflow, WorkTypes
  <1>2. CASE \E n \in Hub \cup Candidate, k \in Hub : Import!KeyCaptured(n, k)
    BY <1>2 DEF Import!workflow, WorkTypes, SessionTypes, Import!KeyCaptured, Import!Phases
  <1>3. ASSUME NEW d \in Candidate, Import!CandidateObserved(d) PROVE WorkTypes'
    <2>1. candidates' \in Seq(Candidate) /\ Len(candidates') = Len(candidates) + 1
      BY <1>3, AppendProperties DEF WorkTypes, Import!CandidateObserved
    <2>2. Len(candidates) \in Nat
      BY LenProperties DEF WorkTypes
    <2> QED BY <1>3, <2>1, <2>2 DEF WorkTypes, Import!CandidateObserved
  <1>4. ASSUME NEW d \in Candidate, Import!DeviceFound(d) PROVE WorkTypes'
    BY <1>4, FoundTypes DEF WorkTypes, Import!DeviceFound
  <1> QED BY <1>1, <1>2, <1>3, <1>4

\* The controller's pass keeps the types.
LEMMA LoopTypes ==
    ASSUME Import!ImportAssumption, ImportTypes, Import!ControllerLoop
    PROVE  ImportTypes'
  <1> USE DEF ImportTypes
  <1>1. turn' \in {"Loop", "Workflow", "Calls"} /\ sniffs' \in Nat
    BY DEF Import!ControllerLoop, Import!bounds, SessionTypes
  <1>2. locked' \in Hub \cup {NoHub}
    BY DEF Import!ControllerLoop, Import!HubActs, Import!SessionEnds, Import!Idles,
           Import!CommandEnds, Import!DiscoveryGoesOn, Import!SniffCaptures, Import!Waits,
           Import!recovery, Import!Lock, Import!Capture, Import!Disarm, SessionTypes
  <1>3. ControlTypes'
    <2>1. CASE Import!SessionEnds \/ Import!Idles
      BY <2>1, PopTypes DEF Import!SessionEnds, Import!Idles, Import!controller, ControlTypes
    <2>2. CASE \/ Import!HubActs \/ Import!CommandEnds \/ Import!DiscoveryGoesOn
               \/ Import!SniffCaptures \/ Import!Waits
      BY <2>2 DEF Import!HubActs, Import!CommandEnds, Import!DiscoveryGoesOn,
                  Import!SniffCaptures, Import!Waits, Import!controller, ControlTypes
    <2> QED BY <2>1, <2>2 DEF Import!ControllerLoop
  <1>4. WorkTypes'
    <2>1. CASE Import!HubActs
      BY <2>1, ReportedKeeps DEF Import!HubActs, Import!Capture, SessionTypes
    <2>2. CASE Import!CommandEnds
      BY <2>2, ReportedKeeps DEF Import!CommandEnds
    <2>3. CASE Import!DiscoveryGoesOn
      BY <2>3, ReportedKeeps DEF Import!DiscoveryGoesOn
    <2>4. CASE Import!SniffCaptures
      BY <2>4, ReportedKeeps DEF Import!SniffCaptures
    <2>5. CASE Import!SessionEnds \/ Import!Idles \/ Import!Waits
      BY <2>5, ReportedKeeps DEF Import!SessionEnds, Import!Idles, Import!Waits
    <2> QED BY <2>1, <2>2, <2>3, <2>4, <2>5 DEF Import!ControllerLoop
  <1> QED BY <1>1, <1>2, <1>3, <1>4 DEF SessionTypes

\* The pass of the workflow keeps the types: the candidate it comes to is one, or none is left.
LEMMA WorkflowTypes ==
    ASSUME Import!ImportAssumption, ImportTypes, Import!ProcessKeyImportWorkflow
    PROVE  ImportTypes'
  <1> USE DEF ImportTypes
  <1>1. SessionTypes'
    BY DEF Import!ProcessKeyImportWorkflow, Import!recovery, Import!bounds, SessionTypes
  <1>2. CASE Import!ExtractionTimesOut \/ Import!NothingDue
    <2>1. ControlTypes'
      BY <1>2 DEF Import!ExtractionTimesOut, Import!NothingDue, Import!controller, ControlTypes
    <2>2. WorkTypes'
      BY <1>2 DEF Import!ExtractionTimesOut, Import!NothingDue, Import!workflow, Import!Phases,
                  WorkTypes
    <2> QED BY <1>1, <2>1, <2>2
  <1>3. CASE Import!VerificationOver
    <2>1. ControlTypes'
      BY <1>3 DEF Import!VerificationOver, Import!controller, ControlTypes
    <2>2. WorkTypes'
      BY <1>3, LenProperties DEF Import!VerificationOver, Import!Phases, WorkTypes
    <2> QED BY <1>1, <2>1, <2>2
  <1>4. CASE Import!ScanGoesOn
    <2> DEFINE next == Import!Unknown(Import!NextIndex)
    <2>1. Len(candidates) \in Nat
      BY LenProperties DEF WorkTypes
    <2>2. Import!NextIndex \in 1 .. Len(candidates) + 1
      BY <2>1 DEF WorkTypes, Import!NextIndex
    <2>3. next \in 1 .. Len(candidates) + 1
      BY <2>1, <2>2, NextUnknown DEF WorkTypes
    <2>4. next <= Len(candidates) => candidates[next] \in Candidate
      BY <2>1, <2>3, ElementOfSeq DEF WorkTypes
    <2> HIDE DEF next
    <2>5. WorkTypes'
      BY <1>4, <2>1, <2>3, <2>4 DEF Import!ScanGoesOn, Import!Phases, WorkTypes, next
    <2>6. ControlTypes'
      <3>1. CASE UNCHANGED importQueue
        BY <1>4, <3>1 DEF Import!ScanGoesOn, ControlTypes
      <3>2. CASE next <= Len(candidates) /\ Len(importQueue) < QueueSize
                 /\ importQueue' = Append(importQueue, candidates[next])
        <4>1. importQueue' \in Seq(Queued) /\ Len(importQueue') = Len(importQueue) + 1
          BY <2>4, <3>2, AppendProperties DEF ControlTypes, Queued
        <4>2. Len(importQueue) \in Nat /\ QueueSize \in Nat
          BY LenProperties DEF ControlTypes, Import!ImportAssumption
        <4> QED BY <1>4, <3>2, <4>1, <4>2 DEF Import!ScanGoesOn, ControlTypes
      <3> QED BY <1>4, <3>1, <3>2 DEF Import!ScanGoesOn, next
    <2> QED BY <1>1, <2>5, <2>6
  <1> QED BY <1>2, <1>3, <1>4 DEF Import!ProcessKeyImportWorkflow

\* Calls from ETS, the console and the channels keep the types.
LEMMA CallTypes ==
    ASSUME Import!ImportAssumption, ImportTypes, Import!Calls
    PROVE  ImportTypes'
  <1> USE DEF ImportTypes
  <1>1. SessionTypes'
    BY DEF Import!Calls, Import!StartImport, Import!Persist, Import!Console, Import!SendCommand,
           Import!Sniff, Import!NoCall, Import!Arm, Import!Disarm, Import!Clear, Import!recovery,
           Import!bounds, SessionTypes
  <1>2. ControlTypes'
    <2>1. CASE Import!SendCommand
      <3>1. PICK c \in {"Poll", "User"} : importQueue' = Append(importQueue, c)
        BY <2>1 DEF Import!SendCommand
      <3>2. importQueue' \in Seq(Queued) /\ Len(importQueue') = Len(importQueue) + 1
        BY <3>1, AppendProperties DEF ControlTypes, Queued
      <3>3. Len(importQueue) \in Nat /\ QueueSize \in Nat
        BY LenProperties DEF ControlTypes, Import!ImportAssumption
      <3> QED BY <2>1, <3>2, <3>3 DEF Import!SendCommand, ControlTypes
    <2>2. CASE \/ Import!StartImport \/ Import!Persist \/ Import!Console \/ Import!Sniff
               \/ Import!NoCall
      BY <2>2 DEF Import!StartImport, Import!Persist, Import!Console, Import!Sniff,
                  Import!NoCall, Import!controller, ControlTypes
    <2> QED BY <2>1, <2>2 DEF Import!Calls
  <1>3. WorkTypes'
    <2>1. CASE Import!StartImport \/ Import!Persist
      <3>1. /\ importPhase' \in Import!Phases /\ importHub' = NoHub /\ devices' = {}
            /\ candidates' = <<>> /\ index' = 1 /\ awaiting' = NoHub
        BY <2>1 DEF Import!StartImport, Import!Persist, Import!Forgotten, Import!NoKey, Import!Phases
      <3>2. Import!Cardinality({}) = 0
        BY FS_EmptySet DEF Import!Cardinality, Cardinality
      <3>3. MaxDevices \in Nat
        BY DEF Import!ImportAssumption
      <3> QED BY <3>1, <3>2, <3>3 DEF WorkTypes
    <2>2. CASE Import!Console \/ Import!SendCommand \/ Import!Sniff \/ Import!NoCall
      BY <2>2, ReportedKeeps DEF Import!Console, Import!SendCommand, Import!Sniff, Import!NoCall
    <2> QED BY <2>1, <2>2 DEF Import!Calls
  <1> QED BY <1>1, <1>2, <1>3

\* Every step of an import keeps the types, and the hub with its own key.
LEMMA ImportStep ==
    ASSUME Import!ImportAssumption, ImportTypes, [Import!Next]_(Import!vars)
    PROVE  ImportTypes' /\ (HubsOwnKey => HubsOwnKey')
  <1>1. ImportTypes'
    <2>1. CASE UNCHANGED Import!vars
      BY <2>1 DEF Import!vars, Import!controller, Import!workflow, Import!recovery, Import!bounds,
                  ImportTypes, ControlTypes, WorkTypes, SessionTypes
    <2> QED BY <2>1, LoopTypes, WorkflowTypes, CallTypes DEF Import!Next
  <1>2. ASSUME HubsOwnKey, sniffs' = 0
        PROVE  /\ mState' # "Passive"
               /\ importPhase' = "Verifying" => importHub' \in Hub /\ importKey'.key = importHub'
    <2> USE DEF Import!controller, Import!workflow, Import!recovery, Import!bounds
    <2>1. sniffs = 0 /\ mState # "Passive" /\ mState' # "Passive"
      <3>1. CASE Import!ControllerLoop
        <4>1. sniffs = 0 /\ mState # "Passive"
          BY <1>2, <3>1 DEF Import!ControllerLoop, HubsOwnKey
        <4>2. CASE Import!SessionEnds \/ Import!Idles
          <5>1. CASE mState = "Idle" /\ Import!PopCommand
            <6>1. mState' \in {"Idle", "Command"}
              BY <5>1, PopTypes DEF ImportTypes
            <6> QED BY <4>1, <6>1
          <5>2. CASE UNCHANGED mState
            BY <4>1, <5>2
          <5> QED BY <4>2, <5>1, <5>2 DEF Import!SessionEnds, Import!Idles
        <4>3. CASE \/ Import!HubActs \/ Import!CommandEnds \/ Import!DiscoveryGoesOn
                   \/ Import!SniffCaptures \/ Import!Waits
          BY <4>1, <4>3 DEF Import!HubActs, Import!CommandEnds, Import!DiscoveryGoesOn,
                            Import!SniffCaptures, Import!Waits
        <4> QED BY <3>1, <4>1, <4>2, <4>3 DEF Import!ControllerLoop
      <3>2. CASE Import!ProcessKeyImportWorkflow
        BY <1>2, <3>2 DEF Import!ProcessKeyImportWorkflow, Import!ExtractionTimesOut,
           Import!VerificationOver, Import!ScanGoesOn, Import!NothingDue, HubsOwnKey
      <3>3. CASE Import!Calls \/ UNCHANGED Import!vars
        <4>1. UNCHANGED sniffs \/ sniffs' = sniffs + 1
          BY <3>3 DEF Import!Calls, Import!StartImport, Import!Persist, Import!Console,
             Import!SendCommand, Import!Sniff, Import!NoCall, Import!vars
        <4>2. sniffs = 0 /\ UNCHANGED sniffs
          BY <1>2, <4>1 DEF ImportTypes, SessionTypes
        <4>3. mState # "Passive"
          BY <1>2, <4>2 DEF HubsOwnKey
        <4>4. UNCHANGED mState
          <5>1. CASE Import!Sniff
            BY <4>2, <4>3, <5>1 DEF Import!Sniff, ImportTypes, SessionTypes
          <5> QED BY <3>3, <5>1 DEF Import!Calls, Import!StartImport, Import!Persist,
                  Import!Console, Import!SendCommand, Import!NoCall, Import!vars
        <4> QED BY <4>2, <4>3, <4>4
      <3> QED BY <3>1, <3>2, <3>3 DEF Import!Next
    <2>2. ASSUME importPhase' = "Verifying"
          PROVE  importHub' \in Hub /\ importKey'.key = importHub'
      <3>1. CASE UNCHANGED <<importPhase, importHub, importKey>>
        BY <1>2, <2>1, <2>2, <3>1 DEF HubsOwnKey
      <3>2. CASE Import!HubActs
        <4>1. CASE locked # NoHub /\ Import!KeyCaptured(locked, locked)
          <5>1. (importHub' = locked /\ importKey' = [node |-> locked, key |-> locked])
                \/ UNCHANGED <<importPhase, importHub, importKey>>
            BY <4>1 DEF Import!KeyCaptured
          <5>2. locked \in Hub
            BY <4>1 DEF ImportTypes, SessionTypes
          <5> QED BY <3>1, <5>1, <5>2
        <4>2. CASE UNCHANGED <<importPhase, importHub, importKey>>
          BY <3>1, <4>2
        <4> QED BY <3>2, <4>1, <4>2 DEF Import!HubActs, Import!Capture, Import!CandidateObserved
      <3>3. CASE Import!ControllerLoop
        BY <2>1, <3>1, <3>2, <3>3 DEF Import!ControllerLoop, Import!SessionEnds, Import!Idles,
           Import!CommandEnds, Import!DiscoveryGoesOn, Import!SniffCaptures, Import!Waits,
           Import!DeviceFound
      <3>4. CASE Import!ProcessKeyImportWorkflow
        BY <2>2, <3>1, <3>4 DEF Import!ProcessKeyImportWorkflow, Import!ExtractionTimesOut,
           Import!VerificationOver, Import!ScanGoesOn, Import!NothingDue
      <3>5. CASE Import!Calls \/ UNCHANGED Import!vars
        BY <2>2, <3>1, <3>5 DEF Import!Calls, Import!StartImport, Import!Persist, Import!Console,
           Import!SendCommand, Import!Sniff, Import!NoCall, Import!vars
      <3> QED BY <3>3, <3>4, <3>5 DEF Import!Next
    <2> QED BY <2>1, <2>2
  <1> QED BY <1>1, <1>2 DEF HubsOwnKey

\* The types of an import hold from the start.
LEMMA ImportStart ==
    ASSUME Import!ImportAssumption, Import!Init
    PROVE  ImportTypes /\ HubsOwnKey
  <1>1. Import!Cardinality({}) = 0
    BY FS_EmptySet DEF Import!Cardinality, Cardinality
  <1>2. MaxDevices \in Nat /\ QueueSize \in Nat
    BY DEF Import!ImportAssumption
  <1>3. ControlTypes
    BY <1>2 DEF Import!Init, ControlTypes
  <1>4. WorkTypes
    BY <1>1, <1>2 DEF Import!Init, WorkTypes, Import!Phases
  <1> QED BY <1>3, <1>4 DEF Import!Init, Import!RecoveryInit, ImportTypes, SessionTypes, HubsOwnKey

\* The results never outgrow their table, the queue its ring, nor the index the candidates,
\* in whatever order devices answer and commands come between.
THEOREM ImportInBounds ==
    ASSUME Import!ImportAssumption
    PROVE  Import!Spec => []Import!TypeOK
  <1>1. ImportTypes => Import!TypeOK
    BY DEF ImportTypes, ControlTypes, WorkTypes, SessionTypes, Queued, Import!TypeOK
  <1> QED BY <1>1, ImportStart, ImportStep, PTL DEF Import!Spec

\* Without a sniff an import takes over a node and a key of one and the same gateway, and only
\* when the session is over (processKeyImportWorkflow).
THEOREM TakesOverAGateway ==
    ASSUME Import!ImportAssumption
    PROVE  Import!Spec => Import!AdoptsTheGateway
  <1>1. ImportTypes /\ HubsOwnKey /\ [Import!Next]_(Import!vars)
        => [Import!adopted' # Import!adopted /\ sniffs = 0
            => identity' \in Hub /\ sysKey' = identity' /\ ~ armed]_(Import!vars)
    <2> SUFFICES ASSUME HubsOwnKey, Import!Next, Import!adopted' # Import!adopted, sniffs = 0
                 PROVE  identity' \in Hub /\ sysKey' = identity' /\ ~ armed
      OBVIOUS
    <2>1. Import!VerificationOver
      BY DEF Import!Next, Import!ControllerLoop, Import!HubActs, Import!SessionEnds, Import!Idles,
             Import!CommandEnds, Import!DiscoveryGoesOn, Import!SniffCaptures, Import!Waits,
             Import!ProcessKeyImportWorkflow, Import!ExtractionTimesOut, Import!ScanGoesOn,
             Import!NothingDue, Import!Calls, Import!StartImport, Import!Persist, Import!Console,
             Import!SendCommand, Import!Sniff, Import!NoCall, Import!adopted
    <2> QED BY <2>1 DEF Import!VerificationOver, Import!Adopt, Import!adopted, HubsOwnKey
  <1> QED BY <1>1, ImportStart, ImportStep, PTL DEF Import!Spec, Import!AdoptsTheGateway

-----------------------------------------------------------------------------
(* All of them, of one controller *)

\* The machine that runs takes its own steps, from its own start, and keeps running: each of
\* the specifications is one that the controller keeps while it is that machine's turn.
LEMMA ReportsRun ==
    ControllerSpec => ([](part = "reports") /\ Reports!Spec) \/ []~(part = "reports")
  <1>1. ControllerInit => Reports!Init
    BY DEF ControllerInit
  <1>2. part = "reports" /\ [ControllerNext]_controllerVars
        => (part = "reports")' /\ [Reports!Next]_(Reports!vars)
    <2>1. CASE UNCHANGED controllerVars
      BY <2>1 DEF controllerVars, authVars, Reports!vars, Reports!controller, Reports!channel,
             Reports!devices, Reports!bounds
    <2>2. CASE ControllerNext
      BY <2>2 DEF ControllerNext
    <2> QED BY <2>1, <2>2
  <1>3. ~(part = "reports") /\ [ControllerNext]_controllerVars => (~(part = "reports"))'
    BY DEF ControllerNext, controllerVars
  <1> QED BY <1>1, <1>2, <1>3, PTL DEF ControllerSpec, Reports!Spec

\* The session of key extraction (processKeyExtractFrame and its reply).
LEMMA ExtractionRuns ==
    ControllerSpec => ([](part = "extraction") /\ Spec) \/ []~(part = "extraction")
  <1>1. ControllerInit => Init
    BY DEF ControllerInit
  <1>2. part = "extraction" /\ [ControllerNext]_controllerVars
        => (part = "extraction")' /\ [Next]_vars
    <2>1. CASE UNCHANGED controllerVars
      BY <2>1 DEF controllerVars, sessionVars, extractionVars, vars, controller, attempt,
             deadlines, air, queue, hubs
    <2>2. CASE ControllerNext
      BY <2>2 DEF ControllerNext
    <2> QED BY <2>1, <2>2
  <1>3. ~(part = "extraction") /\ [ControllerNext]_controllerVars => (~(part = "extraction"))'
    BY DEF ControllerNext, controllerVars
  <1> QED BY <1>1, <1>2, <1>3, PTL DEF ControllerSpec, Spec

\* Gateway mode (processGatewayIdle and what follows).
LEMMA GatewayRuns ==
    ControllerSpec => ([](part = "gateway") /\ Serving!Spec) \/ []~(part = "gateway")
  <1>1. ControllerInit => Serving!Init
    BY DEF ControllerInit
  <1>2. part = "gateway" /\ [ControllerNext]_controllerVars
        => (part = "gateway")' /\ [Serving!Next]_(Serving!vars)
    <2>1. CASE UNCHANGED controllerVars
      BY <2>1 DEF controllerVars, gatewayVars, Serving!vars, Serving!session, Serving!bounds
    <2>2. CASE ControllerNext
      BY <2>2 DEF ControllerNext
    <2> QED BY <2>1, <2>2
  <1>3. ~(part = "gateway") /\ [ControllerNext]_controllerVars => (~(part = "gateway"))'
    BY DEF ControllerNext, controllerVars
  <1> QED BY <1>1, <1>2, <1>3, PTL DEF ControllerSpec, Serving!Spec

\* Passive listening.
LEMMA ListeningRuns ==
    ControllerSpec => ([](part = "listening") /\ Listening!Spec) \/ []~(part = "listening")
  <1>1. ControllerInit => Listening!Init
    BY DEF ControllerInit
  <1>2. part = "listening" /\ [ControllerNext]_controllerVars
        => (part = "listening")' /\ [Listening!Next]_(Listening!vars)
    <2>1. CASE UNCHANGED controllerVars
      BY <2>1 DEF controllerVars, listenVars, Listening!vars, Listening!passive,
             Listening!sniffing, Listening!cloning, Listening!outside
    <2>2. CASE ControllerNext
      BY <2>2 DEF ControllerNext
    <2> QED BY <2>1, <2>2
  <1>3. ~(part = "listening") /\ [ControllerNext]_controllerVars => (~(part = "listening"))'
    BY DEF ControllerNext, controllerVars
  <1> QED BY <1>1, <1>2, <1>3, PTL DEF ControllerSpec, Listening!Spec

\* The discovery (processDiscovery).
LEMMA DiscoveryRuns ==
    ControllerSpec => ([](part = "discovery") /\ Sweeps!Spec) \/ []~(part = "discovery")
  <1>1. ControllerInit => Sweeps!Init
    BY DEF ControllerInit
  <1>2. part = "discovery" /\ [ControllerNext]_controllerVars
        => (part = "discovery")' /\ [Sweeps!Next]_(Sweeps!vars)
    <2>1. CASE UNCHANGED controllerVars
      BY <2>1 DEF controllerVars, discoveryVars, Sweeps!vars, Sweeps!plan, Sweeps!window,
             Sweeps!knx, Sweeps!bounds
    <2>2. CASE ControllerNext
      BY <2>2 DEF ControllerNext
    <2> QED BY <2>1, <2>2
  <1>3. ~(part = "discovery") /\ [ControllerNext]_controllerVars => (~(part = "discovery"))'
    BY DEF ControllerNext, controllerVars
  <1> QED BY <1>1, <1>2, <1>3, PTL DEF ControllerSpec, Sweeps!Spec

\* The command scan (processScanSending, processScanWaitResponse).
LEMMA ScanRuns ==
    ControllerSpec => ([](part = "scan") /\ Scan!Spec) \/ []~(part = "scan")
  <1>1. ControllerInit => Scan!Init
    BY DEF ControllerInit
  <1>2. part = "scan" /\ [ControllerNext]_controllerVars
        => (part = "scan")' /\ [Scan!Next]_(Scan!vars)
    <2>1. CASE UNCHANGED controllerVars
      BY <2>1 DEF controllerVars, scanVars, Scan!vars
    <2>2. CASE ControllerNext
      BY <2>2 DEF ControllerNext
    <2> QED BY <2>1, <2>2
  <1>3. ~(part = "scan") /\ [ControllerNext]_controllerVars => (~(part = "scan"))'
    BY DEF ControllerNext, controllerVars
  <1> QED BY <1>1, <1>2, <1>3, PTL DEF ControllerSpec, Scan!Spec

\* The import (processKeyImportWorkflow).
LEMMA ImportRuns ==
    ControllerSpec => ([](part = "import") /\ Import!Spec) \/ []~(part = "import")
  <1>1. ControllerInit => Import!Init
    BY DEF ControllerInit
  <1>2. part = "import" /\ [ControllerNext]_controllerVars
        => (part = "import")' /\ [Import!Next]_(Import!vars)
    <2>1. CASE UNCHANGED controllerVars
      BY <2>1 DEF controllerVars, sessionVars, importVars, Import!vars, Import!recovery,
             Import!controller, Import!workflow, Import!adopted, Import!bounds
    <2>2. CASE ControllerNext
      BY <2>2 DEF ControllerNext
    <2> QED BY <2>1, <2>2
  <1>3. ~(part = "import") /\ [ControllerNext]_controllerVars => (~(part = "import"))'
    BY DEF ControllerNext, controllerVars
  <1> QED BY <1>1, <1>2, <1>3, PTL DEF ControllerSpec, Import!Spec

\* Whichever machine runs, its variables keep their types, for any devices, hubs, frequencies,
\* commands, tables, queues and deadlines, and with either driver.
THEOREM AllTypes ==
    ASSUME ControllerAssumption
    PROVE  ControllerSpec => []TypesOK
  <1>1. ControllerSpec => [](part = "reports" => Reports!TypeOK)
    <2>1. Reports!ReceiveAssumption
      BY DEF ControllerAssumption
    <2> QED BY <2>1, ReportsTyped, ReportsRun, PTL
  <1>2. ControllerSpec => [](part = "extraction" => TypeOK)
    <2>1. ExtractionAssumption
      BY DEF ControllerAssumption
    <2> QED BY <2>1, Types, ExtractionRuns, PTL
  <1>3. ControllerSpec => [](part = "gateway" => Serving!TypeOK)
    <2>1. Serving!GatewayAssumption
      BY DEF ControllerAssumption
    <2> QED BY <2>1, GatewayTypes, GatewayRuns, PTL
  <1>4. ControllerSpec => [](part = "listening" => Listening!TypeOK)
    <2>1. Listening!PassiveListenAssumption
      BY DEF ControllerAssumption
    <2> QED BY <2>1, ListenTypes, ListeningRuns, PTL
  <1>5. ControllerSpec => [](part = "discovery" => Sweeps!TypeOK)
    <2>1. Sweeps!DiscoveryAssumption
      BY DEF ControllerAssumption
    <2> QED BY <2>1, SweepTypes, DiscoveryRuns, PTL
  <1>6. ControllerSpec => [](part = "scan" => Scan!TypeOK)
    <2>1. Scan!CommandScanAssumption
      BY DEF ControllerAssumption
    <2> QED BY <2>1, ScanTypes, ScanRuns, PTL
  <1>7. ControllerSpec => [](part = "import" => Import!TypeOK)
    <2>1. Import!ImportAssumption
      BY DEF ControllerAssumption
    <2> QED BY <2>1, ImportInBounds, ImportRuns, PTL
  <1>8. /\ part = "reports" => Reports!TypeOK
        /\ part = "extraction" => TypeOK
        /\ part = "gateway" => Serving!TypeOK
        /\ part = "listening" => Listening!TypeOK
        /\ part = "discovery" => Sweeps!TypeOK
        /\ part = "scan" => Scan!TypeOK
        /\ part = "import" => Import!TypeOK
        => TypesOK
    BY DEF TypesOK
  <1> QED BY <1>1, <1>2, <1>3, <1>4, <1>5, <1>6, <1>7, <1>8, PTL

\* A machine that does not run has not begun: nothing listens, no session of gateway mode
\* waits, no poll is queued, no device verified, no key captured, no report applied, no sweep
\* is complete and no answer stored.
AtRest ==
    /\ part # "listening" => sniff = "Idle" /\ ~ oneWay /\ ~ mPassiveMode /\ sniffed.node = NoNode
    /\ part # "gateway" => gatewayState = "GatewayIdle"
    /\ part # "extraction" => /\ background = 0 /\ result = NoResult
                              /\ verifySeen = FALSE /\ authDone = FALSE
    /\ part # "reports" => applied = [d \in Device |-> 0]
    /\ part # "import" => captured = NoHub
    /\ part # "discovery" => complete = FALSE
    /\ part # "scan" => found = 0 /\ bitmask = {} /\ stored = {}

LEMMA OthersRest == ControllerSpec => []AtRest
  <1>1. ControllerInit => AtRest
    BY DEF ControllerInit, AtRest, Listening!Init, Listening!NoResult, Serving!Init, Init,
           Import!Init, Import!RecoveryInit, Sweeps!Init, Scan!Init, Reports!Init
  <1>2. AtRest /\ [ControllerNext]_controllerVars => AtRest'
    <2> SUFFICES ASSUME AtRest, [ControllerNext]_controllerVars PROVE AtRest'
      OBVIOUS
    <2> USE DEF AtRest, listenVars, gatewayVars, extractionVars, importVars, NoResult,
               discoveryVars, scanVars, authVars
    <2>1. CASE UNCHANGED controllerVars
      BY <2>1 DEF controllerVars
    <2>2. CASE part = "reports" /\ UNCHANGED part /\ UNCHANGED ReportsRest
      BY <2>2 DEF ReportsRest
    <2>3. CASE part = "extraction" /\ UNCHANGED part /\ UNCHANGED ExtractionRest
      BY <2>3 DEF ExtractionRest
    <2>4. CASE part = "gateway" /\ UNCHANGED part /\ UNCHANGED GatewayRest
      BY <2>4 DEF GatewayRest
    <2>5. CASE part = "listening" /\ UNCHANGED part /\ UNCHANGED ListeningRest
      BY <2>5 DEF ListeningRest
    <2>6. CASE part = "discovery" /\ UNCHANGED part /\ UNCHANGED DiscoveryRest
      BY <2>6 DEF DiscoveryRest
    <2>7. CASE part = "scan" /\ UNCHANGED part /\ UNCHANGED ScanRest
      BY <2>7 DEF ScanRest
    <2>8. CASE part = "import" /\ UNCHANGED part /\ UNCHANGED ImportRest
      BY <2>8 DEF ImportRest
    <2> QED BY <2>1, <2>2, <2>3, <2>4, <2>5, <2>6, <2>7, <2>8 DEF ControllerNext
  <1> QED BY <1>1, <1>2, PTL DEF ControllerSpec

\* An idle controller is ready, whichever machine made it idle: with a driver that takes its
\* answers it receives, and no user of passive listening leaves it mute or lets it send.
THEOREM AlwaysReady ==
    ASSUME ControllerAssumption
    PROVE  ControllerSpec => IdleIsReady
  <1>1. ControllerSpec => [](part = "reports" /\ ~ AnswersFail => Reports!IdleListens)
    <2>1. CASE ~ AnswersFail
      BY <2>1, ListensWhenIdle, ReportsRun, PTL
    <2>2. CASE AnswersFail
      BY <2>2, PTL
    <2> QED BY <2>1, <2>2
  <1>2. ControllerSpec => [](part = "listening" => Listening!PassiveMeansListening)
    BY MuteMeansListening, ListeningRuns, PTL
  <1>3. ControllerSpec => [](mPassiveMode => mState = "PassiveListening")
    <2>1. /\ AtRest
          /\ part = "listening" => Listening!PassiveMeansListening
          => (mPassiveMode => mState = "PassiveListening")
      BY DEF AtRest, Listening!PassiveMeansListening
    <2> QED BY <1>2, <2>1, OthersRest, PTL
  <1>4. ControllerSpec => Listening!TimeoutsLeaveOthersAlone
    <2>1. AtRest /\ ~(part = "listening")
          => [Listening!Timeouts /\ mState = "Busy" => mState' = "Busy"]_(Listening!vars)
      BY DEF AtRest, Listening!Timeouts, Listening!SniffTimeout, Listening!OneWayTimeout
    <2>2. ControllerSpec /\ []~(part = "listening") => Listening!TimeoutsLeaveOthersAlone
      BY <2>1, OthersRest, PTL DEF Listening!TimeoutsLeaveOthersAlone
    <2> QED BY <2>2, TimeoutsTakeNothing, ListeningRuns, PTL
  <1> QED BY <1>1, <1>2, <1>3, <1>4, PTL DEF IdleIsReady

\* What the controller says it has gone through it has gone through: a discovery asked on every
\* channel in every sweep, a stored scan saw the whole list and counted each answer once.
THEOREM WholeScans ==
    ASSUME ControllerAssumption
    PROVE  ControllerSpec => []ScansWhole
  <1>1. ControllerSpec => []Sweeps!EveryChannelAsked
    <2>1. Sweeps!DiscoveryAssumption
      BY DEF ControllerAssumption
    <2>2. AskedSoFar => Sweeps!EveryChannelAsked
      BY DEF AskedSoFar, Sweeps!EveryChannelAsked
    <2>3. AtRest /\ ~(part = "discovery") => Sweeps!EveryChannelAsked
      BY DEF AtRest, Sweeps!EveryChannelAsked
    <2> QED BY <2>1, <2>2, <2>3, SweepsAsk, DiscoveryRuns, OthersRest, PTL
  <1>2. ControllerSpec => [](Scan!FoundCountsBits /\ Scan!StoredIsWholeScan)
    <2>1. Scan!CommandScanAssumption
      BY DEF ControllerAssumption
    <2>2. ScannedSoFar => Scan!FoundCountsBits /\ Scan!StoredIsWholeScan
      BY DEF ScannedSoFar
    <2>3. AtRest /\ ~(part = "scan") => Scan!FoundCountsBits /\ Scan!StoredIsWholeScan
      BY FS_EmptySet, ScanCounts DEF AtRest, Scan!FoundCountsBits, Scan!StoredIsWholeScan
    <2> QED BY <2>1, <2>2, <2>3, ScansCount, ScanRuns, OthersRest, PTL
  <1> QED BY <1>1, <1>2, PTL DEF ScansWhole

\* The key a controller reports, and verifies devices with, is that of the hub it bound itself to.
THEOREM KeysAreRight ==
    ASSUME ControllerAssumption
    PROVE  ControllerSpec => []KeyIsRight
  <1>1. ExtractionAssumption
    BY DEF ControllerAssumption
  <1>2. AtRest /\ ~(part = "extraction") => KeyIsRight
    BY DEF AtRest, KeyIsRight, KeyOfTheHub, ChecksTheKey, NoResult
  <1> QED BY <1>1, <1>2, RightKey, ExtractionRuns, OthersRest, PTL

\* A controller applies the reports of a device in the order they were made.
THEOREM AppliesInOrder ==
    ASSUME ControllerAssumption
    PROVE  ControllerSpec => AppliedInOrder
  <1>1. /\ AtRest /\ AtRest' /\ ~(part = "reports") /\ (~(part = "reports"))'
        => [\A d \in DOMAIN applied : applied'[d] >= applied[d]]_(Reports!vars)
    BY DEF AtRest
  <1>2. ControllerSpec /\ []~(part = "reports") => AppliedInOrder
    BY <1>1, OthersRest, PTL DEF AppliedInOrder, Reports!AppliedInOrder
  <1>3. Reports!ReceiveAssumption
    BY DEF ControllerAssumption
  <1> QED BY <1>2, <1>3, ReportsInOrder, ReportsRun, PTL

\* A session of key extraction, and that an import is started for, keeps the promise of
\* KeyRecovery.
LEMMA SessionsRecover ==
    ASSUME ControllerAssumption
    PROVE  ControllerSpec => Keys!RecoverySpec
  <1> USE DEF Recovery!RecoveryNext, Recovery!Arm, Recovery!Lock, Recovery!Capture,
              Recovery!Disarm, Recovery!Clear, Recovery!recovery,
              Keys!RecoveryNext, Keys!Arm, Keys!Lock, Keys!Capture, Keys!Disarm, Keys!Clear,
              Keys!recovery
  <1>1. ControllerInit => Keys!RecoveryInit
    BY DEF ControllerInit, Init, NoResult, Import!Init, Import!RecoveryInit, Keys!RecoveryInit
  <1>2. ControllerSpec /\ [](part = "extraction") /\ Spec => Keys!RecoverySpec
    <2>1. ExtractionAssumption
      BY DEF ControllerAssumption
    <2>2. /\ part = "extraction" /\ AtRest /\ AtRest' /\ (part = "extraction")'
          /\ [Recovery!RecoveryNext]_(Recovery!recovery)
          => [Keys!RecoveryNext]_(Keys!recovery)
      <3> SUFFICES ASSUME captured = NoHub, captured' = NoHub,
                          [Recovery!RecoveryNext]_(Recovery!recovery)
                   PROVE  [Keys!RecoveryNext]_(Keys!recovery)
        BY DEF AtRest
      <3> QED OBVIOUS
    <2>3. Spec => [][Recovery!RecoveryNext]_(Recovery!recovery)
      BY <2>1, SessionKeepsRecovery, PTL DEF Recovers, Recovery!RecoverySpec
    <2> QED BY <1>1, <2>2, <2>3, OthersRest, PTL DEF ControllerSpec, Keys!RecoverySpec
  <1>3. ControllerSpec /\ [](part = "import") /\ Import!Spec => Keys!RecoverySpec
    <2>1. /\ part = "import" /\ AtRest /\ AtRest' /\ (part = "import")'
          /\ [Import!Next]_(Import!vars)
          => [Keys!RecoveryNext]_(Keys!recovery)
      <3> HIDE DEF Keys!RecoveryNext, Keys!recovery
      <3> SUFFICES ASSUME part = "import", AtRest, AtRest', (part = "import")',
                          [Import!Next]_(Import!vars)
                   PROVE  [Keys!RecoveryNext]_(Keys!recovery)
        OBVIOUS
      <3>0. result.hub = NoHub /\ result'.hub = NoHub
        BY DEF AtRest, NoResult
      <3> USE <3>0 DEF Keys!RecoveryNext, Keys!recovery
      <3>1. Import!Arm => Keys!Arm
        BY DEF Import!Arm
      <3>2. ASSUME NEW h \in Hub, Import!Lock(h) PROVE Keys!Lock(h)
        BY <3>2 DEF Import!Lock
      <3>3. Import!Capture => Keys!Capture
        BY DEF Import!Capture
      <3>4. ASSUME NEW timeout \in BOOLEAN, Import!Disarm(timeout) PROVE Keys!Disarm(timeout)
        BY <3>4 DEF Import!Disarm
      <3>5. Import!Clear => Keys!Clear
        BY DEF Import!Clear
      <3>6. UNCHANGED Import!recovery => UNCHANGED Keys!recovery
        BY DEF Import!recovery
      <3>7. UNCHANGED Import!vars => UNCHANGED Import!recovery
        BY DEF Import!vars
      <3> HIDE DEF Keys!Arm, Keys!Lock, Keys!Capture, Keys!Disarm, Keys!Clear, Keys!recovery
      <3>8. CASE Import!ControllerLoop
        BY <3>2, <3>3, <3>4, <3>6, <3>8
           DEF Import!ControllerLoop, Import!HubActs, Import!SessionEnds, Import!Idles,
               Import!CommandEnds, Import!DiscoveryGoesOn, Import!SniffCaptures, Import!Waits
      <3>9. CASE Import!ProcessKeyImportWorkflow
        BY <3>6, <3>9 DEF Import!ProcessKeyImportWorkflow
      <3>10. CASE Import!Calls
        BY <3>1, <3>4, <3>5, <3>6, <3>10
           DEF Import!Calls, Import!StartImport, Import!Persist, Import!Console,
               Import!SendCommand, Import!Sniff, Import!NoCall
      <3> QED BY <3>6, <3>7, <3>8, <3>9, <3>10 DEF Import!Next
    <2> QED BY <1>1, <2>1, OthersRest, PTL DEF ControllerSpec, Import!Spec, Keys!RecoverySpec
  <1>4. ControllerSpec /\ []~(part = "extraction") /\ []~(part = "import") => Keys!RecoverySpec
    <2>1. ~(part = "extraction") /\ ~(part = "import") /\ [ControllerNext]_controllerVars
          => UNCHANGED Keys!recovery
      <3> SUFFICES ASSUME ~(part = "extraction"), ~(part = "import"),
                          [ControllerNext]_controllerVars
                   PROVE  UNCHANGED <<armed, status, locked, captured, result>>
        OBVIOUS
      <3> USE DEF sessionVars, extractionVars, importVars
      <3>1. CASE UNCHANGED controllerVars
        BY <3>1 DEF controllerVars
      <3>2. CASE ControllerNext
        BY <3>2 DEF ControllerNext, ReportsRest, GatewayRest, ListeningRest, DiscoveryRest,
           ScanRest
      <3> QED BY <3>1, <3>2
    <2>2. UNCHANGED Keys!recovery => [Keys!RecoveryNext]_(Keys!recovery)
      OBVIOUS
    <2> QED BY <1>1, <2>1, <2>2, PTL DEF ControllerSpec, Keys!RecoverySpec
  <1> QED BY <1>2, <1>3, <1>4, ExtractionRuns, ImportRuns, PTL

\* Keys come in and go out only as they should, for any hubs, devices, lists and delays: a
\* session captures the key of the hub it is bound to and its verification has the radio for
\* itself, an import takes over a gateway as a whole, an overheard key was read under its own
\* challenge unless a later one went unheard, and gateway mode waits for, and lists, only whom it gave its key to.
THEOREM KeysTakenOver ==
    ASSUME ControllerAssumption
    PROVE  ControllerSpec => KeyTakenOver
  <1>1. ControllerSpec => PollsWait
    <2>1. ExtractionAssumption
      BY DEF ControllerAssumption
    <2>2. /\ ~(part = "extraction") /\ AtRest /\ AtRest' /\ (~(part = "extraction"))'
          => [grace # 0 => background' >= background]_vars
      BY DEF AtRest
    <2>3. ControllerSpec /\ []~(part = "extraction") => PollsWait
      BY <2>2, OthersRest, PTL DEF PollsWait
    <2> QED BY <2>1, <2>3, PollsWaitVerification, ExtractionRuns, PTL
  <1>2. ControllerSpec => Import!AdoptsTheGateway
    <2>1. Import!ImportAssumption
      BY DEF ControllerAssumption
    <2>2. ~(part = "import") /\ [ControllerNext]_controllerVars
          => [Import!adopted' # Import!adopted /\ sniffs = 0
              => identity' \in Hub /\ sysKey' = identity' /\ ~ armed]_(Import!vars)
      <3> SUFFICES ASSUME ~(part = "import"), [ControllerNext]_controllerVars
                   PROVE  UNCHANGED <<identity, sysKey>>
        BY DEF Import!adopted
      <3> USE DEF importVars
      <3>1. CASE UNCHANGED controllerVars
        BY <3>1 DEF controllerVars
      <3>2. CASE ControllerNext
        BY <3>2 DEF ControllerNext, ReportsRest, ExtractionRest, GatewayRest, ListeningRest,
           DiscoveryRest, ScanRest
      <3> QED BY <3>1, <3>2
    <2>3. ControllerSpec /\ []~(part = "import") => Import!AdoptsTheGateway
      BY <2>2, PTL DEF ControllerSpec, Import!AdoptsTheGateway
    <2> QED BY <2>1, <2>3, TakesOverAGateway, ImportRuns, PTL
  <1>3. ControllerSpec => []Listening!CapturedKeyIsRight
    <2>1. Listening!PassiveListenAssumption
      BY DEF ControllerAssumption
    <2>2. AtRest /\ ~(part = "listening") => Listening!CapturedKeyIsRight
      BY DEF AtRest, Listening!CapturedKeyIsRight
    <2>3. ControllerSpec /\ []~(part = "listening") => []Listening!CapturedKeyIsRight
      BY <2>2, OthersRest, PTL
    <2> QED BY <2>1, <2>3, SniffedKeyIsRight, ListeningRuns, PTL
  <1>4. ControllerSpec => []Serving!WaitsForWhomItServed
    <2>1. Serving!GatewayAssumption
      BY DEF ControllerAssumption
    <2>2. AtRest /\ ~(part = "gateway") => Serving!WaitsForWhomItServed
      BY DEF AtRest, Serving!WaitsForWhomItServed
    <2>3. ControllerSpec /\ []~(part = "gateway") => []Serving!WaitsForWhomItServed
      BY <2>2, OthersRest, PTL
    <2> QED BY <2>1, <2>3, WaitsForTheServed, GatewayRuns, PTL
  <1>5. ControllerSpec => [](part = "gateway" /\ ~ AnswersFail => Serving!PairedWasSentKey)
    <2>1. Serving!GatewayAssumption
      BY DEF ControllerAssumption
    <2>2. CASE ~ AnswersFail
      BY <2>1, <2>2, ListedWasServed, GatewayRuns, PTL
    <2>3. CASE AnswersFail
      BY <2>3, PTL
    <2> QED BY <2>2, <2>3
  <1> QED BY <1>1, <1>2, <1>3, <1>4, <1>5, SessionsRecover, PTL DEF KeyTakenOver
=============================================================================
