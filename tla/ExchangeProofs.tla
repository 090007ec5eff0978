--------------------------- MODULE ExchangeProofs ---------------------------
(***************************************************************************)
(* What the command engine promises of a command, for any set of commands, *)
(* any timeouts and budget and any number of retries: one outcome, bounded *)
(* and cautious copies, and an outcome that does not deny what the         *)
(* actuator has accepted.                                                  *)
(***************************************************************************)
EXTENDS Exchange, TLAPS

-----------------------------------------------------------------------------
(* Constants and the working copies of queue entries *)

\* The constants in the form the steps use them.
LEMMA Constants ==
    /\ RxTimeout \in Nat /\ FinalTimeout \in Nat /\ Budget \in Nat
    /\ RetryGap \in Nat /\ RetryGap > 0 /\ UnconfirmedGap \in Nat /\ UnconfirmedGap > 0
    /\ Capacity \in Nat /\ Repeats \in Nat /\ MaxPreambles \in Nat
    /\ NoRetry \in Nat /\ RetryGap < NoRetry /\ UnconfirmedGap < NoRetry /\ 0 < NoRetry
    /\ AgeLimit \in Nat
  BY TimeAssumption, SMT DEF NoRetry, AgeLimit

Copy == [cmd : Command, active : BOOLEAN, retries : Nat, accepted : BOOLEAN, tries : 0..2]

\* A copy has attempts left, and while it is active has counted one unconfirmed Execute
\* at most.
Sound(e) ==
    /\ e \in Copy /\ e.retries < e.cmd.maxAttempts
    /\ e.active => e.tries <= 1

\* The fields of a command.
LEMMA CommandType ==
    ASSUME NEW c \in Command
    PROVE  /\ c.execute \in BOOLEAN /\ c.repeatable \in BOOLEAN /\ c.oneWay \in BOOLEAN
           /\ c.tracked \in BOOLEAN
           /\ c.maxAttempts \in Nat /\ 0 < c.maxAttempts
  BY CommandAssumption

\* A command just taken from the queue, or one whose frame could not be built.
LEMMA EntrySound ==
    ASSUME NEW c \in Command
    PROVE  LET e == Entry(c)
               d == [e EXCEPT !.active = FALSE]
           IN  /\ e \in Copy /\ e.cmd = c /\ e.active /\ e.retries = 0 /\ ~ e.accepted
               /\ e.tries = 0 /\ Sound(e)
               /\ d \in Copy /\ d.cmd = c /\ ~ d.active /\ d.retries = 0 /\ ~ d.accepted
               /\ d.tries = 0 /\ Sound(d)
  <1> DEFINE e == Entry(c)
             d == [e EXCEPT !.active = FALSE]
  <1>1. e = [cmd |-> c, active |-> TRUE, retries |-> 0, accepted |-> FALSE, tries |-> 0]
    BY DEF Entry
  <1> HIDE DEF e
  <1>2. /\ e \in Copy /\ e.cmd = c /\ e.active /\ e.retries = 0 /\ ~ e.accepted
        /\ e.tries = 0
    BY <1>1 DEF Copy
  <1>3. /\ d \in Copy /\ d.cmd = c /\ ~ d.active /\ d.retries = 0 /\ ~ d.accepted
        /\ d.tries = 0
    BY <1>2 DEF Copy
  <1> HIDE DEF d
  <1>4. Sound(e) /\ Sound(d)
    BY <1>2, <1>3, CommandType DEF Sound
  <1> QED BY <1>2, <1>3, <1>4 DEF e, d

\* The end of an exchange.
LEMMA ClosedSound ==
    ASSUME NEW e, Sound(e) \/ (e \in Copy /\ e.retries < e.cmd.maxAttempts)
    PROVE  LET d == [e EXCEPT !.active = FALSE]
           IN  /\ d \in Copy /\ d.cmd = e.cmd /\ ~ d.active /\ d.retries = e.retries
               /\ d.accepted = e.accepted /\ d.tries = e.tries /\ Sound(d)
  <1> DEFINE d == [e EXCEPT !.active = FALSE]
  <1>1. e \in Copy /\ e.retries < e.cmd.maxAttempts
    BY DEF Sound
  <1>2. /\ d \in Copy /\ d.cmd = e.cmd /\ ~ d.active /\ d.retries = e.retries
        /\ d.accepted = e.accepted /\ d.tries = e.tries
    BY <1>1 DEF Copy
  <1> HIDE DEF d
  <1>3. Sound(d)
    BY <1>1, <1>2 DEF Sound
  <1> QED BY <1>2, <1>3 DEF d

\* startPairing clears the command in flight.
LEMMA ClearedSound ==
    ASSUME NEW e, Sound(e)
    PROVE  LET d == [e EXCEPT !.active = FALSE, !.retries = 0, !.accepted = FALSE, !.tries = 0]
           IN  /\ d \in Copy /\ d.cmd = e.cmd /\ ~ d.active /\ d.retries = 0
               /\ ~ d.accepted /\ d.tries = 0 /\ Sound(d)
  <1> DEFINE a == [e EXCEPT !.active = FALSE]
             b == [a EXCEPT !.retries = 0]
             c == [b EXCEPT !.accepted = FALSE]
             d == [c EXCEPT !.tries = 0]
  <1>0. e \in Copy
    BY DEF Sound
  <1>1. a \in Copy /\ ~ a.active /\ a.cmd = e.cmd
    BY <1>0 DEF Copy
  <1> HIDE DEF a
  <1>2. b \in Copy /\ ~ b.active /\ b.cmd = e.cmd /\ b.retries = 0
    BY <1>1 DEF Copy
  <1> HIDE DEF b
  <1>3. /\ c \in Copy /\ ~ c.active /\ c.cmd = e.cmd /\ c.retries = 0
        /\ ~ c.accepted
    BY <1>2 DEF Copy
  <1> HIDE DEF c
  <1>4. /\ d \in Copy /\ ~ d.active /\ d.cmd = e.cmd /\ d.retries = 0
        /\ ~ d.accepted /\ d.tries = 0
    BY <1>3 DEF Copy
  <1> HIDE DEF d
  <1>5. e.cmd \in Command
    BY <1>0 DEF Copy
  <1>6. Sound(d)
    BY <1>4, <1>5, CommandType DEF Sound
  <1> QED BY <1>4, <1>6, Zenon DEF a, b, c, d

\* An unconfirmed Execute is counted; it may be the end.
LEMMA CountedSound ==
    ASSUME NEW e, Sound(e), e.active
    PROVE  LET d == [e EXCEPT !.accepted = TRUE, !.tries = @ + 1]
           IN  /\ d \in Copy /\ d.cmd = e.cmd /\ d.active /\ d.retries = e.retries
               /\ d.accepted /\ d.tries = e.tries + 1 /\ d.retries < d.cmd.maxAttempts
  <1> DEFINE a == [e EXCEPT !.accepted = TRUE]
             d == [a EXCEPT !.tries = @ + 1]
  <1>1. e \in Copy /\ e.retries < e.cmd.maxAttempts /\ e.tries <= 1 /\ e.active
    BY DEF Sound
  <1>2. /\ a \in Copy /\ a.active /\ a.cmd = e.cmd /\ a.retries = e.retries /\ a.accepted
        /\ a.tries = e.tries
    BY <1>1 DEF Copy
  <1> HIDE DEF a
  <1>3. /\ d \in Copy /\ d.active /\ d.cmd = e.cmd /\ d.retries = e.retries /\ d.accepted
        /\ d.tries = e.tries + 1
    BY <1>1, <1>2 DEF Copy
  <1> HIDE DEF d
  <1>4. d.retries < d.cmd.maxAttempts
    BY <1>1, <1>3
  <1> QED BY <1>3, <1>4, Zenon DEF a, d

\* A retry is counted, whether or not its frame can be built.
LEMMA RetriedSound ==
    ASSUME NEW e, Sound(e), e.retries < e.cmd.maxAttempts - 1
    PROVE  LET a == [e EXCEPT !.retries = @ + 1]
               d == [e EXCEPT !.retries = @ + 1, !.active = FALSE]
           IN  /\ a \in Copy /\ a.cmd = e.cmd /\ a.active = e.active
               /\ a.retries = e.retries + 1 /\ a.accepted = e.accepted /\ a.tries = e.tries
               /\ Sound(a)
               /\ d \in Copy /\ d.cmd = e.cmd /\ ~ d.active
               /\ d.retries = e.retries + 1 /\ d.accepted = e.accepted /\ d.tries = e.tries
               /\ Sound(d)
  <1> DEFINE a == [e EXCEPT !.retries = @ + 1]
             d == [a EXCEPT !.active = FALSE]
  <1>1. e \in Copy /\ (e.active => e.tries <= 1) /\ e.cmd \in Command
    BY DEF Sound, Copy
  <1>2. /\ a \in Copy /\ a.active = e.active /\ a.cmd = e.cmd /\ a.retries = e.retries + 1
        /\ a.accepted = e.accepted /\ a.tries = e.tries
    BY <1>1 DEF Copy
  <1> HIDE DEF a
  <1>3. /\ d \in Copy /\ ~ d.active /\ d.cmd = e.cmd /\ d.retries = e.retries + 1
        /\ d.accepted = e.accepted /\ d.tries = e.tries
    BY <1>2 DEF Copy
  <1> HIDE DEF d
  <1>4. e.retries + 1 < e.cmd.maxAttempts
    BY <1>1, CommandType DEF Copy
  <1>5. Sound(a) /\ Sound(d)
    BY <1>1, <1>2, <1>3, <1>4 DEF Sound
  <1> QED BY <1>2, <1>3, <1>5, Zenon DEF a, d

-----------------------------------------------------------------------------
(* Types *)

QueueType == pending \in Seq(Command) /\ Len(pending) <= Capacity
StateType ==
    /\ mState \in ExchangeStates \cup {"Idle", "Auth", "Other"}
    /\ radio \in {"Standby", "Receiving", "Transmitting"}
    /\ rxFrame \in Frames \cup {NoFrame}
FlagType ==
    /\ mAuthResponseSent \in BOOLEAN /\ mWaitingFinalResponse \in BOOLEAN
    /\ mSawChallenge \in BOOLEAN
ClockType ==
    /\ retryIn \in 0..NoRetry
    /\ stateAge \in 0..AgeLimit /\ exchangeAge \in 0..Budget
    /\ mResponseTimeoutMs \in {RxTimeout, FinalTimeout}
CountType ==
    /\ mTx1WRepeatRemaining \in 0..Repeats /\ preambles \in 0..MaxPreambles
    /\ copies \in Nat /\ answered \in Nat /\ lateCopies \in Nat
ReportType == results \in Seq(Results) /\ confirms \in BOOLEAN /\ pollTold \in BOOLEAN

\* TypeOK and what the copy of a command in flight may hold.
TypeInv ==
    QueueType /\ StateType /\ FlagType /\ ClockType /\ CountType /\ ReportType /\ Sound(cur)

\* What is proved inductive contains the type invariant.
LEMMA TypeInvTypes == TypeInv => TypeOK
  BY DEF TypeInv, TypeOK, QueueType, StateType, FlagType, ClockType, CountType, ReportType,
         Sound, Copy

\* Every report is one of the results and leaves a boolean in the channel.
LEMMA NotifyType ==
    ASSUME ReportType, NEW e, NEW r \in Results, Notify(e, r)
    PROVE  results' \in Seq(Results) /\ confirms' \in BOOLEAN
  <1>1. Reported(e, r) \in Results
    BY DEF Reported, Results
  <1>2. results' \in Seq(Results)
    BY <1>1 DEF Notify, ReportType
  <1>3. confirms' \in BOOLEAN
    BY Zenon DEF Notify, ReportType
  <1> QED BY <1>2, <1>3

\* A radio or build error closes the exchange with a result.
LEMMA LocalFailureType ==
    ASSUME ReportType, Sound(cur), LocalFailure
    PROVE  /\ results' \in Seq(Results) /\ confirms' \in BOOLEAN /\ mState' = "Idle"
           /\ Sound(cur') /\ ~ cur'.active /\ cur'.cmd = cur.cmd
           /\ cur'.retries = cur.retries /\ cur'.accepted = cur.accepted
           /\ cur'.tries = cur.tries
  <1> DEFINE d == [cur EXCEPT !.active = FALSE]
  <1>1. Notify(cur, "FailedBeforeAuthentication") /\ cur' = d /\ mState' = "Idle"
    BY Zenon DEF LocalFailure
  <1>2. "FailedBeforeAuthentication" \in Results
    BY DEF Results
  <1>3. /\ Sound(d) /\ ~ d.active /\ d.cmd = cur.cmd /\ d.retries = cur.retries
        /\ d.accepted = cur.accepted /\ d.tries = cur.tries
    BY ClosedSound, Zenon
  <1>4. results' \in Seq(Results) /\ confirms' \in BOOLEAN
    BY <1>1, <1>2, NotifyType
  <1> HIDE DEF d
  <1> QED BY <1>1, <1>3, <1>4

\* An exchange that fails is closed with one of two results, and its flags are cleared.
LEMMA ExchangeFailureType ==
    ASSUME ReportType, NEW e \in Copy, NEW b \in BOOLEAN, ExchangeFailure(e, b)
    PROVE  ReportType'
  <1> DEFINE r == IF b \/ e.accepted THEN "AuthenticatedUnconfirmed" ELSE "Unknown"
  <1>1. r \in Results
    BY DEF Results
  <1>2. Notify(e, r)
    BY DEF ExchangeFailure
  <1>3. pollTold' = (pollTold \/ e.cmd.tracked)
    BY DEF ExchangeFailure
  <1>4. e.cmd.tracked \in BOOLEAN /\ pollTold \in BOOLEAN
    BY CommandType DEF Copy, ReportType
  <1> HIDE DEF r
  <1> QED BY <1>1, <1>2, <1>3, <1>4, NotifyType DEF ReportType

\* failExchange: reported, cleared and Idle.
LEMMA FailExchangeType ==
    ASSUME ReportType, NEW e \in Copy, e.retries < e.cmd.maxAttempts, FailExchange(e)
    PROVE  /\ ReportType' /\ ExchangeFailure(e, mSawChallenge /\ mWaitingFinalResponse)
           /\ Sound(cur') /\ ~ cur'.active /\ cur'.cmd = e.cmd
           /\ cur'.retries = e.retries /\ cur'.accepted = e.accepted
           /\ mAuthResponseSent' = FALSE /\ mWaitingFinalResponse' = FALSE
           /\ mSawChallenge' = FALSE /\ retryIn' = NoRetry /\ exchangeAge' = 0
           /\ mResponseTimeoutMs' = RxTimeout /\ stateAge' = stateAge /\ mState' = "Idle"
  <1> DEFINE d == [e EXCEPT !.active = FALSE]
             b == mSawChallenge /\ mWaitingFinalResponse
  <1>1. cur' = d /\ ExchangeFailure(e, b)
    BY Zenon DEF FailExchange
  <1>2. b \in BOOLEAN
    OBVIOUS
  <1>3. ReportType'
    BY <1>1, <1>2, ExchangeFailureType
  <1>4. /\ Sound(d) /\ ~ d.active /\ d.cmd = e.cmd /\ d.retries = e.retries
        /\ d.accepted = e.accepted
    BY ClosedSound, Zenon
  <1>5. /\ mAuthResponseSent' = FALSE /\ mWaitingFinalResponse' = FALSE
        /\ mSawChallenge' = FALSE /\ retryIn' = NoRetry /\ exchangeAge' = 0
        /\ mResponseTimeoutMs' = RxTimeout /\ stateAge' = stateAge /\ mState' = "Idle"
    BY Zenon DEF FailExchange
  <1> HIDE DEF d
  <1> QED BY <1>1, <1>3, <1>4, <1>5, Zenon

\* The engine starts well typed.
LEMMA TypeInit == Init => TypeInv
  <1> SUFFICES ASSUME Init PROVE TypeInv
    OBVIOUS
  <1>1. cur \in NoCommand
    BY DEF Init
  <1>2. /\ cur = [cmd |-> cur.cmd, active |-> FALSE, retries |-> 0, accepted |-> FALSE,
                  tries |-> 0]
        /\ cur.cmd \in Command
    BY <1>1 DEF NoCommand
  <1>3. ASSUME NEW c \in Command
        PROVE  LET e == [cmd |-> c, active |-> FALSE, retries |-> 0, accepted |-> FALSE,
                         tries |-> 0]
               IN  e \in Copy /\ e.retries = 0 /\ ~ e.active
    BY DEF Copy
  <1>4. cur \in Copy /\ cur.retries = 0 /\ ~ cur.active
    BY <1>2, <1>3, Zenon
  <1>5. Sound(cur)
    <2>1. cur.cmd.maxAttempts \in Nat /\ 0 < cur.cmd.maxAttempts
      BY <1>2, CommandType
    <2> QED BY <1>4, <2>1 DEF Sound
  <1>6. pending \in Seq(Command) /\ Len(pending) <= Capacity /\ results \in Seq(Results)
    BY Constants DEF Init
  <1>7. /\ mState \in ExchangeStates \cup {"Idle", "Auth", "Other"}
        /\ mAuthResponseSent \in BOOLEAN /\ mWaitingFinalResponse \in BOOLEAN
        /\ mSawChallenge \in BOOLEAN
        /\ radio \in {"Standby", "Receiving", "Transmitting"}
        /\ rxFrame \in Frames \cup {NoFrame}
        /\ confirms \in BOOLEAN /\ pollTold \in BOOLEAN
        /\ mResponseTimeoutMs \in {RxTimeout, FinalTimeout}
    BY Zenon DEF Init
  <1>8. /\ retryIn = NoRetry /\ stateAge = 0 /\ exchangeAge = 0
        /\ mTx1WRepeatRemaining = 0 /\ preambles = 0
        /\ copies = 0 /\ answered = 0 /\ lateCopies = 0
    BY Zenon DEF Init
  <1>9. /\ retryIn \in 0..NoRetry
        /\ stateAge \in 0..AgeLimit /\ exchangeAge \in 0..Budget
        /\ mTx1WRepeatRemaining \in 0..Repeats
        /\ preambles \in 0..MaxPreambles
        /\ copies \in Nat /\ answered \in Nat /\ lateCopies \in Nat
    BY <1>8, Constants
  <1> QED BY <1>5, <1>6, <1>7, <1>9, Zenon
        DEF TypeInv, QueueType, StateType, FlagType, ClockType, CountType, ReportType

\* Every handler and every call keeps the types; one step per action.
LEMMA TypeStep == TypeInv /\ [Next]_vars => TypeInv'
  <1> SUFFICES ASSUME TypeInv, [Next]_vars PROVE TypeInv'
    OBVIOUS
  <1> USE DEF flags, clocks, history, report
  <1>0. /\ QueueType /\ StateType /\ FlagType /\ ClockType /\ CountType /\ ReportType
        /\ Sound(cur)
    BY DEF TypeInv
  <1>k. /\ UNCHANGED pending => QueueType'
        /\ UNCHANGED flags => FlagType'
        /\ UNCHANGED clocks => ClockType'
        /\ UNCHANGED <<mTx1WRepeatRemaining, preambles, history>> => CountType'
        /\ UNCHANGED report => ReportType'
        /\ UNCHANGED cur => Sound(cur')
    BY <1>0, Zenon DEF QueueType, FlagType, ClockType, CountType, ReportType
  <1>1. ASSUME NEW c \in Command, SendCommand(c) PROVE TypeInv'
    <2>1. QueueType'
      BY <1>0, <1>1, Constants DEF SendCommand, QueueType
    <2>2. StateType'
      BY <1>0, <1>1, Zenon DEF SendCommand, StateType
    <2> QED BY <1>1, <1>k, <2>1, <2>2, Zenon DEF SendCommand, TypeInv
  <1>2. ASSUME StartPairing PROVE TypeInv'
    <2>1. StateType'
      BY <1>0, <1>2, Zenon DEF StartPairing, StateType
    <2>2. QueueType'
      <3>1. pending' = pending \/ pending' = << >>
        BY <1>2, Zenon DEF StartPairing
      <3>2. << >> \in Seq(Command) /\ Len(<< >>) <= Capacity
        BY Constants
      <3> QED BY <1>0, <3>1, <3>2, Zenon DEF QueueType
    <2>3. FlagType'
      BY <1>0, <1>2, Zenon DEF StartPairing, FlagType
    <2>4. CountType'
      <3>1. mTx1WRepeatRemaining' = 0 /\ UNCHANGED <<preambles, history>>
        BY <1>2, Zenon DEF StartPairing
      <3> QED BY <1>0, <3>1, Constants DEF CountType
    <2>5. Sound(cur')
      <3> DEFINE d == [cur EXCEPT !.active = FALSE, !.retries = 0, !.accepted = FALSE,
                                  !.tries = 0]
      <3>1. cur' = cur \/ cur' = d
        BY <1>2, Zenon DEF StartPairing
      <3>2. Sound(d)
        BY <1>0, ClearedSound, Zenon
      <3> QED BY <1>0, <3>1, <3>2, Zenon
    <2> QED BY <1>2, <1>k, <2>1, <2>2, <2>3, <2>4, <2>5, Zenon DEF StartPairing, TypeInv
  <1>3. ASSUME StartNetworkScan PROVE TypeInv'
    <2>1. StateType'
      BY <1>0, <1>3, Zenon DEF StartNetworkScan, StateType
    <2> QED BY <1>3, <1>k, <2>1, Zenon DEF StartNetworkScan, TypeInv
  <1>4. ASSUME StopNetworkScan PROVE TypeInv'
    <2>1. StateType'
      BY <1>0, <1>4, Zenon DEF StopNetworkScan, StateType
    <2> QED BY <1>4, <1>k, <2>1, Zenon DEF StopNetworkScan, TypeInv
  <1>5. ASSUME StopKeyExtraction PROVE TypeInv'
    <2>1. StateType'
      BY <1>0, <1>5, Zenon DEF StopKeyExtraction, StateType
    <2> QED BY <1>5, <1>k, <2>1, Zenon DEF StopKeyExtraction, TypeInv
  <1>6. ASSUME OtherMachineEnds PROVE TypeInv'
    <2>1. StateType'
      BY <1>0, <1>6, Zenon DEF OtherMachineEnds, StateType
    <2> QED BY <1>6, <1>k, <2>1, Zenon DEF OtherMachineEnds, TypeInv
  <1>7. ASSUME Tick PROVE TypeInv'
    <2>1. StateType'
      BY <1>0, <1>7, Zenon DEF Tick, StateType
    <2>2. ClockType'
      BY <1>0, <1>7, Constants DEF Tick, Capped, ClockType
    <2> QED BY <1>7, <1>k, <2>1, <2>2, Zenon DEF Tick, TypeInv
  <1>8. ASSUME RestartReceive PROVE TypeInv'
    <2>1. StateType'
      BY <1>0, <1>8, Zenon DEF RestartReceive, StateType
    <2> QED BY <1>8, <1>k, <2>1, Zenon DEF RestartReceive, TypeInv
  <1>9. ASSUME PopCommand PROVE TypeInv'
    <2> DEFINE c == Head(pending)
               e == Entry(c)
               d == [e EXCEPT !.active = FALSE]
    <2>1. /\ pending' = Tail(pending) /\ pending # << >>
          /\ mAuthResponseSent' = FALSE /\ mWaitingFinalResponse' = FALSE
          /\ mSawChallenge' = FALSE
          /\ retryIn' = NoRetry /\ exchangeAge' = 0
          /\ preambles' = 0 /\ copies' = 0 /\ answered' = 0 /\ lateCopies' = 0
          /\ pollTold' = FALSE
          /\ mState' \in {mState, "TxPending"}
          /\ UNCHANGED <<stateAge, mResponseTimeoutMs, radio, rxFrame, confirms>>
          /\ mTx1WRepeatRemaining' \in {Repeats, mTx1WRepeatRemaining}
          /\ cur' = e \/ cur' = d
      BY <1>9, Zenon DEF PopCommand
    <2>2. c \in Command
      BY <1>0, <2>1 DEF QueueType
    <2>3. QueueType'
      BY <1>0, <2>1, Constants DEF QueueType
    <2>4. Sound(cur')
      BY <2>1, <2>2, EntrySound, Zenon
    <2> HIDE DEF c, e, d
    <2>5. StateType'
      BY <1>0, <2>1 DEF StateType, ExchangeStates
    <2>6. FlagType'
      BY <2>1, Zenon DEF FlagType
    <2>8. ClockType'
      <3>1. retryIn' = NoRetry /\ exchangeAge' = 0 /\ UNCHANGED <<stateAge, mResponseTimeoutMs>>
        BY <2>1, Zenon
      <3> QED BY <1>0, <3>1, Constants DEF ClockType
    <2>9. CountType'
      <3>1. /\ preambles' = 0 /\ copies' = 0 /\ answered' = 0 /\ lateCopies' = 0
            /\ mTx1WRepeatRemaining' = Repeats \/ UNCHANGED mTx1WRepeatRemaining
        BY <2>1, Zenon
      <3> QED BY <1>0, <3>1, Constants DEF CountType
    <2>7. ReportType'
      <3>1. results' = << >> \/ results' = <<"FailedBeforeAuthentication">>
        BY <1>9, Zenon DEF PopCommand
      <3>2. << >> \in Seq(Results) /\ <<"FailedBeforeAuthentication">> \in Seq(Results)
        BY DEF Results
      <3> QED BY <1>0, <2>1, <3>1, <3>2, Zenon DEF ReportType
    <2> QED BY <2>3, <2>4, <2>5, <2>6, <2>7, <2>8, <2>9, Zenon DEF TypeInv
  <1>10. ASSUME StartTransmit PROVE TypeInv'
    <2>1. StateType'
      BY <1>0, <1>10 DEF StartTransmit, StateType, ExchangeStates
    <2>2. FlagType'
      BY <1>0, <1>10, Zenon DEF StartTransmit, PrepareTransmit, FlagType
    <2>3. ClockType'
      BY <1>0, <1>10, Constants DEF StartTransmit, PrepareTransmit, ClockType
    <2>4. CountType'
      BY <1>0, <1>10 DEF StartTransmit, CountType
    <2> QED BY <1>10, <1>k, <2>1, <2>2, <2>3, <2>4, Zenon DEF StartTransmit, TypeInv
  <1>11. ASSUME StartTransmitFails PROVE TypeInv'
    <2>1. /\ results' \in Seq(Results) /\ confirms' \in BOOLEAN /\ mState' = "Idle"
          /\ Sound(cur')
      BY <1>0, <1>11, LocalFailureType, Zenon DEF StartTransmitFails
    <2>2. StateType' /\ ReportType'
      BY <1>0, <1>11, <2>1, Zenon DEF StartTransmitFails, StateType, ReportType
    <2>3. FlagType'
      BY <1>0, <1>11, Zenon DEF StartTransmitFails, PrepareTransmit, FlagType
    <2>4. ClockType'
      <3>1. PrepareTransmit /\ UNCHANGED <<stateAge, exchangeAge>>
        BY <1>11, Zenon DEF StartTransmitFails
      <3> QED BY <1>0, <3>1, Constants DEF PrepareTransmit, ClockType
    <2> QED BY <1>11, <1>k, <2>1, <2>2, <2>3, <2>4, Zenon DEF StartTransmitFails, TypeInv
  <1>12. ASSUME TwoWayTxDone PROVE TypeInv'
    <2>1. /\ UNCHANGED <<pending, flags, retryIn, exchangeAge, mResponseTimeoutMs,
                   mTx1WRepeatRemaining, rxFrame, preambles, copies, lateCopies, pollTold>>
          /\ CountAnswer /\ (ListenForResponse \/ ReceiverDoesNotStart)
      BY <1>12, Zenon DEF TwoWayTxDone
    <2>2. CountType'
      <3>1. UNCHANGED <<mTx1WRepeatRemaining, preambles, copies, lateCopies>>
        BY <2>1
      <3>2. answered' = answered + 1 \/ answered' = answered
        BY <2>1 DEF CountAnswer
      <3> QED BY <1>0, <3>1, <3>2 DEF CountType
    <2>3. ASSUME LocalFailure, radio' = "Standby", UNCHANGED stateAge PROVE TypeInv'
      <3>1. /\ results' \in Seq(Results) /\ confirms' \in BOOLEAN /\ mState' = "Idle"
            /\ Sound(cur')
        BY <1>0, <2>3, LocalFailureType
      <3>2. StateType' /\ ReportType'
        BY <1>0, <2>1, <2>3, <3>1, Zenon DEF StateType, ReportType
      <3> QED BY <1>k, <2>1, <2>2, <2>3, <3>1, <3>2, Zenon DEF TypeInv
    <2>4. ASSUME \/ ListenForResponse
                 \/ /\ radio' = "Standby"
                    /\ UNCHANGED <<mState, cur, results, confirms, stateAge>>
          PROVE  TypeInv'
      <3>1. StateType'
        BY <1>0, <2>1, <2>4 DEF ListenForResponse, StateType, ExchangeStates
      <3>2. ClockType'
        BY <1>0, <2>1, <2>4, Constants DEF ListenForResponse, ClockType
      <3> QED BY <1>k, <2>1, <2>2, <2>4, <3>1, <3>2, Zenon DEF ListenForResponse, TypeInv
    <2> QED BY <2>1, <2>3, <2>4, Zenon DEF ReceiverDoesNotStart
  <1>13. ASSUME OneWayTxDone PROVE TypeInv'
    <2>1. /\ UNCHANGED <<pending, flags, clocks, rxFrame, preambles, history, pollTold>>
          /\ radio' = "Standby"
      BY <1>13, Zenon DEF OneWayTxDone
    <2>2. CASE mTx1WRepeatRemaining > 0
      <3>1. /\ mTx1WRepeatRemaining' = mTx1WRepeatRemaining - 1
            /\ mState' = "Tx1WRepeat"
            /\ UNCHANGED <<cur, results, confirms>>
        BY <1>13, <2>2, Zenon DEF OneWayTxDone
      <3>2. StateType'
        BY <1>0, <2>1, <3>1 DEF StateType, ExchangeStates
      <3>3. CountType'
        BY <1>0, <2>1, <2>2, <3>1, Constants DEF CountType
      <3> QED BY <1>k, <2>1, <3>1, <3>2, <3>3, Zenon DEF TypeInv
    <2>3. CASE ~ mTx1WRepeatRemaining > 0
      <3>1. /\ Notify(cur, "Completed")
            /\ cur' = [cur EXCEPT !.active = FALSE]
            /\ mState' = "Idle"
            /\ UNCHANGED mTx1WRepeatRemaining
        BY <1>13, <2>3, Zenon DEF OneWayTxDone
      <3>2. "Completed" \in Results
        BY DEF Results
      <3>3. ReportType'
        BY <1>0, <2>1, <3>1, <3>2, NotifyType, Zenon DEF ReportType
      <3>4. Sound(cur')
        BY <1>0, <3>1, ClosedSound, Zenon
      <3>5. StateType'
        BY <1>0, <2>1, <3>1, Zenon DEF StateType
      <3> QED BY <1>k, <2>1, <3>1, <3>3, <3>4, <3>5, Zenon DEF TypeInv
    <2> QED BY <2>2, <2>3
  <1>14. ASSUME LeftTransmit PROVE TypeInv'
    <2>1. /\ UNCHANGED <<pending, flags, retryIn, exchangeAge, mResponseTimeoutMs,
                   mTx1WRepeatRemaining, rxFrame, preambles, history, pollTold>>
          /\ ListenForResponse \/ (LocalFailure /\ UNCHANGED <<radio, stateAge>>)
      BY <1>14, Zenon DEF LeftTransmit
    <2>2. ASSUME LocalFailure, UNCHANGED <<radio, stateAge>> PROVE TypeInv'
      <3>1. /\ results' \in Seq(Results) /\ confirms' \in BOOLEAN /\ mState' = "Idle"
            /\ Sound(cur')
        BY <1>0, <2>2, LocalFailureType
      <3>2. StateType' /\ ReportType'
        BY <1>0, <2>1, <2>2, <3>1, Zenon DEF StateType, ReportType
      <3> QED BY <1>k, <2>1, <2>2, <3>1, <3>2, Zenon DEF TypeInv
    <2>3. ASSUME ListenForResponse PROVE TypeInv'
      <3>1. StateType'
        BY <1>0, <2>1, <2>3 DEF ListenForResponse, StateType, ExchangeStates
      <3>2. ClockType'
        BY <1>0, <2>1, <2>3, Constants DEF ListenForResponse, ClockType
      <3> QED BY <1>k, <2>1, <2>3, <3>1, <3>2, Zenon DEF ListenForResponse, TypeInv
    <2> QED BY <2>1, <2>2, <2>3, Zenon
  <1>15. ASSUME TxTimeout PROVE TypeInv'
    <2>1. /\ results' \in Seq(Results) /\ confirms' \in BOOLEAN /\ mState' = "Idle"
          /\ Sound(cur')
      BY <1>0, <1>15, LocalFailureType, Zenon DEF TxTimeout
    <2>2. StateType' /\ ReportType'
      BY <1>0, <1>15, <2>1, Zenon DEF TxTimeout, StateType, ReportType
    <2> QED BY <1>15, <1>k, <2>1, <2>2, Zenon DEF TxTimeout, TypeInv
  <1>16. ASSUME OneWayRepeat PROVE TypeInv'
    <2>1. /\ UNCHANGED <<pending, flags, retryIn, exchangeAge, mResponseTimeoutMs,
                   mTx1WRepeatRemaining, rxFrame, preambles, history, pollTold>>
          /\ \/ /\ radio' = "Transmitting" /\ stateAge' = 0 /\ mState' = "TxInProgress"
                /\ UNCHANGED <<cur, results, confirms>>
             \/ LocalFailure /\ UNCHANGED <<radio, stateAge>>
      BY <1>16, Zenon DEF OneWayRepeat
    <2>2. ASSUME LocalFailure, UNCHANGED <<radio, stateAge>> PROVE TypeInv'
      <3>1. /\ results' \in Seq(Results) /\ confirms' \in BOOLEAN /\ mState' = "Idle"
            /\ Sound(cur')
        BY <1>0, <2>2, LocalFailureType
      <3>2. StateType' /\ ReportType'
        BY <1>0, <2>1, <2>2, <3>1, Zenon DEF StateType, ReportType
      <3> QED BY <1>k, <2>1, <2>2, <3>1, <3>2, Zenon DEF TypeInv
    <2>3. ASSUME radio' = "Transmitting", stateAge' = 0, mState' = "TxInProgress",
                 UNCHANGED <<cur, results, confirms>>
          PROVE  TypeInv'
      <3>1. StateType'
        BY <1>0, <2>1, <2>3 DEF StateType, ExchangeStates
      <3>2. ClockType'
        BY <1>0, <2>1, <2>3, Constants DEF ClockType
      <3> QED BY <1>k, <2>1, <2>3, <3>1, <3>2, Zenon DEF TypeInv
    <2> QED BY <2>1, <2>2, <2>3, Zenon
  <1>17. ASSUME NEW f \in Frames \cup {NoFrame}, ProcessResponse(f),
                UNCHANGED <<pending, mTx1WRepeatRemaining, preambles>>
         PROVE  TypeInv'
    <2>1. CASE IgnoreForeign(f)
      <3>1. StateType'
        <4>1. /\ rxFrame' = NoFrame /\ UNCHANGED radio
              /\ mState' = "Auth" \/ mState' = "WaitResponse"
          BY <2>1, Zenon DEF IgnoreForeign, KeepResponse, StateAfterDispatch
        <4> QED BY <1>0, <4>1 DEF StateType, ExchangeStates
      <3> QED BY <1>k, <1>17, <2>1, <3>1, Zenon DEF IgnoreForeign, KeepResponse, TypeInv
    <2>2. CASE AnswerChallenge
      <3>1. StateType'
        BY <1>0, <2>2 DEF AnswerChallenge, StateType, ExchangeStates
      <3>2. FlagType'
        BY <2>2, Zenon DEF AnswerChallenge, FlagType
      <3>3. ClockType'
        BY <1>0, <2>2, Constants DEF AnswerChallenge, ClockType
      <3> QED BY <1>k, <1>17, <2>2, <3>1, <3>2, <3>3, Zenon DEF AnswerChallenge, TypeInv
    <2>3. CASE RadioBusy(f)
      <3>1. StateType'
        BY <1>0, <1>17, <2>3 DEF RadioBusy, StateType, ExchangeStates
      <3> QED BY <1>k, <1>17, <2>3, <3>1, Zenon DEF RadioBusy, TypeInv
    <2>4. CASE AnswerFails
      <3>1. /\ results' \in Seq(Results) /\ confirms' \in BOOLEAN /\ mState' = "Idle"
            /\ Sound(cur')
        BY <1>0, <2>4, LocalFailureType, Zenon DEF AnswerFails
      <3>2. StateType'
        BY <1>0, <2>4, <3>1, Zenon DEF AnswerFails, StateType
      <3>3. pollTold' \in BOOLEAN
        BY <2>4, Zenon DEF AnswerFails
      <3> QED BY <1>k, <1>17, <2>4, <3>1, <3>2, <3>3, Zenon DEF AnswerFails, ReportType, TypeInv
    <2>5. CASE CloseExchange(f)
      <3> DEFINE r == IF f = "Error" THEN "ExplicitlyRejected" ELSE "Completed"
      <3>1. Notify(cur, r) /\ cur' = [cur EXCEPT !.active = FALSE] /\ UNCHANGED pollTold
        BY <2>5, Zenon DEF CloseExchange
      <3>2. r \in Results
        BY DEF Results
      <3> HIDE DEF r
      <3>3. ReportType'
        BY <1>0, <3>1, <3>2, NotifyType, Zenon DEF ReportType
      <3>4. Sound(cur')
        BY <1>0, <3>1, ClosedSound, Zenon
      <3>5. StateType'
        <4>1. /\ rxFrame' = NoFrame /\ UNCHANGED radio
              /\ mState' = "Auth" \/ mState' = "Idle"
          BY <2>5, Zenon DEF CloseExchange, StateAfterDispatch
        <4> QED BY <1>0, <4>1 DEF StateType
      <3>6. FlagType'
        BY <2>5, Zenon DEF CloseExchange, FlagType
      <3>7. ClockType'
        <4>1. /\ retryIn' = NoRetry /\ exchangeAge' = 0 /\ mResponseTimeoutMs' = RxTimeout
              /\ UNCHANGED stateAge
          BY <2>5, Zenon DEF CloseExchange
        <4> QED BY <1>0, <4>1, Constants DEF ClockType
      <3> QED BY <1>k, <1>17, <2>5, <3>3, <3>4, <3>5, <3>6, <3>7, Zenon
              DEF CloseExchange, TypeInv
    <2> QED BY <1>17, <2>1, <2>2, <2>3, <2>4, <2>5, Zenon DEF ProcessResponse
  <1>18. ASSUME NEW f \in Frames, Receive(f) PROVE TypeInv'
    <2>1. StateType'
      <3>1. /\ mState' = "Auth" \/ mState' = mState
            /\ rxFrame' = f \/ rxFrame' = NoFrame
            /\ UNCHANGED radio
        BY <1>18, Zenon DEF Receive, KeepResponse, StateAfterDispatch
      <3> QED BY <1>0, <3>1 DEF StateType
    <2> QED BY <1>18, <1>k, <2>1, Zenon DEF Receive, KeepResponse, TypeInv
  <1>19. ASSUME NEW f \in Frames, ReceiveResponse(f) PROVE TypeInv'
    BY <1>17, <1>19, Zenon DEF ReceiveResponse
  <1>20. ASSUME ProcessResponseAgain PROVE TypeInv'
    BY <1>0, <1>17, <1>20, Zenon DEF ProcessResponseAgain, StateType
  <1>21. ASSUME PreambleHeard PROVE TypeInv'
    <2>1. StateType'
      BY <1>0, <1>21, Zenon DEF PreambleHeard, StateType
    <2>2. ClockType' /\ CountType'
      BY <1>0, <1>21, Constants DEF PreambleHeard, ClockType, CountType
    <2> QED BY <1>21, <1>k, <2>1, <2>2, Zenon DEF PreambleHeard, TypeInv
  <1>22. ASSUME NEW e \in Copy, e.retries < e.cmd.maxAttempts, FailExchange(e),
                UNCHANGED <<pending, mTx1WRepeatRemaining, radio, rxFrame, preambles, history>>
         PROVE  TypeInv'
    <2>1. /\ ReportType' /\ Sound(cur')
          /\ mAuthResponseSent' = FALSE /\ mWaitingFinalResponse' = FALSE
          /\ mSawChallenge' = FALSE /\ retryIn' = NoRetry /\ exchangeAge' = 0
          /\ mResponseTimeoutMs' = RxTimeout /\ stateAge' = stateAge /\ mState' = "Idle"
      BY <1>0, <1>22, FailExchangeType
    <2>2. StateType' /\ FlagType'
      BY <1>0, <1>22, <2>1, Zenon DEF StateType, FlagType
    <2>3. ClockType'
      BY <1>0, <2>1, Constants DEF ClockType
    <2> QED BY <1>22, <1>k, <2>1, <2>2, <2>3, Zenon DEF TypeInv
  <1>23. ASSUME UnconfirmedExecute PROVE TypeInv'
    <2> DEFINE e == [cur EXCEPT !.accepted = TRUE, !.tries = @ + 1]
    <2>1. /\ e \in Copy /\ e.cmd = cur.cmd /\ e.retries = cur.retries /\ e.tries = cur.tries + 1
          /\ e.retries < e.cmd.maxAttempts
      BY <1>0, <1>23, CountedSound, Zenon DEF UnconfirmedExecute, AcceptedUnconfirmed
    <2>2. UNCHANGED <<pending, mTx1WRepeatRemaining, radio, rxFrame, preambles, history>>
      BY <1>23, Zenon DEF UnconfirmedExecute
    <2>3. \/ FailExchange(e)
          \/ /\ cur' = e /\ e.tries <= 1 /\ retryIn' = UnconfirmedGap
             /\ UNCHANGED <<mState, flags, stateAge, exchangeAge, mResponseTimeoutMs, report>>
      BY <1>23, Zenon DEF UnconfirmedExecute
    <2> HIDE DEF e
    <2>4. CASE FailExchange(e)
      BY <1>22, <2>1, <2>2, <2>4, Zenon
    <2>5. CASE /\ cur' = e /\ e.tries <= 1 /\ retryIn' = UnconfirmedGap
               /\ UNCHANGED <<mState, flags, stateAge, exchangeAge, mResponseTimeoutMs, report>>
      <3>1. Sound(cur')
        BY <2>1, <2>5 DEF Sound
      <3>2. ClockType'
        BY <1>0, <2>5, Constants DEF ClockType, NoRetry
      <3>3. StateType'
        BY <1>0, <2>2, <2>5, Zenon DEF StateType
      <3> QED BY <1>k, <2>2, <2>5, <3>1, <3>2, <3>3, Zenon DEF TypeInv
    <2> QED BY <2>3, <2>4, <2>5, Zenon
  <1>24. ASSUME GiveUp PROVE TypeInv'
    <2>1. cur \in Copy /\ cur.retries < cur.cmd.maxAttempts
      BY <1>0 DEF Sound
    <2> QED BY <1>22, <1>24, <2>1, Zenon DEF GiveUp
  <1>25. ASSUME ScheduleRetry PROVE TypeInv'
    <2>1. StateType'
      BY <1>0, <1>25, Zenon DEF ScheduleRetry, StateType
    <2>2. ClockType'
      <3>1. retryIn' = RetryGap /\ UNCHANGED <<stateAge, exchangeAge, mResponseTimeoutMs>>
        BY <1>25, Zenon DEF ScheduleRetry
      <3> QED BY <1>0, <3>1, Constants DEF ClockType, NoRetry
    <2> QED BY <1>25, <1>k, <2>1, <2>2, Zenon DEF ScheduleRetry, TypeInv
  <1>26. ASSUME Retry PROVE TypeInv'
    <2> DEFINE a == [cur EXCEPT !.retries = @ + 1]
               d == [cur EXCEPT !.retries = @ + 1, !.active = FALSE]
    <2>1. /\ mWaitingFinalResponse' = FALSE /\ mSawChallenge' = FALSE
          /\ mAuthResponseSent' = FALSE
          /\ mResponseTimeoutMs' = RxTimeout /\ retryIn' = NoRetry
          /\ UNCHANGED <<pending, stateAge, exchangeAge, radio, rxFrame, preambles, history>>
      BY <1>26, Zenon DEF Retry
    <2>2. \/ /\ mState' = "TxPending" /\ cur' = a /\ UNCHANGED report
             /\ mTx1WRepeatRemaining' = Repeats \/ UNCHANGED mTx1WRepeatRemaining
          \/ /\ mState' = "Idle" /\ cur' = d /\ ExchangeFailure(cur, mSawChallenge)
             /\ UNCHANGED mTx1WRepeatRemaining
      BY <1>26, Zenon DEF Retry
    <2>3. Sound(a) /\ Sound(d)
      <3>1. cur.retries < cur.cmd.maxAttempts - 1
        BY <1>26, Zenon DEF Retry, Exhausted, MayRetry
      <3> QED BY <1>0, <3>1, RetriedSound, Zenon
    <2> HIDE DEF a, d
    <2>4. Sound(cur')
      BY <2>2, <2>3, Zenon
    <2>5. ReportType'
      <3>1. cur \in Copy /\ mSawChallenge \in BOOLEAN
        BY <1>0, Zenon DEF Sound, FlagType
      <3> QED BY <1>0, <1>k, <2>2, <3>1, ExchangeFailureType, Zenon
    <2>6. StateType'
      <3>1. mState' = "TxPending" \/ mState' = "Idle"
        BY <2>2, Zenon
      <3> QED BY <1>0, <2>1, <3>1 DEF StateType, ExchangeStates
    <2>7. FlagType'
      BY <2>1, Zenon DEF FlagType
    <2>8. ClockType'
      BY <1>0, <2>1, Constants DEF ClockType
    <2>9. CountType'
      <3>1. mTx1WRepeatRemaining' = Repeats \/ UNCHANGED mTx1WRepeatRemaining
        BY <2>2, Zenon
      <3> QED BY <1>0, <2>1, <3>1, Constants DEF CountType
    <2> QED BY <1>k, <2>1, <2>4, <2>5, <2>6, <2>7, <2>8, <2>9, Zenon DEF TypeInv
  <1>27. ASSUME UNCHANGED vars PROVE TypeInv'
    <2>1. StateType'
      BY <1>0, <1>27, Zenon DEF vars, StateType
    <2> QED BY <1>27, <1>k, <2>1, Zenon DEF vars, TypeInv
  <1> QED
    BY <1>1, <1>2, <1>3, <1>4, <1>5, <1>6, <1>7, <1>8, <1>9, <1>10, <1>11, <1>12, <1>13,
       <1>14, <1>15, <1>16, <1>18, <1>19, <1>20, <1>21, <1>23, <1>24, <1>25, <1>26, <1>27,
       Zenon DEF Next, Handlers, ResponseTimeouts, Environment

\* Types and bounds of the engine's state: attempts used never reach the budget of
\* attempts, ages and counters stay in their ranges, every report is one of the five.
THEOREM Types == Spec => []TypeOK
  <1>1. Spec => []TypeInv
    BY TypeInit, TypeStep, PTL DEF Spec
  <1> QED BY <1>1, TypeInvTypes, PTL

-----------------------------------------------------------------------------
(* What a step does to the command in flight, free of the record updates of the actions. *)

InExchange == mState \in ExchangeStates
Awaiting == {"WaitResponse", "ProcessResponse"}

\* The command is left alone: time passes, other machines run, callers interrupt.
Waits ==
    /\ UNCHANGED <<cur, flags, history, report>>
    /\ retryIn' # NoRetry => retryIn # NoRetry
    /\ \/ mState' = mState
       \/ mState \in Awaiting /\ mState' \in Awaiting
       \/ /\ mState' \notin ExchangeStates
          /\ InExchange => Interruptions # {} \/ Frames \cap {"Status", "OtherStatus"} # {}
    /\ mState' = "TxInProgress" => \/ radio' = radio
                                   \/ radio' = "Receiving" /\ "stopKeyExtraction" \in Interruptions

\* The next command, in flight or with its failure.
Takes ==
    /\ ~ InExchange
    /\ \/ mState' = "TxPending" /\ cur'.active /\ results' = << >>
       \/ UNCHANGED mState /\ ~ cur'.active /\ results' = <<"FailedBeforeAuthentication">>
    /\ cur'.cmd \in Command /\ cur'.retries = 0 /\ ~ cur'.accepted /\ cur'.tries = 0
    /\ copies' = 0 /\ answered' = 0 /\ lateCopies' = 0 /\ pollTold' = FALSE
    /\ mAuthResponseSent' = FALSE /\ mSawChallenge' = FALSE /\ mWaitingFinalResponse' = FALSE

\* startPairing takes the controller.
Drops ==
    /\ mState' = "Other"
    /\ UNCHANGED <<history, report>>
    /\ \/ UNCHANGED cur
       \/ cur'.cmd = cur.cmd /\ ~ cur'.active /\ ~ cur'.accepted
    /\ Interruptions # {}

\* A copy goes on the air.
Starts ==
    /\ mState = "TxPending" /\ mState' = "TxInProgress" /\ radio' = "Transmitting"
    /\ UNCHANGED <<cur, mAuthResponseSent, answered, report>>
    /\ copies' = copies + 1
    /\ lateCopies' = IF answered > 0 THEN lateCopies + 1 ELSE lateCopies
    /\ IF cur.cmd.oneWay THEN UNCHANGED <<mSawChallenge, mWaitingFinalResponse, retryIn>>
       ELSE mSawChallenge' = FALSE /\ mWaitingFinalResponse' = FALSE /\ retryIn' = NoRetry

\* A 2W frame has left the antenna.
Sent ==
    /\ mState = "TxInProgress" /\ radio = "Transmitting" /\ ~ cur.cmd.oneWay
    /\ mState' \in {"TxInProgress", "WaitResponse"} /\ radio' # "Transmitting"
    /\ answered' = IF mAuthResponseSent THEN answered + 1 ELSE answered
    /\ UNCHANGED <<cur, flags, retryIn, copies, lateCopies, report>>

\* The receiver starts late.
Listens ==
    /\ mState = "TxInProgress" /\ radio # "Transmitting" /\ mState' = "WaitResponse"
    /\ UNCHANGED <<cur, flags, retryIn, history, report>>

\* Between the repetitions of a 1W frame.
RepeatsOneWay ==
    /\ \/ cur.cmd.oneWay /\ mState = "TxInProgress" /\ mState' = "Tx1WRepeat"
       \/ mState = "Tx1WRepeat" /\ mState' = "TxInProgress" /\ radio' = "Transmitting"
    /\ UNCHANGED <<cur, flags, retryIn, history, report>>

\* A challenge is answered.
Answers ==
    /\ mState \in Awaiting /\ ~ mAuthResponseSent /\ ~ cur.cmd.oneWay
    /\ mState' = "TxInProgress" /\ radio' = "Transmitting"
    /\ mAuthResponseSent' /\ mWaitingFinalResponse' /\ mSawChallenge' /\ retryIn' = NoRetry
    /\ UNCHANGED <<cur, history, report>>

\* The exchange ends with outcome r.
Ends(r) ==
    /\ InExchange /\ mState' \in {"Idle", "Auth"}
    /\ cur'.cmd = cur.cmd /\ ~ cur'.active
    /\ results' = <<r>> /\ (confirms => confirms')
    /\ UNCHANGED <<copies, lateCopies>>

\* By a failure of the radio or of building a frame.
EndsLocally ==
    /\ Ends(IF cur.accepted THEN "AuthenticatedUnconfirmed" ELSE "FailedBeforeAuthentication")
    /\ cur'.accepted = cur.accepted
    /\ \/ "receive" \in Failures /\ answered' \in {answered, answered + 1}
          /\ (answered' # answered => ~ cur.cmd.oneWay)
       \/ UNCHANGED answered /\ \/ mState \in {"TxPending", "Tx1WRepeat"}
                                \/ mState = "TxInProgress" /\ radio = "Transmitting"
                                \/ mState \in Awaiting /\ ~ mAuthResponseSent
    /\ \/ mState \notin Awaiting /\ UNCHANGED pollTold
       \/ mState \in Awaiting /\ pollTold' = (pollTold \/ cur.cmd.tracked)

\* By the answer of the peer, or after the last repetition of a 1W frame.
EndsAnswered ==
    /\ Ends("Completed") \/ Ends("ExplicitlyRejected")
    /\ cur'.accepted = cur.accepted /\ UNCHANGED <<answered, pollTold>>

\* By silence.
EndsUnanswered ==
    /\ mState = "WaitResponse"
    /\ \/ Ends("AuthenticatedUnconfirmed") /\ (mSawChallenge \/ cur'.accepted)
       \/ Ends("Unknown") /\ ~ (mSawChallenge /\ mWaitingFinalResponse) /\ ~ cur'.accepted
    /\ \/ cur'.accepted = cur.accepted
       \/ cur.cmd.execute /\ mSawChallenge
    /\ UNCHANGED answered
    /\ pollTold' = (pollTold \/ cur.cmd.tracked)

\* An unconfirmed Execute will be sent again.
Accepts ==
    /\ mState = "WaitResponse" /\ cur.cmd.execute /\ mSawChallenge /\ retryIn = NoRetry
    /\ confirms /\ cur.cmd.repeatable /\ cur.tries = 0
    /\ cur'.cmd = cur.cmd /\ cur'.active = cur.active /\ cur'.retries = cur.retries
    /\ cur'.accepted /\ cur'.tries = 1
    /\ UNCHANGED <<mState, flags, history, report>>

\* An unanswered request will be sent again.
Schedules ==
    /\ mState = "WaitResponse" /\ retryIn = NoRetry
    /\ ~ (cur.active /\ cur.cmd.execute /\ mSawChallenge /\ mWaitingFinalResponse)
    /\ ~ (cur.accepted /\ ~ mSawChallenge)
    /\ UNCHANGED <<mState, cur, flags, history, report>>

\* It is.
Retries ==
    /\ mState = "WaitResponse" /\ retryIn # NoRetry /\ mState' = "TxPending"
    /\ mAuthResponseSent' = FALSE /\ mSawChallenge' = FALSE /\ mWaitingFinalResponse' = FALSE
    /\ cur'.cmd = cur.cmd /\ cur'.active = cur.active /\ cur'.retries = cur.retries + 1
    /\ cur'.accepted = cur.accepted /\ cur'.tries = cur.tries
    /\ UNCHANGED <<history, report>>

Moves ==
    Waits \/ Takes \/ Drops \/ Starts \/ Sent \/ Listens \/ RepeatsOneWay \/ Answers
    \/ EndsLocally \/ EndsAnswered \/ EndsUnanswered \/ Accepts \/ Schedules \/ Retries

\* The one report of an exchange.
LEMMA NotifyOnce ==
    ASSUME results = << >>, confirms \in BOOLEAN, NEW e, NEW r, Notify(e, r)
    PROVE  results' = <<Reported(e, r)>> /\ (confirms => confirms')
  <1>1. results' = Append(results, Reported(e, r)) /\ (confirms => confirms')
    BY Zenon DEF Notify
  <1> DEFINE x == Reported(e, r)
  <1>2. Append(<< >>, x) = <<x>>
    OBVIOUS
  <1> QED BY <1>1, <1>2

\* A local failure ends the exchange with the outcome its acceptance calls for.
LEMMA LocalEnd ==
    ASSUME TypeInv, OneOutcome, InExchange, LocalFailure, UNCHANGED <<copies, lateCopies>>
    PROVE  /\ Ends(IF cur.accepted THEN "AuthenticatedUnconfirmed"
                                   ELSE "FailedBeforeAuthentication")
           /\ cur'.accepted = cur.accepted
  <1>1. cur.active /\ results = << >>
    BY Zenon DEF OneOutcome, InExchange
  <1>2. /\ mState' = "Idle" /\ ~ cur'.active /\ cur'.cmd = cur.cmd
        /\ cur'.accepted = cur.accepted
    BY LocalFailureType DEF TypeInv
  <1>3. Notify(cur, "FailedBeforeAuthentication") /\ confirms \in BOOLEAN
    BY Zenon DEF LocalFailure, TypeInv, ReportType
  <1>4. /\ results' = <<Reported(cur, "FailedBeforeAuthentication")>>
        /\ confirms => confirms'
    BY <1>1, <1>3, NotifyOnce, Zenon
  <1>5. results' = <<IF cur.accepted THEN "AuthenticatedUnconfirmed"
                                     ELSE "FailedBeforeAuthentication">>
    BY <1>4, Zenon DEF Reported
  <1> QED BY <1>2, <1>4, <1>5, Zenon DEF Ends

\* So does a failure met while waiting for the peer.
LEMMA FailedEnd ==
    ASSUME TypeInv, OneOutcome, mState = "WaitResponse",
           NEW e \in Copy, e.cmd = cur.cmd, NEW b \in BOOLEAN, ExchangeFailure(e, b),
           mState' = "Idle", ~ cur'.active, cur'.cmd = cur.cmd,
           UNCHANGED <<copies, lateCopies>>
    PROVE  /\ (b \/ e.accepted) => Ends("AuthenticatedUnconfirmed")
           /\ ~ (b \/ e.accepted) => Ends("Unknown")
           /\ pollTold' = (pollTold \/ cur.cmd.tracked)
  <1> DEFINE r == IF b \/ e.accepted THEN "AuthenticatedUnconfirmed" ELSE "Unknown"
  <1>1. InExchange
    BY DEF InExchange, ExchangeStates
  <1>2. cur.active /\ results = << >>
    BY <1>1, Zenon DEF OneOutcome, InExchange
  <1>3. Notify(e, r) /\ pollTold' = (pollTold \/ e.cmd.tracked) /\ confirms \in BOOLEAN
    BY Zenon DEF ExchangeFailure, TypeInv, ReportType
  <1>4. Reported(e, r) = r
    BY DEF Reported
  <1> HIDE DEF r
  <1>5. results' = <<r>> /\ (confirms => confirms')
    BY <1>2, <1>3, <1>4, NotifyOnce, Zenon
  <1>6. Ends(r)
    BY <1>1, <1>5, Zenon DEF Ends
  <1> QED BY <1>3, <1>6, Zenon DEF r

\* Every step of the engine is one of these moves.
LEMMA StepMoves == TypeInv /\ OneOutcome /\ [Next]_vars => Moves
  <1> SUFFICES ASSUME TypeInv, OneOutcome, [Next]_vars PROVE Moves
    OBVIOUS
  <1> USE DEF flags, clocks, history, report
  <1>0. /\ QueueType /\ StateType /\ FlagType /\ ClockType /\ CountType /\ ReportType
        /\ Sound(cur)
    BY DEF TypeInv
  <1>i. InExchange => cur.active /\ results = << >>
    BY Zenon DEF OneOutcome, InExchange
  <1>s. mState \in {"TxPending", "TxInProgress", "Tx1WRepeat"} => mState \notin Awaiting
    BY DEF Awaiting
  <1>1. ASSUME NEW c \in Command, SendCommand(c) PROVE Moves
    BY <1>1, Zenon DEF SendCommand, Waits, Moves
  <1>2. ASSUME StartPairing PROVE Moves
    <2> DEFINE d == [cur EXCEPT !.active = FALSE, !.retries = 0, !.accepted = FALSE,
                                !.tries = 0]
    <2>1. /\ cur' = cur \/ cur' = d
          /\ mState' = "Other" /\ UNCHANGED <<history, report>> /\ Interruptions # {}
      BY <1>2, Zenon DEF StartPairing
    <2>2. d.cmd = cur.cmd /\ ~ d.active /\ ~ d.accepted
      BY <1>0, ClearedSound, Zenon
    <2> HIDE DEF d
    <2> QED BY <2>1, <2>2, Zenon DEF Drops, Moves
  <1>3. ASSUME StartNetworkScan PROVE Moves
    <2>1. mState' \notin ExchangeStates /\ mState' # "TxInProgress" /\ Interruptions # {}
      BY <1>3 DEF StartNetworkScan, ExchangeStates
    <2> QED BY <1>3, <2>1, Zenon DEF StartNetworkScan, Waits, Moves
  <1>4. ASSUME StopNetworkScan PROVE Moves
    <2>1. mState' \notin ExchangeStates /\ mState' # "TxInProgress" /\ Interruptions # {}
      BY <1>4 DEF StopNetworkScan, ExchangeStates
    <2> QED BY <1>4, <2>1, Zenon DEF StopNetworkScan, Waits, Moves
  <1>5. ASSUME StopKeyExtraction PROVE Moves
    BY <1>5, Zenon DEF StopKeyExtraction, Waits, Moves
  <1>6. ASSUME OtherMachineEnds PROVE Moves
    <2>1. mState' \notin ExchangeStates /\ mState' # "TxInProgress" /\ ~ InExchange
      BY <1>6 DEF OtherMachineEnds, ExchangeStates, InExchange
    <2> QED BY <1>6, <2>1, Zenon DEF OtherMachineEnds, Waits, Moves
  <1>7. ASSUME Tick PROVE Moves
    <2>1. retryIn' # NoRetry => retryIn # NoRetry
      BY <1>7 DEF Tick
    <2> QED BY <1>7, <2>1, Zenon DEF Tick, Waits, Moves
  <1>8. ASSUME RestartReceive PROVE Moves
    <2>1. mState' # "TxInProgress"
      BY <1>8 DEF RestartReceive
    <2> QED BY <1>8, <2>1, Zenon DEF RestartReceive, Waits, Moves
  <1>9. ASSUME PopCommand PROVE Moves
    <2> DEFINE c == Head(pending)
               e == Entry(c)
               d == [e EXCEPT !.active = FALSE]
    <2>1. /\ mAuthResponseSent' = FALSE /\ mWaitingFinalResponse' = FALSE
          /\ mSawChallenge' = FALSE
          /\ copies' = 0 /\ answered' = 0 /\ lateCopies' = 0 /\ pollTold' = FALSE
          /\ \/ mState' = "TxPending" /\ cur' = e /\ results' = << >>
             \/ UNCHANGED mState /\ cur' = d /\ results' = <<"FailedBeforeAuthentication">>
      BY <1>9, Zenon DEF PopCommand
    <2>2. c \in Command /\ ~ InExchange
      BY <1>0, <1>9 DEF PopCommand, QueueType, InExchange, ExchangeStates
    <2>3. /\ e.cmd = c /\ e.active /\ e.retries = 0 /\ ~ e.accepted /\ e.tries = 0
          /\ d.cmd = c /\ ~ d.active /\ d.retries = 0 /\ ~ d.accepted /\ d.tries = 0
      BY <2>2, EntrySound, Zenon
    <2> HIDE DEF c, e, d
    <2> QED BY <2>1, <2>2, <2>3, Zenon DEF Takes, Moves
  <1>10. ASSUME StartTransmit PROVE Moves
    BY <1>10, Zenon DEF StartTransmit, PrepareTransmit, Starts, Moves
  <1>11. ASSUME StartTransmitFails PROVE Moves
    <2>1. InExchange
      BY <1>11, Zenon DEF StartTransmitFails, InExchange, ExchangeStates
    <2> QED BY <1>s, <1>11, <2>1, LocalEnd, Zenon DEF StartTransmitFails, EndsLocally, Moves
  <1>12. ASSUME TwoWayTxDone PROVE Moves
    <2>1. /\ UNCHANGED <<flags, retryIn, copies, lateCopies, pollTold>>
          /\ mState = "TxInProgress" /\ radio = "Transmitting" /\ ~ cur.cmd.oneWay
          /\ answered' = IF mAuthResponseSent THEN answered + 1 ELSE answered
      BY <1>12, Zenon DEF TwoWayTxDone, CountAnswer
    <2>2. CASE ListenForResponse
      <3>1. radio' # "Transmitting" /\ mState' \in {"TxInProgress", "WaitResponse"}
        BY <2>2 DEF ListenForResponse
      <3> QED BY <2>1, <2>2, <3>1, Zenon DEF ListenForResponse, Sent, Moves
    <2>3. CASE ReceiverDoesNotStart
      <3>1. CASE radio' = "Standby" /\ UNCHANGED <<mState, cur, results, confirms, stateAge>>
        <4>1. radio' # "Transmitting" /\ mState' \in {"TxInProgress", "WaitResponse"}
          BY <2>1, <3>1
        <4> QED BY <2>1, <3>1, <4>1, Zenon DEF Sent, Moves
      <3>2. CASE "receive" \in Failures /\ LocalFailure
        <4>1. InExchange
          BY <2>1, Zenon DEF InExchange, ExchangeStates
        <4>2. answered' \in {answered, answered + 1}
          BY <2>1
        <4> QED BY <1>s, <2>1, <3>2, <4>1, <4>2, LocalEnd, Zenon DEF EndsLocally, Moves
      <3> QED BY <2>3, <3>1, <3>2, Zenon DEF ReceiverDoesNotStart
    <2> QED BY <1>12, <2>2, <2>3, Zenon DEF TwoWayTxDone
  <1>13. ASSUME OneWayTxDone PROVE Moves
    <2>1. /\ UNCHANGED <<flags, clocks, history, pollTold>>
          /\ mState = "TxInProgress" /\ cur.cmd.oneWay
      BY <1>13, Zenon DEF OneWayTxDone
    <2>2. \/ mState' = "Tx1WRepeat" /\ UNCHANGED <<cur, results, confirms>>
          \/ Notify(cur, "Completed") /\ cur' = [cur EXCEPT !.active = FALSE] /\ mState' = "Idle"
      BY <1>13, Zenon DEF OneWayTxDone
    <2>3. CASE mState' = "Tx1WRepeat" /\ UNCHANGED <<cur, results, confirms>>
      BY <2>1, <2>3, Zenon DEF RepeatsOneWay, Moves
    <2>4. CASE Notify(cur, "Completed") /\ cur' = [cur EXCEPT !.active = FALSE] /\ mState' = "Idle"
      <3>1. InExchange
        BY <2>1, Zenon DEF InExchange, ExchangeStates
      <3>2. Reported(cur, "Completed") = "Completed"
        BY DEF Reported
      <3>3. results' = <<"Completed">> /\ (confirms => confirms')
        BY <1>0, <1>i, <2>4, <3>1, <3>2, NotifyOnce, Zenon DEF ReportType
      <3>4. ~ cur'.active /\ cur'.cmd = cur.cmd /\ cur'.accepted = cur.accepted
        BY <1>0, <2>4, ClosedSound, Zenon
      <3> QED BY <2>1, <2>4, <3>1, <3>3, <3>4, Zenon DEF Ends, EndsAnswered, Moves
    <2> QED BY <2>2, <2>3, <2>4, Zenon
  <1>14. ASSUME LeftTransmit PROVE Moves
    <2>1. CASE ListenForResponse
      BY <1>14, <2>1, Zenon DEF LeftTransmit, ListenForResponse, Listens, Moves
    <2>2. CASE "receive" \in Failures /\ LocalFailure
      <3>1. InExchange
        BY <1>14, Zenon DEF LeftTransmit, InExchange, ExchangeStates
      <3>2. UNCHANGED history
        BY <1>14, Zenon DEF LeftTransmit
      <3>3. answered' \in {answered, answered + 1} /\ answered' = answered
        BY <3>2
      <3>4. mState = "TxInProgress" /\ UNCHANGED pollTold
        BY <1>14, Zenon DEF LeftTransmit
      <3> QED BY <1>s, <2>2, <3>1, <3>2, <3>3, <3>4, LocalEnd, Zenon DEF EndsLocally, Moves
    <2> QED BY <1>14, <2>1, <2>2, Zenon DEF LeftTransmit
  <1>15. ASSUME TxTimeout PROVE Moves
    <2>1. InExchange
      BY <1>15, Zenon DEF TxTimeout, InExchange, ExchangeStates
    <2> QED BY <1>s, <1>15, <2>1, LocalEnd, Zenon DEF TxTimeout, EndsLocally, Moves
  <1>16. ASSUME OneWayRepeat PROVE Moves
    <2>1. InExchange
      BY <1>16, Zenon DEF OneWayRepeat, InExchange, ExchangeStates
    <2>2. CASE "transmit" \in Failures /\ LocalFailure
      BY <1>s, <1>16, <2>1, <2>2, LocalEnd, Zenon DEF OneWayRepeat, EndsLocally, Moves
    <2>3. CASE ~ ("transmit" \in Failures /\ LocalFailure)
      BY <1>0, <1>16, <2>3, Zenon DEF OneWayRepeat, RepeatsOneWay, Moves
    <2> QED BY <2>2, <2>3
  <1>17. ASSUME NEW f \in Frames \cup {NoFrame}, ProcessResponse(f), mState \in Awaiting
         PROVE  Moves
    <2>1. InExchange
      BY <1>17 DEF InExchange, ExchangeStates, Awaiting
    <2>2. CASE IgnoreForeign(f)
      <3>1. \/ mState' = "WaitResponse"
            \/ mState' = "Auth" /\ f \in {"Status", "OtherStatus"}
        BY <2>2, Zenon DEF IgnoreForeign, StateAfterDispatch
      <3>2. f \in {"Status", "OtherStatus"} => Frames \cap {"Status", "OtherStatus"} # {}
        BY <1>17 DEF NoFrame
      <3>3. mState' = "Auth" => mState' \notin ExchangeStates
        BY DEF ExchangeStates
      <3>4. mState' # "TxInProgress"
        BY <3>1
      <3>5. mState' = "WaitResponse" => mState' \in Awaiting
        BY DEF Awaiting
      <3> QED BY <1>17, <2>2, <3>1, <3>2, <3>3, <3>4, <3>5, Zenon
              DEF IgnoreForeign, KeepResponse, Waits, Moves
    <2>3. CASE AnswerChallenge /\ ~ mAuthResponseSent /\ FromPeer(f)
      BY <1>17, <2>3, Zenon DEF AnswerChallenge, FromPeer, Answers, Moves
    <2>4. CASE RadioBusy(f)
      <3>1. mState' \in Awaiting /\ mState' # "TxInProgress"
        BY <2>4 DEF RadioBusy, Awaiting
      <3> QED BY <1>17, <2>4, <3>1, Zenon DEF RadioBusy, Waits, Moves
    <2>5. CASE AnswerFails /\ ~ mAuthResponseSent
      BY <1>17, <2>1, <2>5, LocalEnd, Zenon DEF AnswerFails, EndsLocally, Moves
    <2>6. CASE CloseExchange(f)
      <3> DEFINE r == IF f = "Error" THEN "ExplicitlyRejected" ELSE "Completed"
      <3>1. /\ Notify(cur, r) /\ cur' = [cur EXCEPT !.active = FALSE]
            /\ UNCHANGED <<history, pollTold>>
            /\ mState' = "Idle" \/ mState' = "Auth"
        BY <2>6, Zenon DEF CloseExchange, StateAfterDispatch
      <3>2. Reported(cur, r) = r
        BY DEF Reported
      <3>3. results' = <<r>> /\ (confirms => confirms')
        <4> HIDE DEF r
        <4> QED BY <1>0, <1>i, <2>1, <3>1, <3>2, NotifyOnce, Zenon DEF ReportType
      <3>4. ~ cur'.active /\ cur'.cmd = cur.cmd /\ cur'.accepted = cur.accepted
        BY <1>0, <3>1, ClosedSound, Zenon
      <3>5. Ends(r)
        <4> HIDE DEF r
        <4> QED BY <2>1, <3>1, <3>3, <3>4, Zenon DEF Ends
      <3>6. r = "Completed" \/ r = "ExplicitlyRejected"
        OBVIOUS
      <3> HIDE DEF r
      <3> QED BY <3>1, <3>4, <3>5, <3>6, Zenon DEF EndsAnswered, Moves
    <2> QED BY <1>17, <2>2, <2>3, <2>4, <2>5, <2>6, Zenon DEF ProcessResponse
  <1>18. ASSUME NEW f \in Frames, Receive(f) PROVE Moves
    <2>1. \/ mState' = mState
          \/ mState' = "Auth" /\ f \in {"Status", "OtherStatus"}
      BY <1>18, Zenon DEF Receive, StateAfterDispatch
    <2>2. f \in {"Status", "OtherStatus"} => Frames \cap {"Status", "OtherStatus"} # {}
      BY <1>18
    <2>3. mState' = "Auth" => mState' \notin ExchangeStates
      BY DEF ExchangeStates
    <2> QED BY <1>18, <2>1, <2>2, <2>3, Zenon DEF Receive, KeepResponse, Waits, Moves
  <1>19. ASSUME NEW f \in Frames, ReceiveResponse(f) PROVE Moves
    <2>1. mState \in Awaiting
      BY <1>19 DEF ReceiveResponse, Awaiting
    <2> QED BY <1>17, <1>19, <2>1, Zenon DEF ReceiveResponse
  <1>20. ASSUME ProcessResponseAgain PROVE Moves
    <2>1. mState \in Awaiting
      BY <1>20 DEF ProcessResponseAgain, Awaiting
    <2> QED BY <1>0, <1>17, <1>20, <2>1, Zenon DEF ProcessResponseAgain, StateType
  <1>21. ASSUME PreambleHeard PROVE Moves
    BY <1>21, Zenon DEF PreambleHeard, Waits, Moves
  <1>22. ASSUME NEW e \in Copy, e.retries < e.cmd.maxAttempts, e.cmd = cur.cmd, FailExchange(e),
                UNCHANGED history, mState = "WaitResponse",
                e.accepted = cur.accepted \/ (cur.cmd.execute /\ mSawChallenge)
         PROVE  Moves
    <2> DEFINE b == mSawChallenge /\ mWaitingFinalResponse
    <2>1. /\ ExchangeFailure(e, b) /\ ~ cur'.active /\ cur'.cmd = e.cmd
          /\ cur'.accepted = e.accepted /\ mState' = "Idle"
      BY <1>0, <1>22, FailExchangeType
    <2>2. b \in BOOLEAN
      OBVIOUS
    <2>3. /\ (b \/ e.accepted) => Ends("AuthenticatedUnconfirmed")
          /\ ~ (b \/ e.accepted) => Ends("Unknown")
          /\ pollTold' = (pollTold \/ cur.cmd.tracked)
      <3> HIDE DEF b
      <3> QED BY <1>22, <2>1, <2>2, FailedEnd
    <2> QED BY <1>22, <2>1, <2>3, Zenon DEF EndsUnanswered, Moves
  <1>23. ASSUME UnconfirmedExecute PROVE Moves
    <2> DEFINE e == [cur EXCEPT !.accepted = TRUE, !.tries = @ + 1]
    <2>1. /\ e \in Copy /\ e.cmd = cur.cmd /\ e.retries = cur.retries /\ e.tries = cur.tries + 1
          /\ e.retries < e.cmd.maxAttempts /\ e.accepted /\ e.active
      BY <1>0, <1>23, CountedSound, Zenon DEF UnconfirmedExecute, AcceptedUnconfirmed
    <2>2. /\ UNCHANGED history /\ mState = "WaitResponse" /\ retryIn = NoRetry
          /\ cur.active /\ cur.cmd.execute /\ mSawChallenge
      BY <1>23, Zenon DEF UnconfirmedExecute, TimedOut, AcceptedUnconfirmed
    <2>3. \/ FailExchange(e)
          \/ /\ confirms /\ e.cmd.repeatable /\ e.tries <= 1
             /\ cur' = e /\ UNCHANGED <<mState, flags, report>>
      BY <1>23, Zenon DEF UnconfirmedExecute
    <2> HIDE DEF e
    <2>4. CASE FailExchange(e)
      BY <1>22, <2>1, <2>2, <2>4, Zenon
    <2>5. CASE /\ confirms /\ e.cmd.repeatable /\ e.tries <= 1
               /\ cur' = e /\ UNCHANGED <<mState, flags, report>>
      <3>1. cur.tries = 0 /\ e.tries = 1
        BY <1>0, <2>1, <2>5 DEF Sound, Copy
      <3> QED BY <2>1, <2>2, <2>5, <3>1, Zenon DEF Accepts, Moves
    <2> QED BY <2>3, <2>4, <2>5, Zenon
  <1>24. ASSUME GiveUp PROVE Moves
    <2>1. cur \in Copy /\ cur.retries < cur.cmd.maxAttempts
      BY <1>0 DEF Sound
    <2> QED BY <1>22, <1>24, <2>1, Zenon DEF GiveUp, TimedOut
  <1>25. ASSUME ScheduleRetry PROVE Moves
    BY <1>25, Zenon DEF ScheduleRetry, TimedOut, Exhausted, AcceptedUnconfirmed, Schedules,
                        Moves
  <1>26. ASSUME Retry PROVE Moves
    <2> DEFINE a == [cur EXCEPT !.retries = @ + 1]
               d == [cur EXCEPT !.retries = @ + 1, !.active = FALSE]
    <2>1. /\ mState = "WaitResponse" /\ retryIn = 0
          /\ mWaitingFinalResponse' = FALSE /\ mSawChallenge' = FALSE
          /\ mAuthResponseSent' = FALSE /\ UNCHANGED history
          /\ cur.retries < cur.cmd.maxAttempts - 1
      BY <1>26, Zenon DEF Retry, TimedOut, Exhausted, MayRetry
    <2>2. \/ mState' = "TxPending" /\ cur' = a /\ UNCHANGED report
          \/ mState' = "Idle" /\ cur' = d /\ ExchangeFailure(cur, mSawChallenge)
      BY <1>26, Zenon DEF Retry
    <2>3. /\ a.cmd = cur.cmd /\ a.active = cur.active /\ a.retries = cur.retries + 1
          /\ a.accepted = cur.accepted /\ a.tries = cur.tries
          /\ d.cmd = cur.cmd /\ ~ d.active /\ d.accepted = cur.accepted
      BY <1>0, <2>1, RetriedSound, Zenon
    <2> HIDE DEF a, d
    <2>4. retryIn # NoRetry
      BY <2>1, Constants
    <2>5. CASE mState' = "TxPending" /\ cur' = a /\ UNCHANGED report
      BY <2>1, <2>3, <2>4, <2>5, Zenon DEF Retries, Moves
    <2>6. CASE mState' = "Idle" /\ cur' = d /\ ExchangeFailure(cur, mSawChallenge)
      <3>1. cur \in Copy /\ mSawChallenge \in BOOLEAN
        BY <1>0, Zenon DEF Sound, FlagType
      <3>2. /\ (mSawChallenge \/ cur.accepted) => Ends("AuthenticatedUnconfirmed")
            /\ ~ (mSawChallenge \/ cur.accepted) => Ends("Unknown")
            /\ pollTold' = (pollTold \/ cur.cmd.tracked)
        BY <2>1, <2>3, <2>6, <3>1, FailedEnd
      <3> QED BY <2>1, <2>3, <2>6, <3>2, Zenon DEF EndsUnanswered, Moves
    <2> QED BY <2>2, <2>5, <2>6, Zenon
  <1>27. ASSUME UNCHANGED vars PROVE Moves
    BY <1>27, Zenon DEF vars, Waits, Moves
  <1> QED
    BY <1>1, <1>2, <1>3, <1>4, <1>5, <1>6, <1>7, <1>8, <1>9, <1>10, <1>11, <1>12, <1>13,
       <1>14, <1>15, <1>16, <1>18, <1>19, <1>20, <1>21, <1>23, <1>24, <1>25, <1>26, <1>27,
       Zenon DEF Next, Handlers, ResponseTimeouts, Environment

-----------------------------------------------------------------------------
(* One outcome, bounded copies *)

\* Every move keeps the single outcome.
LEMMA OutcomeStep == TypeInv /\ OneOutcome /\ [Next]_vars => OneOutcome'
  <1> SUFFICES ASSUME TypeInv, OneOutcome, Moves PROVE OneOutcome'
    BY StepMoves
  <1> USE DEF flags, history, report, InExchange
  <1>i. InExchange => cur.active /\ results = << >>
    BY Zenon DEF OneOutcome
  <1>1. CASE Waits
    <2>1. UNCHANGED <<cur, results>> /\ (InExchange' => InExchange)
      BY <1>1 DEF Waits, ExchangeStates, Awaiting
    <2> QED BY <1>i, <2>1, Zenon DEF OneOutcome
  <1>2. CASE Takes
    <2>1. /\ \/ cur'.active /\ results' = << >>
             \/ ~ cur'.active /\ mState' \notin ExchangeStates
                /\ results' = <<"FailedBeforeAuthentication">>
      BY <1>2, Zenon DEF Takes
    <2>2. Len(<< >>) <= 1 /\ Len(<<"FailedBeforeAuthentication">>) <= 1
      OBVIOUS
    <2> QED BY <2>1, <2>2, Zenon DEF OneOutcome
  <1>3. CASE Drops
    <2>1. mState' \notin ExchangeStates
      BY <1>3 DEF Drops, ExchangeStates
    <2> QED BY <1>3, <2>1, Zenon DEF OneOutcome, Drops
  <1>4. ASSUME mState \in ExchangeStates, UNCHANGED <<cur, results>> PROVE OneOutcome'
    BY <1>i, <1>4, Zenon DEF OneOutcome
  <1>5. CASE Starts \/ Sent \/ Listens \/ RepeatsOneWay \/ Answers \/ Schedules
    <2>1. mState \in ExchangeStates
      BY <1>5 DEF Starts, Sent, Listens, RepeatsOneWay, Answers, Schedules, Awaiting,
                  ExchangeStates
    <2>2. UNCHANGED <<cur, results>>
      BY <1>5, Zenon DEF Starts, Sent, Listens, RepeatsOneWay, Answers, Schedules
    <2> QED BY <1>4, <2>1, <2>2
  <1>6. CASE Accepts \/ Retries
    <2>1. mState \in ExchangeStates
      BY <1>6 DEF Accepts, Retries, ExchangeStates
    <2>2. cur'.active = cur.active /\ UNCHANGED results
      BY <1>6, Zenon DEF Accepts, Retries
    <2> QED BY <1>i, <2>1, <2>2, Zenon DEF OneOutcome
  <1>7. ASSUME NEW r, Ends(r) PROVE OneOutcome'
    <2>1. ~ cur'.active /\ results' = <<r>> /\ mState' \notin ExchangeStates
      BY <1>7 DEF Ends, ExchangeStates
    <2>2. Len(results') <= 1
      BY <2>1
    <2> QED BY <2>1, <2>2, Zenon DEF OneOutcome
  <1> QED
    BY <1>1, <1>2, <1>3, <1>5, <1>6, <1>7, Zenon
       DEF Moves, EndsLocally, EndsAnswered, EndsUnanswered

\* The copies started for a command, by the retries it has used.
AttemptsInv ==
    /\ copies <= cur.cmd.maxAttempts
    /\ InExchange => copies <= cur.retries + 1
    /\ mState = "TxPending" => copies <= cur.retries

\* Every move keeps the count of copies.
LEMMA AttemptsStep == TypeInv /\ OneOutcome /\ AttemptsInv /\ [Next]_vars => AttemptsInv'
  <1> SUFFICES ASSUME TypeInv, AttemptsInv, Moves PROVE AttemptsInv'
    BY StepMoves
  <1> USE DEF flags, history, report, InExchange, AttemptsInv
  <1>0. copies \in Nat /\ cur.retries \in Nat /\ cur.cmd.maxAttempts \in Nat
        /\ cur.retries < cur.cmd.maxAttempts
    BY CommandType DEF TypeInv, CountType, Sound, Copy
  <1>1. CASE Waits
    <2>1. /\ UNCHANGED <<cur, copies>> /\ (InExchange' => InExchange)
          /\ mState' = "TxPending" => mState = "TxPending"
      BY <1>1 DEF Waits, ExchangeStates, Awaiting
    <2> QED BY <2>1, Zenon
  <1>2. CASE Takes
    <2>1. /\ copies' = 0 /\ cur'.retries = 0 /\ cur'.cmd.maxAttempts \in Nat
      BY <1>2, CommandType DEF Takes
    <2> QED BY <2>1
  <1>3. CASE Drops
    <2>1. /\ mState' \notin ExchangeStates /\ mState' # "TxPending"
          /\ cur'.cmd = cur.cmd /\ UNCHANGED copies
      BY <1>3 DEF Drops, ExchangeStates
    <2> QED BY <2>1, Zenon
  <1>4. CASE Starts
    BY <1>0, <1>4 DEF Starts, ExchangeStates
  <1>5. CASE Sent \/ Listens \/ RepeatsOneWay \/ Answers \/ Schedules \/ Accepts
    <2>1. mState \in ExchangeStates /\ mState' # "TxPending"
      BY <1>5 DEF Sent, Listens, RepeatsOneWay, Answers, Schedules, Accepts, Awaiting,
                  ExchangeStates
    <2>2. cur'.cmd = cur.cmd /\ cur'.retries = cur.retries /\ UNCHANGED copies
      BY <1>5, Zenon DEF Sent, Listens, RepeatsOneWay, Answers, Schedules, Accepts
    <2> QED BY <2>1, <2>2, Zenon
  <1>6. CASE Retries
    <2>1. copies <= cur.retries + 1
      BY <1>6 DEF Retries, ExchangeStates
    <2>2. /\ cur'.cmd = cur.cmd /\ cur'.retries = cur.retries + 1 /\ UNCHANGED copies
      BY <1>6, Zenon DEF Retries
    <2> QED BY <1>0, <2>1, <2>2
  <1>7. ASSUME NEW r, Ends(r) PROVE AttemptsInv'
    <2>1. mState' \notin ExchangeStates /\ mState' # "TxPending"
      BY <1>7 DEF Ends, ExchangeStates
    <2> QED BY <1>7, <2>1, Zenon DEF Ends
  <1> QED
    BY <1>1, <1>2, <1>3, <1>4, <1>5, <1>6, <1>7, Zenon
       DEF Moves, EndsLocally, EndsAnswered, EndsUnanswered

\* The types and the single outcome every later invariant starts from.
Core == TypeInv /\ OneOutcome

\* Both hold in every reachable state.
LEMMA CoreInv == Spec => []Core
  <1>1. Init => OneOutcome
    <2>1. ASSUME Init PROVE OneOutcome
      <3>1. mState \notin ExchangeStates /\ results = << >>
        BY <2>1 DEF Init, ExchangeStates
      <3> QED BY <3>1 DEF OneOutcome
    <2> QED BY <2>1
  <1>2. Init => Core
    BY <1>1, TypeInit DEF Core
  <1>3. Core /\ [Next]_vars => Core'
    BY TypeStep, OutcomeStep DEF Core
  <1> QED BY <1>2, <1>3, PTL DEF Spec

\* However the steps of the engine, its peers and its callers interleave, a command is
\* reported at most once, never while it is in flight, and no handler works on an
\* exchange that is already closed.
THEOREM Outcomes == Spec => []OneOutcome
  BY CoreInv, PTL DEF Core

\* No more copies of a command go on the air than its attempts allow, the first one
\* included.
THEOREM Attempts == Spec => []AttemptsBounded
  <1>1. Init => AttemptsInv
    <2>1. ASSUME Init PROVE AttemptsInv
      <3>1. mState \notin ExchangeStates /\ mState # "TxPending" /\ copies = 0
        BY <2>1 DEF Init, ExchangeStates
      <3>2. cur.cmd.maxAttempts \in Nat
        BY <2>1, TypeInit, CommandType DEF TypeInv, Sound, Copy
      <3> QED BY <3>1, <3>2 DEF AttemptsInv, InExchange
    <2> QED BY <2>1
  <1>2. Core /\ AttemptsInv /\ [Next]_vars => AttemptsInv'
    BY AttemptsStep DEF Core
  <1>3. AttemptsInv => AttemptsBounded
    BY DEF AttemptsInv, AttemptsBounded
  <1> QED BY <1>1, <1>2, <1>3, CoreInv, PTL DEF Spec

-----------------------------------------------------------------------------
(* Authenticated commands *)

\* While an exchange runs, its three flags say together that a 2W challenge was met.
FlagsInv ==
    /\ InExchange /\ mAuthResponseSent =>
          mSawChallenge /\ mWaitingFinalResponse /\ mState # "TxPending" /\ ~ cur.cmd.oneWay
    /\ InExchange /\ mSawChallenge => mAuthResponseSent
    /\ mState = "Tx1WRepeat" => cur.cmd.oneWay

\* Every move keeps the flags consistent.
LEMMA FlagsStep == Core /\ FlagsInv /\ [Next]_vars => FlagsInv'
  <1> SUFFICES ASSUME Core, FlagsInv, Moves PROVE FlagsInv'
    BY StepMoves DEF Core
  <1> USE DEF flags, history, report, InExchange, FlagsInv
  <1>1. CASE Waits
    <2>1. /\ UNCHANGED <<cur, flags>> /\ (InExchange' => InExchange)
          /\ mState' = "TxPending" => mState = "TxPending"
          /\ mState' = "Tx1WRepeat" => mState = "Tx1WRepeat"
      BY <1>1 DEF Waits, ExchangeStates, Awaiting
    <2> QED BY <2>1, Zenon
  <1>2. CASE Takes
    <2>1. mState' # "Tx1WRepeat"
      BY <1>2 DEF Takes, ExchangeStates
    <2> QED BY <1>2, <2>1, Zenon DEF Takes
  <1>3. CASE Drops
    <2>1. mState' \notin ExchangeStates /\ mState' # "Tx1WRepeat"
      BY <1>3 DEF Drops, ExchangeStates
    <2> QED BY <2>1, Zenon
  <1>4. CASE Starts
    <2>1. InExchange /\ mState' # "Tx1WRepeat"
      BY <1>4 DEF Starts, ExchangeStates
    <2> QED BY <1>4, <2>1, Zenon DEF Starts
  <1>5. CASE Sent \/ Listens \/ Schedules
    <2>1. InExchange /\ mState' # "TxPending" /\ mState' # "Tx1WRepeat"
      BY <1>5 DEF Sent, Listens, Schedules, ExchangeStates
    <2>2. UNCHANGED <<cur, flags>>
      BY <1>5, Zenon DEF Sent, Listens, Schedules
    <2> QED BY <2>1, <2>2, Zenon
  <1>6. CASE RepeatsOneWay
    <2>1. InExchange /\ mState' # "TxPending"
      BY <1>6 DEF RepeatsOneWay, ExchangeStates
    <2> QED BY <1>6, <2>1, Zenon DEF RepeatsOneWay
  <1>7. CASE Answers
    <2>1. mState' # "TxPending" /\ mState' # "Tx1WRepeat"
      BY <1>7 DEF Answers
    <2> QED BY <1>7, <2>1, Zenon DEF Answers
  <1>8. CASE Accepts
    <2>1. InExchange /\ mState' # "TxPending" /\ mState' # "Tx1WRepeat"
      BY <1>8 DEF Accepts, ExchangeStates
    <2> QED BY <1>8, <2>1, Zenon DEF Accepts
  <1>9. CASE Retries
    <2>1. mState' # "Tx1WRepeat"
      BY <1>9 DEF Retries
    <2> QED BY <1>9, <2>1, Zenon DEF Retries
  <1>10. ASSUME NEW r, Ends(r) PROVE FlagsInv'
    <2>1. mState' \notin ExchangeStates /\ mState' # "Tx1WRepeat"
      BY <1>10 DEF Ends, ExchangeStates
    <2> QED BY <2>1, Zenon
  <1> QED
    BY <1>1, <1>2, <1>3, <1>4, <1>5, <1>6, <1>7, <1>8, <1>9, <1>10, Zenon
       DEF Moves, EndsLocally, EndsAnswered, EndsUnanswered

\* An Execute whose challenge was answered is marked as accepted before it can be
\* sent again, and what is marked is repeatable and its peer confirms.
ResendInv ==
    /\ cur.accepted => cur.cmd.execute
    /\ InExchange /\ cur.accepted => confirms /\ cur.cmd.repeatable /\ cur.tries = 1
    /\ InExchange /\ ~ cur.accepted => cur.tries = 0
    /\ cur.cmd.oneWay => answered = 0
    /\ InExchange /\ cur.cmd.execute /\ answered > 0 => cur.accepted \/ mAuthResponseSent
    /\ InExchange /\ cur.cmd.execute /\ mAuthResponseSent /\ retryIn # NoRetry => cur.accepted
    /\ InExchange /\ cur.cmd.execute /\ lateCopies > 0 =>
          cur.accepted /\ retryIn = NoRetry /\ mState # "TxPending"
    /\ CautiousResend

\* Every move keeps accepted Executes marked.
LEMMA ResendStep == Core /\ FlagsInv /\ ResendInv /\ [Next]_vars => ResendInv'
  <1> SUFFICES ASSUME Core, FlagsInv, ResendInv, Moves PROVE ResendInv'
    BY StepMoves DEF Core
  <1> USE DEF flags, history, report, InExchange, FlagsInv, ResendInv, CautiousResend
  <1>0. answered \in Nat /\ lateCopies \in Nat
    BY DEF Core, TypeInv, CountType
  <1>i. InExchange => cur.active
    BY Zenon DEF Core, OneOutcome
  <1>1. CASE Waits
    <2>1. /\ UNCHANGED <<cur, flags, history, report>> /\ (InExchange' => InExchange)
          /\ mState' = "TxPending" => mState = "TxPending"
          /\ retryIn' # NoRetry => retryIn # NoRetry
      BY <1>1 DEF Waits, ExchangeStates, Awaiting
    <2> QED BY <2>1, Zenon
  <1>2. CASE Takes
    <2>1. ~ (answered' > 0) /\ ~ (lateCopies' > 0)
      BY <1>2 DEF Takes
    <2> QED BY <1>2, <2>1, Zenon DEF Takes
  <1>3. CASE Drops
    <2>1. mState' \notin ExchangeStates
      BY <1>3 DEF Drops, ExchangeStates
    <2> QED BY <1>3, <2>1, Zenon DEF Drops
  <1>4. CASE Starts
    <2>1. InExchange /\ mState' # "TxPending"
      BY <1>4 DEF Starts, ExchangeStates
    <2>2. /\ UNCHANGED <<cur, mAuthResponseSent, answered, report>>
          /\ lateCopies' = IF answered > 0 THEN lateCopies + 1 ELSE lateCopies
          /\ ~ cur.cmd.oneWay => retryIn' = NoRetry
          /\ ~ mAuthResponseSent
      BY <1>4, <2>1, Zenon DEF Starts
    <2>3. CASE cur.cmd.execute /\ answered > 0
      <3>1. cur.accepted /\ ~ cur.cmd.oneWay /\ confirms /\ cur.cmd.repeatable
        BY <1>0, <2>1, <2>2, <2>3
      <3>2. lateCopies = 0 /\ lateCopies' = 1
        BY <1>0, <1>4, <2>1, <2>2, <2>3 DEF Starts
      <3> QED BY <2>1, <2>2, <2>3, <3>1, <3>2, Zenon
    <2>4. CASE ~ (cur.cmd.execute /\ answered > 0)
      <3>1. cur.cmd.execute => lateCopies' = lateCopies /\ ~ (lateCopies > 0)
        BY <1>4, <2>1, <2>2, <2>4, Zenon DEF Starts
      <3> QED BY <2>1, <2>2, <2>4, <3>1, Zenon
    <2> QED BY <2>3, <2>4
  <1>5. CASE Sent
    <2>1. InExchange /\ mState' # "TxPending"
      BY <1>5 DEF Sent, ExchangeStates
    <2>2. /\ UNCHANGED <<cur, flags, retryIn, copies, lateCopies, report>>
          /\ ~ cur.cmd.oneWay
          /\ mAuthResponseSent \/ answered' = answered
      BY <1>5, Zenon DEF Sent
    <2> QED BY <2>1, <2>2, Zenon
  <1>6. CASE Listens \/ RepeatsOneWay
    <2>1. InExchange /\ mState' # "TxPending"
      BY <1>6 DEF Listens, RepeatsOneWay, ExchangeStates
    <2>2. UNCHANGED <<cur, flags, retryIn, history, report>>
      BY <1>6, Zenon DEF Listens, RepeatsOneWay
    <2> QED BY <2>1, <2>2, Zenon
  <1>7. CASE Answers
    <2>1. InExchange /\ mState' # "TxPending"
      BY <1>7 DEF Answers, Awaiting, ExchangeStates
    <2> QED BY <1>7, <2>1, Zenon DEF Answers
  <1>8. CASE Accepts
    <2>1. InExchange /\ mState' # "TxPending"
      BY <1>8 DEF Accepts, ExchangeStates
    <2>2. 0 # 1 /\ ~ (cur.accepted /\ cur.tries = 1)
      BY <1>8 DEF Accepts
    <2> QED BY <1>8, <2>1, <2>2, Zenon DEF Accepts
  <1>9. CASE Schedules
    <2>1. InExchange /\ mState' # "TxPending"
      BY <1>9 DEF Schedules, ExchangeStates
    <2> QED BY <1>9, <1>i, <2>1, Zenon DEF Schedules
  <1>10. CASE Retries
    <2>1. InExchange
      BY <1>10 DEF Retries, ExchangeStates
    <2> QED BY <1>10, <2>1, Zenon DEF Retries
  <1>11. ASSUME NEW r, Ends(r), UNCHANGED answered \/ ~ cur.cmd.oneWay,
                cur'.accepted = cur.accepted \/ cur.cmd.execute
         PROVE  ResendInv'
    <2>1. mState' \notin ExchangeStates
      BY <1>11 DEF Ends, ExchangeStates
    <2> QED BY <1>11, <2>1, Zenon DEF Ends
  <1> QED
    BY <1>1, <1>2, <1>3, <1>4, <1>5, <1>6, <1>7, <1>8, <1>9, <1>10, <1>11, Zenon
       DEF Moves, EndsLocally, EndsAnswered, EndsUnanswered

\* Both hold in every reachable state.
LEMMA AuthenticatedInv == Spec => [](FlagsInv /\ ResendInv)
  <1>1. Init => FlagsInv /\ ResendInv
    <2>1. ASSUME Init PROVE FlagsInv /\ ResendInv
      <3>1. mState \notin ExchangeStates /\ mState # "Tx1WRepeat"
        BY <2>1 DEF Init, ExchangeStates
      <3>2. ~ cur.accepted /\ ~ (lateCopies > 0) /\ answered = 0
        <4>1. cur \in NoCommand /\ lateCopies = 0 /\ answered = 0
          BY <2>1, Zenon DEF Init
        <4>2. ~ cur.accepted
          BY <4>1 DEF NoCommand
        <4> QED BY <4>1, <4>2
      <3> QED BY <3>1, <3>2, Zenon DEF FlagsInv, ResendInv, CautiousResend, InExchange
    <2> QED BY <2>1
  <1>2. Core /\ FlagsInv /\ ResendInv /\ [Next]_vars => (FlagsInv /\ ResendInv)'
    BY FlagsStep, ResendStep
  <1> QED BY <1>1, <1>2, CoreInv, PTL DEF Spec

\* An Execute the actuator has authenticated goes on the air at most once more, and only
\* if it is repeatable and the peer has been seen to confirm.
THEOREM Resends == Spec => []CautiousResend
  BY AuthenticatedInv, PTL DEF ResendInv

-----------------------------------------------------------------------------
(* What the outcome says *)

\* On the air a copy of an answered Execute is one that was marked.
MarkedOnAir ==
    mState = "TxInProgress" /\ radio = "Transmitting" /\ cur.cmd.execute /\ answered > 0 =>
        cur.accepted

Denied(r) == r \in {"Unknown", "FailedBeforeAuthentication"}

\* Every move keeps the copy on the air marked.
LEMMA MarkedStep ==
    Core /\ FlagsInv /\ ResendInv /\ MarkedOnAir /\ [Next]_vars => MarkedOnAir'
  <1> SUFFICES ASSUME Core, FlagsInv, ResendInv, MarkedOnAir, Moves PROVE MarkedOnAir'
    BY StepMoves DEF Core
  <1> USE DEF flags, history, report, InExchange, FlagsInv, ResendInv, MarkedOnAir
  <1>1. CASE Waits
    <2>1. /\ UNCHANGED <<cur, answered>>
          /\ mState' = "TxInProgress" => mState = "TxInProgress" \/ mState' # mState
          /\ mState' = "TxInProgress" /\ radio' = "Transmitting" => radio = "Transmitting"
          /\ mState' = "TxInProgress" => mState = "TxInProgress"
      BY <1>1 DEF Waits, ExchangeStates, Awaiting
    <2> QED BY <2>1, Zenon
  <1>2. CASE Takes \/ Drops \/ Listens \/ Schedules \/ Accepts \/ Retries
    <2>1. mState' # "TxInProgress"
      BY <1>2 DEF Takes, Drops, Listens, Schedules, Accepts, Retries, ExchangeStates
    <2> QED BY <2>1, Zenon
  <1>3. CASE Starts
    <2>1. InExchange /\ mState = "TxPending" /\ UNCHANGED <<cur, answered>>
      BY <1>3 DEF Starts, ExchangeStates
    <2> QED BY <2>1, Zenon
  <1>4. CASE Sent
    <2>1. radio' # "Transmitting"
      BY <1>4, Zenon DEF Sent
    <2> QED BY <2>1, Zenon
  <1>5. CASE RepeatsOneWay
    <2>1. /\ UNCHANGED <<cur, answered>>
          /\ mState' = "TxInProgress" => cur.cmd.oneWay
      BY <1>5 DEF RepeatsOneWay
    <2>2. cur.cmd.oneWay => ~ (answered > 0)
      OBVIOUS
    <2> QED BY <2>1, <2>2, Zenon
  <1>6. CASE Answers
    <2>1. InExchange /\ ~ mAuthResponseSent /\ UNCHANGED <<cur, answered>>
      BY <1>6 DEF Answers, Awaiting, ExchangeStates
    <2> QED BY <2>1, Zenon
  <1>7. ASSUME NEW r, Ends(r) PROVE MarkedOnAir'
    <2>1. mState' # "TxInProgress"
      BY <1>7 DEF Ends
    <2> QED BY <2>1, Zenon
  <1> QED
    BY <1>1, <1>2, <1>3, <1>4, <1>5, <1>6, <1>7, Zenon
       DEF Moves, EndsLocally, EndsAnswered, EndsUnanswered

\* Every move keeps the outcome from denying what was accepted.
LEMMA DeniedStep ==
    ASSUME "receive" \notin Failures
    PROVE  Core /\ FlagsInv /\ ResendInv /\ MarkedOnAir /\ AcceptedExecuteNotDenied
               /\ [Next]_vars => AcceptedExecuteNotDenied'
  <1> SUFFICES ASSUME Core, FlagsInv, ResendInv, MarkedOnAir, AcceptedExecuteNotDenied, Moves
               PROVE  AcceptedExecuteNotDenied'
    BY StepMoves DEF Core
  <1> USE DEF flags, history, report, InExchange, FlagsInv, ResendInv, MarkedOnAir
  <1>i. InExchange => cur.active
    BY Zenon DEF Core, OneOutcome
  <1>1. CASE Waits
    BY <1>1, Zenon DEF Waits, AcceptedExecuteNotDenied
  <1>2. CASE Takes
    <2>1. ~ (answered' > 0)
      BY <1>2 DEF Takes
    <2> QED BY <2>1, Zenon DEF AcceptedExecuteNotDenied
  <1>3. CASE Drops
    <2>1. UNCHANGED <<history, results>> /\ cur'.cmd = cur.cmd
      BY <1>3, Zenon DEF Drops
    <2>2. cur.active => results = << >>
      BY Zenon DEF Core, OneOutcome
    <2>3. cur.active => DOMAIN results' = {}
      BY <2>1, <2>2
    <2> QED BY <2>1, <2>3, Zenon DEF AcceptedExecuteNotDenied
  <1>4. CASE Starts \/ Sent \/ Listens \/ RepeatsOneWay \/ Answers \/ Schedules \/ Accepts
             \/ Retries
    <2>1. InExchange
      BY <1>4 DEF Starts, Sent, Listens, RepeatsOneWay, Answers, Schedules, Accepts, Retries,
                  Awaiting, ExchangeStates
    <2>2. cur'.active = cur.active
      BY <1>4, Zenon DEF Starts, Sent, Listens, RepeatsOneWay, Answers, Schedules, Accepts,
                         Retries
    <2> QED BY <1>i, <2>1, <2>2, Zenon DEF AcceptedExecuteNotDenied
  <1>5. ASSUME NEW r, Ends(r), ~ Denied(r) \/ ~ (cur.cmd.execute /\ answered > 0),
                UNCHANGED answered
         PROVE  AcceptedExecuteNotDenied'
    <2>1. results' = <<r>> /\ cur'.cmd = cur.cmd
      BY <1>5, Zenon DEF Ends
    <2>2. \A i \in DOMAIN results' : results'[i] = r
      BY <2>1
    <2> QED BY <1>5, <2>1, <2>2, Zenon DEF AcceptedExecuteNotDenied, Denied
  <1>6. CASE EndsLocally
    <2>1. /\ InExchange /\ UNCHANGED answered
          /\ \/ mState \in {"TxPending", "Tx1WRepeat"}
             \/ mState = "TxInProgress" /\ radio = "Transmitting"
             \/ ~ mAuthResponseSent
      BY <1>6, Zenon DEF EndsLocally, Ends
    <2>2. cur.cmd.execute /\ answered > 0 => cur.accepted
      BY <2>1
    <2>3. ~ Denied("AuthenticatedUnconfirmed")
      BY DEF Denied
    <2> QED BY <1>5, <1>6, <2>1, <2>2, <2>3, Zenon DEF EndsLocally
  <1>7. CASE EndsAnswered
    <2>1. ~ Denied("Completed") /\ ~ Denied("ExplicitlyRejected")
      BY DEF Denied
    <2> QED BY <1>5, <1>7, <2>1, Zenon DEF EndsAnswered
  <1>8. CASE EndsUnanswered
    <2>1. ~ Denied("AuthenticatedUnconfirmed")
      BY DEF Denied
    <2>2. InExchange
      BY <1>8, Zenon DEF EndsUnanswered, Ends
    <2>3. CASE Ends("Unknown") /\ ~ (mSawChallenge /\ mWaitingFinalResponse) /\ ~ cur'.accepted
      <3>1. ~ cur.accepted
        BY <1>8, <2>2, <2>3, Zenon DEF EndsUnanswered
      <3>2. ~ (cur.cmd.execute /\ answered > 0)
        BY <2>2, <2>3, <3>1, Zenon
      <3> QED BY <1>5, <1>8, <2>3, <3>2, Zenon DEF EndsUnanswered
    <2> QED BY <1>5, <1>8, <2>1, <2>3, Zenon DEF EndsUnanswered
  <1> QED BY <1>1, <1>2, <1>3, <1>4, <1>6, <1>7, <1>8, Zenon DEF Moves

\* Once the answer to the challenge of an Execute has left the antenna no outcome denies
\* it, provided the receiver can be started again, which no driver refuses once
\* initialised.
THEOREM NotDenied ==
    ASSUME "receive" \notin Failures
    PROVE  Spec => []AcceptedExecuteNotDenied
  <1>1. Init => MarkedOnAir /\ AcceptedExecuteNotDenied
    <2>1. ASSUME Init PROVE MarkedOnAir /\ AcceptedExecuteNotDenied
      <3>1. mState # "TxInProgress" /\ ~ (answered > 0)
        BY <2>1 DEF Init
      <3> QED BY <3>1, Zenon DEF MarkedOnAir, AcceptedExecuteNotDenied
    <2> QED BY <2>1
  <1>2. Core /\ FlagsInv /\ ResendInv /\ MarkedOnAir /\ AcceptedExecuteNotDenied /\ [Next]_vars
            => (MarkedOnAir /\ AcceptedExecuteNotDenied)'
    BY MarkedStep, DeniedStep
  <1> QED BY <1>1, <1>2, CoreInv, AuthenticatedInv, PTL DEF Spec

\* An exchange that has met a challenge and no longer transmits has answered it.
AnsweredInv ==
    /\ cur.accepted => answered > 0
    /\ mState \in Awaiting /\ mAuthResponseSent => answered > 0
    /\ mState = "TxInProgress" /\ mAuthResponseSent /\ radio # "Transmitting" => answered > 0
    /\ AcceptedMeansAnswered

\* Every move keeps what AnsweredInv says.
LEMMA AnsweredStep ==
    ASSUME "stopKeyExtraction" \notin Interruptions
    PROVE  Core /\ FlagsInv /\ AnsweredInv /\ [Next]_vars => AnsweredInv'
  <1> SUFFICES ASSUME Core, FlagsInv, AnsweredInv, Moves PROVE AnsweredInv'
    BY StepMoves DEF Core
  <1> USE DEF flags, history, report, InExchange, FlagsInv, AnsweredInv
  <1>0. answered \in Nat
    BY DEF Core, TypeInv, CountType
  <1>i. InExchange => results = << >>
    BY Zenon DEF Core, OneOutcome
  <1>m. << >> # <<"AuthenticatedUnconfirmed">>
    OBVIOUS
  <1>1. CASE Waits
    <2>1. /\ UNCHANGED <<cur, flags, history, report>>
          /\ mState' \in Awaiting => mState \in Awaiting
          /\ mState' = "TxInProgress" => mState = "TxInProgress" /\ radio' = radio
      BY <1>1 DEF Waits, ExchangeStates, Awaiting
    <2> QED BY <2>1, Zenon DEF AcceptedMeansAnswered
  <1>2. CASE Takes
    <2>1. results' = << >> \/ results' = <<"FailedBeforeAuthentication">>
      BY <1>2, Zenon DEF Takes
    <2>2. <<"FailedBeforeAuthentication">> # <<"AuthenticatedUnconfirmed">>
      OBVIOUS
    <2>3. ~ cur'.accepted /\ ~ mAuthResponseSent'
      BY <1>2, Zenon DEF Takes
    <2> QED BY <1>m, <2>1, <2>2, <2>3, Zenon DEF AcceptedMeansAnswered
  <1>3. CASE Drops
    <2>1. mState' \notin Awaiting /\ mState' # "TxInProgress"
      BY <1>3 DEF Drops, Awaiting
    <2> QED BY <1>3, <2>1, Zenon DEF Drops, AcceptedMeansAnswered
  <1>4. CASE Starts
    <2>1. InExchange /\ mState' \notin Awaiting
      BY <1>4 DEF Starts, Awaiting, ExchangeStates
    <2> QED BY <1>4, <2>1, Zenon DEF Starts, AcceptedMeansAnswered
  <1>5. CASE Sent
    <2>1. /\ UNCHANGED <<cur, flags, report>>
          /\ answered' >= answered /\ (mAuthResponseSent => answered' > 0)
      BY <1>0, <1>5 DEF Sent
    <2>2. answered > 0 => answered' > 0
      BY <1>0, <1>5 DEF Sent
    <2> QED BY <2>1, <2>2, Zenon DEF AcceptedMeansAnswered
  <1>6. CASE Listens
    BY <1>6, Zenon DEF Listens, AcceptedMeansAnswered
  <1>7. CASE RepeatsOneWay
    <2>1. InExchange /\ mState' \notin Awaiting /\ cur.cmd.oneWay /\ ~ mAuthResponseSent
      BY <1>7 DEF RepeatsOneWay, Awaiting, ExchangeStates
    <2> QED BY <1>7, <2>1, Zenon DEF RepeatsOneWay, AcceptedMeansAnswered
  <1>8. CASE Answers
    <2>1. mState' \notin Awaiting
      BY <1>8 DEF Answers, Awaiting
    <2> QED BY <1>8, <2>1, Zenon DEF Answers, AcceptedMeansAnswered
  <1>9. CASE Schedules
    BY <1>9, Zenon DEF Schedules, AcceptedMeansAnswered
  <1>10. CASE Accepts
    <2>1. answered > 0 /\ mState' # "TxInProgress"
      BY <1>10 DEF Accepts, Awaiting, ExchangeStates
    <2> QED BY <1>10, <2>1, Zenon DEF Accepts, AcceptedMeansAnswered
  <1>11. CASE Retries
    BY <1>11, Zenon DEF Retries, AcceptedMeansAnswered
  <1>12. ASSUME NEW r, Ends(r), cur'.accepted => answered' > 0,
                r = "AuthenticatedUnconfirmed" => answered' > 0
         PROVE  AnsweredInv'
    <2>1. mState' \notin Awaiting /\ mState' # "TxInProgress" /\ results' = <<r>>
      BY <1>12 DEF Ends, Awaiting
    <2>2. results' = <<"AuthenticatedUnconfirmed">> => r = "AuthenticatedUnconfirmed"
      BY <2>1
    <2> QED BY <1>12, <2>1, <2>2, Zenon DEF AcceptedMeansAnswered
  <1>13. CASE EndsLocally
    <2>1. cur'.accepted => answered' > 0
      BY <1>0, <1>13 DEF EndsLocally
    <2>2. cur'.accepted = cur.accepted
      BY <1>13, Zenon DEF EndsLocally
    <2>3. "FailedBeforeAuthentication" # "AuthenticatedUnconfirmed"
      OBVIOUS
    <2> QED BY <1>12, <1>13, <2>1, <2>2, <2>3, Zenon DEF EndsLocally
  <1>14. CASE EndsAnswered
    <2>1. /\ "Completed" # "AuthenticatedUnconfirmed"
          /\ "ExplicitlyRejected" # "AuthenticatedUnconfirmed"
      OBVIOUS
    <2> QED BY <1>12, <1>14, <2>1, Zenon DEF EndsAnswered
  <1>15. CASE EndsUnanswered
    <2>1. InExchange /\ mState \in Awaiting
      BY <1>15 DEF EndsUnanswered, Awaiting, ExchangeStates
    <2>2. mSawChallenge => answered > 0
      BY <2>1, Zenon
    <2>3. "Unknown" # "AuthenticatedUnconfirmed"
      OBVIOUS
    <2> QED BY <1>12, <1>15, <2>2, <2>3, Zenon DEF EndsUnanswered
  <1> QED
    BY <1>1, <1>2, <1>3, <1>4, <1>5, <1>6, <1>7, <1>8, <1>9, <1>10, <1>11, <1>13, <1>14,
       <1>15, Zenon DEF Moves

\* "Authenticated, unconfirmed" is reported only of a command whose challenge was answered
\* on the air, provided nobody restarts the receiver during a transmission, as the timers
\* of an armed key extraction do.
THEOREM MeansAnswered ==
    ASSUME "stopKeyExtraction" \notin Interruptions
    PROVE  Spec => []AcceptedMeansAnswered
  <1>1. Init => AnsweredInv
    <2>1. ASSUME Init PROVE AnsweredInv
      <3>1. cur \in NoCommand /\ mState = "Idle" /\ results = << >>
        BY <2>1, Zenon DEF Init
      <3>2. ~ cur.accepted /\ mState \notin Awaiting /\ mState # "TxInProgress"
        BY <3>1 DEF NoCommand, Awaiting
      <3>3. results # <<"AuthenticatedUnconfirmed">>
        BY <3>1
      <3> QED BY <3>2, <3>3, Zenon DEF AnsweredInv, AcceptedMeansAnswered
    <2> QED BY <2>1
  <1>2. Core /\ FlagsInv /\ AnsweredInv /\ [Next]_vars => AnsweredInv'
    BY AnsweredStep
  <1>3. AnsweredInv => AcceptedMeansAnswered
    BY DEF AnsweredInv
  <1> QED BY <1>1, <1>2, <1>3, CoreInv, AuthenticatedInv, PTL DEF Spec

\* A poll in flight has not been reported as failed.
PollInv == cur.active => ~ pollTold

\* What PollFailureTold says of a step.
ToldExactly ==
    cur.cmd.tracked /\ cur.active /\ ~ cur'.active /\ results' # << >> =>
        (pollTold' <=> /\ mState \in Awaiting
                       /\ results'[1] \notin {"Completed", "ExplicitlyRejected"})

\* Every move keeps the channel told.
LEMMA PollStep == Core /\ PollInv /\ [Next]_vars => PollInv' /\ ToldExactly
  <1> SUFFICES ASSUME Core, PollInv, Moves PROVE PollInv' /\ ToldExactly
    BY StepMoves DEF Core
  <1> USE DEF flags, history, report, InExchange
  <1>i. (InExchange => cur.active) /\ (cur.active => results = << >>)
    BY Zenon DEF Core, OneOutcome
  <1>a. Awaiting \subseteq ExchangeStates
    BY DEF Awaiting, ExchangeStates
  <1>1. CASE Waits \/ Schedules
    <2>1. UNCHANGED <<cur, results, pollTold>>
      BY <1>1, Zenon DEF Waits, Schedules
    <2> QED BY <2>1, Zenon DEF PollInv, ToldExactly
  <1>2. CASE Takes
    <2>1. ~ pollTold' /\ mState \notin Awaiting
      BY <1>2, <1>a, Zenon DEF Takes
    <2> QED BY <2>1, Zenon DEF PollInv, ToldExactly
  <1>3. CASE Drops
    <2>1. UNCHANGED <<results, pollTold>> /\ (cur'.active => cur.active)
      BY <1>3, Zenon DEF Drops
    <2> QED BY <1>i, <2>1, Zenon DEF PollInv, ToldExactly
  <1>4. CASE Starts \/ Sent \/ Listens \/ RepeatsOneWay \/ Answers \/ Accepts \/ Retries
    <2>1. cur'.active = cur.active /\ UNCHANGED pollTold
      BY <1>4, Zenon DEF Starts, Sent, Listens, RepeatsOneWay, Answers, Accepts, Retries
    <2> QED BY <2>1, Zenon DEF PollInv, ToldExactly
  <1>5. ASSUME NEW r, Ends(r)
        PROVE  results'[1] = r /\ ~ cur'.active /\ ~ pollTold
    <2>1. results' = <<r>> /\ ~ cur'.active /\ cur.active
      BY <1>5, <1>i, Zenon DEF Ends
    <2>2. results'[1] = r
      BY <2>1
    <2> QED BY <2>1, <2>2, Zenon DEF PollInv
  <1>6. CASE EndsLocally
    <2>1. PICK r \in {"AuthenticatedUnconfirmed", "FailedBeforeAuthentication"} : Ends(r)
      BY <1>6, Zenon DEF EndsLocally
    <2>2. r \notin {"Completed", "ExplicitlyRejected"}
      OBVIOUS
    <2>3. results'[1] = r /\ ~ cur'.active /\ ~ pollTold
      BY <1>5, <2>1
    <2>4. \/ mState \notin Awaiting /\ UNCHANGED pollTold
          \/ mState \in Awaiting /\ pollTold' = (pollTold \/ cur.cmd.tracked)
      BY <1>6, Zenon DEF EndsLocally
    <2>5. CASE mState \notin Awaiting /\ UNCHANGED pollTold
      <3>1. ~ pollTold'
        BY <2>3, <2>5
      <3> QED BY <2>3, <2>5, <3>1, Zenon DEF PollInv, ToldExactly
    <2>6. CASE mState \in Awaiting /\ pollTold' = (pollTold \/ cur.cmd.tracked)
      <3>1. cur.cmd.tracked => pollTold'
        BY <2>6, Zenon
      <3>2. results'[1] \notin {"Completed", "ExplicitlyRejected"}
        BY <2>2, <2>3, Zenon
      <3> QED BY <2>3, <2>6, <3>1, <3>2, Zenon DEF PollInv, ToldExactly
    <2> QED BY <2>4, <2>5, <2>6, Zenon
  <1>7. CASE EndsAnswered
    <2>1. PICK r \in {"Completed", "ExplicitlyRejected"} : Ends(r)
      BY <1>7, Zenon DEF EndsAnswered
    <2>2. results'[1] = r /\ ~ cur'.active /\ ~ pollTold
      BY <1>5, <2>1
    <2>3. pollTold' = pollTold
      BY <1>7, Zenon DEF EndsAnswered
    <2> QED BY <2>1, <2>2, <2>3, Zenon DEF PollInv, ToldExactly
  <1>8. CASE EndsUnanswered
    <2>1. PICK r \in {"AuthenticatedUnconfirmed", "Unknown"} : Ends(r)
      BY <1>8, Zenon DEF EndsUnanswered
    <2>2. r \notin {"Completed", "ExplicitlyRejected"} /\ mState \in Awaiting
      BY <1>8 DEF EndsUnanswered, Awaiting
    <2>3. results'[1] = r /\ ~ cur'.active /\ ~ pollTold
      BY <1>5, <2>1
    <2>4. pollTold' = (pollTold \/ cur.cmd.tracked)
      BY <1>8, Zenon DEF EndsUnanswered
    <2> QED BY <2>2, <2>3, <2>4, Zenon DEF PollInv, ToldExactly
  <1> QED BY <1>1, <1>2, <1>3, <1>4, <1>6, <1>7, <1>8, Zenon DEF Moves

\* The channel is told that a tracked poll failed exactly when the poll ended while the module
\* waited for the peer and without an answer; of one the module fails to send it is not told.
THEOREM PollsTold == Spec => PollFailureTold
  <1>1. Init => PollInv
    BY Zenon DEF Init, PollInv
  <1>2. Core /\ PollInv /\ [Next]_vars => PollInv' /\ [ToldExactly]_vars
    BY PollStep
  <1>3. Spec => [][ToldExactly]_vars
    BY <1>1, <1>2, CoreInv, PTL DEF Spec
  <1> QED BY <1>3, Zenon DEF PollFailureTold, ToldExactly, Awaiting

\* An exchange nobody interrupts is left only with its outcome: no handler drops the
\* current command silently.
THEOREM EndsReported ==
    ASSUME Interruptions = {}, Frames \cap {"Status", "OtherStatus"} = {}
    PROVE  Spec => EndsWithOutcome
  <1> USE DEF InExchange
  <1>1. ASSUME Core, Moves, mState \in ExchangeStates, mState' \notin ExchangeStates
        PROVE  Len(results') = 1
    <2>1. CASE \E r : Ends(r)
      <3>1. PICK r : results' = <<r>>
        BY <2>1, Zenon DEF Ends
      <3> QED BY <3>1
    <2>2. CASE Waits \/ Takes \/ Drops \/ Starts \/ Sent \/ Listens \/ RepeatsOneWay \/ Answers
               \/ Accepts \/ Schedules \/ Retries
      <3>1. ~ Waits
        BY <1>1 DEF Waits, Awaiting, ExchangeStates
      <3>2. ~ Takes /\ ~ Drops
        BY <1>1 DEF Takes, Drops
      <3>3. ~ (Starts \/ Sent \/ Listens \/ RepeatsOneWay \/ Answers \/ Accepts \/ Schedules
               \/ Retries)
        BY <1>1 DEF Starts, Sent, Listens, RepeatsOneWay, Answers, Accepts, Schedules, Retries,
                    ExchangeStates
      <3> QED BY <2>2, <3>1, <3>2, <3>3, Zenon
    <2> QED BY <1>1, <2>1, <2>2, Zenon DEF Moves, EndsLocally, EndsAnswered, EndsUnanswered
  <1>2. Core /\ [Next]_vars =>
            [(mState \in ExchangeStates /\ mState' \notin ExchangeStates) => Len(results') = 1]_vars
    BY <1>1, StepMoves, Zenon DEF Core
  <1> QED BY <1>2, CoreInv, PTL DEF Spec, EndsWithOutcome
=============================================================================
