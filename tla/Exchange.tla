------------------------------- MODULE Exchange -------------------------------
(***************************************************************************)
(* The command engine of IoHomeController: the queued command is built,    *)
(* transmitted, answered or not, authenticated (0x3C / 0x3D), retried and  *)
(* reported to its channel.  Each handler of loop() is an action; the      *)
(* environment is the radio, the air, the passing of time and the calls    *)
(* that reach the controller between two loops.                            *)
(*                                                                         *)
(* Time is counted in ticks and kept as ages that saturate where the code  *)
(* stops telling them apart.  The other machines of the controller are one *)
(* state each here: "Auth" (receive-side authentication and the 0x72       *)
(* acknowledgement), "Other" (pairing, passive listening, discovery and    *)
(* command scan).                                                          *)
(***************************************************************************)
EXTENDS Naturals, Sequences

CONSTANTS
    Command,        \* the commands callers may queue
    Capacity,       \* entries the queue holds, IOHC_CMD_QUEUE_SIZE - 1
    RxTimeout,      \* IOHC_RX_TIMEOUT_MS
    FinalTimeout,   \* IOHC_RX_FINAL_TIMEOUT_MS
    RetryGap,       \* IOHC_RETRY_GAP_MS
    UnconfirmedGap, \* IOHC_UNCONFIRMED_EXECUTE_RETRY_GAP_MS
    Budget,         \* IOHC_EXCHANGE_TOTAL_BUDGET_MS
    Repeats,        \* IOHC_1W_REPEAT_COUNT
    MaxPreambles,   \* bound: preambles heard in the response windows of a command
    Frames,         \* what may be received, a subset of FrameKinds
    Interruptions,  \* which calls come in between, a subset of InterruptionKinds
    Failures        \* which local operations may fail, a subset of FailureKinds

FrameKinds == {"Challenge",     \* 0x3C from the addressed peer to this node
               "Reply",         \* any other answer of the peer
               "Error",         \* 0xFE from the peer
               "Status",        \* 0x71 from the peer
               "OtherStatus",   \* 0x71 to this node from another paired channel
               "Foreign"}       \* anything else on the air

InterruptionKinds == {"startPairing", "startNetworkScan", "stopNetworkScan",
                      "stopKeyExtraction"}

FailureKinds == {"build",       \* a frame cannot be built, serialised or authenticated
                 "transmit",    \* the driver refuses a transmission, other than Busy
                 "txTimeout",   \* TxDone does not come
                 "receive"}     \* startReceive fails, other than Busy: the code handles
                                \* it, no driver returns it once initialised

\* An Execute with parameter 0xD8 (the favourite position) is not repeatable
\* and is queued with a single attempt; 1W commands keep the default.
ASSUME CommandAssumption ==
    /\ Command \subseteq [execute : BOOLEAN, repeatable : BOOLEAN, oneWay : BOOLEAN,
                          tracked : BOOLEAN, maxAttempts : Nat \ {0}]
    /\ \A c \in Command : /\ c.execute /\ ~ c.repeatable /\ ~ c.oneWay => c.maxAttempts = 1
                          /\ c.tracked => ~ c.execute /\ ~ c.oneWay
                          /\ c.oneWay => c.execute
ASSUME TimeAssumption ==
    /\ {RxTimeout, FinalTimeout, RetryGap, UnconfirmedGap, Budget} \subseteq Nat \ {0}
    /\ {Capacity, Repeats, MaxPreambles} \subseteq Nat
ASSUME EnvironmentAssumption ==
    /\ Frames \subseteq FrameKinds
    /\ Interruptions \subseteq InterruptionKinds
    /\ Failures \subseteq FailureKinds

VARIABLES
    mState, pending,
    cur,            \* mCurrentCmd: the command and what the exchange records in it
    mAuthResponseSent, mWaitingFinalResponse, mSawChallenge,
    retryIn,        \* mRetryAtMs as the time left, NoRetry for 0
    stateAge,       \* millis() - mStateTimer
    exchangeAge,    \* millis() - mExchangeStartMs
    mResponseTimeoutMs,
    mTx1WRepeatRemaining,
    radio,          \* the driver's RadioState
    rxFrame,        \* mRxFrame, while its processing waits for a Busy radio
    confirms,       \* mConfirmsExecute of the peer's channel
    preambles,      \* preambles heard for this command, for MaxPreambles
    copies,         \* history: command frames started on the air
    answered,       \* history: copies whose challenge was answered on the air
    lateCopies,     \* history: copies started after one was answered
    results,        \* history: outcomes reported for the current command
    pollTold        \* history: the channel learned that its poll failed

vars == <<mState, pending, cur, mAuthResponseSent, mWaitingFinalResponse,
          mSawChallenge, retryIn, stateAge, exchangeAge, mResponseTimeoutMs,
          mTx1WRepeatRemaining, radio, rxFrame, confirms, preambles, copies,
          answered, lateCopies, results, pollTold>>

flags   == <<mAuthResponseSent, mWaitingFinalResponse, mSawChallenge>>
clocks  == <<retryIn, stateAge, exchangeAge, mResponseTimeoutMs>>
history == <<copies, answered, lateCopies>>
report  == <<results, pollTold, confirms>>

NoRetry == RetryGap + UnconfirmedGap    \* mRetryAtMs = 0, no retry scheduled
NoFrame == "NoFrame"

ExchangeStates == {"TxPending", "TxInProgress", "Tx1WRepeat", "WaitResponse", "ProcessResponse"}

Results == {"Completed", "FailedBeforeAuthentication", "AuthenticatedUnconfirmed",
            "Unknown", "ExplicitlyRejected"}

\* The working copy of a queue entry.
Entry(c) == [cmd |-> c, active |-> TRUE, retries |-> 0, accepted |-> FALSE, tries |-> 0]

NoCommand == [cmd : Command, active : {FALSE}, retries : {0}, accepted : {FALSE}, tries : {0}]

\* An age beyond these limits changes no comparison.
AgeLimit == IF RxTimeout > FinalTimeout THEN RxTimeout ELSE FinalTimeout
Capped(age, limit) == IF age < limit THEN age + 1 ELSE limit

Init ==
    /\ mState = "Idle" /\ pending = << >>
    /\ cur \in NoCommand
    /\ mAuthResponseSent = FALSE /\ mWaitingFinalResponse = FALSE /\ mSawChallenge = FALSE
    /\ retryIn = NoRetry /\ stateAge = 0 /\ exchangeAge = 0
    /\ mResponseTimeoutMs = RxTimeout
    /\ mTx1WRepeatRemaining = 0
    /\ radio = "Receiving" /\ rxFrame = NoFrame
    /\ confirms = FALSE /\ preambles = 0
    /\ copies = 0 /\ answered = 0 /\ lateCopies = 0
    /\ results = << >> /\ pollTold = FALSE

-----------------------------------------------------------------------------
(* Reporting *)

\* Mutant: the outcome is passed on as it came.
ReportedVerbatim(entry, r) == r

\* notifyCommandExchangeResult: a local failure does not erase an earlier
\* accepted copy; the channel remembers a peer that closes an Execute.
Reported(entry, r) ==
    IF r = "FailedBeforeAuthentication" /\ entry.accepted
    THEN "AuthenticatedUnconfirmed" ELSE r

Notify(entry, r) ==
    /\ results' = Append(results, Reported(entry, r))
    /\ confirms' = (confirms \/ (entry.cmd.execute /\ r \in {"Completed", "ExplicitlyRejected"}))

\* Mutant: the entry stays active.
LocalFailureKeepsActive ==
    /\ Notify(cur, "FailedBeforeAuthentication")
    /\ UNCHANGED cur
    /\ mState' = "Idle"

\* A radio or build error ends the exchange.
LocalFailure ==
    /\ Notify(cur, "FailedBeforeAuthentication")
    /\ cur' = [cur EXCEPT !.active = FALSE]
    /\ mState' = "Idle"

\* Mutant: the poll's channel is not told.
ExchangeFailureUntold(entry, afterChallenge) ==
    /\ Notify(entry, IF afterChallenge \/ entry.accepted
                     THEN "AuthenticatedUnconfirmed" ELSE "Unknown")
    /\ UNCHANGED pollTold

\* recordExchangeFailure and notifyTrackedStatusPollFailure.
ExchangeFailure(entry, afterChallenge) ==
    /\ Notify(entry, IF afterChallenge \/ entry.accepted
                     THEN "AuthenticatedUnconfirmed" ELSE "Unknown")
    /\ pollTold' = (pollTold \/ entry.cmd.tracked)

\* failExchange, the lambda of processWaitResponse.
FailExchange(entry) ==
    /\ ExchangeFailure(entry, mSawChallenge /\ mWaitingFinalResponse)
    /\ cur' = [entry EXCEPT !.active = FALSE]
    /\ mAuthResponseSent' = FALSE /\ mWaitingFinalResponse' = FALSE /\ mSawChallenge' = FALSE
    /\ retryIn' = NoRetry /\ exchangeAge' = 0 /\ mResponseTimeoutMs' = RxTimeout
    /\ mState' = "Idle"
    /\ UNCHANGED stateAge

-----------------------------------------------------------------------------
(* Calls of other components *)

\* sendCommand and its kin: accepted while the queue has room.
SendCommand(c) ==
    /\ Len(pending) < Capacity
    /\ pending' = Append(pending, c)
    /\ UNCHANGED <<mState, cur, flags, clocks, mTx1WRepeatRemaining, radio, rxFrame,
                   preambles, history, report>>

\* startPairing over a busy controller drops the queue and the command in
\* flight; from Idle it leaves the queue alone.
StartPairing ==
    /\ "startPairing" \in Interruptions
    /\ mState # "Other"
    /\ IF mState = "Idle"
       THEN UNCHANGED <<pending, cur, mAuthResponseSent, radio>>
       ELSE /\ pending' = << >>
            /\ cur' = [cur EXCEPT !.active = FALSE, !.retries = 0, !.accepted = FALSE,
                                  !.tries = 0]
            /\ mAuthResponseSent' = FALSE
            /\ radio' \in {"Standby", "Receiving"}
    /\ mTx1WRepeatRemaining' = 0
    /\ mState' = "Other"
    /\ UNCHANGED <<mWaitingFinalResponse, mSawChallenge, clocks, rxFrame, preambles,
                   history, report>>

\* startNetworkScan: setPassiveMode(true) from whatever state.
StartNetworkScan ==
    /\ "startNetworkScan" \in Interruptions
    /\ mState' = "Other"
    /\ radio' \in {radio, "Receiving"}
    /\ UNCHANGED <<pending, cur, flags, clocks, mTx1WRepeatRemaining, rxFrame, preambles,
                   history, report>>

\* stopNetworkScan: setPassiveMode(false) makes the controller Idle from
\* whatever state, also when no scan was active.
StopNetworkScan ==
    /\ "stopNetworkScan" \in Interruptions
    /\ mState' = "Idle"
    /\ UNCHANGED <<pending, cur, flags, clocks, mTx1WRepeatRemaining, radio, rxFrame,
                   preambles, history, report>>

\* The timers of an armed key extraction restart the receiver (stopKeyExtraction)
\* whatever the command engine is doing, also during a transmission.
StopKeyExtraction ==
    /\ "stopKeyExtraction" \in Interruptions
    /\ mState \in ExchangeStates
    /\ radio' = "Receiving"
    /\ UNCHANGED <<mState, pending, cur, flags, clocks, mTx1WRepeatRemaining, rxFrame,
                   preambles, history, report>>

\* Another machine of the controller returns to Idle.
OtherMachineEnds ==
    /\ mState \in {"Auth", "Other"}
    /\ mState' = "Idle"
    /\ radio' \in {"Standby", "Receiving"}
    /\ UNCHANGED <<pending, cur, flags, clocks, mTx1WRepeatRemaining, rxFrame, preambles,
                   history, report>>

-----------------------------------------------------------------------------
(* Time and the air *)

Tick ==
    /\ mState \in ExchangeStates
    /\ stateAge' = Capped(stateAge, AgeLimit)
    /\ exchangeAge' = Capped(exchangeAge, Budget)
    /\ retryIn' = IF retryIn # NoRetry /\ retryIn > 0 THEN retryIn - 1 ELSE retryIn
    /\ UNCHANGED <<mState, pending, cur, flags, mResponseTimeoutMs, mTx1WRepeatRemaining,
                   radio, rxFrame, preambles, history, report>>

\* dispatchRxFrame: a StatusUpdate of a paired channel to this node starts the
\* receive-side authentication, whatever else the controller is doing.
StateAfterDispatch(f, s) ==
    IF f \in {"Status", "OtherStatus"} /\ s # "Auth" THEN "Auth" ELSE s

-----------------------------------------------------------------------------
(* processIdle *)

\* ensureReceiveAfterTransmit: the receiver runs again before the next command.
RestartReceive ==
    /\ mState = "Idle" /\ radio # "Receiving"
    /\ radio' = "Receiving"
    /\ UNCHANGED <<mState, pending, cur, flags, clocks, mTx1WRepeatRemaining, rxFrame,
                   preambles, history, report>>

\* The oldest command becomes the current one; a frame that cannot be built
\* is reported at once.
PopCommand ==
    /\ mState = "Idle" /\ radio = "Receiving" /\ pending # << >>
    /\ pending' = Tail(pending)
    /\ mAuthResponseSent' = FALSE /\ mWaitingFinalResponse' = FALSE /\ mSawChallenge' = FALSE
    /\ retryIn' = NoRetry /\ exchangeAge' = 0
    /\ preambles' = 0 /\ copies' = 0 /\ answered' = 0 /\ lateCopies' = 0
    /\ pollTold' = FALSE
    /\ LET e == Entry(Head(pending)) IN
       \/ /\ mState' = "TxPending"
          /\ cur' = e
          /\ mTx1WRepeatRemaining' = IF e.cmd.oneWay THEN Repeats ELSE mTx1WRepeatRemaining
          /\ results' = << >>
          /\ UNCHANGED confirms
       \/ /\ "build" \in Failures
          /\ cur' = [e EXCEPT !.active = FALSE]
          /\ results' = <<"FailedBeforeAuthentication">>
          /\ UNCHANGED <<mState, confirms, mTx1WRepeatRemaining>>
    /\ UNCHANGED <<stateAge, mResponseTimeoutMs, radio, rxFrame>>

-----------------------------------------------------------------------------
(* processTxPending *)

\* A 2W frame starts with fresh response flags and its first timeout.
PrepareTransmit ==
    IF cur.cmd.oneWay
    THEN UNCHANGED <<mWaitingFinalResponse, mSawChallenge, mResponseTimeoutMs, retryIn>>
    ELSE /\ mWaitingFinalResponse' = FALSE /\ mSawChallenge' = FALSE
         /\ mResponseTimeoutMs' = RxTimeout /\ retryIn' = NoRetry

StartTransmit ==
    /\ mState = "TxPending"
    /\ PrepareTransmit
    /\ radio' = "Transmitting" /\ stateAge' = 0 /\ mState' = "TxInProgress"
    /\ copies' = copies + 1
    /\ lateCopies' = IF answered > 0 THEN lateCopies + 1 ELSE lateCopies
    /\ UNCHANGED <<pending, cur, mAuthResponseSent, exchangeAge, mTx1WRepeatRemaining,
                   rxFrame, preambles, answered, report>>

\* Mutant: the failed transmission is not reported.
StartTransmitFailsSilently ==
    /\ mState = "TxPending" /\ "transmit" \in Failures
    /\ PrepareTransmit
    /\ cur' = [cur EXCEPT !.active = FALSE] /\ mState' = "Idle"
    /\ UNCHANGED <<pending, mAuthResponseSent, stateAge, exchangeAge, mTx1WRepeatRemaining,
                   radio, rxFrame, preambles, history, report>>

StartTransmitFails ==
    /\ mState = "TxPending" /\ "transmit" \in Failures
    /\ PrepareTransmit
    /\ LocalFailure
    /\ UNCHANGED <<pending, mAuthResponseSent, stateAge, exchangeAge, mTx1WRepeatRemaining,
                   radio, rxFrame, preambles, history, pollTold>>

-----------------------------------------------------------------------------
(* processTxInProgress *)

\* The receiver starts after a transmission and the wait for a response begins.
ListenForResponse ==
    /\ radio' = "Receiving" /\ stateAge' = 0 /\ mState' = "WaitResponse"
    /\ UNCHANGED <<cur, results, confirms>>

\* It may be Busy, which leaves the exchange as it is, or fail.
ReceiverDoesNotStart ==
    \/ radio' = "Standby" /\ UNCHANGED <<mState, cur, results, confirms, stateAge>>
    \/ "receive" \in Failures /\ LocalFailure /\ radio' = "Standby" /\ UNCHANGED stateAge

\* The frame has left the antenna: a 3D counts as an answered challenge.
CountAnswer ==
    answered' = IF mAuthResponseSent /\ ~ cur.cmd.oneWay THEN answered + 1 ELSE answered

TwoWayTxDone ==
    /\ mState = "TxInProgress" /\ radio = "Transmitting" /\ ~ cur.cmd.oneWay
    /\ CountAnswer
    /\ ListenForResponse \/ ReceiverDoesNotStart
    /\ UNCHANGED <<pending, flags, retryIn, exchangeAge, mResponseTimeoutMs,
                   mTx1WRepeatRemaining, rxFrame, preambles, copies, lateCopies, pollTold>>

\* A 1W frame is sent Repeats more times, then it is complete.
OneWayTxDone ==
    /\ mState = "TxInProgress" /\ radio = "Transmitting" /\ cur.cmd.oneWay
    /\ radio' = "Standby"
    /\ IF mTx1WRepeatRemaining > 0
       THEN /\ mTx1WRepeatRemaining' = mTx1WRepeatRemaining - 1
            /\ mState' = "Tx1WRepeat"
            /\ UNCHANGED <<cur, results, confirms>>
       ELSE /\ Notify(cur, "Completed")
            /\ cur' = [cur EXCEPT !.active = FALSE]
            /\ mState' = "Idle"
            /\ UNCHANGED mTx1WRepeatRemaining
    /\ UNCHANGED <<pending, flags, clocks, rxFrame, preambles, history, pollTold>>

\* Mutant: a receiver that was Busy is not started again.
LeftTransmitOnce ==
    /\ mState = "TxInProgress" /\ radio = "Receiving"
    /\ ListenForResponse
    /\ UNCHANGED <<pending, flags, retryIn, exchangeAge, mResponseTimeoutMs,
                   mTx1WRepeatRemaining, rxFrame, preambles, history, pollTold>>

\* The radio is no longer transmitting: the receiver was Busy after TxDone, or
\* somebody else restarted it.
LeftTransmit ==
    /\ mState = "TxInProgress" /\ radio # "Transmitting"
    /\ \/ ListenForResponse
       \/ "receive" \in Failures /\ LocalFailure /\ UNCHANGED <<radio, stateAge>>
    /\ UNCHANGED <<pending, flags, retryIn, exchangeAge, mResponseTimeoutMs,
                   mTx1WRepeatRemaining, rxFrame, preambles, history, pollTold>>

\* TxDone never comes.
TxTimeout ==
    /\ mState = "TxInProgress" /\ radio = "Transmitting" /\ "txTimeout" \in Failures
    /\ radio' = "Standby"
    /\ LocalFailure
    /\ UNCHANGED <<pending, flags, clocks, mTx1WRepeatRemaining, rxFrame, preambles, history,
                   pollTold>>

\* processTx1WRepeat: the same frame again after its interval.
OneWayRepeat ==
    /\ mState = "Tx1WRepeat"
    /\ \/ /\ radio' = "Transmitting" /\ stateAge' = 0 /\ mState' = "TxInProgress"
          /\ UNCHANGED <<cur, results, confirms>>
       \/ "transmit" \in Failures /\ LocalFailure /\ UNCHANGED <<radio, stateAge>>
    /\ UNCHANGED <<pending, flags, retryIn, exchangeAge, mResponseTimeoutMs,
                   mTx1WRepeatRemaining, rxFrame, preambles, history, pollTold>>

-----------------------------------------------------------------------------
(* processResponse *)

\* A unicast answer of the addressed peer; a one-way actuator never transmits.
FromPeer(f) == f \notin {"OtherStatus", "Foreign"} /\ cur.active /\ ~ cur.cmd.oneWay

KeepResponse == UNCHANGED <<cur, flags, clocks, radio, history, report>>

\* An unrelated frame: dispatched, and the wait goes on unless the dispatch
\* has started the receive-side authentication.
IgnoreForeign(f) ==
    /\ ~ FromPeer(f)
    /\ mState' = StateAfterDispatch(f, "WaitResponse") /\ rxFrame' = NoFrame
    /\ KeepResponse

\* The first challenge is answered with a 0x3D.
AnswerChallenge ==
    /\ radio' = "Transmitting" /\ mState' = "TxInProgress" /\ rxFrame' = NoFrame
    /\ mAuthResponseSent' = TRUE /\ mWaitingFinalResponse' = TRUE /\ mSawChallenge' = TRUE
    /\ mResponseTimeoutMs' = FinalTimeout /\ retryIn' = NoRetry /\ stateAge' = 0
    /\ UNCHANGED <<cur, exchangeAge, history, report>>

RadioBusy(f) ==
    /\ mState' = "ProcessResponse" /\ rxFrame' = f
    /\ radio' \in {radio, "Standby"}
    /\ UNCHANGED <<cur, flags, clocks, history, report>>

AnswerFails ==
    /\ Failures \cap {"build", "transmit"} # {}
    /\ LocalFailure
    /\ pollTold' = (pollTold \/ cur.cmd.tracked)
    /\ rxFrame' = NoFrame
    /\ UNCHANGED <<flags, clocks, radio, history>>

\* Any other answer of the peer closes the exchange.
CloseExchange(f) ==
    /\ mState' = StateAfterDispatch(f, "Idle") /\ rxFrame' = NoFrame
    /\ Notify(cur, IF f = "Error" THEN "ExplicitlyRejected" ELSE "Completed")
    /\ cur' = [cur EXCEPT !.active = FALSE]
    /\ mAuthResponseSent' = FALSE /\ mWaitingFinalResponse' = FALSE /\ mSawChallenge' = FALSE
    /\ retryIn' = NoRetry /\ exchangeAge' = 0 /\ mResponseTimeoutMs' = RxTimeout
    /\ UNCHANGED <<stateAge, radio, history, pollTold>>

ProcessResponse(f) ==
    \/ IgnoreForeign(f)
    \/ /\ FromPeer(f)
       /\ IF f = "Challenge" /\ ~ mAuthResponseSent
          THEN AnswerChallenge \/ RadioBusy(f) \/ AnswerFails
          ELSE CloseExchange(f)

\* A packet is read in loop() and, while a response is awaited, processed in
\* the same pass; every other state dispatches it as unsolicited. What the other
\* machines make of a frame is part of OtherMachineEnds.
Receive(f) ==
    /\ radio = "Receiving"
    /\ mState \notin {"Other", "WaitResponse"}
    /\ mState' = StateAfterDispatch(f, mState)
    /\ rxFrame' = IF mState' = "ProcessResponse" THEN f ELSE NoFrame
    /\ UNCHANGED <<pending, mTx1WRepeatRemaining, preambles>> /\ KeepResponse

ReceiveResponse(f) ==
    /\ radio = "Receiving" /\ mState = "WaitResponse"
    /\ ProcessResponse(f)
    /\ UNCHANGED <<pending, mTx1WRepeatRemaining, preambles>>

\* The radio was Busy: the frame kept in mRxFrame is processed again.
ProcessResponseAgain ==
    /\ mState = "ProcessResponse"
    /\ ProcessResponse(rxFrame)
    /\ UNCHANGED <<pending, mTx1WRepeatRemaining, preambles>>

-----------------------------------------------------------------------------
(* processWaitResponse *)

\* A preamble restarts the response timeout, whatever it belongs to.
PreambleHeard ==
    /\ mState = "WaitResponse" /\ preambles < MaxPreambles
    /\ preambles' = preambles + 1 /\ stateAge' = 0
    /\ UNCHANGED <<mState, pending, cur, flags, retryIn, exchangeAge, mResponseTimeoutMs,
                   mTx1WRepeatRemaining, radio, rxFrame, history, report>>

TimedOut == mState = "WaitResponse" /\ stateAge >= mResponseTimeoutMs

\* Mutant: maxAttempts counts the retries only.
MayRetryOnceMore(e) == e.active /\ e.retries < e.cmd.maxAttempts

MayRetry(e) == e.active /\ e.retries < e.cmd.maxAttempts - 1

\* Mutant: silence counts as acceptance.
SilenceAccepted == cur.active /\ cur.cmd.execute

AcceptedUnconfirmed ==
    cur.active /\ cur.cmd.execute /\ mSawChallenge /\ mWaitingFinalResponse

\* An authenticated Execute without a final answer may already be acting: one
\* resend, to a peer known to confirm, of a repeatable command, in the budget.
UnconfirmedExecute ==
    /\ TimedOut /\ AcceptedUnconfirmed /\ retryIn = NoRetry
    /\ LET e == [cur EXCEPT !.accepted = TRUE, !.tries = @ + 1] IN
       IF /\ confirms /\ e.cmd.repeatable /\ e.tries <= 1
          /\ MayRetry(e) /\ exchangeAge + UnconfirmedGap < Budget
       THEN /\ cur' = e /\ retryIn' = UnconfirmedGap
            /\ UNCHANGED <<mState, flags, stateAge, exchangeAge, mResponseTimeoutMs, report>>
       ELSE FailExchange(e)
    /\ UNCHANGED <<pending, mTx1WRepeatRemaining, radio, rxFrame, preambles, history>>

\* Mutant: a silent resend of an accepted command is resent again.
ExhaustedByCountOnly ==
    \/ ~ MayRetry(cur)
    \/ exchangeAge >= Budget

\* No further copy: an earlier one was accepted, or the attempts or the budget
\* are used up.
Exhausted ==
    \/ cur.accepted /\ ~ mSawChallenge /\ retryIn = NoRetry
    \/ ~ MayRetry(cur)
    \/ exchangeAge >= Budget

GiveUp ==
    /\ TimedOut /\ Exhausted
    /\ AcceptedUnconfirmed => retryIn = 0
    /\ FailExchange(cur)
    /\ UNCHANGED <<pending, mTx1WRepeatRemaining, radio, rxFrame, preambles, history>>

ScheduleRetry ==
    /\ TimedOut /\ ~ Exhausted /\ ~ AcceptedUnconfirmed /\ retryIn = NoRetry
    /\ retryIn' = RetryGap
    /\ UNCHANGED <<mState, pending, cur, flags, stateAge, exchangeAge, mResponseTimeoutMs,
                   mTx1WRepeatRemaining, radio, rxFrame, preambles, history, report>>

\* Mutant: the retry is not counted.
RetryUncounted ==
    /\ TimedOut /\ ~ Exhausted /\ retryIn = 0
    /\ mWaitingFinalResponse' = FALSE /\ mSawChallenge' = FALSE /\ mAuthResponseSent' = FALSE
    /\ mResponseTimeoutMs' = RxTimeout /\ retryIn' = NoRetry
    /\ mState' = "TxPending"
    /\ UNCHANGED <<cur, mTx1WRepeatRemaining, report, pending, stateAge, exchangeAge, radio,
                   rxFrame, preambles, history>>

\* The gap is over: the same request is built anew.
Retry ==
    /\ TimedOut /\ ~ Exhausted /\ retryIn = 0
    /\ mWaitingFinalResponse' = FALSE /\ mSawChallenge' = FALSE /\ mAuthResponseSent' = FALSE
    /\ mResponseTimeoutMs' = RxTimeout /\ retryIn' = NoRetry
    /\ \/ /\ mState' = "TxPending"
          /\ cur' = [cur EXCEPT !.retries = @ + 1]
          /\ mTx1WRepeatRemaining' = IF cur.cmd.oneWay THEN Repeats ELSE mTx1WRepeatRemaining
          /\ UNCHANGED report
       \/ /\ "build" \in Failures
          /\ ExchangeFailure(cur, mSawChallenge)
          /\ cur' = [cur EXCEPT !.retries = @ + 1, !.active = FALSE]
          /\ mState' = "Idle"
          /\ UNCHANGED mTx1WRepeatRemaining
    /\ UNCHANGED <<pending, stateAge, exchangeAge, radio, rxFrame, preambles, history>>

-----------------------------------------------------------------------------
ResponseTimeouts == UnconfirmedExecute \/ GiveUp \/ ScheduleRetry \/ Retry

Handlers ==
    \/ RestartReceive \/ PopCommand
    \/ StartTransmit \/ StartTransmitFails
    \/ TwoWayTxDone \/ OneWayTxDone \/ LeftTransmit \/ TxTimeout \/ OneWayRepeat
    \/ ProcessResponseAgain
    \/ ResponseTimeouts

Environment ==
    \/ \E c \in Command : SendCommand(c)
    \/ StartPairing \/ StartNetworkScan \/ StopNetworkScan \/ StopKeyExtraction
    \/ OtherMachineEnds
    \/ \E f \in Frames : Receive(f) \/ ReceiveResponse(f)
    \/ PreambleHeard

Next == Handlers \/ Environment \/ Tick

Spec == Init /\ [][Next]_vars

\* loop() runs forever and so do the clocks; nothing obliges a peer to answer
\* or a caller to call. A frame on the air takes many passes of loop(), so the
\* response timeout is looked at between two frames, however many there are.
FairSpec == Spec /\ WF_vars(Handlers) /\ WF_vars(Tick) /\ SF_vars(ResponseTimeouts)

-----------------------------------------------------------------------------
(* Properties *)

TypeOK ==
    /\ mState \in ExchangeStates \cup {"Idle", "Auth", "Other"}
    /\ pending \in Seq(Command) /\ Len(pending) <= Capacity
    /\ cur \in [cmd : Command, active : BOOLEAN, retries : Nat, accepted : BOOLEAN,
                tries : 0..2]
    /\ cur.retries < cur.cmd.maxAttempts
    /\ {mAuthResponseSent, mWaitingFinalResponse, mSawChallenge} \subseteq BOOLEAN
    /\ retryIn \in 0..NoRetry
    /\ stateAge \in 0..AgeLimit /\ exchangeAge \in 0..Budget
    /\ mResponseTimeoutMs \in {RxTimeout, FinalTimeout}
    /\ mTx1WRepeatRemaining \in 0..Repeats
    /\ radio \in {"Standby", "Receiving", "Transmitting"}
    /\ rxFrame \in Frames \cup {NoFrame}
    /\ confirms \in BOOLEAN /\ preambles \in 0..MaxPreambles
    /\ copies \in Nat /\ answered \in Nat /\ lateCopies \in Nat
    /\ results \in Seq(Results) /\ pollTold \in BOOLEAN

\* A command has one outcome, and none while it is in flight: no path through
\* the handlers reports twice, or works on an exchange that is already closed
\* (notifyCommandExchangeResult and mCurrentCmd.active).
OneOutcome ==
    /\ Len(results) <= 1
    /\ cur.active => results = << >>
    /\ mState \in ExchangeStates => cur.active

\* EXCHANGE_MAX_ATTEMPTS counts the initial transmission: however challenges,
\* silence, interruptions and failures follow each other, no more copies of a
\* command go on the air, and so a single one of a 2W command that is not repeatable.
AttemptsBounded == copies <= cur.cmd.maxAttempts

\* An Execute the actuator has authenticated may already be acting: it is sent
\* again at most once, if it is repeatable and the peer is known to confirm.
CautiousResend ==
    cur.cmd.execute /\ lateCopies > 0 =>
        lateCopies = 1 /\ confirms /\ cur.cmd.repeatable

\* Once a 3D for an Execute has left the antenna no outcome denies it: the
\* channel rolls its position back on FailedBeforeAuthentication.
AcceptedExecuteNotDenied ==
    cur.cmd.execute /\ answered > 0 /\ ~ cur.active =>
        \A i \in DOMAIN results : results[i] \notin {"Unknown", "FailedBeforeAuthentication"}

\* AuthenticatedUnconfirmed is not reported of a command whose challenge was
\* never answered, in particular not of one that met only silence.
AcceptedMeansAnswered ==
    results = <<"AuthenticatedUnconfirmed">> => answered > 0

\* When a tracked poll in flight ends, its channel is told that it failed exactly if the
\* module was waiting for the peer and what ended it is no answer: silence, a challenge
\* without a final answer, or a challenge that could not be answered.  The next poll is
\* scheduled from that call.  A poll that ends because the module cannot prepare or send its
\* own frame (FailedBeforeAuthentication before the wait) is not told, as the code has it.
PollFailureTold ==
    [][cur.cmd.tracked /\ cur.active /\ ~ cur'.active /\ results' # << >> =>
          (pollTold' <=> /\ mState \in {"WaitResponse", "ProcessResponse"}
                         /\ results'[1] \notin {"Completed", "ExplicitlyRejected"})]_vars

\* The controller leaves an exchange only with an outcome for its channel:
\* no handler drops the current command silently.
EndsWithOutcome ==
    [][(mState \in ExchangeStates /\ mState' \notin ExchangeStates) => Len(results') = 1]_vars

\* Every command taken from the queue gets its outcome in the end, whatever the
\* peer and the radio do, when nothing interrupts the exchange.
Concludes == cur.active ~> results # << >>

\* processResponse: "An unrelated frame must neither answer its challenge nor
\* complete the queued command. Keep listening for the expected peer until the
\* normal timeout expires."
KeepsListening ==
    [][(mState = "WaitResponse" /\ mState' \notin ExchangeStates) => Len(results') = 1]_vars

\* "A favourite/special Execute is not repeatable: a second "My" can undo the
\* first action": one copy (for 1W, with its repeats) of every such command.
NotRepeatable == ~ cur.cmd.repeatable => copies <= 1

=============================================================================
