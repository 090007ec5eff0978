------------------------------ MODULE MCExchange ------------------------------
(* Small commands and environments for Exchange. *)
EXTENDS Exchange

Stop == [execute |-> TRUE, repeatable |-> TRUE, oneWay |-> FALSE, tracked |-> FALSE,
         maxAttempts |-> 3]
My == [Stop EXCEPT !.repeatable = FALSE, !.maxAttempts = 1]
OneWayMy == [My EXCEPT !.oneWay = TRUE, !.maxAttempts = 3]
Poll == [Stop EXCEPT !.execute = FALSE, !.tracked = TRUE]

AllCommands == {Stop, My, OneWayMy, Poll}
OneWayOnly == {OneWayMy}
StopOnly == {Stop}

PeerFrames == {"Challenge", "Reply", "Error", "Foreign"}
ForeignStatus == {"OtherStatus"}
NoFrames == {}
DriverFailures == {"build", "transmit", "txTimeout"}
NoFailures == {}
NoInterruptions == {}
KeyExtractionTimers == {"stopKeyExtraction"}
=============================================================================
