---------------------------- MODULE PassiveListen ----------------------------
(***************************************************************************)
(* Listening without transmitting.  Three users share the one state        *)
(* PassiveListening: the network scan, the sniff for a system key that     *)
(* another controller gives a device, and the capture of the key of a 1W   *)
(* remote.  Each is started, stopped and timed on its own, and nothing     *)
(* counts them.                                                            *)
(*                                                                         *)
(* A device answers a key initiation with a fresh challenge, under which   *)
(* the other controller encrypts the key; the code reads the key with the  *)
(* challenge it heard last.  A frame is dispatched as it arrives.          *)
(***************************************************************************)
EXTENDS Integers, FiniteSets

CONSTANTS
    Node, NoNode,       \* devices another controller pairs
    MaxScanBuffer,      \* kMaxTrackedNodes
    MaxChallenges,      \* bound: challenges of one device
    MaxCalls,           \* bound: calls of the console, ETS and KNX
    Lossy,              \* whether frames may be missed
    Imports,            \* whether another channel may be given the same remote
    Pairs               \* whether a pairing may break in

PassiveListenAssumption ==
    /\ NoNode \notin Node /\ {MaxScanBuffer, MaxChallenges, MaxCalls} \subseteq Nat
    /\ {Lossy, Imports, Pairs} \subseteq BOOLEAN

VARIABLES
    mState,             \* Idle, PassiveListening, or Busy for all others
    mPassiveMode,
    networkScan,        \* mNetworkScanActive
    tracked,            \* mNodeStats: the devices counted so far
    sniff,              \* mPassiveKeySniffStatus
    pairNode,           \* mPassivePairNodeId
    challenge,          \* mPassiveChallenge: number of the device's challenge, 0 for none
    result,             \* mPassiveKeyResult: whose key, and under which challenge it was read;
                        \* "late" says whether a later challenge had gone unheard
    oneWay,             \* mOneWayKeyReceiveActive
    oneWayStatus,       \* mOneWayKeyReceiveStatus
    shared,             \* another channel has the profile of the armed channel
    armed,              \* mKeyExtractArmed
    device,             \* each device: challenges issued, and the one that encrypts its key
    unheard,            \* devices whose challenge went unheard since the last one heard
    calls

passive  == <<mState, mPassiveMode>>
sniffing == <<sniff, pairNode, challenge, result>>
cloning  == <<oneWay, oneWayStatus>>
outside  == <<shared, armed, device, unheard>>
vars == <<passive, networkScan, tracked, sniffing, cloning, outside, calls>>

NoResult == [node |-> NoNode, with |-> 0, under |-> 0, late |-> FALSE]

Init ==
    /\ mState = "Idle" /\ mPassiveMode = FALSE
    /\ networkScan = FALSE /\ tracked = {}
    /\ sniff = "Idle" /\ pairNode = NoNode /\ challenge = 0 /\ result = NoResult
    /\ oneWay = FALSE /\ oneWayStatus = "Idle"
    /\ shared = FALSE /\ armed = FALSE
    /\ device = [n \in Node |-> [issued |-> 0, key |-> 0]]
    /\ unheard = {} /\ calls = 0

-----------------------------------------------------------------------------
(* The mode *)

Forget == pairNode' = NoNode /\ challenge' = 0

\* setPassiveMode(true)
Listen == mPassiveMode' = TRUE /\ mState' = "PassiveListening"

\* The end of a sniff that found or missed its key.
Leave == mPassiveMode' = FALSE /\ mState' = "Idle"

\* setPassiveMode(false) also ends the sniff.
StopListening ==
    /\ Leave /\ Forget
    /\ sniff' = IF sniff = "Listening" THEN "Idle" ELSE sniff
    /\ UNCHANGED result

MayListen == mState \in {"Idle", "PassiveListening"}

\* A user that ends leaves the mode to the network scan, and to nobody else.
LeaveUnlessScanning ==
    IF mPassiveMode /\ ~ networkScan THEN Leave ELSE UNCHANGED passive

Call == calls < MaxCalls /\ calls' = calls + 1

-----------------------------------------------------------------------------
(* Network scan, sniff, capture of a remote *)

StartNetworkScan ==
    /\ Call /\ ~ armed
    /\ networkScan' = TRUE /\ Listen
    /\ UNCHANGED <<tracked, sniffing, cloning, outside>>

StopNetworkScan ==
    /\ Call
    /\ networkScan' = FALSE /\ StopListening
    /\ UNCHANGED <<tracked, cloning, outside>>

StartPassiveKeySniff ==
    /\ Call /\ MayListen
    /\ sniff' = "Listening" /\ Forget /\ result' = NoResult /\ Listen
    /\ UNCHANGED <<networkScan, tracked, cloning, outside>>

StopPassiveKeySniff ==
    /\ Call
    /\ sniff' = IF sniff \in {"Listening", "Timeout"} THEN "Idle" ELSE sniff
    /\ Forget /\ LeaveUnlessScanning
    /\ UNCHANGED <<networkScan, tracked, result, cloning, outside>>

ClearPassiveKeyResult ==
    /\ Call /\ result' = NoResult
    /\ sniff' = IF sniff \in {"Captured", "Timeout"} THEN "Idle" ELSE sniff
    /\ UNCHANGED <<passive, networkScan, tracked, pairNode, challenge, cloning, outside>>

\* startOneWayKeyReceive refuses a profile another channel uses.
StartOneWayKeyReceive ==
    /\ Call /\ MayListen
    /\ IF shared
       THEN oneWayStatus' = "SharedProfile" /\ UNCHANGED <<oneWay, passive>>
       ELSE oneWay' = TRUE /\ oneWayStatus' = "Listening" /\ Listen
    /\ UNCHANGED <<networkScan, tracked, sniffing, outside>>

\* stopOneWayKeyReceive: what it does to the mode ends a sniff as well.
EndOneWay ==
    /\ oneWay' = FALSE
    /\ IF mPassiveMode /\ ~ networkScan
       THEN StopListening ELSE UNCHANGED <<passive, sniffing>>

StopOneWayKeyReceive ==
    /\ Call /\ oneWay /\ EndOneWay
    /\ oneWayStatus' = IF oneWayStatus = "Listening" THEN "Idle" ELSE oneWayStatus
    /\ UNCHANGED <<networkScan, tracked, outside>>

-----------------------------------------------------------------------------
(* Timeouts, in loop() *)

SniffTimeoutLeaves == LeaveUnlessScanning

SniffTimeout ==
    /\ sniff = "Listening" /\ sniff' = "Timeout"
    /\ Forget /\ SniffTimeoutLeaves
    /\ UNCHANGED <<networkScan, tracked, result, cloning, outside, calls>>

OneWayTimeout ==
    /\ oneWay /\ EndOneWay /\ oneWayStatus' = "Timeout"
    /\ UNCHANGED <<networkScan, tracked, outside, calls>>

-----------------------------------------------------------------------------
(* Frames, and what the controller makes of them *)

\* processPassiveFrame: recordScanFrame, updateNodeStats
Recorded(n) ==
    tracked' = IF ~ networkScan \/ Cardinality(tracked) >= MaxScanBuffer
               THEN tracked ELSE tracked \union {n}

Sniffs == mState = "PassiveListening" /\ sniff = "Listening"

Overheard(n) ==
    IF mState = "PassiveListening" THEN Recorded(n) ELSE UNCHANGED tracked

Missed == Lossy /\ UNCHANGED <<passive, tracked, sniffing>>

\* Another controller starts to give a device its key.
KeyInit(n) == pairNode' = n /\ challenge' = 0

KeyInitTransfer(n) ==
    /\ device' = [device EXCEPT ![n].key = 0]
    /\ \/ /\ Overheard(n)
          /\ IF Sniffs THEN KeyInit(n) ELSE UNCHANGED <<pairNode, challenge>>
          /\ UNCHANGED <<passive, sniff, result>>
       \/ Missed
    /\ UNCHANGED <<networkScan, cloning, shared, armed, unheard, calls>>

ChallengeOfPeer(n) == pairNode \in {NoNode, n}

Heard(n) == IF mState = "PassiveListening" THEN unheard \ {n} ELSE unheard \union {n}

\* A device challenges; the key is then encrypted under this challenge.
ChallengeRequest(n) ==
    LET c == device[n].issued + 1
    IN  /\ c <= MaxChallenges
        /\ device' = [device EXCEPT ![n] = [issued |-> c, key |-> c]]
        /\ \/ /\ Overheard(n) /\ unheard' = Heard(n)
              /\ IF Sniffs /\ ChallengeOfPeer(n)
                 THEN pairNode' = n /\ challenge' = c
                 ELSE UNCHANGED <<pairNode, challenge>>
              /\ UNCHANGED <<passive, sniff, result>>
           \/ Missed /\ unheard' = unheard \union {n}
        /\ UNCHANGED <<networkScan, cloning, shared, armed, calls>>

KeyOfPeer(n) == pairNode = n

Capture(n) ==
    /\ result' = [node |-> pairNode, with |-> challenge, under |-> device[n].key,
                  late |-> n \in unheard]
    /\ sniff' = "Captured" /\ Forget
    /\ IF networkScan THEN UNCHANGED passive ELSE Leave

KeyTransfer(n) ==
    /\ device[n].key # 0
    /\ \/ /\ Overheard(n)
          /\ IF Sniffs /\ challenge # 0 /\ KeyOfPeer(n)
             THEN Capture(n) ELSE UNCHANGED <<passive, sniffing>>
       \/ Missed
    /\ UNCHANGED <<networkScan, cloning, outside, calls>>

\* handleOneWayKeyReceiveFrame: a remote is copied.  The profile is looked up
\* again, and is no longer checked to be the channel's own.
SendKey1W(mac) ==
    /\ oneWay /\ mState = "PassiveListening"
    /\ \/ /\ mac = "Invalid" /\ oneWayStatus' = "TrailerMacInvalid"
          /\ UNCHANGED <<oneWay, passive, sniffing>>
       \/ /\ mac # "Invalid" /\ EndOneWay
          /\ oneWayStatus' = IF mac = "Valid" THEN "CapturedTrailerMacVerified" ELSE "Captured"
    /\ UNCHANGED <<networkScan, tracked, outside, calls>>

-----------------------------------------------------------------------------
(* The rest of the controller *)

\* Mutant: pairing starts without ending the mode.
AbortListeningNot == UNCHANGED <<mPassiveMode, networkScan>>

AbortListening == mPassiveMode' = FALSE /\ networkScan' = FALSE

\* startPairing from any state, unless extraction is armed.  A sniff is not
\* told: it goes on when somebody listens again.
StartPairing ==
    /\ Pairs /\ Call /\ ~ armed
    /\ mState' = "Busy" /\ AbortListening
    /\ UNCHANGED <<tracked, sniffing, cloning, outside>>

\* startDiscovery ends the mode first.
StartDiscovery ==
    /\ Call /\ ~ armed /\ MayListen
    /\ mState' = "Busy"
    /\ IF mState = "PassiveListening"
       THEN /\ mPassiveMode' = FALSE /\ networkScan' = FALSE /\ Forget
            /\ sniff' = IF sniff = "Listening" THEN "Idle" ELSE sniff
       ELSE UNCHANGED <<mPassiveMode, networkScan, sniff, pairNode, challenge>>
    /\ UNCHANGED <<tracked, result, cloning, outside>>

\* processIdle never takes a command in passive mode.
OwnExchange ==
    /\ mState = "Idle" /\ ~ mPassiveMode /\ mState' = "Busy"
    /\ UNCHANGED <<mPassiveMode, networkScan, tracked, sniffing, cloning, outside, calls>>

BusyEnds ==
    /\ mState = "Busy" /\ mState' = "Idle"
    /\ UNCHANGED <<mPassiveMode, networkScan, tracked, sniffing, cloning, outside, calls>>

StartKeyExtraction ==
    /\ Call /\ mState = "Idle" /\ armed' = TRUE
    /\ UNCHANGED <<passive, networkScan, tracked, sniffing, cloning, shared, device, unheard>>

StopKeyExtraction ==
    /\ Call /\ armed /\ armed' = FALSE
    /\ UNCHANGED <<passive, networkScan, tracked, sniffing, cloning, shared, device, unheard>>

\* 1wctrl or 1wqr gives another channel the remote of this one.
ImportSameRemote ==
    /\ Call /\ Imports /\ shared' = TRUE
    /\ UNCHANGED <<passive, networkScan, tracked, sniffing, cloning, armed, device, unheard>>

Timeouts == SniffTimeout \/ OneWayTimeout

Frames ==
    \/ \E n \in Node : KeyInitTransfer(n) \/ ChallengeRequest(n) \/ KeyTransfer(n)
    \/ \E mac \in {"Absent", "Valid", "Invalid"} : SendKey1W(mac)

Next ==
    \/ StartNetworkScan \/ StopNetworkScan
    \/ StartPassiveKeySniff \/ StopPassiveKeySniff \/ ClearPassiveKeyResult
    \/ StartOneWayKeyReceive \/ StopOneWayKeyReceive
    \/ Timeouts \/ Frames
    \/ StartPairing \/ StartDiscovery \/ OwnExchange \/ BusyEnds
    \/ StartKeyExtraction \/ StopKeyExtraction \/ ImportSameRemote

Spec == Init /\ [][Next]_vars

-----------------------------------------------------------------------------
(* Properties *)

TypeOK ==
    /\ mState \in {"Idle", "PassiveListening", "Busy"}
    /\ {mPassiveMode, networkScan, oneWay, shared, armed} \subseteq BOOLEAN
    /\ tracked \subseteq Node /\ Cardinality(tracked) <= MaxScanBuffer
    /\ sniff \in {"Idle", "Listening", "Captured", "Timeout"}
    /\ oneWayStatus \in {"Idle", "Listening", "Captured", "CapturedTrailerMacVerified",
                         "TrailerMacInvalid", "SharedProfile", "Timeout"}
    /\ pairNode \in Node \union {NoNode} /\ challenge \in 0..MaxChallenges
    /\ result \in [node : Node \union {NoNode}, with : 0..MaxChallenges, under : 0..MaxChallenges,
                   late : BOOLEAN]
    /\ device \in [Node -> [issued : 0..MaxChallenges, key : 0..MaxChallenges]]
    /\ unheard \subseteq Node /\ calls \in 0..MaxCalls

\* The flag that keeps processIdle from transmitting is set exactly while the
\* controller listens: no order of starts, ends and timeouts of the three users
\* leaves an idle controller mute or one that listens free to send, and a scan
\* that is active listens.
PassiveMeansListening ==
    /\ mPassiveMode <=> mState = "PassiveListening"
    /\ networkScan => mPassiveMode

\* A captured key was read under the challenge it was encrypted with, whatever pairings of
\* several devices overlap: only a challenge that the radio missed, or that came while the
\* controller did not listen, can make the code read the key under an earlier one.
CapturedKeyIsRight == result.node # NoNode /\ ~ result.late => result.with = result.under

\* A timeout does not take the controller from a pairing or an exchange.
TimeoutsLeaveOthersAlone == [][Timeouts /\ mState = "Busy" => mState' = "Busy"]_vars

\* The armed capture of a remote listens until it has captured, was stopped or
\* ran out of time.
ArmedListens == oneWay => mState = "PassiveListening"

\* The key that is captured goes to a profile only its channel uses.
ClonesOwnProfile == [][(\E mac \in {"Absent", "Valid"} : SendKey1W(mac)) => ~ shared]_vars
=============================================================================
