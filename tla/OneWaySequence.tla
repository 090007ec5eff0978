---------------------------- MODULE OneWaySequence ----------------------------
(***************************************************************************)
(* The rolling sequence of the 1W remotes this module emulates.  Every 1W  *)
(* frame carries the next number of its remote identity; an actuator takes *)
(* only numbers ahead of the last one it has seen.  The counter lives in   *)
(* RAM; flash holds a reserved high-water mark, written ahead of use, from *)
(* which the counter starts again after a power loss.                      *)
(*                                                                         *)
(* Numbers are 16 bits wide, as in the code.                               *)
(***************************************************************************)
EXTENDS Integers

CONSTANTS
    Channels,       \* the 1W channels are 1..Channels
    Link,           \* ETS: the channel whose profile a channel uses, 0 for its own
    Window,         \* IOHC_1W_SEQUENCE_RESERVE_WINDOW, 16 in the code
    Identity,       \* remote identities, an address with its key
    NoIdentity,
    StartValues,    \* reserved marks a first boot finds in flash
    MaxSends,       \* bound: frames sent
    SaveWrites,     \* what flash.save() may do: {TRUE}, or {TRUE, FALSE} if throttled
    SharedImports,  \* whether an identity that was used before is imported
    SharedClones    \* whether a remote is cloned that another channel copies
                    \* already, or that has fallen behind its copy

Channel == 1..Channels

\* uint16_t, and a value outside of it.
Modulus == 65536
Number == 0..Modulus - 1
Unused == Modulus

\* A link leads to a channel with a profile of its own; the code follows longer
\* chains and gives up on cycles.
ASSUME ChannelsAssumption == Channels \in Nat \ {0}
ASSUME LinkAssumption ==
    /\ Link \in [Channel -> 0..Channels]
    /\ \A c \in Channel : Link[c] # 0 => Link[c] # c /\ Link[Link[c]] = 0
ASSUME WindowAssumption == Window \in Nat \ {0} /\ Window < 32767
ASSUME IdentityAssumption == NoIdentity \notin Identity
ASSUME ValuesAssumption ==
    /\ StartValues \subseteq Number /\ MaxSends \in Nat
    /\ SaveWrites \subseteq BOOLEAN
    /\ SharedImports \in BOOLEAN /\ SharedClones \in BOOLEAN

VARIABLES
    identity,       \* mOneWayControllerNodeId and key of each channel
    sequence,       \* mSequence1W
    reserved,       \* mReservedSequence1W
    flash,          \* identity and reserved mark of each channel, as stored
    receiving,      \* mOneWayKeyReceiveChannel while a capture is armed, or 0
    last,           \* history: the newest number sent under an identity, by this
                    \* module or, as far as it was heard, by the remote it copies
    sends           \* number of frames sent, for MaxSends

vars == <<identity, sequence, reserved, flash, receiving, last, sends>>

\* The start: one channel has an identity, restored from flash; the last number
\* it sent before lies below the mark it had stored.
Init ==
    \E b \in Channel, i \in Identity, s \in StartValues :
        /\ Link[b] = 0
        /\ identity = [c \in Channel |-> IF c = b THEN i ELSE NoIdentity]
        /\ sequence = [c \in Channel |-> IF c = b THEN s ELSE 0]
        /\ reserved = sequence
        /\ flash = [identity |-> identity, reserved |-> reserved]
        /\ last = [j \in Identity |-> IF j = i /\ s # 0 THEN s - 1 ELSE Unused]
        /\ receiving = 0 /\ sends = 0

-----------------------------------------------------------------------------
\* oneWayProfileForChannel: the linked channel, then the first channel without
\* a link that holds the same identity.
Holders(ids, i) == {c \in Channel : Link[c] = 0 /\ ids[c] = i}

First(S) == CHOOSE c \in S : \A d \in S : c <= d

LinkedTo(c) == IF Link[c] = 0 THEN c ELSE Link[c]

ProfileAmong(ids, c) ==
    IF ids[LinkedTo(c)] = NoIdentity THEN LinkedTo(c)
    ELSE First(Holders(ids, ids[LinkedTo(c)]))

Profile(c) == ProfileAmong(identity, c)

\* Mutant: the counter is wider than the 16 bits of the frame.
NextUnbounded(n) == n + 1

Next16(n) == (n + 1) % Modulus

\* The 16-bit difference of two numbers; read as int16_t, it is positive.
Offset(m, n) == (m - n) % Modulus

Ahead(m, n) == Offset(m, n) > 0 /\ Offset(m, n) < 32768

\* The mark that ends the window after a number.
Mark(n) == (n + Window) % Modulus

\* Mutant: a mark that was set once is never renewed.
ReservesOnce(n, r, force) == force \/ r = 0

\* incrementSequence1W: a new window is due at the mark, on demand, and while
\* no mark has been set.
ReserveDue(n, r, force) == force \/ r = 0 \/ ~ Ahead(r, n)

\* Mutant: the counter is stored, as flash formats 9 and 10 did.
PersistCounter == flash' = [identity |-> identity', reserved |-> sequence']

\* writeFlash stores the marks of all channels.
Persist == flash' = [identity |-> identity', reserved |-> reserved']

\* openknx.flash.save(), and save(true), which bypasses the write throttle.
Save == \E written \in SaveWrites : IF written THEN Persist ELSE UNCHANGED flash

-----------------------------------------------------------------------------
\* nextSequence1W: the number is reserved, and the mark saved, before the frame
\* that carries it is built and sent.
SendFrame(c, force) ==
    LET p == Profile(c)
        n == Next16(sequence[p])
    IN  /\ identity[p] # NoIdentity /\ UNCHANGED <<identity, receiving>>
        /\ sends < MaxSends /\ sends' = sends + 1
        /\ sequence' = [sequence EXCEPT ![p] = n]
        /\ last' = [last EXCEPT ![identity[p]] = n]
        /\ IF ReserveDue(n, reserved[p], force)
           THEN reserved' = [reserved EXCEPT ![p] = Mark(n)] /\ Save
           ELSE UNCHANGED <<reserved, flash>>

\* Identities that no channel holds and nobody has sent under.
Fresh(i) == last[i] = Unused /\ \A c \in Channel : identity[c] # i

\* A channel's profile gets another identity with its counter at zero
\* (generateOneWayControllerProfile, 1wctrl, 1wqr).
SetIdentity(c, i) ==
    /\ i # identity[c]
    /\ identity' = [identity EXCEPT ![c] = i]
    /\ sequence' = [sequence EXCEPT ![c] = 0]
    /\ reserved' = [reserved EXCEPT ![c] = 0]
    /\ Persist
    /\ UNCHANGED <<receiving, last, sends>>

Generate(c, i) == Link[c] = 0 /\ Fresh(i) /\ SetIdentity(c, i)

Import(c, i) == (~ SharedImports => Fresh(i)) /\ SetIdentity(Profile(c), i)

\* startOneWayKeyReceive: refused for a profile that is not the channel's own or
\* that another channel uses.
StartKeyReceive(c) ==
    /\ Profile(c) = c /\ \A d \in Channel \ {c} : Profile(d) # c
    /\ receiving' = c
    /\ UNCHANGED <<identity, sequence, reserved, flash, last, sends>>

StopKeyReceive ==
    /\ receiving # 0 /\ receiving' = 0
    /\ UNCHANGED <<identity, sequence, reserved, flash, last, sends>>

\* Number n is not behind the newest one of identity i.
UpToDate(i, n) == last[i] = Unused \/ n = last[i] \/ Ahead(n, last[i])

\* handleOneWayKeyReceiveFrame: the identity of a remote heard at number n, with
\* a window reserved ahead of it. Nothing asks who else holds the identity or
\* what was sent under it.
Clone(i, n) ==
    LET p == Profile(receiving) IN
    /\ receiving # 0 /\ receiving' = 0
    /\ ~ SharedClones => UpToDate(i, n) /\ \A d \in Channel \ {p} : identity[d] # i
    /\ identity' = [identity EXCEPT ![p] = i]
    /\ sequence' = [sequence EXCEPT ![p] = n]
    /\ reserved' = [reserved EXCEPT ![p] = Mark(n)]
    /\ last' = [last EXCEPT ![i] = IF UpToDate(i, n) THEN n ELSE @]
    /\ Persist
    /\ UNCHANGED sends

\* consolidateOneWayProfileSequences: a profile takes over the highest counter
\* of the channels that hold its identity. The comparison is unsigned.
Consolidated(ids, marks, c) ==
    LET members == {d \in Channel : /\ ids[d] # NoIdentity /\ ids[d] = ids[c]
                                    /\ ProfileAmong(ids, d) = c}
        values == {marks[d] : d \in members \cup {c}}
    IN  CHOOSE v \in values : \A w \in values : w <= v

\* A power loss, and the boot that follows (restoreChannelFlashState).
Reboot ==
    /\ identity' = flash.identity
    /\ sequence' = [c \in Channel |-> Consolidated(flash.identity, flash.reserved, c)]
    /\ reserved' = sequence'
    /\ receiving' = 0
    /\ UNCHANGED <<flash, last, sends>>

Next ==
    \/ \E c \in Channel, force \in BOOLEAN : SendFrame(c, force)
    \/ \E c \in Channel, i \in Identity : Generate(c, i) \/ Import(c, i)
    \/ \E c \in Channel : StartKeyReceive(c)
    \/ \E i \in Identity, n \in StartValues : Clone(i, n)
    \/ StopKeyReceive
    \/ Reboot

Spec == Init /\ [][Next]_vars

-----------------------------------------------------------------------------
TypeOK ==
    /\ identity \in [Channel -> Identity \cup {NoIdentity}]
    /\ sequence \in [Channel -> Number] /\ reserved \in [Channel -> Number]
    /\ flash \in [identity : [Channel -> Identity \cup {NoIdentity}],
                  reserved : [Channel -> Number]]
    /\ receiving \in 0..Channels
    /\ last \in [Identity -> Number \cup {Unused}]
    /\ sends \in 0..MaxSends

\* Across power losses, window renewals, the wrap of the counter and clones of
\* a remote, an identity never sends a number that is not ahead of its last:
\* an actuator would ignore it ("so a power loss cannot replay the
\* just-transmitted sequence", incrementSequence1W).
NeverReplays ==
    [][\A c \in Channel, force \in BOOLEAN :
          SendFrame(c, force) =>
              LET i == identity[Profile(c)]
              IN  last[i] # Unused => Ahead(last'[i], last[i])]_vars

\* The number in flash is ahead of, or at, every number sent: a power loss may
\* come at any moment.
ReservedInFlash ==
    \A c \in Channel :
        flash.identity[c] # NoIdentity /\ last[flash.identity[c]] # Unused =>
            Offset(flash.reserved[c], last[flash.identity[c]]) <= Window

=============================================================================
