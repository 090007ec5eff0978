------------------------- MODULE OneWaySequenceProofs -------------------------
(***************************************************************************)
(* No 1W identity replays a number, for any number of channels, any window *)
(* and any start, provided that flash.save() writes, that an identity in   *)
(* use is not imported again, and that a remote is cloned only into the    *)
(* channel that copies it already, if one does, and not behind its copy.   *)
(***************************************************************************)
EXTENDS OneWaySequence, TLAPS

\* The marks in flash are those in RAM.
FlashCurrent == flash = [identity |-> identity, reserved |-> reserved]

\* An identity belongs to one channel.
OneHolder ==
    \A c, d \in Channel : identity[c] = identity[d] /\ identity[c] # NoIdentity => c = d

\* Seen from the last number sent, the counter and then the mark lie ahead
\* within a window; an identity that has sent nothing starts at zero.
Reserved(n, r, l) ==
    \/ l = Unused /\ n = 0 /\ r = 0
    \/ l \in Number /\ Offset(r, l) <= Window /\ Offset(n, l) <= Offset(r, l)

MarkAhead ==
    \A c \in Channel : identity[c] # NoIdentity =>
        Reserved(sequence[c], reserved[c], last[identity[c]])

Inv == TypeOK /\ FlashCurrent /\ OneHolder /\ MarkAhead

Assumptions == SaveWrites = {TRUE} /\ SharedImports = FALSE /\ SharedClones = FALSE

-----------------------------------------------------------------------------
(* Arithmetic of the 16-bit circle *)

\* The residues of numbers less than one turn away from the circle.
LEMMA Residue ==
    ASSUME NEW x \in Int, NEW m \in Int, m > 0
    PROVE  /\ x >= 0 /\ x < m => x % m = x
           /\ x >= m /\ x < m + m => x % m = x - m
           /\ x < 0 /\ x >= -m => x % m = x + m
           /\ x % m \in 0..m-1
  <1>1. ASSUME x >= 0, x < m PROVE x % m = x
    BY <1>1, SMTT(10)
  <1>2. ASSUME x >= m, x < m + m PROVE x % m = x - m
    BY <1>2, SMTT(10)
  <1>3. ASSUME x < 0, x >= -m PROVE x % m = x + m
    BY <1>3, SMTT(10)
  <1>4. x % m \in 0..m-1
    BY SMTT(10)
  <1> QED BY <1>1, <1>2, <1>3, <1>4

\* What is used of the modulus: the window is less than half of it.
LEMMA ModulusSize ==
    /\ Modulus \in Int /\ Modulus > 32767 + 32767
    /\ WindowAssumption => Window \in Int /\ Window >= 1 /\ Window + 1 <= 32767
  <1>1. Modulus \in Int /\ Modulus > 32767 + 32767
    BY SMT DEF Modulus
  <1>2. ASSUME WindowAssumption
        PROVE  Window \in Int /\ Window >= 1 /\ Window + 1 <= 32767
    BY <1>2, SMT DEF WindowAssumption
  <1> QED BY <1>1, <1>2

\* The distance between two numbers.
LEMMA OffsetValue ==
    ASSUME NEW m \in Number, NEW n \in Number
    PROVE  /\ Offset(m, n) \in Number
           /\ m >= n => Offset(m, n) = m - n
           /\ m < n => Offset(m, n) = m - n + Modulus
  <1>1. /\ m \in Int /\ m >= 0 /\ m < Modulus
        /\ n \in Int /\ n >= 0 /\ n < Modulus
        /\ Modulus \in Int /\ Modulus > 0
    BY ModulusSize, SMT DEF Number
  <1>2. /\ m - n \in Int /\ m - n < Modulus /\ m - n >= -Modulus
        /\ m >= n => m - n >= 0
        /\ m < n => m - n < 0
    BY <1>1, SMT
  <1> DEFINE d == m - n
  <1> HIDE DEF d
  <1>3. d \in Int /\ d < Modulus /\ d >= -Modulus
    BY <1>2, SMT DEF d
  <1>4. /\ d >= 0 => d % Modulus = d
        /\ d < 0 => d % Modulus = d + Modulus
        /\ d % Modulus \in 0..Modulus-1
    BY <1>1, <1>3, Residue, SMT
  <1> QED BY <1>1, <1>2, <1>4, SMT DEF Offset, d, Number

\* The number that an advance by less than a turn leads to.
LEMMA AdvancedValue ==
    ASSUME NEW e \in Int, e >= 0, e < Modulus + Modulus
    PROVE  /\ e % Modulus \in Number
           /\ e < Modulus => e % Modulus = e
           /\ e >= Modulus => e % Modulus = e - Modulus
  <1>1. Modulus \in Int /\ Modulus > 0
    BY ModulusSize, SMT
  <1>2. /\ e < Modulus => e % Modulus = e
        /\ e >= Modulus => e % Modulus = e - Modulus
        /\ e % Modulus \in 0..Modulus-1
    BY <1>1, Residue, SMT
  <1> QED BY <1>2 DEF Number

\* The next number of a counter.
LEMMA NextValue ==
    ASSUME NEW s \in Number
    PROVE  /\ Next16(s) \in Number
           /\ s + 1 < Modulus => Next16(s) = s + 1
           /\ s + 1 >= Modulus => Next16(s) = s + 1 - Modulus
  <1> DEFINE e == s + 1
  <1>1. /\ s \in Int /\ Modulus \in Int
        /\ e \in Int /\ e >= 0 /\ e < Modulus + Modulus
    BY ModulusSize, SMT DEF Number
  <1>2. Next16(s) = e % Modulus /\ e = s + 1
    BY DEF Next16
  <1> HIDE DEF e
  <1>3. /\ Next16(s) \in Number
        /\ e < Modulus => Next16(s) = e
        /\ e >= Modulus => Next16(s) = e - Modulus
    BY <1>1, <1>2, AdvancedValue
  <1> QED BY <1>1, <1>2, <1>3, SMT

\* The mark of a number lies a window ahead of it.
LEMMA MarkValue ==
    ASSUME NEW n \in Number, WindowAssumption
    PROVE  /\ Mark(n) \in Number
           /\ Offset(Mark(n), n) = Window
           /\ Offset(n, n) = 0
  <1>1. /\ n \in Int /\ n >= 0 /\ n < Modulus
        /\ Modulus \in Int
        /\ Window \in Int /\ Window >= 0 /\ Window < Modulus
    BY ModulusSize, SMT DEF Number
  <1>2. /\ Mark(n) \in Number
        /\ n + Window < Modulus => Mark(n) = n + Window
        /\ n + Window >= Modulus => Mark(n) = n + Window - Modulus
    <2> DEFINE e == n + Window
    <2>1. e \in Int /\ e >= 0 /\ e < Modulus + Modulus
      BY <1>1, SMT
    <2>2. Mark(n) = e % Modulus /\ e = n + Window
      BY DEF Mark
    <2> HIDE DEF e
    <2>3. /\ Mark(n) \in Number
          /\ e < Modulus => Mark(n) = e
          /\ e >= Modulus => Mark(n) = e - Modulus
      BY <2>1, <2>2, AdvancedValue
    <2> QED BY <1>1, <2>1, <2>2, <2>3, SMT
  <1>3. /\ Mark(n) >= n => Offset(Mark(n), n) = Mark(n) - n
        /\ Mark(n) < n => Offset(Mark(n), n) = Mark(n) - n + Modulus
        /\ n >= n => Offset(n, n) = n - n
    BY <1>2, OffsetValue
  <1> QED BY <1>1, <1>2, <1>3, SMT

\* The next number of a counter that is not half a turn ahead of l is one
\* further ahead of it.
LEMMA OffsetOfNext ==
    ASSUME NEW s \in Number, NEW l \in Number, Offset(s, l) <= 32766
    PROVE  Offset(Next16(s), l) = Offset(s, l) + 1 /\ Ahead(Next16(s), l)
  <1>1. /\ s \in Int /\ s >= 0 /\ s < Modulus
        /\ l \in Int /\ l >= 0 /\ l < Modulus
        /\ Modulus \in Int /\ Modulus > 32767 + 32767
    BY ModulusSize, SMT DEF Number
  <1>2. /\ Next16(s) \in Number
        /\ s + 1 < Modulus => Next16(s) = s + 1
        /\ s + 1 >= Modulus => Next16(s) = s + 1 - Modulus
    BY NextValue
  <1>3. /\ s >= l => Offset(s, l) = s - l
        /\ s < l => Offset(s, l) = s - l + Modulus
        /\ Next16(s) >= l => Offset(Next16(s), l) = Next16(s) - l
        /\ Next16(s) < l => Offset(Next16(s), l) = Next16(s) - l + Modulus
    BY <1>2, OffsetValue
  <1>4. Offset(Next16(s), l) = Offset(s, l) + 1
    BY <1>1, <1>2, <1>3, SMT
  <1>5. Offset(s, l) \in Int /\ Offset(s, l) >= 0
    BY <1>1, <1>3, SMT
  <1>6. Offset(Next16(s), l) \in Int /\ Offset(Next16(s), l) >= 1
            /\ Offset(Next16(s), l) <= 32767
    BY <1>4, <1>5, SMT
  <1> QED BY <1>4, <1>6, SMT DEF Ahead

\* A mark that is still ahead of the next number is within the window of it.
LEMMA OffsetOfOldMark ==
    ASSUME NEW s \in Number, NEW l \in Number, NEW r \in Number, WindowAssumption,
           Offset(r, l) <= Window, Offset(s, l) <= Offset(r, l),
           Ahead(r, Next16(s))
    PROVE  Offset(r, Next16(s)) <= Window
  <1>1. /\ s \in Int /\ s >= 0 /\ s < Modulus
        /\ l \in Int /\ l >= 0 /\ l < Modulus
        /\ r \in Int /\ r >= 0 /\ r < Modulus
        /\ Modulus \in Int /\ Modulus > 32767 + 32767
        /\ Window \in Int /\ Window <= 32766
    BY ModulusSize, SMT DEF Number
  <1>2. /\ Next16(s) \in Number
        /\ s + 1 < Modulus => Next16(s) = s + 1
        /\ s + 1 >= Modulus => Next16(s) = s + 1 - Modulus
    BY NextValue
  <1>3. /\ s >= l => Offset(s, l) = s - l
        /\ s < l => Offset(s, l) = s - l + Modulus
        /\ r >= l => Offset(r, l) = r - l
        /\ r < l => Offset(r, l) = r - l + Modulus
        /\ r >= Next16(s) => Offset(r, Next16(s)) = r - Next16(s)
        /\ r < Next16(s) => Offset(r, Next16(s)) = r - Next16(s) + Modulus
    BY <1>2, OffsetValue
  <1>4. Offset(r, Next16(s)) <= 32767
    <2>1. Offset(r, Next16(s)) \in Int
      BY <1>1, <1>2, <1>3, SMT
    <2> QED BY <2>1, SMT DEF Ahead
  <1> QED BY <1>1, <1>2, <1>3, <1>4, SMT

-----------------------------------------------------------------------------
\* With one holder per identity the profile of a channel is the linked channel.
LEMMA ProfileIsLinked ==
    ASSUME NEW ids \in [Channel -> Identity \cup {NoIdentity}],
           \A c, d \in Channel : ids[c] = ids[d] /\ ids[c] # NoIdentity => c = d,
           NEW c \in Channel, LinkAssumption, ChannelsAssumption
    PROVE  /\ ProfileAmong(ids, c) = LinkedTo(c)
           /\ LinkedTo(c) \in Channel /\ Link[LinkedTo(c)] = 0
  <1>1. LinkedTo(c) \in Channel /\ Link[LinkedTo(c)] = 0
    <2>1. CASE Link[c] = 0
      BY <2>1 DEF LinkedTo
    <2>2. CASE Link[c] # 0
      <3>1. Link[c] \in 0..Channels /\ Link[c] # 0 /\ Link[Link[c]] = 0
        BY <2>2 DEF LinkAssumption
      <3>2. Link[c] \in Channel
        BY <3>1, SMT DEF Channel, ChannelsAssumption
      <3> QED BY <2>2, <3>1, <3>2 DEF LinkedTo
    <2> QED BY <2>1, <2>2
  <1>2. CASE ids[LinkedTo(c)] = NoIdentity
    BY <1>1, <1>2 DEF ProfileAmong
  <1>3. CASE ids[LinkedTo(c)] # NoIdentity
    <2>1. Holders(ids, ids[LinkedTo(c)]) = {LinkedTo(c)}
      BY <1>1, <1>3 DEF Holders
    <2>2. First({LinkedTo(c)}) = LinkedTo(c)
      BY <1>1 DEF First, Channel, ChannelsAssumption
    <2> QED BY <1>1, <1>3, <2>1, <2>2 DEF ProfileAmong
  <1> QED BY <1>2, <1>3

\* With one holder per identity a boot leaves every counter at its own mark.
LEMMA ConsolidatedIsMark ==
    ASSUME NEW ids \in [Channel -> Identity \cup {NoIdentity}],
           NEW marks \in [Channel -> Number],
           \A c, d \in Channel : ids[c] = ids[d] /\ ids[c] # NoIdentity => c = d,
           NEW c \in Channel
    PROVE  Consolidated(ids, marks, c) = marks[c]
  <1> DEFINE members == {d \in Channel : /\ ids[d] # NoIdentity /\ ids[d] = ids[c]
                                         /\ ProfileAmong(ids, d) = c}
             values == {marks[d] : d \in members \cup {c}}
  <1>1. members \subseteq {c}
    OBVIOUS
  <1>2. values = {marks[c]}
    BY <1>1
  <1>3. marks[c] <= marks[c]
    BY ModulusSize, SMT DEF Number
  <1> HIDE DEF values
  <1>4. (CHOOSE v \in values : \A w \in values : w <= v) = marks[c]
    BY <1>2, <1>3
  <1> QED BY <1>4 DEF Consolidated, values

-----------------------------------------------------------------------------
\* At first one channel has an identity, its mark is its counter, and its last number is the
\* one before.
LEMMA InvInit ==
    ASSUME ChannelsAssumption, WindowAssumption, IdentityAssumption,
           ValuesAssumption, Init
    PROVE  Inv
  <1>1. PICK b \in Channel, i \in Identity, s \in StartValues :
            /\ Link[b] = 0
            /\ identity = [c \in Channel |-> IF c = b THEN i ELSE NoIdentity]
            /\ sequence = [c \in Channel |-> IF c = b THEN s ELSE 0]
            /\ reserved = sequence
            /\ flash = [identity |-> identity, reserved |-> reserved]
            /\ last = [j \in Identity |-> IF j = i /\ s # 0 THEN s - 1 ELSE Unused]
            /\ receiving = 0 /\ sends = 0
    BY DEF Init
  <1>2. s \in Number /\ 0 \in Number
    BY ModulusSize, SMT DEF ValuesAssumption, Number
  <1>3. s # 0 => s - 1 \in Number /\ Offset(s, s - 1) = 1
    <2> HAVE s # 0
    <2> DEFINE t == s - 1
    <2>1. t \in Number /\ s >= t /\ s - t = 1
      BY <1>2, ModulusSize, SMT DEF Number
    <2> HIDE DEF t
    <2>2. Offset(s, t) = 1
      BY <1>2, <2>1, OffsetValue
    <2> QED BY <2>1, <2>2 DEF t
  <1>4. TypeOK
    <2>1. /\ identity \in [Channel -> Identity \cup {NoIdentity}]
          /\ sequence \in [Channel -> Number] /\ reserved \in [Channel -> Number]
      BY <1>1, <1>2
    <2>2. last \in [Identity -> Number \cup {Unused}]
      BY <1>1, <1>3
    <2>3. sends \in 0..MaxSends /\ receiving \in 0..Channels
      BY <1>1, SMT DEF ValuesAssumption, ChannelsAssumption
    <2> QED BY <1>1, <2>1, <2>2, <2>3 DEF TypeOK
  <1>5. OneHolder /\ FlashCurrent
    BY <1>1 DEF OneHolder, FlashCurrent
  <1>6. MarkAhead
    <2> SUFFICES ASSUME NEW c \in Channel, identity[c] # NoIdentity
                 PROVE  Reserved(sequence[c], reserved[c], last[identity[c]])
      BY DEF MarkAhead
    <2>1. c = b /\ identity[c] = i /\ sequence[c] = s /\ reserved[c] = s
      BY <1>1
    <2>2. CASE s = 0
      BY <1>1, <2>1, <2>2 DEF Reserved
    <2>3. CASE s # 0
      <3>1. last[i] = s - 1 /\ s - 1 \in Number /\ Offset(s, s - 1) = 1
        BY <1>1, <1>3, <2>3
      <3>2. Offset(s, s - 1) <= Window /\ Offset(s, s - 1) <= Offset(s, s - 1)
        BY <3>1, ModulusSize, SMT
      <3> QED BY <2>1, <3>1, <3>2 DEF Reserved
    <2> QED BY <2>2, <2>3
  <1> QED BY <1>4, <1>5, <1>6 DEF Inv

\* A step that gives channel p an identity i that no other channel holds, a
\* counter n, and a mark r that fits the last number l sent under the identity.
Updated(p, i, n, r, l) ==
    /\ p \in Channel /\ i \in Identity
    /\ n \in Number /\ r \in Number /\ l \in Number \cup {Unused}
    /\ Reserved(n, r, l)
    /\ \A d \in Channel : d # p => identity[d] # i
    /\ identity' = [identity EXCEPT ![p] = i]
    /\ sequence' = [sequence EXCEPT ![p] = n]
    /\ reserved' = [reserved EXCEPT ![p] = r]
    /\ last' = [last EXCEPT ![i] = l]
    /\ sends' \in 0..MaxSends /\ receiving' \in 0..Channels
    /\ flash' = [identity |-> identity', reserved |-> reserved']

\* A step that gives one profile an identity of its own, with a counter and a mark that fit
\* what the identity sent last, and stores it, keeps the invariant.
LEMMA InvUpdated ==
    ASSUME Inv, IdentityAssumption, NEW p, NEW i, NEW n, NEW r, NEW l,
           Updated(p, i, n, r, l)
    PROVE  Inv'
  <1> USE DEF Updated
  <1>1. TypeOK'
    BY DEF Inv, TypeOK
  <1>2. FlashCurrent' /\ OneHolder'
    BY DEF Inv, TypeOK, FlashCurrent, OneHolder
  <1>3. MarkAhead'
    <2> SUFFICES ASSUME NEW c \in Channel, identity'[c] # NoIdentity
                 PROVE  Reserved(sequence'[c], reserved'[c], last'[identity'[c]])
      BY DEF MarkAhead, Reserved
    <2>1. CASE c = p
      <3>1. /\ identity'[c] = i /\ sequence'[c] = n /\ reserved'[c] = r
            /\ last'[i] = l
        BY <2>1 DEF Inv, TypeOK
      <3> QED BY <3>1
    <2>2. CASE c # p
      <3>1. /\ identity'[c] = identity[c] /\ sequence'[c] = sequence[c]
            /\ reserved'[c] = reserved[c] /\ last'[identity[c]] = last[identity[c]]
        BY <2>2 DEF Inv, TypeOK
      <3>2. Reserved(sequence[c], reserved[c], last[identity[c]])
        BY <3>1 DEF Inv, MarkAhead
      <3> QED BY <3>1, <3>2
    <2> QED BY <2>1, <2>2
  <1> QED BY <1>1, <1>2, <1>3 DEF Inv

\* The profile of a channel, and what a frame sent from it finds and leaves.
LEMMA ProfileInChannel ==
    ASSUME Inv, LinkAssumption, ChannelsAssumption, NEW c \in Channel
    PROVE  Profile(c) \in Channel
  BY ProfileIsLinked DEF Inv, TypeOK, OneHolder, Profile

\* After a frame the mark still lies ahead of the counter, renewed or not, and the counter
\* ahead of the number sent before.
LEMMA SendKeepsReserved ==
    ASSUME NEW s \in Number, NEW r \in Number, NEW l \in Number \cup {Unused},
           WindowAssumption, Reserved(s, r, l), NEW force \in BOOLEAN
    PROVE  /\ ReserveDue(Next16(s), r, force)
                => Reserved(Next16(s), Mark(Next16(s)), Next16(s))
           /\ ~ ReserveDue(Next16(s), r, force) => Reserved(Next16(s), r, Next16(s))
           /\ l # Unused => Ahead(Next16(s), l)
  <1>1. Next16(s) \in Number
    BY NextValue
  <1>2. /\ Offset(Mark(Next16(s)), Next16(s)) = Window
        /\ Offset(Next16(s), Next16(s)) = 0
    BY <1>1, MarkValue
  <1>3. Reserved(Next16(s), Mark(Next16(s)), Next16(s))
    <2>1. Window <= Window /\ 0 <= Window
      BY ModulusSize, SMT
    <2> QED BY <1>1, <1>2, <2>1 DEF Reserved
  <1>4. ASSUME ~ ReserveDue(Next16(s), r, force)
        PROVE  Reserved(Next16(s), r, Next16(s))
    <2>1. r # 0 /\ Ahead(r, Next16(s))
      BY <1>4 DEF ReserveDue
    <2>2. l \in Number /\ Offset(r, l) <= Window /\ Offset(s, l) <= Offset(r, l)
      BY <2>1 DEF Reserved
    <2>3. Offset(r, Next16(s)) <= Window
      BY <2>1, <2>2, OffsetOfOldMark
    <2>4. 0 <= Offset(r, Next16(s))
      <3>1. Offset(r, Next16(s)) \in Int
        BY <1>1, OffsetValue, ModulusSize, SMT DEF Number
      <3> QED BY <2>1, <3>1, SMT DEF Ahead
    <2> QED BY <1>1, <1>2, <2>3, <2>4 DEF Reserved
  <1>5. ASSUME l # Unused PROVE Ahead(Next16(s), l)
    <2>1. l \in Number /\ Offset(r, l) <= Window /\ Offset(s, l) <= Offset(r, l)
      BY <1>5 DEF Reserved
    <2>2. Offset(r, l) \in Int /\ Offset(s, l) \in Int
      BY <2>1, OffsetValue, ModulusSize, SMT DEF Number
    <2>3. Offset(s, l) <= 32766
      BY <2>1, <2>2, ModulusSize, SMT
    <2> QED BY <2>1, <2>3, OffsetOfNext
  <1> QED BY <1>3, <1>4, <1>5

\* A frame keeps the invariant and sends a number ahead of the last one (nextSequence1W).
LEMMA SendStep ==
    ASSUME Inv, NEW c \in Channel, NEW force \in BOOLEAN, SendFrame(c, force),
           Assumptions, ChannelsAssumption, LinkAssumption, WindowAssumption,
           IdentityAssumption, ValuesAssumption
    PROVE  /\ Inv'
           /\ last[identity[Profile(c)]] # Unused
                => Ahead(last'[identity[Profile(c)]], last[identity[Profile(c)]])
  <1> DEFINE p == Profile(c)
             i == identity[p]
             n == Next16(sequence[p])
             r == IF ReserveDue(n, reserved[p], force) THEN Mark(n) ELSE reserved[p]
  <1>1. p \in Channel
    BY ProfileInChannel
  <1>2. /\ i \in Identity /\ last[i] \in Number \cup {Unused}
        /\ sequence[p] \in Number /\ reserved[p] \in Number
    BY <1>1 DEF Inv, TypeOK, SendFrame
  <1>3. Reserved(sequence[p], reserved[p], last[i])
    BY <1>1, <1>2 DEF Inv, MarkAhead, IdentityAssumption
  <1>4. n \in Number /\ Mark(n) \in Number
    BY <1>2, NextValue, MarkValue
  <1>5. /\ Reserved(n, r, n)
        /\ last[i] # Unused => Ahead(n, last[i])
    BY <1>2, <1>3, SendKeepsReserved
  <1>6. \A d \in Channel : d # p => identity[d] # i
    BY <1>1, <1>2 DEF Inv, OneHolder, IdentityAssumption
  <1>7. /\ sequence' = [sequence EXCEPT ![p] = n]
        /\ last' = [last EXCEPT ![i] = n]
    BY DEF SendFrame
  <1>8. identity' = [identity EXCEPT ![p] = i]
    BY <1>1 DEF SendFrame, Inv, TypeOK
  <1>9. /\ reserved' = [reserved EXCEPT ![p] = r]
        /\ flash' = [identity |-> identity', reserved |-> reserved']
    <2>1. CASE ReserveDue(n, reserved[p], force)
      <3>1. reserved' = [reserved EXCEPT ![p] = Mark(n)] /\ Save
        BY <2>1 DEF SendFrame
      <3>2. Persist
        BY <3>1 DEF Save, Assumptions
      <3> QED BY <2>1, <3>1, <3>2 DEF Persist
    <2>2. CASE ~ ReserveDue(n, reserved[p], force)
      <3>1. reserved' = reserved /\ flash' = flash /\ identity' = identity
        BY <2>2 DEF SendFrame
      <3>2. reserved = [reserved EXCEPT ![p] = reserved[p]]
        BY DEF Inv, TypeOK
      <3> QED BY <2>2, <3>1, <3>2 DEF Inv, FlashCurrent
    <2> QED BY <2>1, <2>2
  <1>10. sends' \in 0..MaxSends /\ receiving' \in 0..Channels
    BY SMT DEF SendFrame, Inv, TypeOK, ValuesAssumption
  <1>11. r \in Number /\ n \in Number \cup {Unused}
    BY <1>2, <1>4
  <1> HIDE DEF p, i, n, r
  <1>12. Inv'
    <2>1. /\ p \in Channel /\ i \in Identity
          /\ n \in Number /\ r \in Number /\ n \in Number \cup {Unused}
          /\ Reserved(n, r, n)
      BY <1>1, <1>2, <1>4, <1>5, <1>11
    <2>2. Updated(p, i, n, r, n)
      BY <2>1, <1>6, <1>7, <1>8, <1>9, <1>10, SMT DEF Updated
    <2> QED BY <2>2, InvUpdated
  <1>13. last'[i] = n
    BY <1>2, <1>7 DEF Inv, TypeOK
  <1> QED BY <1>5, <1>12, <1>13 DEF p, i

\* A fresh identity keeps the invariant, generated or imported.
LEMMA SetIdentityStep ==
    ASSUME Inv, NEW p \in Channel, NEW i \in Identity, SetIdentity(p, i), Fresh(i),
           WindowAssumption, IdentityAssumption
    PROVE  Inv'
  <1>1. Reserved(0, 0, Unused) /\ 0 \in Number
    BY ModulusSize, SMT DEF Reserved, Number
  <1>2. last[i] = Unused /\ \A d \in Channel : d # p => identity[d] # i
    BY DEF Fresh
  <1>3. last' = [last EXCEPT ![i] = Unused]
    BY <1>2 DEF SetIdentity, Inv, TypeOK
  <1>4. sends' \in 0..MaxSends /\ receiving' \in 0..Channels
    BY DEF SetIdentity, Inv, TypeOK
  <1>5. /\ identity' = [identity EXCEPT ![p] = i]
        /\ sequence' = [sequence EXCEPT ![p] = 0]
        /\ reserved' = [reserved EXCEPT ![p] = 0]
        /\ flash' = [identity |-> identity', reserved |-> reserved']
    BY DEF SetIdentity, Persist
  <1>6. Unused \in Number \cup {Unused}
    OBVIOUS
  <1>7. Updated(p, i, 0, 0, Unused)
    BY <1>1, <1>2, <1>3, <1>4, <1>5, <1>6, SMT DEF Updated
  <1> QED BY <1>7, InvUpdated

\* Arming a capture, or ending one that heard nothing, changes no number.
LEMMA ReceiveStep ==
    ASSUME Inv, ChannelsAssumption,
           StopKeyReceive \/ \E c \in Channel : StartKeyReceive(c)
    PROVE  Inv'
  <1>1. receiving' \in 0..Channels
    BY SMT DEF StopKeyReceive, StartKeyReceive, Channel, ChannelsAssumption
  <1>2. /\ identity' = identity /\ sequence' = sequence /\ reserved' = reserved
        /\ flash' = flash /\ last' = last /\ sends' = sends
    BY DEF StopKeyReceive, StartKeyReceive
  <1> QED
    BY <1>1, <1>2 DEF Inv, TypeOK, FlashCurrent, OneHolder, MarkAhead, Reserved

\* Taking over an identity that no other channel holds, heard with its counter,
\* keeps the invariant (handleOneWayKeyReceiveFrame).
LEMMA CloneStep ==
    ASSUME Inv, NEW i \in Identity, NEW n \in StartValues, Clone(i, n),
           Assumptions, ChannelsAssumption, LinkAssumption, WindowAssumption,
           IdentityAssumption, ValuesAssumption
    PROVE  Inv'
  <1> DEFINE p == Profile(receiving)
  <1>1. p \in Channel
    <2>1. receiving \in Channel
      BY SMT DEF Clone, Inv, TypeOK, Channel, ChannelsAssumption
    <2> QED BY <2>1, ProfileInChannel
  <1>2. n \in Number
    BY DEF ValuesAssumption
  <1>3. Mark(n) \in Number /\ Offset(Mark(n), n) = Window /\ Offset(n, n) = 0
    BY <1>2, MarkValue
  <1>4. Reserved(n, Mark(n), n)
    <2>1. Window <= Window /\ 0 <= Window
      BY ModulusSize, SMT
    <2> QED BY <1>2, <1>3, <2>1 DEF Reserved
  <1>5. UpToDate(i, n) /\ \A d \in Channel : d # p => identity[d] # i
    BY DEF Clone, Assumptions
  <1>6. sends' \in 0..MaxSends /\ receiving' \in 0..Channels
    BY SMT DEF Clone, Inv, TypeOK, ChannelsAssumption
  <1>7. last' = [last EXCEPT ![i] = n]
    BY <1>5 DEF Clone
  <1>8. /\ identity' = [identity EXCEPT ![p] = i]
        /\ sequence' = [sequence EXCEPT ![p] = n]
        /\ reserved' = [reserved EXCEPT ![p] = Mark(n)]
        /\ flash' = [identity |-> identity', reserved |-> reserved']
    BY DEF Clone, Persist
  <1> HIDE DEF p
  <1>9. Updated(p, i, n, Mark(n), n)
    BY <1>1, <1>2, <1>3, <1>4, <1>5, <1>6, <1>7, <1>8 DEF Updated
  <1> QED BY <1>9, InvUpdated

\* A boot keeps the invariant: what flash restores are the marks in RAM.
LEMMA RebootStep ==
    ASSUME Inv, Reboot, ChannelsAssumption
    PROVE  Inv'
  <1>1. flash.identity = identity /\ flash.reserved = reserved
    BY DEF Inv, FlashCurrent
  <1>2. \A c \in Channel : Consolidated(flash.identity, flash.reserved, c) = reserved[c]
    BY <1>1, ConsolidatedIsMark DEF Inv, TypeOK, OneHolder
  <1>3. identity' = identity /\ sequence' = reserved /\ reserved' = reserved
    BY <1>1, <1>2 DEF Reboot, Inv, TypeOK
  <1>4. /\ flash' = flash /\ last' = last /\ sends' = sends
        /\ receiving' \in 0..Channels
    BY SMT DEF Reboot, ChannelsAssumption
  <1>5. TypeOK' /\ FlashCurrent' /\ OneHolder'
    BY <1>3, <1>4 DEF Inv, TypeOK, FlashCurrent, OneHolder
  <1>6. MarkAhead'
    <2> SUFFICES ASSUME NEW c \in Channel, identity[c] # NoIdentity
                 PROVE  Reserved(reserved[c], reserved[c], last[identity[c]])
      BY <1>3, <1>4 DEF MarkAhead, Reserved
    <2>1. Reserved(sequence[c], reserved[c], last[identity[c]])
      BY DEF Inv, MarkAhead
    <2>2. ASSUME last[identity[c]] \in Number
          PROVE  Offset(reserved[c], last[identity[c]]) <= Offset(reserved[c], last[identity[c]])
      <3>1. Offset(reserved[c], last[identity[c]]) \in Int
        BY <2>2, OffsetValue, ModulusSize, SMT DEF Inv, TypeOK, Number
      <3> QED BY <3>1, SMT
    <2> QED BY <2>1, <2>2 DEF Reserved
  <1> QED BY <1>5, <1>6 DEF Inv

\* Every step keeps the invariant, and a frame carries a number ahead of the
\* last one sent under its identity.
LEMMA InvNext ==
    ASSUME Inv, [Next]_vars, Assumptions, ChannelsAssumption, LinkAssumption,
           WindowAssumption, IdentityAssumption, ValuesAssumption
    PROVE  Inv'
  <1>1. ASSUME NEW c \in Channel, NEW force \in BOOLEAN, SendFrame(c, force)
        PROVE  Inv'
    BY <1>1, SendStep
  <1>2. ASSUME NEW c \in Channel, NEW i \in Identity, Generate(c, i)
        PROVE  Inv'
    BY <1>2, SetIdentityStep DEF Generate
  <1>3. ASSUME NEW c \in Channel, NEW i \in Identity, Import(c, i)
        PROVE  Inv'
    BY <1>3, SetIdentityStep, ProfileInChannel DEF Import, Assumptions
  <1>4. ASSUME NEW i \in Identity, NEW n \in StartValues, Clone(i, n)
        PROVE  Inv'
    BY <1>4, CloneStep
  <1>5. CASE Reboot
    BY <1>5, RebootStep
  <1>7. CASE StopKeyReceive \/ \E c \in Channel : StartKeyReceive(c)
    BY <1>7, ReceiveStep
  <1>6. CASE UNCHANGED vars
    BY <1>6 DEF vars, Inv, TypeOK, FlashCurrent, OneHolder, MarkAhead, Reserved
  <1> QED BY <1>1, <1>2, <1>3, <1>4, <1>5, <1>6, <1>7 DEF Next

-----------------------------------------------------------------------------
\* The invariant holds in every reachable state.
LEMMA InvAlways == Assumptions /\ Spec => []Inv
  <1> USE ChannelsAssumption, LinkAssumption, WindowAssumption, IdentityAssumption,
          ValuesAssumption
  <1>1. Init => Inv
    BY InvInit
  <1>2. Assumptions /\ Inv /\ [Next]_vars => Inv'
    BY InvNext
  <1>3. CASE Assumptions
    BY <1>1, <1>2, <1>3, PTL DEF Spec
  <1> QED BY <1>3

\* The values stay in 16 bits, in RAM and in flash.
THEOREM SequenceTypeOK == Assumptions /\ Spec => []TypeOK
  BY InvAlways, PTL DEF Inv

\* At every moment the mark in flash covers every number sent, so that a power
\* loss, whenever it comes, restarts the counter past them.
THEOREM SequenceReservedInFlash == Assumptions /\ Spec => []ReservedInFlash
  <1>1. Inv => ReservedInFlash
    <2> SUFFICES ASSUME Inv, NEW c \in Channel, flash.identity[c] # NoIdentity,
                        last[flash.identity[c]] # Unused
                 PROVE  Offset(flash.reserved[c], last[flash.identity[c]]) <= Window
      BY DEF ReservedInFlash
    <2>1. flash.identity = identity /\ flash.reserved = reserved
      BY DEF Inv, FlashCurrent
    <2> QED BY <2>1 DEF Inv, MarkAhead, Reserved
  <1> QED BY <1>1, InvAlways, PTL

\* No identity ever sends a number that is not ahead of its last one.
THEOREM SequenceNeverReplays == Assumptions /\ Spec => NeverReplays
  <1> USE ChannelsAssumption, LinkAssumption, WindowAssumption, IdentityAssumption,
          ValuesAssumption
  <1> DEFINE Step == \A c \in Channel, force \in BOOLEAN :
                        SendFrame(c, force) =>
                            LET i == identity[Profile(c)]
                            IN  last[i] # Unused => Ahead(last'[i], last[i])
  <1>1. Assumptions /\ Inv /\ [Next]_vars => [Step]_vars
    BY SendStep
  <1>2. CASE Assumptions
    BY <1>1, <1>2, InvAlways, PTL DEF Spec, NeverReplays
  <1> QED BY <1>2

=============================================================================
