------------------------------ MODULE RemoteMap ------------------------------
(***************************************************************************)
(* The remotes the user tracks, the devices linked to them, and the ring   *)
(* of addresses heard on the air (IoHomeRemoteMap), with the bus object    *)
(* that tells of an address heard and the polls a tracked remote causes.   *)
(***************************************************************************)
EXTENDS Integers, Sequences, SequencesExt

CONSTANTS
    Remotes, Devices,                       \* addresses
    MaxEntries, MaxLinks, MaxObserved,      \* IOHC_REMOTE_MAX_ENTRIES, _LINKS, OBSERVED_MAX
    NoRemote,                               \* no address
    MaxHeard                                \* bound: addresses heard

RemoteMapAssumption ==
    /\ {MaxEntries, MaxLinks, MaxObserved, MaxHeard} \subseteq Nat \ {0} /\ NoRemote \notin Remotes

Slots == 1 .. MaxEntries

VARIABLES
    entries,            \* mEntries: address and linked devices of each slot
    observed, head,     \* mObserved (mObservedCount is its length), mObservedHead
    flash,              \* entries as last saved
    ko, lastCount,      \* the object "observed remote", mLastObservedCount
    wanted, saved,      \* links asked for and not undone; those of the last save
    heard               \* addresses in the order in which they were first entered, and the last one heard

map == <<entries, wanted>>
ring == <<observed, head, heard>>
vars == <<map, ring, flash, saved, ko, lastCount>>

Free == [address |-> NoRemote, links |-> <<>>]

Init ==
    /\ entries = [i \in Slots |-> Free] /\ flash = entries /\ wanted = {} /\ saved = {}
    /\ observed = <<>> /\ head = 0 /\ heard = [order |-> <<>>, last |-> NoRemote]
    /\ ko = NoRemote /\ lastCount = 0

-----------------------------------------------------------------------------
(* Remotes and links: the console commands.  What cannot be done is refused. *)

\* findRemote: the first slot
Holding(r) == {i \in Slots : entries[i].address = r}
First(S) == CHOOSE i \in S : \A j \in S : i <= j

\* addRemote's conditions
MayAdd(r) == Holding(r) = {} /\ Holding(NoRemote) # {}

AddRemote(r) ==
    /\ MayAdd(r)
    /\ entries' = [entries EXCEPT ![First(Holding(NoRemote))] = [Free EXCEPT !.address = r]]
    /\ UNCHANGED <<wanted, ring, flash, saved, ko, lastCount>>

RemoveRemote(r) ==
    /\ Holding(r) # {}
    /\ entries' = [entries EXCEPT ![First(Holding(r))] = Free]
    /\ wanted' = {link \in wanted : link[1] # r}
    /\ UNCHANGED <<ring, flash, saved, ko, lastCount>>

MayLink(links, d) == ~Contains(links, d) /\ Len(links) < MaxLinks

LinkDevice(r, d) ==
    /\ Holding(r) # {}
    /\ LET i == First(Holding(r))
       IN  /\ MayLink(entries[i].links, d)
           /\ entries' = [entries EXCEPT ![i].links = Append(@, d)]
    /\ wanted' = wanted \cup {<<r, d>>}
    /\ UNCHANGED <<ring, flash, saved, ko, lastCount>>

\* unlinkDevice's shifting
Without(links, d) == RemoveAt(links, First({k \in 1 .. Len(links) : links[k] = d}))

UnlinkDevice(r, d) ==
    /\ Holding(r) # {}
    /\ LET i == First(Holding(r))
       IN  /\ Contains(entries[i].links, d)
           /\ entries' = [entries EXCEPT ![i].links = Without(@, d)]
    /\ wanted' = wanted \ {<<r, d>>}
    /\ UNCHANGED <<ring, flash, saved, ko, lastCount>>

\* writeToBuffer, and readFromBuffer after a restart: every slot with its count of links
Save ==
    /\ flash' = entries /\ saved' = wanted
    /\ UNCHANGED <<map, ring, ko, lastCount>>

Restart ==
    /\ entries' = flash /\ wanted' = saved
    /\ observed' = <<>> /\ head' = 0 /\ heard' = [heard EXCEPT !.order = <<>>]
    /\ ko' = NoRemote /\ lastCount' = 0
    /\ UNCHANGED <<flash, saved>>

\* processReceivedFrame: the devices polled when remote r was heard
Polled(r) == IF Holding(r) = {} THEN {} ELSE ToSet(entries[First(Holding(r))].links)

-----------------------------------------------------------------------------
(* What was heard *)

\* Mutant: the head stays where it is.
NextHeadStays == head
\* The slot overwritten next, from 0
NextHead == (head + 1) % MaxObserved

\* observeAddress
Observe(r) ==
    /\ heard' = [order |-> IF Contains(observed, r) THEN heard.order ELSE Append(heard.order, r),
                 last |-> r]
    /\ IF Contains(observed, r) THEN UNCHANGED <<observed, head>>
       ELSE IF Len(observed) < MaxObserved THEN observed' = Append(observed, r) /\ UNCHANGED head
       ELSE observed' = [observed EXCEPT ![head + 1] = r] /\ head' = NextHead
    /\ Len(heard'.order) <= MaxHeard
    /\ UNCHANGED <<map, flash, saved, ko, lastCount>>

\* The object is written when the count has grown, the part of loop() that is about it.
Loop ==
    /\ ko' = IF Len(observed) > lastCount THEN observed[Len(observed)] ELSE ko
    /\ lastCount' = Len(observed)
    /\ UNCHANGED <<map, ring, flash, saved>>

Next ==
    \/ \E r \in Remotes :
        \/ AddRemote(r) \/ RemoveRemote(r) \/ Observe(r)
        \/ \E d \in Devices : LinkDevice(r, d) \/ UnlinkDevice(r, d)
    \/ Save \/ Restart \/ Loop

Spec == Init /\ [][Next]_vars

-----------------------------------------------------------------------------
(* Properties *)

TypeOK ==
    /\ \A i \in Slots : /\ entries[i].address \in Remotes \cup {NoRemote}
                        /\ Len(entries[i].links) <= MaxLinks /\ IsInjective(entries[i].links)
    /\ Len(observed) <= MaxObserved /\ head \in 0 .. MaxObserved - 1
    /\ ko \in Remotes \cup {NoRemote} /\ lastCount \in 0 .. MaxObserved

\* A remote that is heard causes polls of the devices linked to it and not unlinked since,
\* whatever was added, removed and saved in between: findRemote finds the one entry.
PollsWhatIsLinked == \A r \in Remotes : Polled(r) = {d \in Devices : <<r, d>> \in wanted}

\* The ring forgets the address entered longest ago (observeAddress).
ForgetsOldest ==
    LET n == Len(heard.order)
        kept == IF n <= MaxObserved THEN n ELSE MaxObserved
    IN  ToSet(observed) = {heard.order[k] : k \in n - kept + 1 .. n} /\ Len(observed) = kept

\* The object shows the address heard last.
LastHeardShown == [][Loop => ko' = heard.last]_vars
=============================================================================
