--------------------------- MODULE MCOneWaySequence ---------------------------
(* One to three 1W channels, with counters at zero and near the wrap. *)
EXTENDS OneWaySequence

CONSTANTS RemoteA, RemoteB

\* The third channel uses the profile of the first.
ThirdToFirst == [c \in Channel |-> IF c = 3 THEN 1 ELSE 0]
Unlinked == [c \in Channel |-> 0]

Remotes == {RemoteA, RemoteB}
AroundTheWrap == {0, 65532}
=============================================================================
