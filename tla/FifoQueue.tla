------------------------------ MODULE FifoQueue ------------------------------
(***************************************************************************)
(* What the controller's command queue promises to its callers, without    *)
(* the circular buffer: a bounded sequence of entries.  An accepted entry  *)
(* leaves exactly once, in the order of acceptance, except that a          *)
(* foreground request may be taken past the background polls before it;    *)
(* the polls keep their order and stay queued.                             *)
(***************************************************************************)
EXTENDS Naturals, Sequences

CONSTANTS Entry,        \* the entries the queue may hold, after normalisation
          Capacity,     \* how many of them it holds at most
          NoEntry       \* what a caller gets from a call that returns false

VARIABLES pending,      \* the entries waiting, oldest first
          taken         \* what the last pop handed to its caller

fifoVars == <<pending, taken>>

FifoInit == pending = << >> /\ taken = NoEntry

\* The sequence s without its i-th element.
Without(s, i) ==
    [j \in 1 .. Len(s) - 1 |-> IF j < i THEN s[j] ELSE s[j + 1]]

Accept(e) ==
    /\ Len(pending) < Capacity
    /\ pending' = Append(pending, e)
    /\ UNCHANGED taken

\* The caller takes the i-th entry; only background polls are passed over.
Take(i) ==
    /\ \A j \in 1 .. i - 1 : pending[j].background
    /\ taken' = pending[i]
    /\ pending' = Without(pending, i)

TakeNothing == taken' = NoEntry /\ UNCHANGED pending

\* Starting a pairing over a busy controller forgets what is queued.
Forget == pending' = << >> /\ UNCHANGED taken

FifoNext ==
    \/ \E e \in Entry : Accept(e)
    \/ \E i \in 1 .. Len(pending) : Take(i)
    \/ TakeNothing
    \/ Forget

FifoSpec == FifoInit /\ [][FifoNext]_fifoVars
=============================================================================
