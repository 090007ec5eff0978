--------------------------- MODULE MCCommandQueue ---------------------------
(* A queue of four slots (three entries), wrapping many times: one opaque  *)
(* command, both priorities, the default and one explicit attempt limit,   *)
(* so four requests that can be told apart.                                *)
EXTENDS CommandQueue
CONSTANT open
MCCommand  == {open}
MCAttempts == {0, 1}
=============================================================================
