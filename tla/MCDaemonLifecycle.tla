------------------------- MODULE MCDaemonLifecycle -------------------------
(***************************************************************************)
(* A small instance of DaemonLifecycle for TLC: daemons that follow and    *)
(* meet each other, beside one other program.                              *)
(***************************************************************************)
EXTENDS DaemonLifecycle

CONSTANTS d1, d2, shell

\* Once d1 has ended, d2 or the other program may get its number.
Reused == [p \in Process |-> IF p = d2 THEN PID ELSE {1}]
=============================================================================
