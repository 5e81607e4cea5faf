---------------------------- MODULE MCDaemonLock ----------------------------
(***************************************************************************)
(* Small instances of DaemonLock for TLC: two daemons.                     *)
(***************************************************************************)
EXTENDS DaemonLock

CONSTANTS d1, d2

AnyNumber == [p \in Process |-> PID]
=============================================================================
