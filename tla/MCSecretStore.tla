--------------------------- MODULE MCSecretStore ---------------------------
(***************************************************************************)
(* A small instance of SecretStore for TLC: a daemon and a command, the    *)
(* bearer token and one other secret, on machines of every kind.           *)
(***************************************************************************)
EXTENDS SecretStore, TLC

Symmetric == Permutations(Value) \cup Permutations(Process)
=============================================================================
