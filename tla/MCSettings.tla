----------------------------- MODULE MCSettings -----------------------------
(***************************************************************************)
(* A small instance of Settings for TLC: two requests, and setup, with one *)
(* flag that setup asks about and one that it does not.                    *)
(***************************************************************************)
EXTENDS Settings, TLC

Symmetric == Permutations(Request)
=============================================================================
