---------------------------- MODULE MCSamsungTV ----------------------------
(***************************************************************************)
(* Small instances of SamsungTV for TLC: two requests at once, three       *)
(* tokens, of which nothing tells one from another.                        *)
(***************************************************************************)
EXTENDS SamsungTV, TLC

Symmetric == Permutations(Token) \cup Permutations(Client)
=============================================================================
