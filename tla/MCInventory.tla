----------------------------- MODULE MCInventory -----------------------------
(***************************************************************************)
(* A small instance of Inventory for TLC: a Samsung TV and another, which  *)
(* may have one name from the start, and a computer.                       *)
(***************************************************************************)
EXTENDS Inventory

MCNames ==
    LET differ == CHOOSE f \in [Samsung \cup Television -> Name] : IsInjective(f)
    IN {differ, [u \in Samsung \cup Television |-> CHOOSE n \in Name : TRUE]}
=============================================================================
