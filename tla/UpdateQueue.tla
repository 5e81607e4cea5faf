---------------------------- MODULE UpdateQueue ----------------------------
(***************************************************************************)
(* What Telegram and a consumer of its updates promise together: updates   *)
(* are handled one after the other, without a gap, at least once; what the *)
(* service has forgotten is never handled again, and a consumer that       *)
(* starts anew goes on from there.                                         *)
(***************************************************************************)
EXTENDS Naturals

VARIABLES
    sent,        \* updates sent so far, numbered from 1
    forgotten,   \* how many of them the service has forgotten
    behind,      \* how many of them this run of the consumer is done with
    handled      \* the updates handled to their end, in any run

vars == <<sent, forgotten, behind, handled>>

TypeOK ==
    /\ sent \in Nat /\ behind \in 0 .. sent /\ forgotten \in 0 .. behind
    /\ handled \subseteq 1 .. sent

Init == sent = 0 /\ forgotten = 0 /\ behind = 0 /\ handled = {}

Send ==
    /\ sent' = sent + 1
    /\ UNCHANGED <<forgotten, behind, handled>>

Handle ==
    /\ behind < sent
    /\ behind' = behind + 1
    /\ handled' = handled \cup {behind + 1}
    /\ UNCHANGED <<sent, forgotten>>

Acknowledge ==
    /\ forgotten' = behind
    /\ UNCHANGED <<sent, behind, handled>>

StartOver ==
    /\ behind' = forgotten
    /\ UNCHANGED <<sent, forgotten, handled>>

Next == Send \/ Handle \/ Acknowledge \/ StartOver

Spec == Init /\ [][Next]_vars

=============================================================================
