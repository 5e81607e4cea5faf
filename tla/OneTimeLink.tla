---------------------------- MODULE OneTimeLink ----------------------------
(***************************************************************************)
(* What the one-time phone link promises (docs/cli.md, SECURITY.md): a     *)
(* link that was issued opens at most one session, and a link that was     *)
(* used or has lapsed never opens one again.                               *)
(***************************************************************************)
EXTENDS Naturals

CONSTANT Token

VARIABLES
    link,      \* what each link is good for
    sessions   \* the sessions it has opened

vars == <<link, sessions>>

State == {"unissued", "open", "used", "lapsed"}

TypeOK == link \in [Token -> State] /\ sessions \in [Token -> Nat]

Open == {t \in Token : link[t] = "open"}

\* Any open links may lapse: they expire, or the daemon restarts.
Lapsed(gone) == [t \in Token |-> IF t \in gone THEN "lapsed" ELSE link[t]]

Init ==
    /\ link = [t \in Token |-> "unissued"]
    /\ sessions = [t \in Token |-> 0]

Issue(t) ==
    /\ link[t] = "unissued"
    /\ \E gone \in SUBSET Open : link' = [Lapsed(gone) EXCEPT ![t] = "open"]
    /\ UNCHANGED sessions

Admit(t) ==
    /\ link[t] = "open"
    /\ link' = [link EXCEPT ![t] = "used"]
    /\ sessions' = [sessions EXCEPT ![t] = @ + 1]

Lapse ==
    /\ \E gone \in SUBSET Open : link' = Lapsed(gone)
    /\ UNCHANGED sessions

Next == Lapse \/ \E t \in Token : Issue(t) \/ Admit(t)

Spec == Init /\ [][Next]_vars

=============================================================================
