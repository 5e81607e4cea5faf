--------------------------- MODULE BrowserPairing ---------------------------
(***************************************************************************)
(* The one-time phone links of internal/api/server.go: `dashboard phone`   *)
(* asks the daemon for a token, a browser trades it for a session cookie.  *)
(*                                                                         *)
(* Both listeners of a daemon serve any number of requests at once and     *)
(* share the token table and its mutex.  A request reads the clock before  *)
(* it takes the mutex, so the reading may be old when it is used.          *)
(***************************************************************************)
EXTENDS Naturals

CONSTANTS
    Token,        \* the 256-bit tokens the random source may return
    Operator,     \* requests for a new link
    Browser,      \* requests that present one
    Lifetime,     \* ten minutes
    MaxTime,      \* how long a behaviour lasts
    MaxRestarts,  \* restarts of the daemon in one behaviour
    Gone,         \* a token the table does not hold
    None          \* no request in progress

Time == 0 .. MaxTime
Expiry == 0 .. MaxTime + Lifetime
Draft == [token: Token, expires: Expiry]
Visit == [token: Token, at: Time]

ASSUME PairingAssumption ==
    /\ Lifetime \in Nat /\ MaxTime \in Nat /\ MaxRestarts \in Nat
    /\ Gone \notin Nat
    /\ None \notin Draft \cup Visit

VARIABLES
    now,          \* the clock
    pairTokens,   \* Server.pairTokens: when each token expires
    drafts,       \* the token each request for a link has drawn
    visits,       \* the token each browser presents, and when it came
    restarts,     \* restarts so far
    promised,     \* history: the expiry handed out with each link
    lost,         \* history: links the table held at a restart
    sessions      \* history: cookies given for each token

history == <<promised, lost, sessions>>
vars == <<now, pairTokens, drafts, visits, restarts, history>>

TypeOK ==
    /\ now \in Time
    /\ pairTokens \in [Token -> Expiry \cup {Gone}]
    /\ drafts \in [Operator -> Draft \cup {None}]
    /\ visits \in [Browser -> Visit \cup {None}]
    /\ restarts \in 0 .. MaxRestarts
    /\ promised \in [Token -> Expiry \cup {Gone}]
    /\ lost \subseteq Token
    /\ sessions \in [Token -> Nat]

Held == {t \in Token : pairTokens[t] # Gone}
Issued == {t \in Token : promised[t] # Gone}
Drawn == {t \in Token : \E o \in Operator : drafts[o] # None /\ drafts[o].token = t}

Init ==
    /\ now = 0
    /\ pairTokens = [t \in Token |-> Gone]
    /\ drafts = [o \in Operator |-> None]
    /\ visits = [b \in Browser |-> None]
    /\ restarts = 0
    /\ promised = [t \in Token |-> Gone] /\ lost = {}
    /\ sessions = [t \in Token |-> 0]

Tick ==
    /\ now < MaxTime
    /\ now' = now + 1
    /\ UNCHANGED <<pairTokens, drafts, visits, restarts, history>>

Deadline == now + Lifetime

\* A token nobody has drawn before, and its deadline, outside the mutex.
Draw(o, t) ==
    /\ drafts[o] = None
    /\ t \notin Issued \cup Drawn
    /\ drafts' = [drafts EXCEPT ![o] = [token |-> t, expires |-> Deadline]]
    /\ UNCHANGED <<now, pairTokens, visits, restarts, history>>

\* Mutant: the sweep removes what has not expired.
MutExpired(t) == pairTokens[t] > now

Expired(t) == pairTokens[t] < now

\* Under the mutex expired tokens are swept and the new one is stored; the
\* link is then shown.
Record(o) ==
    /\ drafts[o] # None
    /\ pairTokens' = [t \in Token |->
                        IF t = drafts[o].token THEN drafts[o].expires
                        ELSE IF t \in Held /\ Expired(t) THEN Gone
                        ELSE pairTokens[t]]
    /\ promised' = [promised EXCEPT ![drafts[o].token] = drafts[o].expires]
    /\ drafts' = [drafts EXCEPT ![o] = None]
    /\ UNCHANGED <<now, visits, restarts, lost, sessions>>

\* A browser presents a link that was shown, be it used or expired.
Arrive(b, t) ==
    /\ visits[b] = None
    /\ t \in Issued
    /\ visits' = [visits EXCEPT ![b] = [token |-> t, at |-> now]]
    /\ UNCHANGED <<now, pairTokens, drafts, restarts, history>>

\* Mutant: the deadline itself still counts.
MutFresh(v) == pairTokens[v.token] >= v.at

Fresh(v) == pairTokens[v.token] > v.at

\* Mutant: a token is only removed by the sweep.
MutSpend(t) == UNCHANGED pairTokens

Spend(t) == pairTokens' = [pairTokens EXCEPT ![t] = Gone]

\* Under the mutex the token is looked up and removed; what it admits is
\* decided by the clock reading of the request.
Consume(b) ==
    LET v == visits[b]
        t == v.token
    IN /\ v # None
       /\ Spend(t)
       /\ sessions' = [sessions EXCEPT ![t] = IF t \in Held /\ Fresh(v) THEN @ + 1 ELSE @]
       /\ visits' = [visits EXCEPT ![b] = None]
       /\ UNCHANGED <<now, drafts, restarts, promised, lost>>

\* The table is in memory only.
Restart ==
    /\ restarts < MaxRestarts
    /\ restarts' = restarts + 1
    /\ pairTokens' = [t \in Token |-> Gone]
    /\ drafts' = [o \in Operator |-> None]
    /\ visits' = [b \in Browser |-> None]
    /\ lost' = lost \cup Held
    /\ UNCHANGED <<now, promised, sessions>>

Next ==
    \/ Tick \/ Restart
    \/ \E o \in Operator : Record(o) \/ \E t \in Token : Draw(o, t)
    \/ \E b \in Browser : Consume(b) \/ \E t \in Token : Arrive(b, t)

Spec == Init /\ [][Next]_vars

-----------------------------------------------------------------------------
(* Properties *)

\* A link opens one session, however many browsers present it at the same
\* moment on the two listeners (docs/cli.md 151, SECURITY.md 37).
SingleUse == \A t \in Token : sessions[t] <= 1

\* A link that was shown stays usable until it is used, expires, or the
\* daemon restarts: neither the sweep nor another link takes it away.
StaysUsable ==
    \A t \in Issued : t \in Held \/ sessions[t] > 0 \/ t \in lost \/ promised[t] <= now

\* A request that came at the expiry handed out with the link or later opens
\* no session, however long other requests held it up (docs/cli.md 150-151).
LateVisitsRefused ==
    [][\A t \in Token : sessions'[t] # sessions[t] =>
          \E b \in Browser : /\ visits[b] # None
                             /\ visits[b].token = t
                             /\ visits[b].at < promised[t]]_vars

-----------------------------------------------------------------------------
(* The table implements one-time links. *)

LinkOf(t) ==
    IF sessions[t] > 0 THEN "used"
    ELSE IF t \in Held THEN "open"
    ELSE IF t \in Issued THEN "lapsed"
    ELSE "unissued"

Link == INSTANCE OneTimeLink WITH
            link <- [t \in Token |-> LinkOf(t)], sessions <- sessions

\* Every step of the daemon is one the promise allows, or invisible to it.
ImplementsLink == Link!Spec

=============================================================================
