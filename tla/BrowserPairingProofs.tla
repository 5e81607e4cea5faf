------------------------ MODULE BrowserPairingProofs ------------------------
(***************************************************************************)
(* The one-time phone links, for any number of tokens, requests, browsers, *)
(* restarts and any lifetime: each link admits one browser, none is taken  *)
(* away early or honoured late, and the token table implements             *)
(* OneTimeLink.                                                            *)
(***************************************************************************)
EXTENDS BrowserPairing, TLAPS

\* A drawn token is in no other request's hands and was never handed out.
DraftsOwnTheirTokens ==
    \A o \in Operator :
        drafts[o] # None =>
            /\ drafts[o].token \notin Issued
            /\ \A p \in Operator \ {o} :
                  drafts[p] # None => drafts[p].token # drafts[o].token

\* The table holds links that were handed out and not used, with the expiry
\* that was handed out.
HeldLinksAreOpen ==
    \A t \in Held : promised[t] = pairTokens[t] /\ sessions[t] = 0

OnlyIssuedAdmit == \A t \in Token : sessions[t] > 0 => t \in Issued

VisitsArePast == \A b \in Browser : visits[b] # None => visits[b].at <= now

IInv ==
    /\ TypeOK
    /\ DraftsOwnTheirTokens
    /\ HeldLinksAreOpen
    /\ OnlyIssuedAdmit
    /\ VisitsArePast
    /\ SingleUse
    /\ StaysUsable

\* What every proof below needs to know of the constants and the state.
USE PairingAssumption DEF Time, Expiry

LEMMA InitInv == Init => IInv
BY DEF Init, IInv, TypeOK, DraftsOwnTheirTokens, HeldLinksAreOpen,
       OnlyIssuedAdmit, VisitsArePast, SingleUse, StaysUsable, Held, Issued

\* Recording a link leaves every other link's history alone.
LEMMA RecordInv ==
    ASSUME IInv, NEW o \in Operator, Record(o)
    PROVE  IInv'
<1> DEFINE d == drafts[o]
<1>1. /\ d \in Draft /\ d.token \in Token /\ d.expires \in Expiry
      /\ d.token \notin Issued /\ d.token \notin Held
  BY DEF IInv, TypeOK, Record, Draft, DraftsOwnTheirTokens, HeldLinksAreOpen, Held, Issued
<1>2. TypeOK'
  BY <1>1 DEF IInv, TypeOK, Record, Held
<1>3. Issued' = Issued \cup {d.token}
  BY <1>1 DEF IInv, TypeOK, Record, Issued
<1>4. DraftsOwnTheirTokens'
  BY <1>1, <1>3 DEF IInv, TypeOK, Record, DraftsOwnTheirTokens
<1>5. HeldLinksAreOpen'
  BY <1>1 DEF IInv, TypeOK, Record, HeldLinksAreOpen, OnlyIssuedAdmit, Held
<1>6. OnlyIssuedAdmit' /\ VisitsArePast' /\ SingleUse'
  BY <1>3 DEF IInv, Record, OnlyIssuedAdmit, VisitsArePast, SingleUse
<1>7. StaysUsable'
  <2> SUFFICES ASSUME NEW t \in Issued', t \notin Held'
               PROVE  sessions[t] > 0 \/ t \in lost \/ promised'[t] <= now
    BY DEF StaysUsable, Record
  <2>1. t # d.token /\ t \in Issued /\ promised'[t] = promised[t]
    BY <1>1, <1>3 DEF IInv, TypeOK, Record, Held
  <2>2. CASE t \in Held
    <3>1. Expired(t)
      BY <2>1, <2>2 DEF Record, Held, IInv, TypeOK
    <3>2. promised[t] = pairTokens[t] /\ promised[t] \in Nat
      BY <2>1, <2>2 DEF IInv, HeldLinksAreOpen, TypeOK, Issued
    <3> QED BY <2>1, <3>1, <3>2 DEF Expired, IInv, TypeOK
  <2>3. CASE t \notin Held
    BY <2>1, <2>3 DEF IInv, StaysUsable
  <2> QED BY <2>2, <2>3
<1> QED BY <1>2, <1>4, <1>5, <1>6, <1>7 DEF IInv

\* A visit admits at most the one browser the table still held the link for.
LEMMA ConsumeInv ==
    ASSUME IInv, NEW b \in Browser, Consume(b)
    PROVE  IInv'
<1> DEFINE v == visits[b]
<1> DEFINE t == v.token
<1>1. v \in Visit /\ t \in Token /\ v.at \in Time /\ v.at <= now
  BY DEF IInv, TypeOK, Consume, Visit, VisitsArePast
<1>2. /\ pairTokens' = [pairTokens EXCEPT ![t] = Gone]
      /\ sessions' = [sessions EXCEPT ![t] = IF t \in Held /\ Fresh(v) THEN @ + 1 ELSE @]
      /\ visits' = [visits EXCEPT ![b] = None]
      /\ UNCHANGED <<now, drafts, restarts, promised, lost>>
  BY DEF Consume, Spend
<1>3. TypeOK'
  BY <1>1, <1>2 DEF IInv, TypeOK
<1>4. Issued' = Issued /\ Held' = Held \ {t}
  BY <1>1, <1>2 DEF IInv, TypeOK, Issued, Held
<1>5. DraftsOwnTheirTokens' /\ VisitsArePast'
  BY <1>1, <1>2, <1>4 DEF IInv, TypeOK, DraftsOwnTheirTokens, VisitsArePast
<1>6. HeldLinksAreOpen'
  BY <1>1, <1>2, <1>4 DEF IInv, TypeOK, HeldLinksAreOpen
<1>7. OnlyIssuedAdmit' /\ SingleUse'
  <2>1. t \in Held => t \in Issued /\ sessions[t] = 0
    BY DEF IInv, HeldLinksAreOpen, TypeOK, Held, Issued
  <2> QED BY <1>1, <1>2, <1>4, <2>1 DEF IInv, TypeOK, OnlyIssuedAdmit, SingleUse
<1>8. StaysUsable'
  <2> SUFFICES ASSUME NEW u \in Issued, u \notin Held'
               PROVE  sessions'[u] > 0 \/ u \in lost \/ promised[u] <= now
    BY <1>2, <1>4 DEF StaysUsable
  <2>1. CASE u \notin Held
    <3>1. sessions'[u] = sessions[u]
      BY <1>2, <2>1 DEF IInv, TypeOK, Issued
    <3> QED BY <2>1, <3>1 DEF IInv, StaysUsable
  <2>2. CASE u \in Held
    <3>1. u = t /\ sessions[t] = 0 /\ promised[t] = pairTokens[t] /\ promised[t] \in Nat
      BY <1>4, <2>2 DEF IInv, HeldLinksAreOpen, TypeOK, Issued
    <3>2. CASE Fresh(v)
      BY <1>1, <1>2, <2>2, <3>1, <3>2 DEF IInv, TypeOK
    <3>3. CASE ~Fresh(v)
      BY <1>1, <3>1, <3>3 DEF Fresh, IInv, TypeOK
    <3> QED BY <3>2, <3>3
  <2> QED BY <2>1, <2>2
<1> QED BY <1>3, <1>5, <1>6, <1>7, <1>8 DEF IInv

LEMMA RestartInv ==
    ASSUME IInv, Restart
    PROVE  IInv'
<1>1. Held' = {} /\ Issued' = Issued
  BY DEF Restart, Held, Issued
<1>2. TypeOK'
  BY DEF IInv, TypeOK, Restart, Held
<1>3. DraftsOwnTheirTokens' /\ HeldLinksAreOpen' /\ VisitsArePast'
  BY <1>1 DEF IInv, Restart, DraftsOwnTheirTokens, HeldLinksAreOpen, VisitsArePast
<1>4. OnlyIssuedAdmit' /\ SingleUse' /\ StaysUsable'
  BY <1>1 DEF IInv, Restart, OnlyIssuedAdmit, SingleUse, StaysUsable
<1> QED BY <1>2, <1>3, <1>4 DEF IInv

LEMMA NextInv == IInv /\ [Next]_vars => IInv'
<1> SUFFICES ASSUME IInv, [Next]_vars PROVE IInv'
  OBVIOUS
<1>1. CASE Tick
  <2>1. Held' = Held /\ Issued' = Issued /\ TypeOK'
    BY <1>1 DEF IInv, TypeOK, Tick, history, Held, Issued
  <2>2. DraftsOwnTheirTokens' /\ HeldLinksAreOpen' /\ OnlyIssuedAdmit' /\ SingleUse'
    BY <1>1, <2>1 DEF IInv, Tick, history, DraftsOwnTheirTokens, HeldLinksAreOpen,
                      OnlyIssuedAdmit, SingleUse
  <2>3. VisitsArePast'
    BY <1>1 DEF IInv, TypeOK, Tick, VisitsArePast, Visit
  <2>4. StaysUsable'
    BY <1>1, <2>1 DEF IInv, TypeOK, Tick, history, StaysUsable, Issued
  <2> QED BY <2>1, <2>2, <2>3, <2>4 DEF IInv
<1>2. CASE Restart
  BY <1>2, RestartInv
<1>3. ASSUME NEW o \in Operator, Record(o) PROVE IInv'
  BY <1>3, RecordInv
<1>4. ASSUME NEW o \in Operator, NEW t \in Token, Draw(o, t) PROVE IInv'
  <2>1. Held' = Held /\ Issued' = Issued
    BY <1>4 DEF Draw, history, Held, Issued
  <2>2. [token |-> t, expires |-> Deadline] \in Draft
    BY DEF IInv, TypeOK, Deadline, Draft
  <2>3. TypeOK'
    BY <1>4, <2>2 DEF IInv, TypeOK, Draw, history
  <2>4. DraftsOwnTheirTokens'
    BY <1>4, <2>1, <2>2 DEF IInv, TypeOK, Draw, DraftsOwnTheirTokens, Drawn
  <2>5. /\ HeldLinksAreOpen' /\ OnlyIssuedAdmit' /\ VisitsArePast' /\ SingleUse' /\ StaysUsable'
    BY <1>4, <2>1 DEF IInv, Draw, history, HeldLinksAreOpen, OnlyIssuedAdmit,
                      VisitsArePast, SingleUse, StaysUsable
  <2> QED BY <2>3, <2>4, <2>5 DEF IInv
<1>5. ASSUME NEW b \in Browser, Consume(b) PROVE IInv'
  BY <1>5, ConsumeInv
<1>6. ASSUME NEW b \in Browser, NEW t \in Token, Arrive(b, t) PROVE IInv'
  <2>1. Held' = Held /\ Issued' = Issued
    BY <1>6 DEF Arrive, history, Held, Issued
  <2>2. [token |-> t, at |-> now] \in Visit
    BY DEF IInv, TypeOK, Visit
  <2>3. TypeOK'
    BY <1>6, <2>2 DEF IInv, TypeOK, Arrive, history
  <2>4. VisitsArePast'
    BY <1>6 DEF IInv, TypeOK, Arrive, VisitsArePast
  <2>5. /\ DraftsOwnTheirTokens' /\ HeldLinksAreOpen' /\ OnlyIssuedAdmit' /\ SingleUse'
        /\ StaysUsable'
    BY <1>6, <2>1 DEF IInv, Arrive, history, DraftsOwnTheirTokens, HeldLinksAreOpen,
                      OnlyIssuedAdmit, SingleUse, StaysUsable
  <2> QED BY <2>3, <2>4, <2>5 DEF IInv
<1>7. CASE UNCHANGED vars
  BY <1>7 DEF IInv, vars, history, TypeOK, DraftsOwnTheirTokens, HeldLinksAreOpen,
              OnlyIssuedAdmit, VisitsArePast, SingleUse, StaysUsable, Held, Issued
<1> QED BY <1>1, <1>2, <1>3, <1>4, <1>5, <1>6, <1>7 DEF Next

LEMMA Invariance == Spec => []IInv
BY InitInv, NextInv, PTL DEF Spec

\* However many browsers present a link at once, on whichever listener, and
\* whatever the sweeps and restarts in between, it opens one session.
THEOREM LinksAreSingleUse == Spec => []SingleUse
<1>1. IInv => SingleUse
  BY DEF IInv
<1> QED BY <1>1, Invariance, PTL

\* No sweep, other link or refused visit takes away a link that still has
\* time left.
THEOREM LinksStayUsable == Spec => []StaysUsable
<1>1. IInv => StaysUsable
  BY DEF IInv
<1> QED BY <1>1, Invariance, PTL

-----------------------------------------------------------------------------

\* Only Consume changes the sessions, and only for a visit that came before
\* the expiry that was handed out.
THEOREM LateVisitsNeverEnter == Spec => LateVisitsRefused
<1> DEFINE InTime ==
      \A t \in Token : sessions'[t] # sessions[t] =>
         \E b \in Browser : /\ visits[b] # None
                            /\ visits[b].token = t
                            /\ visits[b].at < promised[t]
<1>1. IInv /\ [Next]_vars => [InTime]_vars
  <2> SUFFICES ASSUME IInv, [Next]_vars, NEW t \in Token, sessions'[t] # sessions[t]
               PROVE  \E b \in Browser : /\ visits[b] # None
                                         /\ visits[b].token = t
                                         /\ visits[b].at < promised[t]
    OBVIOUS
  <2>1. PICK b \in Browser : Consume(b)
    BY DEF Next, vars, history, Tick, Restart, Record, Draw, Arrive
  <2>2. visits[b] # None /\ visits[b] \in Visit
    BY <2>1 DEF Consume, IInv, TypeOK
  <2>3. visits[b].token = t /\ t \in Held /\ Fresh(visits[b])
    BY <2>1 DEF Consume, IInv, TypeOK
  <2>4. promised[t] = pairTokens[t] /\ promised[t] \in Nat
    BY <2>3 DEF IInv, HeldLinksAreOpen, TypeOK, Held
  <2> QED BY <2>2, <2>3, <2>4 DEF Fresh, Visit
<1> QED BY <1>1, Invariance, PTL DEF Spec, LateVisitsRefused

\* Two threads, two listeners, sweeps and restarts still implement the
\* promise: issue once, admit once, lapse for good.
THEOREM TableImplementsLink == Spec => ImplementsLink
<1> DEFINE link == [t \in Token |-> LinkOf(t)]
<1>1. Init => Link!Init
  BY DEF Init, Link!Init, LinkOf, Held, Issued
<1>2. IInv /\ [Next]_vars => [Link!Next]_(Link!vars)
  <2> SUFFICES ASSUME IInv, [Next]_vars PROVE Link!Next \/ UNCHANGED <<link, sessions>>
    BY DEF Link!vars
  <2>0. /\ link \in [Token -> {"used", "open", "lapsed", "unissued"}]
        /\ Link!Open = Held
    BY DEF IInv, TypeOK, HeldLinksAreOpen, Link!Open, LinkOf, Held
  <2>1. ASSUME UNCHANGED <<sessions, pairTokens, promised>> PROVE UNCHANGED <<link, sessions>>
    BY <2>1 DEF LinkOf, Held, Issued
  <2>2. CASE UNCHANGED vars \/ Tick
    BY <2>1, <2>2 DEF vars, Tick, history
  <2>3. ASSUME NEW t \in Token,
               (\E o \in Operator : Draw(o, t)) \/ (\E b \in Browser : Arrive(b, t))
        PROVE  UNCHANGED <<link, sessions>>
    BY <2>1, <2>3 DEF Draw, Arrive, history
  <2>4. CASE Restart
    <3>1. link' = Link!Lapsed(Held)
      BY <2>4 DEF Restart, Link!Lapsed, LinkOf, Held, Issued, IInv, HeldLinksAreOpen, TypeOK
    <3>2. UNCHANGED sessions
      BY <2>4 DEF Restart
    <3> QED BY <2>0, <3>1, <3>2 DEF Link!Next, Link!Lapse
  <2>5. ASSUME NEW o \in Operator, Record(o) PROVE Link!Next
    <3> DEFINE t == drafts[o].token
    <3> DEFINE gone == {u \in Held : Expired(u)}
    <3>1. /\ t \in Token /\ t \notin Issued /\ t \notin Held /\ sessions[t] = 0
          /\ drafts[o].expires \in Nat
      BY <2>5 DEF IInv, TypeOK, Record, Draft, DraftsOwnTheirTokens, HeldLinksAreOpen,
                  OnlyIssuedAdmit, Held, Issued
    <3>2. /\ Held' = (Held \ gone) \cup {t} /\ Issued' = Issued \cup {t}
          /\ sessions' = sessions
      BY <2>5, <3>1 DEF IInv, TypeOK, Record, Held, Issued
    <3>3. Held \subseteq Issued /\ \A u \in Held : sessions[u] = 0
      BY DEF IInv, TypeOK, HeldLinksAreOpen, Held, Issued
    <3>4. link' = [Link!Lapsed(gone) EXCEPT ![t] = "open"]
      <4>1. ASSUME NEW u \in Token
            PROVE  LinkOf(u)' = IF u = t THEN "open" ELSE Link!Lapsed(gone)[u]
        <5>1. CASE u = t
          BY <3>1, <3>2, <5>1 DEF LinkOf
        <5>2. CASE u # t /\ u \in gone
          BY <3>2, <3>3, <5>2 DEF Link!Lapsed, LinkOf
        <5>3. CASE u # t /\ u \notin gone
          BY <3>2, <3>3, <5>3 DEF Link!Lapsed, LinkOf
        <5> QED BY <5>1, <5>2, <5>3
      <4>2. Link!Lapsed(gone) \in [Token -> {"used", "open", "lapsed", "unissued"}]
        BY <2>0 DEF Link!Lapsed
      <4> HIDE DEF gone, t
      <4> QED BY <4>1, <4>2
    <3>5. link[t] = "unissued"
      BY <3>1 DEF LinkOf
    <3>6. Link!Issue(t)
      BY <2>0, <3>2, <3>4, <3>5 DEF Link!Issue
    <3> HIDE DEF link, t
    <3> QED BY <3>1, <3>6 DEF Link!Next
  <2>6. ASSUME NEW b \in Browser, Consume(b)
        PROVE  Link!Next \/ UNCHANGED <<link, sessions>>
    <3> DEFINE v == visits[b]
    <3> DEFINE t == v.token
    <3>1. t \in Token
      BY <2>6 DEF IInv, TypeOK, Consume, Visit
    <3>2. Held' = Held \ {t} /\ Issued' = Issued
      BY <2>6, <3>1 DEF IInv, TypeOK, Consume, Spend, Held, Issued
    <3>3. Held \subseteq Issued /\ \A u \in Held : sessions[u] = 0
      BY DEF IInv, TypeOK, HeldLinksAreOpen, Held, Issued
    <3>4. CASE t \in Held /\ Fresh(v)
      <4>1. sessions' = [sessions EXCEPT ![t] = sessions[t] + 1] /\ sessions[t] = 0
        BY <2>6, <3>3, <3>4 DEF Consume
      <4>2. link' = [link EXCEPT ![t] = "used"]
        <5>1. ASSUME NEW u \in Token
              PROVE  LinkOf(u)' = IF u = t THEN "used" ELSE LinkOf(u)
          <6>1. sessions'[u] = IF u = t THEN 1 ELSE sessions[u]
            BY <4>1 DEF IInv, TypeOK
          <6> QED BY <3>2, <6>1 DEF LinkOf
        <5> HIDE DEF t
        <5> QED BY <2>0, <5>1
      <4>3. link[t] = "open"
        BY <3>1, <3>3, <3>4 DEF LinkOf
      <4>4. Link!Admit(t)
        BY <4>1, <4>2, <4>3 DEF Link!Admit
      <4> HIDE DEF link, t
      <4> QED BY <3>1, <4>4 DEF Link!Next
    <3>5. CASE ~(t \in Held /\ Fresh(v))
      <4>1. sessions' = sessions
        BY <2>6, <3>5 DEF IInv, TypeOK, Consume
      <4>2. link' = Link!Lapsed(Held \cap {t})
        BY <3>2, <3>3, <4>1 DEF Link!Lapsed, LinkOf
      <4>3. Link!Lapse
        BY <2>0, <4>1, <4>2 DEF Link!Lapse
      <4> HIDE DEF link, t
      <4> QED BY <4>3 DEF Link!Next
    <3> QED BY <3>4, <3>5
  <2> HIDE DEF link
  <2> QED BY <2>2, <2>3, <2>4, <2>5, <2>6 DEF Next
<1> QED BY <1>1, <1>2, Invariance, PTL DEF Spec, ImplementsLink, Link!Spec

=============================================================================
