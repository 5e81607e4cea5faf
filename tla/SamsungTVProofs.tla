-------------------------- MODULE SamsungTVProofs --------------------------
(***************************************************************************)
(* How often a command reaches the TV, and the token that requests which   *)
(* do not overlap find, for any number of requests, tokens, names, keys    *)
(* and restarts.                                                           *)
(***************************************************************************)
EXTENDS SamsungTV, WellFoundedInduction, TLAPS

KeyLabel == {"preflight", "key", "check", "token", "dial", "save", "write", "ack"}
PairLabel == {"pair_dial", "pair_wait", "pair_save", "pair_tidy"}
WakeLabel == {"wake", "confirm"}

\* The labels of a request fit its operation, so that a retry starts it again.
Shape(r) ==
    /\ r.pc \in KeyLabel => r.op \in {"keys", "power_off"}
    /\ r.pc \in WakeLabel => r.op = "power_on"
    /\ r.pc \in PairLabel => r.op = "pair"

\* Keys the first attempt may have sent before it failed: all but one.
Earlier(r) == IF r.attempt = 1 THEN 0 ELSE r.asked - 1

\* What has been sent so far: what this attempt has behind it, and what an
\* earlier one may have sent.
Bounded(r) ==
    /\ r.pc \in KeyLabel \ {"ack"} => r.sent <= Earlier(r) + r.asked - r.left
    /\ r.pc = "ack" => r.sent <= Earlier(r) + r.asked - r.left + 1
    /\ r.pc \in PairLabel \cup {"wake"} => r.sent = 0
    /\ r.pc = "confirm" => r.sent <= 1
    /\ r.sent <= 2 * r.asked - 1

Good(r) == r \in Call /\ r.left <= r.asked /\ Shape(r) /\ Bounded(r)

IInv == TypeOK /\ \A c \in Client : Good(req[c])

USE DEF Name

-----------------------------------------------------------------------------
(* The fields of a request *)

LEMMA Fields ==
    ASSUME NEW r \in Call
    PROVE  /\ r.pc \in Label /\ r.op \in Operation \cup {"none"}
           /\ r.asked \in 1 .. MaxKeys /\ r.left \in 1 .. MaxKeys
           /\ r.attempt \in 1 .. 2 /\ r.hand \in Token \cup {None}
           /\ r.sent \in Nat /\ r.sent + 1 \in Nat /\ r.name \in Name
BY DEF Call

LEMMA Values ==
    /\ 1 \in Name /\ 1 \in 1 .. MaxKeys /\ 1 \in 1 .. 2 /\ 2 \in 1 .. 2
    /\ None \in Token \cup {None} /\ TRUE \in BOOLEAN
BY TVAssumption

LEMMA IdleGood == Good(Idle)
<1>1. Idle \in Call
  BY TVAssumption DEF Idle, Call, Label
<1> QED
  BY <1>1 DEF Idle, Good, Shape, Bounded, KeyLabel, PairLabel, WakeLabel

-----------------------------------------------------------------------------
(* Steps several actions take *)

\* The part of the invariant about the requests, after a step.
Kept == req' \in [Client -> Call] /\ \A d \in Client : Good(req'[d])

\* A step that changes one request keeps the others.
LEMMA BecomeKeeps ==
    ASSUME IInv, NEW c \in Client, NEW r, Become(c, r), Good(r)
    PROVE  Kept
BY DEF IInv, TypeOK, Become, Good, Kept

\* One more place in the code, the same keys.
LEMMA GotoKeeps ==
    ASSUME IInv, NEW c \in Client, NEW x \in Label, Goto(c, x),
           x \in KeyLabel \ {"ack"} => req[c].pc \in KeyLabel \ {"ack"},
           x \in PairLabel => req[c].pc \in PairLabel,
           x \notin {"ack"} \cup WakeLabel
    PROVE  Kept
<1> DEFINE r == req[c]
           f == [r EXCEPT !.pc = x, !.name = 1]
<1>0. Good(r) /\ r \in Call
  BY DEF IInv, Good
<1>1. f \in Call /\ f.pc = x /\ f.op = r.op /\ f.asked = r.asked
      /\ f.left = r.left /\ f.attempt = r.attempt /\ f.sent = r.sent
  BY <1>0, Values DEF Call
<1>2. Become(c, f)
  BY DEF Goto
<1> HIDE DEF f
<1>3. Good(f)
  BY <1>0, <1>1 DEF Good, Shape, Bounded, Earlier, KeyLabel, PairLabel, WakeLabel
<1> QED
  BY <1>2, <1>3, BecomeKeeps

LEMMA ReturnKeeps ==
    ASSUME IInv, NEW c \in Client, NEW u \in {"ok", "failed"}, Return(c, u)
    PROVE  Kept
<1> DEFINE r == req[c]
           f == [Idle EXCEPT !.pc = "finish", !.op = r.op, !.asked = r.asked,
                             !.sent = r.sent, !.hand = r.hand, !.outcome = u]
<1>0. Good(r) /\ Good(Idle)
  BY IdleGood DEF IInv
<1>1. r \in Call /\ Idle \in Call /\ "finish" \in Label
  BY <1>0 DEF Good, Label
<1>2. f \in Call /\ f.pc = "finish" /\ f.asked = r.asked
      /\ f.left = Idle.left /\ f.sent = r.sent
  BY <1>1, Fields DEF Call
<1>3. Become(c, f)
  BY DEF Return
<1>4. Idle.left = 1
  BY DEF Idle
<1> HIDE DEF f
<1>5. f.left <= f.asked /\ f.sent <= 2 * f.asked - 1
  BY <1>0, <1>1, <1>2, <1>4, Fields DEF Good, Bounded
<1>6. Good(f)
  BY <1>2, <1>5 DEF Good, Shape, Bounded, KeyLabel, PairLabel, WakeLabel
<1> QED
  BY <1>3, <1>6, BecomeKeeps

\* A failed attempt starts the request again or ends it.
LEMMA UnreachableKeeps ==
    ASSUME IInv, NEW c \in Client, Unreachable(c),
           req[c].pc \in (KeyLabel \ {"ack"}) \cup {"pair_dial", "wake"}
    PROVE  Kept
<1> DEFINE r == req[c]
           x == Entry[r.op]
           f == [r EXCEPT !.pc = x, !.attempt = 2, !.left = r.asked, !.hand = None]
<1>0. Good(r)
  BY DEF IInv
<1>1. CASE Return(c, "failed")
  BY <1>1, ReturnKeeps
<1>2. CASE Retries(c) /\ Become(c, f)
  <2>1. /\ r.op \in {"keys", "power_off", "power_on", "pair"}
        /\ x \in {"key", "preflight", "wake", "pair_dial"}
        /\ x \in {"key", "preflight"} <=> r.op \in {"keys", "power_off"}
        /\ x = "wake" <=> r.op = "power_on"
        /\ x = "pair_dial" <=> r.op = "pair"
        /\ x \in Label
    BY <1>0 DEF Good, Shape, Entry, KeyLabel, PairLabel, WakeLabel, Label
  <2>2. r \in Call /\ r.asked \in 1 .. MaxKeys /\ r.left \in 1 .. MaxKeys /\ r.sent \in Nat
    BY <1>0, Fields DEF Good
  <2>3. f \in Call /\ f.pc = x /\ f.op = r.op /\ f.asked = r.asked
        /\ f.left = r.asked /\ f.attempt = 2 /\ f.sent = r.sent
    BY <2>1, <2>2, Values DEF Call
  <2>4. r.attempt = 1
    BY <1>2 DEF Retries
  <2>5. r.pc \in KeyLabel \ {"ack"} => r.sent <= r.asked - 1
    BY <1>0, <2>2, <2>4 DEF Good, Bounded, Earlier
  <2>6. r.pc \in {"pair_dial", "wake"} => r.sent = 0
    BY <1>0 DEF Good, Bounded, PairLabel
  <2>7. r.pc \in KeyLabel \ {"ack"} <=> r.op \in {"keys", "power_off"}
    BY <1>0 DEF Good, Shape, KeyLabel, PairLabel, WakeLabel
  <2> HIDE DEF x, f
  <2>8. Shape(f)
    BY <2>1, <2>3 DEF Shape, KeyLabel, PairLabel, WakeLabel
  <2>9. Bounded(f)
    BY <1>0, <2>1, <2>2, <2>3, <2>5, <2>6, <2>7
       DEF Good, Bounded, Earlier, KeyLabel, PairLabel
  <2>10. Good(f)
    BY <2>2, <2>3, <2>8, <2>9 DEF Good
  <2> QED
    BY <1>2, <2>10, BecomeKeeps
<1> QED
  BY <1>1, <1>2 DEF Unreachable

LEMMA RejectedKeeps ==
    ASSUME IInv, NEW c \in Client, Rejected(c)
    PROVE  Kept
<1> DEFINE r == req[c]
           f == [r EXCEPT !.pc = "delete", !.name = 1, !.hand = None, !.left = 1]
<1>0. Good(r) /\ "delete" \in Label
  BY DEF IInv, Label
<1>1. r \in Call /\ r.asked \in 1 .. MaxKeys
  BY <1>0, Fields DEF Good
<1>2. f \in Call /\ f.pc = "delete" /\ f.asked = r.asked /\ f.left = 1 /\ f.sent = r.sent
  BY <1>0, <1>1, Values DEF Call
<1>3. Become(c, f)
  BY DEF Rejected
<1> HIDE DEF f
<1>4. Good(f)
  BY <1>0, <1>1, <1>2 DEF Good, Shape, Bounded, KeyLabel, PairLabel, WakeLabel
<1> QED
  BY <1>3, <1>4, BecomeKeeps


\* One more key or wake-up.
LEMMA SentKeeps ==
    ASSUME IInv, NEW c \in Client, NEW x,
           \/ req[c].pc = "wake" /\ x = "confirm"
           \/ req[c].pc = "write" /\ x = "ack",
           Become(c, [req[c] EXCEPT !.pc = x, !.sent = @ + 1])
    PROVE  Kept
<1> DEFINE r == req[c]
           f == [r EXCEPT !.pc = x, !.sent = @ + 1]
<1>0. Good(r) /\ r \in Call /\ x \in Label
  BY DEF IInv, Good, Label
<1>1. f \in Call /\ f.pc = x /\ f.op = r.op /\ f.asked = r.asked
      /\ f.left = r.left /\ f.attempt = r.attempt /\ f.sent = r.sent + 1
  BY <1>0, Fields DEF Call
<1>2. Become(c, f)
  OBVIOUS
<1> HIDE DEF f
<1>3. CASE r.pc = "write" /\ x = "ack"
  BY <1>0, <1>1, <1>2, <1>3, Fields, BecomeKeeps
     DEF Good, Shape, Bounded, Earlier, KeyLabel, PairLabel, WakeLabel
<1>4. CASE r.pc = "wake" /\ x = "confirm"
  BY <1>0, <1>1, <1>2, <1>4, Fields, BecomeKeeps
     DEF Good, Shape, Bounded, Earlier, KeyLabel, PairLabel, WakeLabel
<1> QED
  BY <1>3, <1>4

\* A token in hand, the same keys.
LEMMA HandKeeps ==
    ASSUME IInv, NEW c \in Client, NEW h \in Token \cup {None}, NEW x,
           \/ req[c].pc \in {"pair_dial", "pair_wait"} /\ x = "pair_save"
           \/ req[c].pc = "token" /\ x = "dial"
           \/ req[c].pc = "dial" /\ x = "save",
           Become(c, [req[c] EXCEPT !.pc = x, !.hand = h])
    PROVE  Kept
<1> DEFINE r == req[c]
           f == [r EXCEPT !.pc = x, !.hand = h]
<1>0. Good(r) /\ r \in Call /\ x \in Label
  BY DEF IInv, Good, Label
<1>1. f \in Call /\ f.pc = x /\ f.op = r.op /\ f.asked = r.asked
      /\ f.left = r.left /\ f.attempt = r.attempt /\ f.sent = r.sent
  BY <1>0 DEF Call
<1>2. Become(c, f)
  OBVIOUS
<1> HIDE DEF f
<1>3. Good(f)
  BY <1>0, <1>1 DEF Good, Shape, Bounded, Earlier, KeyLabel, PairLabel, WakeLabel
<1> QED
  BY <1>2, <1>3, BecomeKeeps

\* The next secret name.
LEMMA NameKeeps ==
    ASSUME IInv, NEW c \in Client, NextName(c)
    PROVE  Kept
<1> DEFINE r == req[c]
           f == [r EXCEPT !.name = @ + 1]
<1>0. Good(r) /\ r \in Call /\ r.name < NameCount
  BY DEF IInv, Good, NextName
<1>1. r.name + 1 \in Name
  BY <1>0, Fields, TVAssumption
<1>2. f \in Call /\ f.pc = r.pc /\ f.op = r.op /\ f.asked = r.asked
      /\ f.left = r.left /\ f.attempt = r.attempt /\ f.sent = r.sent
  BY <1>0, <1>1 DEF Call
<1>3. Become(c, f)
  BY DEF NextName
<1> HIDE DEF f
<1>4. Good(f)
  BY <1>0, <1>2 DEF Good, Shape, Bounded, Earlier
<1> QED
  BY <1>3, <1>4, BecomeKeeps

\* The key was sent: the next one, or the end.
LEMMA KeyDoneKeeps ==
    ASSUME IInv, NEW c \in Client, req[c].pc = "ack", KeyDone(c)
    PROVE  Kept
<1> DEFINE r == req[c]
           f == [r EXCEPT !.pc = "key", !.left = @ - 1, !.hand = None]
<1>0. Good(r) /\ r \in Call /\ "key" \in Label
  BY DEF IInv, Good, Label
<1>1. CASE r.left = 1
  BY <1>1, ReturnKeeps DEF KeyDone
<1>2. CASE r.left # 1
  <2>1. r.left - 1 \in 1 .. MaxKeys
    BY <1>0, <1>2, Fields, TVAssumption
  <2>2. f \in Call /\ f.pc = "key" /\ f.op = r.op /\ f.asked = r.asked
        /\ f.left = r.left - 1 /\ f.attempt = r.attempt /\ f.sent = r.sent
    BY <1>0, <2>1, Values DEF Call
  <2>3. Become(c, f)
    BY <1>2 DEF KeyDone
  <2> HIDE DEF f
  <2>4. Good(f)
    BY <1>0, <2>2, Fields DEF Good, Shape, Bounded, Earlier, KeyLabel, PairLabel, WakeLabel
  <2> QED
    BY <2>3, <2>4, BecomeKeeps
<1> QED
  BY <1>1, <1>2

-----------------------------------------------------------------------------

LEMMA InitInv == Init => IInv
<1> SUFFICES ASSUME Init PROVE IInv
  OBVIOUS
<1>1. req \in [Client -> Call] /\ \A c \in Client : Good(req[c])
  BY IdleGood DEF Init, Good
<1>2. saved \in [Name -> Token \cup {None}]
  BY DEF Init
<1>3. accepted \in Token \cup {None}
  BY <1>2 DEF Init
<1>4. row \in BOOLEAN /\ paired \in BOOLEAN /\ overlapped \in BOOLEAN /\ prompted \in BOOLEAN
  BY DEF Init
<1>5. crashes \in 0 .. MaxCrashes
  BY TVAssumption DEF Init
<1> QED
  BY <1>1, <1>2, <1>3, <1>4, <1>5 DEF IInv, TypeOK

-----------------------------------------------------------------------------
(* One lemma for each action *)

LEMMA BeginInv ==
    ASSUME IInv, NEW c \in Client, NEW op \in Operation, NEW n \in 1 .. MaxKeys, Begin(c, op, n)
    PROVE  IInv'
<1> DEFINE x == Entry[op]
           f == [Idle EXCEPT !.pc = x, !.op = op, !.asked = n, !.left = n]
<1>1. /\ x \in Label \ {"ack", "confirm"}
      /\ x \in KeyLabel => op \in {"keys", "power_off"}
      /\ x \in WakeLabel => op = "power_on"
      /\ x \in PairLabel => op = "pair"
  BY DEF Entry, Operation, Label, KeyLabel, WakeLabel, PairLabel
<1>2. Idle \in Call /\ Idle.attempt = 1 /\ Idle.sent = 0
  BY IdleGood DEF Good, Idle
<1>3. f \in Call /\ f.pc = x /\ f.op = op /\ f.asked = n
      /\ f.left = n /\ f.attempt = 1 /\ f.sent = 0
  BY <1>1, <1>2 DEF Call
<1>4. Become(c, f)
  BY DEF Begin
<1> HIDE DEF x, f
<1>5. Good(f)
  BY <1>1, <1>3 DEF Good, Shape, Bounded, Earlier
<1>6. Kept
  BY <1>4, <1>5, BecomeKeeps
<1> QED
  BY <1>6 DEF IInv, TypeOK, Kept, Begin

LEMMA FinishInv ==
    ASSUME IInv, NEW c \in Client, Finish(c)
    PROVE  IInv'
<1>1. Kept
  BY IdleGood, BecomeKeeps DEF Finish
<1>2. row' \in BOOLEAN
  BY Zenon DEF IInv, TypeOK, Finish
<1> QED
  BY <1>1, <1>2 DEF IInv, TypeOK, Kept, Finish

LEMMA ForgetInv ==
    ASSUME IInv, Forget
    PROVE  IInv'
BY DEF IInv, TypeOK, Forget

LEMMA CrashInv ==
    ASSUME IInv, Crash
    PROVE  IInv'
<1>1. Kept
  BY IdleGood DEF Crash, Kept, Good
<1>2. crashes' \in 0 .. MaxCrashes
  BY TVAssumption DEF IInv, TypeOK, Crash
<1> QED
  BY <1>1, <1>2 DEF IInv, TypeOK, Kept, Crash

LEMMA PairDialInv ==
    ASSUME IInv, NEW c \in Client, PairDial(c)
    PROVE  IInv'
<1>1. CASE /\ At(c, "pair_dial") /\ Unreachable(c) /\ UNCHANGED <<paired, accepted>>
  <2>1. Kept
    BY <1>1, UnreachableKeeps DEF At
  <2> QED
    BY <1>1, <2>1 DEF IInv, TypeOK, Kept, PairDial
<1>2. CASE Return(c, "failed") /\ UNCHANGED <<paired, accepted>>
  <2>1. Kept
    BY <1>2, ReturnKeeps
  <2> QED
    BY <1>2, <2>1 DEF IInv, TypeOK, Kept, PairDial
<1>3. CASE Tokenless(c) /\ paired' = TRUE /\ UNCHANGED accepted
  <2>1. Kept
    BY <1>3, GotoKeeps DEF PairDial, Tokenless, At, Label, KeyLabel, PairLabel, WakeLabel
  <2> QED
    BY <1>3, <2>1 DEF IInv, TypeOK, Kept, PairDial
<1>4. ASSUME NEW t \in Fresh, accepted' = t, UNCHANGED paired,
             Become(c, [req[c] EXCEPT !.pc = "pair_save", !.hand = t])
      PROVE  IInv'
  <2>1. t \in Token
    BY DEF Fresh
  <2>2. req[c].pc \in {"pair_dial", "pair_wait"}
    BY DEF PairDial, At
  <2>3. Kept
    BY <1>4, <2>1, <2>2, HandKeeps
  <2> QED
    BY <1>4, <2>1, <2>3 DEF IInv, TypeOK, Kept, PairDial
<1> QED
  BY <1>1, <1>2, <1>3, <1>4 DEF PairDial

LEMMA PairSaveInv ==
    ASSUME IInv, NEW c \in Client, PairSave(c)
    PROVE  IInv'
<1>1. req[c].hand \in Token \cup {None} /\ 1 \in Name
  BY Fields, Values DEF IInv, Good
<1>2. saved' \in [Name -> Token \cup {None}]
  BY <1>1 DEF IInv, TypeOK, PairSave
<1>3. Kept
  BY GotoKeeps, ReturnKeeps DEF PairSave, At, Label, KeyLabel, PairLabel, WakeLabel
<1> QED
  BY <1>2, <1>3 DEF IInv, TypeOK, Kept, PairSave

LEMMA PairTidyInv ==
    ASSUME IInv, NEW c \in Client, PairTidy(c)
    PROVE  IInv'
<1>1. saved' \in [Name -> Token \cup {None}]
  BY DEF IInv, TypeOK, PairTidy
<1>2. Kept
  BY ReturnKeeps DEF PairTidy
<1> QED
  BY <1>1, <1>2 DEF IInv, TypeOK, Kept, PairTidy

LEMMA DeleteSecretInv ==
    ASSUME IInv, NEW c \in Client, DeleteSecret(c)
    PROVE  IInv'
<1> DEFINE r == req[c]
           x == IF LastName(r.name) THEN "cleared" ELSE "delete"
           n == IF LastName(r.name) THEN 1 ELSE r.name + 1
           f == [r EXCEPT !.pc = x, !.name = n]
           g == [f EXCEPT !.failed = TRUE]
<1>0. Good(r) /\ r \in Call
  BY DEF IInv, Good
<1>1. x \in {"cleared", "delete"} /\ x \in Label /\ n \in Name
  BY <1>0, Fields, Values, TVAssumption DEF LastName, Label
<1>2. Become(c, f) \/ Become(c, g)
  BY DEF DeleteSecret
<1>3. saved' \in [Name -> Token \cup {None}]
  BY DEF IInv, TypeOK, DeleteSecret
<1> HIDE DEF x, n
<1>4. f \in Call /\ f.pc = x /\ f.asked = r.asked /\ f.left = r.left /\ f.sent = r.sent
  BY <1>0, <1>1 DEF Call
<1> HIDE DEF f
<1>5. g \in Call /\ g.pc = x /\ g.asked = r.asked /\ g.left = r.left /\ g.sent = r.sent
  BY <1>4, Values DEF Call
<1> HIDE DEF g
<1>6. Good(f) /\ Good(g)
  BY <1>0, <1>1, <1>4, <1>5 DEF Good, Shape, Bounded, KeyLabel, PairLabel, WakeLabel
<1>7. Kept
  BY <1>2, <1>6, BecomeKeeps
<1> QED
  BY <1>3, <1>7 DEF IInv, TypeOK, Kept, DeleteSecret

LEMMA ClearedInv ==
    ASSUME IInv, NEW c \in Client, Cleared(c)
    PROVE  IInv'
<1>1. Kept
  BY ReturnKeeps DEF Cleared
<1> QED
  BY <1>1 DEF IInv, TypeOK, Kept, Cleared

LEMMA PreflightInv ==
    ASSUME IInv, NEW c \in Client, Preflight(c)
    PROVE  IInv'
<1>1. At(c, "preflight")
  BY DEF Preflight
<1>2. Kept
  BY <1>1, GotoKeeps, UnreachableKeeps, ReturnKeeps
     DEF Preflight, At, Label, KeyLabel, PairLabel, WakeLabel
<1> QED
  BY <1>2 DEF IInv, TypeOK, Kept, Preflight, Asks

LEMMA WakeInv ==
    ASSUME IInv, NEW c \in Client, Wake(c)
    PROVE  IInv'
<1>1. Kept
  BY SentKeeps, UnreachableKeeps, ReturnKeeps DEF Wake, At
<1> QED
  BY <1>1 DEF IInv, TypeOK, Kept, Wake, Asks

LEMMA ConfirmInv ==
    ASSUME IInv, NEW c \in Client, Confirm(c)
    PROVE  IInv'
<1>1. Kept
  BY ReturnKeeps DEF Confirm, Unconfirmed
<1> QED
  BY <1>1 DEF IInv, TypeOK, Kept, Confirm, Asks

LEMMA KeyInv ==
    ASSUME IInv, NEW c \in Client, Key(c)
    PROVE  IInv'
<1>1. Kept
  BY GotoKeeps, ReturnKeeps DEF Key, At, Label, KeyLabel, PairLabel, WakeLabel
<1> QED
  BY <1>1 DEF IInv, TypeOK, Kept, Key, Asks

LEMMA CheckInv ==
    ASSUME IInv, NEW c \in Client, Check(c)
    PROVE  IInv'
<1>1. Kept
  BY GotoKeeps, NameKeeps, ReturnKeeps
     DEF Check, NoToken, At, Label, KeyLabel, PairLabel, WakeLabel
<1> QED
  BY <1>1 DEF IInv, TypeOK, Kept, Check, NoToken

LEMMA ReadTokenInv ==
    ASSUME IInv, NEW c \in Client, ReadToken(c)
    PROVE  IInv'
<1>1. saved[req[c].name] \in Token \cup {None}
  BY Fields DEF IInv, TypeOK, Good
<1>2. Kept
  BY <1>1, NameKeeps, HandKeeps DEF ReadToken, At
<1> QED
  BY <1>2 DEF IInv, TypeOK, Kept, ReadToken, Asks

LEMMA DialInv ==
    ASSUME IInv, NEW c \in Client, Dial(c)
    PROVE  IInv'
<1>1. req[c].pc = "dial"
  BY DEF Dial, At
<1>2. CASE Unreachable(c) /\ UNCHANGED accepted
  BY <1>1, <1>2, UnreachableKeeps DEF IInv, TypeOK, Kept, Dial, Asks, KeyLabel
<1>3. CASE Return(c, "failed") /\ UNCHANGED accepted
  BY <1>3, ReturnKeeps DEF IInv, TypeOK, Kept, Dial, Asks
<1>4. CASE Rejected(c) /\ UNCHANGED accepted
  BY <1>4, RejectedKeeps DEF IInv, TypeOK, Kept, Dial, Asks
<1>5. CASE Confirmed(c)
  <2>1. Kept /\ accepted' \in Token \cup {None}
    <3>1. CASE Goto(c, "write") /\ UNCHANGED accepted
      BY <1>1, <3>1, GotoKeeps DEF IInv, TypeOK, Label, KeyLabel, PairLabel, WakeLabel
    <3>2. CASE Goto(c, "save") /\ UNCHANGED accepted
      BY <1>1, <3>2, GotoKeeps DEF IInv, TypeOK, Label, KeyLabel, PairLabel, WakeLabel
    <3>3. ASSUME NEW t \in Fresh, accepted' = t,
                 Become(c, [req[c] EXCEPT !.pc = "save", !.hand = t])
          PROVE  Kept /\ accepted' \in Token \cup {None}
      <4>1. t \in Token
        BY DEF Fresh
      <4> QED
        BY <1>1, <3>3, <4>1, HandKeeps
    <3> QED
      BY <1>5, <3>1, <3>2, <3>3 DEF Confirmed
  <2> QED
    BY <2>1 DEF IInv, TypeOK, Kept, Dial, Asks
<1> QED
  BY <1>2, <1>3, <1>4, <1>5 DEF Dial

LEMMA SaveRefreshedInv ==
    ASSUME IInv, NEW c \in Client, SaveRefreshed(c)
    PROVE  IInv'
<1>1. req[c].hand \in Token \cup {None} /\ 1 \in Name
  BY Fields, Values DEF IInv, Good
<1>2. saved' \in [Name -> Token \cup {None}]
  BY <1>1 DEF IInv, TypeOK, SaveRefreshed
<1>3. Kept
  BY GotoKeeps, ReturnKeeps DEF SaveRefreshed, At, Label, KeyLabel, PairLabel, WakeLabel
<1> QED
  BY <1>2, <1>3 DEF IInv, TypeOK, Kept, SaveRefreshed

LEMMA WriteInv ==
    ASSUME IInv, NEW c \in Client, Write(c)
    PROVE  IInv'
<1>1. Kept
  BY SentKeeps, UnreachableKeeps, ReturnKeeps DEF Write, At, KeyLabel
<1> QED
  BY <1>1 DEF IInv, TypeOK, Kept, Write, Asks

LEMMA AcknowledgeInv ==
    ASSUME IInv, NEW c \in Client, Acknowledge(c)
    PROVE  IInv'
<1>1. Kept
  BY KeyDoneKeeps, RejectedKeeps DEF Acknowledge, Silence, At
<1> QED
  BY <1>1 DEF IInv, TypeOK, Kept, Acknowledge, Asks

-----------------------------------------------------------------------------
(* The theorems *)

LEMMA NextInv == IInv /\ [Next]_vars => IInv'
<1> SUFFICES ASSUME IInv, [Next]_vars PROVE IInv'
  OBVIOUS
<1>1. CASE UNCHANGED vars
  BY <1>1 DEF IInv, TypeOK, vars
<1>2. CASE Forget
  BY <1>2, ForgetInv
<1>3. CASE Crash
  BY <1>3, CrashInv
<1>4. ASSUME NEW c \in Client, Step(c) PROVE IInv'
  <2>1. CASE \E op \in Operation, n \in 1 .. MaxKeys : Begin(c, op, n)
    BY <2>1, BeginInv
  <2>2. CASE Finish(c) \/ PairDial(c) \/ PairSave(c) \/ PairTidy(c)
    BY <2>2, FinishInv, PairDialInv, PairSaveInv, PairTidyInv
  <2>3. CASE DeleteSecret(c) \/ Cleared(c) \/ Preflight(c) \/ Wake(c) \/ Confirm(c)
    BY <2>3, DeleteSecretInv, ClearedInv, PreflightInv, WakeInv, ConfirmInv
  <2>4. CASE Key(c) \/ Check(c) \/ ReadToken(c) \/ Dial(c)
    BY <2>4, KeyInv, CheckInv, ReadTokenInv, DialInv
  <2>5. CASE SaveRefreshed(c) \/ Write(c) \/ Acknowledge(c)
    BY <2>5, SaveRefreshedInv, WriteInv, AcknowledgeInv
  <2> QED
    BY <1>4, <2>1, <2>2, <2>3, <2>4, <2>5 DEF Step
<1> QED
  BY <1>1, <1>2, <1>3, <1>4 DEF Next

\* What the two theorems need: a request knows its operation at every label,
\* and what it has sent fits the keys it has left.
THEOREM InvariantHolds == Spec => []IInv
BY InitInv, NextInv, PTL DEF Spec

\* The adapter, the secrets, the TV and every request keep their types.
THEOREM TypeCorrect == Spec => []TypeOK
<1>1. IInv => TypeOK
  BY DEF IInv
<1> QED
  BY <1>1, InvariantHolds, PTL

\* However the requests interleave and whatever fails, a command of n keys
\* sends fewer than 2n, so that one key, one power toggle and one wake-up are
\* never sent twice (Manager.Execute 949-959).
THEOREM DeliveryIsBounded == Spec => []DeliveryBound
<1>1. IInv => DeliveryBound
  BY DEF IInv, Good, Bounded, DeliveryBound
<1> QED
  BY <1>1, InvariantHolds, PTL

-----------------------------------------------------------------------------
(* Requests that do not overlap *)

\* No name before n holds a token.
NoneBelow(n) == \A m \in Name : m < n => saved[m] = None

\* The token under n is the one a command would find.
First(n) == saved[n] # None /\ NoneBelow(n)

\* A saved token that the TV accepts is the one a command would find.
Honoured == \A n \in Name : accepted # None /\ saved[n] = accepted => NoneBelow(n)

\* A request on its way, as long as it is alone: which token it has in hand,
\* and what it has left of the others.
Underway(r) ==
    /\ r.pc = "check" => NoneBelow(r.name)
    /\ r.pc = "token" => NoneBelow(r.name) /\ \E n \in Name : saved[n] # None
    /\ r.pc \in {"dial", "write", "ack"} => \E n \in Name : First(n) /\ saved[n] = r.hand
    /\ r.pc \in {"save", "pair_save", "pair_tidy"} => r.hand # None /\ accepted \in {r.hand, None}
    /\ r.pc = "pair_save" => \A n \in Name : saved[n] # r.hand
    /\ r.pc = "pair_tidy" => saved[1] = r.hand
    /\ r.pc \in {"delete", "cleared"} /\ r.op # "unpair" =>
          accepted = None \/ \A n \in Name : saved[n] # accepted
    /\ r.pc = "delete" /\ ~r.failed => NoneBelow(r.name)
    /\ r.pc = "cleared" /\ ~r.failed => \A n \in Name : saved[n] = None
    /\ r.pc = "finish" /\ r.op = "pair" /\ r.outcome = "ok" =>
          paired /\ r.hand # None /\ saved[1] = r.hand
    /\ r.pc = "finish" /\ r.op = "unpair" /\ r.outcome = "ok" =>
          ~paired /\ \A n \in Name : saved[n] = None

\* Requests that do not overlap: one at a time, and the token that the TV
\* honours is the one that a command would find.
Alone ==
    /\ ~prompted
    /\ \A c, d \in Client : ~At(c, "idle") /\ ~At(d, "idle") => c = d
    /\ Honoured
    /\ \A c \in Client : Underway(req[c])

AInv == IInv /\ (~overlapped => Alone)

\* A request at a label of which nothing more need be known.
Plain(r) ==
    /\ r.pc \in {"idle", "finish", "key", "preflight", "wake", "confirm", "pair_dial", "pair_wait"}
    /\ r.pc = "finish" => r.outcome # "ok" \/ r.op \notin {"pair", "unpair"}

-----------------------------------------------------------------------------
(* The token that is found *)

\* Saved, for any contents s of the secret store.
FirstIn(s) ==
    IF \E n \in Name : s[n] # None
    THEN s[CHOOSE n \in Name : s[n] # None /\ \A m \in Name : m < n => s[m] = None]
    ELSE None

LEMMA SavedIsFirstIn == Saved = FirstIn(saved) /\ Saved' = FirstIn(saved')
BY DEF Saved, FirstIn

LEMMA LeastName ==
    ASSUME NEW S \in SUBSET Name, S # {}
    PROVE  \E n \in S : \A m \in S : n <= m
<1> DEFINE R == {p \in Nat \X Nat : p[1] < p[2]}
<1>1. IsWellFoundedOn(R, Nat)
  BY NatLessThanWellFounded DEF OpToRel
<1>2. \A m, n \in Nat : <<m, n>> \in R <=> m < n
  OBVIOUS
<1>3. S \subseteq Nat
  BY TVAssumption
<1> HIDE DEF R
<1>4. PICK n \in S : \A m \in S : <<m, n>> \notin R
  BY <1>1, <1>3, WFMin
<1>5. \A m \in S : ~(m < n)
  BY <1>2, <1>3, <1>4
<1> QED
  BY <1>3, <1>5

\* The first name that holds a token is what Saved finds, and there is one
\* unless all are empty.
LEMMA FirstFound ==
    ASSUME NEW s, NEW n \in Name, s[n] # None, \A m \in Name : m < n => s[m] = None
    PROVE  FirstIn(s) = s[n]
<1> DEFINE P(k) == s[k] # None /\ \A m \in Name : m < k => s[m] = None
           k == CHOOSE i \in Name : P(i)
<1>1. k \in Name /\ P(k)
  <2>1. \E i \in Name : P(i)
    OBVIOUS
  <2> QED
    BY <2>1
<1>2. n \in Nat /\ k \in Nat
  BY <1>1, TVAssumption
<1>3. k = n
  <2>1. ~(k < n) /\ ~(n < k)
    BY <1>1
  <2> HIDE DEF k, P
  <2> QED
    BY <1>2, <2>1
<1>4. FirstIn(s) = s[k]
  BY DEF FirstIn
<1> QED
  BY <1>3, <1>4

LEMMA FirstExists ==
    ASSUME NEW s, FirstIn(s) # None \/ \E n \in Name : s[n] # None
    PROVE  \E n \in Name : /\ s[n] # None /\ s[n] = FirstIn(s)
                           /\ \A m \in Name : m < n => s[m] = None
<1> DEFINE S == {n \in Name : s[n] # None}
<1>1. S # {}
  BY DEF FirstIn
<1>2. PICK n \in S : \A m \in S : n <= m
  BY <1>1, LeastName
<1>3. \A m \in Name : m < n => s[m] = None
  <2>1. \A m \in Name : m < n => ~(n <= m)
    BY TVAssumption
  <2> QED
    BY <1>2, <2>1
<1> QED
  BY <1>3, FirstFound

LEMMA NothingFound ==
    ASSUME NEW s, \A n \in Name : s[n] = None
    PROVE  FirstIn(s) = None
BY DEF FirstIn

-----------------------------------------------------------------------------
(* Steps of a request that is alone *)

LEMMA Turn ==
    ASSUME IInv, Alone, NEW c \in Client, ~At(c, "idle"), NEW f, Become(c, f)
    PROVE  /\ req'[c] = f
           /\ \A d \in Client \ {c} : req'[d] = req[d] /\ req'[d].pc = "idle"
BY DEF IInv, TypeOK, Alone, At, Become

LEMMA Onward ==
    ASSUME IInv, Alone, NEW c \in Client, ~At(c, "idle"), NEW f, Become(c, f),
           ~prompted', Honoured', Underway(req[c])'
    PROVE  Alone'
<1>1. \A d \in Client \ {c} : req'[d].pc = "idle"
  BY Turn
<1>2. \A d \in Client \ {c} : Underway(req[d])'
  BY <1>1 DEF Underway
<1> QED
  BY <1>1, <1>2 DEF Alone, At

LEMMA PlainOnward ==
    ASSUME IInv, Alone, NEW c \in Client, ~At(c, "idle"), NEW f, Become(c, f), Plain(f),
           UNCHANGED <<saved, accepted, prompted>>
    PROVE  Alone'
<1>1. req'[c] = f
  BY Turn
<1>2. Underway(req[c])'
  BY <1>1 DEF Plain, Underway
<1>3. ~prompted' /\ Honoured'
  BY DEF Alone, Honoured, NoneBelow
<1> QED
  BY <1>2, <1>3, Onward

LEMMA GotoField ==
    ASSUME IInv, NEW c \in Client, NEW x, Goto(c, x)
    PROVE  \E f : /\ Become(c, f) /\ f.pc = x /\ f.name = 1
                  /\ f.op = req[c].op /\ f.hand = req[c].hand /\ f.failed = req[c].failed
<1> DEFINE f == [req[c] EXCEPT !.pc = x, !.name = 1]
<1>1. req[c] \in Call
  BY DEF IInv, TypeOK
<1>2. /\ f.pc = x /\ f.name = 1 /\ f.op = req[c].op /\ f.hand = req[c].hand
      /\ f.failed = req[c].failed
  BY <1>1 DEF Call
<1>3. Become(c, f)
  BY DEF Goto
<1> QED
  BY <1>2, <1>3

LEMMA ReturnField ==
    ASSUME NEW c \in Client, NEW u, Return(c, u)
    PROVE  \E f : /\ Become(c, f) /\ f.pc = "finish" /\ f.op = req[c].op
                  /\ f.hand = req[c].hand /\ f.outcome = u
<1> DEFINE f == [Idle EXCEPT !.pc = "finish", !.op = req[c].op, !.asked = req[c].asked,
                             !.sent = req[c].sent, !.hand = req[c].hand, !.outcome = u]
<1>1. /\ f.pc = "finish" /\ f.op = req[c].op /\ f.hand = req[c].hand /\ f.outcome = u
  BY DEF Idle
<1>2. Become(c, f)
  BY DEF Return
<1> HIDE DEF f
<1> QED
  BY <1>1, <1>2

LEMMA ReturnPlain ==
    ASSUME NEW c \in Client, NEW u, Return(c, u),
           u # "ok" \/ req[c].op \notin {"pair", "unpair"}
    PROVE  \E f : Become(c, f) /\ Plain(f)
BY ReturnField DEF Plain

LEMMA UnreachablePlain ==
    ASSUME IInv, NEW c \in Client, Unreachable(c),
           req[c].pc \in (KeyLabel \ {"ack"}) \cup {"pair_dial", "wake"}
    PROVE  \E f : Become(c, f) /\ Plain(f)
<1>1. CASE Return(c, "failed")
  BY <1>1, ReturnPlain
<1>2. CASE Become(c, [req[c] EXCEPT !.pc = Entry[req[c].op], !.attempt = 2,
                                    !.left = req[c].asked, !.hand = None])
  <2> DEFINE f == [req[c] EXCEPT !.pc = Entry[req[c].op], !.attempt = 2,
                                 !.left = req[c].asked, !.hand = None]
  <2>1. req[c] \in Call /\ Shape(req[c])
    BY DEF IInv, TypeOK, Good
  <2>2. Entry[req[c].op] \in {"key", "preflight", "wake", "pair_dial"}
    BY <2>1 DEF Shape, Entry, KeyLabel, PairLabel, WakeLabel
  <2>3. f.pc = Entry[req[c].op]
    BY <2>1 DEF Call
  <2>4. Plain(f)
    BY <2>2, <2>3 DEF Plain
  <2> QED
    BY <1>2, <2>4
<1> QED
  BY <1>1, <1>2 DEF Unreachable

\* What a request that does not overlap another needs of the secret store,
\* each action in turn.  A secret that cannot be read is outside of this.
LEMMA BeginAlone ==
    ASSUME IInv, Alone, ~overlapped', NEW c \in Client, NEW op \in Operation,
           NEW n \in 1 .. MaxKeys, Begin(c, op, n)
    PROVE  Alone'
<1> DEFINE f == [Idle EXCEPT !.pc = Entry[op], !.op = op, !.asked = n, !.left = n]
<1>1. /\ f.pc = Entry[op] /\ f.op = op /\ f.name = 1
      /\ Entry[op] \in {"pair_dial", "delete", "key", "preflight", "wake"}
      /\ Entry[op] = "delete" => op = "unpair"
  BY DEF Idle, Entry, Operation
<1>2. /\ req' = [req EXCEPT ![c] = f] /\ \A d \in Client \ {c} : req[d].pc = "idle"
      /\ UNCHANGED <<saved, accepted, prompted>>
  BY DEF Begin, Become, At
<1> HIDE DEF f
<1>3. req'[c] = f /\ \A d \in Client \ {c} : req'[d].pc = "idle"
  BY <1>2 DEF IInv, TypeOK
<1>4. NoneBelow(1)'
  BY TVAssumption DEF NoneBelow
<1>5. Underway(req[c])'
  BY <1>1, <1>3, <1>4 DEF Underway
<1>6. \A d \in Client \ {c} : Underway(req[d])'
  BY <1>3 DEF Underway
<1>7. ~prompted' /\ Honoured'
  BY <1>2 DEF Alone, Honoured, NoneBelow
<1> QED
  BY <1>3, <1>5, <1>6, <1>7 DEF Alone, At

LEMMA FinishAlone ==
    ASSUME IInv, Alone, NEW c \in Client, Finish(c)
    PROVE  Alone'
<1>1. ~At(c, "idle") /\ Become(c, Idle) /\ UNCHANGED <<saved, accepted, prompted>>
  BY DEF Finish, At
<1>2. Plain(Idle)
  BY DEF Idle, Plain
<1> QED
  BY <1>1, <1>2, PlainOnward

LEMMA ForgetAlone ==
    ASSUME IInv, Alone, Forget
    PROVE  Alone'
<1>1. accepted' = None /\ UNCHANGED <<paired, saved, req, prompted>>
  BY DEF Forget
<1> QED
  BY <1>1 DEF Alone, At, Honoured, Underway, NoneBelow, First

LEMMA CrashAlone ==
    ASSUME IInv, Alone, Crash
    PROVE  Alone'
<1>1. /\ UNCHANGED <<saved, accepted, prompted>>
      /\ \A d \in Client : req'[d] = Idle
  BY DEF Crash
<1>2. \A d \in Client : req'[d].pc = "idle"
  BY <1>1 DEF Idle
<1>3. \A d \in Client : Underway(req[d])'
  BY <1>2 DEF Underway
<1>4. ~prompted' /\ Honoured'
  BY <1>1 DEF Alone, Honoured, NoneBelow
<1> QED
  BY <1>2, <1>3, <1>4 DEF Alone, At

LEMMA PairDialAlone ==
    ASSUME IInv, Alone, NEW c \in Client, PairDial(c)
    PROVE  Alone'
<1>1. /\ ~At(c, "idle") /\ req[c].op = "pair"
      /\ UNCHANGED <<saved, prompted>>
  BY DEF PairDial, At, IInv, Good, Shape, PairLabel
<1>2. CASE At(c, "pair_dial") /\ Unreachable(c) /\ UNCHANGED accepted
  <2>1. PICK f : Become(c, f) /\ Plain(f)
    BY <1>2, UnreachablePlain DEF At
  <2> QED
    BY <1>1, <1>2, <2>1, PlainOnward
<1>3. CASE Return(c, "failed") /\ UNCHANGED accepted
  <2>1. PICK f : Become(c, f) /\ Plain(f)
    BY <1>3, ReturnPlain
  <2> QED
    BY <1>1, <1>3, <2>1, PlainOnward
<1>4. CASE Tokenless(c) /\ UNCHANGED accepted
  <2>1. PICK f : Become(c, f) /\ f.pc = "pair_wait"
    BY <1>4, GotoField DEF Tokenless
  <2> QED
    BY <1>1, <1>4, <2>1, PlainOnward DEF Plain
<1>5. ASSUME NEW t \in Fresh, accepted' = t,
             Become(c, [req[c] EXCEPT !.pc = "pair_save", !.hand = t])
      PROVE  Alone'
  <2> DEFINE f == [req[c] EXCEPT !.pc = "pair_save", !.hand = t]
  <2>1. f.pc = "pair_save" /\ f.hand = t
    BY DEF IInv, TypeOK, Call
  <2>2. Become(c, f)
    BY <1>5
  <2> HIDE DEF f
  <2>3. req'[c] = f
    BY <1>1, <2>2, Turn
  <2>4. t # None /\ \A n \in Name : saved'[n] # t
    BY <1>1, TVAssumption DEF Fresh
  <2>5. Underway(req[c])'
    BY <1>5, <2>1, <2>3, <2>4 DEF Underway
  <2>6. ~prompted' /\ Honoured'
    BY <1>1, <1>5, <2>4 DEF Alone, Honoured
  <2> QED
    BY <1>1, <2>2, <2>5, <2>6, Onward
<1> QED
  BY <1>2, <1>3, <1>4, <1>5 DEF PairDial

LEMMA PairSaveAlone ==
    ASSUME IInv, Alone, NEW c \in Client, PairSave(c)
    PROVE  Alone'
<1>1. ~At(c, "idle") /\ UNCHANGED <<accepted, prompted>>
  BY DEF PairSave, At
<1>2. CASE UNCHANGED saved /\ Return(c, "failed")
  <2>1. PICK f : Become(c, f) /\ Plain(f)
    BY <1>2, ReturnPlain
  <2> QED
    BY <1>1, <1>2, <2>1, PlainOnward
<1>3. CASE saved' = [saved EXCEPT ![1] = req[c].hand] /\ Goto(c, "pair_tidy")
  <2>1. PICK f : Become(c, f) /\ f.pc = "pair_tidy" /\ f.hand = req[c].hand
    BY <1>3, GotoField
  <2>2. req'[c] = f
    BY <1>1, <2>1, Turn
  <2>3. /\ req[c].hand # None /\ accepted \in {req[c].hand, None}
        /\ \A n \in Name : saved[n] # req[c].hand
    BY DEF PairSave, At, Alone, Underway
  <2>4. /\ 1 \in Name /\ saved'[1] = req[c].hand
        /\ \A n \in Name \ {1} : saved'[n] = saved[n]
    BY <1>3, Values DEF IInv, TypeOK
  <2>5. Underway(req[c])'
    BY <1>1, <2>1, <2>2, <2>3, <2>4 DEF Underway
  <2>6. Honoured'
    <3>1. NoneBelow(1)'
      BY TVAssumption DEF NoneBelow
    <3> QED
      BY <1>1, <2>3, <2>4, <3>1 DEF Honoured
  <2> QED
    BY <1>1, <2>1, <2>5, <2>6, Onward DEF Alone
<1> QED
  BY <1>2, <1>3 DEF PairSave

LEMMA PairTidyAlone ==
    ASSUME IInv, Alone, NEW c \in Client, PairTidy(c)
    PROVE  Alone'
<1>1. ~At(c, "idle") /\ paired' = TRUE /\ UNCHANGED <<accepted, prompted>> /\ req[c].op = "pair"
  BY DEF PairTidy, At, IInv, Good, Shape, PairLabel
<1>2. PICK f : /\ Become(c, f) /\ f.pc = "finish" /\ f.op = "pair"
               /\ f.hand = req[c].hand
  BY <1>1, ReturnField DEF PairTidy
<1>3. req'[c] = f
  BY <1>1, <1>2, Turn
<1>4. req[c].hand # None /\ saved[1] = req[c].hand
  BY DEF PairTidy, At, Alone, Underway
<1>5. /\ saved'[1] = saved[1]
      /\ \A n \in Name : saved'[n] = saved[n] \/ saved'[n] = None
  BY TVAssumption DEF PairTidy, IInv, TypeOK
<1>6. Underway(req[c])'
  BY <1>1, <1>2, <1>3, <1>4, <1>5 DEF Underway
<1>7. Honoured'
  BY <1>1, <1>5 DEF Alone, Honoured, NoneBelow
<1> QED
  BY <1>1, <1>2, <1>6, <1>7, Onward DEF Alone

LEMMA DeleteSecretAlone ==
    ASSUME IInv, Alone, NEW c \in Client, DeleteSecret(c)
    PROVE  Alone'
<1> DEFINE r == req[c]
<1>1. r.pc = "delete" /\ ~At(c, "idle") /\ UNCHANGED <<accepted, prompted>>
  BY DEF DeleteSecret, At
<1>2. r \in Call /\ r.name \in Name
  BY DEF IInv, TypeOK, Call
<1>3. PICK f : /\ Become(c, f) /\ f.op = r.op
               /\ f.pc = IF r.name = NameCount THEN "cleared" ELSE "delete"
               /\ f.name = IF r.name = NameCount THEN 1 ELSE r.name + 1
               /\ f.failed \/ (~r.failed /\ saved' = [saved EXCEPT ![r.name] = None])
               /\ saved' = saved \/ saved' = [saved EXCEPT ![r.name] = None]
  <2> DEFINE next == [r EXCEPT !.pc = IF r.name = NameCount THEN "cleared" ELSE "delete",
                               !.name = IF r.name = NameCount THEN 1 ELSE r.name + 1]
             bad == [next EXCEPT !.failed = TRUE]
  <2>1. \/ saved' = [saved EXCEPT ![r.name] = None] /\ Become(c, next)
        \/ saved' = saved /\ Become(c, bad)
    BY DEF DeleteSecret, LastName
  <2>2. /\ next.op = r.op /\ next.failed = r.failed
        /\ next.pc = IF r.name = NameCount THEN "cleared" ELSE "delete"
        /\ next.name = IF r.name = NameCount THEN 1 ELSE r.name + 1
    BY <1>2 DEF Call
  <2>3. /\ bad.op = next.op /\ bad.failed = TRUE /\ bad.pc = next.pc /\ bad.name = next.name
    BY <1>2 DEF Call
  <2> HIDE DEF next, bad
  <2>4. CASE saved' = [saved EXCEPT ![r.name] = None] /\ Become(c, next)
    BY <1>2, <2>2, <2>4 DEF Call
  <2>5. CASE saved' = saved /\ Become(c, bad)
    BY <2>2, <2>3, <2>5
  <2> QED
    BY <2>1, <2>4, <2>5
<1>4. req'[c] = f
  BY <1>1, <1>3, Turn
<1>5. \A n \in Name : saved'[n] = saved[n] \/ saved'[n] = None
  BY <1>3 DEF IInv, TypeOK
<1>6. r.op # "unpair" => accepted = None \/ \A n \in Name : saved[n] # accepted
  BY <1>1 DEF Alone, Underway
<1>7. ASSUME ~f.failed
      PROVE  IF r.name = NameCount THEN \A n \in Name : saved'[n] = None ELSE NoneBelow(f.name)'
  <2>1. NoneBelow(r.name) /\ saved' = [saved EXCEPT ![r.name] = None]
    BY <1>1, <1>3, <1>7 DEF Alone, Underway
  <2>2. saved'[r.name] = None /\ \A n \in Name : n < r.name => saved'[n] = None
    BY <1>2, <1>5, <2>1 DEF NoneBelow, IInv, TypeOK
  <2>3. \A n \in Name : n < r.name + 1 => n = r.name \/ n < r.name
    BY <1>2, TVAssumption
  <2> QED
    BY <1>2, <1>3, <2>2, <2>3, TVAssumption DEF NoneBelow
<1>8. Underway(req[c])'
  BY <1>1, <1>3, <1>4, <1>5, <1>6, <1>7 DEF Underway
<1>9. Honoured'
  BY <1>1, <1>5 DEF Alone, Honoured, NoneBelow
<1> QED
  BY <1>1, <1>3, <1>8, <1>9, Onward DEF Alone

LEMMA ClearedAlone ==
    ASSUME IInv, Alone, NEW c \in Client, Cleared(c)
    PROVE  Alone'
<1> DEFINE u == IF req[c].op = "unpair" /\ ~req[c].failed THEN "ok" ELSE "failed"
<1>1. /\ ~At(c, "idle") /\ req[c].pc = "cleared" /\ paired' = FALSE
      /\ UNCHANGED <<saved, accepted, prompted>> /\ Return(c, u)
  BY DEF Cleared, At
<1>2. PICK f : Become(c, f) /\ f.pc = "finish" /\ f.op = req[c].op /\ f.outcome = u
  BY <1>1, ReturnField
<1>3. req'[c] = f
  BY <1>1, <1>2, Turn
<1>4. ~req[c].failed => \A n \in Name : saved[n] = None
  BY <1>1 DEF Alone, Underway
<1>5. Underway(req[c])'
  BY <1>1, <1>2, <1>3, <1>4 DEF Underway
<1>6. ~prompted' /\ Honoured'
  BY <1>1 DEF Alone, Honoured, NoneBelow
<1> QED
  BY <1>1, <1>2, <1>5, <1>6, Onward

LEMMA PreflightAlone ==
    ASSUME IInv, Alone, NEW c \in Client, Preflight(c) \/ Wake(c) \/ Confirm(c)
    PROVE  Alone'
<1>1. /\ ~At(c, "idle") /\ UNCHANGED <<saved, accepted, prompted>>
      /\ req[c].pc \in {"preflight", "wake", "confirm"}
  BY DEF Preflight, Wake, Confirm, At, Asks
<1>2. req[c].op \notin {"pair", "unpair"}
  BY <1>1 DEF IInv, Good, Shape, KeyLabel, WakeLabel
<1>3. \E f : Become(c, f) /\ Plain(f)
  <2>1. CASE Goto(c, "key")
    BY <2>1, GotoField DEF Plain
  <2>2. CASE Return(c, "failed") \/ Return(c, "ok")
    BY <1>2, <2>2, ReturnPlain
  <2>3. CASE Unreachable(c) /\ req[c].pc # "confirm"
    BY <1>1, <2>3, UnreachablePlain DEF KeyLabel
  <2>4. CASE Become(c, [req[c] EXCEPT !.pc = "confirm", !.sent = @ + 1])
    <3> DEFINE f == [req[c] EXCEPT !.pc = "confirm", !.sent = @ + 1]
    <3>1. f.pc = "confirm"
      BY DEF IInv, TypeOK, Call
    <3> QED
      BY <2>4, <3>1 DEF Plain
  <2> QED
    BY <2>1, <2>2, <2>3, <2>4 DEF Preflight, Wake, Confirm, Unconfirmed, At
<1> QED
  BY <1>1, <1>3, PlainOnward

LEMMA KeyAlone ==
    ASSUME IInv, Alone, NEW c \in Client, Key(c)
    PROVE  Alone'
<1>1. ~At(c, "idle") /\ UNCHANGED <<saved, accepted, prompted>>
  BY DEF Key, At, Asks
<1>2. CASE Return(c, "failed")
  <2>1. PICK f : Become(c, f) /\ Plain(f)
    BY <1>2, ReturnPlain
  <2> QED
    BY <1>1, <2>1, PlainOnward
<1>3. CASE Goto(c, "check")
  <2>1. PICK f : Become(c, f) /\ f.pc = "check" /\ f.name = 1
    BY <1>3, GotoField
  <2>2. req'[c] = f /\ NoneBelow(1)'
    BY <1>1, <2>1, Turn, TVAssumption DEF NoneBelow
  <2>3. Underway(req[c])'
    BY <2>1, <2>2 DEF Underway
  <2>4. ~prompted' /\ Honoured'
    BY <1>1 DEF Alone, Honoured, NoneBelow
  <2> QED
    BY <1>1, <2>1, <2>3, <2>4, Onward
<1> QED
  BY <1>2, <1>3 DEF Key

\* The next name, after one that holds nothing.
LEMMA NextNameAlone ==
    ASSUME IInv, Alone, NEW c \in Client, req[c].pc \in {"check", "token"}, NextName(c),
           saved[req[c].name] = None, UNCHANGED <<saved, accepted, prompted>>
    PROVE  Alone'
<1>0. ~At(c, "idle") /\ req[c].name \in Name
  BY DEF At, IInv, TypeOK, Call
<1>1. PICK f : Become(c, f) /\ f.pc = req[c].pc /\ f.name = req[c].name + 1
  <2> DEFINE f == [req[c] EXCEPT !.name = @ + 1]
  <2>1. Become(c, f) /\ f.pc = req[c].pc /\ f.name = req[c].name + 1
    BY DEF NextName, IInv, TypeOK, Call
  <2> QED
    BY <2>1
<1>2. req'[c] = f
  BY <1>0, <1>1, Turn
<1>3. NoneBelow(f.name)'
  <2>1. \A n \in Name : n < req[c].name + 1 => n = req[c].name \/ n < req[c].name
    BY <1>0, TVAssumption
  <2>2. NoneBelow(req[c].name)
    BY DEF Alone, Underway
  <2> QED
    BY <1>1, <2>1, <2>2 DEF NoneBelow
<1>4. Underway(req[c])'
  <2>1. req[c].pc = "token" => \E n \in Name : saved[n] # None
    BY DEF Alone, Underway
  <2> QED
    BY <1>1, <1>2, <1>3, <2>1 DEF Underway
<1>5. ~prompted' /\ Honoured'
  BY DEF Alone, Honoured, NoneBelow
<1> QED
  BY <1>0, <1>1, <1>4, <1>5, Onward

LEMMA CheckAlone ==
    ASSUME IInv, Alone, "read" \notin Fault, NEW c \in Client, Check(c)
    PROVE  Alone'
<1>1. /\ ~At(c, "idle") /\ UNCHANGED <<saved, accepted, prompted>> /\ req[c].pc = "check"
      /\ req[c].name \in Name
  BY DEF Check, At, IInv, TypeOK, Call
<1>2. CASE saved[req[c].name] # None /\ Goto(c, "token")
  <2>1. PICK f : Become(c, f) /\ f.pc = "token" /\ f.name = 1
    BY <1>2, GotoField
  <2>2. req'[c] = f /\ NoneBelow(1)'
    BY <1>1, <2>1, Turn, TVAssumption DEF NoneBelow
  <2>3. Underway(req[c])'
    BY <1>1, <1>2, <2>1, <2>2 DEF Underway
  <2>4. ~prompted' /\ Honoured'
    BY <1>1 DEF Alone, Honoured, NoneBelow
  <2> QED
    BY <1>1, <2>1, <2>3, <2>4, Onward
<1>3. CASE NotFound(req[c].name) /\ NextName(c)
  BY <1>1, <1>3, NextNameAlone DEF NotFound
<1>4. CASE NoToken(c)
  <2>1. PICK f : Become(c, f) /\ Plain(f)
    BY <1>4, ReturnPlain DEF NoToken
  <2> QED
    BY <1>1, <2>1, PlainOnward
<1> QED
  BY <1>2, <1>3, <1>4 DEF Check

LEMMA ReadTokenAlone ==
    ASSUME IInv, Alone, "read" \notin Fault, NEW c \in Client, ReadToken(c)
    PROVE  Alone'
<1> DEFINE t == saved[req[c].name]
<1>1. /\ ~At(c, "idle") /\ UNCHANGED <<saved, accepted, prompted>> /\ req[c].pc = "token"
      /\ req[c].name \in Name
  BY DEF ReadToken, At, Asks, IInv, TypeOK, Call
<1>2. CASE NotFound(req[c].name) /\ NextName(c)
  BY <1>1, <1>2, NextNameAlone DEF NotFound
<1>3. CASE t # None /\ Become(c, [req[c] EXCEPT !.pc = "dial", !.hand = t])
  <2> DEFINE f == [req[c] EXCEPT !.pc = "dial", !.hand = t]
  <2>1. f.pc = "dial" /\ f.hand = t
    BY DEF IInv, TypeOK, Call
  <2>2. Become(c, f)
    BY <1>3
  <2> HIDE DEF f
  <2>3. req'[c] = f
    BY <1>1, <2>2, Turn
  <2>4. NoneBelow(req[c].name)
    BY <1>1 DEF Alone, Underway
  <2>5. Underway(req[c])'
    BY <1>1, <1>3, <2>1, <2>3, <2>4 DEF Underway, First, NoneBelow
  <2>6. ~prompted' /\ Honoured'
    BY <1>1 DEF Alone, Honoured, NoneBelow
  <2> QED
    BY <1>1, <2>2, <2>5, <2>6, Onward
<1>4. CASE NotFound(req[c].name) /\ req[c].name = NameCount
  <2>1. saved[NameCount] = None /\ NoneBelow(NameCount) /\ \E n \in Name : saved[n] # None
    BY <1>1, <1>4 DEF NotFound, Alone, Underway
  <2>2. \A n \in Name : n = NameCount \/ n < NameCount
    BY TVAssumption
  <2> QED
    BY <2>1, <2>2 DEF NoneBelow
<1> QED
  BY <1>2, <1>3, <1>4 DEF ReadToken

\* The TV refuses the token that was found: none of those it accepts is saved.
LEMMA RejectedAlone ==
    ASSUME IInv, Alone, NEW c \in Client, req[c].pc \in {"dial", "ack"}, Rejected(c),
           req[c].hand # accepted, UNCHANGED <<saved, accepted, prompted>>
    PROVE  Alone'
<1>0. ~At(c, "idle")
  BY DEF At
<1>1. PICK f : Become(c, f) /\ f.pc = "delete" /\ f.name = 1
  <2> DEFINE f == [req[c] EXCEPT !.pc = "delete", !.name = 1, !.hand = None, !.left = 1]
  <2>1. f.pc = "delete" /\ f.name = 1
    BY DEF IInv, TypeOK, Call
  <2> QED
    BY <2>1 DEF Rejected
<1>2. req'[c] = f
  BY <1>0, <1>1, Turn
<1>3. PICK n \in Name : First(n) /\ saved[n] = req[c].hand
  BY DEF Alone, Underway
<1>4. accepted = None \/ \A m \in Name : saved[m] # accepted
  <2>1. ASSUME NEW m \in Name, saved[m] = accepted, accepted # None PROVE FALSE
    <3>1. NoneBelow(m) /\ saved[m] # None /\ NoneBelow(n) /\ saved[n] # None
      BY <1>3, <2>1 DEF Alone, Honoured, First
    <3>2. ~(m < n) /\ ~(n < m)
      BY <3>1 DEF NoneBelow
    <3>3. m = n
      BY <3>2, TVAssumption
    <3> QED
      BY <1>3, <2>1, <3>3
  <2> QED
    BY <2>1
<1>5. Underway(req[c])'
  <2>1. NoneBelow(1)'
    BY TVAssumption DEF NoneBelow
  <2> QED
    BY <1>1, <1>2, <1>4, <2>1 DEF Underway
<1>6. ~prompted' /\ Honoured'
  BY DEF Alone, Honoured, NoneBelow
<1> QED
  BY <1>0, <1>1, <1>5, <1>6, Onward

LEMMA DialAlone ==
    ASSUME IInv, Alone, NEW c \in Client, Dial(c)
    PROVE  Alone'
<1> DEFINE t == req[c].hand
<1>1. /\ ~At(c, "idle") /\ req[c].pc = "dial" /\ UNCHANGED saved
      /\ req[c].op \notin {"pair", "unpair"}
  BY DEF Dial, At, Asks, IInv, Good, Shape, KeyLabel
<1>2. \E n \in Name : First(n) /\ saved[n] = t
  BY <1>1 DEF Alone, Underway
<1>3. t # None /\ prompted' = prompted
  <2>1. t # None
    BY <1>2 DEF First
  <2>2. prompted = FALSE /\ (t = None) = FALSE
    BY <2>1 DEF Alone, IInv, TypeOK
  <2>3. \/ prompted' = prompted
        \/ prompted' \in {prompted, prompted \/ t = None}
        \/ prompted' = (prompted \/ t = None)
    BY Zenon DEF Dial
  <2> QED
    BY <2>1, <2>2, <2>3
<1>4. CASE Unreachable(c) /\ UNCHANGED accepted
  <2>1. PICK f : Become(c, f) /\ Plain(f)
    BY <1>1, <1>4, UnreachablePlain DEF KeyLabel
  <2> QED
    BY <1>1, <1>3, <1>4, <2>1, PlainOnward
<1>5. CASE Return(c, "failed") /\ UNCHANGED accepted
  <2>1. PICK f : Become(c, f) /\ Plain(f)
    BY <1>5, ReturnPlain
  <2> QED
    BY <1>1, <1>3, <1>5, <2>1, PlainOnward
<1>6. CASE Rejected(c) /\ UNCHANGED accepted /\ t # accepted
  BY <1>1, <1>3, <1>6, RejectedAlone
<1>7. CASE t = accepted /\ Goto(c, "write") /\ UNCHANGED accepted
  <2>1. PICK f : Become(c, f) /\ f.pc = "write" /\ f.hand = t
    BY <1>7, GotoField
  <2>2. req'[c] = f
    BY <1>1, <2>1, Turn
  <2>3. Underway(req[c])'
    BY <1>1, <1>2, <2>1, <2>2 DEF Underway, First, NoneBelow
  <2>4. ~prompted' /\ Honoured'
    BY <1>1, <1>3, <1>7 DEF Alone, Honoured, NoneBelow
  <2> QED
    BY <1>1, <2>1, <2>3, <2>4, Onward
<1>8. CASE t = accepted /\ Goto(c, "save") /\ UNCHANGED accepted
  <2>1. PICK f : Become(c, f) /\ f.pc = "save" /\ f.hand = t
    BY <1>8, GotoField
  <2>2. req'[c] = f
    BY <1>1, <2>1, Turn
  <2>3. Underway(req[c])'
    BY <1>3, <1>8, <2>1, <2>2 DEF Underway
  <2>4. ~prompted' /\ Honoured'
    BY <1>1, <1>3, <1>8 DEF Alone, Honoured, NoneBelow
  <2> QED
    BY <1>1, <2>1, <2>3, <2>4, Onward
<1>9. ASSUME NEW w \in Fresh, accepted' = w,
             Become(c, [req[c] EXCEPT !.pc = "save", !.hand = w])
      PROVE  Alone'
  <2>1. PICK f : Become(c, f) /\ f.pc = "save" /\ f.hand = w
    <3> DEFINE f == [req[c] EXCEPT !.pc = "save", !.hand = w]
    <3>1. f.pc = "save" /\ f.hand = w
      BY DEF IInv, TypeOK, Call
    <3> QED
      BY <1>9, <3>1
  <2>2. req'[c] = f
    BY <1>1, <2>1, Turn
  <2>3. w # None /\ \A n \in Name : saved'[n] # w
    BY <1>1, TVAssumption DEF Fresh
  <2>4. Underway(req[c])'
    BY <1>9, <2>1, <2>2, <2>3 DEF Underway
  <2>5. ~prompted' /\ Honoured'
    BY <1>3, <1>9, <2>3 DEF Alone, Honoured
  <2> QED
    BY <1>1, <2>1, <2>4, <2>5, Onward
<1> QED
  BY <1>3, <1>4, <1>5, <1>6, <1>7, <1>8, <1>9 DEF Dial, Confirmed

LEMMA SaveRefreshedAlone ==
    ASSUME IInv, Alone, "read" \notin Fault, NEW c \in Client, SaveRefreshed(c)
    PROVE  Alone'
<1> DEFINE t == req[c].hand
<1>1. ~At(c, "idle") /\ req[c].pc = "save" /\ UNCHANGED <<accepted, prompted>>
  BY DEF SaveRefreshed, At
<1>2. t # None /\ accepted \in {t, None}
  BY <1>1 DEF Alone, Underway
<1>3. CASE Saved = t /\ UNCHANGED saved /\ Goto(c, "write")
  <2>1. PICK f : Become(c, f) /\ f.pc = "write" /\ f.hand = t
    BY <1>3, GotoField
  <2>2. req'[c] = f
    BY <1>1, <2>1, Turn
  <2>3. PICK n \in Name : saved[n] = t /\ \A m \in Name : m < n => saved[m] = None
    BY <1>2, <1>3, SavedIsFirstIn, FirstExists
  <2>4. Underway(req[c])'
    BY <1>2, <1>3, <2>1, <2>2, <2>3 DEF Underway, First, NoneBelow
  <2>5. ~prompted' /\ Honoured'
    BY <1>1, <1>3 DEF Alone, Honoured, NoneBelow
  <2> QED
    BY <1>1, <2>1, <2>4, <2>5, Onward
<1>4. CASE Saved # t /\ saved' = [saved EXCEPT ![1] = t] /\ Goto(c, "write")
  <2>1. PICK f : Become(c, f) /\ f.pc = "write" /\ f.hand = t
    BY <1>4, GotoField
  <2>2. req'[c] = f
    BY <1>1, <2>1, Turn
  <2>3. /\ 1 \in Name /\ saved'[1] = t /\ \A n \in Name \ {1} : saved'[n] = saved[n]
        /\ NoneBelow(1)'
    BY <1>4, Values, TVAssumption DEF IInv, TypeOK, NoneBelow
  <2>4. Underway(req[c])'
    BY <1>2, <2>1, <2>2, <2>3 DEF Underway, First
  <2>5. \A n \in Name : saved[n] = t => accepted = None
    <3>1. ASSUME NEW n \in Name, saved[n] = t, accepted = t PROVE FALSE
      <4>1. \A m \in Name : m < n => saved[m] = None
        BY <1>2, <3>1 DEF Alone, Honoured, NoneBelow
      <4> QED
        BY <1>2, <1>4, <3>1, <4>1, FirstFound, SavedIsFirstIn
    <3> QED
      BY <1>2, <3>1
  <2>6. ~prompted' /\ Honoured'
    BY <1>1, <1>2, <2>3, <2>5 DEF Alone, Honoured
  <2> QED
    BY <1>1, <2>1, <2>4, <2>6, Onward
<1>5. CASE UNCHANGED saved /\ Return(c, "failed")
  <2>1. PICK f : Become(c, f) /\ Plain(f)
    BY <1>5, ReturnPlain
  <2> QED
    BY <1>1, <1>5, <2>1, PlainOnward
<1> QED
  BY <1>3, <1>4, <1>5 DEF SaveRefreshed

LEMMA WriteAlone ==
    ASSUME IInv, Alone, NEW c \in Client, Write(c)
    PROVE  Alone'
<1>1. /\ ~At(c, "idle") /\ req[c].pc = "write" /\ UNCHANGED <<saved, accepted, prompted>>
  BY DEF Write, At, Asks
<1>2. CASE Unreachable(c)
  <2>1. PICK f : Become(c, f) /\ Plain(f)
    BY <1>1, <1>2, UnreachablePlain DEF KeyLabel
  <2> QED
    BY <1>1, <2>1, PlainOnward
<1>3. CASE Return(c, "failed")
  <2>1. PICK f : Become(c, f) /\ Plain(f)
    BY <1>3, ReturnPlain
  <2> QED
    BY <1>1, <2>1, PlainOnward
<1>4. CASE Become(c, [req[c] EXCEPT !.pc = "ack", !.sent = @ + 1])
  <2>1. PICK f : Become(c, f) /\ f.pc = "ack" /\ f.hand = req[c].hand
    <3> DEFINE f == [req[c] EXCEPT !.pc = "ack", !.sent = @ + 1]
    <3>1. f.pc = "ack" /\ f.hand = req[c].hand
      BY DEF IInv, TypeOK, Call
    <3> QED
      BY <1>4, <3>1
  <2>2. req'[c] = f
    BY <1>1, <2>1, Turn
  <2>3. \E n \in Name : First(n) /\ saved[n] = req[c].hand
    BY <1>1 DEF Alone, Underway
  <2>4. Underway(req[c])'
    BY <1>1, <2>1, <2>2, <2>3 DEF Underway, First, NoneBelow
  <2>5. ~prompted' /\ Honoured'
    BY <1>1 DEF Alone, Honoured, NoneBelow
  <2> QED
    BY <1>1, <2>1, <2>4, <2>5, Onward
<1> QED
  BY <1>2, <1>3, <1>4 DEF Write

LEMMA AcknowledgeAlone ==
    ASSUME IInv, Alone, NEW c \in Client, Acknowledge(c)
    PROVE  Alone'
<1>1. /\ ~At(c, "idle") /\ req[c].pc = "ack" /\ UNCHANGED <<saved, accepted, prompted>>
      /\ req[c].op \notin {"pair", "unpair"}
  BY DEF Acknowledge, At, Asks, IInv, Good, Shape, KeyLabel
<1>2. CASE Rejected(c) /\ req[c].hand # accepted
  BY <1>1, <1>2, RejectedAlone
<1>3. CASE Return(c, "ok")
  <2>1. PICK f : Become(c, f) /\ Plain(f)
    BY <1>1, <1>3, ReturnPlain
  <2> QED
    BY <1>1, <2>1, PlainOnward
<1>4. CASE Become(c, [req[c] EXCEPT !.pc = "key", !.left = @ - 1, !.hand = None])
  <2> DEFINE f == [req[c] EXCEPT !.pc = "key", !.left = @ - 1, !.hand = None]
  <2>1. f.pc = "key"
    BY DEF IInv, TypeOK, Call
  <2> QED
    BY <1>1, <1>4, <2>1, PlainOnward DEF Plain
<1> QED
  BY <1>2, <1>3, <1>4 DEF Acknowledge, Silence, KeyDone

LEMMA AloneNext == "read" \notin Fault /\ AInv /\ [Next]_vars => AInv'
<1> SUFFICES ASSUME "read" \notin Fault, AInv, [Next]_vars, ~overlapped' PROVE Alone'
  BY NextInv DEF AInv
<1>1. IInv /\ Alone
  <2>1. ~overlapped
    BY Zenon DEF Next, vars, Step, Begin, Finish, Forget, Crash, PairDial, PairSave, PairTidy,
                 DeleteSecret, Cleared, Preflight, Wake, Confirm, Key, Check, ReadToken, Dial,
                 SaveRefreshed, Write, Acknowledge, Asks
  <2> QED
    BY <2>1 DEF AInv
<1>2. CASE UNCHANGED vars
  BY <1>1, <1>2 DEF vars, Alone, At, Honoured, Underway, NoneBelow, First
<1>3. CASE Forget \/ Crash
  BY <1>1, <1>3, ForgetAlone, CrashAlone
<1>4. ASSUME NEW c \in Client, Step(c) PROVE Alone'
  <2>1. CASE \E op \in Operation, n \in 1 .. MaxKeys : Begin(c, op, n)
    BY <1>1, <2>1, BeginAlone
  <2>2. CASE Finish(c) \/ PairDial(c) \/ PairSave(c) \/ PairTidy(c)
    BY <1>1, <2>2, FinishAlone, PairDialAlone, PairSaveAlone, PairTidyAlone
  <2>3. CASE DeleteSecret(c) \/ Cleared(c) \/ Preflight(c) \/ Wake(c) \/ Confirm(c)
    BY <1>1, <2>3, DeleteSecretAlone, ClearedAlone, PreflightAlone
  <2>4. CASE Key(c) \/ Check(c) \/ ReadToken(c) \/ Dial(c)
    BY <1>1, <2>4, KeyAlone, CheckAlone, ReadTokenAlone, DialAlone
  <2>5. CASE SaveRefreshed(c) \/ Write(c) \/ Acknowledge(c)
    BY <1>1, <2>5, SaveRefreshedAlone, WriteAlone, AcknowledgeAlone
  <2> QED
    BY <1>4, <2>1, <2>2, <2>3, <2>4, <2>5 DEF Step
<1> QED
  BY <1>2, <1>3, <1>4 DEF Next

LEMMA AloneInit == Init => AInv
<1> SUFFICES ASSUME Init PROVE Alone
  BY InitInv DEF AInv
<1>1. \A c \in Client : req[c].pc = "idle"
  BY DEF Init, Idle
<1>2. \A c \in Client : Underway(req[c])
  BY <1>1 DEF Underway
<1>3. Honoured
  <2>1. ASSUME NEW n \in Name, accepted # None, saved[n] = accepted, NEW m \in Name, m < n
        PROVE  saved[m] = None
    <3>1. m # n
      BY <2>1, TVAssumption
    <3> QED
      BY <2>1, <3>1 DEF Init
  <2> QED
    BY <2>1 DEF Honoured, NoneBelow
<1> QED
  BY <1>1, <1>2, <1>3 DEF Init, Alone, At

\* When every secret can be read, requests that do not overlap keep what
\* Alone says of the token: what the TV accepts is what a command finds.
THEOREM TokenIsFollowed == ASSUME "read" \notin Fault PROVE Spec => []AInv
BY AloneInit, AloneNext, PTL DEF Spec

\* A command that overlaps no other request never opens a channel without a
\* token, which the TV would answer with its prompt (sendKey).
THEOREM CommandsAloneNeverPrompt ==
    ASSUME "read" \notin Fault PROVE Spec => []SequentialNeverPrompt
<1>1. AInv => SequentialNeverPrompt
  BY DEF AInv, Alone, SequentialNeverPrompt, CommandsNeverPrompt
<1> QED
  BY <1>1, TokenIsFollowed, PTL

\* A Pair that succeeds leaves the new token where the next command finds it,
\* under whatever name an older one was (Pair).
THEOREM PairingIsDurable == ASSUME "read" \notin Fault PROVE Spec => []DurablePairing
<1>1. ASSUME AInv PROVE DurablePairing
  <2> SUFFICES ASSUME NEW c \in Client, ~overlapped, At(c, "finish"), req[c].op = "pair",
                      req[c].outcome = "ok"
               PROVE  paired /\ req[c].hand # None /\ Saved = req[c].hand
    BY DEF DurablePairing
  <2>1. paired /\ req[c].hand # None /\ saved[1] = req[c].hand
    BY <1>1 DEF AInv, Alone, Underway, At
  <2>2. 1 \in Name /\ \A m \in Name : ~(m < 1)
    BY TVAssumption
  <2>3. FirstIn(saved) = saved[1]
    BY <2>1, <2>2, FirstFound
  <2> QED
    BY <2>1, <2>3, SavedIsFirstIn
<1> QED
  BY <1>1, TokenIsFollowed, PTL

\* An Unpair that succeeds leaves no token under any name (Unpair).
THEOREM UnpairingForgets == ASSUME "read" \notin Fault PROVE Spec => []UnpairForgets
<1>1. ASSUME AInv PROVE UnpairForgets
  BY <1>1, NothingFound, SavedIsFirstIn DEF AInv, Alone, Underway, At, UnpairForgets
<1> QED
  BY <1>1, TokenIsFollowed, PTL

\* The request of an Unpair that deletes tokens.
Unpairing(c) == req[c].op = "unpair" /\ (At(c, "delete") \/ At(c, "cleared"))

\* A usable pairing is one of which the first name holds the accepted token.
LEMMA UsableFirst ==
    ASSUME Usable
    PROVE  \E n \in Name : saved[n] = accepted /\ accepted # None
BY SavedIsFirstIn, FirstExists DEF Usable

LEMMA UsableStep ==
    ASSUME IInv, Alone, "read" \notin Fault, Usable, accepted' = accepted, crashes' = crashes,
           Next
    PROVE  Usable' \/ \E c \in Client : Unpairing(c)
<1>1. PICK n \in Name : saved[n] = accepted /\ accepted # None
  BY UsableFirst
<1>2. ASSUME UNCHANGED <<saved, accepted>>, paired' PROVE Usable'
  BY <1>2 DEF Usable, Saved
<1>3. CASE Forget \/ Crash
  <2>1. ASSUME Crash PROVE FALSE
    <3>1. crashes \in Nat /\ crashes' = crashes + 1
      BY <2>1, TVAssumption DEF Crash, IInv, TypeOK
    <3> QED
      BY <3>1
  <2> QED
    BY <1>1, <1>3, <2>1 DEF Forget
<1>4. ASSUME NEW c \in Client, Step(c) PROVE Usable' \/ Unpairing(c)
  <2>0. paired
    BY DEF Usable
  <2>1. CASE \E op \in Operation, k \in 1 .. MaxKeys : Begin(c, op, k)
    BY <1>2, <2>0, <2>1 DEF Begin
  <2>2. CASE Finish(c)
    BY <1>2, <2>0, <2>2 DEF Finish
  <2>3. CASE PairDial(c)
    BY <1>2, <2>0, <2>3 DEF PairDial, Fresh
  <2>4. CASE PairSave(c)
    <3>1. accepted = req[c].hand /\ saved[n] # req[c].hand
      BY <1>1, <2>4 DEF PairSave, At, Alone, Underway
    <3> QED
      BY <1>1, <3>1
  <2>5. CASE PairTidy(c)
    <3>1. saved[1] = accepted /\ paired' = TRUE
      BY <1>1, <2>5 DEF PairTidy, At, Alone, Underway
    <3>2. 1 \in Name /\ saved'[1] = saved[1] /\ \A m \in Name : ~(m < 1)
      BY <2>5, TVAssumption DEF PairTidy, IInv, TypeOK
    <3>3. FirstIn(saved') = accepted
      BY <1>1, <3>1, <3>2, FirstFound
    <3> QED
      BY <1>1, <3>1, <3>3, SavedIsFirstIn DEF Usable
  <2>6. CASE DeleteSecret(c) \/ Cleared(c)
    <3>1. req[c].pc \in {"delete", "cleared"}
      BY <2>6 DEF DeleteSecret, Cleared, At
    <3>2. req[c].op = "unpair"
      BY <1>1, <3>1 DEF Alone, Underway
    <3> QED
      BY <3>1, <3>2 DEF Unpairing, At
  <2>7. CASE Preflight(c) \/ Wake(c) \/ Confirm(c) \/ Key(c) \/ ReadToken(c) \/ Write(c)
             \/ Acknowledge(c) \/ Dial(c)
    BY <1>2, <2>0, <2>7 DEF Preflight, Wake, Confirm, Key, ReadToken, Write, Acknowledge, Dial, Asks
  <2>8. CASE Check(c)
    <3>1. ASSUME NotFound(req[c].name), req[c].name = NameCount PROVE FALSE
      <4>1. NoneBelow(NameCount) /\ saved[NameCount] = None
        BY <2>8, <3>1 DEF Check, At, Alone, Underway, NotFound
      <4>2. n = NameCount \/ n < NameCount
        BY TVAssumption
      <4> QED
        BY <1>1, <4>1, <4>2 DEF NoneBelow
    <3> QED
      BY <1>2, <2>0, <2>8, <3>1 DEF Check
  <2>9. CASE SaveRefreshed(c)
    <3>1. req[c].hand = accepted
      BY <1>1, <2>9 DEF SaveRefreshed, At, Alone, Underway
    <3>2. Saved = accepted
      BY DEF Usable
    <3> QED
      BY <1>2, <2>0, <2>9, <3>1, <3>2 DEF SaveRefreshed
  <2> QED
    BY <1>4, <2>1, <2>2, <2>3, <2>4, <2>5, <2>6, <2>7, <2>8, <2>9 DEF Step
<1> QED
  BY <1>3, <1>4 DEF Next

\* Among requests that do not overlap, and as long as the TV keeps its token,
\* only Unpair gives up a pairing that the TV honours: silence, a failed command
\* or a Pair that got no token does not (sendKey).
THEOREM PairingIsKept == ASSUME "read" \notin Fault PROVE Spec => PairingKept
<1>1. ASSUME AInv, [Next]_vars
      PROVE  [Usable /\ ~overlapped' /\ accepted' = accepted /\ crashes' = crashes
                => Usable' \/ \E c \in Client :
                      req[c].op = "unpair" /\ (At(c, "delete") \/ At(c, "cleared"))]_vars
  <2> SUFFICES ASSUME Next, Usable, ~overlapped', accepted' = accepted, crashes' = crashes
               PROVE  Usable' \/ \E c \in Client :
                      req[c].op = "unpair" /\ (At(c, "delete") \/ At(c, "cleared"))
    BY <1>1
  <2>1. ~overlapped
    BY Zenon DEF Next, Step, Begin, Finish, Forget, Crash, PairDial, PairSave, PairTidy,
                 DeleteSecret, Cleared, Preflight, Wake, Confirm, Key, Check, ReadToken, Dial,
                 SaveRefreshed, Write, Acknowledge, Asks
  <2>2. IInv /\ Alone
    BY <1>1, <2>1 DEF AInv
  <2> QED
    BY <2>2, UsableStep DEF Unpairing
<1> QED
  BY <1>1, TokenIsFollowed, PTL DEF Spec, PairingKept

=============================================================================
