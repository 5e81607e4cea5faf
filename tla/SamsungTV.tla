----------------------------- MODULE SamsungTV -----------------------------
(***************************************************************************)
(* The Samsung adapter of internal/samsung/samsung.go with the retry of    *)
(* core.Manager around it: the pairing prompt, the saved tokens and their  *)
(* rotation, and the keys a command sends.                                 *)
(*                                                                         *)
(* Requests use one adapter at once and it has no lock: every read or      *)
(* write of its Paired flag, every call of the secret store and every      *)
(* exchange with the TV is a step.  The TV is the environment: it accepts  *)
(* one token at a time, may replace it whenever a client connects with it, *)
(* and may forget it.                                                      *)
(***************************************************************************)
EXTENDS Naturals

CONSTANTS
    Client,      \* goroutines that use the adapter
    Token,       \* tokens the TV hands out
    NameCount,   \* secret names of the TV: 1 is written, the last is legacy
    MaxKeys,     \* keys of one volume or channel command
    MaxCrashes,  \* restarts of the daemon in one behaviour
    Fault,       \* secret store calls that may fail
    None         \* no token

Operation == {"pair", "unpair", "keys", "power_off", "power_on"}
Name == 1 .. NameCount

ASSUME TVAssumption ==
    /\ NameCount \in Nat \ {0}
    /\ MaxKeys \in Nat \ {0}
    /\ MaxCrashes \in Nat
    /\ Fault \subseteq {"read", "save", "delete"}
    /\ None \notin Token

VARIABLES
    paired,      \* d.metadata.Paired of the adapter
    saved,       \* the secret store: a token under each name
    row,         \* the Paired flag the manager has saved, for a restart
    accepted,    \* the token the TV accepts
    req,         \* what each client is doing
    crashes,     \* restarts so far
    overlapped,  \* history: some request began while another ran
    prompted     \* history: a command made the TV show the pairing prompt

vars == <<paired, saved, row, accepted, req, crashes, overlapped, prompted>>

Label == {"idle", "pair_dial", "pair_wait", "pair_save", "pair_tidy", "delete",
          "cleared", "preflight", "wake", "confirm", "key", "check", "token",
          "dial", "save", "write", "ack", "finish"}

Call == [pc: Label, op: Operation \cup {"none"},
         asked: 1 .. MaxKeys,       \* keys of the command
         left: 1 .. MaxKeys,        \* keys not yet sent in this attempt
         attempt: 1 .. 2,
         name: Name,                \* the secret it has got to
         hand: Token \cup {None},   \* the token it holds
         sent: Nat,                 \* keys or wake-ups sent so far
         failed: BOOLEAN,           \* a secret could not be deleted
         outcome: {"none", "ok", "failed"}]

TypeOK ==
    /\ paired \in BOOLEAN /\ row \in BOOLEAN
    /\ saved \in [Name -> Token \cup {None}]
    /\ accepted \in Token \cup {None}
    /\ req \in [Client -> Call]
    /\ crashes \in 0 .. MaxCrashes
    /\ overlapped \in BOOLEAN /\ prompted \in BOOLEAN

-----------------------------------------------------------------------------
Entry == [pair |-> "pair_dial", unpair |-> "delete", keys |-> "key",
          power_off |-> "preflight", power_on |-> "wake"]

Idle == [pc |-> "idle", op |-> "none", asked |-> 1, left |-> 1, attempt |-> 1,
         name |-> 1, hand |-> None, sent |-> 0, failed |-> FALSE, outcome |-> "none"]

At(c, label) == req[c].pc = label

Become(c, r) == req' = [req EXCEPT ![c] = r]

Goto(c, label) == Become(c, [req[c] EXCEPT !.pc = label, !.name = 1])

\* What is left of a request that is over: its result and what it has sent.
Return(c, o) ==
    LET r == req[c] IN
    Become(c, [Idle EXCEPT !.pc = "finish", !.op = r.op, !.asked = r.asked,
                           !.sent = r.sent, !.hand = r.hand, !.outcome = o])

\* The TV rejects the token: the saved pairing is cleared, no key follows.
Rejected(c) ==
    Become(c, [req[c] EXCEPT !.pc = "delete", !.name = 1, !.hand = None, !.left = 1])

NextName(c) == req[c].name < NameCount /\ Become(c, [req[c] EXCEPT !.name = @ + 1])

\* What token() finds: the first name that holds one.
Saved ==
    IF \E n \in Name : saved[n] # None
    THEN saved[CHOOSE n \in Name : saved[n] # None /\ \A m \in Name : m < n => saved[m] = None]
    ELSE None

\* A secret that cannot be read is taken for one that is not there.
NotFound(n) == saved[n] = None \/ "read" \in Fault

\* A token that nothing else holds.
Fresh ==
    Token \ ({accepted} \cup {saved[n] : n \in Name} \cup {req[c].hand : c \in Client})

\* The manager tries a request once more after a rescan.
Retries(c) == req[c].attempt = 1

\* A reachability failure: the whole request again if the rescan worked.
Unreachable(c) ==
    \/ Retries(c) /\ Become(c, [req[c] EXCEPT !.pc = Entry[req[c].op], !.attempt = 2,
                                              !.left = req[c].asked, !.hand = None])
    \/ Return(c, "failed")

Init ==
    /\ saved \in [Name -> Token \cup {None}]
    /\ \A m, n \in Name : m # n => saved[m] = None \/ saved[n] = None
    /\ accepted \in {saved[n] : n \in Name} \cup {None}
    /\ row \in BOOLEAN /\ paired = row
    /\ req = [c \in Client |-> Idle]
    /\ crashes = 0
    /\ overlapped = FALSE /\ prompted = FALSE

Begin(c, op, n) ==
    /\ At(c, "idle")
    /\ n = 1 \/ op = "keys"
    /\ Become(c, [Idle EXCEPT !.pc = Entry[op], !.op = op, !.asked = n, !.left = n])
    /\ overlapped' = (overlapped \/ \E d \in Client \ {c} : ~At(d, "idle"))
    /\ UNCHANGED <<paired, saved, row, accepted, crashes, prompted>>

\* The manager saves the flag: Pair and Unpair when they succeed, a command
\* always, with what the adapter says by then.
Finish(c) ==
    LET r == req[c] IN
    /\ At(c, "finish")
    /\ row' = CASE r.op = "pair"   -> row \/ r.outcome = "ok"
                [] r.op = "unpair" -> row /\ r.outcome # "ok"
                [] OTHER           -> paired
    /\ Become(c, Idle)
    /\ UNCHANGED <<paired, saved, accepted, crashes, overlapped, prompted>>

\* The TV is reset, or the bridge is removed from its list of devices.
Forget ==
    /\ accepted # None
    /\ accepted' = None
    /\ UNCHANGED <<paired, saved, row, req, crashes, overlapped, prompted>>

Crash ==
    /\ crashes < MaxCrashes
    /\ crashes' = crashes + 1
    /\ paired' = row
    /\ req' = [c \in Client |-> Idle]
    /\ UNCHANGED <<saved, row, accepted, overlapped, prompted>>

-----------------------------------------------------------------------------
(* Pair *)

\* Mutant: an accepted prompt is enough.
MutTokenless(c) == Return(c, "ok")

\* Accepted without a token, the adapter is paired but the call goes on
\* waiting, and fails if none comes.
Tokenless(c) == Goto(c, "pair_wait")

\* The prompt, shown for a connection without a token, and what the TV sends.
PairDial(c) ==
    /\ At(c, "pair_dial") \/ At(c, "pair_wait")
    /\ \/ At(c, "pair_dial") /\ Unreachable(c) /\ UNCHANGED <<paired, accepted>>
       \/ Return(c, "failed") /\ UNCHANGED <<paired, accepted>>
       \/ Tokenless(c) /\ paired' = TRUE /\ UNCHANGED accepted
       \/ \E t \in Fresh :
             /\ accepted' = t
             /\ Become(c, [req[c] EXCEPT !.pc = "pair_save", !.hand = t])
             /\ UNCHANGED paired
    /\ UNCHANGED <<saved, row, crashes, overlapped, prompted>>

PairSave(c) ==
    /\ At(c, "pair_save")
    /\ \/ saved' = [saved EXCEPT ![1] = req[c].hand] /\ Goto(c, "pair_tidy")
       \/ "save" \in Fault /\ UNCHANGED saved /\ Return(c, "failed")
    /\ UNCHANGED <<paired, row, accepted, crashes, overlapped, prompted>>

\* The token of an older build goes, if it has a name of its own.
PairTidy(c) ==
    /\ At(c, "pair_tidy")
    /\ \/ NameCount > 1 /\ saved' = [saved EXCEPT ![NameCount] = None]
       \/ (NameCount = 1 \/ "delete" \in Fault) /\ UNCHANGED saved
    /\ paired' = TRUE
    /\ Return(c, "ok")
    /\ UNCHANGED <<row, accepted, crashes, overlapped, prompted>>

-----------------------------------------------------------------------------
(* Unpair, and invalidatePairing after a rejection *)

\* Mutant: only the name tokens are written under is deleted.
MutLastName(n) == TRUE

\* Mutant: one name too many.
MutLastNameOff(n) == n > NameCount

LastName(n) == n = NameCount

DeleteSecret(c) ==
    LET r == req[c]
        next == [r EXCEPT !.pc = IF LastName(r.name) THEN "cleared" ELSE "delete",
                          !.name = IF LastName(r.name) THEN 1 ELSE r.name + 1]
    IN /\ At(c, "delete")
       /\ \/ saved' = [saved EXCEPT ![r.name] = None] /\ Become(c, next)
          \/ /\ "delete" \in Fault /\ UNCHANGED saved
             /\ Become(c, [next EXCEPT !.failed = TRUE])
       /\ UNCHANGED <<paired, row, accepted, crashes, overlapped, prompted>>

Cleared(c) ==
    /\ At(c, "cleared")
    /\ paired' = FALSE
    /\ Return(c, IF req[c].op = "unpair" /\ ~req[c].failed THEN "ok" ELSE "failed")
    /\ UNCHANGED <<saved, row, accepted, crashes, overlapped, prompted>>

-----------------------------------------------------------------------------
(* Execute *)

\* A step of a command that changes neither the adapter nor the secrets.
Asks == UNCHANGED <<paired, saved, row, crashes, overlapped>>

\* power_off first reads the state: no toggle for a TV that does not answer.
Preflight(c) ==
    /\ At(c, "preflight")
    /\ Goto(c, "key") \/ Unreachable(c) \/ Return(c, "failed")
    /\ Asks /\ UNCHANGED <<accepted, prompted>>

Wake(c) ==
    /\ At(c, "wake")
    /\ \/ Become(c, [req[c] EXCEPT !.pc = "confirm", !.sent = @ + 1])
       \/ Unreachable(c) \/ Return(c, "failed")
    /\ Asks /\ UNCHANGED <<accepted, prompted>>

\* Mutant: a wake-up nobody answered counts as a reachability failure.
MutUnconfirmed(c) == Unreachable(c)

\* A wake-up that was sent and not confirmed is not tried again.
Unconfirmed(c) == Return(c, "failed")

Confirm(c) ==
    /\ At(c, "confirm")
    /\ Return(c, "ok") \/ Unconfirmed(c)
    /\ Asks /\ UNCHANGED <<accepted, prompted>>

\* sendKey: a volume or channel command may also end here, cancelled between
\* two keys or at a digit that is none.
Key(c) ==
    /\ At(c, "key")
    /\ \/ paired /\ Goto(c, "check")
       \/ (~paired \/ req[c].op = "keys") /\ Return(c, "failed")
    /\ Asks /\ UNCHANGED <<accepted, prompted>>

\* Mutant: a paired flag is taken for a token.
MutNoToken(c) == Goto(c, "token") /\ UNCHANGED paired

\* Metadata without a token is corrected; no channel is opened.
NoToken(c) == paired' = FALSE /\ Return(c, "failed")

\* The secrets are looked up once for the guard,
Check(c) ==
    /\ At(c, "check")
    /\ \/ saved[req[c].name] # None /\ Goto(c, "token") /\ UNCHANGED paired
       \/ NotFound(req[c].name) /\ NextName(c) /\ UNCHANGED paired
       \/ NotFound(req[c].name) /\ req[c].name = NameCount /\ NoToken(c)
    /\ UNCHANGED <<saved, row, accepted, crashes, overlapped, prompted>>

\* and once more for the token the connection presents.
ReadToken(c) ==
    LET t == saved[req[c].name] IN
    /\ At(c, "token")
    /\ \/ NotFound(req[c].name) /\ NextName(c)
       \/ t # None /\ Become(c, [req[c] EXCEPT !.pc = "dial", !.hand = t])
       \/ /\ NotFound(req[c].name) /\ req[c].name = NameCount
          /\ Become(c, [req[c] EXCEPT !.pc = "dial", !.hand = None])
    /\ Asks /\ UNCHANGED <<accepted, prompted>>

\* The TV confirms the channel, with or without a token of its own choice.
Confirmed(c) ==
    \/ Goto(c, "write") /\ UNCHANGED accepted
    \/ req[c].hand # None /\ Goto(c, "save") /\ UNCHANGED accepted
    \/ \E t \in Fresh :
          /\ accepted' = t
          /\ Become(c, [req[c] EXCEPT !.pc = "save", !.hand = t])

\* A client without a token is a new one and gets the prompt.
Dial(c) ==
    LET t == req[c].hand IN
    /\ At(c, "dial")
    /\ \/ Unreachable(c) /\ UNCHANGED <<accepted, prompted>>
       \/ Return(c, "failed") /\ UNCHANGED accepted /\ prompted' \in {prompted, prompted \/ t = None}
       \/ t \in {None, accepted} /\ Confirmed(c) /\ prompted' = (prompted \/ t = None)
       \/ /\ t = None \/ t # accepted
          /\ Rejected(c) /\ UNCHANGED accepted /\ prompted' = (prompted \/ t = None)
    /\ Asks

\* A token the store does not return yet is saved before the key is written.
SaveRefreshed(c) ==
    LET t == req[c].hand
        unknown == Saved # t \/ "read" \in Fault
    IN
    /\ At(c, "save")
    /\ \/ Saved = t /\ UNCHANGED saved /\ Goto(c, "write")
       \/ unknown /\ saved' = [saved EXCEPT ![1] = t] /\ Goto(c, "write")
       \/ unknown /\ "save" \in Fault /\ UNCHANGED saved /\ Return(c, "failed")
    /\ UNCHANGED <<paired, row, accepted, crashes, overlapped, prompted>>

Write(c) ==
    /\ At(c, "write")
    /\ \/ Become(c, [req[c] EXCEPT !.pc = "ack", !.sent = @ + 1])
       \/ Unreachable(c) \/ Return(c, "failed")
    /\ Asks /\ UNCHANGED <<accepted, prompted>>

KeyDone(c) ==
    IF req[c].left = 1 THEN Return(c, "ok")
    ELSE Become(c, [req[c] EXCEPT !.pc = "key", !.left = @ - 1, !.hand = None])

\* Mutant: silence counts as a rejection.
MutSilence(c) == Rejected(c)

\* Many TVs take the key and say nothing, or close: the key was sent.
Silence(c) == KeyDone(c)

\* Only an error event proves that the TV does not accept the token.
Acknowledge(c) ==
    /\ At(c, "ack")
    /\ KeyDone(c) \/ Silence(c) \/ (req[c].hand # accepted /\ Rejected(c))
    /\ Asks /\ UNCHANGED <<accepted, prompted>>

-----------------------------------------------------------------------------
Step(c) ==
    \/ \E op \in Operation, n \in 1 .. MaxKeys : Begin(c, op, n)
    \/ Finish(c)
    \/ PairDial(c) \/ PairSave(c) \/ PairTidy(c)
    \/ DeleteSecret(c) \/ Cleared(c)
    \/ Preflight(c) \/ Wake(c) \/ Confirm(c)
    \/ Key(c) \/ Check(c) \/ ReadToken(c) \/ Dial(c) \/ SaveRefreshed(c)
    \/ Write(c) \/ Acknowledge(c)

Next == Forget \/ Crash \/ \E c \in Client : Step(c)

Spec == Init /\ [][Next]_vars

-----------------------------------------------------------------------------
(* Properties of every interleaving *)

\* A command that is tried again never repeats more than it lost: a single
\* key, a power toggle and a wake-up reach the TV at most once, n keys fewer
\* than 2n times (Execute 949-959, "not repeated as a second power toggle").
DeliveryBound == \A c \in Client : req[c].sent <= 2 * req[c].asked - 1

\* No command opens a channel without a token, which the TV answers with the
\* pairing prompt (sendKey 522-525, "Never open a tokenless command channel").
CommandsNeverPrompt == ~prompted

-----------------------------------------------------------------------------
(* Properties of requests that do not overlap *)

\* The same, where nothing deletes the token in the meantime.
SequentialNeverPrompt == ~overlapped => CommandsNeverPrompt

\* A pairing the TV honours: the next command will work.
Usable == paired /\ Saved # None /\ Saved = accepted

\* As long as the TV keeps its token, only Unpair gives up a pairing that it
\* honours: silence, a closed channel, a failed command or a Pair without a
\* token never does (sendKey 545-551, "users approve the TV repeatedly").  A
\* token that the TV replaces and that cannot be saved is lost.
PairingKept ==
    [][Usable /\ ~overlapped' /\ accepted' = accepted /\ crashes' = crashes
        => Usable' \/ \E c \in Client : req[c].op = "unpair" /\ (At(c, "delete") \/ At(c, "cleared"))]_vars

\* A Pair that succeeds leaves the token the TV has just issued where the
\* next command will find it, whatever older names hold (Pair 126-142).
DurablePairing ==
    \A c \in Client : ~overlapped /\ At(c, "finish")
        /\ req[c].op = "pair" /\ req[c].outcome = "ok"
        => paired /\ req[c].hand # None /\ Saved = req[c].hand

\* An Unpair that succeeds leaves no token under any name and the adapter
\* unpaired (ARCHITECTURE 72, "Unpair deletes the token").
UnpairForgets ==
    \A c \in Client : ~overlapped /\ At(c, "finish")
        /\ req[c].op = "unpair" /\ req[c].outcome = "ok"
        => ~paired /\ Saved = None

=============================================================================
