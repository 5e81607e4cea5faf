---------------------------- MODULE SecretStore ----------------------------
(***************************************************************************)
(* The secret store of internal/security/secrets.go: the keychain of the   *)
(* operating system, and a JSON file for machines that have none.  Its     *)
(* mutex orders the calls of one process; the daemon and a CLI command     *)
(* share the keychain and the file without one.  Every keychain call and   *)
(* every file operation is a step.                                         *)
(*                                                                         *)
(* ensureToken and rotateToken of internal/api/server.go, with which each  *)
(* process gets the bearer token, are calls of their own.                  *)
(***************************************************************************)
EXTENDS Naturals

CONSTANTS
    Process,      \* the daemon and the CLI commands that run beside it
    Secret,       \* names under which something is saved
    Token,        \* those that ensureToken manages
    Value,        \* what may be saved
    None,         \* nothing saved, nothing held
    NoFile,       \* there is no fallback file
    Torn,         \* the file holds no JSON: truncated, or written by two
    Mode,         \* how the keychain may behave: subset of ModeKind
    MaxCrashes    \* processes that die in the middle of a call

ModeKind == {"works", "absent", "flaky"}

ASSUME SecretAssumption ==
    /\ Token \subseteq Secret
    /\ Mode \subseteq ModeKind
    /\ None \notin Value
    /\ NoFile # Torn
    /\ {NoFile, Torn} \cap [Secret -> Value \cup {None}] = {}

ASSUME CrashAssumption == MaxCrashes \in Nat

VARIABLES
    keychain,    \* the entries of the service in the keychain
    fallback,    \* secrets.json
    call,        \* the call each process is in
    held,        \* the tokens each process has in memory
    mode,        \* how the keychain of this machine behaves
    crashes,     \* processes that died so far
    promised,    \* history: what a Get of each name may return
    shadowed,    \* history: names whose keychain entry refused a change
    overlapped   \* history: two processes were in a call at once

vars == <<keychain, fallback, call, held, mode, crashes, promised, shadowed, overlapped>>
storage == <<keychain, fallback>>
history == <<mode, crashes, overlapped>>

Entry == Value \cup {None}
File == [Secret -> Entry]
Empty == [n \in Secret |-> None]

Point == {"keychain", "read", "truncate", "fill", "remove"}
Operation == {"get", "set", "delete", "ensure", "rotate"}
NoCall == [at |-> "idle", op |-> "get", name |-> None, value |-> None, values |-> Empty]

TypeOK ==
    /\ keychain \in File
    /\ fallback \in (File \ {Empty}) \cup {NoFile, Torn}
    /\ \A p \in Process :
          call[p] = NoCall \/ call[p] \in [at : Point, op : Operation, name : Secret,
                                           value : Entry, values : File]
    /\ held \in [Process -> [Token -> Entry]]
    /\ mode \in Mode
    /\ crashes \in 0 .. MaxCrashes
    /\ promised \in [Secret -> SUBSET Entry]
    /\ shadowed \subseteq Secret
    /\ overlapped \in BOOLEAN

Busy == {p \in Process : call[p] # NoCall}

\* Whether a keychain call may succeed.
Reachable ==
    CASE mode = "works" -> {TRUE} [] mode = "absent" -> {FALSE} [] mode = "flaky" -> BOOLEAN

\* readFallback: a missing file holds nothing.
Contents == IF fallback = NoFile THEN Empty ELSE fallback

\* What a Get of n would return now, None for not found.
Answers(n) ==
    {IF ok /\ keychain[n] # None THEN keychain[n] ELSE Contents[n] : ok \in Reachable}

\* A machine that never had a keychain entry, with or without the file of
\* an earlier time.
Init ==
    /\ keychain = Empty
    /\ fallback \in {NoFile} \cup {[Empty EXCEPT ![n] = v] : n \in Secret, v \in Value}
    /\ call = [p \in Process |-> NoCall]
    /\ held = [p \in Process |-> [t \in Token |-> None]]
    /\ mode \in Mode
    /\ crashes = 0
    /\ promised = [n \in Secret |-> {Contents[n]}]
    /\ shadowed = {}
    /\ overlapped = FALSE

-----------------------------------------------------------------------------
(* Calls begin and end *)

Fresh(v) ==
    /\ \A n \in Secret : v # keychain[n] /\ (fallback # Torn => v # Contents[n])
    /\ \A p \in Process, t \in Token : v # held[p][t]

\* A process begins a call.  A token is only ever asked for, once in the
\* life of a process; other secrets are read, saved and deleted.  Bound: the
\* first calls of two processes that meet are the last.
Begin(p, op, n, v) ==
    /\ call[p] = NoCall /\ ~overlapped
    /\ \/ op = "ensure" /\ n \in Token /\ held[p][n] = None /\ v = None
       \/ op \in {"get", "delete"} /\ n \notin Token /\ v = None
       \/ op = "set" /\ n \notin Token /\ v \in Value
    /\ call' = [call EXCEPT ![p] = [at |-> "keychain", op |-> op, name |-> n,
                                    value |-> v, values |-> Empty]]
    /\ promised' = [promised EXCEPT ![n] =
                      CASE op = "set" -> @ \cup {v} [] op = "delete" -> @ \cup {None}
                        [] OTHER -> @]
    /\ overlapped' = (overlapped \/ Busy # {})
    /\ UNCHANGED <<storage, held, mode, crashes, shadowed>>

Goto(p, at) == call' = [call EXCEPT ![p].at = at]

\* The call of p returns with an error, having promised nothing.
Fail(p) ==
    /\ call' = [call EXCEPT ![p] = NoCall]
    /\ UNCHANGED <<promised, held>>

\* The call of p returns without error.
Succeed(p) ==
    LET c == call[p] IN
    /\ call' = [call EXCEPT ![p] = NoCall]
    /\ promised' = IF c.op = "get" THEN promised
                   ELSE [promised EXCEPT ![c.name] = {c.value}]
    /\ held' = IF c.op = "rotate" THEN [held EXCEPT ![p][c.name] = c.value] ELSE held

\* A process ends: its command is done, the daemon stops, or it dies in the
\* middle of a call.
Exit(p) ==
    /\ \/ call[p] = NoCall /\ UNCHANGED crashes
       \/ call[p] # NoCall /\ crashes < MaxCrashes /\ crashes' = crashes + 1
    /\ held[p] # [t \in Token |-> None] \/ call[p] # NoCall
    /\ call' = [call EXCEPT ![p] = NoCall]
    /\ held' = [held EXCEPT ![p] = [t \in Token |-> None]]
    /\ UNCHANGED <<storage, mode, promised, shadowed, overlapped>>

-----------------------------------------------------------------------------
(* Get and ensureToken *)

\* A Get, or the Get of ensureToken, finds v.
Found(p, v) ==
    LET c == call[p] IN
    /\ call' = [call EXCEPT ![p] = NoCall]
    /\ held' = IF c.op = "ensure" THEN [held EXCEPT ![p][c.name] = v] ELSE held
    /\ UNCHANGED promised

\* It finds nothing, or cannot read it.  ensureToken takes either for a token
\* that was never made, and draws one.
Missing(p) ==
    LET c == call[p] IN
    \/ c.op = "get" /\ Fail(p)
    \/ /\ c.op = "ensure"
       /\ \E w \in Value :
             /\ Fresh(w)
             /\ call' = [call EXCEPT ![p] = [@ EXCEPT !.at = "keychain", !.op = "rotate",
                                                      !.value = w]]
             /\ promised' = [promised EXCEPT ![c.name] = @ \cup {w}]
       /\ UNCHANGED held

GetKeychain(p) ==
    LET saved == keychain[call[p].name] IN
    /\ call[p].at = "keychain" /\ call[p].op \in {"get", "ensure"}
    /\ \/ TRUE \in Reachable /\ saved # None /\ Found(p, saved)
       \/ /\ FALSE \in Reachable \/ saved = None
          /\ Goto(p, "read")
          /\ UNCHANGED <<promised, held>>
    /\ UNCHANGED <<storage, history, shadowed>>

\* Mutant: the fallback file is not read.
MutLookup(p) == None

Lookup(p) == IF fallback = Torn THEN None ELSE Contents[call[p].name]

GetFallback(p) ==
    /\ call[p].at = "read" /\ call[p].op \in {"get", "ensure"}
    /\ IF Lookup(p) = None THEN Missing(p) ELSE Found(p, Lookup(p))
    /\ UNCHANGED <<storage, history, shadowed>>

-----------------------------------------------------------------------------
(* Set and Delete *)

\* The keychain takes the change or refuses it; Delete does not look.
ChangeKeychain(p) ==
    LET c == call[p] IN
    /\ c.at = "keychain" /\ c.op \in {"set", "rotate", "delete"}
    /\ \/ /\ TRUE \in Reachable
          /\ keychain' = [keychain EXCEPT ![c.name] = c.value]
          /\ shadowed' = shadowed \ {c.name}
          /\ call' = [call EXCEPT ![p] = [@ EXCEPT !.at = "read", !.values = Empty]]
       \/ /\ FALSE \in Reachable
          /\ shadowed' = IF keychain[c.name] = None THEN shadowed ELSE shadowed \cup {c.name}
          /\ call' = [call EXCEPT ![p] = [@ EXCEPT !.at = "read",
                                                   !.values = [Empty EXCEPT ![c.name] = c.value]]]
          /\ UNCHANGED keychain
    /\ UNCHANGED <<fallback, held, promised, history>>

\* Mutant: what the keychain took is left in the file.
MutLeave(p) ==
    IF call[p].values = Empty /\ call[p].op # "delete" THEN "done" ELSE "truncate"

\* What is left to do with the file, by the contents just read: add the
\* value the keychain refused, or remove the name.
Plan(p) ==
    LET c == call[p]
        left == [Contents EXCEPT ![c.name] = c.values[c.name]]
    IN CASE c.op # "delete" /\ Contents[c.name] = None /\ left = Contents -> "done"
         [] left = Empty -> "remove"
         [] OTHER -> "truncate"

ReadForChange(p) ==
    LET c == call[p] IN
    /\ c.at = "read" /\ c.op \in {"set", "rotate", "delete"}
    /\ \/ fallback = Torn /\ Fail(p)
       \/ /\ fallback # Torn /\ Plan(p) = "done"
          /\ Succeed(p)
       \/ /\ fallback # Torn /\ Plan(p) # "done"
          /\ call' = [call EXCEPT ![p] =
                        [@ EXCEPT !.at = Plan(p),
                                  !.values = [Contents EXCEPT ![c.name] = c.values[c.name]]]]
          /\ UNCHANGED <<promised, held>>
    /\ UNCHANGED <<storage, history, shadowed>>

\* The file is opened with O_TRUNC and written through that descriptor.
Truncate(p) ==
    /\ call[p].at = "truncate"
    /\ fallback' = Torn
    /\ Goto(p, "fill")
    /\ UNCHANGED <<keychain, held, promised, history, shadowed>>

\* What another process wrote since then may stick out behind the new text;
\* if it removed the file, the descriptor leads to none, and one that was
\* created anew stays as it is.
Fill(p) ==
    /\ call[p].at = "fill"
    /\ \/ fallback # NoFile /\ fallback' = call[p].values
       \/ fallback # Torn /\ fallback' \in {fallback, IF fallback = NoFile THEN NoFile ELSE Torn}
    /\ Succeed(p)
    /\ UNCHANGED <<keychain, history, shadowed>>

\* The last entry goes with the file.  A file that is gone is an error for
\* Set, not for Delete.
Remove(p) ==
    /\ call[p].at = "remove"
    /\ fallback' = NoFile
    /\ IF fallback = NoFile /\ call[p].op # "delete" THEN Fail(p) ELSE Succeed(p)
    /\ UNCHANGED <<keychain, history, shadowed>>

-----------------------------------------------------------------------------
Step(p) ==
    \/ \E op \in Operation, n \in Secret, v \in Entry : Begin(p, op, n, v)
    \/ Exit(p)
    \/ GetKeychain(p) \/ GetFallback(p)
    \/ ChangeKeychain(p) \/ ReadForChange(p)
    \/ Truncate(p) \/ Fill(p) \/ Remove(p)

Next == \E p \in Process : Step(p)

Spec == Init /\ [][Next]_vars

-----------------------------------------------------------------------------
(* Properties *)

\* What was saved last is what is found, what was deleted is gone, and no
\* call disturbs another name: whatever a Get can return is what the last
\* call on that name promised, or, when that call failed or died half-way,
\* what was there before.  A keychain that comes and goes may hide a secret,
\* never bring an older one back (Set 45-47).  It does not hold of a name
\* whose keychain entry refused a change (41-60, 94), of a file that a crash
\* left empty (79), nor once two processes were in the store at once.
AnswersArePromised ==
    ~overlapped /\ fallback # Torn =>
        \A n \in Secret \ shadowed :
            Answers(n) \subseteq promised[n] \cup (IF mode = "flaky" THEN {None} ELSE {})

\* The daemon and the commands that run beside it hold the same token, which
\* is the one saved: no start and no command replaces the token of a daemon
\* that runs (ensureToken 97-102).
TokensAgree ==
    ~overlapped /\ fallback # Torn /\ mode # "flaky" =>
        \A p \in Process, t \in Token : held[p][t] # None => Answers(t) = {held[p][t]}

=============================================================================
