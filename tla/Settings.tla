------------------------------ MODULE Settings ------------------------------
(***************************************************************************)
(* The configuration file of internal/config/config.go and those who write *)
(* it: the settings requests of the dashboard (internal/api/server.go),    *)
(* which also change the daemon's own copy and the manager's, and the      *)
(* setup of internal/cli/cli.go, which saves the whole file as it was read *)
(* when it began.  Each file operation and each copy is a step.            *)
(***************************************************************************)
EXTENDS Naturals

CONSTANTS
    Request,    \* settings requests of the dashboard
    Flag,       \* the kinds of device that may be shown
    Asked,      \* those that setup asks about
    Rest,       \* contents of the other sections
    NoRest,     \* those of a file that was never written
    NoFile,     \* there is no file
    Torn        \* the file is empty, or ends before its text does

Shown == [Flag -> BOOLEAN]
Config == [shown : Shown, rest : Rest]

ASSUME SettingsAssumption ==
    /\ Asked \subseteq Flag
    /\ NoRest \in Rest
    /\ {NoFile, Torn} \cap Config = {}

VARIABLES
    file,      \* config.json
    up,        \* whether the daemon runs
    shared,    \* Server.settings
    visible,   \* the flags of the manager
    request,   \* where each request is
    setup,     \* where setup is
    expected,  \* history: what was asked for last, flag by flag, until lost
    stale,     \* history: setup saved while the daemon ran
    mixed,     \* history: two requests of this daemon overlapped
    lost       \* history: a request or setup began while another was at work,
               \* or a request while stale

vars == <<file, up, shared, visible, request, setup, expected, stale, mixed, lost>>
copies == <<up, shared, visible>>

Default == [shown |-> [f \in Flag |-> TRUE], rest |-> NoRest]
Idle == [at |-> "idle", config |-> Default, named |-> {}]
NoSetup == [at |-> "idle", config |-> Default]
Point == {"load", "truncate", "write", "share", "tell"}

TypeOK ==
    /\ file \in Config \cup {NoFile, Torn}
    /\ up \in BOOLEAN
    /\ {shared, visible} \subseteq Shown
    /\ request \in [Request -> [at : Point \cup {"idle"}, config : Config, named : SUBSET Flag]]
    /\ setup \in [at : {"idle", "asking", "truncate", "write"}, config : Config]
    /\ expected \in Config
    /\ {stale, mixed, lost} \subseteq BOOLEAN

Working == {r \in Request : request[r] # Idle}

\* Load: what is missing has its default.
Loaded == IF file = NoFile THEN Default ELSE file

Init ==
    /\ file \in {NoFile} \cup {[Default EXCEPT !.rest = x] : x \in Rest}
    /\ up = FALSE
    /\ shared = Default.shown /\ visible = Default.shown
    /\ request = [r \in Request |-> Idle]
    /\ setup = NoSetup
    /\ expected = Loaded
    /\ stale = FALSE /\ mixed = FALSE /\ lost = FALSE

-----------------------------------------------------------------------------
(* The daemon *)

\* It does not start on a file it cannot parse.
Start ==
    /\ ~up /\ file # Torn
    /\ up' = TRUE
    /\ shared' = Loaded.shown /\ visible' = Loaded.shown
    /\ UNCHANGED <<file, request, setup, expected, stale, mixed, lost>>

\* It ends or is killed, with its requests wherever they are.
End ==
    /\ up
    /\ up' = FALSE
    /\ request' = [r \in Request |-> Idle]
    /\ shared' = Default.shown /\ visible' = Default.shown
    /\ stale' = FALSE /\ mixed' = FALSE
    /\ UNCHANGED <<file, setup, expected, lost>>

-----------------------------------------------------------------------------
(* A settings request *)

Goto(r, at) == request' = [request EXCEPT ![r].at = at]
Finish(r) == request' = [request EXCEPT ![r] = Idle]

\* Mutant: a flag that the request does not name is turned off.
MutPatched(patch) == [f \in Flag |-> f \in DOMAIN patch /\ patch[f]]

\* decodeSettings: the flags of the request over the daemon's copy.
Patched(patch) == [f \in Flag |-> IF f \in DOMAIN patch THEN patch[f] ELSE shared[f]]

Decode(r, patch) ==
    /\ up /\ request[r] = Idle
    /\ request' = [request EXCEPT ![r] =
                     [at |-> "load", config |-> [Default EXCEPT !.shown = Patched(patch)],
                      named |-> DOMAIN patch]]
    /\ mixed' = (mixed \/ Working # {})
    /\ lost' = (lost \/ Working # {} \/ setup # NoSetup \/ stale)
    /\ expected' = IF lost' THEN Default ELSE expected
    /\ UNCHANGED <<file, copies, setup, stale>>

\* The other sections are read again from the file.  A request that cannot
\* read it changes nothing.
Load(r) ==
    /\ request[r].at = "load"
    /\ \/ /\ file = Torn
          /\ Finish(r)
       \/ /\ file # Torn
          /\ request' = [request EXCEPT ![r].at = "truncate", ![r].config.rest = Loaded.rest]
    /\ UNCHANGED <<file, copies, setup, expected, stale, mixed, lost>>

\* What is expected when the flags of F and the other sections are replaced.
Asking(F, shown, rest) ==
    IF lost THEN Default
    ELSE [shown |-> [f \in Flag |-> IF f \in F THEN shown[f] ELSE expected.shown[f]],
          rest |-> rest]

\* Save: the file is truncated, then written.
Truncate(r) ==
    /\ request[r].at = "truncate"
    /\ file' = Torn
    /\ Goto(r, "write")
    /\ UNCHANGED <<copies, setup, expected, stale, mixed, lost>>

Write(r) ==
    /\ request[r].at = "write"
    /\ \/ /\ file' = request[r].config
          /\ expected' = Asking(request[r].named, request[r].config.shown, expected.rest)
          /\ Goto(r, "share")
       \/ /\ file' = Torn
          /\ Finish(r)
          /\ UNCHANGED expected
    /\ UNCHANGED <<copies, setup, stale, mixed, lost>>

Share(r) ==
    /\ request[r].at = "share"
    /\ shared' = request[r].config.shown
    /\ Goto(r, "tell")
    /\ UNCHANGED <<file, up, visible, setup, expected, stale, mixed, lost>>

\* Mutant: the manager is told of new flags only when they hide something.
MutTold(r) == [f \in Flag |-> visible[f] /\ request[r].config.shown[f]]

Told(r) == request[r].config.shown

\* SetInventoryVisibility
Tell(r) ==
    /\ request[r].at = "tell"
    /\ visible' = Told(r)
    /\ Finish(r)
    /\ UNCHANGED <<file, up, shared, setup, expected, stale, mixed, lost>>

-----------------------------------------------------------------------------
(* Setup *)

\* Every command loads the file first, and fails on one it cannot parse.
Ask ==
    /\ setup = NoSetup /\ file # Torn
    /\ setup' = [at |-> "asking", config |-> Loaded]
    /\ lost' = (lost \/ Working # {})
    /\ expected' = IF lost' THEN Default ELSE expected
    /\ UNCHANGED <<file, copies, request, stale, mixed>>

\* The answers: some flags and the other sections anew.
Answer(shown, rest) ==
    /\ setup.at = "asking"
    /\ \A f \in Flag \ Asked : shown[f] = setup.config.shown[f]
    /\ setup' = [at |-> "truncate", config |-> [shown |-> shown, rest |-> rest]]
    /\ UNCHANGED <<file, copies, request, expected, stale, mixed, lost>>

\* The user cancels, or the Telegram token cannot be saved.
Cancel ==
    /\ setup.at \in {"asking", "truncate"}
    /\ setup' = NoSetup
    /\ UNCHANGED <<file, copies, request, expected, stale, mixed, lost>>

TruncateSetup ==
    /\ setup.at = "truncate"
    /\ file' = Torn
    /\ setup' = [setup EXCEPT !.at = "write"]
    /\ UNCHANGED <<copies, request, expected, stale, mixed, lost>>

\* The file is written, or setup is killed before.
SaveSetup ==
    /\ setup.at = "write"
    /\ setup' = NoSetup
    /\ \/ UNCHANGED <<file, expected, stale>>
       \/ /\ file' = setup.config
          /\ expected' = Asking(Asked, setup.config.shown, setup.config.rest)
          /\ stale' = up
    /\ UNCHANGED <<copies, request, mixed, lost>>

-----------------------------------------------------------------------------
Patch == UNION {[F -> BOOLEAN] : F \in (SUBSET Flag) \ {{}}}

Next ==
    \/ Start \/ End
    \/ \E r \in Request :
          \/ \E patch \in Patch : Decode(r, patch)
          \/ Load(r) \/ Truncate(r) \/ Write(r) \/ Share(r) \/ Tell(r)
    \/ Ask \/ Cancel \/ TruncateSetup \/ SaveSetup
    \/ \E shown \in Shown, rest \in Rest : Answer(shown, rest)

Spec == Init /\ [][Next]_vars

-----------------------------------------------------------------------------
(* Properties *)

\* The file holds every flag and every section as they were last asked for: a
\* request for one flag disturbs neither the other flags nor what setup saved,
\* and setup none of the flags it does not ask about (decodeSettings,
\* updateSettings, runSetup).  This fails once two of them overlap, and when
\* the dashboard changes a flag after setup without a restart between: it
\* then writes the flags as the daemon knew them.
NothingReverted == ~lost /\ file # Torn => Loaded = expected

\* Between requests the daemon answers with the flags the manager lists by,
\* and they are those of the file, after failed requests, crashes and
\* restarts as well; overlapping requests are forgotten by a restart
\* (updateSettings, runDaemon).
CopiesAgree ==
    up /\ Working = {} /\ ~mixed =>
        shared = visible /\ (stale \/ file = Torn \/ shared = Loaded.shown)

=============================================================================
