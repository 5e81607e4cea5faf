------------------------------ MODULE Telegram ------------------------------
(***************************************************************************)
(* The bot of internal/telegram/bot.go.  Telegram keeps the updates that   *)
(* users cause until a request names an offset beyond them; the bot asks   *)
(* for updates, handles what it gets one by one, and keeps its offset and  *)
(* the devices behind its buttons in memory only.                          *)
(***************************************************************************)
EXTENDS ChatCommands

CONSTANTS
    Text,         \* what users type
    Label,        \* the buttons they tap: subset of the domain of Data
    Digest,       \* callbackAlias: a short name for each device
    MaxUpdates, MaxRestarts, MaxChanges

\* Four bytes of a SHA-256 digest: taken to differ between devices.
ASSUME DigestAssumption ==
    \A d, e \in Device : Digest[d] = Digest[e] => d = e

VARIABLES
    updates,     \* Telegram: all updates; the ID of one is its position
    confirmed,   \* Telegram: how many it has forgotten
    at,          \* the bot: where Run is
    offset,      \* the bot: the first update it has not taken, less one
    batch,       \* the bot: IDs of the answer it is handling
    buttons,     \* the bot: callbackDevices
    cancelled,   \* the daemon was told to stop
    keyboards,   \* devices and aliases of the keyboards that users have
    run,         \* runs of the daemon, the current one included
    changes,     \* renames and scans so far
    executed,    \* history: commands given to the manager
    handled      \* history: updates handled to their end

bot == <<at, offset, batch, buttons, cancelled>>
telegram == <<updates, confirmed, keyboards>>
inventory == <<alias, listed, changes>>
history == <<run, executed, handled>>
vars == <<bot, telegram, inventory, history>>

\* The data of each button, split at its colons, and what its label says.
Data ==
    [status |-> <<"status">>, wake |-> <<"on">>, off |-> <<"off">>, louder |-> <<"vu">>,
     softer |-> <<"vd">>, mute |-> <<"mute">>, up |-> <<"key", "UP">>, ok |-> <<"key", "ENTER">>]

ASSUME LabelAssumption == Label \subseteq DOMAIN Data

Says ==
    [status |-> <<"status", "none">>, wake |-> <<"power_on", "none">>, off |-> <<"power_off", "none">>,
     louder |-> <<"volume_up", "none">>, softer |-> <<"volume_down", "none">>, mute |-> <<"mute", "none">>,
     up |-> <<"key", "UP">>, ok |-> <<"key", "ENTER">>]

\* Ignored stands for an update that is neither, and for what comes from a
\* user and a chat that are both not allowed (authorized).
Message(text) == [kind |-> "message", text |-> text]
Tap(k, label) == [kind |-> "tap", keyboard |-> k, label |-> label]
Ignored == [kind |-> "ignored"]

Init ==
    /\ alias = [d \in Device |-> NoAlias] /\ listed = Device
    /\ updates = <<>> /\ confirmed = 0 /\ keyboards = {}
    /\ at = "down" /\ offset = 0 /\ batch = <<>> /\ buttons = <<>> /\ cancelled = FALSE
    /\ run = 0 /\ changes = 0 /\ executed = <<>> /\ handled = {}

-----------------------------------------------------------------------------
(* The users, and the rest of the daemon *)

Arrive(update) ==
    /\ Len(updates) < MaxUpdates
    /\ updates' = Append(updates, update)
    /\ UNCHANGED <<confirmed, keyboards, bot, inventory, history>>

Send ==
    \/ \E text \in Text : Arrive(Message(text))
    \/ \E k \in keyboards, label \in Label : Arrive(Tap(k, label))
    \/ Arrive(Ignored)

Changed == changes < MaxChanges /\ changes' = changes + 1

Renamed ==
    /\ Changed
    /\ \E d \in Device, name \in Name : Rename(d, name)
    /\ UNCHANGED <<listed, bot, telegram, history>>

-----------------------------------------------------------------------------
(* Run *)

\* The mutant skips what was sent while the bot was down.
MutStart ==
    /\ at = "down" /\ run <= MaxRestarts
    /\ run' = run + 1
    /\ at' = "poll" /\ offset' = Len(updates)
    /\ UNCHANGED <<batch, buttons, cancelled, telegram, inventory, executed, handled>>

\* main starts the bot in a goroutine; it refuses only an empty token or list.
Start ==
    /\ at = "down" /\ run <= MaxRestarts
    /\ run' = run + 1
    /\ at' = "poll"
    /\ UNCHANGED <<offset, batch, buttons, cancelled, telegram, inventory, executed, handled>>

Cancel ==
    /\ at # "down" /\ ~cancelled /\ run <= MaxRestarts
    /\ cancelled' = TRUE
    /\ UNCHANGED <<at, offset, batch, buttons, telegram, inventory, history>>

\* With the bot goes what it kept in memory.
Gone == at' = "down" /\ offset' = 0 /\ batch' = <<>> /\ buttons' = <<>> /\ cancelled' = FALSE

\* The daemon does not wait for the bot when it ends.
Die ==
    /\ at # "down" /\ run <= MaxRestarts
    /\ Gone
    /\ UNCHANGED <<telegram, inventory, history>>

\* A request with an offset makes Telegram forget what precedes it, even when
\* its answer is lost.
Asked(to) == confirmed' = IF to > confirmed THEN to ELSE confirmed

Fetched ==
    /\ at = "poll" /\ ~cancelled
    /\ Asked(offset)
    /\ batch' = SubSeq([i \in DOMAIN updates |-> i], confirmed' + 1, Len(updates))
    /\ at' = IF batch' = <<>> THEN "poll" ELSE "handle"
    /\ UNCHANGED <<offset, buttons, cancelled, updates, keyboards, inventory, history>>

\* The mutant gives up.
MutPollFailed ==
    /\ at = "poll" /\ ~cancelled
    /\ Asked(offset) \/ confirmed' = confirmed
    /\ at' = "returned"
    /\ UNCHANGED <<offset, batch, buttons, cancelled, updates, keyboards, inventory, history>>

PollFailed ==
    /\ at = "poll" /\ ~cancelled
    /\ Asked(offset) \/ confirmed' = confirmed
    /\ at' = "wait"
    /\ UNCHANGED <<offset, batch, buttons, cancelled, updates, keyboards, inventory, history>>

\* The three seconds pass.
Retry ==
    /\ at = "wait" /\ ~cancelled
    /\ at' = "poll"
    /\ UNCHANGED <<offset, batch, buttons, cancelled, telegram, inventory, history>>

Return ==
    /\ at \in {"poll", "wait"} /\ cancelled
    /\ Gone
    /\ UNCHANGED <<telegram, inventory, history>>

-----------------------------------------------------------------------------
(* Handling an update *)

Now == batch[1]
Update == updates[Now]
\* The mutant asks for the update it has just handled again.
MutTaken == offset' = IF Now > offset THEN Now - 1 ELSE offset
Taken == offset' = IF Now > offset THEN Now ELSE offset

Finished ==
    /\ handled' = handled \cup {Now}
    /\ batch' = Tail(batch)
    /\ at' = IF Tail(batch) = <<>> THEN "poll" ELSE "handle"

Ignore ==
    /\ at = "handle" /\ Update.kind = "ignored"
    /\ Taken /\ Finished
    /\ UNCHANGED <<buttons, cancelled, telegram, inventory, run, executed>>

\* Execute of the manager: a device it does not know is refused, and so may be
\* a command of a daemon that is stopping.
Execute(command) ==
    LET entry == [update |-> Now, run |-> run, command |-> command]
    IN \/ /\ command.device \in Device
          /\ executed' = Append(executed, entry)
       \/ /\ command.device \notin Device \/ cancelled
          /\ executed' = executed

\* handleCallback: the alias is looked up in the map of this run.
Pressed(k, label) ==
    LET data == Data[label]
        device == IF k.alias \in DOMAIN buttons THEN buttons[k.alias] ELSE NoDevice
        action == [status |-> "status", on |-> "power_on", off |-> "power_off",
                   vu |-> "volume_up", vd |-> "volume_down", mute |-> "mute"]
    IN IF data[1] = "key" THEN Command(device, "key", data[2])
       ELSE Command(device, action[data[1]], "none")

HandleTap ==
    /\ at = "handle" /\ Update.kind = "tap"
    /\ Execute(Pressed(Update.keyboard, Update.label))
    /\ Taken /\ Finished
    /\ UNCHANGED <<buttons, cancelled, telegram, inventory, run>>

\* handle, and then the answer in a step of its own.
HandleMessage ==
    /\ at = "handle" /\ Update.kind = "message"
    /\ Execute(Meaning(Update.text))
    /\ \/ Update.text = <<"/scan">> /\ Changed /\ listed' \in SUBSET Device
       \/ UNCHANGED <<listed, changes>>
    /\ Taken
    /\ at' = "answer"
    /\ UNCHANGED <<alias, batch, buttons, cancelled, telegram, run, handled>>

\* The mutant numbers the aliases of a run.
MutCallbackAlias(d) == Cardinality(DOMAIN buttons) + 1
CallbackAlias(d) == Digest[d]
Remember(d) ==
    buttons' = [h \in DOMAIN buttons \cup {CallbackAlias(d)} |->
                  IF h = CallbackAlias(d) THEN d ELSE buttons[h]]
Keyboard(d) == [device |-> d, alias |-> CallbackAlias(d)]

\* The answer may not arrive.
Answer ==
    /\ at = "answer"
    /\ \/ /\ Menu(Update.text) # NoDevice
          /\ Remember(Menu(Update.text))
          /\ keyboards' \in {keyboards, keyboards \cup {Keyboard(Menu(Update.text))}}
       \/ /\ Menu(Update.text) = NoDevice
          /\ UNCHANGED <<buttons, keyboards>>
    /\ Finished
    /\ UNCHANGED <<offset, cancelled, updates, confirmed, inventory, run, executed>>

-----------------------------------------------------------------------------
Handle == Ignore \/ HandleTap \/ HandleMessage \/ Answer
Run == Fetched \/ PollFailed \/ Retry \/ Return \/ Handle
Next == Send \/ Renamed \/ Start \/ Cancel \/ Die \/ Run

\* The service manager starts the daemon again; a Go routine that can run runs;
\* requests that are repeated for ever do not all fail.
Fairness ==
    /\ WF_vars(Start) /\ WF_vars(Handle) /\ WF_vars(Retry) /\ WF_vars(Return)
    /\ SF_vars(Fetched)

Spec == Init /\ [][Next]_vars /\ Fairness

-----------------------------------------------------------------------------
TypeOK ==
    /\ at \in {"down", "poll", "wait", "handle", "answer"}
    /\ confirmed \in 0 .. Len(updates) /\ offset \in 0 .. Len(updates)
    /\ \A i \in DOMAIN batch : batch[i] \in DOMAIN updates
    /\ \A h \in DOMAIN buttons : buttons[h] \in Device
    /\ \A k \in keyboards : k.device \in Device
    /\ handled \subseteq DOMAIN updates

\* Telegram forgets an update only after the bot has handled it to its end:
\* the offset of an update is sent with the request that follows its batch, so
\* a crash in the middle of the batch or of a request loses nothing (Run).
NothingForgottenUnhandled == 1 .. confirmed \subseteq handled

\* In one run of the daemon no update is executed twice and none before an
\* earlier one, whatever requests and answers are lost (the offset of Run).
OncePerRun ==
    \A i, j \in DOMAIN executed :
        i < j /\ executed[i].run = executed[j].run => executed[i].update < executed[j].update

\* A tap does what the button says to the device whose keyboard it is on, or
\* nothing: also after a restart, with a keyboard of an earlier run, and after
\* the device was renamed (callbackAlias, handleCallback).
TapsKeepTheirDevice ==
    \A i \in DOMAIN executed :
        LET u == updates[executed[i].update]
        IN u.kind = "tap" =>
              executed[i].command = Command(u.keyboard.device, Says[u.label][1], Says[u.label][2])

\* Every update is handled in the end, although requests fail and the daemon
\* stops and is started again (the retry of Run, the offset kept by Telegram):
\* again and again none is left.
AllHandled == []<>(DOMAIN updates \subseteq handled)

-----------------------------------------------------------------------------
(* Bot and service implement a queue that delivers at least once.  The     *)
(* offset passes an update before it is answered, and is zero after a      *)
(* restart, when what is behind is what Telegram has forgotten.            *)

Behind ==
    CASE at = "answer" -> offset - 1
      [] at # "answer" /\ offset > confirmed -> offset
      [] OTHER -> confirmed

Queue == INSTANCE UpdateQueue WITH
             sent <- Len(updates), forgotten <- confirmed, behind <- Behind

\* Updates are handled in their order and without a gap, and acknowledged only
\* when they are behind, in every run of the daemon (Run, getUpdates).
ImplementsQueue == Queue!Spec
=============================================================================
