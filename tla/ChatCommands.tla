---------------------------- MODULE ChatCommands ----------------------------
(***************************************************************************)
(* What a typed Telegram command means: the parsers of                     *)
(* internal/telegram/bot.go and the names they look devices up by.  A      *)
(* message is a sequence of words; a word stands for its spelling in upper *)
(* and lower case.                                                         *)
(***************************************************************************)
EXTENDS Naturals, FiniteSets, SequencesExt

CONSTANTS
    Device,        \* IDs, each typed as one word
    Name,          \* names, as sequences of words
    FactoryName,   \* the name each device was discovered with
    NoAlias,       \* the device was not renamed
    NoDevice,      \* a reference that resolves to no device, or to several
    Remote         \* the TVs with a local adapter

ASSUME ChatAssumption ==
    /\ FactoryName \in [Device -> Name]
    /\ \A name \in Name : name \in Seq(Range(name)) /\ name # <<>>   \* Rename, Discover
    /\ NoAlias \notin Name /\ NoDevice \notin Device
    /\ Remote \subseteq Device

VARIABLES
    alias,    \* the name each device was given
    listed    \* what List returns: some devices may be hidden

\* findDevice: an ID first, then a name that is one device's only.
FindDevice(reference) ==
    LET named == {d \in listed : reference \in {alias[d], FactoryName[d]}}
    IN IF \E d \in listed : reference = <<d>> THEN reference[1]
       ELSE IF Cardinality(named) = 1 THEN CHOOSE d \in named : TRUE ELSE NoDevice

Command(device, action, value) == [device |-> device, action |-> action, value |-> value]
Nothing == Command(NoDevice, "none", "none")

\* A command that names no device is refused.
For(reference, command) ==
    LET device == FindDevice(reference)
    IN IF device = NoDevice THEN Nothing ELSE [command EXCEPT !.device = device]

ActionWord ==
    {"help", "status", "power", "on", "off", "volume_up", "volume_down", "volume", "vol",
     "mute", "key", "source", "channel", "play", "pause", "up", "down", "left", "right",
     "enter", "back", "home"}
KeyOf ==
    [play |-> "PLAY", pause |-> "PLAY", up |-> "UP", down |-> "DOWN", left |-> "LEFT",
     right |-> "RIGHT", enter |-> "ENTER", back |-> "RETURN", home |-> "HOME"]
ActionOf ==
    [status |-> "status", on |-> "power_on", off |-> "power_off", mute |-> "mute",
     volume_up |-> "volume_up", volume_down |-> "volume_down"]

\* The words that start with a sign, and those that Atoi reads as 1 to 20.
Relative == [word \in {"+3", "-3"} |-> <<IF word = "+3" THEN "volume_up" ELSE "volume_down", "3">>]
StepWord == {"1", "3", "20", "+3"}

Steps(action, values) ==
    CASE values = <<>> -> Command(NoDevice, action, "none")
      [] values # <<>> /\ values[1] \in StepWord -> Command(NoDevice, action, values[1])
      [] OTHER -> Nothing

Direction == [up |-> "volume_up", down |-> "volume_down"]

Level(word) ==
    IF word \in DOMAIN Relative THEN Command(NoDevice, Relative[word][1], Relative[word][2])
    ELSE Command(NoDevice, "volume_set", word)

\* The mutant passes the direction on as the number of steps.
MutVolume(values) ==
    CASE values = <<>> -> Nothing
      [] values # <<>> /\ values[1] \in DOMAIN Direction -> Steps(Direction[values[1]], values)
      [] OTHER -> Level(values[1])

\* volume up and volume down take a number of steps, one by default.
Volume(values) ==
    CASE values = <<>> -> Nothing
      [] values # <<>> /\ values[1] \in DOMAIN Direction ->
           Steps(Direction[values[1]], IF Len(values) = 1 THEN <<"1">> ELSE Tail(values))
      [] OTHER -> Level(values[1])

Action(word, values) ==
    CASE word \in DOMAIN KeyOf -> Command(NoDevice, "key", KeyOf[word])
      [] word \in {"volume", "vol"} -> Volume(values)
      [] word \in {"volume_up", "volume_down"} -> Steps(ActionOf[word], values)
      [] word \in {"status", "on", "off", "mute"} -> Command(NoDevice, ActionOf[word], "none")
      [] word \in {"key", "source", "channel"} /\ values # <<>> -> Command(NoDevice, word, values[1])
      [] OTHER -> Nothing

\* /tv <device> <action> ...: the device is what precedes the first word that
\* is an action; power is followed by the action itself.
FirstAction(words) == SelectInSeq(words, LAMBDA w : w \in ActionWord)
Tv(args) ==
    LET at == FirstAction(args)
        rest == SubSeq(args, at + 1, Len(args))
        command == CASE args[at] # "power" -> Action(args[at], rest)
                     [] args[at] = "power" /\ rest # <<>> -> Action(rest[1], Tail(rest))
                     [] OTHER -> Nothing
    IN IF at <= 1 \/ command = Nothing THEN Nothing
       ELSE For(SubSeq(args, 1, at - 1), command)

Power(args) ==
    IF Len(args) < 2 \/ Last(args) \notin {"on", "off"} THEN Nothing
    ELSE For(Front(args), Command(NoDevice, ActionOf[Last(args)], "none"))

VolumeShortcut(args) ==
    IF Len(args) < 2 THEN Nothing ELSE For(Front(args), Level(Last(args)))

KeyShortcut(args) ==
    IF Len(args) < 2 THEN Nothing ELSE For(Front(args), Command(NoDevice, "key", Last(args)))

\* /mac takes an ID and looks no name up.
MacAction == [status |-> "status", wake |-> "power_on", sleep |-> "power_off"]
Mac(args) ==
    IF Len(args) # 2 \/ args[2] \notin DOMAIN MacAction THEN Nothing
    ELSE Command(args[1], MacAction[args[2]], "none")

\* handle: the command that a message makes the manager execute.
Meaning(text) ==
    CASE text[1] \in {"/tv", "/device"} -> Tv(Tail(text))
      [] text[1] = "/power" -> Power(Tail(text))
      [] text[1] = "/volume" -> VolumeShortcut(Tail(text))
      [] text[1] = "/key" -> KeyShortcut(Tail(text))
      [] text[1] = "/mac" -> Mac(Tail(text))
      [] OTHER -> Nothing

\* The device whose keyboard answers a message.
Menu(text) ==
    LET device == FindDevice(Tail(text))
    IN CASE Len(text) = 1 -> NoDevice
         [] text[1] = "/remote" /\ device \in Remote -> device
         [] text[1] = "/tv" -> device
         [] OTHER -> NoDevice

\* Rename of internal/core/manager.go, for names that differ in more than
\* their punctuation: no other device may have the name.
Rename(d, name) ==
    /\ \A e \in Device \ {d} : name \notin {alias[e], FactoryName[e]}
    /\ alias' = [alias EXCEPT ![d] = name]

-----------------------------------------------------------------------------
(* What the bot's help promises *)

Promise(command, form, action, value) ==
    [command |-> command, form |-> form, action |-> action, value |-> value]
Promised ==
    {Promise("/tv", <<"status">>, "status", "none"), Promise("/tv", <<"mute">>, "mute", "none"),
     Promise("/tv", <<"power", "on">>, "power_on", "none"),
     Promise("/tv", <<"power", "off">>, "power_off", "none"),
     Promise("/tv", <<"volume", "up">>, "volume_up", "1"),
     Promise("/tv", <<"volume", "up", "3">>, "volume_up", "3"),
     Promise("/tv", <<"volume", "down">>, "volume_down", "1"),
     Promise("/tv", <<"volume", "-3">>, "volume_down", "3"),
     Promise("/tv", <<"volume", "20">>, "volume_set", "20"),
     Promise("/tv", <<"key", "HOME">>, "key", "HOME"),
     Promise("/power", <<"off">>, "power_off", "none"),
     Promise("/volume", <<"+3">>, "volume_up", "3"),
     Promise("/volume", <<"20">>, "volume_set", "20"),
     Promise("/key", <<"LEFT">>, "key", "LEFT")}

\* What a device is called by: its ID, and a name that is no other device's.
Callable(d) == {n \in {<<d>>, alias[d], FactoryName[d]} \ {NoAlias} : FindDevice(n) = d}

\* Every form that the bot's help lists does what the help says, to the
\* device it is typed with, by ID or by a name that is only that device's
\* (tvHelp, commandReference and the usage lines of bot.go against handle).
\* The exception is /tv with a name in which a word is an action, such as
\* "Home TV": tvHelp prints those forms all the same, and handle cuts the name
\* at that word.  Nothing is done then, or something else to the device that
\* has the words before it as its name; never to a third one.
HelpIsTrue ==
    \A d \in listed : \A n \in Callable(d) : \A p \in Promised :
        LET does == Meaning(<<p.command>> \o n \o p.form)
            at == FirstAction(n)
        IN IF p.command = "/tv" /\ at # 0
           THEN does = Nothing \/ (at > 1 /\ does.device = FindDevice(SubSeq(n, 1, at - 1)))
           ELSE does = Command(d, p.action, p.value)
=============================================================================
