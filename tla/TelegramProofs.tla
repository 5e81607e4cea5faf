---------------------------- MODULE TelegramProofs ----------------------------
(***************************************************************************)
(* What the bot does with the updates it is given, for any devices, names, *)
(* updates, restarts and lost requests.                                    *)
(***************************************************************************)
EXTENDS Telegram, SequenceTheorems, FiniteSetTheorems, WellFoundedInduction, TLAPS

AnyKeyboard == {Keyboard(d) : d \in Device}
AnyUpdate ==
    {Message(text) : text \in Text} \cup {Tap(k, label) : k \in AnyKeyboard, label \in Label}
    \cup {Ignored}

Shapes ==
    /\ updates \in Seq(AnyUpdate)
    /\ confirmed \in 0 .. Len(updates) /\ offset \in 0 .. Len(updates)
    /\ batch \in Seq(Nat)
    /\ at \in {"down", "poll", "wait", "handle", "answer"}
    /\ keyboards \subseteq AnyKeyboard
    /\ listed \subseteq Device
    /\ run \in Nat
    /\ handled \subseteq 1 .. Len(updates)

\* A batch runs without a gap up to an update that there is.
Batch ==
    /\ batch # <<>> <=> at \in {"handle", "answer"}
    /\ \A k \in 1 .. Len(batch) : batch[k] = batch[1] + k - 1
    /\ batch # <<>> => batch[1] >= 1 /\ batch[1] + Len(batch) - 1 <= Len(updates)

\* What Telegram has forgotten, and what the bot has left behind, is handled;
\* the offset has passed the update at hand only when its answer is due.
Progress ==
    /\ 1 .. confirmed \subseteq handled
    /\ at \in {"poll", "wait"} => 1 .. offset \subseteq handled
    /\ at = "down" => offset = 0
    /\ at \in {"handle", "answer"} => \A u \in 1 .. Len(updates) : u < Now => u \in handled
    /\ at = "handle" => offset < Now
    /\ at = "answer" => offset = Now

\* The commands of this run come from updates that are behind.
Order ==
    /\ executed \in Seq(Range(executed))
    /\ \A i \in 1 .. Len(executed) :
          /\ executed[i].update \in 1 .. Len(updates)
          /\ executed[i].run \in Nat /\ executed[i].run <= run
          /\ executed[i].run = run /\ at \in {"poll", "wait"} => executed[i].update <= offset
          /\ executed[i].run = run /\ at = "handle" => executed[i].update < Now
          /\ executed[i].run = run /\ at = "answer" => executed[i].update <= Now
    /\ \A i, j \in 1 .. Len(executed) :
          i < j /\ executed[i].run = executed[j].run => executed[i].update < executed[j].update

\* A short name stands for one device, in this run and in any earlier one.
Aliases ==
    \A h \in DOMAIN buttons : buttons[h] \in Device /\ h = Digest[buttons[h]]

IInv == Shapes /\ Batch /\ Progress /\ Order /\ Aliases /\ TapsKeepTheirDevice

-----------------------------------------------------------------------------
(* Helpers *)

\* One more element leaves the others where they are.
LEMMA AppendFacts ==
    ASSUME NEW s, s \in Seq(Range(s)), NEW e
    PROVE  /\ Len(s) \in Nat /\ DOMAIN s = 1 .. Len(s)
           /\ Len(Append(s, e)) = Len(s) + 1
           /\ \A i \in 1 .. Len(s) : Append(s, e)[i] = s[i]
           /\ Append(s, e)[Len(s) + 1] = e
           /\ Append(s, e) \in Seq(Range(Append(s, e)))
           /\ DOMAIN Append(s, e) = 1 .. Len(s) + 1
<1>1. s \in Seq(Range(s) \cup {e})
  BY SeqMonotonic
<1>2. /\ Append(s, e) \in Seq(Range(s) \cup {e})
      /\ Len(Append(s, e)) = Len(s) + 1
      /\ \A i \in 1 .. Len(s) : Append(s, e)[i] = s[i]
      /\ Append(s, e)[Len(s) + 1] = e
  BY <1>1, AppendProperties
<1>3. Append(s, e) \in Seq(Range(Append(s, e)))
  BY <1>2, SeqOfRange
<1>4. Len(s) \in Nat /\ DOMAIN s = 1 .. Len(s)
  BY <1>1, LenProperties
<1>5. DOMAIN Append(s, e) = 1 .. Len(s) + 1
  BY <1>2, LenProperties
<1> QED
  BY <1>2, <1>3, <1>4, <1>5

\* A name resolves to a device or to none.
LEMMA FindType ==
    ASSUME NEW reference, listed \subseteq Device
    PROVE  FindDevice(reference) \in Device \cup {NoDevice}
<1> DEFINE named == {d \in listed : reference \in {alias[d], FactoryName[d]}}
<1>1. CASE \E d \in listed : reference = <<d>>
  BY <1>1 DEF FindDevice
<1>2. CASE Cardinality(named) = 1 /\ ~ \E d \in listed : reference = <<d>>
  <2>1. named # {}
    BY <1>2, FS_EmptySet
  <2>2. (CHOOSE d \in named : TRUE) \in named
    BY <2>1
  <2> QED
    BY <2>2, <1>2 DEF FindDevice
<1> QED
  BY <1>1, <1>2 DEF FindDevice

LEMMA MenuType ==
    ASSUME NEW text, listed \subseteq Device, Menu(text) # NoDevice
    PROVE  Menu(text) \in Device
<1>1. FindDevice(Tail(text)) \in Device \cup {NoDevice}
  BY FindType
<1> QED
  BY <1>1 DEF Menu

\* A tap that finds its device does what its button says.
LEMMA TapSays ==
    ASSUME NEW k, NEW label \in Label, k.alias \in DOMAIN buttons
    PROVE  Pressed(k, label) = Command(buttons[k.alias], Says[label][1], Says[label][2])
<1>1. label \in DOMAIN Data
  BY LabelAssumption
<1> QED
  BY <1>1 DEF Pressed, Data, Says, Command

\* One that does not find it names no device.
LEMMA TapOfNothing ==
    ASSUME NEW k, NEW label \in Label, k.alias \notin DOMAIN buttons
    PROVE  Pressed(k, label).device = NoDevice
BY DEF Pressed, Command

\* A tap is a tap on a keyboard that the bot has shown.
LEMMA TapShape ==
    ASSUME NEW u \in AnyUpdate, u.kind = "tap"
    PROVE  u.label \in Label /\ u.keyboard \in AnyKeyboard
BY DEF AnyUpdate, Message, Tap, Ignored

\* While an update is handled it is one of those there are.
LEMMA NowFacts ==
    ASSUME IInv, at \in {"handle", "answer"}
    PROVE  /\ Now \in 1 .. Len(updates) /\ Update \in AnyUpdate
           /\ batch # <<>> /\ Len(batch) \in Nat \ {0} /\ Len(updates) \in Nat
           /\ Tail(batch) \in Seq(Nat) /\ Len(Tail(batch)) = Len(batch) - 1
           /\ \A k \in 1 .. Len(Tail(batch)) : Tail(batch)[k] = Now + k
           /\ Tail(batch) # <<>> => Tail(batch)[1] = Now + 1 /\ Len(Tail(batch)) >= 1
<1>1. batch # <<>> /\ batch \in Seq(Nat) /\ updates \in Seq(AnyUpdate)
  BY DEF IInv, Shapes, Batch
<1>2. Len(batch) \in Nat \ {0} /\ Len(updates) \in Nat
  BY <1>1, EmptySeq, LenProperties
<1>3. Now \in 1 .. Len(updates)
  <2>1. Now \in Nat
    BY <1>1, <1>2, ElementOfSeq DEF Now
  <2> QED
    BY <1>2, <2>1, <1>1 DEF IInv, Batch, Now
<1>4. Update \in AnyUpdate
  BY <1>1, <1>3, ElementOfSeq DEF Update
<1>5. /\ Tail(batch) \in Seq(Nat) /\ Len(Tail(batch)) = Len(batch) - 1
      /\ \A k \in 1 .. Len(Tail(batch)) : Tail(batch)[k] = batch[k + 1]
  BY <1>1, HeadTailProperties
<1>6. \A k \in 1 .. Len(Tail(batch)) : Tail(batch)[k] = Now + k
  BY <1>2, <1>3, <1>5 DEF IInv, Batch, Now
<1>7. Tail(batch) # <<>> => Len(Tail(batch)) >= 1
  BY <1>5, EmptySeq
<1> QED
  BY <1>1, <1>2, <1>3, <1>4, <1>5, <1>6, <1>7

\* The update at hand is done: what IInv says of the queue holds of the next.
LEMMA FinishedKeeps ==
    ASSUME IInv, at \in {"handle", "answer"}, Finished, UNCHANGED <<updates, confirmed>>,
           offset' = Now
    PROVE  /\ batch' \in Seq(Nat) /\ at' \in {"poll", "handle"} /\ offset' \in 0 .. Len(updates)
           /\ Batch' /\ Progress' /\ handled' \subseteq 1 .. Len(updates)
           /\ at' = "handle" => Now' = Now + 1
<1>1. /\ Now \in 1 .. Len(updates)
      /\ batch # <<>> /\ Len(batch) \in Nat \ {0} /\ Len(updates) \in Nat
      /\ Tail(batch) \in Seq(Nat) /\ Len(Tail(batch)) = Len(batch) - 1
      /\ \A k \in 1 .. Len(Tail(batch)) : Tail(batch)[k] = Now + k
      /\ Tail(batch) # <<>> => Tail(batch)[1] = Now + 1 /\ Len(Tail(batch)) >= 1
  BY NowFacts
<1>2. /\ batch' = Tail(batch) /\ handled' = handled \cup {Now}
      /\ at' = IF Tail(batch) = <<>> THEN "poll" ELSE "handle"
      /\ batch'[1] = Tail(batch)[1]
  BY DEF Finished
<1>3. Now + Len(batch) - 1 <= Len(updates)
  BY <1>1 DEF IInv, Batch, Now
<1>4. Batch'
  <2>1. \A k \in 1 .. Len(batch') : batch'[k] = batch'[1] + k - 1
    <3> TAKE k \in 1 .. Len(batch')
    <3>1. Len(Tail(batch)) >= 1 /\ 1 \in 1 .. Len(Tail(batch)) /\ k \in 1 .. Len(Tail(batch))
      BY <1>1, <1>2
    <3>2. Tail(batch)[k] = Now + k /\ Tail(batch)[1] = Now + 1
      BY <3>1, <1>1
    <3> QED
      BY <3>1, <3>2, <1>1, <1>2
  <2>2. batch' # <<>> => batch'[1] >= 1 /\ batch'[1] + Len(batch') - 1 <= Len(updates')
    <3>1. batch' = Tail(batch) /\ updates' = updates
      BY <1>2
    <3>2. Now \in Nat /\ Len(batch) \in Nat
      BY <1>1
    <3> QED
      BY <3>1, <3>2, <1>1, <1>3
  <2> QED
    BY <2>1, <2>2, <1>2 DEF Batch
<1>5. at' = "handle" => Now' = Now + 1
  BY <1>1, <1>2 DEF Now
<1>6. \A u \in 1 .. Len(updates) : u < Now => u \in handled
  BY DEF IInv, Progress
<1>7. 1 .. Now \subseteq handled'
  BY <1>1, <1>2, <1>6
<1>8. Progress'
  <2>1. 1 .. confirmed' \subseteq handled'
    BY <1>2 DEF IInv, Progress
  <2>2. at' = "poll" => 1 .. offset' \subseteq handled'
    BY <1>7
  <2>3. at' = "handle" => offset' < Now' /\ \A u \in 1 .. Len(updates') : u < Now' => u \in handled'
    BY <1>1, <1>5, <1>7
  <2> QED
    BY <2>1, <2>2, <2>3, <1>2 DEF Progress
<1>9. at' \in {"poll", "handle"} /\ handled' \subseteq 1 .. Len(updates)
  BY <1>1, <1>2 DEF IInv, Shapes
<1> QED
  BY <1>1, <1>2, <1>4, <1>5, <1>8, <1>9

\* Taking the update moves the offset to it.
LEMMA TakenFacts ==
    ASSUME IInv, at = "handle", Taken
    PROVE  offset' = Now
<1>1. offset < Now /\ Now \in Nat /\ offset \in Nat
  BY NowFacts DEF IInv, Progress, Shapes
<1> QED
  BY <1>1 DEF Taken

\* A command that is executed while an update is handled keeps the order.
LEMMA ExecuteKeeps ==
    ASSUME IInv, at = "handle", NEW command, Execute(command), UNCHANGED <<updates, run>>,
           offset' = Now,
           \/ at' = "poll"
           \/ at' = "handle" /\ Now' = Now + 1
           \/ at' = "answer" /\ Now' = Now
    PROVE  Order'
<1>1. Now \in 1 .. Len(updates) /\ Len(updates) \in Nat
  BY NowFacts
<1>2. executed \in Seq(Range(executed)) /\ Len(executed) \in Nat /\ DOMAIN executed = 1 .. Len(executed)
  BY AppendFacts DEF IInv, Order
<1> DEFINE entry == [update |-> Now, run |-> run, command |-> command]
<1>3. run \in Nat /\ entry.update = Now /\ entry.run = run
  BY DEF IInv, Shapes
<1>4. /\ \A i \in 1 .. Len(executed) :
            /\ executed[i].update \in 1 .. Len(updates)
            /\ executed[i].run \in Nat /\ executed[i].run <= run
            /\ executed[i].run = run => executed[i].update < Now
      /\ \A i, j \in 1 .. Len(executed) :
            i < j /\ executed[i].run = executed[j].run => executed[i].update < executed[j].update
  BY DEF IInv, Order
<1> HIDE DEF entry
<1>5. CASE executed' = executed
  BY <1>1, <1>2, <1>3, <1>4, <1>5 DEF Order
<1>6. CASE executed' = Append(executed, entry)
  <2>1. /\ Len(executed') = Len(executed) + 1
        /\ \A i \in 1 .. Len(executed) : executed'[i] = executed[i]
        /\ executed'[Len(executed) + 1] = entry
        /\ executed' \in Seq(Range(executed'))
    BY <1>6, <1>2, AppendFacts
  <2>2. \A i \in 1 .. Len(executed') :
          /\ executed'[i].update \in 1 .. Len(updates)
          /\ executed'[i].run \in Nat /\ executed'[i].run <= run
          /\ executed'[i].run = run => executed'[i].update <= Now
    <3> TAKE i \in 1 .. Len(executed')
    <3>1. CASE i \in 1 .. Len(executed)
      BY <3>1, <2>1, <1>1, <1>4
    <3>2. CASE i = Len(executed) + 1
      BY <3>2, <2>1, <1>1, <1>3
    <3> QED
      BY <3>1, <3>2, <2>1, <1>2
  <2>3. \A i, j \in 1 .. Len(executed') :
          i < j /\ executed'[i].run = executed'[j].run => executed'[i].update < executed'[j].update
    <3> TAKE i, j \in 1 .. Len(executed')
    <3> HAVE i < j /\ executed'[i].run = executed'[j].run
    <3>1. i \in 1 .. Len(executed)
      BY <2>1, <1>2
    <3>2. CASE j \in 1 .. Len(executed)
      BY <3>1, <3>2, <2>1, <1>4
    <3>3. CASE j = Len(executed) + 1
      BY <3>1, <3>3, <2>1, <1>3, <1>4
    <3> QED
      BY <3>2, <3>3, <2>1, <1>2
  <2> QED
    BY <2>1, <2>2, <2>3, <1>1 DEF Order
<1> QED
  BY <1>5, <1>6 DEF Execute, entry

\* Commands executed earlier are about the same updates as before.
LEMMA TapsKept ==
    ASSUME IInv, UNCHANGED <<executed, updates>>
    PROVE  TapsKeepTheirDevice'
BY DEF IInv, TapsKeepTheirDevice

-----------------------------------------------------------------------------
(* The users, and the rest of the daemon *)

LEMMA InitInv == Init => IInv
<1> SUFFICES ASSUME Init PROVE IInv
  OBVIOUS
<1>1. /\ updates = <<>> /\ Len(updates) = 0 /\ updates \in Seq(AnyUpdate)
      /\ batch = <<>> /\ Len(batch) = 0 /\ batch \in Seq(Nat)
      /\ executed = <<>> /\ Len(executed) = 0 /\ executed \in Seq(Range(executed))
      /\ DOMAIN executed = {} /\ DOMAIN buttons = {}
  BY EmptySeq DEF Init
<1>2. Shapes
  BY <1>1 DEF Init, Shapes
<1>3. Batch /\ Progress /\ Order /\ Aliases /\ TapsKeepTheirDevice
  BY <1>1 DEF Init, Batch, Progress, Order, Aliases, TapsKeepTheirDevice
<1> QED
  BY <1>2, <1>3 DEF IInv

\* Steps that touch neither the updates nor what was done about them.
LEMMA BesidesInv ==
    ASSUME IInv, UNCHANGED <<bot, telegram, history>>, listed' \subseteq Device
    PROVE  IInv'
<1>1. Now' = Now
  BY DEF Now, bot
<1> QED
  BY <1>1 DEF IInv, Shapes, Batch, Progress, Order, Aliases, TapsKeepTheirDevice, bot, telegram,
             history

\* A new update changes nothing about those before it.
LEMMA SendInv ==
    ASSUME IInv, Send
    PROVE  IInv'
<1>1. PICK u \in AnyUpdate : Arrive(u)
  BY DEF Send, AnyUpdate, IInv, Shapes
<1>2. /\ updates' = Append(updates, u)
      /\ UNCHANGED <<confirmed, keyboards, bot, inventory, history>>
  BY <1>1 DEF Arrive
<1>3. updates \in Seq(AnyUpdate) /\ Len(updates) \in Nat /\ DOMAIN updates = 1 .. Len(updates)
  BY LenProperties DEF IInv, Shapes
<1>4. /\ updates' \in Seq(AnyUpdate)
      /\ Len(updates') = Len(updates) + 1
      /\ \A i \in 1 .. Len(updates) : updates'[i] = updates[i]
  BY <1>2, <1>3, AppendProperties
<1>5. Now' = Now
  BY <1>2 DEF Now, bot
<1>6. Shapes'
  BY <1>2, <1>3, <1>4 DEF IInv, Shapes, bot, inventory, history
<1>7. Batch'
  <2>1. (batch[1] \in Nat /\ Len(batch) \in Nat) \/ batch = <<>>
    BY EmptySeq, ElementOfSeq, LenProperties DEF IInv, Shapes
  <2> QED
    BY <2>1, <1>2, <1>3, <1>4 DEF IInv, Batch, bot
<1>8. Progress'
  <2>1. at \in {"handle", "answer"} => Now \in 1 .. Len(updates)
    BY NowFacts
  <2>2. at \in {"handle", "answer"} => \A v \in 1 .. Len(updates') : v < Now => v \in handled
    <3> SUFFICES ASSUME at \in {"handle", "answer"}, NEW v \in 1 .. Len(updates'), v < Now
                 PROVE  v \in handled
      OBVIOUS
    <3>1. v \in 1 .. Len(updates)
      BY <2>1, <1>3, <1>4
    <3> QED
      BY <3>1 DEF IInv, Progress
  <2> QED
    BY <2>2, <1>2, <1>5 DEF IInv, Progress, bot, history
<1>9. Order'
  <2>1. \A i \in 1 .. Len(executed) : executed[i].update \in 1 .. Len(updates')
    BY <1>3, <1>4 DEF IInv, Order
  <2> QED
    BY <2>1, <1>2, <1>5 DEF IInv, Order, bot, history
<1>10. Aliases'
  BY <1>2 DEF IInv, Aliases, bot
<1>11. TapsKeepTheirDevice'
  <2>1. DOMAIN executed = 1 .. Len(executed)
    BY AppendFacts DEF IInv, Order
  <2>2. \A i \in DOMAIN executed : updates'[executed[i].update] = updates[executed[i].update]
    BY <2>1, <1>4 DEF IInv, Order
  <2> QED
    BY <2>2, <1>2 DEF IInv, TapsKeepTheirDevice, history
<1> QED
  BY <1>6, <1>7, <1>8, <1>9, <1>10, <1>11 DEF IInv

-----------------------------------------------------------------------------
(* Run *)

\* What goes with the bot, and what a start begins with.
LEMMA GoneInv ==
    ASSUME IInv, Gone, UNCHANGED <<telegram, inventory, history>>
    PROVE  IInv'
<1>1. /\ at' = "down" /\ offset' = 0 /\ batch' = <<>> /\ DOMAIN buttons' = {}
      /\ Len(batch') = 0 /\ batch' \in Seq(Nat)
  BY EmptySeq DEF Gone
<1>2. Len(updates) \in Nat
  BY LenProperties DEF IInv, Shapes
<1>3. Shapes'
  BY <1>1, <1>2 DEF IInv, Shapes, telegram, inventory, history
<1>4. Batch' /\ Progress' /\ Aliases'
  BY <1>1 DEF IInv, Batch, Progress, Aliases, telegram, history
<1>5. Order'
  BY <1>1 DEF IInv, Order, telegram, history
<1>6. TapsKeepTheirDevice'
  BY TapsKept DEF telegram, history
<1> QED
  BY <1>3, <1>4, <1>5, <1>6 DEF IInv

LEMMA StartInv ==
    ASSUME IInv, Start
    PROVE  IInv'
<1>1. run \in Nat /\ at = "down" /\ at' = "poll" /\ run' = run + 1 /\ offset = 0 /\ batch = <<>>
      /\ UNCHANGED <<offset, batch, buttons, cancelled, telegram, inventory, executed, handled>>
  BY DEF Start, IInv, Shapes, Batch, Progress
<1>2. Shapes' /\ Batch' /\ Progress' /\ Aliases'
  BY <1>1 DEF IInv, Shapes, Batch, Progress, Aliases, telegram, inventory
<1>3. Order'
  BY <1>1 DEF IInv, Order, telegram
<1>4. TapsKeepTheirDevice'
  BY <1>1, TapsKept DEF telegram
<1> QED
  BY <1>2, <1>3, <1>4 DEF IInv

LEMMA CancelInv ==
    ASSUME IInv, Cancel
    PROVE  IInv'
<1>1. Now' = Now
  BY DEF Cancel, Now
<1> QED
  BY <1>1 DEF Cancel, IInv, Shapes, Batch, Progress, Order, Aliases, TapsKeepTheirDevice, telegram,
             inventory, history

\* Telegram forgets no more than the bot has left behind.
LEMMA AskedFacts ==
    ASSUME IInv, at = "poll", Asked(offset) \/ confirmed' = confirmed
    PROVE  /\ confirmed' \in 0 .. Len(updates) /\ 1 .. confirmed' \subseteq handled
           /\ Asked(offset) => offset <= confirmed'
<1>1. confirmed \in 0 .. Len(updates) /\ offset \in 0 .. Len(updates) /\ Len(updates) \in Nat
      /\ 1 .. confirmed \subseteq handled /\ 1 .. offset \subseteq handled
  BY LenProperties DEF IInv, Shapes, Progress
<1> QED
  BY <1>1 DEF Asked

\* The updates after the first m.
LEMMA Remaining ==
    ASSUME NEW n \in Nat, NEW m \in 0 .. n, NEW s,
           s = SubSeq([i \in 1 .. n |-> i], m + 1, n)
    PROVE  s \in Seq(Nat) /\ Len(s) = n - m /\ \A k \in 1 .. n - m : s[k] = m + k
<1> DEFINE all == [i \in 1 .. n |-> i]
<1>1. \A i \in m + 1 .. n : all[i] = i /\ all[i] \in Nat
  OBVIOUS
<1> HIDE DEF all
<1>2. /\ SubSeq(all, m + 1, n) \in Seq(Nat)
      /\ Len(SubSeq(all, m + 1, n)) = IF m + 1 <= n THEN n - (m + 1) + 1 ELSE 0
      /\ \A k \in 1 .. n - (m + 1) + 1 : SubSeq(all, m + 1, n)[k] = all[m + 1 + k - 1]
  BY <1>1, SubSeqProperties
<1>3. s = SubSeq(all, m + 1, n)
  BY DEF all
<1> QED
  BY <1>1, <1>2, <1>3

LEMMA FetchedInv ==
    ASSUME IInv, Fetched
    PROVE  IInv'
<1>0. /\ at = "poll" /\ Asked(offset)
      /\ batch' = SubSeq([i \in DOMAIN updates |-> i], confirmed' + 1, Len(updates))
      /\ at' = (IF batch' = <<>> THEN "poll" ELSE "handle")
      /\ UNCHANGED <<offset, buttons, cancelled, updates, keyboards, inventory, history>>
  BY DEF Fetched
<1>1. /\ confirmed' \in 0 .. Len(updates) /\ 1 .. confirmed' \subseteq handled
      /\ offset <= confirmed'
  BY <1>0, AskedFacts
<1>2. Len(updates) \in Nat /\ DOMAIN updates = 1 .. Len(updates) /\ offset \in 0 .. Len(updates)
  BY LenProperties DEF IInv, Shapes
<1>5. /\ batch' \in Seq(Nat) /\ Len(batch') = Len(updates) - confirmed'
      /\ \A k \in 1 .. Len(updates) - confirmed' : batch'[k] = confirmed' + k
  BY <1>0, <1>1, <1>2, Remaining
<1>6. \A k \in 1 .. Len(batch') : batch'[k] = confirmed' + k
  BY <1>5
<1>7. batch' # <<>> => Len(batch') >= 1 /\ batch'[1] = confirmed' + 1
  BY <1>5, <1>6, EmptySeq
<1>8. Batch'
  <2>1. \A k \in 1 .. Len(batch') : batch'[k] = batch'[1] + k - 1
    BY <1>1, <1>2, <1>5
  <2>2. batch' # <<>> => batch'[1] >= 1 /\ batch'[1] + Len(batch') - 1 <= Len(updates)
    BY <1>1, <1>2, <1>5, <1>7
  <2>3. at' \in {"poll", "handle"} /\ (batch' # <<>> <=> at' = "handle") /\ updates' = updates
    BY <1>0
  <2> QED
    BY <2>1, <2>2, <2>3 DEF Batch
<1>9. at' = "handle" => Now' = confirmed' + 1
  BY <1>0, <1>7 DEF Now
<1>10. Shapes'
  BY <1>0, <1>1, <1>5 DEF IInv, Shapes, inventory, history
<1>11. Progress'
  BY <1>0, <1>1, <1>2, <1>9 DEF IInv, Progress, history
<1>12. Order'
  <2>1. \A i \in 1 .. Len(executed) :
          executed[i].update \in 1 .. Len(updates) /\ (executed[i].run = run => executed[i].update <= offset)
    BY <1>0 DEF IInv, Order
  <2>2. at' = "handle" => \A i \in 1 .. Len(executed) : executed[i].run = run => executed[i].update < Now'
    BY <2>1, <1>1, <1>2, <1>9
  <2> QED
    BY <2>1, <2>2, <1>0 DEF IInv, Order, history
<1>13. TapsKeepTheirDevice' /\ Aliases'
  BY <1>0, TapsKept DEF history, IInv, Aliases
<1> QED
  BY <1>8, <1>10, <1>11, <1>12, <1>13 DEF IInv

LEMMA PollFailedInv ==
    ASSUME IInv, PollFailed
    PROVE  IInv'
<1>1. confirmed' \in 0 .. Len(updates) /\ 1 .. confirmed' \subseteq handled
  BY AskedFacts DEF PollFailed
<1>2. /\ at = "poll" /\ at' = "wait"
      /\ UNCHANGED <<offset, batch, buttons, cancelled, updates, keyboards, inventory, history>>
  BY DEF PollFailed
<1>3. Shapes' /\ Batch' /\ Progress' /\ Aliases'
  BY <1>1, <1>2 DEF IInv, Shapes, Batch, Progress, Aliases, inventory, history
<1>4. Order'
  BY <1>2 DEF IInv, Order, history
<1>5. TapsKeepTheirDevice'
  BY <1>2, TapsKept DEF history
<1> QED
  BY <1>3, <1>4, <1>5 DEF IInv

LEMMA RetryInv ==
    ASSUME IInv, Retry
    PROVE  IInv'
<1>1. /\ at = "wait" /\ at' = "poll"
      /\ UNCHANGED <<offset, batch, buttons, cancelled, telegram, inventory, history>>
  BY DEF Retry
<1>2. Shapes' /\ Batch' /\ Progress' /\ Aliases'
  BY <1>1 DEF IInv, Shapes, Batch, Progress, Aliases, inventory, history, telegram
<1>3. Order'
  BY <1>1 DEF IInv, Order, history, telegram
<1>4. TapsKeepTheirDevice'
  BY <1>1, TapsKept DEF history, telegram
<1> QED
  BY <1>2, <1>3, <1>4 DEF IInv

LEMMA ReturnInv ==
    ASSUME IInv, Return
    PROVE  IInv'
BY GoneInv DEF Return

LEMMA DieInv ==
    ASSUME IInv, Die
    PROVE  IInv'
BY GoneInv DEF Die

-----------------------------------------------------------------------------
(* Handling an update *)

LEMMA IgnoreInv ==
    ASSUME IInv, Ignore
    PROVE  IInv'
<1>1. /\ at = "handle" /\ Taken /\ Finished
      /\ UNCHANGED <<buttons, cancelled, telegram, inventory, run, executed>>
  BY DEF Ignore
<1>2. offset' = Now
  BY <1>1, TakenFacts
<1>3. UNCHANGED <<updates, confirmed, keyboards, listed>>
  BY <1>1 DEF telegram, inventory
<1>4. /\ batch' \in Seq(Nat) /\ at' \in {"poll", "handle"} /\ offset' \in 0 .. Len(updates)
      /\ Batch' /\ Progress' /\ (at' = "handle" => Now' = Now + 1)
      /\ handled' \subseteq 1 .. Len(updates)
  BY <1>1, <1>2, <1>3, FinishedKeeps
<1>5. Shapes'
  BY <1>1, <1>3, <1>4 DEF IInv, Shapes
<1>6. Order'
  <2>1. Now \in Nat
    BY <1>1, NowFacts
  <2>2. at' = "poll" \/ (at' = "handle" /\ Now' = Now + 1)
    BY <1>4
  <2>3. at = "handle" /\ UNCHANGED <<run, executed>>
    BY <1>1
  <2> QED
    BY <2>1, <2>2, <2>3, <1>2, <1>3 DEF IInv, Order
<1>7. Aliases' /\ TapsKeepTheirDevice'
  BY <1>1, <1>3, TapsKept DEF IInv, Aliases
<1> QED
  BY <1>4, <1>5, <1>6, <1>7 DEF IInv

\* The command of a tap is for the device of the keyboard: the bot never uses
\* a short name for another one.
LEMMA TapIsRight ==
    ASSUME IInv, at = "handle", Update.kind = "tap",
           Pressed(Update.keyboard, Update.label).device \in Device
    PROVE  Pressed(Update.keyboard, Update.label)
             = Command(Update.keyboard.device, Says[Update.label][1], Says[Update.label][2])
<1>1. Update.label \in Label /\ Update.keyboard \in AnyKeyboard
  BY NowFacts, TapShape
<1>2. PICK d \in Device : Update.keyboard = Keyboard(d)
  BY <1>1 DEF AnyKeyboard
<1>3. Update.keyboard.device = d /\ Update.keyboard.alias = Digest[d]
  BY <1>2 DEF Keyboard, CallbackAlias
<1>4. Update.keyboard.alias \in DOMAIN buttons
  BY <1>1, TapOfNothing, ChatAssumption
<1>5. buttons[Update.keyboard.alias] = d
  BY <1>3, <1>4, DigestAssumption DEF IInv, Aliases
<1> QED
  BY <1>1, <1>3, <1>4, <1>5, TapSays

LEMMA HandleTapInv ==
    ASSUME IInv, HandleTap
    PROVE  IInv'
<1> DEFINE command == Pressed(Update.keyboard, Update.label)
<1>1. /\ at = "handle" /\ Update.kind = "tap" /\ Execute(command) /\ Taken /\ Finished
      /\ UNCHANGED <<buttons, cancelled, telegram, inventory, run>>
  BY DEF HandleTap
<1>2. offset' = Now
  BY <1>1, TakenFacts
<1>3. UNCHANGED <<updates, confirmed, keyboards, listed, run>>
  BY <1>1 DEF telegram, inventory
<1>4. /\ batch' \in Seq(Nat) /\ at' \in {"poll", "handle"} /\ offset' \in 0 .. Len(updates)
      /\ Batch' /\ Progress' /\ (at' = "handle" => Now' = Now + 1)
      /\ handled' \subseteq 1 .. Len(updates)
  BY <1>1, <1>2, <1>3, FinishedKeeps
<1>5. Shapes'
  BY <1>1, <1>3, <1>4 DEF IInv, Shapes
<1>6. Order'
  <2>1. at' = "poll" \/ (at' = "handle" /\ Now' = Now + 1)
    BY <1>4
  <2> HIDE DEF command
  <2>2. at = "handle" /\ Execute(command) /\ UNCHANGED <<updates, run>> /\ offset' = Now
    BY <1>1, <1>2, <1>3
  <2> QED
    BY <2>1, <2>2, ExecuteKeeps
<1>7. Aliases'
  BY <1>1 DEF IInv, Aliases
<1>8. TapsKeepTheirDevice'
  <2>1. /\ executed \in Seq(Range(executed)) /\ Len(executed) \in Nat
        /\ DOMAIN executed = 1 .. Len(executed)
    BY AppendFacts DEF IInv, Order
  <2>2. CASE executed' = executed
    BY <2>2, <1>3, TapsKept
  <2>3. CASE /\ executed' = Append(executed, [update |-> Now, run |-> run, command |-> command])
             /\ command.device \in Device
    <3>1. command = Command(Update.keyboard.device, Says[Update.label][1], Says[Update.label][2])
      BY <2>3, <1>1, TapIsRight
    <3> DEFINE entry == [update |-> Now, run |-> run, command |-> command]
    <3> HIDE DEF entry
    <3>2. /\ DOMAIN executed' = 1 .. Len(executed) + 1
          /\ \A i \in 1 .. Len(executed) : executed'[i] = executed[i]
          /\ executed'[Len(executed) + 1] = entry
      BY <2>1, <2>3, AppendFacts DEF entry
    <3>3. entry.update = Now /\ entry.command = command
      BY DEF entry
    <3> HIDE DEF command
    <3> SUFFICES ASSUME NEW i \in 1 .. Len(executed) + 1
                 PROVE  LET u == updates'[executed'[i].update]
                        IN u.kind = "tap" =>
                             executed'[i].command = Command(u.keyboard.device, Says[u.label][1], Says[u.label][2])
      BY <3>2 DEF TapsKeepTheirDevice
    <3>4. CASE i \in 1 .. Len(executed)
      BY <3>4, <3>2, <2>1, <1>3 DEF IInv, TapsKeepTheirDevice
    <3>5. CASE i = Len(executed) + 1
      <4>1. updates'[executed'[i].update] = Update /\ executed'[i].command = command
        BY <3>5, <3>2, <3>3, <1>3 DEF Update
      <4> QED
        BY <4>1, <3>1
    <3> QED
      BY <3>4, <3>5, <2>1
  <2> QED
    BY <2>2, <2>3, <1>1 DEF Execute
<1> QED
  BY <1>4, <1>5, <1>6, <1>7, <1>8 DEF IInv

LEMMA HandleMessageInv ==
    ASSUME IInv, HandleMessage
    PROVE  IInv'
<1>1. /\ at = "handle" /\ Update.kind = "message" /\ Execute(Meaning(Update.text)) /\ Taken
      /\ at' = "answer" /\ listed' \subseteq Device
      /\ UNCHANGED <<alias, batch, buttons, cancelled, telegram, run, handled>>
  BY DEF HandleMessage, IInv, Shapes
<1>2. offset' = Now /\ Now' = Now
  BY <1>1, TakenFacts DEF Now
<1>3. UNCHANGED <<updates, confirmed, keyboards, run>>
  BY <1>1 DEF telegram
<1>4. Now \in 1 .. Len(updates) /\ Len(updates) \in Nat
  BY <1>1, NowFacts
<1>5. Shapes'
  BY <1>1, <1>2, <1>3, <1>4 DEF IInv, Shapes
<1>6. Batch' /\ Progress' /\ Aliases'
  BY <1>1, <1>2, <1>3, <1>4 DEF IInv, Batch, Progress, Aliases
<1>7. Order'
  BY <1>1, <1>2, <1>3, ExecuteKeeps
<1>8. TapsKeepTheirDevice'
  <2> DEFINE entry == [update |-> Now, run |-> run, command |-> Meaning(Update.text)]
  <2>1. /\ executed \in Seq(Range(executed)) /\ Len(executed) \in Nat
        /\ DOMAIN executed = 1 .. Len(executed)
    BY AppendFacts DEF IInv, Order
  <2>2. CASE executed' = executed
    BY <2>2, <1>3, TapsKept
  <2>3. CASE executed' = Append(executed, entry)
    <3> HIDE DEF entry
    <3>2. /\ DOMAIN executed' = 1 .. Len(executed) + 1
          /\ \A i \in 1 .. Len(executed) : executed'[i] = executed[i]
          /\ executed'[Len(executed) + 1] = entry
      BY <2>1, <2>3, AppendFacts
    <3>3. entry.update = Now
      BY DEF entry
    <3> SUFFICES ASSUME NEW i \in 1 .. Len(executed) + 1
                 PROVE  LET u == updates'[executed'[i].update]
                        IN u.kind = "tap" =>
                             executed'[i].command = Command(u.keyboard.device, Says[u.label][1], Says[u.label][2])
      BY <3>2 DEF TapsKeepTheirDevice
    <3>4. CASE i \in 1 .. Len(executed)
      BY <3>4, <3>2, <2>1, <1>3 DEF IInv, TapsKeepTheirDevice
    <3>5. CASE i = Len(executed) + 1
      <4>1. updates'[executed'[i].update] = Update
        BY <3>5, <3>2, <3>3, <1>3 DEF Update
      <4> QED
        BY <4>1, <1>1
    <3> QED
      BY <3>4, <3>5, <2>1
  <2> QED
    BY <2>2, <2>3, <1>1 DEF Execute
<1> QED
  BY <1>5, <1>6, <1>7, <1>8 DEF IInv

LEMMA AnswerInv ==
    ASSUME IInv, Answer
    PROVE  IInv'
<1>1. /\ at = "answer" /\ Finished
      /\ UNCHANGED <<offset, cancelled, updates, confirmed, inventory, run, executed>>
  BY DEF Answer
<1>2. offset' = Now /\ Now \in Nat
  BY <1>1, NowFacts DEF IInv, Progress
<1>3. /\ batch' \in Seq(Nat) /\ at' \in {"poll", "handle"} /\ offset' \in 0 .. Len(updates)
      /\ Batch' /\ Progress' /\ (at' = "handle" => Now' = Now + 1)
      /\ handled' \subseteq 1 .. Len(updates)
  BY <1>1, <1>2, FinishedKeeps
<1>4. Order'
  <2>1. at' = "poll" \/ (at' = "handle" /\ Now' = Now + 1)
    BY <1>3
  <2> QED
    BY <2>1, <1>1, <1>2 DEF IInv, Order
<1>5. keyboards' \subseteq AnyKeyboard /\ Aliases'
  <2>1. CASE UNCHANGED <<buttons, keyboards>>
    BY <2>1 DEF IInv, Shapes, Aliases
  <2>2. CASE /\ Menu(Update.text) # NoDevice
             /\ Remember(Menu(Update.text))
             /\ keyboards' \in {keyboards, keyboards \cup {Keyboard(Menu(Update.text))}}
    <3> DEFINE d == Menu(Update.text)
    <3>1. d \in Device
      BY <2>2, MenuType DEF IInv, Shapes
    <3> HIDE DEF d
    <3>2. keyboards' \subseteq AnyKeyboard
      BY <3>1, <2>2 DEF d, AnyKeyboard, IInv, Shapes
    <3>3. buttons' = [h \in DOMAIN buttons \cup {Digest[d]} |-> IF h = Digest[d] THEN d ELSE buttons[h]]
      BY <2>2 DEF d, Remember, CallbackAlias
    <3>4. Aliases'
      BY <3>1, <3>3 DEF IInv, Aliases
    <3> QED
      BY <3>2, <3>4
  <2> QED
    BY <2>1, <2>2 DEF Answer
<1>6. Shapes'
  BY <1>1, <1>3, <1>5 DEF IInv, Shapes, inventory
<1>7. TapsKeepTheirDevice'
  BY <1>1, TapsKept
<1> QED
  BY <1>3, <1>4, <1>5, <1>6, <1>7 DEF IInv

-----------------------------------------------------------------------------
(* The theorems *)

LEMMA NextInv == IInv /\ [Next]_vars => IInv'
<1> SUFFICES ASSUME IInv, [Next]_vars PROVE IInv'
  OBVIOUS
<1>1. CASE UNCHANGED vars
  BY <1>1, BesidesInv DEF vars, inventory, IInv, Shapes
<1>2. CASE Send
  BY <1>2, SendInv
<1>3. CASE Renamed
  BY <1>3, BesidesInv DEF Renamed, IInv, Shapes
<1>4. CASE Start \/ Cancel \/ Die
  BY <1>4, StartInv, CancelInv, DieInv
<1>5. CASE Fetched \/ PollFailed \/ Retry \/ Return
  BY <1>5, FetchedInv, PollFailedInv, RetryInv, ReturnInv
<1>6. CASE Handle
  BY <1>6, IgnoreInv, HandleTapInv, HandleMessageInv, AnswerInv DEF Handle
<1> QED
  BY <1>1, <1>2, <1>3, <1>4, <1>5, <1>6 DEF Next, Run

\* What the three theorems rest on: a batch has no gaps, the offset follows
\* what is handled, and a short name never stands for two devices.
THEOREM QueueIsFollowed == Spec => []IInv
BY InitInv, NextInv, PTL DEF Spec

\* Every variable of the bot keeps its type (Bot and Telegram's queue).
THEOREM TypeCorrect == Spec => []TypeOK
<1>1. IInv => TypeOK
  <2> SUFFICES ASSUME IInv PROVE TypeOK
    OBVIOUS
  <2>1. DOMAIN updates = 1 .. Len(updates)
    BY LenProperties DEF IInv, Shapes
  <2>2. \A i \in DOMAIN batch : batch[i] \in 1 .. Len(updates)
    <3> TAKE i \in DOMAIN batch
    <3>1. i \in 1 .. Len(batch) /\ Len(batch) \in Nat /\ batch[i] \in Nat
      BY LenProperties, ElementOfSeq DEF IInv, Shapes
    <3>2. batch # <<>> /\ Len(updates) \in Nat
      BY <3>1, EmptySeq, LenProperties DEF IInv, Shapes
    <3>3. batch[1] \in Nat
      BY <3>1, ElementOfSeq DEF IInv, Shapes
    <3> QED
      BY <3>1, <3>2, <3>3 DEF IInv, Batch
  <2>3. \A k \in keyboards : k.device \in Device
    BY DEF IInv, Shapes, AnyKeyboard, Keyboard
  <2> QED
    BY <2>1, <2>2, <2>3 DEF IInv, Shapes, Aliases, TypeOK
<1> QED
  BY <1>1, QueueIsFollowed, PTL

\* Telegram forgets no update that the bot has not handled to its end,
\* wherever requests are lost and the daemon dies (Run).
THEOREM NothingIsForgotten == Spec => []NothingForgottenUnhandled
<1>1. IInv => NothingForgottenUnhandled
  BY DEF IInv, Progress, NothingForgottenUnhandled
<1> QED
  BY <1>1, QueueIsFollowed, PTL

\* No run of the daemon executes an update twice, or one before an earlier one
\* (the offset of Run).
THEOREM ExecutedOncePerRun == Spec => []OncePerRun
<1>1. IInv => OncePerRun
  <2> SUFFICES ASSUME IInv PROVE OncePerRun
    OBVIOUS
  <2>1. DOMAIN executed = 1 .. Len(executed)
    BY AppendFacts DEF IInv, Order
  <2> QED
    BY <2>1 DEF IInv, Order, OncePerRun
<1> QED
  BY <1>1, QueueIsFollowed, PTL

\* A button works on the device of its keyboard or on none, after restarts and
\* renames too (callbackAlias, handleCallback).
THEOREM TapsStayWithTheirDevice == Spec => []TapsKeepTheirDevice
<1>1. IInv => TapsKeepTheirDevice
  BY DEF IInv
<1> QED
  BY <1>1, QueueIsFollowed, PTL

-----------------------------------------------------------------------------
(* Bot and service implement the queue *)

\* The update at hand is the next one after what is behind.
NextInLine ==
    /\ at = "handle" => Now = Behind + 1
    /\ at = "answer" => confirmed < Now

LEMMA BehindFacts ==
    ASSUME IInv, NextInLine
    PROVE  /\ Len(updates) \in Nat /\ offset \in Nat /\ confirmed \in Nat
           /\ Behind = IF at = "answer" THEN Now - 1
                       ELSE IF offset > confirmed THEN offset ELSE confirmed
           /\ at \in {"handle", "answer"} => Now \in 1 .. Len(updates) /\ Now = Behind + 1 /\ confirmed < Now
<1>1. Len(updates) \in Nat /\ offset \in Nat /\ confirmed \in Nat
  BY LenProperties DEF IInv, Shapes
<1>2. Behind = IF at = "answer" THEN Now - 1 ELSE IF offset > confirmed THEN offset ELSE confirmed
  BY DEF Behind, IInv, Progress
<1>3. at \in {"handle", "answer"} => Now \in 1 .. Len(updates)
  BY NowFacts
<1> QED
  BY <1>1, <1>2, <1>3 DEF NextInLine

\* A step in which nothing is handled, asked for or forgotten.
LEMMA IdleQueues ==
    ASSUME NextInLine, UNCHANGED <<at, offset, batch, confirmed, handled>>
    PROVE  NextInLine' /\ Behind' = Behind
BY DEF NextInLine, Behind, Now

LEMMA GoneQueues ==
    ASSUME IInv, NextInLine, Gone, UNCHANGED <<telegram, history>>
    PROVE  NextInLine' /\ Queue!StartOver
<1>1. at' = "down" /\ offset' = 0 /\ UNCHANGED <<updates, confirmed, handled>>
  BY DEF Gone, telegram, history
<1>2. Behind' = confirmed
  BY <1>1, BehindFacts DEF Behind
<1> QED
  BY <1>1, <1>2 DEF NextInLine, Queue!StartOver

\* A request acknowledges what is behind, and the batch goes on from there.
LEMMA AskedQueues ==
    ASSUME IInv, NextInLine, at = "poll", Asked(offset), UNCHANGED <<offset, updates, handled>>,
           at' \in {"poll", "wait", "handle"}
    PROVE  confirmed' = Behind /\ Behind' = Behind /\ Queue!Acknowledge
<1>1. confirmed' = Behind
  BY BehindFacts DEF Asked
<1>2. Behind' = Behind
  BY <1>1, BehindFacts DEF Behind
<1> QED
  BY <1>1, <1>2 DEF Queue!Acknowledge

LEMMA FetchedQueues ==
    ASSUME IInv, NextInLine, Fetched
    PROVE  NextInLine' /\ Queue!Acknowledge
<1>0. /\ at = "poll" /\ Asked(offset)
      /\ batch' = SubSeq([i \in DOMAIN updates |-> i], confirmed' + 1, Len(updates))
      /\ at' = (IF batch' = <<>> THEN "poll" ELSE "handle")
      /\ UNCHANGED <<offset, updates, handled>>
  BY DEF Fetched, history
<1>1. confirmed' = Behind /\ Behind' = Behind /\ Queue!Acknowledge
  BY <1>0, AskedQueues
<1>2. DOMAIN updates = 1 .. Len(updates) /\ confirmed' \in 0 .. Len(updates)
  BY <1>0, AskedFacts, LenProperties DEF IInv, Shapes
<1>3. /\ Len(batch') = Len(updates) - confirmed' /\ batch' \in Seq(Nat)
      /\ \A k \in 1 .. Len(updates) - confirmed' : batch'[k] = confirmed' + k
  <2>1. Len(updates) \in Nat
    BY BehindFacts
  <2>2. batch' = SubSeq([i \in 1 .. Len(updates) |-> i], confirmed' + 1, Len(updates))
    BY <1>0, <1>2
  <2> QED
    BY <2>1, <2>2, <1>2, Remaining
<1>4. at' = "handle" => Now' = confirmed' + 1
  <2>1. batch' # <<>> => Len(batch') # 0
    BY <1>3, EmptySeq
  <2>2. batch' # <<>> => 1 \in 1 .. Len(updates) - confirmed'
    BY <2>1, <1>2, <1>3, BehindFacts
  <2>3. batch' # <<>> => batch'[1] = confirmed' + 1
    BY <2>2, <1>3
  <2> QED
    BY <2>3, <1>0 DEF Now
<1> QED
  BY <1>0, <1>1, <1>4 DEF NextInLine

LEMMA PollFailedQueues ==
    ASSUME IInv, NextInLine, PollFailed
    PROVE  NextInLine' /\ (Queue!Acknowledge \/ (UNCHANGED <<updates, confirmed, handled>> /\ Behind' = Behind))
<1>1. at = "poll" /\ at' = "wait" /\ UNCHANGED <<offset, updates, handled>>
  BY DEF PollFailed, history
<1>2. CASE Asked(offset)
  BY <1>1, <1>2, AskedQueues DEF NextInLine
<1>3. CASE confirmed' = confirmed
  BY <1>1, <1>3 DEF NextInLine, Behind
<1> QED
  BY <1>2, <1>3 DEF PollFailed

\* The update at hand is handled to its end.
LEMMA FinishedQueues ==
    ASSUME IInv, NextInLine, at \in {"handle", "answer"}, Finished, offset' = Now,
           UNCHANGED <<updates, confirmed>>
    PROVE  NextInLine' /\ Queue!Handle
<1>1. Now \in 1 .. Len(updates) /\ Now = Behind + 1 /\ confirmed < Now /\ Len(updates) \in Nat
      /\ confirmed \in Nat /\ Behind \in Nat
  BY BehindFacts
<1>2. at' \in {"poll", "handle"} /\ (at' = "handle" => Now' = Now + 1)
  BY FinishedKeeps
<1>3. Behind' = Now
  BY <1>1, <1>2 DEF Behind
<1>4. handled' = handled \cup {Behind + 1}
  BY <1>1 DEF Finished
<1> QED
  BY <1>1, <1>2, <1>3, <1>4 DEF NextInLine, Queue!Handle

LEMMA HandleQueues ==
    ASSUME IInv, NextInLine, Handle
    PROVE  NextInLine' /\ (Queue!Handle \/ (UNCHANGED <<updates, confirmed, handled>> /\ Behind' = Behind))
<1>1. CASE Ignore \/ HandleTap
  BY <1>1, TakenFacts, FinishedQueues DEF Ignore, HandleTap, telegram
<1>2. CASE HandleMessage
  <2>1. /\ at = "handle" /\ at' = "answer" /\ Taken /\ UNCHANGED <<batch, updates, confirmed, handled>>
    BY <1>2 DEF HandleMessage, telegram
  <2>2. offset' = Now /\ Now' = Now /\ Now = Behind + 1 /\ confirmed < Now /\ Behind \in Nat
    BY <2>1, TakenFacts, BehindFacts DEF Now
  <2>3. Behind' = Behind
    BY <2>1, <2>2 DEF Behind
  <2> QED
    BY <2>1, <2>2, <2>3 DEF NextInLine
<1>3. CASE Answer
  <2>1. at = "answer" /\ Finished /\ UNCHANGED <<offset, updates, confirmed>> /\ offset = Now
    BY <1>3 DEF Answer, IInv, Progress
  <2> QED
    BY <2>1, FinishedQueues
<1> QED
  BY <1>1, <1>2, <1>3 DEF Handle

LEMMA SendQueues ==
    ASSUME IInv, NextInLine, Send
    PROVE  NextInLine' /\ Queue!Send
<1>1. PICK update \in AnyUpdate : Arrive(update)
  BY DEF Send, AnyUpdate, IInv, Shapes
<1>2. UNCHANGED <<at, offset, batch, confirmed, handled>>
  BY <1>1 DEF Arrive, bot, history
<1>3. Len(updates') = Len(updates) + 1
  BY <1>1, AppendProperties DEF Arrive, IInv, Shapes
<1> QED
  BY <1>2, <1>3, IdleQueues DEF Queue!Send

\* The bot's offset, batches, restarts and lost answers make a queue that
\* delivers in order, without a gap and at least once: what Run and getUpdates
\* do is a step of UpdateQueue or not seen in it.
THEOREM BotImplementsQueue == Spec => ImplementsQueue
<1>1. Init => NextInLine /\ Queue!Init
  BY DEF Init, NextInLine, Behind, Queue!Init
<1>2. IInv /\ NextInLine /\ [Next]_vars => NextInLine' /\ [Queue!Next]_(Queue!vars)
  <2> SUFFICES ASSUME IInv, NextInLine, [Next]_vars
               PROVE  NextInLine' /\ [Queue!Next]_(Queue!vars)
    OBVIOUS
  <2> USE DEF Queue!Next, Queue!vars
  <2>1. CASE UNCHANGED vars \/ Renamed \/ Start \/ Cancel \/ Retry
    <3>1. UNCHANGED <<offset, batch, updates, confirmed, handled>>
      BY <2>1 DEF vars, bot, telegram, history, Renamed, Start, Cancel, Retry
    <3>2. at' = at \/ (at \in {"down", "wait"} /\ at' = "poll")
      BY <2>1 DEF vars, bot, Renamed, Start, Cancel, Retry
    <3> QED
      BY <3>1, <3>2 DEF NextInLine, Behind, Now
  <2>2. CASE Send
    BY <2>2, SendQueues
  <2>3. CASE Die \/ Return
    BY <2>3, GoneQueues DEF Die, Return
  <2>4. CASE Fetched \/ PollFailed
    BY <2>4, FetchedQueues, PollFailedQueues
  <2>5. CASE Handle
    BY <2>5, HandleQueues
  <2> QED
    BY <2>1, <2>2, <2>3, <2>4, <2>5 DEF Next, Run
<1> QED
  BY <1>1, <1>2, QueueIsFollowed, PTL DEF Spec, ImplementsQueue, Queue!Spec

-----------------------------------------------------------------------------
(* What the help promises *)

\* A name is a device's own or one that Rename gave it.
Named == alias \in [Device -> Name \cup {NoAlias}]

\* What the words after the device ask for.
Wanted(form) ==
    IF form[1] = "power" THEN Action(form[2], Tail(Tail(form))) ELSE Action(form[1], Tail(form))

\* Naming a device and its first action word splits a message in two.
Splits(n, form) ==
    /\ SubSeq(n \o form, 1, Len(n)) = n
    /\ Len(n) \in Nat \ {0} /\ Len(form) \in Nat \ {0}
    /\ Len(n \o form) = Len(n) + Len(form)
    /\ \A i \in 1 .. Len(n) : (n \o form)[i] = n[i]
    /\ \A i \in 1 .. Len(form) : (n \o form)[Len(n) + i] = form[i]

LEMMA Split ==
    ASSUME NEW n, n \in Seq(Range(n)), n # <<>>, NEW form, form \in Seq(Range(form)), form # <<>>
    PROVE  Splits(n, form)
<1> DEFINE W == Range(n) \cup Range(form)
<1>1. n \in Seq(W) /\ form \in Seq(W)
  BY SeqMonotonic
<1> HIDE DEF W
<1>2. Len(n) \in Nat \ {0} /\ Len(form) \in Nat \ {0}
  BY <1>1, EmptySeq, LenProperties
<1>3. /\ n \o form \in Seq(W) /\ Len(n \o form) = Len(n) + Len(form)
      /\ \A i \in 1 .. Len(n) + Len(form) :
            (n \o form)[i] = IF i <= Len(n) THEN n[i] ELSE form[i - Len(n)]
  BY <1>1, ConcatProperties
<1>4. \A i \in 1 .. Len(n) : (n \o form)[i] = n[i]
  BY <1>2, <1>3
<1>5. \A i \in 1 .. Len(form) : (n \o form)[Len(n) + i] = form[i]
  <2> TAKE i \in 1 .. Len(form)
  <2>1. Len(n) + i \in 1 .. Len(n) + Len(form) /\ ~(Len(n) + i <= Len(n)) /\ Len(n) + i - Len(n) = i
    BY <1>2
  <2> QED
    BY <2>1, <1>3
<1>6. SubSeq(n \o form, 1, Len(n)) = n
  BY <1>1, <1>2, SubSeqOfConcat1, SubSeqFull
<1> QED
  BY <1>2, <1>3, <1>4, <1>5, <1>6 DEF Splits

LEMMA Single ==
    ASSUME NEW e
    PROVE  <<e>> \in Seq(Range(<<e>>)) /\ <<e>> # <<>> /\ Len(<<e>>) = 1 /\ <<e>>[1] = e
<1>1. <<e>> \in Seq({e})
  OBVIOUS
<1> QED
  BY <1>1, SeqOfRange

LEMMA Prepended ==
    ASSUME NEW W, NEW e \in W, NEW s \in Seq(W)
    PROVE  <<e>> \in Seq(W) /\ (<<e>> \o s)[1] = e /\ Tail(<<e>> \o s) = s
<1> DEFINE first == <<e>>
           t == first \o s
<1>1. first \in Seq(W) /\ Len(first) = 1 /\ first[1] = e
  OBVIOUS
<1> HIDE DEF first
<1>2. /\ t \in Seq(W) /\ Len(t) = 1 + Len(s) /\ Len(s) \in Nat
      /\ \A i \in 1 .. 1 + Len(s) : t[i] = IF i <= 1 THEN first[i] ELSE s[i - 1]
  <2>1. /\ t \in Seq(W) /\ Len(t) = Len(first) + Len(s)
        /\ \A i \in 1 .. Len(first) + Len(s) :
              t[i] = IF i <= Len(first) THEN first[i] ELSE s[i - Len(first)]
    BY <1>1, ConcatProperties
  <2>2. Len(s) \in Nat
    BY LenProperties
  <2> HIDE DEF t
  <2> QED
    BY <2>1, <2>2, <1>1
<1> HIDE DEF t
<1>3. 1 \in 1 .. 1 + Len(s) /\ Len(t) # 0
  BY <1>2
<1>4. t[1] = first[1]
  BY <1>2, <1>3
<1>5. t # <<>>
  BY <1>2, <1>3, EmptySeq
<1>6. /\ Tail(t) \in Seq(W) /\ Len(Tail(t)) = Len(t) - 1
      /\ \A i \in 1 .. Len(Tail(t)) : Tail(t)[i] = t[i + 1]
  BY <1>2, <1>5, HeadTailProperties
<1>7. Len(Tail(t)) = Len(s)
  BY <1>2, <1>6
<1>8. \A i \in 1 .. Len(Tail(t)) : Tail(t)[i] = s[i]
  <2> TAKE i \in 1 .. Len(Tail(t))
  <2>1. i + 1 \in 1 .. 1 + Len(s) /\ ~(i + 1 <= 1) /\ i + 1 - 1 = i
    BY <1>2, <1>7
  <2>2. t[i + 1] = s[i]
    BY <2>1, <1>2
  <2> QED
    BY <2>2, <1>6
<1>9. Tail(t) = s
  BY <1>6, <1>7, <1>8, SeqEqual
<1> QED
  BY <1>1, <1>4, <1>9 DEF t, first

\* The message without its command.
LEMMA Typed ==
    ASSUME NEW n, n \in Seq(Range(n)), n # <<>>, NEW form, form \in Seq(Range(form)), form # <<>>,
           NEW command
    PROVE  /\ (<<command>> \o n \o form)[1] = command
           /\ Tail(<<command>> \o n \o form) = n \o form
<1> DEFINE W == Range(n) \cup Range(form) \cup {command}
<1>1. n \in Seq(W) /\ form \in Seq(W)
  BY SeqMonotonic
<1>2. command \in W
  OBVIOUS
<1> HIDE DEF W
<1>3. n \o form \in Seq(W)
  BY <1>1, ConcatProperties
<1>4. <<command>> \in Seq(W)
  BY <1>1, <1>2, Prepended
<1>5. <<command>> \o n \o form = <<command>> \o (n \o form)
  BY <1>1, <1>4, ConcatAssociative
<1> QED
  BY <1>2, <1>3, <1>5, Prepended

\* The first action word is the first word after a name without one.
LEMMA ActionAfterName ==
    ASSUME NEW n, NEW form, Splits(n, form),
           \A i \in 1 .. Len(n) : n[i] \notin ActionWord, form[1] \in ActionWord
    PROVE  FirstAction(n \o form) = Len(n) + 1
<1> DEFINE I == {i \in 1 .. Len(n \o form) : (n \o form)[i] \in ActionWord}
<1>1. /\ Len(n) \in Nat \ {0} /\ Len(form) \in Nat \ {0} /\ Len(n \o form) = Len(n) + Len(form)
      /\ \A i \in 1 .. Len(n) : (n \o form)[i] = n[i]
      /\ (n \o form)[Len(n) + 1] = form[1]
  BY DEF Splits
<1>2. Len(n) + 1 \in I
  BY <1>1
<1>3. \A i \in I : i \in Int /\ Len(n) + 1 <= i
  BY <1>1
<1> HIDE DEF I
<1>4. Min(I) = Len(n) + 1
  BY <1>1, <1>2, <1>3 DEF Min
<1> QED
  BY <1>2, <1>4 DEF FirstAction, SelectInSeq, I

\* The first action word of a name is one, and the words before it are none.
LEMMA LeastNatural ==
    ASSUME NEW T, T \subseteq Nat, T # {}
    PROVE  \E n \in T : \A m \in T : n <= m
<1>1. PICK n \in T : \A m \in T : ~(<<m, n>> \in OpToRel(<, Nat))
  BY NatLessThanWellFounded, WFMin
<1>2. ASSUME NEW m \in T, m < n
      PROVE  FALSE
  <2>1. <<m, n>> \in OpToRel(<, Nat)
    BY <1>2 DEF OpToRel
  <2> QED
    BY <1>1, <2>1
<1>3. \A m \in T : n <= m
  BY <1>2
<1> QED
  BY <1>3

LEMMA FirstActionFacts ==
    ASSUME NEW n, Len(n) \in Nat, NEW cut, cut = FirstAction(n)
    PROVE  \/ cut = 0 /\ \A i \in 1 .. Len(n) : n[i] \notin ActionWord
           \/ /\ cut \in 1 .. Len(n) /\ n[cut] \in ActionWord
              /\ \A i \in 1 .. Len(n) : n[i] \in ActionWord => cut <= i
<1> DEFINE I == {i \in 1 .. Len(n) : n[i] \in ActionWord}
<1>1. cut = IF I # {} THEN Min(I) ELSE 0
  BY DEF FirstAction, SelectInSeq
<1>2. CASE I = {}
  BY <1>1, <1>2
<1>3. CASE I # {}
  <2>1. I \subseteq Nat
    OBVIOUS
  <2> HIDE DEF I
  <2>2. PICK m \in I : \A i \in I : m <= i
    BY <1>3, <2>1, LeastNatural
  <2>3. Min(I) \in I /\ \A i \in I : Min(I) <= i
    BY <2>2 DEF Min
  <2>4. cut \in I /\ \A i \in I : cut <= i
    BY <1>1, <1>3, <2>3
  <2> QED
    BY <2>4 DEF I
<1> QED
  BY <1>2, <1>3

\* An action word in the name comes before those that follow the name.
LEMMA ActionInName ==
    ASSUME NEW n, NEW form, Splits(n, form), FirstAction(n) # 0
    PROVE  FirstAction(n \o form) = FirstAction(n)
<1> DEFINE cut == FirstAction(n)
           first == FirstAction(n \o form)
<1>1. /\ Len(n) \in Nat \ {0} /\ Len(form) \in Nat \ {0} /\ Len(n \o form) = Len(n) + Len(form)
      /\ \A i \in 1 .. Len(n) : (n \o form)[i] = n[i]
  BY DEF Splits
<1>2. /\ cut \in 1 .. Len(n) /\ n[cut] \in ActionWord
      /\ \A i \in 1 .. Len(n) : n[i] \in ActionWord => cut <= i
  BY <1>1, FirstActionFacts
<1>3. Len(n \o form) \in Nat
  BY <1>1
<1>4. \/ first = 0 /\ \A i \in 1 .. Len(n \o form) : (n \o form)[i] \notin ActionWord
      \/ /\ first \in 1 .. Len(n \o form) /\ (n \o form)[first] \in ActionWord
         /\ \A i \in 1 .. Len(n \o form) : (n \o form)[i] \in ActionWord => first <= i
  BY <1>3, FirstActionFacts
<1> HIDE DEF cut, first
<1>5. cut \in 1 .. Len(n \o form) /\ (n \o form)[cut] \in ActionWord
  BY <1>1, <1>2
<1>6. /\ first \in 1 .. Len(n \o form) /\ (n \o form)[first] \in ActionWord /\ first <= cut
  BY <1>4, <1>5
<1>7. first \in 1 .. Len(n) /\ n[first] \in ActionWord
  BY <1>1, <1>2, <1>6
<1>8. first = cut
  BY <1>2, <1>6, <1>7
<1> QED
  BY <1>8 DEF cut, first

\* What an action asks for does not name the device.
Unaddressed(command) == \E action, value : command = Command(NoDevice, action, value)

LEMMA ActionsUnaddressed == \A word, values : Unaddressed(Action(word, values))
<1> TAKE word, values
<1>1. Unaddressed(Nothing)
  BY DEF Unaddressed, Nothing
<1>2. \A action, vs : Unaddressed(Steps(action, vs))
  BY <1>1 DEF Steps, Unaddressed
<1>3. \A w : Unaddressed(Level(w))
  BY DEF Level, Unaddressed
<1>4. Unaddressed(Volume(values))
  BY <1>1, <1>2, <1>3 DEF Volume
<1>5. \A action, value : Unaddressed(Command(NoDevice, action, value))
  BY DEF Unaddressed
<1> QED
  BY <1>1, <1>2, <1>4, <1>5 DEF Action

\* A name with an action word is cut at that word.
LEMMA TvCuts ==
    ASSUME NEW n, n \in Seq(Range(n)), n # <<>>, NEW form, form \in Seq(Range(form)), form # <<>>,
           NEW cut, cut = FirstAction(n), cut # 0
    PROVE  \/ Tv(n \o form) = Nothing
           \/ cut > 1 /\ Tv(n \o form).device = FindDevice(SubSeq(n, 1, cut - 1))
<1> DEFINE args == n \o form
           rest == SubSeq(args, cut + 1, Len(args))
           command == CASE args[cut] # "power" -> Action(args[cut], rest)
                        [] args[cut] = "power" /\ rest # <<>> -> Action(rest[1], Tail(rest))
                        [] OTHER -> Nothing
<1>1. Len(n) \in Nat /\ cut \in 1 .. Len(n) /\ FirstAction(args) = cut
  BY Split, ActionInName, FirstActionFacts DEF Splits
<1>2. Tv(args) = IF cut <= 1 \/ command = Nothing THEN Nothing ELSE For(SubSeq(args, 1, cut - 1), command)
  <2> HIDE DEF args
  <2> QED
    BY <1>1 DEF Tv
<1>3. Unaddressed(command)
  <2>1. Unaddressed(Nothing)
    BY DEF Unaddressed, Nothing
  <2> HIDE DEF args, rest
  <2> QED
    BY <2>1, ActionsUnaddressed
<1>4. CASE cut > 1
  <2>1. SubSeq(args, 1, cut - 1) = SubSeq(n, 1, cut - 1)
    <3> DEFINE W == Range(n) \cup Range(form)
    <3>1. n \in Seq(W) /\ form \in Seq(W)
      BY SeqMonotonic
    <3>2. 1 \in 1 .. Len(n) /\ cut - 1 \in 1 .. Len(n)
      BY <1>1, <1>4
    <3> HIDE DEF W
    <3> QED
      BY <3>1, <3>2, SubSeqOfConcat1
  <2> HIDE DEF args, command
  <2>2. \/ Tv(args) = Nothing
        \/ Tv(args) = [command EXCEPT !.device = FindDevice(SubSeq(n, 1, cut - 1))]
    BY <1>2, <2>1 DEF For
  <2>3. PICK action, value : command = Command(NoDevice, action, value)
    BY <1>3 DEF Unaddressed
  <2> QED
    BY <1>4, <2>2, <2>3 DEF Command, args
<1>5. CASE cut <= 1
  BY <1>2, <1>5
<1> QED
  BY <1>1, <1>4, <1>5

\* /tv does to the device it names what the words after the name ask for.
LEMMA TvDoes ==
    ASSUME NEW n, n \in Seq(Range(n)), n # <<>>, \A i \in 1 .. Len(n) : n[i] \notin ActionWord,
           NEW form, form \in Seq(Range(form)), form # <<>>, form[1] \in ActionWord,
           form[1] = "power" => Len(form) > 1, Wanted(form) # Nothing
    PROVE  Tv(n \o form) = For(n, Wanted(form))
<1> DEFINE args == n \o form
           here == Len(n) + 1
<1>1. /\ SubSeq(args, 1, Len(n)) = n /\ Len(n) \in Nat \ {0} /\ Len(form) \in Nat \ {0}
      /\ Len(args) = Len(n) + Len(form)
      /\ \A i \in 1 .. Len(form) : args[Len(n) + i] = form[i]
  BY Split DEF Splits
<1>2. FirstAction(args) = here
  BY Split, ActionAfterName
<1>3. args[here] = form[1] /\ ~(here <= 1) /\ here - 1 = Len(n)
  BY <1>1
<1>4. SubSeq(args, here + 1, Len(args)) = Tail(form)
  <2>1. Tail(form) \in Seq(Range(form)) /\ Len(Tail(form)) = Len(form) - 1
    BY HeadTailProperties
  <2>2. CASE Len(form) = 1
    <3>1. Tail(form) = <<>>
      <4>1. Tail(form) \in Seq(Range(form)) /\ Len(Tail(form)) = 0
        BY <2>1, <2>2
      <4> QED
        BY <4>1, EmptySeq
    <3>2. here + 1 \in Int /\ Len(args) \in Int /\ Len(args) < here + 1
      BY <1>1, <2>2
    <3> HIDE DEF args, here
    <3> QED
      BY <3>1, <3>2, SubSeqEmpty
  <2>3. CASE Len(form) > 1
    <3> DEFINE W == Range(n) \cup Range(form)
    <3>1. n \in Seq(W) /\ form \in Seq(W)
      BY SeqMonotonic
    <3> HIDE DEF W
    <3>2. /\ here + 1 \in Len(n) + 1 .. Len(n) + Len(form) /\ Len(args) \in Len(n) + 1 .. Len(n) + Len(form)
          /\ here + 1 - Len(n) = 2 /\ Len(args) - Len(n) = Len(form)
      BY <1>1, <2>3
    <3>3. SubSeq(n \o form, here + 1, Len(args)) = SubSeq(form, 2, Len(form))
      BY <3>1, <3>2, SubSeqOfConcat2
    <3> QED
      BY <3>3, TailIsSubSeq
  <2> QED
    BY <2>2, <2>3, <1>1
<1>5. form[1] = "power" => Tail(form) # <<>> /\ Tail(form)[1] = form[2]
  <2> SUFFICES ASSUME form[1] = "power" PROVE Tail(form) # <<>> /\ Tail(form)[1] = form[2]
    OBVIOUS
  <2>1. /\ Tail(form) \in Seq(Range(form)) /\ Len(Tail(form)) = Len(form) - 1
        /\ \A i \in 1 .. Len(Tail(form)) : Tail(form)[i] = form[i + 1]
    BY HeadTailProperties
  <2>2. Len(Tail(form)) # 0 /\ 1 \in 1 .. Len(Tail(form)) /\ 1 + 1 = 2
    BY <2>1, <1>1
  <2> QED
    BY <2>1, <2>2, EmptySeq
<1> DEFINE rest == SubSeq(args, here + 1, Len(args))
           command == CASE args[here] # "power" -> Action(args[here], rest)
                        [] args[here] = "power" /\ rest # <<>> -> Action(rest[1], Tail(rest))
                        [] OTHER -> Nothing
<1>6. command = Wanted(form)
  <2> HIDE DEF args, here
  <2>1. CASE form[1] = "power"
    BY <2>1, <1>3, <1>4, <1>5 DEF Wanted
  <2>2. CASE form[1] # "power"
    BY <2>2, <1>3, <1>4, <1>5 DEF Wanted
  <2> QED
    BY <2>1, <2>2
<1>7. Tv(args) = IF here <= 1 \/ command = Nothing THEN Nothing ELSE For(SubSeq(args, 1, here - 1), command)
  <2> HIDE DEF args, here
  <2> QED
    BY <1>2 DEF Tv
<1> HIDE DEF here, command
<1> QED
  BY <1>1, <1>3, <1>6, <1>7

\* What a command for a name that can be called does, it does to its device.
LEMMA CallableFacts ==
    ASSUME ChatAssumption, Named, listed \subseteq Device, NEW d \in listed, NEW n \in Callable(d)
    PROVE  n \in Seq(Range(n)) /\ n # <<>> /\ d # NoDevice /\ FindDevice(n) = d
<1>1. n \in {<<d>>, alias[d], FactoryName[d]} \ {NoAlias} /\ FindDevice(n) = d
  BY DEF Callable
<1>2. n = <<d>> \/ n \in Name
  BY <1>1 DEF Named, ChatAssumption
<1>3. n \in Seq(Range(n)) /\ n # <<>>
  <2>1. CASE n = <<d>>
    <3>1. <<d>> \in Seq({d}) /\ <<d>> # <<>>
      OBVIOUS
    <3> QED
      BY <2>1, <3>1, SeqOfRange
  <2>2. CASE n \in Name
    BY <2>2 DEF ChatAssumption
  <2> QED
    BY <1>2, <2>1, <2>2
<1>4. d # NoDevice
  BY DEF ChatAssumption
<1> QED
  BY <1>1, <1>3, <1>4

LEMMA ForDoes ==
    ASSUME NEW n, NEW d, FindDevice(n) = d, d # NoDevice, NEW action, NEW value
    PROVE  For(n, Command(NoDevice, action, value)) = Command(d, action, value)
BY DEF For, Command

\* A name and a value make a short command.
Short(args, n, word) == ~(Len(args) < 2) /\ Last(args) = word /\ Front(args) = n

LEMMA ShortFacts ==
    ASSUME NEW n, n \in Seq(Range(n)), n # <<>>, NEW word
    PROVE  Short(n \o <<word>>, n, word)
<1> DEFINE form == <<word>>
<1>1. form \in Seq(Range(form)) /\ form # <<>> /\ Len(form) = 1 /\ form[1] = word
  BY Single
<1> HIDE DEF form
<1>2. Splits(n, form)
  BY <1>1, Split
<1>3. /\ SubSeq(n \o form, 1, Len(n)) = n /\ Len(n) \in Nat \ {0} /\ Len(n \o form) = Len(n) + 1
      /\ (n \o form)[Len(n) + 1] = word
  <2>1. Len(form) = 1 /\ 1 \in 1 .. 1
    BY <1>1
  <2>2. (n \o form)[Len(n) + 1] = form[1]
    BY <2>1, <1>2 DEF Splits
  <2> QED
    BY <2>1, <2>2, <1>1, <1>2 DEF Splits
<1> DEFINE args == n \o form
<1>4. ~(Len(args) < 2) /\ Len(args) - 1 = Len(n) /\ Len(args) = Len(n) + 1
  BY <1>3
<1>5. Last(args) = word /\ Front(args) = n
  <2>1. args[Len(n) + 1] = word /\ SubSeq(args, 1, Len(n)) = n
    BY <1>3
  <2> HIDE DEF args
  <2> QED
    BY <2>1, <1>4 DEF Front, Last
<1> QED
  BY <1>4, <1>5 DEF args, form, Short

LEMMA TailOne == \A a : Tail(<<a>>) = <<>>
OBVIOUS
LEMMA TailTwo == \A a, b : Tail(<<a, b>>) = <<b>>
OBVIOUS
LEMMA TailThree == \A a, b, c : Tail(<<a, b, c>>) = <<b, c>>
OBVIOUS

\* The words that the help shows after a device are understood as it says.
LEMMA WantedIs ==
    /\ Wanted(<<"status">>) = Command(NoDevice, "status", "none")
    /\ Wanted(<<"mute">>) = Command(NoDevice, "mute", "none")
    /\ Wanted(<<"power", "on">>) = Command(NoDevice, "power_on", "none")
    /\ Wanted(<<"power", "off">>) = Command(NoDevice, "power_off", "none")
    /\ Wanted(<<"volume", "up">>) = Command(NoDevice, "volume_up", "1")
    /\ Wanted(<<"volume", "up", "3">>) = Command(NoDevice, "volume_up", "3")
    /\ Wanted(<<"volume", "down">>) = Command(NoDevice, "volume_down", "1")
    /\ Wanted(<<"volume", "-3">>) = Command(NoDevice, "volume_down", "3")
    /\ Wanted(<<"volume", "20">>) = Command(NoDevice, "volume_set", "20")
    /\ Wanted(<<"key", "HOME">>) = Command(NoDevice, "key", "HOME")
<1>1. Wanted(<<"status">>) = Command(NoDevice, "status", "none")
  BY TailOne, TailTwo, TailThree DEF Wanted, Action, KeyOf, ActionOf, Volume, Direction, Steps, StepWord, Level, Relative
<1>2. Wanted(<<"mute">>) = Command(NoDevice, "mute", "none")
  BY TailOne, TailTwo, TailThree DEF Wanted, Action, KeyOf, ActionOf, Volume, Direction, Steps, StepWord, Level, Relative
<1>3. Wanted(<<"power", "on">>) = Command(NoDevice, "power_on", "none")
  BY TailOne, TailTwo, TailThree DEF Wanted, Action, KeyOf, ActionOf, Volume, Direction, Steps, StepWord, Level, Relative
<1>4. Wanted(<<"power", "off">>) = Command(NoDevice, "power_off", "none")
  BY TailOne, TailTwo, TailThree DEF Wanted, Action, KeyOf, ActionOf, Volume, Direction, Steps, StepWord, Level, Relative
<1>5. Wanted(<<"volume", "up">>) = Command(NoDevice, "volume_up", "1")
  BY TailOne, TailTwo, TailThree DEF Wanted, Action, KeyOf, ActionOf, Volume, Direction, Steps, StepWord, Level, Relative
<1>6. Wanted(<<"volume", "up", "3">>) = Command(NoDevice, "volume_up", "3")
  BY TailOne, TailTwo, TailThree DEF Wanted, Action, KeyOf, ActionOf, Volume, Direction, Steps, StepWord, Level, Relative
<1>7. Wanted(<<"volume", "down">>) = Command(NoDevice, "volume_down", "1")
  BY TailOne, TailTwo, TailThree DEF Wanted, Action, KeyOf, ActionOf, Volume, Direction, Steps, StepWord, Level, Relative
<1>8. Wanted(<<"volume", "-3">>) = Command(NoDevice, "volume_down", "3")
  BY TailOne, TailTwo, TailThree DEF Wanted, Action, KeyOf, ActionOf, Volume, Direction, Steps, StepWord, Level, Relative
<1>9. Wanted(<<"volume", "20">>) = Command(NoDevice, "volume_set", "20")
  BY TailOne, TailTwo, TailThree DEF Wanted, Action, KeyOf, ActionOf, Volume, Direction, Steps, StepWord, Level, Relative
<1>10. Wanted(<<"key", "HOME">>) = Command(NoDevice, "key", "HOME")
  BY TailOne, TailTwo, TailThree DEF Wanted, Action, KeyOf, ActionOf, Volume, Direction, Steps, StepWord, Level, Relative
<1> QED
  BY <1>1, <1>2, <1>3, <1>4, <1>5, <1>6, <1>7, <1>8, <1>9, <1>10

\* Forms that begin with an action.
TvForm(form) ==
    /\ form \in Seq(Range(form)) /\ form # <<>> /\ form[1] \in ActionWord
    /\ form[1] = "power" => Len(form) > 1

LEMMA OneWord == ASSUME NEW a \in ActionWord \ {"power"} PROVE TvForm(<<a>>)
<1> DEFINE form == <<a>>
<1>1. form \in Seq(Range(form)) /\ form # <<>> /\ form[1] = a
  BY Single
<1> HIDE DEF form
<1> QED
  BY <1>1 DEF TvForm, form

LEMMA TwoWords ==
    ASSUME NEW a \in ActionWord, NEW b
    PROVE  TvForm(<<a, b>>)
<1> DEFINE form == <<a, b>>
<1>1. form \in Seq({a, b}) /\ form # <<>> /\ form[1] = a /\ Len(form) = 2
  OBVIOUS
<1> HIDE DEF form
<1>2. form \in Seq(Range(form))
  BY <1>1, SeqOfRange
<1> QED
  BY <1>1, <1>2 DEF TvForm, form

LEMMA ThreeWords ==
    ASSUME NEW a \in ActionWord \ {"power"}, NEW b, NEW c
    PROVE  TvForm(<<a, b, c>>)
<1> DEFINE form == <<a, b, c>>
<1>1. form \in Seq({a, b, c}) /\ form # <<>> /\ form[1] = a
  OBVIOUS
<1> HIDE DEF form
<1>2. form \in Seq(Range(form))
  BY <1>1, SeqOfRange
<1> QED
  BY <1>1, <1>2 DEF TvForm, form

LEMMA TvForms ==
    ASSUME NEW p \in Promised, p.command = "/tv"
    PROVE  /\ TvForm(p.form)
           /\ Wanted(p.form) = Command(NoDevice, p.action, p.value)
           /\ Wanted(p.form) # Nothing
<1>1. \/ p = Promise("/tv", <<"status">>, "status", "none")
      \/ p = Promise("/tv", <<"mute">>, "mute", "none")
      \/ p = Promise("/tv", <<"power", "on">>, "power_on", "none")
      \/ p = Promise("/tv", <<"power", "off">>, "power_off", "none")
      \/ p = Promise("/tv", <<"volume", "up">>, "volume_up", "1")
      \/ p = Promise("/tv", <<"volume", "up", "3">>, "volume_up", "3")
      \/ p = Promise("/tv", <<"volume", "down">>, "volume_down", "1")
      \/ p = Promise("/tv", <<"volume", "-3">>, "volume_down", "3")
      \/ p = Promise("/tv", <<"volume", "20">>, "volume_set", "20")
      \/ p = Promise("/tv", <<"key", "HOME">>, "key", "HOME")
  BY DEF Promised, Promise
<1> DEFINE a == p.form[1]
           b == p.form[2]
           c == p.form[3]
<1>2. \/ p.form = <<a>> /\ a \in ActionWord \ {"power"}
      \/ p.form = <<a, b>> /\ a \in ActionWord
      \/ p.form = <<a, b, c>> /\ a \in ActionWord \ {"power"}
  BY <1>1 DEF Promise, ActionWord
<1>3. p.action # "none"
  BY <1>1 DEF Promise
<1> HIDE DEF a, b, c
<1>4. TvForm(p.form) /\ p.action # "none"
  BY <1>2, <1>3, OneWord, TwoWords, ThreeWords
<1>5. Wanted(p.form) = Command(NoDevice, p.action, p.value)
  BY <1>1, WantedIs DEF Promise
<1>6. Wanted(p.form) # Nothing
  BY <1>4, <1>5 DEF Nothing, Command
<1> QED
  BY <1>4, <1>5, <1>6

LEMMA ShortForms ==
    ASSUME NEW p \in Promised, p.command # "/tv"
    PROVE  \/ p = Promise("/power", <<"off">>, "power_off", "none")
           \/ p = Promise("/volume", <<"+3">>, "volume_up", "3")
           \/ p = Promise("/volume", <<"20">>, "volume_set", "20")
           \/ p = Promise("/key", <<"LEFT">>, "key", "LEFT")
BY DEF Promised, Promise

LEMMA ShortText ==
    ASSUME NEW n, n \in Seq(Range(n)), n # <<>>, NEW command, NEW word
    PROVE  /\ (<<command>> \o n \o <<word>>)[1] = command
           /\ Tail(<<command>> \o n \o <<word>>) = n \o <<word>>
<1> DEFINE form == <<word>>
<1>1. form \in Seq(Range(form)) /\ form # <<>>
  BY Single
<1> HIDE DEF form
<1>2. (<<command>> \o n \o form)[1] = command /\ Tail(<<command>> \o n \o form) = n \o form
  BY <1>1, Typed
<1> QED
  BY <1>2 DEF form

LEMMA PowerMeans ==
    ASSUME NEW n, n \in Seq(Range(n)), n # <<>>, NEW command, command = "/power",
           NEW word, word = "off"
    PROVE  Meaning(<<command>> \o n \o <<word>>) = For(n, Command(NoDevice, "power_off", "none"))
<1> DEFINE text == <<command>> \o n \o <<word>>
           args == n \o <<word>>
<1>1. text[1] = command /\ Tail(text) = args
  BY ShortText
<1>2. Short(args, n, word)
  BY ShortFacts
<1> HIDE DEF text, args
<1>4. Power(args) = For(n, Command(NoDevice, "power_off", "none"))
  BY <1>2 DEF Power, ActionOf, Short
<1>5. Meaning(text) = Power(args)
  BY <1>1 DEF Meaning
<1> QED
  BY <1>4, <1>5 DEF text

LEMMA LouderMeans ==
    ASSUME NEW n, n \in Seq(Range(n)), n # <<>>, NEW command, command = "/volume",
           NEW word, word = "+3"
    PROVE  Meaning(<<command>> \o n \o <<word>>) = For(n, Command(NoDevice, "volume_up", "3"))
<1> DEFINE text == <<command>> \o n \o <<word>>
           args == n \o <<word>>
<1>1. text[1] = command /\ Tail(text) = args
  BY ShortText
<1>2. Short(args, n, word)
  BY ShortFacts
<1> HIDE DEF text, args
<1>3. Level("+3") = Command(NoDevice, "volume_up", "3")
  BY DEF Level, Relative
<1>4. VolumeShortcut(args) = For(n, Command(NoDevice, "volume_up", "3"))
  BY <1>2, <1>3 DEF VolumeShortcut, Short
<1>5. Meaning(text) = VolumeShortcut(args)
  BY <1>1 DEF Meaning
<1> QED
  BY <1>4, <1>5 DEF text

LEMMA VolumeMeans ==
    ASSUME NEW n, n \in Seq(Range(n)), n # <<>>, NEW command, command = "/volume",
           NEW word, word = "20"
    PROVE  Meaning(<<command>> \o n \o <<word>>) = For(n, Command(NoDevice, "volume_set", "20"))
<1> DEFINE text == <<command>> \o n \o <<word>>
           args == n \o <<word>>
<1>1. text[1] = command /\ Tail(text) = args
  BY ShortText
<1>2. Short(args, n, word)
  BY ShortFacts
<1> HIDE DEF text, args
<1>3. Level("20") = Command(NoDevice, "volume_set", "20")
  BY DEF Level, Relative
<1>4. VolumeShortcut(args) = For(n, Command(NoDevice, "volume_set", "20"))
  BY <1>2, <1>3 DEF VolumeShortcut, Short
<1>5. Meaning(text) = VolumeShortcut(args)
  BY <1>1 DEF Meaning
<1> QED
  BY <1>4, <1>5 DEF text

LEMMA KeyMeans ==
    ASSUME NEW n, n \in Seq(Range(n)), n # <<>>, NEW command, command = "/key",
           NEW word, word = "LEFT"
    PROVE  Meaning(<<command>> \o n \o <<word>>) = For(n, Command(NoDevice, "key", "LEFT"))
<1> DEFINE text == <<command>> \o n \o <<word>>
           args == n \o <<word>>
<1>1. text[1] = command /\ Tail(text) = args
  BY ShortText
<1>2. Short(args, n, word)
  BY ShortFacts
<1> HIDE DEF text, args
<1>4. KeyShortcut(args) = For(n, Command(NoDevice, "key", "LEFT"))
  BY <1>2 DEF KeyShortcut, Short
<1>5. Meaning(text) = KeyShortcut(args)
  BY <1>1 DEF Meaning
<1> QED
  BY <1>4, <1>5 DEF text

LEMMA TvMeans ==
    ASSUME NEW n, n \in Seq(Range(n)), n # <<>>, \A i \in 1 .. Len(n) : n[i] \notin ActionWord,
           NEW command, command = "/tv", NEW form, form \in Seq(Range(form)), form # <<>>, form[1] \in ActionWord,
           form[1] = "power" => Len(form) > 1, Wanted(form) # Nothing
    PROVE  Meaning(<<command>> \o n \o form) = For(n, Wanted(form))
<1> DEFINE text == <<command>> \o n \o form
<1>1. text[1] = command /\ Tail(text) = n \o form
  BY Typed
<1>2. Tv(n \o form) = For(n, Wanted(form))
  BY TvDoes
<1> HIDE DEF text
<1>3. Meaning(text) = Tv(n \o form)
  BY <1>1 DEF Meaning
<1> QED
  BY <1>2, <1>3 DEF text

\* The same message with a name that has an action word.
LEMMA CutMeans ==
    ASSUME NEW n, n \in Seq(Range(n)), n # <<>>, FirstAction(n) # 0, NEW command, command = "/tv",
           NEW form, form \in Seq(Range(form)), form # <<>>
    PROVE  LET does == Meaning(<<command>> \o n \o form)
               cut == FirstAction(n)
           IN does = Nothing \/ (cut > 1 /\ does.device = FindDevice(SubSeq(n, 1, cut - 1)))
<1> DEFINE text == <<command>> \o n \o form
<1>1. text[1] = command /\ Tail(text) = n \o form
  BY Typed
<1> HIDE DEF text
<1>2. Meaning(text) = Tv(n \o form)
  BY <1>1 DEF Meaning
<1>3. \/ Tv(n \o form) = Nothing
      \/ FirstAction(n) > 1 /\ Tv(n \o form).device = FindDevice(SubSeq(n, 1, FirstAction(n) - 1))
  BY TvCuts
<1> QED
  BY <1>2, <1>3 DEF text

\* Whatever the names, a promise is kept to every name that /tv does not cut.
LEMMA PromisesKept == Named /\ listed \subseteq Device => HelpIsTrue
<1> SUFFICES ASSUME Named, listed \subseteq Device, NEW d \in listed, NEW n \in Callable(d),
                    NEW p \in Promised
             PROVE  LET does == Meaning(<<p.command>> \o n \o p.form)
                        cut == FirstAction(n)
                    IN IF p.command = "/tv" /\ cut # 0
                       THEN does = Nothing \/ (cut > 1 /\ does.device = FindDevice(SubSeq(n, 1, cut - 1)))
                       ELSE does = Command(d, p.action, p.value)
  BY DEF HelpIsTrue
<1>1. n \in Seq(Range(n)) /\ n # <<>> /\ d # NoDevice /\ FindDevice(n) = d
  BY ChatAssumption, CallableFacts
<1>c. CASE p.command = "/tv" /\ FirstAction(n) # 0
  <2>1. p.form \in Seq(Range(p.form)) /\ p.form # <<>>
    BY <1>c, TvForms DEF TvForm
  <2> QED
    BY <1>1, <1>c, <2>1, CutMeans
<1> SUFFICES ASSUME p.command = "/tv" => FirstAction(n) = 0
             PROVE  Meaning(<<p.command>> \o n \o p.form) = Command(d, p.action, p.value)
  BY <1>c
<1> DEFINE word == p.form[1]
<1>2. Meaning(<<p.command>> \o n \o p.form) = For(n, Command(NoDevice, p.action, p.value))
  <2>1. CASE p.command = "/tv"
    <3>1. /\ TvForm(p.form)
          /\ Wanted(p.form) = Command(NoDevice, p.action, p.value) /\ Wanted(p.form) # Nothing
      BY <2>1, TvForms
    <3>2. Len(n) \in Nat /\ FirstAction(n) = 0
      BY <2>1, <1>1, LenProperties
    <3>3. \A i \in 1 .. Len(n) : n[i] \notin ActionWord
      BY <3>2, FirstActionFacts
    <3>4. Meaning(<<p.command>> \o n \o p.form) = For(n, Wanted(p.form))
      BY <2>1, <1>1, <3>1, <3>3, TvMeans DEF TvForm
    <3> QED
      BY <2>1, <3>1, <3>4
  <2>2. CASE p = Promise("/power", <<"off">>, "power_off", "none")
    <3>1. p.command = "/power" /\ p.form = <<word>> /\ word = "off" /\ p.action = "power_off" /\ p.value = "none"
      BY <2>2 DEF Promise
    <3> HIDE DEF word
    <3> QED
      BY <1>1, <3>1, PowerMeans
  <2>3. CASE p = Promise("/volume", <<"+3">>, "volume_up", "3")
    <3>1. p.command = "/volume" /\ p.form = <<word>> /\ word = "+3" /\ p.action = "volume_up" /\ p.value = "3"
      BY <2>3 DEF Promise
    <3> HIDE DEF word
    <3> QED
      BY <1>1, <3>1, LouderMeans
  <2>4. CASE p = Promise("/volume", <<"20">>, "volume_set", "20")
    <3>1. p.command = "/volume" /\ p.form = <<word>> /\ word = "20" /\ p.action = "volume_set" /\ p.value = "20"
      BY <2>4 DEF Promise
    <3> HIDE DEF word
    <3> QED
      BY <1>1, <3>1, VolumeMeans
  <2>5. CASE p = Promise("/key", <<"LEFT">>, "key", "LEFT")
    <3>1. p.command = "/key" /\ p.form = <<word>> /\ word = "LEFT" /\ p.action = "key" /\ p.value = "LEFT"
      BY <2>5 DEF Promise
    <3> HIDE DEF word
    <3> QED
      BY <1>1, <3>1, KeyMeans
  <2> QED
    BY <2>1, <2>2, <2>3, <2>4, <2>5, ShortForms
<1> QED
  BY <1>1, <1>2, ForDoes

LEMMA NamedStays == Named /\ [Next]_vars => Named'
<1> SUFFICES ASSUME Named, [Next]_vars PROVE Named'
  OBVIOUS
<1>1. CASE Renamed
  <2>1. PICK d \in Device, name \in Name : alias' = [alias EXCEPT ![d] = name]
    BY <1>1 DEF Renamed, Rename
  <2> QED
    BY <2>1 DEF Named
<1>2. CASE Send
  BY <1>2 DEF Send, Arrive, inventory, Named
<1>3. CASE Start \/ Cancel \/ Die \/ Fetched \/ PollFailed \/ Retry \/ Return
  BY <1>3 DEF Start, Cancel, Die, Fetched, PollFailed, Retry, Return, inventory, Named
<1>4. CASE Ignore \/ HandleTap \/ HandleMessage \/ Answer
  BY <1>4 DEF Ignore, HandleTap, HandleMessage, Answer, inventory, Named
<1>5. CASE UNCHANGED vars
  BY <1>5 DEF vars, inventory, Named
<1> QED
  BY <1>1, <1>2, <1>3, <1>4, <1>5 DEF Next, Run, Handle

\* Every form the help lists does what the help says to the device it is typed
\* with, for every set of devices, names and renames; a /tv with a name that
\* has an action word does nothing, or is for the device that the words before
\* it name (the parsers of bot.go against tvHelp and commandReference).
THEOREM HelpAlwaysTrue == Spec => []HelpIsTrue
<1>1. Init => Named
  BY DEF Init, Named
<1>2. Named /\ IInv => HelpIsTrue
  BY PromisesKept DEF IInv, Shapes
<1> QED
  BY <1>1, <1>2, NamedStays, QueueIsFollowed, PTL DEF Spec
=============================================================================
