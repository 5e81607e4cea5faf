-------------------------- MODULE SecretStoreProofs --------------------------
(***************************************************************************)
(* What is found in the secret store, for any number of processes, names   *)
(* and values.                                                             *)
(***************************************************************************)
EXTENDS SecretStore, TLAPS

Call == [at : Point, op : Operation, name : Secret, value : Entry, values : File]
Changing(c) == c.op \in {"set", "delete", "rotate"}

\* The shape of the calls, and what the kind of keychain says of it.
Shaped ==
    /\ call \in [Process -> {NoCall} \cup Call]
    /\ \A p \in Process : LET c == call[p] IN
          c # NoCall =>
             /\ c.op \in {"ensure", "rotate"} <=> c.name \in Token
             /\ c.at \in {"truncate", "fill", "remove"} => Changing(c)
             /\ c.at \in {"truncate", "fill"} => c.values # Empty
    /\ mode = "absent" => keychain = Empty
    /\ mode # "flaky" => shadowed = {}

\* With F for the file, every name is found as it was promised.
Sound(F) ==
    \A n \in Secret :
       /\ F[n] \in promised[n] \cup {None}
       /\ n \notin shadowed => keychain[n] \in promised[n] \cup {None}
       /\ mode # "flaky" /\ keychain[n] = None /\ F[n] = None => None \in promised[n]

\* With F for the file, the token that a process holds is the one found.
Kept(F) ==
    mode # "flaky" =>
       \A p \in Process, t \in Token :
          held[p][t] # None =>
             keychain[t] = held[p][t] \/ (keychain[t] = None /\ F[t] = held[p][t])

\* The keychain has had its part of the change: what it holds now and what
\* the file is to hold are the new value or nothing.
Settled(c) ==
    /\ c.values[c.name] \in {c.value, None}
    /\ c.name \notin shadowed => keychain[c.name] \in {c.value, None}
    /\ mode = "works" => keychain[c.name] = c.value
    /\ mode = "absent" => c.values[c.name] = c.value

NobodyHolds(t) == \A p \in Process : held[p][t] = None

\* A call on its way.  A token is replaced only while nobody holds it.
Underway(c) ==
    /\ Changing(c) => c.value \in promised[c.name]
    /\ Changing(c) /\ c.at # "keychain" => Settled(c)
    /\ c.at \in {"truncate", "fill", "remove"} => Sound(c.values) /\ Kept(c.values)
    /\ c.at \in {"truncate", "remove"} => fallback # Torn
    /\ c.at = "fill" => fallback = Torn
    /\ c.at = "remove" => c.values = Empty
    /\ c.at = "read" /\ ~Changing(c) /\ mode # "flaky" => keychain[c.name] = None
    /\ c.op = "rotate" /\ mode # "flaky" /\ (fallback # Torn \/ c.at = "fill") =>
          NobodyHolds(c.name)

\* The store as long as no two processes are in it at once.
Orderly ==
    /\ \A p, q \in Process : call[p] # NoCall /\ call[q] # NoCall => p = q
    /\ fallback # Torn => Sound(Contents) /\ Kept(Contents)
    /\ \A p \in Process : call[p] # NoCall => Underway(call[p])

IInv ==
    /\ TypeOK /\ Shaped
    /\ ~overlapped => Orderly

-----------------------------------------------------------------------------
(* Helpers *)

LEMMA Shapes ==
    /\ Empty \in File /\ NoFile \notin File /\ Torn \notin File
    /\ NoCall \notin Call /\ NoCall.at = "idle" /\ ~Changing(NoCall)
    /\ \A c \in Call : c.at # "idle" /\ c # NoCall
BY SecretAssumption DEF Empty, File, Entry, NoCall, Call, Point, Changing

\* A file that is not torn has contents.
LEMMA ContentsType ==
    ASSUME TypeOK, fallback # Torn
    PROVE  Contents \in File
BY Shapes DEF TypeOK, Contents

LEMMA ReachableModes ==
    ASSUME TypeOK
    PROVE  /\ TRUE \in Reachable => mode # "absent"
           /\ FALSE \in Reachable => mode # "works"
           /\ FALSE \notin Reachable => mode = "works"
           /\ TRUE \notin Reachable => mode = "absent"
           /\ Reachable \subseteq BOOLEAN
<1>1. mode \in {"works", "absent", "flaky"}
  BY SecretAssumption DEF TypeOK, ModeKind
<1>2. CASE mode = "works"
  BY <1>2 DEF Reachable
<1>3. CASE mode = "absent"
  BY <1>3 DEF Reachable
<1>4. CASE mode = "flaky"
  BY <1>4 DEF Reachable
<1> QED
  BY <1>1, <1>2, <1>3, <1>4

\* Without overlap, the other processes are in no call, whatever the one does.
LEMMA OthersIdle ==
    ASSUME IInv, Orderly, NEW p \in Process, call[p] # NoCall, NEW c,
           call' = [call EXCEPT ![p] = c]
    PROVE  /\ call'[p] = c
           /\ \A q \in Process \ {p} : call[q] = NoCall /\ call'[q] = NoCall
           /\ \A q, r \in Process : call'[q] # NoCall /\ call'[r] # NoCall => q = r
BY DEF IInv, Shaped, Orderly

\* A call that ends leaves the shape of the others.
LEMMA EndingShape ==
    ASSUME IInv, NEW p \in Process, call' = [call EXCEPT ![p] = NoCall],
           UNCHANGED <<keychain, shadowed, mode>>
    PROVE  Shaped'
<1>1. /\ call' \in [Process -> {NoCall} \cup Call]
      /\ \A q \in Process : call'[q] = NoCall \/ call'[q] = call[q]
  BY DEF IInv, Shaped
<1> QED
  BY <1>1 DEF IInv, Shaped

\* A call that goes on leaves the shape of the others.
LEMMA MovingShape ==
    ASSUME IInv, NEW p \in Process, NEW c \in Call, call' = [call EXCEPT ![p] = c],
           c.op \in {"ensure", "rotate"} <=> c.name \in Token,
           c.at \in {"truncate", "fill", "remove"} => Changing(c),
           c.at \in {"truncate", "fill"} => c.values # Empty,
           (mode = "absent" => keychain = Empty)',
           (mode # "flaky" => shadowed = {})'
    PROVE  Shaped'
<1>1. /\ call' \in [Process -> {NoCall} \cup Call] /\ call'[p] = c
      /\ \A q \in Process \ {p} : call'[q] = call[q]
  BY DEF IInv, Shaped
<1> QED
  BY <1>1 DEF IInv, Shaped

LEMMA ShapedCalls ==
    ASSUME Shaped
    PROVE  \A p \in Process :
              call[p] = NoCall \/ call[p] \in [at : Point, op : Operation, name : Secret,
                                               value : Entry, values : File]
BY DEF Shaped, Call

\* What the other variables need for TypeOK.
LEMMA TypesNext ==
    ASSUME Shaped', keychain' \in File, fallback' \in (File \ {Empty}) \cup {NoFile, Torn},
           held' \in [Process -> [Token -> Entry]], promised' \in [Secret -> SUBSET Entry],
           shadowed' \subseteq Secret, mode' \in Mode, crashes' \in 0 .. MaxCrashes,
           overlapped' \in BOOLEAN
    PROVE  TypeOK'
BY DEF Shaped, Call, TypeOK

\* A call that ends with the storage, the promises and the tokens as they were.
LEMMA EndingQuietly ==
    ASSUME IInv, Orderly, NEW p \in Process, call[p] # NoCall,
           call' = [call EXCEPT ![p] = NoCall],
           UNCHANGED <<keychain, fallback, shadowed, mode, promised, held>>
    PROVE  Orderly'
<1>1. /\ \A q \in Process : call'[q] = NoCall
      /\ \A q, r \in Process : call'[q] # NoCall /\ call'[r] # NoCall => q = r
  BY OthersIdle
<1>2. Contents' = Contents
  BY DEF Contents
<1>3. fallback' # Torn => Sound(Contents)' /\ Kept(Contents)'
  BY <1>2 DEF Orderly, Sound, Kept
<1> QED
  BY <1>1, <1>3 DEF Orderly

\* A change that returns without error: the name is found as it was saved.
LEMMA Succeeding ==
    ASSUME IInv, Orderly, NEW p \in Process, call[p] # NoCall, Changing(call[p]),
           call[p].at # "keychain", Succeed(p),
           UNCHANGED <<keychain, shadowed, mode>>,
           NEW F \in File, F[call[p].name] = call[p].values[call[p].name],
           Sound(F), Kept(F),
           call[p].op = "rotate" /\ mode # "flaky" => NobodyHolds(call[p].name),
           fallback' # Torn => Contents' = F
    PROVE  Orderly'
<1> DEFINE c == call[p]
<1>1. /\ call' = [call EXCEPT ![p] = NoCall]
      /\ promised' = [promised EXCEPT ![c.name] = {c.value}]
      /\ held' = IF c.op = "rotate" THEN [held EXCEPT ![p][c.name] = c.value] ELSE held
  BY DEF Succeed, Changing
<1>2. c.name \in Secret /\ c.value \in Entry /\ (c.op = "rotate" => c.name \in Token)
  BY DEF IInv, Shaped, Call
<1>3. Settled(c)
  BY DEF Orderly, Underway
<1>4. promised \in [Secret -> SUBSET Entry] /\ held \in [Process -> [Token -> Entry]]
  BY DEF IInv, TypeOK
<1>5. mode = "works" \/ mode = "absent" \/ mode = "flaky"
  BY SecretAssumption DEF IInv, TypeOK, ModeKind
<1>6. mode = "absent" => \A n \in Secret : keychain[n] = None
  BY DEF IInv, Shaped, Empty
<1>7. Sound(F)'
  <2>1. \A n \in Secret \ {c.name} : promised'[n] = promised[n]
    BY <1>1, <1>2, <1>4
  <2>2. promised'[c.name] = {c.value}
    BY <1>1, <1>2, <1>4
  <2>3. ASSUME NEW n \in Secret
        PROVE  /\ F[n] \in promised'[n] \cup {None}
               /\ n \notin shadowed => keychain[n] \in promised'[n] \cup {None}
               /\ mode # "flaky" /\ keychain[n] = None /\ F[n] = None => None \in promised'[n]
    <3>1. CASE n = c.name
      BY <3>1, <2>2, <1>3, <1>5, <1>6 DEF Settled
    <3>2. CASE n # c.name
      BY <3>2, <2>1 DEF Sound
    <3> QED
      BY <3>1, <3>2
  <2> QED
    BY <2>3 DEF Sound
<1>8. Kept(F)'
  <2>1. ASSUME mode # "flaky", NEW q \in Process, NEW t \in Token, held'[q][t] # None
        PROVE  keychain[t] = held'[q][t] \/ (keychain[t] = None /\ F[t] = held'[q][t])
    <3>1. CASE held'[q][t] = held[q][t]
      BY <2>1, <3>1 DEF Kept
    <3>2. CASE held'[q][t] # held[q][t]
      <4>1. c.op = "rotate" /\ t = c.name /\ held'[q][t] = c.value
        BY <1>1, <1>2, <1>4, <3>2
      <4> QED
        BY <4>1, <1>2, <1>3, <1>5, <1>6, <2>1, SecretAssumption DEF Settled
    <3> QED
      BY <3>1, <3>2
  <2> QED
    BY <2>1 DEF Kept
<1>9. /\ \A q \in Process : call'[q] = NoCall
      /\ \A q, r \in Process : call'[q] # NoCall /\ call'[r] # NoCall => q = r
  BY <1>1, OthersIdle
<1>10. fallback' # Torn => Sound(Contents)' /\ Kept(Contents)'
  BY <1>7, <1>8 DEF Sound, Kept
<1> QED
  BY <1>9, <1>10 DEF Orderly

\* Types at the end of a change.
LEMMA SucceedingTypes ==
    ASSUME IInv, NEW p \in Process, call[p] # NoCall, Succeed(p)
    PROVE  promised' \in [Secret -> SUBSET Entry] /\ held' \in [Process -> [Token -> Entry]]
<1>1. /\ call[p].name \in Secret /\ call[p].value \in Entry
      /\ call[p].op = "rotate" => call[p].name \in Token
  BY DEF IInv, Shaped, Call
<1>2. promised \in [Secret -> SUBSET Entry] /\ held \in [Process -> [Token -> Entry]]
  BY DEF IInv, TypeOK
<1>3. promised' = promised \/ promised' = [promised EXCEPT ![call[p].name] = {call[p].value}]
  BY DEF Succeed
<1>4. held' = held \/ (call[p].op = "rotate"
                        /\ held' = [held EXCEPT ![p][call[p].name] = call[p].value])
  BY DEF Succeed
<1>5. promised' \in [Secret -> SUBSET Entry]
  BY <1>1, <1>2, <1>3
<1>6. held' \in [Process -> [Token -> Entry]]
  BY <1>1, <1>2, <1>4
<1> QED
  BY <1>5, <1>6

-----------------------------------------------------------------------------
(* Calls begin and end *)

LEMMA InitInv == Init => IInv
<1> SUFFICES ASSUME Init PROVE IInv
  OBVIOUS
<1>1. \A n \in Secret, v \in Value : [Empty EXCEPT ![n] = v] \in File \ {Empty}
  BY SecretAssumption DEF Empty, File, Entry
<1>2. fallback \in (File \ {Empty}) \cup {NoFile} /\ fallback # Torn
  <2>1. fallback = NoFile \/ \E n \in Secret, v \in Value : fallback = [Empty EXCEPT ![n] = v]
    BY DEF Init
  <2>2. fallback = NoFile \/ fallback \in File \ {Empty}
    BY <1>1, <2>1
  <2> QED
    BY <2>2, Shapes, SecretAssumption
<1>3. Contents \in File
  BY <1>2, Shapes DEF Contents
<1>4. \A n \in Secret : Contents[n] \in Entry
  BY <1>3 DEF File
<1>5. promised \in [Secret -> SUBSET Entry] /\ \A n \in Secret : promised[n] = {Contents[n]}
  BY <1>4 DEF Init
<1>6. held \in [Process -> [Token -> Entry]]
  BY DEF Init, Entry
<1>7. crashes \in 0 .. MaxCrashes
  BY CrashAssumption DEF Init
<1>8. TypeOK
  <2>1. keychain \in File /\ mode \in Mode /\ shadowed \subseteq Secret /\ overlapped \in BOOLEAN
    <3>1. keychain = Empty /\ mode \in Mode /\ shadowed = {} /\ overlapped = FALSE
      BY DEF Init
    <3> QED
      BY <3>1, Shapes
  <2>2. \A p \in Process : call[p] = NoCall
    BY DEF Init
  <2> QED
    BY <1>2, <1>5, <1>6, <1>7, <2>1, <2>2 DEF TypeOK
<1>9. Shaped
  BY DEF Init, Shaped
<1>10. Orderly
  BY <1>5 DEF Init, Orderly, Sound, Kept, Empty
<1> QED
  BY <1>8, <1>9, <1>10 DEF IInv

LEMMA BeginInv ==
    ASSUME IInv, NEW p \in Process, NEW op \in Operation, NEW n \in Secret, NEW v \in Entry,
           Begin(p, op, n, v)
    PROVE  IInv'
<1> DEFINE c == [at |-> "keychain", op |-> op, name |-> n, value |-> v, values |-> Empty]
<1>1. /\ call[p] = NoCall /\ ~overlapped /\ call' = [call EXCEPT ![p] = c]
      /\ promised' = [promised EXCEPT ![n] = CASE op = "set" -> @ \cup {v}
                                               [] op = "delete" -> @ \cup {None}
                                               [] OTHER -> @]
      /\ overlapped' = (overlapped \/ Busy # {})
      /\ UNCHANGED <<keychain, fallback, held, mode, crashes, shadowed>>
  BY DEF Begin, storage
<1>2. /\ \/ op = "ensure" /\ n \in Token
         \/ op \in {"get", "set", "delete"} /\ n \notin Token
      /\ op = "delete" => v = None
  BY DEF Begin
<1>3. /\ c \in Call /\ c.at = "keychain" /\ c.op = op /\ c.name = n /\ c.value = v
      /\ c # NoCall
  BY Shapes DEF Call, Point, NoCall
<1> HIDE DEF c
<1>4. /\ promised' \in [Secret -> SUBSET Entry]
      /\ \A m \in Secret \ {n} : promised'[m] = promised[m]
      /\ promised[n] \subseteq promised'[n]
      /\ op \in {"set", "delete"} => v \in promised'[n]
      /\ \A m \in Secret : promised[m] \subseteq promised'[m]
  <2>1. promised \in [Secret -> SUBSET Entry] /\ None \in Entry
    BY DEF IInv, TypeOK, Entry
  <2>2. CASE op = "set"
    <3>1. promised' = [promised EXCEPT ![n] = @ \cup {v}]
      BY <1>1, <2>2
    <3> QED
      BY <2>1, <2>2, <3>1
  <2>3. CASE op = "delete"
    <3>1. promised' = [promised EXCEPT ![n] = @ \cup {None}]
      BY <1>1, <2>3
    <3> QED
      BY <1>2, <2>1, <2>3, <3>1
  <2>4. CASE op \notin {"set", "delete"}
    <3>1. promised' = [promised EXCEPT ![n] = @]
      BY <1>1, <2>4
    <3> QED
      BY <2>1, <2>4, <3>1
  <2> QED
    BY <2>2, <2>3, <2>4
<1>5. call' \in [Process -> {NoCall} \cup Call] /\ overlapped' \in BOOLEAN
  BY <1>1, <1>3 DEF IInv, Shaped
<1>6. Shaped'
  BY <1>1, <1>2, <1>3, MovingShape DEF Changing, IInv, Shaped
<1>7. TypeOK'
  BY <1>1, <1>4, <1>5, <1>6, ShapedCalls DEF IInv, TypeOK, Call
<1>8. ASSUME ~overlapped' PROVE Orderly'
  <2>1. Orderly /\ \A q \in Process : call[q] = NoCall
    BY <1>1, <1>8 DEF IInv, Busy
  <2>2. call'[p] = c /\ \A q \in Process \ {p} : call'[q] = NoCall
    BY <1>1, <2>1 DEF IInv, Shaped
  <2>3. Contents' = Contents
    BY <1>1 DEF Contents
  <2>4. fallback' # Torn => Sound(Contents)' /\ Kept(Contents)'
    BY <1>1, <1>4, <2>1, <2>3 DEF Orderly, Sound, Kept
  <2>5. Underway(call[p])'
    BY <1>2, <1>3, <1>4, <2>2 DEF Underway, Changing
  <2> QED
    BY <2>2, <2>4, <2>5 DEF Orderly
<1> QED
  BY <1>6, <1>7, <1>8 DEF IInv

LEMMA ExitInv ==
    ASSUME IInv, NEW p \in Process, Exit(p)
    PROVE  IInv'
<1>1. /\ call' = [call EXCEPT ![p] = NoCall]
      /\ held' = [held EXCEPT ![p] = [t \in Token |-> None]]
      /\ UNCHANGED <<keychain, fallback, mode, promised, shadowed, overlapped>>
  BY DEF Exit, storage
<1>2. crashes' \in 0 .. MaxCrashes
  <2>1. /\ crashes \in 0 .. MaxCrashes
        /\ crashes' = crashes \/ (crashes < MaxCrashes /\ crashes' = crashes + 1)
    BY DEF IInv, TypeOK, Exit
  <2> QED
    BY <2>1, CrashAssumption
<1>3. /\ held' \in [Process -> [Token -> Entry]]
      /\ \A q \in Process, t \in Token : held'[q][t] = held[q][t] \/ held'[q][t] = None
  <2>1. [t \in Token |-> None] \in [Token -> Entry]
    BY DEF Entry
  <2> QED
    BY <1>1, <2>1 DEF IInv, TypeOK
<1>4. Shaped'
  BY <1>1, EndingShape
<1>5. TypeOK'
  BY <1>1, <1>2, <1>3, <1>4, ShapedCalls DEF IInv, TypeOK, Call
<1>6. ASSUME ~overlapped' PROVE Orderly'
  <2>1. Orderly /\ call \in [Process -> {NoCall} \cup Call]
    BY <1>1, <1>6 DEF IInv, Shaped
  <2>2. \A q \in Process : call'[q] = NoCall \/ call'[q] = call[q]
    BY <1>1, <2>1
  <2>3. Contents' = Contents
    BY <1>1 DEF Contents
  <2>4. fallback' # Torn => Sound(Contents)' /\ Kept(Contents)'
    BY <1>1, <1>3, <2>1, <2>3 DEF Orderly, Sound, Kept
  <2>5. ASSUME NEW q \in Process, call'[q] # NoCall PROVE Underway(call[q])'
    <3>1. call'[q] = call[q] /\ call[q] # NoCall /\ Underway(call[q])
      BY <2>1, <2>2, <2>5 DEF Orderly
    <3>2. Kept(call[q].values) => Kept(call[q].values)'
      BY <1>1, <1>3, <3>1 DEF Kept
    <3>3. Sound(call[q].values) => Sound(call[q].values)'
      BY <1>1, <3>1 DEF Sound
    <3>4. call[q].name \in Token => (NobodyHolds(call[q].name) => NobodyHolds(call[q].name)')
      BY <1>3, <3>1 DEF NobodyHolds
    <3>5. call[q].op = "rotate" => call[q].name \in Token
      BY <3>1 DEF IInv, Shaped
    <3> QED
      BY <1>1, <3>1, <3>2, <3>3, <3>4, <3>5 DEF Underway, Settled
  <2> QED
    BY <2>1, <2>2, <2>4, <2>5 DEF Orderly
<1> QED
  BY <1>4, <1>5, <1>6 DEF IInv

-----------------------------------------------------------------------------
(* Get and ensureToken *)

\* What a process finds is what it holds from then on.
LEMMA FoundInv ==
    ASSUME IInv, NEW p \in Process, call[p] # NoCall, ~Changing(call[p]), NEW v \in Entry,
           Found(p, v),
           UNCHANGED <<keychain, fallback, mode, crashes, overlapped, shadowed>>,
           ~overlapped /\ mode # "flaky" /\ fallback # Torn =>
              keychain[call[p].name] = v
                 \/ (keychain[call[p].name] = None /\ Contents[call[p].name] = v)
    PROVE  IInv'
<1> DEFINE n == call[p].name
<1>1. /\ call' = [call EXCEPT ![p] = NoCall] /\ promised' = promised
      /\ held' = IF call[p].op = "ensure" THEN [held EXCEPT ![p][n] = v] ELSE held
  BY DEF Found
<1>2. call[p].op = "ensure" => n \in Token
  BY DEF IInv, Shaped
<1>3. /\ held' \in [Process -> [Token -> Entry]]
      /\ \A q \in Process, t \in Token :
            held'[q][t] = held[q][t] \/ (t = n /\ held'[q][t] = v)
  BY <1>1, <1>2 DEF IInv, TypeOK
<1>4. Shaped'
  BY <1>1, EndingShape
<1>5. TypeOK'
  BY <1>1, <1>3, <1>4, ShapedCalls DEF IInv, TypeOK, Call
<1>6. ASSUME ~overlapped' PROVE Orderly'
  <2>1. Orderly
    BY <1>6 DEF IInv
  <2>2. /\ \A q \in Process : call'[q] = NoCall
        /\ \A q, r \in Process : call'[q] # NoCall /\ call'[r] # NoCall => q = r
    BY <1>1, <2>1, OthersIdle
  <2>3. Contents' = Contents
    BY DEF Contents
  <2>4. fallback' # Torn => Sound(Contents)'
    BY <1>1, <2>1, <2>3 DEF Orderly, Sound
  <2>5. fallback' # Torn => Kept(Contents)'
    <3>1. ASSUME fallback # Torn, mode # "flaky", NEW q \in Process, NEW t \in Token,
                 held'[q][t] # None
          PROVE  keychain[t] = held'[q][t] \/ (keychain[t] = None /\ Contents[t] = held'[q][t])
      <4>1. CASE held'[q][t] = held[q][t]
        BY <2>1, <3>1, <4>1 DEF Orderly, Kept
      <4>2. CASE t = n /\ held'[q][t] = v
        BY <3>1, <4>2, <1>6
      <4> QED
        BY <1>3, <4>1, <4>2
    <3> QED
      BY <2>3, <3>1 DEF Kept
  <2> QED
    BY <2>2, <2>4, <2>5 DEF Orderly
<1> QED
  BY <1>4, <1>5, <1>6 DEF IInv

LEMMA GetKeychainInv ==
    ASSUME IInv, NEW p \in Process, GetKeychain(p)
    PROVE  IInv'
<1> DEFINE c == call[p]
<1>1. /\ c.at = "keychain" /\ c.op \in {"get", "ensure"} /\ c # NoCall /\ ~Changing(c)
      /\ UNCHANGED <<keychain, fallback, mode, crashes, overlapped, shadowed>>
  BY Shapes DEF GetKeychain, storage, history, Changing
<1>2. c \in Call /\ c.name \in Secret
  BY <1>1 DEF IInv, Shaped, Call
<1>3. keychain[c.name] \in Entry
  BY <1>2 DEF IInv, TypeOK, File
<1>4. CASE Found(p, keychain[c.name])
  BY <1>1, <1>3, <1>4, FoundInv
<1>5. CASE /\ FALSE \in Reachable \/ keychain[c.name] = None
           /\ Goto(p, "read") /\ UNCHANGED <<promised, held>>
  <2> DEFINE d == [c EXCEPT !.at = "read"]
  <2>1. /\ call' = [call EXCEPT ![p] = d]
        /\ d \in Call /\ d.at = "read" /\ d.op = c.op /\ d.name = c.name /\ d # NoCall
    BY <1>2, <1>5, Shapes DEF Goto, Call, Point
  <2> HIDE DEF d
  <2>2. Shaped'
    BY <1>1, <2>1, MovingShape DEF IInv, Shaped
  <2>3. TypeOK'
    <3>1. /\ keychain' = keychain /\ fallback' = fallback /\ mode' = mode
          /\ crashes' = crashes /\ overlapped' = overlapped /\ shadowed' = shadowed
          /\ promised' = promised /\ held' = held
      BY <1>1, <1>5
    <3>2. \A q \in Process :
             call'[q] = NoCall \/ call'[q] \in [at : Point, op : Operation, name : Secret,
                                                value : Entry, values : File]
      BY <2>2, ShapedCalls DEF Call, Shaped
    <3> QED
      BY <3>1, <3>2 DEF IInv, TypeOK
  <2>4. ASSUME ~overlapped' PROVE Orderly'
    <3>1. Orderly
      BY <1>1, <2>4 DEF IInv
    <3>2. /\ call'[p] = d /\ \A q \in Process \ {p} : call'[q] = NoCall
          /\ \A q, r \in Process : call'[q] # NoCall /\ call'[r] # NoCall => q = r
      BY <1>1, <2>1, <3>1, OthersIdle
    <3>3. Contents' = Contents
      BY <1>1 DEF Contents
    <3>4. fallback' # Torn => Sound(Contents)' /\ Kept(Contents)'
      BY <1>1, <1>5, <3>1, <3>3 DEF Orderly, Sound, Kept
    <3>5. mode # "flaky" => keychain[c.name] = None
      <4>1. TypeOK /\ (mode = "absent" => keychain = Empty)
        BY DEF IInv, Shaped
      <4>2. mode = "works" \/ mode = "absent" \/ mode = "flaky"
        BY <4>1, SecretAssumption DEF TypeOK, ModeKind
      <4> QED
        BY <1>2, <1>5, <4>1, <4>2, ReachableModes DEF Empty
    <3>6. Underway(call[p])'
      BY <1>1, <2>1, <3>2, <3>5 DEF Underway, Changing
    <3> QED
      BY <3>2, <3>4, <3>6 DEF Orderly
  <2> QED
    BY <2>2, <2>3, <2>4 DEF IInv
<1> QED
  BY <1>4, <1>5 DEF GetKeychain

LEMMA GetFallbackInv ==
    ASSUME IInv, NEW p \in Process, GetFallback(p)
    PROVE  IInv'
<1> DEFINE c == call[p]
<1>1. /\ c.at = "read" /\ c.op \in {"get", "ensure"} /\ c # NoCall /\ ~Changing(c)
      /\ UNCHANGED <<keychain, fallback, mode, crashes, overlapped, shadowed>>
  BY Shapes DEF GetFallback, storage, history, Changing
<1>2. c \in Call /\ c.name \in Secret
  BY <1>1 DEF IInv, Shaped, Call
<1>3. Contents' = Contents
  BY <1>1 DEF Contents
<1>4. CASE Lookup(p) # None /\ Found(p, Lookup(p))
  <2>1. fallback # Torn /\ Lookup(p) = Contents[c.name]
    BY <1>4 DEF Lookup
  <2>2. Lookup(p) \in Entry
    BY <2>1, <1>2, ContentsType DEF IInv, File
  <2>3. ~overlapped /\ mode # "flaky" => keychain[c.name] = None
    BY <1>1 DEF IInv, Orderly, Underway
  <2> QED
    BY <1>1, <1>4, <2>1, <2>2, <2>3, FoundInv
<1>5. CASE Fail(p)
  <2>1. /\ call' = [call EXCEPT ![p] = NoCall] /\ promised' = promised /\ held' = held
    BY <1>5 DEF Fail
  <2>2. Shaped'
    BY <1>1, <2>1, EndingShape
  <2>3. TypeOK'
    BY <1>1, <2>1, <2>2, TypesNext DEF IInv, TypeOK
  <2>4. ~overlapped' => Orderly'
    BY <1>1, <2>1, EndingQuietly DEF IInv
  <2> QED
    BY <2>2, <2>3, <2>4 DEF IInv
<1>6. ASSUME NEW w \in Value, c.op = "ensure", Lookup(p) = None, held' = held,
             call' = [call EXCEPT ![p] = [@ EXCEPT !.at = "keychain", !.op = "rotate",
                                                   !.value = w]],
             promised' = [promised EXCEPT ![c.name] = @ \cup {w}]
      PROVE  IInv'
  <2> DEFINE d == [c EXCEPT !.at = "keychain", !.op = "rotate", !.value = w]
  <2>1. /\ call' = [call EXCEPT ![p] = d] /\ d \in Call /\ d # NoCall
        /\ d.at = "keychain" /\ d.op = "rotate" /\ d.name = c.name /\ d.value = w
    <3>1. w \in Entry /\ "rotate" \in Operation /\ "keychain" \in Point
      BY DEF Entry, Operation, Point
    <3> QED
      BY <1>2, <1>6, <3>1, Shapes DEF IInv, Shaped, Call
  <2> HIDE DEF d
  <2>2. /\ promised' \in [Secret -> SUBSET Entry] /\ w \in promised'[c.name]
        /\ \A n \in Secret : promised[n] \subseteq promised'[n]
    BY <1>2, <1>6 DEF IInv, TypeOK, Entry
  <2>3. Shaped'
    <3>1. c.name \in Token
      BY <1>1, <1>6 DEF IInv, Shaped
    <3> QED
      BY <1>1, <2>1, <3>1, MovingShape DEF IInv, Shaped
  <2>4. TypeOK'
    BY <1>1, <1>6, <2>2, <2>3, TypesNext DEF IInv, TypeOK
  <2>5. ASSUME ~overlapped' PROVE Orderly'
    <3>1. Orderly
      BY <1>1, <2>5 DEF IInv
    <3>2. /\ call'[p] = d /\ \A q \in Process \ {p} : call'[q] = NoCall
          /\ \A q, r \in Process : call'[q] # NoCall /\ call'[r] # NoCall => q = r
      BY <1>1, <2>1, <3>1, OthersIdle
    <3>3. fallback' # Torn => Sound(Contents)' /\ Kept(Contents)'
      BY <1>1, <1>3, <1>6, <2>2, <3>1 DEF Orderly, Sound, Kept
    <3>4. c.name \in Token
      BY <1>1, <1>6 DEF IInv, Shaped
    <3>5. fallback # Torn /\ mode # "flaky" => NobodyHolds(c.name)
      <4>1. fallback # Torn => Contents[c.name] = None
        BY <1>6 DEF Lookup
      <4>2. mode # "flaky" => keychain[c.name] = None
        BY <1>1, <3>1 DEF Orderly, Underway
      <4> QED
        BY <3>1, <3>4, <4>1, <4>2 DEF Orderly, Kept, NobodyHolds
    <3>6. Underway(call[p])'
      BY <1>1, <1>6, <2>1, <2>2, <3>2, <3>5 DEF Underway, Changing, NobodyHolds
    <3> QED
      BY <3>2, <3>3, <3>6 DEF Orderly
  <2> QED
    BY <2>3, <2>4, <2>5 DEF IInv
<1>7. CASE Lookup(p) = None /\ Missing(p)
  BY <1>5, <1>6, <1>7 DEF Missing
<1> QED
  BY <1>4, <1>7 DEF GetFallback

-----------------------------------------------------------------------------
(* Set and Delete *)

LEMMA ChangeKeychainInv ==
    ASSUME IInv, NEW p \in Process, ChangeKeychain(p)
    PROVE  IInv'
<1> DEFINE c == call[p]
           took == /\ TRUE \in Reachable
                   /\ keychain' = [keychain EXCEPT ![c.name] = c.value]
                   /\ shadowed' = shadowed \ {c.name}
           refused == /\ FALSE \in Reachable /\ keychain' = keychain
                      /\ shadowed' = IF keychain[c.name] = None THEN shadowed
                                     ELSE shadowed \cup {c.name}
<1>1. /\ c.at = "keychain" /\ Changing(c) /\ c # NoCall
      /\ UNCHANGED <<fallback, held, promised, mode, crashes, overlapped>>
  BY Shapes DEF ChangeKeychain, history, Changing
<1>2. c \in Call /\ c.name \in Secret /\ c.value \in Entry
  BY <1>1 DEF IInv, Shaped, Call
<1>3. PICK values \in File :
        /\ call' = [call EXCEPT ![p] = [@ EXCEPT !.at = "read", !.values = values]]
        /\ \/ took /\ values[c.name] = None
           \/ refused /\ values[c.name] = c.value
  <2>1. [Empty EXCEPT ![c.name] = c.value] \in File
        /\ [Empty EXCEPT ![c.name] = c.value][c.name] = c.value
        /\ Empty \in File /\ Empty[c.name] = None
    BY <1>2, Shapes DEF Empty, File, Entry
  <2> QED
    BY <2>1 DEF ChangeKeychain
<1> DEFINE d == [c EXCEPT !.at = "read", !.values = values]
<1>4. /\ call' = [call EXCEPT ![p] = d] /\ d \in Call /\ d # NoCall /\ d.at = "read"
      /\ d.op = c.op /\ d.name = c.name /\ d.value = c.value /\ d.values = values
      /\ Changing(d)
  <2>1. "read" \in Point
    BY DEF Point
  <2> QED
    BY <1>1, <1>2, <1>3, <2>1, Shapes DEF IInv, Shaped, Call, Changing
<1> HIDE DEF d
<1>5. /\ keychain' \in File /\ shadowed' \subseteq Secret
      /\ \A n \in Secret \ {c.name} :
            keychain'[n] = keychain[n] /\ (n \in shadowed' <=> n \in shadowed)
      /\ took => keychain'[c.name] = c.value
  BY <1>2, <1>3 DEF IInv, TypeOK, File
<1>6. TypeOK /\ Shaped /\ (took => mode # "absent") /\ (refused => mode # "works")
  BY ReachableModes DEF IInv
<1>7. Shaped'
  <2>1. mode = "absent" => keychain' = Empty /\ shadowed' = {}
    BY <1>2, <1>3, <1>6 DEF Shaped, Empty
  <2>2. mode # "flaky" => shadowed' = {}
    <3>1. mode = "works" \/ mode = "absent" \/ mode = "flaky"
      BY <1>6, SecretAssumption DEF TypeOK, ModeKind
    <3> QED
      BY <1>3, <1>6, <2>1, <3>1 DEF Shaped
  <2>3. c.op \in {"ensure", "rotate"} <=> c.name \in Token
    BY <1>1 DEF IInv, Shaped
  <2> QED
    BY <1>1, <1>4, <2>1, <2>2, <2>3, MovingShape
<1>8. TypeOK'
  BY <1>1, <1>5, <1>7, TypesNext DEF IInv, TypeOK
<1>9. ASSUME ~overlapped' PROVE Orderly'
  <2>1. Orderly /\ c.value \in promised[c.name]
    BY <1>1, <1>9 DEF IInv, Orderly, Underway
  <2>2. /\ call'[p] = d /\ \A q \in Process \ {p} : call'[q] = NoCall
        /\ \A q, r \in Process : call'[q] # NoCall /\ call'[r] # NoCall => q = r
    BY <1>1, <1>4, <2>1, OthersIdle
  <2>3. Contents' = Contents
    BY <1>1 DEF Contents
  <2>4. fallback' # Torn => Sound(Contents)'
    <3>1. ASSUME fallback # Torn, NEW n \in Secret
          PROVE  /\ Contents[n] \in promised[n] \cup {None}
                 /\ n \notin shadowed' => keychain'[n] \in promised[n] \cup {None}
                 /\ mode # "flaky" /\ keychain'[n] = None /\ Contents[n] = None
                       => None \in promised[n]
      <4>1. Sound(Contents)
        BY <2>1, <3>1 DEF Orderly
      <4>2. CASE n # c.name
        BY <4>1, <4>2, <1>5 DEF Sound
      <4>3. CASE n = c.name /\ took
        BY <4>1, <4>3, <1>5, <2>1 DEF Sound
      <4>4. CASE n = c.name /\ refused
        BY <4>1, <4>4 DEF Sound
      <4> QED
        BY <4>2, <4>3, <4>4, <1>3
    <3> QED
      BY <1>1, <2>3, <3>1 DEF Sound
  <2>5. fallback' # Torn => Kept(Contents)'
    <3>1. ASSUME fallback # Torn, mode # "flaky", NEW q \in Process, NEW t \in Token,
                 held[q][t] # None
          PROVE  keychain'[t] = held[q][t] \/ (keychain'[t] = None /\ Contents[t] = held[q][t])
      <4>1. t # c.name
        <5>1. ASSUME t = c.name PROVE c.op = "rotate"
          BY <1>1, <5>1 DEF IInv, Shaped, Changing
        <5> QED
          BY <1>1, <2>1, <3>1, <5>1 DEF Orderly, Underway, NobodyHolds
      <4> QED
        BY <1>5, <2>1, <3>1, <4>1, SecretAssumption DEF Orderly, Kept
    <3> QED
      BY <1>1, <2>3, <3>1 DEF Kept
  <2>6. Underway(call[p])'
    <3>1. Settled(call[p])'
      BY <1>1, <1>3, <1>4, <1>5, <1>6, <2>2 DEF Settled
    <3>2. c.op = "rotate" /\ mode # "flaky" /\ fallback # Torn => NobodyHolds(c.name)
      BY <1>1, <2>1 DEF Orderly, Underway
    <3> QED
      BY <1>1, <1>4, <2>1, <2>2, <3>1, <3>2 DEF Underway, NobodyHolds
  <2> QED
    BY <2>2, <2>4, <2>5, <2>6 DEF Orderly
<1> QED
  BY <1>7, <1>8, <1>9 DEF IInv

LEMMA ReadForChangeInv ==
    ASSUME IInv, NEW p \in Process, ReadForChange(p)
    PROVE  IInv'
<1> DEFINE c == call[p]
           left == [Contents EXCEPT ![c.name] = c.values[c.name]]
           d == [c EXCEPT !.at = Plan(p), !.values = left]
<1>1. /\ c.at = "read" /\ Changing(c) /\ c # NoCall
      /\ UNCHANGED <<keychain, fallback, mode, crashes, overlapped, shadowed>>
  BY Shapes DEF ReadForChange, storage, history, Changing
<1>2. c \in Call /\ c.name \in Secret /\ c.value \in Entry /\ c.values \in File
      /\ c.values[c.name] \in Entry
  BY <1>1 DEF IInv, Shaped, Call, File
<1>3. Contents' = Contents
  BY <1>1 DEF Contents
<1>4. ~overlapped /\ c.op = "rotate" /\ mode # "flaky" /\ fallback # Torn => NobodyHolds(c.name)
  BY <1>1 DEF IInv, Orderly, Underway
<1>5. CASE fallback = Torn /\ Fail(p)
  <2>1. /\ call' = [call EXCEPT ![p] = NoCall] /\ promised' = promised /\ held' = held
    BY <1>5 DEF Fail
  <2>2. Shaped'
    BY <1>1, <2>1, EndingShape
  <2>3. TypeOK'
    BY <1>1, <2>1, <2>2, TypesNext DEF IInv, TypeOK
  <2>4. ~overlapped' => Orderly'
    BY <1>1, <2>1, EndingQuietly DEF IInv
  <2> QED
    BY <2>2, <2>3, <2>4 DEF IInv
<1>6. CASE fallback # Torn /\ Plan(p) = "done" /\ Succeed(p)
  <2>1. Contents \in File /\ call' = [call EXCEPT ![p] = NoCall]
    BY <1>6, ContentsType DEF IInv, Succeed
  <2>2. left = Contents
    BY <1>6 DEF Plan
  <2>3. Contents[c.name] = c.values[c.name]
    BY <1>2, <2>1, <2>2 DEF File
  <2>4. Shaped'
    BY <1>1, <2>1, EndingShape
  <2>5. TypeOK'
    BY <1>1, <1>6, <2>4, SucceedingTypes, TypesNext DEF IInv, TypeOK
  <2>6. ASSUME ~overlapped' PROVE Orderly'
    <3>1. Orderly /\ Sound(Contents) /\ Kept(Contents)
      BY <1>1, <1>6, <2>6 DEF IInv, Orderly
    <3>2. c.op = "rotate" /\ mode # "flaky" => NobodyHolds(c.name)
      BY <1>1, <1>4, <1>6, <2>6
    <3> QED
      BY <1>1, <1>3, <1>6, <2>1, <2>3, <3>1, <3>2, Succeeding
  <2> QED
    BY <2>4, <2>5, <2>6 DEF IInv
<1>7. CASE /\ fallback # Torn /\ Plan(p) # "done" /\ UNCHANGED <<promised, held>>
           /\ call' = [call EXCEPT ![p] = d]
  <2>1. /\ left \in File /\ left[c.name] = c.values[c.name]
        /\ \A n \in Secret \ {c.name} : left[n] = Contents[n]
    BY <1>2, <1>7, ContentsType DEF IInv, File
  <2>2. \/ Plan(p) = "remove" /\ left = Empty
        \/ Plan(p) = "truncate" /\ left # Empty
    BY <1>7 DEF Plan
  <2> HIDE DEF left
  <2>3. /\ d \in Call /\ d # NoCall /\ d.at = Plan(p) /\ d.values = left /\ d.op = c.op
        /\ d.name = c.name /\ d.value = c.value /\ Changing(d)
    <3>1. Plan(p) \in Point
      BY <2>2 DEF Point
    <3> QED
      BY <1>1, <1>2, <2>1, <3>1, Shapes DEF Call, Changing
  <2> HIDE DEF d
  <2>4. Shaped'
    <3>1. c.op \in {"ensure", "rotate"} <=> c.name \in Token
      BY <1>1 DEF IInv, Shaped
    <3> QED
      BY <1>1, <1>7, <2>2, <2>3, <3>1, MovingShape DEF IInv, Shaped
  <2>5. TypeOK'
    BY <1>1, <1>7, <2>4, TypesNext DEF IInv, TypeOK
  <2>6. ASSUME ~overlapped' PROVE Orderly'
    <3>1. Orderly /\ Sound(Contents) /\ Kept(Contents) /\ Settled(c) /\ c.value \in promised[c.name]
      BY <1>1, <1>7, <2>6 DEF IInv, Orderly, Underway
    <3>2. /\ call'[p] = d /\ \A q \in Process \ {p} : call'[q] = NoCall
          /\ \A q, r \in Process : call'[q] # NoCall /\ call'[r] # NoCall => q = r
      BY <1>1, <1>7, <3>1, OthersIdle
    <3>3. c.op = "rotate" /\ mode # "flaky" => NobodyHolds(c.name)
      BY <1>1, <1>4, <1>7, <2>6
    <3>4. Sound(left)
      <4>1. mode = "works" \/ mode = "absent" \/ mode = "flaky"
        BY SecretAssumption DEF IInv, TypeOK, ModeKind
      <4>2. ASSUME NEW n \in Secret
            PROVE  /\ left[n] \in promised[n] \cup {None}
                   /\ n \notin shadowed => keychain[n] \in promised[n] \cup {None}
                   /\ mode # "flaky" /\ keychain[n] = None /\ left[n] = None => None \in promised[n]
        <5>1. CASE n = c.name
          BY <2>1, <3>1, <4>1, <5>1 DEF Settled
        <5>2. CASE n # c.name
          BY <2>1, <3>1, <5>2 DEF Sound
        <5> QED
          BY <5>1, <5>2
      <4> QED
        BY <4>2 DEF Sound
    <3>5. Kept(left)
      <4>1. ASSUME mode # "flaky", NEW q \in Process, NEW t \in Token, held[q][t] # None
            PROVE  keychain[t] = held[q][t] \/ (keychain[t] = None /\ left[t] = held[q][t])
        <5>1. t # c.name
          <6>1. ASSUME t = c.name PROVE c.op = "rotate"
            BY <1>1, <6>1 DEF IInv, Shaped, Changing
          <6> QED
            BY <3>3, <4>1, <6>1 DEF NobodyHolds
        <5> QED
          BY <2>1, <3>1, <4>1, <5>1, SecretAssumption DEF Kept
      <4> QED
        BY <4>1 DEF Kept
    <3>6. Sound(Contents)' /\ Kept(Contents)'
      BY <1>1, <1>3, <1>7, <3>1 DEF Sound, Kept
    <3>7. PICK F \in File : F = left
      BY <2>1
    <3>8. Sound(call[p].values)' /\ Kept(call[p].values)'
      <4>1. call'[p].values = F /\ Sound(F) /\ Kept(F)
        BY <2>3, <3>2, <3>4, <3>5, <3>7
      <4>2. /\ promised' = promised /\ held' = held /\ keychain' = keychain
            /\ mode' = mode /\ shadowed' = shadowed
        BY <1>1, <1>7
      <4> QED
        BY <4>1, <4>2 DEF Sound, Kept
    <3>9. Settled(call[p])'
      BY <1>1, <2>1, <2>3, <3>1, <3>2 DEF Settled
    <3>10. Underway(call[p])'
      <4>1. /\ call'[p].at \in {"truncate", "remove"} /\ Changing(call'[p])
            /\ call'[p].at = "remove" => call'[p].values = Empty
            /\ call'[p].name = c.name /\ call'[p].op = c.op /\ call'[p].value = c.value
        BY <2>2, <2>3, <3>2
      <4>2. fallback' # Torn /\ promised' = promised /\ held' = held /\ mode' = mode
        BY <1>1, <1>7
      <4> QED
        BY <3>1, <3>3, <3>8, <3>9, <4>1, <4>2 DEF Underway, NobodyHolds
    <3> QED
      BY <3>2, <3>6, <3>10 DEF Orderly
  <2> QED
    BY <2>4, <2>5, <2>6 DEF IInv
<1> QED
  BY <1>5, <1>6, <1>7 DEF ReadForChange

LEMMA TruncateInv ==
    ASSUME IInv, NEW p \in Process, Truncate(p)
    PROVE  IInv'
<1> DEFINE c == call[p]
           d == [c EXCEPT !.at = "fill"]
<1>1. /\ c.at = "truncate" /\ c # NoCall /\ fallback' = Torn
      /\ UNCHANGED <<keychain, held, promised, mode, crashes, overlapped, shadowed>>
  BY Shapes DEF Truncate, history
<1>2. c \in Call /\ Changing(c) /\ c.values # Empty
      /\ (c.op \in {"ensure", "rotate"} <=> c.name \in Token)
  BY <1>1 DEF IInv, Shaped
<1>3. /\ call' = [call EXCEPT ![p] = d] /\ d \in Call /\ d # NoCall /\ d.at = "fill"
      /\ d.values = c.values /\ d.op = c.op /\ d.name = c.name /\ d.value = c.value
      /\ Changing(d)
  <2>1. "fill" \in Point /\ call' = [call EXCEPT ![p].at = "fill"]
    BY DEF Point, Truncate, Goto
  <2> QED
    BY <1>2, <2>1, Shapes DEF Call, Changing
<1> HIDE DEF d
<1>4. Shaped'
  BY <1>1, <1>2, <1>3, MovingShape DEF IInv, Shaped
<1>5. TypeOK'
  BY <1>1, <1>4, TypesNext DEF IInv, TypeOK
<1>6. ASSUME ~overlapped' PROVE Orderly'
  <2>1. Orderly /\ Underway(c)
    BY <1>1, <1>6 DEF IInv, Orderly
  <2>2. /\ call'[p] = d /\ \A q \in Process \ {p} : call'[q] = NoCall
        /\ \A q, r \in Process : call'[q] # NoCall /\ call'[r] # NoCall => q = r
    BY <1>1, <1>3, <2>1, OthersIdle
  <2>3. Underway(call[p])'
    <3>1. /\ Sound(c.values) /\ Kept(c.values) /\ Settled(c) /\ c.value \in promised[c.name]
          /\ c.op = "rotate" /\ mode # "flaky" => NobodyHolds(c.name)
      BY <1>1, <1>2, <2>1 DEF Underway
    <3>2. Sound(call[p].values)' /\ Kept(call[p].values)'
      BY <1>1, <1>3, <2>2, <3>1 DEF Sound, Kept
    <3>3. Settled(call[p])'
      BY <1>1, <1>3, <2>2, <3>1 DEF Settled
    <3> QED
      BY <1>1, <1>3, <2>2, <3>1, <3>2, <3>3 DEF Underway, NobodyHolds
  <2> QED
    BY <1>1, <2>2, <2>3 DEF Orderly
<1> QED
  BY <1>4, <1>5, <1>6 DEF IInv

LEMMA FillInv ==
    ASSUME IInv, NEW p \in Process, Fill(p)
    PROVE  IInv'
<1> DEFINE c == call[p]
<1>1. /\ c.at = "fill" /\ c # NoCall /\ Succeed(p) /\ call' = [call EXCEPT ![p] = NoCall]
      /\ \/ fallback' = c.values
         \/ fallback # Torn /\ fallback' \in {fallback, NoFile, Torn}
      /\ UNCHANGED <<keychain, mode, crashes, overlapped, shadowed>>
  BY Shapes DEF Fill, history, Succeed
<1>2. c \in Call /\ Changing(c) /\ c.values \in File \ {Empty}
  BY <1>1 DEF IInv, Shaped, Call
<1>3. Shaped'
  BY <1>1, EndingShape
<1>4. TypeOK'
  <2>1. fallback' \in (File \ {Empty}) \cup {NoFile, Torn}
    BY <1>1, <1>2 DEF IInv, TypeOK
  <2> QED
    BY <1>1, <1>3, <2>1, SucceedingTypes, TypesNext DEF IInv, TypeOK
<1>5. ASSUME ~overlapped' PROVE Orderly'
  <2>1. Orderly /\ Underway(c)
    BY <1>1, <1>5 DEF IInv, Orderly
  <2>2. /\ fallback = Torn /\ Sound(c.values) /\ Kept(c.values)
        /\ c.op = "rotate" /\ mode # "flaky" => NobodyHolds(c.name)
    BY <1>1, <2>1 DEF Underway
  <2>3. Contents' = c.values
    BY <1>1, <1>2, <2>2, Shapes DEF Contents
  <2> QED
    BY <1>1, <1>2, <2>1, <2>2, <2>3, Succeeding
<1> QED
  BY <1>3, <1>4, <1>5 DEF IInv

LEMMA RemoveInv ==
    ASSUME IInv, NEW p \in Process, Remove(p)
    PROVE  IInv'
<1> DEFINE c == call[p]
<1>1. /\ c.at = "remove" /\ c # NoCall /\ fallback' = NoFile
      /\ call' = [call EXCEPT ![p] = NoCall]
      /\ UNCHANGED <<keychain, mode, crashes, overlapped, shadowed>>
      /\ IF fallback = NoFile /\ c.op # "delete" THEN Fail(p) ELSE Succeed(p)
  BY Shapes DEF Remove, history, Succeed, Fail
<1>2. c \in Call /\ Changing(c) /\ c.values \in File
  BY <1>1 DEF IInv, Shaped, Call
<1>3. Shaped'
  BY <1>1, EndingShape
<1>4. CASE Fail(p) /\ fallback = NoFile
  <2>1. promised' = promised /\ held' = held /\ fallback' = fallback
    BY <1>1, <1>4 DEF Fail
  <2>2. TypeOK'
    BY <1>1, <1>3, <2>1, TypesNext DEF IInv, TypeOK
  <2>3. ~overlapped' => Orderly'
    BY <1>1, <2>1, EndingQuietly DEF IInv
  <2> QED
    BY <1>3, <2>2, <2>3 DEF IInv
<1>5. CASE Succeed(p)
  <2>1. TypeOK'
    BY <1>1, <1>3, <1>5, SucceedingTypes, TypesNext DEF IInv, TypeOK
  <2>2. ASSUME ~overlapped' PROVE Orderly'
    <3>1. Orderly /\ Underway(c)
      BY <1>1, <2>2 DEF IInv, Orderly
    <3>2. /\ c.values = Empty /\ Sound(Empty) /\ Kept(Empty)
          /\ c.op = "rotate" /\ mode # "flaky" => NobodyHolds(c.name)
      BY <1>1, <3>1 DEF Underway
    <3>3. Contents' = Empty
      BY <1>1 DEF Contents, Empty
    <3> QED
      BY <1>1, <1>2, <1>5, <3>1, <3>2, <3>3, Succeeding, Shapes
  <2> QED
    BY <1>3, <2>1, <2>2 DEF IInv
<1> QED
  BY <1>1, <1>4, <1>5

LEMMA StutterInv == IInv /\ UNCHANGED vars => IInv'
<1> SUFFICES ASSUME IInv, UNCHANGED vars PROVE IInv'
  OBVIOUS
<1>1. /\ keychain' = keychain /\ fallback' = fallback /\ call' = call /\ held' = held
      /\ mode' = mode /\ crashes' = crashes /\ promised' = promised
      /\ shadowed' = shadowed /\ overlapped' = overlapped
  BY DEF vars
<1>2. TypeOK' /\ Shaped'
  BY <1>1 DEF IInv, TypeOK, Shaped
<1>3. Orderly => Orderly'
  BY <1>1 DEF Orderly, Sound, Kept, Underway, Settled, NobodyHolds, Contents
<1> QED
  BY <1>1, <1>2, <1>3 DEF IInv

-----------------------------------------------------------------------------
(* The invariant, and what follows from it *)

\* Every reachable state satisfies the inductive invariant: what a call in
\* the middle of its keychain and file steps has done and will do (Underway),
\* and what is found between them (Sound, Kept).  The steps of Get, Set,
\* Delete, ensureToken and rotateToken preserve it, failing or dying anywhere.
THEOREM StoreIsOrderly == Spec => []IInv
<1>1. ASSUME IInv, [Next]_vars PROVE IInv'
  <2>1. ASSUME NEW p \in Process, Step(p) PROVE IInv'
    <3>1. ASSUME NEW op \in Operation, NEW n \in Secret, NEW v \in Entry, Begin(p, op, n, v)
          PROVE  IInv'
      BY <1>1, <3>1, BeginInv
    <3>2. CASE Exit(p)
      BY <1>1, <3>2, ExitInv
    <3>3. CASE GetKeychain(p) \/ GetFallback(p)
      BY <1>1, <3>3, GetKeychainInv, GetFallbackInv
    <3>4. CASE ChangeKeychain(p) \/ ReadForChange(p)
      BY <1>1, <3>4, ChangeKeychainInv, ReadForChangeInv
    <3>5. CASE Truncate(p) \/ Fill(p) \/ Remove(p)
      BY <1>1, <3>5, TruncateInv, FillInv, RemoveInv
    <3> QED
      BY <2>1, <3>1, <3>2, <3>3, <3>4, <3>5 DEF Step
  <2>2. CASE UNCHANGED vars
    BY <1>1, <2>2, StutterInv
  <2> QED
    BY <1>1, <2>1, <2>2 DEF Next
<1> QED
  BY InitInv, <1>1, PTL DEF Spec

\* The keychain, the file, the calls and the tokens keep their types.
THEOREM TypeCorrect == Spec => []TypeOK
<1>1. IInv => TypeOK
  BY DEF IInv
<1> QED
  BY StoreIsOrderly, <1>1, PTL

\* Whatever a Get can return is what the last call on the name promised, or
\* what was there before one that failed (Get, Set, Delete).
THEOREM AnswersAreKept == Spec => []AnswersArePromised
<1>1. ASSUME IInv PROVE AnswersArePromised
  <2> SUFFICES ASSUME ~overlapped, fallback # Torn, NEW n \in Secret \ shadowed,
                      NEW v \in Answers(n)
               PROVE  v \in promised[n] \cup (IF mode = "flaky" THEN {None} ELSE {})
    BY DEF AnswersArePromised
  <2>1. TypeOK /\ Shaped /\ Sound(Contents)
    BY <1>1 DEF IInv, Orderly
  <2>2. PICK ok \in Reachable :
           v = IF ok /\ keychain[n] # None THEN keychain[n] ELSE Contents[n]
    BY DEF Answers
  <2>3. CASE v = keychain[n] /\ keychain[n] # None
    BY <2>1, <2>3 DEF Sound
  <2>4. CASE v = Contents[n] /\ (keychain[n] = None \/ ~ok)
    <3>1. mode # "flaky" => keychain[n] = None
      <4>1. mode = "works" \/ mode = "absent" \/ mode = "flaky"
        BY <2>1, SecretAssumption DEF TypeOK, ModeKind
      <4>2. CASE mode = "works"
        BY <2>4, <4>2 DEF Reachable
      <4>3. CASE mode = "absent"
        BY <2>1, <4>3 DEF Shaped, Empty
      <4> QED
        BY <4>1, <4>2, <4>3
    <3> QED
      BY <2>1, <2>4, <3>1 DEF Sound
  <2> QED
    BY <2>2, <2>3, <2>4
<1> QED
  BY StoreIsOrderly, <1>1, PTL

\* The token that a process holds is the one that is saved, and so the same
\* for all (ensureToken, rotateToken).
THEOREM TokensAreShared == Spec => []TokensAgree
<1>1. ASSUME IInv PROVE TokensAgree
  <2> SUFFICES ASSUME ~overlapped, fallback # Torn, mode # "flaky",
                      NEW p \in Process, NEW t \in Token, held[p][t] # None
               PROVE  Answers(t) = {held[p][t]}
    BY DEF TokensAgree
  <2>1. TypeOK /\ Shaped /\ t \in Secret
    BY <1>1, SecretAssumption DEF IInv
  <2>2. keychain[t] = held[p][t] \/ (keychain[t] = None /\ Contents[t] = held[p][t])
    BY <1>1 DEF IInv, Orderly, Kept
  <2>3. CASE mode = "works"
    <3>1. Reachable = {TRUE}
      BY <2>3 DEF Reachable
    <3> QED
      BY <2>2, <3>1 DEF Answers
  <2>4. CASE mode = "absent"
    <3>1. Reachable = {FALSE} /\ keychain[t] = None
      BY <2>1, <2>4 DEF Reachable, Shaped, Empty
    <3> QED
      BY <2>2, <3>1 DEF Answers
  <2> QED
    BY <2>1, <2>3, <2>4, SecretAssumption DEF TypeOK, ModeKind
<1> QED
  BY StoreIsOrderly, <1>1, PTL

==============================================================================
