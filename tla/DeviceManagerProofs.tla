------------------------ MODULE DeviceManagerProofs ------------------------
(***************************************************************************)
(* Theorems about DeviceManager for every set of devices and clients,      *)
(* every identity relation that is truthful, every bound: types, where the *)
(* flags of a record come from, SQLite and the names, whatever overlaps    *)
(* and fails; and, for requests that come one after the other, the         *)
(* duplicates.                                                             *)
(***************************************************************************)
EXTENDS DeviceManager, TLAPS

\* Where requests are: the scan steps belong to the holder of scanMu, and
\* each label implies the request-local data the code has there.
RequestShape ==
    /\ \A c \in Client : pc[c] = "idle" <=> target[c] = None
    /\ \A c \in Client : pc[c] = "idle" <=> back[c] = "idle"
    /\ \A c \in Client : pc[c] \in ScanLabel <=> scanOwner = c
    /\ \A c \in Client : pc[c] \in ScanLabel => (pc[c] = "scan_register" <=> item # None)
    /\ \A c \in Client : pc[c] = "commit" => snapshot[c] # None

\* Adapters in use exist.
NoDanglingAdapter ==
    /\ \A i \in DeviceID : devices[i] # None =>
          metadata[i] # None /\ adapters[i][devices[i]] # None
    /\ \A c \in Client : slot[c] # None =>
          /\ target[c] # None
          /\ devices[target[c]] # None
          /\ adapters[target[c]][slot[c]] # None
    /\ \A c \in Client :
          pc[c] \in AdapterLabel \/ back[c] \in AdapterLabel => slot[c] # None

IInv == TypeOK /\ RequestShape /\ NoDanglingAdapter

USE DEF AllClients

-----------------------------------------------------------------------------
(* Adapters and garbage collection *)

LEMMA CollectType ==
    ASSUME NEW ads \in [DeviceID -> [Slot -> Record \cup {None}]],
           NEW devs, NEW slots, NEW targets
    PROVE  Collect(ads, devs, slots, targets) \in [DeviceID -> [Slot -> Record \cup {None}]]
  BY DEF Collect

LEMMA CollectValue ==
    ASSUME NEW ads, NEW devs, NEW slots, NEW targets,
           NEW i \in DeviceID, NEW s \in Slot
    PROVE  /\ s \in Referenced(i, devs, slots, targets) =>
                Collect(ads, devs, slots, targets)[i][s] = ads[i][s]
           /\ Collect(ads, devs, slots, targets)[i][s] \in {ads[i][s], None}
  BY DEF Collect

LEMMA ReferencedBy ==
    ASSUME NEW devs, NEW slots, NEW targets, NEW i \in DeviceID
    PROVE  /\ devs[i] \in Referenced(i, devs, slots, targets)
           /\ \A c \in Client : targets[c] = i
                => slots[c] \in Referenced(i, devs, slots, targets)
  BY DEF Referenced

-----------------------------------------------------------------------------
(* IInv holds initially and after a restart *)

LEMMA LoadedTypes ==
    ASSUME NEW rows \in Inventory
    PROVE  /\ Loaded(rows) \in Inventory
           /\ LoadedDevices(rows) \in [DeviceID -> Slot \cup {None}]
           /\ LoadedAdapters(rows) \in [DeviceID -> [Slot -> Record \cup {None}]]
           /\ \A i \in DeviceID : LoadedDevices(rows)[i] # None =>
                /\ Loaded(rows)[i] # None
                /\ LoadedAdapters(rows)[i][LoadedDevices(rows)[i]] # None
<1>1. ASSUME NEW i \in DeviceID
      PROVE  /\ Reload(rows[i]) \in Record \cup {None}
             /\ rows[i] # None => Reload(rows[i]) # None
  <2>1. rows[i] \in Record \cup {None}
    BY DEF Inventory
  <2>2. CASE rows[i] = None
    BY <2>2 DEF Reload
  <2>3. CASE rows[i] # None
    <3>1. rows[i] \in Record
      BY <2>1, <2>3
    <3>2. [rows[i] EXCEPT !.online = FALSE] \in Record
      BY <3>1 DEF Record
    <3>3. Reload(rows[i]) \in Record
      BY <2>3, <3>2 DEF Reload
    <3>. QED
      BY <3>3, ConstantsAssumption
  <2>. QED
    BY <2>2, <2>3
<1>2. 1 \in Slot /\ None \notin Slot
  BY ConstantsAssumption DEF Slot
<1>3. \A i \in DeviceID : ReloadedAdapter(rows, i) \in Slot \cup {None}
  BY <1>2 DEF ReloadedAdapter
<1>4. Loaded(rows) \in Inventory
  BY <1>1 DEF Loaded, Inventory
<1>5. LoadedDevices(rows) \in [DeviceID -> Slot \cup {None}]
  BY <1>3 DEF LoadedDevices
<1>6. LoadedAdapters(rows) \in [DeviceID -> [Slot -> Record \cup {None}]]
  BY <1>1 DEF LoadedAdapters
<1>7. ASSUME NEW i \in DeviceID, LoadedDevices(rows)[i] # None
      PROVE  /\ Loaded(rows)[i] # None
             /\ LoadedAdapters(rows)[i][LoadedDevices(rows)[i]] # None
  <2>1. LoadedDevices(rows)[i] = ReloadedAdapter(rows, i)
    BY DEF LoadedDevices
  <2>2. rows[i] # None /\ ReloadedAdapter(rows, i) = 1
    BY <1>7, <2>1 DEF ReloadedAdapter
  <2>3. LoadedAdapters(rows)[i][1] = Reload(rows[i])
    BY <1>2, <2>2 DEF LoadedAdapters
  <2>. QED
    BY <1>1, <2>1, <2>2, <2>3 DEF Loaded
<1>. QED
  BY <1>4, <1>5, <1>6, <1>7

LEMMA InitIInv == Init => IInv
<1> SUFFICES ASSUME Init PROVE IInv
  OBVIOUS
<1>1. store \in Inventory
  BY ConstantsAssumption DEF Init
<1>2. TypeOK
  BY <1>1, LoadedTypes, ConstantsAssumption
     DEF Init, TypeOK, Label, ResumeLabel, Outcome
<1>3. RequestShape
  BY ConstantsAssumption DEF Init, RequestShape, ScanLabel
<1>4. NoDanglingAdapter
  BY <1>1, LoadedTypes, ConstantsAssumption DEF Init, NoDanglingAdapter, AdapterLabel
<1>. QED
  BY <1>2, <1>3, <1>4 DEF IInv

LEMMA RestartIInv == IInv /\ Restart => IInv'
<1> SUFFICES ASSUME IInv, Restart PROVE IInv'
  OBVIOUS
<1>1. store \in Inventory /\ crashes' \in 0 .. MaxCrashes
  BY ConstantsAssumption DEF Restart, IInv, TypeOK
<1>2. TypeOK'
  BY <1>1, LoadedTypes, ConstantsAssumption
     DEF Restart, IInv, TypeOK, Label, ResumeLabel, Outcome
<1>3. RequestShape'
  BY ConstantsAssumption DEF Restart, RequestShape, ScanLabel
<1>4. NoDanglingAdapter'
  BY <1>1, LoadedTypes, ConstantsAssumption DEF Restart, NoDanglingAdapter, AdapterLabel
<1>. QED
  BY <1>2, <1>3, <1>4 DEF IInv

-----------------------------------------------------------------------------
(* IInv is preserved by every step of a client *)

LEMMA TakeFacts ==
    ASSUME IInv, NEW c \in Client, slot[c] # None \/ (target[c] # None /\ Found(c)), Take(c)
    PROVE  /\ adapters' \in [DeviceID -> [Slot -> Record \cup {None}]]
           /\ slot' \in [Client -> Slot \cup {None}]
           /\ slot'[c] # None
           /\ target[c] \in DeviceID
           /\ \A i \in DeviceID : devices[i] # None => adapters'[i][devices[i]] # None
           /\ \A d \in Client : slot'[d] # None =>
                /\ target[d] # None
                /\ devices[target[d]] # None
                /\ adapters'[target[d]][slot'[d]] # None
<1>1. target[c] \in DeviceID /\ devices[target[c]] \in Slot
  BY ConstantsAssumption DEF IInv, TypeOK, NoDanglingAdapter, Found
<1>2. slot' = [slot EXCEPT ![c] = devices[target[c]]]
      /\ adapters' = Collect(adapters, devices, slot', target)
  BY DEF Take
<1>3. slot' \in [Client -> Slot \cup {None}] /\ slot'[c] # None
  BY <1>1, <1>2, ConstantsAssumption DEF IInv, TypeOK
<1>4. adapters' \in [DeviceID -> [Slot -> Record \cup {None}]]
  BY <1>2, CollectType DEF IInv, TypeOK
<1>5. ASSUME NEW i \in DeviceID, devices[i] # None
      PROVE  adapters'[i][devices[i]] # None
  <2>1. devices[i] \in Slot
    BY <1>5 DEF IInv, TypeOK
  <2>2. adapters'[i][devices[i]] = adapters[i][devices[i]]
    BY <1>2, <2>1, CollectValue, ReferencedBy
  <2>. QED
    BY <1>5, <2>2 DEF IInv, NoDanglingAdapter
<1>6. ASSUME NEW d \in Client, slot'[d] # None
      PROVE  /\ target[d] # None
             /\ devices[target[d]] # None
             /\ adapters'[target[d]][slot'[d]] # None
  <2>1. target[d] \in DeviceID /\ devices[target[d]] # None
        /\ adapters[target[d]][slot'[d]] # None
    BY <1>1, <1>2, <1>6 DEF IInv, TypeOK, NoDanglingAdapter
  <2>2. slot'[d] \in Slot
    BY <1>3, <1>6
  <2>3. slot'[d] \in Referenced(target[d], devices, slot', target)
    BY <2>1, ReferencedBy
  <2>4. Collect(adapters, devices, slot', target)[target[d]][slot'[d]]
          = adapters[target[d]][slot'[d]]
    BY <2>1, <2>2, <2>3, CollectValue
  <2>. QED
    BY <1>2, <2>1, <2>4, ConstantsAssumption
<1>. QED
  BY <1>1, <1>3, <1>4, <1>5, <1>6

LEMMA BeginIInv ==
    ASSUME IInv, NEW c \in Client, NewRequest(c)
    PROVE  IInv'
<1>1. PICK op \in Operation, i \in DeviceID : Begin(c, op, i)
  BY DEF NewRequest
<1>2. EntryLabel[op] \in Label \ (ScanLabel \cup AdapterLabel \cup {"commit", "idle"})
  BY DEF Operation, EntryLabel, Label, ScanLabel, AdapterLabel
<1>3. TypeOK'
  BY <1>1, <1>2, ConstantsAssumption
     DEF Begin, Goto, IInv, TypeOK, inventory, scan, history, ResumeLabel
<1>4. RequestShape'
  BY <1>1, <1>2, ConstantsAssumption
     DEF Begin, Goto, IInv, TypeOK, RequestShape, inventory, scan, history, ScanLabel,
         ResumeLabel
<1>5. NoDanglingAdapter'
  BY <1>1, <1>2, ConstantsAssumption
     DEF Begin, Goto, IInv, TypeOK, RequestShape, NoDanglingAdapter, inventory, scan,
         history, AdapterLabel, ResumeLabel
<1>. QED
  BY <1>3, <1>4, <1>5 DEF IInv

LEMMA ScanLockIInv ==
    ASSUME IInv, NEW c \in Client, ScanLock(c)
    PROVE  IInv'
<1>1. TypeOK'
  BY DEF ScanLock, Goto, IInv, TypeOK, inventory, history, Label
<1>2. RequestShape'
  BY ConstantsAssumption
     DEF ScanLock, Goto, IInv, TypeOK, RequestShape, inventory, history, ScanLabel
<1>3. NoDanglingAdapter'
  BY DEF ScanLock, Goto, IInv, TypeOK, NoDanglingAdapter, inventory, history, AdapterLabel
<1>. QED
  BY <1>1, <1>2, <1>3 DEF IInv

\* A step that looks the adapter up, or not, and moves on.
LEMMA ReadsIInv ==
    ASSUME IInv, NEW c \in Client, pc[c] \notin ScanLabel \cup {"idle"},
           Reads(c),
           \/ Take(c) /\ (slot[c] # None \/ Found(c))
           \/ Keep(c),
           NEW l \in Label \ (ScanLabel \cup {"commit", "idle"}),
           NEW b \in ResumeLabel \ {"idle"},
           pc' = [pc EXCEPT ![c] = l],
           back' = [back EXCEPT ![c] = b],
           l \in AdapterLabel \/ b \in AdapterLabel
             => slot[c] # None \/ (Take(c) /\ Found(c))
    PROVE  IInv'
<1>0. target[c] # None
  BY DEF IInv, RequestShape
<1>1. /\ adapters' \in [DeviceID -> [Slot -> Record \cup {None}]]
      /\ slot' \in [Client -> Slot \cup {None}]
      /\ \A i \in DeviceID : devices[i] # None => adapters'[i][devices[i]] # None
      /\ \A d \in Client : slot'[d] # None =>
           /\ target[d] # None
           /\ devices[target[d]] # None
           /\ adapters'[target[d]][slot'[d]] # None
      /\ \A d \in Client : slot[d] # None => slot'[d] # None
      /\ slot[c] # None \/ (Take(c) /\ Found(c)) => slot'[c] # None
  <2>1. CASE Take(c) /\ (slot[c] # None \/ Found(c))
    <3>1. slot' = [slot EXCEPT ![c] = devices[target[c]]]
      BY <2>1 DEF Take
    <3>. QED
      BY <1>0, <2>1, <3>1, TakeFacts DEF IInv, TypeOK
  <2>2. CASE Keep(c) /\ ~(Take(c) /\ (slot[c] # None \/ Found(c)))
    BY <2>2 DEF Keep, IInv, TypeOK, NoDanglingAdapter
  <2>. QED
    BY <2>1, <2>2
<1>2. TypeOK'
  BY <1>1 DEF Reads, IInv, TypeOK, scan, history
<1>3. RequestShape'
  BY <1>0 DEF Reads, IInv, TypeOK, RequestShape, scan, ScanLabel, Label, ResumeLabel
<1>4. NoDanglingAdapter'
  BY <1>1 DEF Reads, IInv, TypeOK, NoDanglingAdapter
<1>. QED
  BY <1>2, <1>3, <1>4 DEF IInv

LEMMA SetPairedFacts ==
    ASSUME IInv, NEW c \in Client, slot[c] # None, NEW p \in BOOLEAN, SetPaired(c, p)
    PROVE  /\ adapters' \in [DeviceID -> [Slot -> Record \cup {None}]]
           /\ \A i \in DeviceID, s \in Slot :
                adapters[i][s] # None => adapters'[i][s] # None
<1> DEFINE t == target[c]
           r == adapters[t][slot[c]]
           new == [r EXCEPT !.paired = p]
<1>1. t \in DeviceID /\ slot[c] \in Slot /\ r # None
  BY ConstantsAssumption DEF IInv, TypeOK, NoDanglingAdapter
<1>2. adapters \in [DeviceID -> [Slot -> Record \cup {None}]]
  BY DEF IInv, TypeOK
<1>3. r \in Record
  BY <1>1, <1>2
<1>4. new \in Record
  BY <1>3 DEF Record
<1>5. new # None
  BY <1>4, ConstantsAssumption
<1>6. CASE t \in Roku
  BY <1>2, <1>6 DEF SetPaired
<1>7. CASE t \notin Roku
  <2>1. adapters' = [adapters EXCEPT ![t] = [adapters[t] EXCEPT ![slot[c]] = new]]
    BY <1>7 DEF SetPaired
  <2>2. [adapters[t] EXCEPT ![slot[c]] = new] \in [Slot -> Record \cup {None}]
    BY <1>1, <1>2, <1>4
  <2>3. adapters' \in [DeviceID -> [Slot -> Record \cup {None}]]
    BY <1>1, <1>2, <2>1, <2>2
  <2>4. ASSUME NEW i \in DeviceID, NEW s \in Slot, adapters[i][s] # None
        PROVE  adapters'[i][s] # None
    <3>1. CASE i = t /\ s = slot[c]
      BY <1>1, <1>2, <1>5, <2>1, <3>1
    <3>2. CASE i # t
      BY <1>1, <1>2, <2>1, <2>4, <3>2
    <3>3. CASE i = t /\ s # slot[c]
      BY <1>1, <1>2, <2>1, <2>4, <3>3
    <3>. QED
      BY <3>1, <3>2, <3>3
  <2>. QED
    BY <2>3, <2>4
<1>. QED
  BY <1>6, <1>7

\* A step that waits for an adapter and moves on.
LEMMA CallsIInv ==
    ASSUME IInv, NEW c \in Client, pc[c] \notin ScanLabel \cup {"idle"},
           slot[c] # None,
           Calls(c),
           outcome' \in [Client -> Outcome],
           UNCHANGED adapters \/ SetPaired(c, TRUE) \/ SetPaired(c, FALSE),
           NEW l \in Label \ (ScanLabel \cup {"commit", "idle"}),
           NEW b \in ResumeLabel \ {"idle"},
           pc' = [pc EXCEPT ![c] = l],
           back' = [back EXCEPT ![c] = b]
    PROVE  IInv'
<1>0. target[c] # None
  BY DEF IInv, RequestShape
<1>1. /\ adapters' \in [DeviceID -> [Slot -> Record \cup {None}]]
      /\ \A i \in DeviceID, s \in Slot : adapters[i][s] # None => adapters'[i][s] # None
  BY SetPairedFacts DEF IInv, TypeOK
<1>2. TypeOK'
  BY <1>1 DEF Calls, IInv, TypeOK, scan
<1>3. RequestShape'
  BY <1>0 DEF Calls, IInv, TypeOK, RequestShape, scan, ScanLabel, Label, ResumeLabel
<1>4. NoDanglingAdapter'
  <2>1. ASSUME NEW i \in DeviceID, devices[i] # None
        PROVE  metadata[i] # None /\ adapters'[i][devices[i]] # None
    BY <1>1, <2>1 DEF IInv, TypeOK, NoDanglingAdapter
  <2>2. ASSUME NEW d \in Client, slot[d] # None
        PROVE  /\ target[d] # None
               /\ devices[target[d]] # None
               /\ adapters'[target[d]][slot[d]] # None
    <3>1. slot[d] \in Slot /\ target[d] \in DeviceID
      BY <2>2, ConstantsAssumption DEF IInv, TypeOK, NoDanglingAdapter
    <3>. QED
      BY <1>1, <2>2, <3>1 DEF IInv, NoDanglingAdapter
  <2>. QED
    BY <2>1, <2>2 DEF Calls, IInv, TypeOK, NoDanglingAdapter
<1>. QED
  BY <1>2, <1>3, <1>4 DEF IInv

\* Where a request goes on when it does not change the label it resumes at.
LEMMA ProceedFacts ==
    ASSUME IInv, NEW c \in Client, pc[c] # "idle", NEW l, Proceed(c, l)
    PROVE  /\ pc' = [pc EXCEPT ![c] = l]
           /\ back' = [back EXCEPT ![c] = back[c]]
           /\ back[c] \in ResumeLabel \ {"idle"}
           /\ back[c] \in AdapterLabel => slot[c] # None
<1>1. back \in [Client -> ResumeLabel]
  BY DEF IInv, TypeOK
<1>2. back = [back EXCEPT ![c] = back[c]]
  BY <1>1
<1>3. back[c] # "idle"
  BY DEF IInv, RequestShape
<1>4. back[c] \in AdapterLabel => slot[c] # None
  BY DEF IInv, NoDanglingAdapter
<1>. QED
  BY <1>1, <1>2, <1>3, <1>4 DEF Proceed, Goto

LEMMA StartScanFacts ==
    ASSUME NEW c \in Client, NEW l, StartScan(c, l)
    PROVE  pc' = [pc EXCEPT ![c] = "scan_lock"] /\ back' = [back EXCEPT ![c] = l]
  BY DEF StartScan, Goto

LEMMA UnreachableFacts ==
    ASSUME IInv, NEW c \in Client, pc[c] # "idle",
           pc[c] \in AdapterLabel,
           NEW l \in Label \ (ScanLabel \cup {"commit", "idle"}),
           Unreachable(c, l)
    PROVE  /\ outcome' \in [Client -> Outcome]
           /\ UNCHANGED adapters
           /\ \E m \in Label \ (ScanLabel \cup {"commit", "idle"}),
                 b \in ResumeLabel \ {"idle"} :
                   pc' = [pc EXCEPT ![c] = m] /\ back' = [back EXCEPT ![c] = b]
<1>1. outcome' \in [Client -> Outcome] /\ UNCHANGED adapters
  BY DEF Unreachable, IInv, TypeOK, Outcome
<1>2. CASE FirstAttempt(c)
  <2>1. RescanThen(c) \in ResumeLabel \ {"idle"}
    BY <1>2 DEF FirstAttempt, RescanThen, ResumeLabel
  <2>2. "scan_lock" \in Label \ (ScanLabel \cup {"commit", "idle"})
    BY DEF Label, ScanLabel
  <2>. QED
    BY <1>1, <1>2, <2>1, <2>2, StartScanFacts DEF Unreachable
<1>3. CASE ~FirstAttempt(c)
  BY <1>1, <1>3, ProceedFacts DEF Unreachable
<1>. QED
  BY <1>2, <1>3

LEMMA LookupIInv ==
    ASSUME IInv, NEW c \in Client,
           PairLookup(c) \/ UnpairLookup(c) \/ ExecuteLookup(c) \/ StateLookup(c)
    PROVE  IInv'
<1>1. pc[c] \notin ScanLabel \cup {"idle"} /\ pc[c] \notin AdapterLabel
  BY DEF PairLookup, UnpairLookup, ExecuteLookup, StateLookup, ScanLabel, AdapterLabel
<1>2. Reads(c)
  BY DEF PairLookup, UnpairLookup, ExecuteLookup, StateLookup
<1>3. /\ {"scan_lock", "pair_attempt", "unpair_attempt", "exec_attempt",
          "exec_audit", "state_attempt", "returning"}
           \subseteq Label \ (ScanLabel \cup {"commit", "idle"})
      /\ {"pair_verify", "pair_missing", "wake_fresh"} \subseteq ResumeLabel \ {"idle"}
      /\ {"scan_lock", "returning", "exec_audit", "pair_missing"} \cap AdapterLabel = {}
  BY DEF Label, ScanLabel, ResumeLabel, AdapterLabel
<1>4. CASE /\ Found(c) /\ Take(c)
           /\ \/ StartScan(c, "pair_verify") \/ StartScan(c, "wake_fresh")
              \/ Proceed(c, "pair_attempt") \/ Proceed(c, "unpair_attempt")
              \/ Proceed(c, "exec_attempt") \/ Proceed(c, "state_attempt")
  <2>1. PICK l \in Label \ (ScanLabel \cup {"commit", "idle"}),
             b \in ResumeLabel \ {"idle"} :
               pc' = [pc EXCEPT ![c] = l] /\ back' = [back EXCEPT ![c] = b]
    BY <1>1, <1>3, <1>4, StartScanFacts, ProceedFacts
  <2>. QED
    BY <1>1, <1>2, <1>4, <2>1, ReadsIInv
<1>5. CASE /\ Keep(c)
           /\ \/ StartScan(c, "pair_missing")
              \/ Proceed(c, "returning") \/ Proceed(c, "exec_audit")
  <2>1. PICK l \in (Label \ (ScanLabel \cup {"commit", "idle"})) \ AdapterLabel,
             b \in ResumeLabel \ {"idle"} :
               /\ pc' = [pc EXCEPT ![c] = l] /\ back' = [back EXCEPT ![c] = b]
               /\ b \in AdapterLabel => slot[c] # None
    BY <1>1, <1>3, <1>5, StartScanFacts, ProceedFacts
  <2>. QED
    BY <1>1, <1>2, <1>5, <2>1, ReadsIInv
<1>. QED
  BY <1>4, <1>5 DEF PairLookup, UnpairLookup, ExecuteLookup, StateLookup

LEMMA RelookupIInv ==
    ASSUME IInv, NEW c \in Client,
           \/ PairMissing(c) \/ PairVerify(c) \/ PairRelookup(c) \/ WakeRefresh(c)
           \/ ExecuteRelookup(c) \/ StateRelookup(c)
    PROVE  IInv'
<1>1. pc[c] \notin ScanLabel \cup {"idle"}
  BY DEF PairMissing, PairVerify, PairRelookup, WakeRefresh, ExecuteRelookup,
         StateRelookup, ScanLabel
<1>2. Reads(c)
  BY DEF PairMissing, PairVerify, PairRelookup, WakeRefresh, ExecuteRelookup, StateRelookup
<1>3. /\ {"pair_attempt", "pair_reattempt", "wake_attempt", "wake_reattempt",
          "exec_reattempt", "exec_snap", "state_reattempt", "returning"}
           \subseteq Label \ (ScanLabel \cup {"commit", "idle"})
      /\ "returning" \in ResumeLabel \ {"idle"}
      /\ "returning" \notin AdapterLabel
  BY DEF Label, ScanLabel, ResumeLabel, AdapterLabel
<1>4. CASE PairMissing(c)
  <2>1. CASE Found(c) /\ Take(c) /\ Goto(c, "pair_attempt")
    BY <1>1, <1>2, <1>3, <1>4, <2>1, ReadsIInv DEF PairMissing, Goto
  <2>2. CASE Keep(c) /\ Goto(c, "returning")
    BY <1>1, <1>2, <1>3, <1>4, <2>2, ReadsIInv DEF PairMissing, Goto
  <2>. QED
    BY <1>4, <2>1, <2>2 DEF PairMissing
<1>5. CASE ~PairMissing(c)
  <2>1. slot[c] # None
    BY <1>5 DEF PairVerify, PairRelookup, WakeRefresh, ExecuteRelookup, StateRelookup,
                IInv, NoDanglingAdapter, AdapterLabel
  <2>2. (Take(c) \/ Keep(c))
        /\ \E l \in Label \ (ScanLabel \cup {"commit", "idle"}),
              b \in ResumeLabel \ {"idle"} :
                pc' = [pc EXCEPT ![c] = l] /\ back' = [back EXCEPT ![c] = b]
    BY <1>1, <1>3, <1>5, ProceedFacts
       DEF PairVerify, PairRelookup, WakeRefresh, ExecuteRelookup, StateRelookup, Goto,
           Refresh
  <2>. QED
    BY <1>1, <1>2, <2>1, <2>2, ReadsIInv
<1>. QED
  BY <1>4, <1>5

LEMMA AttemptIInv ==
    ASSUME IInv, NEW c \in Client,
           PairAttempt(c) \/ UnpairAttempt(c) \/ ExecuteAttempt(c) \/ StateAttempt(c)
    PROVE  IInv'
<1>1. pc[c] \notin ScanLabel \cup {"idle"} /\ pc[c] \in AdapterLabel
  BY DEF PairAttempt, UnpairAttempt, ExecuteAttempt, StateAttempt, ScanLabel, AdapterLabel
<1>2. slot[c] # None
  BY <1>1 DEF IInv, NoDanglingAdapter
<1>3. Calls(c)
  BY DEF PairAttempt, UnpairAttempt, ExecuteAttempt, StateAttempt
<1>4. {"pair_snap", "unpair_snap", "exec_snap", "returning"}
        \subseteq Label \ (ScanLabel \cup {"commit", "idle"})
  BY DEF Label, ScanLabel
<1>5. \A o \in Outcome : [outcome EXCEPT ![c] = o] \in [Client -> Outcome]
  BY DEF IInv, TypeOK
<1>6. {"ok", "failed", "unconfirmed"} \subseteq Outcome
  BY DEF Outcome
<1>7. CASE \E l \in {"exec_snap", "returning"} : Unreachable(c, l)
  BY <1>1, <1>2, <1>3, <1>4, <1>7, UnreachableFacts, CallsIInv
<1>8. CASE /\ \E o \in {"ok", "failed", "unconfirmed"} :
                 outcome' = [outcome EXCEPT ![c] = o]
           /\ UNCHANGED adapters \/ SetPaired(c, TRUE) \/ SetPaired(c, FALSE)
           /\ \E l \in {"pair_snap", "unpair_snap", "exec_snap", "returning"} :
                 Proceed(c, l)
  <2>1. outcome' \in [Client -> Outcome]
    BY <1>5, <1>6, <1>8
  <2>2. PICK l \in Label \ (ScanLabel \cup {"commit", "idle"}),
             b \in ResumeLabel \ {"idle"} :
               pc' = [pc EXCEPT ![c] = l] /\ back' = [back EXCEPT ![c] = b]
    BY <1>1, <1>4, <1>8, ProceedFacts
  <2>. QED
    BY <1>1, <1>2, <1>3, <1>8, <2>1, <2>2, CallsIInv
<1>9. CASE PairAttempt(c)
  BY <1>7, <1>8, <1>9 DEF PairAttempt
<1>10. CASE UnpairAttempt(c)
  BY <1>7, <1>8, <1>10 DEF UnpairAttempt
<1>11. CASE ExecuteAttempt(c)
  BY <1>7, <1>8, <1>11 DEF ExecuteAttempt
<1>12. CASE StateAttempt(c)
  BY <1>7, <1>8, <1>12 DEF StateAttempt
<1>. QED
  BY <1>9, <1>10, <1>11, <1>12

\* What a step that changes the records of ids sets aside to save.
LEMMA ToSaveFacts ==
    ASSUME IInv, NEW c \in Client, NEW ids \in SUBSET DeviceID, ToSave(c, ids),
           \A i \in ids : metadata'[i] \in Record
    PROVE  pending' \in [Client -> SUBSET Save] /\ doubtful' \subseteq DeviceID
<1>1. {[id |-> i, rec |-> metadata'[i]] : i \in ids} \subseteq Save
  BY DEF Save
<1>. QED
  BY <1>1 DEF ToSave, IInv, TypeOK

LEMMA ReconcileIInv ==
    ASSUME IInv, NEW c \in Client, NEW i \in DeviceID,
           NEW p \in ReportedPaired(i), NEW v \in BOOLEAN,
           Reconcile(c, i, p, v)
    PROVE  IInv'
<1>1. reports' \in 0 .. MaxReports
  BY ConstantsAssumption DEF Reconcile, IInv, TypeOK
<1>2. item' \in Save
  <2>0. p \in BOOLEAN
    BY DEF ReportedPaired
  <2>1. CASE item' = [id |-> i, rec |-> [paired |-> p, verified |-> v,
                                         alias |-> NoAlias, online |-> TRUE]]
    BY <2>0, <2>1 DEF Save, Record
  <2>2. CASE \E j \in Candidates(i) :
               item' = [id |-> j,
                        rec |-> [paired |-> p \/ metadata[j].paired,
                                 verified |-> v \/ metadata[j].verified,
                                 alias |-> metadata[j].alias,
                                 online |-> TRUE]]
    <3>1. PICK j \in Candidates(i) :
            item' = [id |-> j,
                     rec |-> [paired |-> p \/ metadata[j].paired,
                              verified |-> v \/ metadata[j].verified,
                              alias |-> metadata[j].alias,
                              online |-> TRUE]]
      BY <2>2
    <3>2. j \in DeviceID /\ metadata[j] # None
      BY DEF Candidates, Known
    <3>3. metadata[j] \in Record
      BY <3>2 DEF IInv, TypeOK, Inventory
    <3>. QED
      BY <2>0, <3>1, <3>2, <3>3 DEF Save, Record
  <2>. QED
    BY <2>1, <2>2 DEF Reconcile
<1>3. scanOwner = c /\ scanOwner # None
  BY ConstantsAssumption DEF Reconcile, IInv, RequestShape, ScanLabel
<1>4. TypeOK'
  BY <1>1, <1>2, <1>3 DEF Reconcile, Goto, IInv, TypeOK, inventory, history, Label
<1>5. RequestShape'
  BY <1>2, <1>3, ConstantsAssumption
     DEF Reconcile, Goto, IInv, TypeOK, RequestShape, ScanLabel
<1>6. NoDanglingAdapter'
  BY DEF Reconcile, Goto, IInv, TypeOK, NoDanglingAdapter, inventory, AdapterLabel
<1>. QED
  BY <1>4, <1>5, <1>6 DEF IInv

LEMMA ScanEndIInv ==
    ASSUME IInv, NEW c \in Client, NEW failed \in BOOLEAN, ScanEnd(c, failed)
    PROVE  IInv'
<1>1. scanOwner = c
  BY DEF ScanEnd, IInv, RequestShape, ScanLabel
<1>2. back[c] \in ResumeLabel \ {"idle"}
  BY DEF ScanEnd, IInv, TypeOK, RequestShape
<1>3. back[c] \in Label \ (ScanLabel \cup {"commit", "idle"})
  BY <1>2 DEF ResumeLabel, Label, ScanLabel
<1>4. item = None
  BY DEF ScanEnd, IInv, RequestShape, ScanLabel
<1>5. TypeOK'
  BY <1>1, <1>3, <1>4, ConstantsAssumption
     DEF ScanEnd, ScanReset, Goto, IInv, TypeOK, inventory, history, Known
<1>6. RequestShape'
  BY <1>1, <1>2, <1>3, <1>4, ConstantsAssumption
     DEF ScanEnd, Goto, IInv, TypeOK, RequestShape
<1>7. NoDanglingAdapter'
  BY <1>3 DEF ScanEnd, Goto, IInv, TypeOK, NoDanglingAdapter, inventory
<1>. QED
  BY <1>5, <1>6, <1>7 DEF IInv

LEMMA MarkUnseenIInv ==
    ASSUME IInv, NEW c \in Client, MarkUnseen(c)
    PROVE  IInv'
<1> DEFINE stale == {i \in Known \ seen : metadata[i].online}
<1>1. ASSUME NEW i \in DeviceID
      PROVE  /\ metadata'[i] \in Record \cup {None}
             /\ metadata[i] # None => metadata'[i] # None
             /\ i \in stale => metadata'[i] \in Record
  <2>1. CASE i \in stale
    <3>1. metadata[i] \in Record
      BY <2>1 DEF Known, IInv, TypeOK, Inventory
    <3>2. metadata'[i] = [metadata[i] EXCEPT !.online = FALSE]
      BY <2>1 DEF MarkUnseen
    <3>3. metadata'[i] \in Record
      BY <3>1, <3>2 DEF Record
    <3>. QED
      BY <3>3, ConstantsAssumption
  <2>2. CASE i \notin stale
    BY <2>2 DEF MarkUnseen, IInv, TypeOK, Inventory
  <2>. QED
    BY <2>1, <2>2
<1>2. metadata' \in Inventory
  BY <1>1 DEF MarkUnseen, Inventory
<1>3. pending' \in [Client -> SUBSET Save] /\ doubtful' \subseteq DeviceID
  <2>1. stale \subseteq DeviceID
    BY DEF Known
  <2>2. ToSave(c, stale) /\ \A i \in stale : metadata'[i] \in Record
    BY <1>1, <2>1 DEF MarkUnseen
  <2>. QED
    BY <2>1, <2>2, ToSaveFacts
<1>4. PICK l \in {"scan_end", "scan_stale"} : pc' = [pc EXCEPT ![c] = l]
  BY DEF MarkUnseen, Goto
<1>5. TypeOK'
  BY <1>2, <1>3, <1>4 DEF MarkUnseen, IInv, TypeOK, scan, history, Label
<1>6. RequestShape'
  BY <1>4, ConstantsAssumption DEF MarkUnseen, IInv, TypeOK, RequestShape, scan, ScanLabel
<1>7. NoDanglingAdapter'
  BY <1>1, <1>4 DEF MarkUnseen, IInv, TypeOK, NoDanglingAdapter, AdapterLabel
<1>. QED
  BY <1>5, <1>6, <1>7 DEF IInv

LEMMA SaveDeviceIInv ==
    ASSUME IInv, NEW c \in Client, NEW s \in pending[c], SaveDevice(c, s)
    PROVE  IInv'
<1>1. s \in Save
  BY DEF IInv, TypeOK
<1>2. store' \in Inventory
  BY <1>1 DEF SaveDevice, Upsert, IInv, TypeOK, Inventory, Save
<1>3. pc[c] # "idle" /\ back[c] \in ResumeLabel \ {"idle"}
  BY DEF SaveDevice, IInv, TypeOK, RequestShape
<1>4. AfterSaves(c, pc[c]) \in Label \ {"commit", "idle", "scan_register"}
      /\ (AfterSaves(c, pc[c]) \in ScanLabel <=> pc[c] \in ScanLabel)
      /\ (AfterSaves(c, pc[c]) \in AdapterLabel => back[c] \in AdapterLabel)
  BY <1>3 DEF SaveDevice, AfterSaves, Label, ScanLabel, ResumeLabel, AdapterLabel
<1>5. PICK l \in {pc[c], AfterSaves(c, pc[c])} : pc' = [pc EXCEPT ![c] = l]
  BY DEF SaveDevice
<1>6. TypeOK'
  <2>1. pending' \in [Client -> SUBSET Save] /\ doubtful' \subseteq DeviceID
    BY <1>1 DEF SaveDevice, IInv, TypeOK, Save
  <2>. QED
    BY <1>2, <1>4, <1>5, <2>1 DEF SaveDevice, IInv, TypeOK, inventory, scan
<1>7. RequestShape'
  BY <1>3, <1>4, <1>5 DEF SaveDevice, IInv, TypeOK, RequestShape, scan
<1>8. NoDanglingAdapter'
  BY <1>4, <1>5 DEF SaveDevice, IInv, TypeOK, NoDanglingAdapter, inventory
<1>. QED
  BY <1>6, <1>7, <1>8 DEF IInv

LEMMA SnapIInv ==
    ASSUME IInv, NEW c \in Client, Snap(c)
    PROVE  IInv'
<1> DEFINE md == adapters[target[c]][slot[c]]
<1>1. slot[c] # None
  BY DEF Snap, IInv, NoDanglingAdapter, AdapterLabel
<1>2. md \in Record
  BY <1>1, ConstantsAssumption DEF IInv, TypeOK, NoDanglingAdapter
<1>3. /\ md \in Record
      /\ [md EXCEPT !.paired = TRUE] \in Record
      /\ [md EXCEPT !.paired = FALSE] \in Record
  BY <1>2 DEF Record
<1>4. PICK r \in Record : snapshot' = [snapshot EXCEPT ![c] = r]
  BY <1>3 DEF Snap
<1>5. UNCHANGED back \/ back' = [back EXCEPT ![c] = "exec_audit"]
  BY DEF Snap
<1>6. pc' = [pc EXCEPT ![c] = "commit"] /\ pc[c] \notin ScanLabel \cup {"idle"}
  BY DEF Snap, Goto, ScanLabel
<1>7. TypeOK'
  BY <1>4, <1>5, <1>6 DEF Snap, IInv, TypeOK, inventory, scan, history, Label, ResumeLabel
<1>8. RequestShape'
  BY <1>4, <1>5, <1>6, ConstantsAssumption
     DEF Snap, IInv, TypeOK, RequestShape, scan, ScanLabel
<1>9. NoDanglingAdapter'
  BY <1>1, <1>5, <1>6 DEF Snap, IInv, TypeOK, NoDanglingAdapter, inventory, AdapterLabel
<1>. QED
  BY <1>7, <1>8, <1>9 DEF IInv

LEMMA SetPairingStateIInv ==
    ASSUME IInv, NEW c \in Client, SetPairingState(c)
    PROVE  IInv'
<1> DEFINE i == target[c]
           md == snapshot[c]
           own == IF md.alias = NoAlias /\ metadata[i] # None
                  THEN [md EXCEPT !.alias = metadata[i].alias] ELSE md
<1>1. pc[c] = "commit" /\ i \in DeviceID /\ md \in Record
  BY DEF SetPairingState, IInv, TypeOK, RequestShape
<1>2. metadata \in [DeviceID -> Record \cup {None}]
  BY DEF IInv, TypeOK, Inventory
<1>3. own \in Record
  <2>1. CASE metadata[i] # None
    <3>1. metadata[i] \in Record
      BY <1>1, <1>2, <2>1
    <3>2. [md EXCEPT !.alias = metadata[i].alias] \in Record
      BY <1>1, <3>1 DEF Record
    <3>. QED
      BY <1>1, <3>2
  <2>2. CASE metadata[i] = None
    BY <1>1, <2>2
  <2>. QED
    BY <2>1, <2>2
<1>4. metadata' = [j \in DeviceID |->
                     CASE j = i          -> own
                       [] j \in Twins(i) -> [metadata[j] EXCEPT !.paired = md.paired]
                       [] OTHER          -> metadata[j]]
  BY DEF SetPairingState
<1>5. ASSUME NEW j \in DeviceID
      PROVE  /\ metadata'[j] \in Record \cup {None}
             /\ metadata[j] # None => metadata'[j] # None
             /\ j \in Twins(i) \cup {i} => metadata'[j] \in Record
  <2> HIDE DEF own
  <2>1. CASE j = i
    <3>1. metadata'[j] = own
      BY <1>4, <2>1 DEF Twins
    <3>. QED
      BY <1>3, <3>1, ConstantsAssumption
  <2>2. CASE j # i /\ j \in Twins(i)
    <3>1. metadata[j] \in Record
      BY <1>2, <2>2 DEF Twins, Known
    <3>2. [metadata[j] EXCEPT !.paired = md.paired] \in Record
      BY <1>1, <3>1 DEF Record
    <3>3. metadata'[j] = [metadata[j] EXCEPT !.paired = md.paired]
      BY <1>4, <2>2
    <3>. QED
      BY <3>2, <3>3, ConstantsAssumption
  <2>3. CASE j # i /\ j \notin Twins(i)
    <3>1. metadata'[j] = metadata[j]
      BY <1>4, <2>3
    <3>. QED
      BY <1>2, <2>3, <3>1
  <2>. QED
    BY <2>1, <2>2, <2>3
<1>6. metadata' \in Inventory
  BY <1>4, <1>5 DEF Inventory
<1>7. pending' \in [Client -> SUBSET Save] /\ doubtful' \subseteq DeviceID
  <2>1. Twins(i) \cup {i} \subseteq DeviceID
    BY <1>1 DEF Twins, Known
  <2>2. ToSave(c, Twins(i) \cup {i})
        /\ \A j \in Twins(i) \cup {i} : metadata'[j] \in Record
    BY <1>5, <2>1 DEF SetPairingState
  <2>. QED
    BY <2>1, <2>2, ToSaveFacts
<1>8. TypeOK'
  BY <1>6, <1>7 DEF SetPairingState, Goto, IInv, TypeOK, scan, history, Label
<1>9. RequestShape'
  BY <1>1 DEF SetPairingState, Goto, IInv, TypeOK, RequestShape, scan, ScanLabel
<1>10. NoDanglingAdapter'
  BY <1>5 DEF SetPairingState, Goto, IInv, TypeOK, NoDanglingAdapter, AdapterLabel
<1>. QED
  BY <1>8, <1>9, <1>10 DEF IInv

LEMMA RenameIInv ==
    ASSUME IInv, NEW c \in Client, NEW a \in Alias, Rename(c, a)
    PROVE  IInv'
<1> DEFINE i == target[c]
<1>1. pc[c] = "rename_apply" /\ i \in DeviceID /\ back[c] # "idle"
  BY DEF Rename, IInv, TypeOK, RequestShape
<1>2. CASE UNCHANGED <<metadata, pending, doubtful>> /\ Goto(c, "returning")
  <2>1. TypeOK'
    BY <1>2 DEF Rename, Goto, IInv, TypeOK, scan, history, Label
  <2>2. RequestShape'
    BY <1>1, <1>2 DEF Rename, Goto, IInv, TypeOK, RequestShape, scan, ScanLabel
  <2>3. NoDanglingAdapter'
    BY <1>2 DEF Rename, Goto, IInv, TypeOK, NoDanglingAdapter, AdapterLabel
  <2>. QED
    BY <2>1, <2>2, <2>3 DEF IInv
<1>3. CASE /\ i \in Known
           /\ metadata' = [metadata EXCEPT ![i].alias = a]
           /\ ToSave(c, {i})
           /\ Goto(c, "commit_save")
  <2>1. metadata \in [DeviceID -> Record \cup {None}] /\ metadata[i] \in Record
    BY <1>3 DEF IInv, TypeOK, Inventory, Known
  <2>2. [metadata[i] EXCEPT !.alias = a] \in Record
    BY <2>1 DEF Record
  <2>3. metadata' = [metadata EXCEPT ![i] = [metadata[i] EXCEPT !.alias = a]]
    BY <1>3
  <2>4. metadata' \in Inventory /\ metadata'[i] \in Record
    BY <1>1, <2>1, <2>2, <2>3 DEF Inventory
  <2>5. \A j \in DeviceID : metadata[j] # None => metadata'[j] # None
    BY <2>1, <2>3, <2>4, ConstantsAssumption
  <2>6. pending' \in [Client -> SUBSET Save] /\ doubtful' \subseteq DeviceID
    BY <1>1, <1>3, <2>4, ToSaveFacts
  <2>7. TypeOK'
    BY <1>3, <2>4, <2>6 DEF Rename, Goto, IInv, TypeOK, scan, history, Label
  <2>8. RequestShape'
    BY <1>1, <1>3 DEF Rename, Goto, IInv, TypeOK, RequestShape, scan, ScanLabel
  <2>9. NoDanglingAdapter'
    BY <1>3, <2>5 DEF Rename, Goto, IInv, TypeOK, NoDanglingAdapter, AdapterLabel
  <2>. QED
    BY <2>7, <2>8, <2>9 DEF IInv
<1>. QED
  BY <1>2, <1>3 DEF Rename

LEMMA ExecuteAuditIInv ==
    ASSUME IInv, NEW c \in Client, ExecuteAudit(c)
    PROVE  IInv'
<1>1. Verdict(c) \in BOOLEAN
  BY DEF Verdict
<1>2. audit' \in [Client -> Seq(BOOLEAN)]
  <2>1. audit[c] \in Seq(BOOLEAN)
    BY DEF IInv, TypeOK
  <2>2. Append(audit[c], Verdict(c)) \in Seq(BOOLEAN)
    BY <1>1, <2>1
  <2>. QED
    BY <2>2 DEF ExecuteAudit, IInv, TypeOK
<1>3. TypeOK'
  BY <1>2 DEF ExecuteAudit, Goto, IInv, TypeOK, inventory, scan, history, Label
<1>4. RequestShape'
  BY DEF ExecuteAudit, Goto, IInv, TypeOK, RequestShape, scan, ScanLabel
<1>5. NoDanglingAdapter'
  BY DEF ExecuteAudit, Goto, IInv, TypeOK, NoDanglingAdapter, inventory, AdapterLabel
<1>. QED
  BY <1>3, <1>4, <1>5 DEF IInv

LEMMA ReturnIInv ==
    ASSUME IInv, NEW c \in Client, Return(c)
    PROVE  IInv'
<1>1. adapters' = Collect(adapters, devices, slot', target')
  BY DEF Return
<1>2. /\ slot' = [slot EXCEPT ![c] = None] /\ slot' \in [Client -> Slot \cup {None}]
      /\ target' = [target EXCEPT ![c] = None]
      /\ target' \in [Client -> DeviceID \cup {None}]
  BY DEF Return, IInv, TypeOK
<1>3. adapters' \in [DeviceID -> [Slot -> Record \cup {None}]]
  BY <1>1, CollectType DEF IInv, TypeOK
<1>4. TypeOK'
  <2>1. audit' \in [Client -> Seq(BOOLEAN)]
    BY DEF Return, IInv, TypeOK
  <2>2. pc' \in [Client -> Label] /\ back' \in [Client -> ResumeLabel]
    BY DEF Return, Goto, IInv, TypeOK, Label, ResumeLabel
  <2>3. outcome' \in [Client -> Outcome] /\ scanErr' \in [Client -> BOOLEAN]
        /\ snapshot' \in [Client -> Record \cup {None}]
    BY DEF Return, IInv, TypeOK, Outcome
  <2>. QED
    BY <1>2, <1>3, <2>1, <2>2, <2>3 DEF Return, IInv, TypeOK, scan, history
<1>5. RequestShape'
  BY <1>2, ConstantsAssumption DEF Return, Goto, IInv, TypeOK, RequestShape, scan, ScanLabel
<1>6. ASSUME NEW i \in DeviceID, devices[i] # None
      PROVE  metadata[i] # None /\ adapters'[i][devices[i]] # None
  <2>1. devices[i] \in Slot
    BY <1>6 DEF IInv, TypeOK
  <2>2. adapters'[i][devices[i]] = adapters[i][devices[i]]
    BY <1>1, <2>1, CollectValue, ReferencedBy
  <2>. QED
    BY <1>6, <2>2 DEF IInv, NoDanglingAdapter
<1>7. ASSUME NEW d \in Client, slot'[d] # None
      PROVE  /\ target'[d] # None
             /\ devices[target'[d]] # None
             /\ adapters'[target'[d]][slot'[d]] # None
  <2>1. d # c /\ slot'[d] = slot[d] /\ target'[d] = target[d] /\ slot[d] \in Slot
    BY <1>2, <1>7 DEF IInv, TypeOK
  <2>2. target[d] \in DeviceID /\ target[d] # None /\ devices[target[d]] # None
        /\ adapters[target[d]][slot[d]] # None
    BY <1>7, <2>1, ConstantsAssumption DEF IInv, TypeOK, NoDanglingAdapter
  <2>3. slot'[d] \in Referenced(target[d], devices, slot', target')
    BY <2>1, <2>2, ReferencedBy
  <2>4. Collect(adapters, devices, slot', target')[target[d]][slot'[d]]
          = adapters[target[d]][slot'[d]]
    BY <2>1, <2>2, <2>3, CollectValue
  <2>. QED
    BY <1>1, <2>1, <2>2, <2>4
<1>8. \A d \in Client : pc'[d] \in AdapterLabel \/ back'[d] \in AdapterLabel
         => slot'[d] # None
  BY <1>2 DEF Return, Goto, IInv, TypeOK, NoDanglingAdapter, AdapterLabel
<1>9. NoDanglingAdapter'
  BY <1>6, <1>7, <1>8 DEF Return, NoDanglingAdapter
<1>. QED
  BY <1>4, <1>5, <1>9 DEF IInv

LEMMA RegisterIInv ==
    ASSUME IInv, NEW c \in Client, Register(c)
    PROVE  IInv'
<1> DEFINE i == item.id
           rec == Registered(i, item.rec)
<1>1. /\ pc[c] = "scan_register" /\ scanOwner = c /\ scanOwner # None
      /\ item \in Save /\ i \in DeviceID /\ item.rec \in Record
  BY ConstantsAssumption DEF Register, IInv, TypeOK, RequestShape, ScanLabel, Save
<1>2. metadata \in [DeviceID -> Record \cup {None}]
  BY DEF IInv, TypeOK, Inventory
<1>3. rec \in Record /\ rec # None
  <2>1. metadata[i] # None => metadata[i] \in Record
    BY <1>1, <1>2
  <2>2. rec \in Record
    BY <1>1, <2>1 DEF Registered, Record
  <2>. QED
    BY <2>2, ConstantsAssumption
<1> HIDE DEF rec
<1>4. /\ metadata' = [metadata EXCEPT ![i] = rec]
      /\ metadata' \in Inventory
      /\ metadata'[i] # None /\ metadata'[i] \in Record
      /\ \A j \in DeviceID : metadata[j] # None => metadata'[j] # None
  BY <1>1, <1>2, <1>3 DEF Register, Inventory, rec
<1>5. pending' \in [Client -> SUBSET Save] /\ doubtful' \subseteq DeviceID
  <2>1. ToSave(c, {i})
    BY DEF Register
  <2>. QED
    BY <1>1, <1>4, <2>1, ToSaveFacts
<1>6. /\ devices' \in [DeviceID -> Slot \cup {None}]
      /\ adapters' \in [DeviceID -> [Slot -> Record \cup {None}]]
      /\ \A j \in DeviceID : devices[j] # None => devices'[j] # None
      /\ \A j \in DeviceID : devices'[j] # None =>
           metadata'[j] # None /\ adapters'[j][devices'[j]] # None
      /\ \A d \in Client : slot[d] # None => adapters'[target[d]][slot[d]] # None
  <2>1. CASE Supports(i, rec)
    <3>1. PICK s \in Slot :
            /\ FreeSlot(i, s)
            /\ devices' = [devices EXCEPT ![i] = s]
            /\ adapters' = Collect([adapters EXCEPT ![i][s] = rec], devices', slot, target)
      BY <2>1 DEF Register, rec
    <3> DEFINE new == [adapters EXCEPT ![i] = [adapters[i] EXCEPT ![s] = rec]]
    <3>2. new \in [DeviceID -> [Slot -> Record \cup {None}]]
      BY <1>1, <1>3 DEF IInv, TypeOK
    <3>3. adapters' = Collect(new, devices', slot, target)
      BY <3>1
    <3>4. adapters' \in [DeviceID -> [Slot -> Record \cup {None}]]
      BY <3>2, <3>3, CollectType
    <3>5. devices' \in [DeviceID -> Slot \cup {None}] /\ devices'[i] = s
      BY <1>1, <3>1 DEF IInv, TypeOK
    <3>6. ASSUME NEW j \in DeviceID, NEW r \in Slot,
                 (j = i /\ r = s) \/ adapters[j][r] # None
          PROVE  new[j][r] # None
      BY <1>1, <1>3, <3>6 DEF IInv, TypeOK
    <3> HIDE DEF new
    <3>7. ASSUME NEW j \in DeviceID, devices'[j] # None
          PROVE  metadata'[j] # None /\ adapters'[j][devices'[j]] # None
      <4>1. devices'[j] \in Slot
        BY <3>5, <3>7
      <4>2. adapters'[j][devices'[j]] = new[j][devices'[j]]
        BY <3>3, <4>1, CollectValue, ReferencedBy
      <4>3. CASE j = i
        BY <1>4, <3>5, <3>6, <4>1, <4>2, <4>3
      <4>4. CASE j # i
        <5>1. devices'[j] = devices[j]
          BY <3>1, <4>4 DEF IInv, TypeOK
        <5>2. metadata[j] # None /\ adapters[j][devices[j]] # None
          BY <3>7, <5>1 DEF IInv, NoDanglingAdapter
        <5>. QED
          BY <1>4, <3>6, <4>1, <4>2, <5>1, <5>2
      <4>. QED
        BY <4>3, <4>4
    <3>8. ASSUME NEW d \in Client, slot[d] # None
          PROVE  adapters'[target[d]][slot[d]] # None
      <4>1. slot[d] \in Slot /\ target[d] \in DeviceID
            /\ adapters[target[d]][slot[d]] # None
        BY <3>8, ConstantsAssumption DEF IInv, TypeOK, NoDanglingAdapter
      <4>2. adapters'[target[d]][slot[d]] = new[target[d]][slot[d]]
        BY <3>3, <4>1, CollectValue, ReferencedBy
      <4>. QED
        BY <3>6, <4>1, <4>2
    <3>9. \A j \in DeviceID : devices[j] # None => devices'[j] # None
      BY <3>1, ConstantsAssumption DEF IInv, TypeOK
    <3>. QED
      BY <3>4, <3>5, <3>7, <3>8, <3>9
  <2>2. CASE ~Supports(i, rec)
    <3>1. UNCHANGED <<devices, adapters>>
      BY <2>2 DEF Register, Unsupported, rec
    <3>. QED
      BY <1>4, <3>1 DEF IInv, TypeOK, NoDanglingAdapter
  <2>. QED
    BY <2>1, <2>2
<1>7. /\ pc' = [pc EXCEPT ![c] = "scan_save"] /\ item' = None
      /\ seen' = seen \cup {i} /\ sighted' = sighted \cup {i}
      /\ UNCHANGED <<store, scanOwner, reports, target, slot, snapshot, back,
                     scanErr, outcome, audit, crashes, granted>>
  BY DEF Register, Goto
<1>8. TypeOK'
  BY <1>1, <1>4, <1>5, <1>6, <1>7 DEF IInv, TypeOK, Label
<1>9. RequestShape'
  BY <1>1, <1>7 DEF IInv, TypeOK, RequestShape, ScanLabel
<1>10. NoDanglingAdapter'
  <2>1. \A d \in Client : slot[d] # None =>
           target[d] # None /\ target[d] \in DeviceID /\ devices'[target[d]] # None
    BY <1>6, ConstantsAssumption DEF IInv, TypeOK, NoDanglingAdapter
  <2>2. \A d \in Client : pc'[d] \in AdapterLabel \/ back'[d] \in AdapterLabel
           => slot[d] # None
    BY <1>7 DEF IInv, TypeOK, NoDanglingAdapter, AdapterLabel
  <2>. QED
    BY <1>6, <1>7, <2>1, <2>2 DEF NoDanglingAdapter
<1>. QED
  BY <1>8, <1>9, <1>10 DEF IInv

-----------------------------------------------------------------------------
(* The invariant, and what it implies *)

LEMMA StepIInv ==
    ASSUME IInv, NEW c \in Client, Step(c)
    PROVE  IInv'
  BY ReturnIInv, ScanLockIInv, ReconcileIInv, RegisterIInv, MarkUnseenIInv,
     ScanEndIInv, SaveDeviceIInv, LookupIInv, RelookupIInv, AttemptIInv,
     ExecuteAuditIInv, SnapIInv, SetPairingStateIInv, RenameIInv
     DEF Step

LEMMA StutterIInv == IInv /\ UNCHANGED vars => IInv'
  BY DEF IInv, TypeOK, RequestShape, NoDanglingAdapter, vars, inventory, scan, client,
         history

\* The inductive invariant: types, the shape of requests, and live adapters.
THEOREM Invariance == Spec => []IInv
<1>1. IInv /\ [Next]_vars => IInv'
  BY RestartIInv, BeginIInv, StepIInv, StutterIInv DEF Next
<1>. QED
  BY InitIInv, <1>1, PTL DEF Spec

\* Every variable keeps its type in every behaviour.
THEOREM TypeCorrect == Spec => []TypeOK
  BY Invariance, PTL DEF IInv

-----------------------------------------------------------------------------
(* Where the flags of a record come from.  Every copy of a record carries  *)
(* the flags, so PairingProvenance, PairingNeedsPrompt and                 *)
(* OnlineMeansSighted need the same of all of them: the rows, the          *)
(* adapters, the copies and the pending saves.  G is a set of units: those *)
(* granted so far for the first property, all but one for the second.      *)

PairedSound(G, i, rec) == rec # None /\ rec.paired => Unit[i] \in G
OnlineSound(i, rec) == rec # None /\ rec.online => i \in sighted

RokuUnits == {Unit[i] : i \in Roku}

RecordsSound(G) ==
    \A i \in DeviceID :
        PairedSound(G, i, metadata[i]) /\ OnlineSound(i, metadata[i]) /\ PairedSound(G, i, store[i])

AdaptersSound(G) ==
    \A i \in DeviceID, s \in Slot :
        PairedSound(G, i, adapters[i][s]) /\ OnlineSound(i, adapters[i][s])

CopiesSound(G) ==
    /\ item # None => PairedSound(G, item.id, item.rec)
    /\ \A c \in Client : snapshot[c] # None =>
          /\ target[c] # None
          /\ PairedSound(G, target[c], snapshot[c])
          /\ OnlineSound(target[c], snapshot[c])
    /\ \A c \in Client : \A s \in pending[c] : PairedSound(G, s.id, s.rec)
    /\ \A c \in Client : pc[c] = "pair_snap" => Unit[target[c]] \in G

FlagsSound(G) == RecordsSound(G) /\ AdaptersSound(G) /\ CopiesSound(G)

LEMMA InitSound ==
    ASSUME Init, NEW G, Allowed \subseteq G
    PROVE  FlagsSound(G)
<1>1. store \in [DeviceID -> Record \cup {None}]
  BY ConstantsAssumption DEF Init, Inventory
<1>2. ASSUME NEW i \in DeviceID
      PROVE  /\ PairedSound(G, i, store[i])
             /\ PairedSound(G, i, Reload(store[i]))
             /\ OnlineSound(i, Reload(store[i]))
  <2>1. store[i] # None => store[i] \in Record
    BY <1>1
  <2>2. store[i] # None /\ store[i].paired => Unit[i] \in G
    BY DEF Init, PairedIn, Allowed
  <2>. QED
    BY <2>1, <2>2 DEF PairedSound, OnlineSound, Reload, Record
<1>3. RecordsSound(G)
  BY <1>2 DEF Init, RecordsSound, Loaded
<1>4. AdaptersSound(G)
  <2>1. \A i \in DeviceID, s \in Slot : adapters[i][s] \in {Reload(store[i]), None}
    BY DEF Init, LoadedAdapters
  <2>. QED
    BY <1>2, <2>1 DEF AdaptersSound, PairedSound, OnlineSound
<1>5. CopiesSound(G)
  BY DEF Init, CopiesSound
<1>. QED
  BY <1>3, <1>4, <1>5 DEF FlagsSound

LEMMA RestartSound ==
    ASSUME IInv, NEW G, FlagsSound(G), Restart
    PROVE  FlagsSound(G)'
<1>1. store \in [DeviceID -> Record \cup {None}] /\ store' = store
  BY DEF Restart, IInv, TypeOK, Inventory
<1>2. ASSUME NEW i \in DeviceID
      PROVE  /\ store[i] # None /\ store[i].paired => Unit[i] \in G
             /\ Reload(store[i]) # None /\ Reload(store[i]).paired => Unit[i] \in G
             /\ Reload(store[i]) # None => ~Reload(store[i]).online
  <2>1. store[i] # None => store[i] \in Record
    BY <1>1
  <2>2. store[i] # None /\ store[i].paired => Unit[i] \in G
    BY DEF FlagsSound, RecordsSound, PairedSound
  <2>. QED
    BY <2>1, <2>2 DEF Reload, Record
<1>3. RecordsSound(G)'
  BY <1>1, <1>2 DEF Restart, RecordsSound, Loaded, PairedSound, OnlineSound
<1>4. AdaptersSound(G)'
  <2>1. \A i \in DeviceID, s \in Slot : adapters'[i][s] \in {Reload(store[i]), None}
    BY DEF Restart, LoadedAdapters
  <2>. QED
    BY <1>1, <1>2, <2>1 DEF AdaptersSound, PairedSound, OnlineSound
<1>5. CopiesSound(G)'
  BY DEF Restart, CopiesSound
<1>. QED
  BY <1>3, <1>4, <1>5 DEF FlagsSound

\* A step that moves a request on without writing a flag.
LEMMA MovesSound ==
    ASSUME NEW G, FlagsSound(G),
           UNCHANGED <<metadata, store, item, snapshot, pending, sighted>>,
           \A i \in DeviceID, s \in Slot : adapters'[i][s] \in {adapters[i][s], None},
           \A c \in Client : snapshot[c] # None => target'[c] = target[c],
           \A c \in Client : pc'[c] = "pair_snap" =>
               pc[c] = "pair_snap" /\ target'[c] = target[c]
    PROVE  FlagsSound(G)'
<1>1. RecordsSound(G)'
  BY DEF FlagsSound, RecordsSound, PairedSound, OnlineSound
<1>2. AdaptersSound(G)'
  BY DEF FlagsSound, AdaptersSound, PairedSound, OnlineSound
<1>3. CopiesSound(G)'
  BY DEF FlagsSound, CopiesSound, PairedSound, OnlineSound
<1>. QED
  BY <1>1, <1>2, <1>3 DEF FlagsSound

LEMMA RequestSound ==
    ASSUME IInv, NEW G, FlagsSound(G), NEW c \in Client,
           \/ NewRequest(c) \/ ScanLock(c) \/ ExecuteAudit(c)
           \/ \E failed \in BOOLEAN : ScanEnd(c, failed)
    PROVE  FlagsSound(G)'
<1>1. /\ UNCHANGED <<metadata, store, item, snapshot, pending, sighted>>
      /\ UNCHANGED adapters
  BY DEF NewRequest, Begin, ScanLock, ExecuteAudit, ScanEnd, inventory, scan, history
<1>2. \E l \in Label \ {"pair_snap"} : pc' = [pc EXCEPT ![c] = l]
  <2>1. CASE NewRequest(c)
    <3>1. PICK op \in Operation, i \in DeviceID : Begin(c, op, i)
      BY <2>1 DEF NewRequest
    <3>2. EntryLabel[op] \in Label \ {"pair_snap"}
      BY DEF Operation, EntryLabel, Label
    <3>. QED
      BY <3>1, <3>2 DEF Begin, Goto
  <2>2. CASE ScanLock(c) \/ ExecuteAudit(c)
    BY <2>2 DEF ScanLock, ExecuteAudit, Goto, Label
  <2>3. CASE \E failed \in BOOLEAN : ScanEnd(c, failed)
    <3>1. back[c] \in Label \ {"pair_snap"}
      BY DEF IInv, TypeOK, ResumeLabel, Label
    <3>. QED
      BY <2>3, <3>1 DEF ScanEnd, Goto
  <2>. QED
    BY <2>1, <2>2, <2>3
<1>3. \A d \in Client : snapshot[d] # None \/ pc'[d] = "pair_snap" => target'[d] = target[d]
  <2>1. CASE NewRequest(c)
    <3>1. target[c] = None
      BY <2>1 DEF NewRequest, Begin, IInv, RequestShape
    <3>2. snapshot[c] = None
      BY <3>1 DEF FlagsSound, CopiesSound
    <3>3. \A d \in Client \ {c} : target'[d] = target[d]
      BY <2>1 DEF NewRequest, Begin, IInv, TypeOK
    <3>4. pc'[c] # "pair_snap"
      BY <1>2 DEF IInv, TypeOK
    <3>. QED
      BY <3>2, <3>3, <3>4
  <2>2. CASE ~NewRequest(c)
    BY <2>2 DEF ScanLock, ExecuteAudit, ScanEnd
  <2>. QED
    BY <2>1, <2>2
<1>4. \A d \in Client : pc'[d] = "pair_snap" => pc[d] = "pair_snap"
  BY <1>2 DEF IInv, TypeOK
<1>. QED
  BY <1>1, <1>3, <1>4, MovesSound

LEMMA ReadsSound ==
    ASSUME IInv, NEW G, FlagsSound(G), NEW c \in Client,
           \/ PairLookup(c) \/ UnpairLookup(c) \/ ExecuteLookup(c) \/ StateLookup(c)
           \/ PairMissing(c) \/ PairVerify(c) \/ PairRelookup(c) \/ WakeRefresh(c)
           \/ ExecuteRelookup(c) \/ StateRelookup(c)
    PROVE  FlagsSound(G)'
<1>1. Reads(c) /\ (Take(c) \/ Keep(c))
  BY DEF PairLookup, UnpairLookup, ExecuteLookup, StateLookup, PairMissing, PairVerify,
         PairRelookup, WakeRefresh, ExecuteRelookup, StateRelookup, Refresh
<1>2. \E l \in Label \ {"pair_snap"} : pc' = [pc EXCEPT ![c] = l]
  BY DEF PairLookup, UnpairLookup, ExecuteLookup, StateLookup, PairMissing, PairVerify,
         PairRelookup, WakeRefresh, ExecuteRelookup, StateRelookup, Proceed, StartScan,
         Goto, Label
<1>3. \A i \in DeviceID, s \in Slot : adapters'[i][s] \in {adapters[i][s], None}
  <2>1. CASE Take(c)
    BY <2>1, CollectValue DEF Take
  <2>2. CASE Keep(c)
    BY <2>2 DEF Keep
  <2>. QED
    BY <1>1, <2>1, <2>2
<1>4. \A d \in Client : pc'[d] = "pair_snap" => pc[d] = "pair_snap"
  BY <1>2 DEF IInv, TypeOK
<1>. QED
  BY <1>1, <1>3, <1>4, MovesSound DEF Reads, scan, history

LEMMA ReturnSound ==
    ASSUME IInv, NEW G, FlagsSound(G), NEW c \in Client, Return(c)
    PROVE  FlagsSound(G)'
<1>1. RecordsSound(G)'
  BY DEF Return, FlagsSound, RecordsSound, PairedSound, OnlineSound, history
<1>2. \A i \in DeviceID, s \in Slot : adapters'[i][s] \in {adapters[i][s], None}
  BY CollectValue DEF Return
<1>3. AdaptersSound(G)'
  BY <1>2 DEF Return, FlagsSound, AdaptersSound, PairedSound, OnlineSound, history
<1>4. CopiesSound(G)'
  BY DEF Return, Goto, IInv, TypeOK, FlagsSound, CopiesSound, PairedSound, OnlineSound,
         scan, history
<1>. QED
  BY <1>1, <1>3, <1>4 DEF FlagsSound

LEMMA ReconcileSound ==
    ASSUME IInv, NEW G, FlagsSound(G), NEW c \in Client, NEW i \in DeviceID,
           NEW p \in ReportedPaired(i), NEW v \in BOOLEAN,
           Reconcile(c, i, p, v), RokuUnits \subseteq G
    PROVE  FlagsSound(G)'
<1>1. UNCHANGED <<inventory, store, snapshot, target, pending, history>>
      /\ pc' = [pc EXCEPT ![c] = "scan_register"]
  BY DEF Reconcile, Goto
<1>2. RecordsSound(G)' /\ AdaptersSound(G)'
  BY <1>1 DEF FlagsSound, RecordsSound, AdaptersSound, PairedSound, OnlineSound, inventory,
              history
<1>3. item'.rec.paired => Unit[item'.id] \in G
  <2>1. p => Unit[i] \in G
    BY DEF ReportedPaired, RokuUnits
  <2>2. CASE item' = [id |-> i, rec |-> [paired |-> p, verified |-> v,
                                         alias |-> NoAlias, online |-> TRUE]]
    BY <2>1, <2>2
  <2>3. ASSUME NEW j \in Candidates(i),
               item' = [id |-> j, rec |-> [paired |-> p \/ metadata[j].paired,
                                           verified |-> v \/ metadata[j].verified,
                                           alias |-> metadata[j].alias,
                                           online |-> TRUE]]
        PROVE  item'.rec.paired => Unit[item'.id] \in G
    <3>1. j \in DeviceID /\ metadata[j] # None /\ <<j, i>> \in SameIdentity
      BY DEF Candidates, Known, Same
    <3>2. Unit[j] = Unit[i]
      BY <3>1, IdentityAssumption
    <3>3. metadata[j].paired => Unit[j] \in G
      BY <3>1 DEF FlagsSound, RecordsSound, PairedSound
    <3>4. item'.id = j /\ item'.rec.paired = (p \/ metadata[j].paired)
      BY <2>3
    <3>. QED
      BY <2>1, <3>2, <3>3, <3>4
  <2>. QED
    BY <2>2, <2>3 DEF Reconcile
<1>4. CopiesSound(G)'
  BY <1>1, <1>3 DEF IInv, TypeOK, FlagsSound, CopiesSound, PairedSound, OnlineSound, history
<1>. QED
  BY <1>2, <1>4 DEF FlagsSound

\* The flags a registered record ends up with are its own, the known
\* record's, or those of another record of the same device.
LEMMA RegisterSound ==
    ASSUME IInv, NEW G, FlagsSound(G), NEW c \in Client, Register(c)
    PROVE  FlagsSound(G)'
<1> DEFINE i == item.id
           rec == Registered(i, item.rec)
<1>1. pc[c] = "scan_register" /\ item # None /\ item \in Save /\ i \in DeviceID
  BY DEF Register, IInv, TypeOK, RequestShape, ScanLabel, Save
<1>2. rec.paired => Unit[i] \in G
  <2>1. item.rec.paired => Unit[i] \in G
    BY <1>1, ConstantsAssumption DEF FlagsSound, CopiesSound, PairedSound, Save
  <2>2. metadata[i] # None /\ metadata[i].paired => Unit[i] \in G
    BY <1>1 DEF FlagsSound, RecordsSound, PairedSound
  <2>3. ASSUME NEW j \in Twins(i), metadata[j].paired
        PROVE  Unit[i] \in G
    <3>1. j \in DeviceID /\ metadata[j] # None /\ <<j, i>> \in SameIdentity
      BY DEF Twins, Known, Same
    <3>2. Unit[j] = Unit[i]
      BY <3>1, IdentityAssumption
    <3>. QED
      BY <2>3, <3>1, <3>2 DEF FlagsSound, RecordsSound, PairedSound
  <2>. QED
    BY <2>1, <2>2, <2>3 DEF Registered
<1> HIDE DEF rec
<1>3. /\ metadata' = [metadata EXCEPT ![i] = rec]
      /\ sighted' = sighted \cup {i}
      /\ pending' = [pending EXCEPT ![c] = {[id |-> i, rec |-> rec]}]
      /\ item' = None
      /\ pc' = [pc EXCEPT ![c] = "scan_save"]
      /\ UNCHANGED <<store, target, snapshot>>
  <2>1. /\ metadata' = [metadata EXCEPT ![i] = rec] /\ ToSave(c, {i})
        /\ sighted' = sighted \cup {i} /\ item' = None
        /\ pc' = [pc EXCEPT ![c] = "scan_save"]
        /\ UNCHANGED <<store, target, snapshot>>
    BY DEF Register, Goto, rec
  <2>2. metadata'[i] = rec
    BY <1>1, <2>1 DEF IInv, TypeOK, Inventory
  <2>. QED
    BY <2>1, <2>2 DEF ToSave
<1>4. RecordsSound(G)'
  BY <1>1, <1>2, <1>3
     DEF IInv, TypeOK, Inventory, FlagsSound, RecordsSound, PairedSound, OnlineSound
<1>5. AdaptersSound(G)'
  <2>1. ASSUME NEW j \in DeviceID, NEW s \in Slot
        PROVE  adapters'[j][s] \in {adapters[j][s], None} \/ (j = i /\ adapters'[j][s] = rec)
    <3>1. CASE Supports(i, rec)
      <4>1. PICK r \in Slot :
              adapters' = Collect([adapters EXCEPT ![i][r] = rec], devices', slot, target)
        BY <3>1 DEF Register, rec
      <4> DEFINE new == [adapters EXCEPT ![i][r] = rec]
      <4>2. new[j][s] = adapters[j][s] \/ (j = i /\ new[j][s] = rec)
        BY <1>1 DEF IInv, TypeOK
      <4> HIDE DEF new
      <4>3. adapters'[j][s] \in {new[j][s], None}
        BY <4>1, CollectValue DEF new
      <4>. QED
        BY <4>2, <4>3
    <3>2. CASE ~Supports(i, rec)
      BY <3>2 DEF Register, Unsupported, rec
    <3>. QED
      BY <3>1, <3>2
  <2>. QED
    BY <1>2, <1>3, <2>1 DEF FlagsSound, AdaptersSound, PairedSound, OnlineSound
<1>6. CopiesSound(G)'
  BY <1>1, <1>2, <1>3
     DEF IInv, TypeOK, FlagsSound, CopiesSound, PairedSound, OnlineSound
<1>. QED
  BY <1>4, <1>5, <1>6 DEF FlagsSound

LEMMA MarkUnseenSound ==
    ASSUME IInv, NEW G, FlagsSound(G), NEW c \in Client, MarkUnseen(c)
    PROVE  FlagsSound(G)'
<1> DEFINE stale == {i \in Known \ seen : metadata[i].online}
<1>1. ASSUME NEW i \in DeviceID
      PROVE  PairedSound(G, i, metadata'[i]) /\ OnlineSound(i, metadata'[i])
  <2>1. CASE i \in stale
    <3>1. metadata[i] \in Record
      BY <2>1 DEF Known, IInv, TypeOK, Inventory
    <3>2. metadata'[i] = [metadata[i] EXCEPT !.online = FALSE]
      BY <2>1 DEF MarkUnseen
    <3>3. metadata'[i].paired = metadata[i].paired /\ metadata'[i].online = FALSE
      BY <3>1, <3>2 DEF Record
    <3>4. metadata[i] # None
      BY <2>1 DEF Known
    <3>. QED
      BY <3>3, <3>4 DEF FlagsSound, RecordsSound, PairedSound, OnlineSound
  <2>2. CASE i \notin stale
    BY <2>2 DEF MarkUnseen, FlagsSound, RecordsSound
  <2>. QED
    BY <2>1, <2>2
<1>2. sighted' = sighted /\ UNCHANGED <<adapters, store, item, target, snapshot>>
  BY DEF MarkUnseen, scan, history
<1>3. RecordsSound(G)'
  BY <1>1, <1>2 DEF FlagsSound, RecordsSound, PairedSound, OnlineSound
<1>4. AdaptersSound(G)'
  BY <1>2 DEF FlagsSound, AdaptersSound, PairedSound, OnlineSound
<1>5. CopiesSound(G)'
  <2>1. pending' = [pending EXCEPT ![c] = {[id |-> i, rec |-> metadata'[i]] : i \in stale}]
        /\ \E l \in {"scan_end", "scan_stale"} : pc' = [pc EXCEPT ![c] = l]
    BY DEF MarkUnseen, ToSave, Goto
  <2>2. \A s \in {[id |-> i, rec |-> metadata'[i]] : i \in stale} : PairedSound(G, s.id, s.rec)
    BY <1>1 DEF Known
  <2>3. \A d \in Client : \A s \in pending'[d] : PairedSound(G, s.id, s.rec)
    BY <2>1, <2>2 DEF IInv, TypeOK, FlagsSound, CopiesSound
  <2>4. \A d \in Client : pc'[d] = "pair_snap" => pc[d] = "pair_snap"
    BY <2>1 DEF IInv, TypeOK
  <2>. QED
    BY <1>2, <2>3, <2>4 DEF FlagsSound, CopiesSound, PairedSound, OnlineSound
<1>. QED
  BY <1>3, <1>4, <1>5 DEF FlagsSound

LEMMA SaveDeviceSound ==
    ASSUME IInv, NEW G, FlagsSound(G), NEW c \in Client, NEW s \in pending[c], SaveDevice(c, s)
    PROVE  FlagsSound(G)'
<1>1. s \in Save /\ PairedSound(G, s.id, s.rec)
  BY DEF IInv, TypeOK, FlagsSound, CopiesSound
<1>2. UNCHANGED <<inventory, item, target, snapshot, sighted>>
  BY DEF SaveDevice, scan
<1>3. RecordsSound(G)'
  BY <1>1, <1>2 DEF SaveDevice, Upsert, IInv, TypeOK, Inventory, FlagsSound, RecordsSound,
                    PairedSound, OnlineSound, inventory, history
<1>4. AdaptersSound(G)'
  BY <1>2 DEF FlagsSound, AdaptersSound, PairedSound, OnlineSound, inventory, history
<1>5. CopiesSound(G)'
  <2>1. \A d \in Client : pending'[d] \subseteq pending[d]
    BY DEF SaveDevice, IInv, TypeOK
  <2>2. \A d \in Client : pc'[d] = "pair_snap" => pc[d] = "pair_snap"
    <3>1. back[c] # "pair_snap" /\ pc[c] # "pair_snap"
      BY DEF SaveDevice, IInv, TypeOK, ResumeLabel
    <3>2. AfterSaves(c, pc[c]) # "pair_snap"
      BY <3>1 DEF SaveDevice, AfterSaves
    <3>. QED
      BY <3>2 DEF SaveDevice, IInv, TypeOK
  <2>. QED
    BY <1>2, <2>1, <2>2 DEF FlagsSound, CopiesSound, PairedSound, OnlineSound, history
<1>. QED
  BY <1>3, <1>4, <1>5 DEF FlagsSound

\* An accepted prompt is the only step that grants a device, and the only
\* adapter call that sets the flag.
LEMMA AttemptSound ==
    ASSUME IInv, NEW G, FlagsSound(G), NEW c \in Client,
           PairAttempt(c) \/ UnpairAttempt(c) \/ ExecuteAttempt(c) \/ StateAttempt(c),
           Prompted(c, Unit[target[c]]) /\ Unit[target[c]] \in granted'
               => Unit[target[c]] \in G
    PROVE  FlagsSound(G)'
<1>1. Calls(c)
  BY DEF PairAttempt, UnpairAttempt, ExecuteAttempt, StateAttempt
<1>2. slot[c] # None /\ slot[c] \in Slot /\ target[c] \in DeviceID
      /\ adapters[target[c]][slot[c]] \in Record
  <2>1. slot[c] # None
    BY DEF PairAttempt, UnpairAttempt, ExecuteAttempt, StateAttempt, IInv,
           NoDanglingAdapter, AdapterLabel
  <2>. QED
    BY <2>1, ConstantsAssumption DEF IInv, TypeOK, NoDanglingAdapter
<1>0. /\ PairAttempt(c) /\ outcome'[c] \in {"ok", "failed"}
      /\ granted' = granted \cup {Unit[target[c]]}
      => Unit[target[c]] \in G
  BY DEF PairAttempt, Prompted
<1>3. \/ UNCHANGED adapters
      \/ SetPaired(c, FALSE)
      \/ SetPaired(c, TRUE) /\ Unit[target[c]] \in G
  <2>1. \A o : outcome' = [outcome EXCEPT ![c] = o] => outcome'[c] = o
    BY DEF IInv, TypeOK
  <2>. QED
    BY <1>0, <2>1
       DEF PairAttempt, UnpairAttempt, ExecuteAttempt, StateAttempt, Unreachable
<1>4. \E l \in Label : /\ pc' = [pc EXCEPT ![c] = l]
                       /\ l = "pair_snap" => Unit[target[c]] \in G
  <2>1. CASE PairAttempt(c)
    <3>1. CASE Unreachable(c, "returning")
      BY <3>1 DEF Unreachable, StartScan, Proceed, Goto, Label
    <3>2. \A o : outcome' = [outcome EXCEPT ![c] = o] => outcome'[c] = o
      BY DEF IInv, TypeOK
    <3>. QED
      BY <1>0, <2>1, <3>1, <3>2 DEF PairAttempt, Proceed, Goto, Label
  <2>2. CASE UnpairAttempt(c) \/ ExecuteAttempt(c) \/ StateAttempt(c)
    BY <2>2 DEF UnpairAttempt, ExecuteAttempt, StateAttempt, Unreachable, StartScan,
                Proceed, Goto, Label
  <2>. QED
    BY <2>1, <2>2
<1>5. RecordsSound(G)'
  BY <1>1, <1>3 DEF Calls, FlagsSound, RecordsSound, PairedSound, OnlineSound
<1>6. AdaptersSound(G)'
  <2>1. CASE UNCHANGED adapters
    BY <1>1, <1>3, <2>1 DEF Calls, FlagsSound, AdaptersSound, PairedSound, OnlineSound
  <2>2. CASE /\ target[c] \notin Roku
             /\ \E p \in BOOLEAN : SetPaired(c, p) /\ (p => Unit[target[c]] \in G)
    <3>1. PICK p \in BOOLEAN : SetPaired(c, p) /\ (p => Unit[target[c]] \in G)
      BY <2>2
    <3> DEFINE t == target[c]
               new == [adapters[t][slot[c]] EXCEPT !.paired = p]
    <3>2. adapters' = [adapters EXCEPT ![t] = [adapters[t] EXCEPT ![slot[c]] = new]]
      BY <2>2, <3>1 DEF SetPaired
    <3>3. new.paired = p /\ new.online = adapters[t][slot[c]].online
      BY <1>2 DEF Record
    <3>4. adapters[t][slot[c]] # None
      BY <1>2, ConstantsAssumption
    <3> HIDE DEF new
    <3>5. ASSUME NEW i \in DeviceID, NEW s \in Slot
          PROVE  /\ adapters'[i][s] # None /\ adapters'[i][s].paired => Unit[i] \in G
                 /\ adapters'[i][s] # None /\ adapters'[i][s].online => i \in sighted
      <4>1. CASE i = t /\ s = slot[c]
        <5>1. adapters'[i][s] = new
          BY <1>2, <3>2, <4>1 DEF IInv, TypeOK
        <5>2. adapters[t][slot[c]].online => t \in sighted
          BY <1>2, <3>4 DEF FlagsSound, AdaptersSound, OnlineSound
        <5>3. adapters[t][slot[c]].online \in BOOLEAN
          BY <1>2 DEF Record
        <5>. QED
          BY <3>1, <3>3, <4>1, <5>1, <5>2, <5>3
      <4>2. CASE ~(i = t /\ s = slot[c])
        <5>1. adapters'[i][s] = adapters[i][s]
          BY <1>2, <3>2, <4>2 DEF IInv, TypeOK
        <5>. QED
          BY <1>3, <5>1 DEF FlagsSound, AdaptersSound, PairedSound, OnlineSound
      <4>. QED
        BY <4>1, <4>2
    <3>. QED
      BY <1>1, <3>5 DEF Calls, AdaptersSound, PairedSound, OnlineSound
  <2>3. target[c] \in Roku => UNCHANGED adapters
    BY <1>3 DEF SetPaired
  <2>. QED
    BY <1>3, <2>1, <2>2, <2>3
<1>7. CopiesSound(G)'
  <2>1. \A d \in Client : pc'[d] = "pair_snap" => Unit[target[d]] \in G
    BY <1>3, <1>4 DEF IInv, TypeOK, FlagsSound, CopiesSound
  <2>. QED
    BY <1>1, <1>3, <2>1 DEF Calls, scan, FlagsSound, CopiesSound, PairedSound, OnlineSound
<1>. QED
  BY <1>5, <1>6, <1>7 DEF FlagsSound

LEMMA SnapSound ==
    ASSUME IInv, NEW G, FlagsSound(G), NEW c \in Client, Snap(c)
    PROVE  FlagsSound(G)'
<1> DEFINE t == target[c]
           md == adapters[t][slot[c]]
<1>1. slot[c] \in Slot /\ t # None /\ t \in DeviceID /\ md \in Record /\ md # None
  BY ConstantsAssumption DEF Snap, IInv, TypeOK, NoDanglingAdapter, AdapterLabel
<1>2. PairedSound(G, t, md) /\ OnlineSound(t, md)
  BY <1>1 DEF FlagsSound, AdaptersSound
<1>3. PICK r : /\ snapshot' = [snapshot EXCEPT ![c] = r]
               /\ PairedSound(G, t, r) /\ OnlineSound(t, r)
  <2>1. CASE pc[c] = "pair_snap"
    <3>1. Unit[t] \in G
      BY <2>1 DEF FlagsSound, CopiesSound
    <3>2. [md EXCEPT !.paired = TRUE].online = md.online
      BY <1>1 DEF Record
    <3>. QED
      BY <1>1, <1>2, <2>1, <3>1, <3>2 DEF Snap, PairedSound, OnlineSound
  <2>2. CASE pc[c] = "unpair_snap"
    <3>1. [md EXCEPT !.paired = FALSE].online = md.online
          /\ [md EXCEPT !.paired = FALSE].paired = FALSE
      BY <1>1 DEF Record
    <3>. QED
      BY <1>1, <1>2, <2>2, <3>1 DEF Snap, PairedSound, OnlineSound
  <2>3. CASE pc[c] = "exec_snap"
    BY <1>2, <2>3 DEF Snap
  <2>. QED
    BY <2>1, <2>2, <2>3 DEF Snap
<1>4. UNCHANGED <<inventory, store, item, target, pending, history>>
      /\ pc' = [pc EXCEPT ![c] = "commit"]
  BY DEF Snap, Goto, scan
<1>5. RecordsSound(G)' /\ AdaptersSound(G)'
  BY <1>4 DEF FlagsSound, RecordsSound, AdaptersSound, PairedSound, OnlineSound, inventory,
              history
<1>6. CopiesSound(G)'
  BY <1>1, <1>3, <1>4 DEF IInv, TypeOK, FlagsSound, CopiesSound, PairedSound, OnlineSound,
                          history
<1>. QED
  BY <1>5, <1>6 DEF FlagsSound

\* The copy a request writes back is of its own device, and the records that
\* take over its flag are of the same device.
LEMMA SetPairingStateSound ==
    ASSUME IInv, NEW G, FlagsSound(G), NEW c \in Client, SetPairingState(c)
    PROVE  FlagsSound(G)'
<1> DEFINE t == target[c]
           md == snapshot[c]
           own == IF md.alias = NoAlias /\ metadata[t] # None
                  THEN [md EXCEPT !.alias = metadata[t].alias] ELSE md
<1>1. pc[c] = "commit" /\ t \in DeviceID /\ md \in Record /\ md # None
  BY ConstantsAssumption DEF SetPairingState, IInv, TypeOK, RequestShape
<1>2. PairedSound(G, t, md) /\ OnlineSound(t, md)
  BY <1>1 DEF FlagsSound, CopiesSound
<1>3. own.paired = md.paired /\ own.online = md.online
  BY <1>1 DEF Record
<1>4. metadata' = [j \in DeviceID |->
                     CASE j = t          -> own
                       [] j \in Twins(t) -> [metadata[j] EXCEPT !.paired = md.paired]
                       [] OTHER          -> metadata[j]]
  BY DEF SetPairingState
<1>5. UNCHANGED <<devices, adapters, store, item, target, snapshot, sighted>>
      /\ pc' = [pc EXCEPT ![c] = "commit_save"]
  BY DEF SetPairingState, Goto, scan
<1> HIDE DEF own
<1>6. ASSUME NEW j \in DeviceID
      PROVE  PairedSound(G, j, metadata'[j]) /\ OnlineSound(j, metadata'[j])
  <2>1. CASE j = t
    <3>1. metadata'[j] = own
      BY <1>4, <2>1 DEF Twins
    <3>. QED
      BY <1>1, <1>2, <1>3, <2>1, <3>1 DEF PairedSound, OnlineSound, Record
  <2>2. CASE j # t /\ j \in Twins(t)
    <3>1. metadata[j] \in Record /\ metadata[j] # None /\ <<j, t>> \in SameIdentity
      BY <2>2, ConstantsAssumption DEF Twins, Known, Same, IInv, TypeOK, Inventory
    <3>2. Unit[j] = Unit[t]
      BY <3>1, IdentityAssumption
    <3>3. metadata'[j] = [metadata[j] EXCEPT !.paired = md.paired]
      BY <1>4, <2>2
    <3>4. metadata'[j].paired = md.paired /\ metadata'[j].online = metadata[j].online
      BY <3>1, <3>3 DEF Record
    <3>5. metadata[j].online => j \in sighted
      BY <3>1 DEF FlagsSound, RecordsSound, OnlineSound
    <3>. QED
      BY <1>1, <1>2, <3>1, <3>2, <3>4, <3>5 DEF PairedSound, OnlineSound, Record
  <2>3. CASE j # t /\ j \notin Twins(t)
    <3>1. metadata'[j] = metadata[j]
      BY <1>4, <2>3
    <3>. QED
      BY <3>1 DEF FlagsSound, RecordsSound
  <2>. QED
    BY <2>1, <2>2, <2>3
<1>7. RecordsSound(G)'
  BY <1>5, <1>6 DEF FlagsSound, RecordsSound, PairedSound, OnlineSound, history
<1>8. AdaptersSound(G)'
  BY <1>5 DEF FlagsSound, AdaptersSound, PairedSound, OnlineSound, history
<1>9. CopiesSound(G)'
  <2> DEFINE saves == {[id |-> j, rec |-> metadata'[j]] : j \in Twins(t) \cup {t}}
  <2>1. pending' = [pending EXCEPT ![c] = saves]
    BY DEF SetPairingState, ToSave
  <2>2. \A s \in saves : PairedSound(G, s.id, s.rec)
    BY <1>1, <1>6 DEF Twins, Known
  <2>3. \A d \in Client : \A s \in pending'[d] : PairedSound(G, s.id, s.rec)
    BY <2>1, <2>2 DEF IInv, TypeOK, FlagsSound, CopiesSound
  <2>4. \A d \in Client : pc'[d] = "pair_snap" => pc[d] = "pair_snap"
    BY <1>5 DEF IInv, TypeOK
  <2>. QED
    BY <1>5, <2>3, <2>4 DEF FlagsSound, CopiesSound, PairedSound, OnlineSound, history
<1>. QED
  BY <1>7, <1>8, <1>9 DEF FlagsSound

LEMMA RenameSound ==
    ASSUME IInv, NEW G, FlagsSound(G), NEW c \in Client, NEW a \in Alias, Rename(c, a)
    PROVE  FlagsSound(G)'
<1> DEFINE t == target[c]
<1>1. UNCHANGED <<devices, adapters, store, item, target, snapshot, sighted>>
      /\ \E l \in {"returning", "commit_save"} : pc' = [pc EXCEPT ![c] = l]
  BY DEF Rename, Goto, scan
<1>2. ASSUME NEW j \in DeviceID
      PROVE  PairedSound(G, j, metadata'[j]) /\ OnlineSound(j, metadata'[j])
  <2>1. CASE metadata'[j] = metadata[j]
    BY <2>1 DEF FlagsSound, RecordsSound
  <2>2. CASE metadata'[j] # metadata[j]
    <3>1. t \in Known /\ metadata' = [metadata EXCEPT ![t].alias = a]
      BY <2>2 DEF Rename
    <3>2. metadata[t] \in Record /\ metadata[t] # None /\ t \in DeviceID
      BY <3>1 DEF Known, IInv, TypeOK, Inventory
    <3>3. j = t /\ metadata'[j] = [metadata[t] EXCEPT !.alias = a]
      BY <2>2, <3>1 DEF IInv, TypeOK, Inventory
    <3>4. metadata'[j].paired = metadata[j].paired /\ metadata'[j].online = metadata[j].online
      BY <3>2, <3>3 DEF Record
    <3>. QED
      BY <3>2, <3>3, <3>4 DEF FlagsSound, RecordsSound, PairedSound, OnlineSound, Record
  <2>. QED
    BY <2>1, <2>2
<1>3. RecordsSound(G)'
  BY <1>1, <1>2 DEF FlagsSound, RecordsSound, PairedSound, OnlineSound, history
<1>4. AdaptersSound(G)'
  BY <1>1 DEF FlagsSound, AdaptersSound, PairedSound, OnlineSound, history
<1>5. CopiesSound(G)'
  <2>1. \A d \in Client : \A s \in pending'[d] : PairedSound(G, s.id, s.rec)
    <3>1. CASE UNCHANGED pending
      BY <3>1 DEF FlagsSound, CopiesSound
    <3>2. CASE t \in Known /\ pending' = [pending EXCEPT ![c] = {[id |-> t, rec |-> metadata'[t]]}]
      BY <1>2, <3>2 DEF IInv, TypeOK, FlagsSound, CopiesSound, Known
    <3>. QED
      BY <3>1, <3>2 DEF Rename, ToSave
  <2>2. \A d \in Client : pc'[d] = "pair_snap" => pc[d] = "pair_snap"
    BY <1>1 DEF IInv, TypeOK
  <2>. QED
    BY <1>1, <2>1, <2>2 DEF FlagsSound, CopiesSound, PairedSound, OnlineSound, history
<1>. QED
  BY <1>3, <1>4, <1>5 DEF FlagsSound

LEMMA StutterSound ==
    ASSUME NEW G, FlagsSound(G), UNCHANGED vars
    PROVE  FlagsSound(G)'
  BY DEF FlagsSound, RecordsSound, AdaptersSound, CopiesSound, PairedSound, OnlineSound,
         vars, inventory, scan, client, history

\* A step keeps every copy in G unless a prompt takes its device out of it.
LEMMA NextSound ==
    ASSUME IInv, NEW G, FlagsSound(G), RokuUnits \subseteq G, [Next]_vars,
           \A c \in Client, u \in granted' : Prompted(c, u) => u \in G
    PROVE  FlagsSound(G)'
<1>1. ASSUME NEW c \in Client, Step(c)
      PROVE  FlagsSound(G)'
  BY <1>1, RequestSound, ReadsSound, ReturnSound, ReconcileSound, RegisterSound,
     MarkUnseenSound, SaveDeviceSound, AttemptSound, SnapSound, SetPairingStateSound,
     RenameSound
     DEF Step
<1>. QED
  BY <1>1, RestartSound, RequestSound, StutterSound DEF Next

\* What is granted stays so, and what a prompt may have paired is granted.
LEMMA GrantedGrows ==
    ASSUME IInv, [Next]_vars
    PROVE  Allowed \subseteq Allowed'
<1>1. granted \subseteq granted'
  <2>1. ASSUME NEW c \in Client, Step(c)
        PROVE  granted \subseteq granted'
    BY <2>1 DEF Step, Return, ScanLock, Reconcile, Register, MarkUnseen, ScanEnd,
       SaveDevice, PairLookup, PairMissing, PairVerify, PairAttempt, PairRelookup,
       UnpairLookup, UnpairAttempt, ExecuteLookup, WakeRefresh, ExecuteAttempt,
       ExecuteRelookup, ExecuteAudit, Snap, SetPairingState, StateLookup, StateAttempt,
       StateRelookup, Rename, Reads, history
  <2>. QED
    BY <2>1 DEF Next, NewRequest, Begin, Restart, vars, history
<1>. QED
  BY <1>1 DEF Allowed

\* Every copy of a record, wherever it is, carries only pairings that were
\* granted and sightings of this daemon.
THEOREM FlagsAreSound == Spec => []FlagsSound(Allowed)
<1>1. Init => FlagsSound(Allowed)
  BY InitSound
<1>2. ASSUME IInv, FlagsSound(Allowed), [Next]_vars
      PROVE  FlagsSound(Allowed)'
  <2>1. PICK G : G = Allowed'
    OBVIOUS
  <2>2. Allowed \subseteq G /\ RokuUnits \subseteq G /\ granted' \subseteq G
    BY <1>2, <2>1, GrantedGrows DEF Allowed, RokuUnits
  <2>3. FlagsSound(G)
    BY <1>2, <2>2
       DEF FlagsSound, RecordsSound, AdaptersSound, CopiesSound, PairedSound, OnlineSound
  <2>4. FlagsSound(G)'
    BY <1>2, <2>2, <2>3, NextSound
  <2>. QED
    BY <2>1, <2>4
       DEF FlagsSound, RecordsSound, AdaptersSound, CopiesSound, PairedSound, OnlineSound
<1>3. IInv /\ FlagsSound(Allowed) /\ [Next]_vars => FlagsSound(Allowed)'
  BY <1>2
<1>. QED
  BY <1>1, <1>3, Invariance, PTL DEF Spec

\* Pairing never spreads: for every number of clients, devices, duplicates
\* and interleavings, a record is paired only if its device was granted.
THEOREM PairingNeverSpreads == Spec => []PairingProvenance
<1>1. FlagsSound(Allowed) => PairingProvenance
  BY DEF FlagsSound, RecordsSound, PairedSound, PairingProvenance, Known
<1>. QED
  BY FlagsAreSound, <1>1, PTL

\* A device is reported online only after a scan of this daemon saw it,
\* whatever is restored from SQLite or written back from an adapter.
THEOREM OnlineIsSighted == Spec => []OnlineMeansSighted
<1>1. FlagsSound(Allowed) => OnlineMeansSighted
  BY DEF FlagsSound, RecordsSound, OnlineSound, OnlineMeansSighted, Known
<1>. QED
  BY FlagsAreSound, <1>1, PTL

\* What PairingNeedsPrompt says of one step.
NeedsPrompt ==
    \A u \in {Unit[i] : i \in DeviceID} \ {Unit[i] : i \in Roku} :
        ~Remembered(u) /\ Remembered(u)' => \E c \in Client : Prompted(c, u)

\* Nothing remembers a pairing of u just when every copy is sound for the
\* other units.
LEMMA ForgottenSound ==
    ASSUME IInv, FlagsSound(Allowed), NEW u, ~Remembered(u),
           NEW G, G = {Unit[i] : i \in DeviceID} \ {u}
    PROVE  FlagsSound(G)
<1>1. RecordsSound(G)
  BY DEF Remembered, Says, FlagsSound, RecordsSound, PairedSound
<1>2. AdaptersSound(G)
  BY DEF Remembered, Says, FlagsSound, AdaptersSound, PairedSound
<1>3. CopiesSound(G)
  <2>1. item # None => PairedSound(G, item.id, item.rec)
    BY DEF Remembered, PairedSound, IInv, TypeOK, Save
  <2>2. ASSUME NEW c \in Client, snapshot[c] # None
        PROVE  /\ target[c] # None
               /\ PairedSound(G, target[c], snapshot[c])
               /\ OnlineSound(target[c], snapshot[c])
    <3>1. target[c] # None /\ target[c] \in DeviceID /\ OnlineSound(target[c], snapshot[c])
      BY <2>2 DEF FlagsSound, CopiesSound, IInv, TypeOK
    <3>. QED
      BY <2>2, <3>1 DEF Remembered, Says, PairedSound
  <2>3. ASSUME NEW c \in Client, NEW s \in pending[c]
        PROVE  PairedSound(G, s.id, s.rec)
    <3>1. s.id \in DeviceID
      BY DEF IInv, TypeOK, Save
    <3>. QED
      BY <3>1 DEF Remembered, PairedSound
  <2>4. ASSUME NEW c \in Client, pc[c] = "pair_snap"
        PROVE  Unit[target[c]] \in G
    <3>1. target[c] \in DeviceID
      BY <2>4 DEF IInv, TypeOK, RequestShape
    <3>. QED
      BY <2>4, <3>1 DEF Remembered
  <2>. QED
    BY <2>1, <2>2, <2>3, <2>4 DEF CopiesSound
<1>. QED
  BY <1>1, <1>2, <1>3 DEF FlagsSound

LEMMA SoundForgotten ==
    ASSUME IInv, NEW u, NEW G, u \notin G, FlagsSound(G)
    PROVE  ~Remembered(u)
<1> SUFFICES ASSUME NEW i \in DeviceID, Unit[i] = u
             PROVE  /\ ~Says(metadata[i]) /\ ~Says(store[i])
                    /\ \A s \in Slot : ~Says(adapters[i][s])
                    /\ ~(item # None /\ item.id = i /\ item.rec.paired)
                    /\ \A c \in Client : target[c] = i
                          => pc[c] # "pair_snap" /\ ~Says(snapshot[c])
                    /\ \A c \in Client : \A s \in pending[c] :
                          ~(s.id = i /\ s.rec.paired)
  BY DEF Remembered
<1>1. ~Says(metadata[i]) /\ ~Says(store[i])
  BY DEF FlagsSound, RecordsSound, PairedSound, Says
<1>2. \A s \in Slot : ~Says(adapters[i][s])
  BY DEF FlagsSound, AdaptersSound, PairedSound, Says
<1>3. ~(item # None /\ item.id = i /\ item.rec.paired)
  BY ConstantsAssumption DEF FlagsSound, CopiesSound, PairedSound, IInv, TypeOK, Save
<1>4. \A c \in Client : target[c] = i => pc[c] # "pair_snap" /\ ~Says(snapshot[c])
  BY DEF FlagsSound, CopiesSound, PairedSound, Says
<1>5. \A c \in Client : \A s \in pending[c] : ~(s.id = i /\ s.rec.paired)
  <2>1. \A c \in Client : \A s \in pending[c] : s.rec # None
    BY ConstantsAssumption DEF IInv, TypeOK, Save
  <2>. QED
    BY <2>1 DEF FlagsSound, CopiesSound, PairedSound
<1>. QED
  BY <1>1, <1>2, <1>3, <1>4, <1>5

Forgets == \A u, G : u \notin G /\ FlagsSound(G) => ~Remembered(u)

LEMMA SoundForgets == IInv => Forgets
  BY SoundForgotten DEF Forgets

\* Once nothing says that a device is paired, only the answer to a prompt of
\* its own makes it so: for any clients, devices and duplicates, failing
\* saves, crashes and interleavings.
THEOREM PairingIsAskedFor == Spec => PairingNeedsPrompt
<1>0. IInv' => Forgets'
  BY SoundForgets, PTL
<1>1. ASSUME IInv, IInv', FlagsSound(Allowed), [Next]_vars,
             NEW u \in {Unit[i] : i \in DeviceID} \ {Unit[i] : i \in Roku},
             ~Remembered(u), \A c \in Client : ~Prompted(c, u)
      PROVE  ~Remembered(u)'
  <2>1. PICK G : G = {Unit[i] : i \in DeviceID} \ {u}
    OBVIOUS
  <2>2. FlagsSound(G)
    BY <1>1, <2>1, ForgottenSound
  <2>3. RokuUnits \subseteq G
    BY <1>1, <2>1, ConstantsAssumption DEF RokuUnits
  <2>4. ASSUME NEW c \in Client, NEW v, Prompted(c, v)
        PROVE  v \in G
    <3>1. target[c] \in DeviceID /\ v = Unit[target[c]]
      BY <1>1, <2>4 DEF Prompted, IInv, TypeOK, RequestShape
    <3>. QED
      BY <1>1, <2>1, <2>4, <3>1
  <2>5. FlagsSound(G)'
    BY <1>1, <2>2, <2>3, <2>4, NextSound
  <2>. QED
    BY <1>0, <1>1, <2>1, <2>5 DEF Forgets
<1>2. IInv /\ IInv' /\ FlagsSound(Allowed) /\ [Next]_vars => [NeedsPrompt]_vars
  BY <1>1 DEF NeedsPrompt
<1>3. Spec => [][NeedsPrompt]_vars
  BY <1>2, Invariance, FlagsAreSound, PTL DEF Spec
<1>. QED
  BY <1>3, PTL DEF PairingNeedsPrompt, NeedsPrompt

-----------------------------------------------------------------------------
(* Rows.  A record whose row is not doubtful is either saved or about to    *)
(* be, by one request, as it is.                                           *)

SaveLabel == {"scan_save", "scan_stale", "commit_save"}

RowKept(i) ==
    /\ \A c, d \in Client : \A s \in pending[c], r \in pending[d] :
          s.id = i /\ r.id = i => c = d
    /\ \A c \in Client : \A s \in pending[c] : s.id = i => s.rec = metadata[i]
    /\ \/ \E c \in Client : \E s \in pending[c] : s.id = i
       \/ Reload(store[i]) = Reload(metadata[i])

RowsKept ==
    /\ \A c \in Client : pending[c] # {} => pc[c] \in SaveLabel
    /\ \A i \in DeviceID \ doubtful : RowKept(i)

\* A step that writes no record and makes no save.
LEMMA MovesKept ==
    ASSUME IInv, RowsKept, NEW c \in Client, pc[c] \notin SaveLabel,
           NEW l \in Label, pc' = [pc EXCEPT ![c] = l],
           UNCHANGED <<metadata, store, pending, doubtful>>
    PROVE  RowsKept'
<1>1. pending[c] = {}
  BY DEF RowsKept
<1>2. \A d \in Client : pending'[d] # {} => pc'[d] \in SaveLabel
  BY <1>1 DEF RowsKept, IInv, TypeOK
<1>3. \A i \in DeviceID \ doubtful' : RowKept(i)'
  BY DEF RowsKept, RowKept, Reload
<1>. QED
  BY <1>2, <1>3 DEF RowsKept

\* A step that changes records sets each of them aside to be saved.
LEMMA WritesKept ==
    ASSUME IInv, RowsKept, NEW c \in Client, pc[c] \notin SaveLabel,
           NEW ids \in SUBSET DeviceID, ToSave(c, ids),
           NEW l \in Label, pc' = [pc EXCEPT ![c] = l], l \in SaveLabel \/ ids = {},
           UNCHANGED store,
           \A i \in DeviceID \ ids : metadata'[i] = metadata[i]
    PROVE  RowsKept'
<1> DEFINE saves == {[id |-> i, rec |-> metadata'[i]] : i \in ids}
<1>1. pending[c] = {}
  BY DEF RowsKept
<1>2. /\ pending'[c] = saves
      /\ \A d \in Client \ {c} : pending'[d] = pending[d] /\ pc'[d] = pc[d]
      /\ pc'[c] = l
  BY DEF ToSave, IInv, TypeOK
<1>3. \A s \in saves : s.id \in ids /\ s.rec = metadata'[s.id]
  OBVIOUS
<1>4. ASSUME NEW i \in ids
      PROVE  \E s \in saves : s.id = i
  <2>. WITNESS [id |-> i, rec |-> metadata'[i]] \in saves
  <2>. QED
    OBVIOUS
<1>5. ids = {} => saves = {}
  OBVIOUS
<1> HIDE DEF saves
<1>6. \A d \in Client : pending'[d] # {} => pc'[d] \in SaveLabel
  BY <1>2, <1>5 DEF RowsKept
<1>7. ASSUME NEW i \in DeviceID, i \notin doubtful'
      PROVE  RowKept(i)'
  <2>1. CASE i \in ids
    <3>1. \A d \in Client \ {c} : \A s \in pending[d] : s.id # i
      BY <1>7, <2>1 DEF ToSave
    <3>2. \A d \in Client : \A s \in pending'[d] : s.id = i => d = c /\ s \in saves
      BY <1>2, <3>1
    <3>3. \A d \in Client : \A s \in pending'[d] : s.id = i => s.rec = metadata'[i]
      BY <1>3, <3>2
    <3>4. \E d \in Client : \E s \in pending'[d] : s.id = i
      BY <1>2, <1>4, <2>1
    <3>. QED
      BY <3>2, <3>3, <3>4 DEF RowKept
  <2>2. CASE i \notin ids
    <3>1. i \notin doubtful
      BY <1>7, <2>2 DEF ToSave
    <3>2. RowKept(i)
      BY <3>1 DEF RowsKept
    <3>3. \A d \in Client : \A s : s.id = i => (s \in pending'[d] <=> s \in pending[d])
      BY <1>1, <1>2, <1>3, <2>2
    <3>4. metadata'[i] = metadata[i] /\ store'[i] = store[i]
      BY <2>2
    <3>. QED
      BY <3>2, <3>3, <3>4 DEF RowKept, Reload
  <2>. QED
    BY <2>1, <2>2
<1>. QED
  BY <1>6, <1>7 DEF RowsKept

LEMMA LookupKept ==
    ASSUME IInv, RowsKept, NEW c \in Client,
           \/ PairLookup(c) \/ UnpairLookup(c) \/ ExecuteLookup(c) \/ StateLookup(c)
           \/ PairMissing(c) \/ PairVerify(c) \/ PairRelookup(c) \/ WakeRefresh(c)
           \/ ExecuteRelookup(c) \/ StateRelookup(c)
    PROVE  RowsKept'
<1>1. pc[c] \notin SaveLabel /\ UNCHANGED <<metadata, store, pending, doubtful>>
  BY DEF PairLookup, UnpairLookup, ExecuteLookup, StateLookup, PairMissing, PairVerify,
         PairRelookup, WakeRefresh, ExecuteRelookup, StateRelookup, SaveLabel, Reads,
         history
<1>2. \E l \in Label : pc' = [pc EXCEPT ![c] = l]
  BY DEF PairLookup, UnpairLookup, ExecuteLookup, StateLookup, PairMissing, PairVerify,
         PairRelookup, WakeRefresh, ExecuteRelookup, StateRelookup, Proceed, StartScan,
         Goto, Label
<1>. QED
  BY <1>1, <1>2, MovesKept

LEMMA AttemptKept ==
    ASSUME IInv, RowsKept, NEW c \in Client,
           PairAttempt(c) \/ UnpairAttempt(c) \/ ExecuteAttempt(c) \/ StateAttempt(c)
    PROVE  RowsKept'
<1>1. pc[c] \notin SaveLabel /\ UNCHANGED <<metadata, store, pending, doubtful>>
  BY DEF PairAttempt, UnpairAttempt, ExecuteAttempt, StateAttempt, SaveLabel, Calls
<1>2. \E l \in Label : pc' = [pc EXCEPT ![c] = l]
  BY DEF PairAttempt, UnpairAttempt, ExecuteAttempt, StateAttempt, Unreachable, Proceed,
         StartScan, Goto, Label
<1>. QED
  BY <1>1, <1>2, MovesKept

LEMMA RequestKept ==
    ASSUME IInv, RowsKept, NEW c \in Client,
           \/ NewRequest(c) \/ Return(c) \/ ScanLock(c) \/ ExecuteAudit(c) \/ Snap(c)
           \/ \E i \in DeviceID : \E p \in ReportedPaired(i), v \in BOOLEAN :
                 Reconcile(c, i, p, v)
           \/ \E failed \in BOOLEAN : ScanEnd(c, failed)
    PROVE  RowsKept'
<1>1. pc[c] \notin SaveLabel /\ UNCHANGED <<metadata, store, pending, doubtful>>
  BY DEF NewRequest, Begin, Return, ScanLock, ExecuteAudit, Snap, Reconcile, ScanEnd,
         SaveLabel, inventory, history
<1>2. \E l \in Label : pc' = [pc EXCEPT ![c] = l]
  <2>1. back[c] \in Label
    BY DEF IInv, TypeOK, ResumeLabel, Label
  <2>2. \A op \in Operation : EntryLabel[op] \in Label
    BY DEF Operation, EntryLabel, Label
  <2>. QED
    BY <2>1, <2>2 DEF NewRequest, Begin, Return, ScanLock, ExecuteAudit, Snap, Reconcile,
                      ScanEnd, Goto, Label
<1>. QED
  BY <1>1, <1>2, MovesKept

LEMMA RegisterKept ==
    ASSUME IInv, RowsKept, NEW c \in Client, Register(c)
    PROVE  RowsKept'
<1>1. item.id \in DeviceID
  BY DEF Register, IInv, TypeOK, RequestShape, ScanLabel, Save
<1>2. /\ ToSave(c, {item.id}) /\ UNCHANGED store
      /\ pc[c] \notin SaveLabel /\ pc' = [pc EXCEPT ![c] = "scan_save"]
  BY DEF Register, Goto, SaveLabel
<1>3. \A i \in DeviceID \ {item.id} : metadata'[i] = metadata[i]
  BY DEF Register, IInv, TypeOK, Inventory
<1>4. "scan_save" \in Label \cap SaveLabel /\ {item.id} \in SUBSET DeviceID
  BY <1>1 DEF SaveLabel, Label
<1>. QED
  BY <1>2, <1>3, <1>4, WritesKept

LEMMA MarkUnseenKept ==
    ASSUME IInv, RowsKept, NEW c \in Client, MarkUnseen(c)
    PROVE  RowsKept'
<1> DEFINE stale == {i \in Known \ seen : metadata[i].online}
<1>1. stale \in SUBSET DeviceID
  BY DEF Known
<1>2. /\ ToSave(c, stale) /\ UNCHANGED store /\ pc[c] \notin SaveLabel
      /\ pc' = [pc EXCEPT ![c] = IF stale = {} THEN "scan_end" ELSE "scan_stale"]
      /\ \A i \in DeviceID \ stale : metadata'[i] = metadata[i]
  BY DEF MarkUnseen, Goto, SaveLabel
<1> HIDE DEF stale
<1>. QED
  BY <1>1, <1>2, WritesKept DEF SaveLabel, Label

LEMMA SetPairingStateKept ==
    ASSUME IInv, RowsKept, NEW c \in Client, SetPairingState(c)
    PROVE  RowsKept'
<1> DEFINE ids == Twins(target[c]) \cup {target[c]}
<1>1. ids \in SUBSET DeviceID
  BY DEF SetPairingState, Twins, Known, IInv, TypeOK, RequestShape
<1>2. /\ ToSave(c, ids) /\ UNCHANGED store /\ pc[c] \notin SaveLabel
      /\ pc' = [pc EXCEPT ![c] = "commit_save"]
      /\ \A i \in DeviceID \ ids : metadata'[i] = metadata[i]
  BY DEF SetPairingState, Goto, SaveLabel
<1> HIDE DEF ids
<1>. QED
  BY <1>1, <1>2, WritesKept DEF SaveLabel, Label

LEMMA RenameKept ==
    ASSUME IInv, RowsKept, NEW c \in Client, NEW a \in Alias, Rename(c, a)
    PROVE  RowsKept'
<1>1. target[c] \in DeviceID /\ pc[c] \notin SaveLabel /\ UNCHANGED store
  BY DEF Rename, IInv, TypeOK, RequestShape, SaveLabel
<1>2. CASE UNCHANGED <<metadata, pending, doubtful>> /\ Goto(c, "returning")
  BY <1>1, <1>2, MovesKept DEF Goto, Label
<1>3. CASE /\ metadata' = [metadata EXCEPT ![target[c]].alias = a]
           /\ ToSave(c, {target[c]}) /\ Goto(c, "commit_save")
  <2>1. \A i \in DeviceID \ {target[c]} : metadata'[i] = metadata[i]
    BY <1>3 DEF IInv, TypeOK, Inventory
  <2>2. "commit_save" \in Label \cap SaveLabel /\ {target[c]} \in SUBSET DeviceID
    BY <1>1 DEF SaveLabel, Label
  <2>. QED
    BY <1>1, <1>3, <2>1, <2>2, WritesKept DEF Goto
<1>. QED
  BY <1>2, <1>3 DEF Rename

\* One save more is made, or has failed.
LEMMA SaveDeviceKept ==
    ASSUME IInv, RowsKept, NEW c \in Client, NEW s \in pending[c], SaveDevice(c, s)
    PROVE  RowsKept'
<1>1. /\ s \in Save /\ UNCHANGED metadata
      /\ pending'[c] = pending[c] \ {s}
      /\ \A d \in Client \ {c} : pending'[d] = pending[d] /\ pc'[d] = pc[d]
      /\ pending'[c] # {} => pc'[c] = pc[c]
      /\ pc[c] \in SaveLabel
      /\ \/ store' = [store EXCEPT ![s.id] = s.rec] /\ UNCHANGED doubtful
         \/ UNCHANGED store /\ doubtful' = doubtful \cup {s.id}
  BY DEF SaveDevice, Upsert, SaveLabel, IInv, TypeOK, inventory
<1>2. \A d \in Client : pending'[d] # {} => pc'[d] \in SaveLabel
  BY <1>1 DEF RowsKept
<1>3. ASSUME NEW i \in DeviceID, i \notin doubtful'
      PROVE  RowKept(i)'
  <2>1. RowKept(i)
    BY <1>1, <1>3 DEF RowsKept
  <2>2. \A d \in Client : \A r \in pending'[d] : r \in pending[d]
    BY <1>1
  <2>3. CASE i = s.id
    <3>1. store'[i] = s.rec /\ s.rec = metadata[i]
      BY <1>1, <1>3, <2>1, <2>3 DEF RowKept, IInv, TypeOK, Inventory
    <3>. QED
      BY <1>1, <2>1, <2>2, <3>1 DEF RowKept, Reload
  <2>4. CASE i # s.id
    <3>1. store'[i] = store[i]
      BY <1>1, <2>4 DEF IInv, TypeOK, Inventory
    <3>2. \A d \in Client : \A r : r.id = i => (r \in pending'[d] <=> r \in pending[d])
      BY <1>1, <2>4
    <3>. QED
      BY <1>1, <2>1, <2>2, <3>1, <3>2 DEF RowKept, Reload
  <2>. QED
    BY <2>3, <2>4
<1>. QED
  BY <1>2, <1>3 DEF RowsKept

LEMMA ReloadTwice ==
    ASSUME NEW rows \in Inventory, NEW i \in DeviceID
    PROVE  Reload(Loaded(rows)[i]) = Reload(rows[i])
<1>1. Loaded(rows)[i] = Reload(rows[i])
  BY DEF Loaded
<1>2. CASE rows[i] = None
  BY <1>1, <1>2 DEF Reload
<1>3. CASE rows[i] # None
  <2>1. rows[i] \in Record
    BY <1>3 DEF Inventory
  <2>2. PICK r : r = [rows[i] EXCEPT !.online = FALSE]
    OBVIOUS
  <2>3. r \in Record /\ [r EXCEPT !.online = FALSE] = r
    BY <2>1, <2>2 DEF Record
  <2>4. Reload(rows[i]) = r /\ r # None
    BY <1>3, <2>2, <2>3, ConstantsAssumption DEF Reload
  <2>. QED
    BY <1>1, <2>3, <2>4 DEF Reload
<1>. QED
  BY <1>2, <1>3

LEMMA InitKept == Init => RowsKept
<1> SUFFICES ASSUME Init PROVE RowsKept
  OBVIOUS
<1>1. store \in Inventory /\ metadata = Loaded(store)
      /\ \A c \in Client : pending[c] = {}
  BY ConstantsAssumption DEF Init
<1>. QED
  BY <1>1, ReloadTwice DEF RowsKept, RowKept

LEMMA RestartKept == IInv /\ Restart => RowsKept'
<1> SUFFICES ASSUME IInv, Restart PROVE RowsKept'
  OBVIOUS
<1>1. store \in Inventory /\ metadata' = Loaded(store) /\ store' = store
      /\ \A c \in Client : pending'[c] = {}
  BY DEF Restart, IInv, TypeOK
<1>2. \A i \in DeviceID : Reload(store'[i]) = Reload(metadata'[i])
  BY <1>1, ReloadTwice
<1>. QED
  BY <1>1, <1>2 DEF RowsKept, RowKept

LEMMA StepKept ==
    ASSUME IInv, RowsKept, NEW c \in Client, Step(c)
    PROVE  RowsKept'
  BY LookupKept, AttemptKept, RequestKept, RegisterKept, MarkUnseenKept,
     SetPairingStateKept, RenameKept, SaveDeviceKept
     DEF Step

LEMMA StutterKept == RowsKept /\ UNCHANGED vars => RowsKept'
  BY DEF RowsKept, RowKept, Reload, vars, inventory, client, history

\* A restart brings every record back, but for its online flag, unless its
\* last save failed, was under way or overlapped another: for any number of
\* clients and devices, whatever saves fail and whenever the daemon dies.
THEOREM RestartsRemember == Spec => []RowsFollow
<1>1. IInv /\ RowsKept /\ [Next]_vars => RowsKept'
  BY RestartKept, RequestKept, StepKept, StutterKept DEF Next
<1>2. RowsKept => RowsFollow
  BY DEF RowsKept, RowKept, RowsFollow, Unsaved
<1>. QED
  BY InitKept, <1>1, <1>2, Invariance, PTL DEF Spec

-----------------------------------------------------------------------------
(* Duplicates.  The code hands a pairing to the records that match the one *)
(* it writes, and to no others: all records of a device agree if matching  *)
(* is transitive among them.  sameDeviceIdentity is not transitive by      *)
(* itself (a record can match one by its MAC and another by its address),  *)
(* so that is a hypothesis about the devices of the network.               *)

OneAtATime == \A c, d \in Client : c = d

Transitive ==
    \A i, j, k \in DeviceID : Same(i, j) /\ Same(j, k) => Same(i, k)

\* The pairing a Roku reports is its own.
RokusAlone ==
    \A i \in Roku, j \in DeviceID : Same(i, j) => i = j

StoresAgree ==
    \A rows \in InitialStore : \A i, j \in DeviceID :
        rows[i] # None /\ rows[j] # None /\ Same(i, j) => rows[i].paired = rows[j].paired

Network == Transitive /\ RokusAlone /\ StoresAgree

PairedTwin(i) ==
    \E j \in DeviceID : /\ metadata[j] # None
                        /\ j = i \/ Same(j, i)
                        /\ metadata[j].paired

Merged ==
    /\ \A i, j \in DeviceID :
          metadata[i] # None /\ metadata[j] # None /\ Same(i, j)
             => metadata[i].paired = metadata[j].paired
    /\ item # None /\ item.rec.paired /\ item.id \notin Roku => PairedTwin(item.id)

\* With one client, only a scan of its own has a result to register.
LEMMA NoItem ==
    ASSUME OneAtATime, IInv, NEW c \in Client, pc[c] # "scan_register"
    PROVE  item = None
<1>1. CASE pc[c] \in ScanLabel
  BY <1>1 DEF IInv, RequestShape
<1>2. CASE pc[c] \notin ScanLabel
  <2>1. \A d \in Client : scanOwner # d
    BY <1>2 DEF OneAtATime, IInv, RequestShape
  <2>. QED
    BY <2>1 DEF IInv, TypeOK
<1>. QED
  BY <1>1, <1>2

\* A daemon starts with what SQLite holds.
LEMMA LoadedKnown ==
    ASSUME NEW rows \in Inventory
    PROVE  \A i \in DeviceID : Loaded(rows)[i] = None <=> rows[i] = None
<1> SUFFICES ASSUME NEW i \in DeviceID PROVE Loaded(rows)[i] = None <=> rows[i] = None
  OBVIOUS
<1>1. Loaded(rows)[i] = Reload(rows[i])
  BY DEF Loaded
<1>2. CASE rows[i] = None
  BY <1>1, <1>2 DEF Reload
<1>3. CASE rows[i] # None
  <2>1. rows[i] \in Record
    BY <1>3 DEF Inventory
  <2>2. [rows[i] EXCEPT !.online = FALSE] \in Record
    BY <2>1 DEF Record
  <2>. QED
    BY <1>1, <1>3, <2>2, ConstantsAssumption DEF Reload
<1>. QED
  BY <1>2, <1>3

\* What setPairingState makes of the pairing of a record.
LEMMA WrittenPairing ==
    ASSUME IInv, NEW c \in Client, SetPairingState(c), target[c] \in DeviceID,
           NEW i \in DeviceID
    PROVE  /\ i = target[c] => metadata'[i].paired = snapshot[c].paired
           /\ i # target[c] /\ i \in Twins(target[c]) => metadata'[i].paired = snapshot[c].paired
           /\ i \notin Twins(target[c]) \cup {target[c]} => metadata'[i] = metadata[i]
<1> DEFINE t == target[c]
           md == snapshot[c]
           own == IF md.alias = NoAlias /\ metadata[t] # None
                  THEN [md EXCEPT !.alias = metadata[t].alias] ELSE md
<1>1. md \in Record
  BY DEF SetPairingState, IInv, TypeOK, RequestShape
<1>2. own.paired = md.paired
  BY <1>1 DEF Record
<1>3. metadata' = [j \in DeviceID |->
                     CASE j = t          -> own
                       [] j \in Twins(t) -> [metadata[j] EXCEPT !.paired = md.paired]
                       [] OTHER          -> metadata[j]]
  BY DEF SetPairingState
<1> HIDE DEF own
<1>4. CASE i = t
  <2>1. metadata'[i] = own
    BY <1>3, <1>4 DEF Twins
  <2>. QED
    BY <1>2, <1>4, <2>1
<1>5. CASE i # t /\ i \in Twins(t)
  <2>1. metadata'[i] = [metadata[i] EXCEPT !.paired = md.paired]
    BY <1>3, <1>5
  <2>2. metadata[i] \in Record
    BY <1>5 DEF Twins, Known, IInv, TypeOK, Inventory
  <2>3. metadata'[i].paired = md.paired
    BY <2>1, <2>2 DEF Record
  <2>. QED
    BY <1>5, <2>3
<1>6. CASE i \notin Twins(t) \cup {t}
  BY <1>3, <1>6
<1>. QED
  BY <1>4, <1>5, <1>6

LEMMA RecordsRewritten ==
    ASSUME IInv, NEW c \in Client, MarkUnseen(c) \/ \E a \in Alias : Rename(c, a),
           NEW i \in DeviceID, metadata[i] # None
    PROVE  metadata'[i].paired = metadata[i].paired
<1>1. metadata[i] \in Record
  BY DEF IInv, TypeOK, Inventory
<1>2. CASE metadata'[i] = metadata[i]
  BY <1>2
<1>3. CASE metadata'[i] = [metadata[i] EXCEPT !.online = FALSE]
  BY <1>1, <1>3 DEF Record
<1>4. CASE \E a \in Alias : metadata'[i] = [metadata[i] EXCEPT !.alias = a]
  BY <1>1, <1>4 DEF Record
<1>5. CASE MarkUnseen(c)
  <2>1. metadata'[i] \in {metadata[i], [metadata[i] EXCEPT !.online = FALSE]}
    BY <1>5 DEF MarkUnseen
  <2>. QED
    BY <1>2, <1>3, <2>1
<1>6. CASE \E a \in Alias : Rename(c, a)
  <2>1. PICK a \in Alias : Rename(c, a)
    BY <1>6
  <2>2. CASE UNCHANGED metadata
    BY <1>2, <2>2
  <2>3. CASE metadata' = [metadata EXCEPT ![target[c]].alias = a]
    <3>1. metadata'[i] \in {metadata[i], [metadata[i] EXCEPT !.alias = a]}
      BY <2>3 DEF IInv, TypeOK, Inventory
    <3>. QED
      BY <1>2, <1>4, <3>1
  <2>. QED
    BY <2>1, <2>2, <2>3 DEF Rename
<1>. QED
  BY <1>5, <1>6

LEMMA SameSymmetric ==
    ASSUME NEW i \in DeviceID, NEW j \in DeviceID, Same(i, j)
    PROVE  Same(j, i)
  BY SymmetryAssumption DEF Same

\* A step that leaves the pairing of every record as it is.
LEMMA MovesMerged ==
    ASSUME OneAtATime, IInv, Merged, NEW c \in Client, pc[c] # "scan_register",
           UNCHANGED item,
           \A i \in DeviceID : metadata'[i] = None <=> metadata[i] = None,
           \A i \in DeviceID : metadata[i] # None => metadata'[i].paired = metadata[i].paired
    PROVE  Merged'
<1>1. item' = None
  BY NoItem
<1>. QED
  BY <1>1 DEF Merged

\* A pairing that is found on some record of a device is on all of them.
LEMMA TwinsAgree ==
    ASSUME Network, Merged, NEW i \in DeviceID, PairedTwin(i),
           NEW j \in DeviceID, metadata[j] # None, Same(i, j)
    PROVE  metadata[j].paired
<1>1. PICK k \in DeviceID : metadata[k] # None /\ (k = i \/ Same(k, i)) /\ metadata[k].paired
  BY DEF PairedTwin
<1>2. Same(k, j)
  BY <1>1 DEF Network, Transitive
<1>3. metadata[k].paired = metadata[j].paired
  BY <1>1, <1>2 DEF Merged
<1>. QED
  BY <1>1, <1>3

LEMMA ReconcileMerged ==
    ASSUME Network, IInv, Merged, NEW c \in Client, NEW i \in DeviceID,
           NEW p \in ReportedPaired(i), NEW v \in BOOLEAN, Reconcile(c, i, p, v)
    PROVE  Merged'
<1>1. UNCHANGED metadata
  BY DEF Reconcile, inventory
<1>2. i \notin Roku => p = FALSE
  BY DEF ReportedPaired
<1>3. ASSUME item' # None, item'.rec.paired, item'.id \notin Roku
      PROVE  PairedTwin(item'.id)
  <2>1. CASE item' = [id |-> i, rec |-> [paired |-> p, verified |-> v,
                                         alias |-> NoAlias, online |-> TRUE]]
    BY <1>2, <1>3, <2>1
  <2>2. CASE \E j \in Candidates(i) :
               item' = [id |-> j,
                        rec |-> [paired |-> p \/ metadata[j].paired,
                                 verified |-> v \/ metadata[j].verified,
                                 alias |-> metadata[j].alias,
                                 online |-> TRUE]]
    <3>1. PICK j \in Candidates(i) :
            item' = [id |-> j,
                     rec |-> [paired |-> p \/ metadata[j].paired,
                              verified |-> v \/ metadata[j].verified,
                              alias |-> metadata[j].alias,
                              online |-> TRUE]]
      BY <2>2
    <3>2. j \in DeviceID /\ metadata[j] # None /\ Same(j, i)
      BY DEF Candidates, Known
    <3>3. item'.id = j /\ item'.rec.paired = (p \/ metadata[j].paired)
      BY <3>1
    <3>4. i \notin Roku
      <4>1. i \in Roku => Same(i, j) /\ i = j
        BY <3>2, SameSymmetric DEF Network, RokusAlone
      <4>. QED
        BY <1>3, <3>3, <4>1
    <3>5. metadata[j].paired
      BY <1>2, <1>3, <3>3, <3>4
    <3>. QED
      BY <3>2, <3>3, <3>5 DEF PairedTwin
  <2>. QED
    BY <2>1, <2>2 DEF Reconcile
<1>4. item' # None /\ item'.rec.paired /\ item'.id \notin Roku => PairedTwin(item.id)'
  BY <1>1, <1>3 DEF PairedTwin
<1>. QED
  BY <1>1, <1>4 DEF Merged

\* The registered record takes the pairing of its duplicates over.
LEMMA RegisterMerged ==
    ASSUME Network, IInv, Merged, NEW c \in Client, Register(c)
    PROVE  Merged'
<1>1. PICK i \in DeviceID : i = item.id /\ item # None /\ item.rec \in Record
  BY ConstantsAssumption DEF Register, IInv, TypeOK, RequestShape, ScanLabel, Save
<1>2. PICK rec : rec = Registered(i, item.rec)
  OBVIOUS
<1>3. metadata' = [metadata EXCEPT ![i] = rec] /\ item' = None
  BY <1>1, <1>2 DEF Register
<1>4. metadata'[i] = rec /\ \A j \in DeviceID \ {i} : metadata'[j] = metadata[j]
  BY <1>3 DEF IInv, TypeOK, Inventory
<1>5. /\ rec.paired \in BOOLEAN
      /\ rec.paired <=> \/ item.rec.paired
                        \/ metadata[i] # None /\ metadata[i].paired
                        \/ \E j \in Twins(i) : metadata[j].paired
  BY <1>2 DEF Registered
<1>6. ASSUME NEW j \in DeviceID, j # i, metadata[j] # None, Same(i, j)
      PROVE  rec.paired = metadata[j].paired
  <2>1. metadata[j].paired \in BOOLEAN
    BY <1>6 DEF IInv, TypeOK, Inventory, Record
  <2>2. j \in Twins(i)
    BY <1>6, SameSymmetric DEF Twins, Known
  <2>3. metadata[j].paired => rec.paired
    BY <1>5, <2>2
  <2>4. i \notin Roku
    BY <1>6 DEF Network, RokusAlone
  <2>5. ASSUME rec.paired
        PROVE  PairedTwin(i)
    <3>1. CASE item.rec.paired
      BY <1>1, <2>4, <3>1 DEF Merged
    <3>2. CASE metadata[i] # None /\ metadata[i].paired
      BY <3>2 DEF PairedTwin
    <3>3. CASE \E k \in Twins(i) : metadata[k].paired
      BY <3>3 DEF PairedTwin, Twins, Known
    <3>. QED
      BY <1>5, <2>5, <3>1, <3>2, <3>3
  <2>6. rec.paired => metadata[j].paired
    BY <1>6, <2>5, TwinsAgree
  <2>. QED
    BY <1>5, <2>1, <2>3, <2>6
<1>7. ASSUME NEW j \in DeviceID, NEW k \in DeviceID,
             metadata'[j] # None, metadata'[k] # None, Same(j, k)
      PROVE  metadata'[j].paired = metadata'[k].paired
  <2>1. CASE j = i /\ k = i
    BY <2>1
  <2>2. CASE j = i /\ k # i
    BY <1>4, <1>6, <1>7, <2>2
  <2>3. CASE j # i /\ k = i
    <3>1. Same(i, j)
      BY <1>7, <2>3, SameSymmetric
    <3>. QED
      BY <1>4, <1>6, <1>7, <2>3, <3>1
  <2>4. CASE j # i /\ k # i
    BY <1>4, <1>7, <2>4 DEF Merged
  <2>. QED
    BY <2>1, <2>2, <2>3, <2>4
<1>. QED
  BY <1>3, <1>7 DEF Merged

\* setPairingState writes one pairing to all records of the device.
LEMMA SetPairingStateMerged ==
    ASSUME OneAtATime, Network, IInv, Merged, NEW c \in Client, SetPairingState(c)
    PROVE  Merged'
<1>1. pc[c] = "commit" /\ item' = item
  BY DEF SetPairingState, scan
<1>2. item' = None
  BY <1>1, NoItem
<1>3. PICK t \in DeviceID : t = target[c]
  BY <1>1 DEF IInv, TypeOK, RequestShape
<1>4. PICK p : p = snapshot[c].paired
  OBVIOUS
<1>5. ASSUME NEW i \in DeviceID
      PROVE  /\ i = t \/ i \in Twins(t) => metadata'[i].paired = p
             /\ i # t /\ i \notin Twins(t) => metadata'[i] = metadata[i]
  BY <1>3, <1>4, WrittenPairing
<1>6. ASSUME NEW i \in DeviceID, NEW j \in DeviceID, Same(i, j),
             metadata'[i] # None, metadata'[j] # None,
             i = t \/ i \in Twins(t)
      PROVE  j = t \/ j \in Twins(t)
  <2>1. Same(j, i)
    BY <1>6, SameSymmetric
  <2>2. j # t => Same(j, t)
    BY <1>6, <2>1 DEF Twins, Network, Transitive
  <2>3. CASE j # t
    <3>1. j \notin Twins(t) => metadata[j] = None
      BY <2>2, <2>3 DEF Twins, Known
    <3>2. j \notin Twins(t) => metadata'[j] = metadata[j]
      BY <1>5, <2>3
    <3>. QED
      BY <1>6, <3>1, <3>2
  <2>. QED
    BY <2>3
<1>7. ASSUME NEW i \in DeviceID, NEW j \in DeviceID, Same(i, j),
             metadata'[i] # None, metadata'[j] # None
      PROVE  metadata'[i].paired = metadata'[j].paired
  <2>1. Same(j, i)
    BY <1>7, SameSymmetric
  <2>2. CASE i = t \/ i \in Twins(t)
    <3>1. j = t \/ j \in Twins(t)
      BY <1>6, <1>7, <2>2
    <3>. QED
      BY <1>5, <2>2, <3>1
  <2>3. CASE ~(i = t \/ i \in Twins(t))
    <3>1. ~(j = t \/ j \in Twins(t))
      BY <1>6, <1>7, <2>1, <2>3
    <3>. QED
      BY <1>5, <1>7, <2>3, <3>1 DEF Merged
  <2>. QED
    BY <2>2, <2>3
<1>. QED
  BY <1>2, <1>7 DEF Merged

LEMMA StillMerged ==
    ASSUME OneAtATime, IInv, Merged, NEW c \in Client, NewRequest(c) \/ Step(c),
           ~Register(c), ~SetPairingState(c),
           ~ \E i \in DeviceID : \E p \in ReportedPaired(i), v \in BOOLEAN :
                Reconcile(c, i, p, v)
    PROVE  Merged'
<1>1. CASE UNCHANGED <<metadata, item>> /\ pc[c] # "scan_register"
  BY <1>1, MovesMerged
<1>2. CASE MarkUnseen(c) \/ \E a \in Alias : Rename(c, a)
  <2>1. pc[c] # "scan_register" /\ UNCHANGED item
    BY <1>2 DEF MarkUnseen, Rename, scan
  <2>2. ASSUME NEW i \in DeviceID
        PROVE  metadata'[i] = None <=> metadata[i] = None
    <3>1. metadata[i] \in Record => [metadata[i] EXCEPT !.online = FALSE] \in Record
      BY DEF Record
    <3>2. \A a \in Alias : metadata[i] \in Record => [metadata[i] EXCEPT !.alias = a] \in Record
      BY DEF Record
    <3>3. CASE MarkUnseen(c)
      <4>1. metadata'[i] = metadata[i]
            \/ (metadata[i] # None /\ metadata'[i] = [metadata[i] EXCEPT !.online = FALSE])
        BY <3>3 DEF MarkUnseen, Known
      <4>. QED
        BY <3>1, <4>1, ConstantsAssumption DEF IInv, TypeOK, Inventory
    <3>4. CASE \E a \in Alias : Rename(c, a)
      <4>1. PICK a \in Alias : Rename(c, a)
        BY <3>4
      <4>2. metadata'[i] = metadata[i]
            \/ (metadata[i] # None /\ metadata'[i] = [metadata[i] EXCEPT !.alias = a])
        BY <4>1 DEF Rename, Known, IInv, TypeOK, Inventory
      <4>. QED
        BY <3>2, <4>2, ConstantsAssumption DEF IInv, TypeOK, Inventory
    <3>. QED
      BY <1>2, <3>3, <3>4
  <2>. QED
    BY <1>2, <2>1, <2>2, RecordsRewritten, MovesMerged
<1>3. CASE \/ PairLookup(c) \/ UnpairLookup(c) \/ ExecuteLookup(c) \/ StateLookup(c)
           \/ PairMissing(c) \/ PairVerify(c) \/ PairRelookup(c) \/ WakeRefresh(c)
           \/ ExecuteRelookup(c) \/ StateRelookup(c)
           \/ PairAttempt(c) \/ UnpairAttempt(c) \/ ExecuteAttempt(c) \/ StateAttempt(c)
  <2>1. Reads(c) \/ Calls(c)
    BY <1>3 DEF PairLookup, UnpairLookup, ExecuteLookup, StateLookup, PairMissing,
                PairVerify, PairRelookup, WakeRefresh, ExecuteRelookup, StateRelookup,
                PairAttempt, UnpairAttempt, ExecuteAttempt, StateAttempt
  <2>2. pc[c] # "scan_register"
    BY <1>3 DEF PairLookup, UnpairLookup, ExecuteLookup, StateLookup, PairMissing,
                PairVerify, PairRelookup, WakeRefresh, ExecuteRelookup, StateRelookup,
                PairAttempt, UnpairAttempt, ExecuteAttempt, StateAttempt
  <2>. QED
    BY <1>1, <2>1, <2>2 DEF Reads, Calls, scan
<1>4. CASE \/ NewRequest(c) \/ Return(c) \/ ScanLock(c) \/ ExecuteAudit(c) \/ Snap(c)
           \/ \E failed \in BOOLEAN : ScanEnd(c, failed)
           \/ \E s \in pending[c] : SaveDevice(c, s)
  BY <1>1, <1>4 DEF NewRequest, Begin, Return, ScanLock, ExecuteAudit, Snap, ScanEnd,
                    SaveDevice, inventory, scan
<1>. QED
  BY <1>2, <1>3, <1>4 DEF Step

LEMMA InitMerged == Network /\ Init => Merged
<1> SUFFICES ASSUME Network, Init PROVE Merged
  OBVIOUS
<1>1. store \in InitialStore /\ store \in Inventory /\ metadata = Loaded(store) /\ item = None
  BY ConstantsAssumption DEF Init
<1>2. ASSUME NEW i \in DeviceID, metadata[i] # None
      PROVE  store[i] # None /\ metadata[i].paired = store[i].paired
  <2>1. store[i] # None /\ metadata[i] = Reload(store[i])
    BY <1>1, <1>2, LoadedKnown DEF Loaded
  <2>2. store[i] \in Record
    BY <1>1, <2>1 DEF Inventory
  <2>. QED
    BY <2>1, <2>2 DEF Reload, Record
<1>. QED
  BY <1>1, <1>2 DEF Network, StoresAgree, Merged

\* All records of a device agree on its pairing, whatever fails, as long as
\* requests do not overlap and no restart falls between the saves of the
\* records.
THEOREM DuplicatesStayAgreed ==
    ASSUME OneAtATime, Network, MaxCrashes = 0
    PROVE  Spec => []DuplicatesAgree
<1>1. IInv /\ Merged /\ [Next]_vars => Merged'
  <2> SUFFICES ASSUME IInv, Merged, [Next]_vars PROVE Merged'
    OBVIOUS
  <2>1. ~Restart
    BY DEF Restart, IInv, TypeOK
  <2>2. ASSUME NEW c \in Client, NewRequest(c) \/ Step(c)
        PROVE  Merged'
    BY <2>2, ReconcileMerged, RegisterMerged, SetPairingStateMerged, StillMerged
  <2>3. CASE UNCHANGED vars
    BY <2>3 DEF Merged, PairedTwin, vars, inventory, scan
  <2>. QED
    BY <2>1, <2>2, <2>3 DEF Next
<1>2. Merged => DuplicatesAgree
  BY DEF Merged, DuplicatesAgree, Known
<1>. QED
  BY InitMerged, <1>1, <1>2, Invariance, PTL DEF Spec

-----------------------------------------------------------------------------
(* Names.  A record that has one never loses it, although scans, commands  *)
(* and adapters write older copies of it back: a copy has a name only when *)
(* the record has one.  Which one an old copy has is another matter.       *)

HasName(i) == metadata[i] # None /\ metadata[i].alias # NoAlias
NameKnown(i, rec) == rec # None /\ rec.alias # NoAlias => HasName(i)

NamesKnown ==
    /\ \A i \in DeviceID, s \in Slot : NameKnown(i, adapters[i][s])
    /\ item # None => NameKnown(item.id, item.rec)
    /\ \A c \in Client : snapshot[c] # None => target[c] # None /\ NameKnown(target[c], snapshot[c])

\* What a step may do to the names of the records.
NamesFollowed ==
    \A i \in Known : metadata'[i] # None /\ crashes' = crashes
        /\ metadata'[i].alias # metadata[i].alias
        => \/ \E c \in Client : pc[c] = "rename_apply" /\ target[c] = i
                                /\ Unshared(i, metadata'[i].alias)
           \/ /\ metadata[i].alias # NoAlias
              /\ metadata'[i].alias \in Names(i) \ {NoAlias}

NamesStay == \A i \in DeviceID : HasName(i) => HasName(i)'

\* A step that leaves the records alone.
LEMMA MovesNames ==
    ASSUME IInv, NamesKnown, UNCHANGED <<metadata, item, snapshot>>,
           \A i \in DeviceID, s \in Slot : adapters'[i][s] \in {adapters[i][s], None},
           \A c \in Client : snapshot[c] # None => target'[c] = target[c]
    PROVE  NamesKnown' /\ NamesFollowed
<1>1. NamesFollowed
  BY DEF NamesFollowed
<1>2. NamesKnown'
  BY DEF NamesKnown, NameKnown, HasName
<1> QED
  BY <1>1, <1>2

LEMMA RequestNames ==
    ASSUME IInv, NamesKnown, NEW c \in Client,
           \/ NewRequest(c) \/ ScanLock(c) \/ ExecuteAudit(c)
           \/ \E failed \in BOOLEAN : ScanEnd(c, failed)
           \/ \E s \in pending[c] : SaveDevice(c, s)
    PROVE  NamesKnown' /\ NamesFollowed
<1>1. UNCHANGED <<metadata, item, snapshot, adapters>>
  BY DEF NewRequest, Begin, ScanLock, ExecuteAudit, ScanEnd, SaveDevice, inventory, scan
<1>2. \A d \in Client : snapshot[d] # None => target'[d] = target[d]
  <2>1. CASE NewRequest(c)
    <3>1. target[c] = None
      BY <2>1 DEF NewRequest, Begin, IInv, RequestShape
    <3>2. snapshot[c] = None
      BY <3>1 DEF NamesKnown
    <3>3. \A d \in Client \ {c} : target'[d] = target[d]
      BY <2>1 DEF NewRequest, Begin, IInv, TypeOK
    <3> QED
      BY <3>2, <3>3
  <2>2. CASE ~NewRequest(c)
    BY <2>2 DEF ScanLock, ExecuteAudit, ScanEnd, SaveDevice
  <2> QED
    BY <2>1, <2>2
<1> QED
  BY <1>1, <1>2, MovesNames

LEMMA ReadsNames ==
    ASSUME IInv, NamesKnown, NEW c \in Client,
           \/ PairLookup(c) \/ UnpairLookup(c) \/ ExecuteLookup(c) \/ StateLookup(c)
           \/ PairMissing(c) \/ PairVerify(c) \/ PairRelookup(c) \/ WakeRefresh(c)
           \/ ExecuteRelookup(c) \/ StateRelookup(c)
    PROVE  NamesKnown' /\ NamesFollowed
<1>1. Reads(c) /\ (Take(c) \/ Keep(c))
  BY DEF PairLookup, UnpairLookup, ExecuteLookup, StateLookup, PairMissing, PairVerify,
         PairRelookup, WakeRefresh, ExecuteRelookup, StateRelookup, Refresh
<1>2. \A i \in DeviceID, s \in Slot : adapters'[i][s] \in {adapters[i][s], None}
  <2>1. CASE Take(c)
    BY <2>1, CollectValue DEF Take
  <2>2. CASE Keep(c)
    BY <2>2 DEF Keep
  <2> QED
    BY <1>1, <2>1, <2>2
<1> QED
  BY <1>1, <1>2, MovesNames DEF Reads, scan

LEMMA ReturnNames ==
    ASSUME IInv, NamesKnown, NEW c \in Client, Return(c)
    PROVE  NamesKnown' /\ NamesFollowed
<1>1. UNCHANGED <<metadata, item>> /\ snapshot' = [snapshot EXCEPT ![c] = None]
      /\ target' = [target EXCEPT ![c] = None]
  BY DEF Return, scan
<1>2. \A i \in DeviceID, s \in Slot : adapters'[i][s] \in {adapters[i][s], None}
  BY CollectValue DEF Return
<1>3. NamesKnown'
  BY <1>1, <1>2 DEF IInv, TypeOK, NamesKnown, NameKnown, HasName
<1> QED
  BY <1>1, <1>3 DEF NamesFollowed

LEMMA ReconcileNames ==
    ASSUME IInv, NamesKnown, NEW c \in Client, NEW i \in DeviceID,
           NEW p \in ReportedPaired(i), NEW v \in BOOLEAN,
           Reconcile(c, i, p, v)
    PROVE  NamesKnown' /\ NamesFollowed
<1>1. UNCHANGED <<metadata, adapters, snapshot, target>>
  BY DEF Reconcile, inventory
<1>2. item' # None => (NameKnown(item.id, item.rec))'
  <2>1. CASE item' = [id |-> i, rec |-> [paired |-> p, verified |-> v,
                                         alias |-> NoAlias, online |-> TRUE]]
    BY <2>1 DEF NameKnown
  <2>2. ASSUME NEW j \in Candidates(i),
               item' = [id |-> j, rec |-> [paired |-> p \/ metadata[j].paired,
                                           verified |-> v \/ metadata[j].verified,
                                           alias |-> metadata[j].alias,
                                           online |-> TRUE]]
        PROVE  (NameKnown(item.id, item.rec))'
    <3>1. metadata[j] # None
      BY DEF Candidates, Known
    <3>2. item'.id = j /\ item'.rec.alias = metadata[j].alias
      BY <2>2
    <3> QED
      BY <1>1, <3>1, <3>2 DEF NameKnown, HasName
  <2> QED
    BY <2>1, <2>2 DEF Reconcile
<1>3. NamesKnown'
  BY <1>1, <1>2 DEF NamesKnown, NameKnown, HasName
<1> QED
  BY <1>1, <1>3 DEF NamesFollowed

\* The record that is registered keeps the name of the known one.
LEMMA RegisterNames ==
    ASSUME IInv, NamesKnown, NEW c \in Client, Register(c)
    PROVE  NamesKnown' /\ NamesFollowed
<1> DEFINE i == item.id
           rec == Registered(i, item.rec)
<1>1. pc[c] = "scan_register" /\ item # None /\ item \in Save /\ i \in DeviceID
  BY DEF Register, IInv, TypeOK, RequestShape, ScanLabel, Save
<1>2. rec # None /\ rec.alias = IF metadata[i] # None /\ item.rec.alias = NoAlias
                                THEN metadata[i].alias ELSE item.rec.alias
  <2>1. rec \in Record
    BY <1>1 DEF IInv, TypeOK, Inventory, Registered, Save, Record
  <2>2. rec # None
    BY <2>1, ConstantsAssumption
  <2> QED
    BY <2>2 DEF Registered
<1>3. item.rec # None
  BY <1>1, ConstantsAssumption DEF Save
<1>4. item.rec.alias # NoAlias => HasName(i)
  BY <1>1, <1>3 DEF NamesKnown, NameKnown
<1> HIDE DEF rec
<1>5. metadata' = [metadata EXCEPT ![i] = rec] /\ item' = None /\ UNCHANGED <<target, snapshot>>
  BY DEF Register, rec
<1>6. \A j \in DeviceID : metadata'[j] = IF j = i THEN rec ELSE metadata[j]
  BY <1>1, <1>5 DEF IInv, TypeOK, Inventory
<1>7. NamesStay
  BY <1>2, <1>4, <1>6 DEF NamesStay, HasName
<1>8. NamesFollowed
  <2> SUFFICES ASSUME NEW j \in Known, metadata'[j].alias # metadata[j].alias
               PROVE  /\ metadata[j].alias # NoAlias
                      /\ metadata'[j].alias \in Names(j) \ {NoAlias}
    BY DEF NamesFollowed
  <2>1. j = i /\ j \in DeviceID /\ metadata[j] # None
    BY <1>6 DEF Known
  <2>2. item.rec.alias # NoAlias /\ metadata'[j].alias = item.rec.alias
    BY <2>1, <1>2, <1>6
  <2>3. item.rec.alias \in Names(j)
    BY <2>1, <1>1, <1>3 DEF Names
  <2> QED
    BY <2>1, <2>2, <2>3, <1>4 DEF HasName
<1>9. \A j \in DeviceID, s \in Slot : (NameKnown(j, adapters[j][s]))'
  <2>1. ASSUME NEW j \in DeviceID, NEW s \in Slot
        PROVE  adapters'[j][s] \in {adapters[j][s], None} \/ (j = i /\ adapters'[j][s] = rec)
    <3>1. CASE Supports(i, rec)
      <4>1. PICK r \in Slot :
              adapters' = Collect([adapters EXCEPT ![i][r] = rec], devices', slot, target)
        BY <3>1 DEF Register, rec
      <4> DEFINE new == [adapters EXCEPT ![i][r] = rec]
      <4>2. new[j][s] = adapters[j][s] \/ (j = i /\ new[j][s] = rec)
        BY <1>1 DEF IInv, TypeOK
      <4> HIDE DEF new
      <4>3. adapters'[j][s] \in {new[j][s], None}
        BY <4>1, CollectValue DEF new
      <4> QED
        BY <4>2, <4>3
    <3>2. CASE ~Supports(i, rec)
      BY <3>2 DEF Register, Unsupported, rec
    <3> QED
      BY <3>1, <3>2
  <2> SUFFICES ASSUME NEW j \in DeviceID, NEW s \in Slot PROVE (NameKnown(j, adapters[j][s]))'
    OBVIOUS
  <2>2. CASE adapters'[j][s] \in {adapters[j][s], None}
    BY <2>2, <1>7 DEF NamesKnown, NamesStay, NameKnown
  <2>3. CASE j = i /\ adapters'[j][s] = rec
    <3>1. metadata'[i] = rec
      BY <1>1, <1>6
    <3> QED
      BY <2>3, <3>1, <1>2 DEF NameKnown, HasName
  <2> QED
    BY <2>1, <2>2, <2>3
<1>10. \A d \in Client : snapshot'[d] # None => target'[d] # None /\ (NameKnown(target[d], snapshot[d]))'
  BY <1>5, <1>7 DEF NamesKnown, NamesStay, NameKnown, IInv, TypeOK
<1> QED
  BY <1>5, <1>8, <1>9, <1>10 DEF NamesKnown

LEMMA MarkUnseenNames ==
    ASSUME IInv, NamesKnown, NEW c \in Client, MarkUnseen(c)
    PROVE  NamesKnown' /\ NamesFollowed
<1> DEFINE stale == {i \in Known \ seen : metadata[i].online}
<1>1. UNCHANGED <<adapters, item, target, snapshot>>
      /\ metadata' = [i \in DeviceID |-> IF i \in stale THEN [metadata[i] EXCEPT !.online = FALSE]
                                         ELSE metadata[i]]
  BY DEF MarkUnseen, scan
<1>2. ASSUME NEW i \in DeviceID, metadata[i] # None
      PROVE  metadata'[i] # None /\ metadata'[i].alias = metadata[i].alias
  <2>1. metadata[i] \in Record
    BY <1>2 DEF IInv, TypeOK, Inventory
  <2>2. CASE i \in stale
    <3>1. metadata'[i] = [metadata[i] EXCEPT !.online = FALSE]
      BY <1>1, <2>2
    <3>2. metadata'[i] \in Record /\ metadata'[i].alias = metadata[i].alias
      BY <2>1, <3>1 DEF Record
    <3> QED
      BY <3>2, ConstantsAssumption
  <2>3. CASE i \notin stale
    BY <1>1, <1>2, <2>3
  <2> QED
    BY <2>2, <2>3
<1> HIDE DEF stale
<1>3. NamesStay
  BY <1>2 DEF NamesStay, HasName
<1>4. NamesFollowed
  BY <1>2 DEF NamesFollowed, Known
<1>5. NamesKnown'
  BY <1>1, <1>3, ConstantsAssumption DEF NamesKnown, NamesStay, NameKnown, IInv, TypeOK, Save
<1> QED
  BY <1>4, <1>5

LEMMA AttemptNames ==
    ASSUME IInv, NamesKnown, NEW c \in Client,
           PairAttempt(c) \/ UnpairAttempt(c) \/ ExecuteAttempt(c) \/ StateAttempt(c)
    PROVE  NamesKnown' /\ NamesFollowed
<1>1. Calls(c)
  BY DEF PairAttempt, UnpairAttempt, ExecuteAttempt, StateAttempt
<1>2. slot[c] # None /\ slot[c] \in Slot /\ target[c] \in DeviceID
      /\ adapters[target[c]][slot[c]] \in Record
  <2>1. slot[c] # None
    BY DEF PairAttempt, UnpairAttempt, ExecuteAttempt, StateAttempt, IInv,
           NoDanglingAdapter, AdapterLabel
  <2> QED
    BY <2>1, ConstantsAssumption DEF IInv, TypeOK, NoDanglingAdapter
<1>3. UNCHANGED adapters
      \/ \E p \in BOOLEAN : adapters' = [adapters EXCEPT ![target[c]][slot[c]].paired = p]
  BY DEF PairAttempt, UnpairAttempt, ExecuteAttempt, StateAttempt, Unreachable, SetPaired
<1>4. \A i \in DeviceID, s \in Slot :
        \/ adapters'[i][s] = adapters[i][s]
        \/ adapters[i][s] # None /\ adapters'[i][s].alias = adapters[i][s].alias
  <2>1. CASE UNCHANGED adapters
    BY <2>1
  <2>2. ASSUME NEW p \in BOOLEAN, adapters' = [adapters EXCEPT ![target[c]][slot[c]].paired = p],
               NEW i \in DeviceID, NEW s \in Slot
        PROVE  \/ adapters'[i][s] = adapters[i][s]
               \/ adapters[i][s] # None /\ adapters'[i][s].alias = adapters[i][s].alias
    <3> DEFINE new == [adapters[target[c]][slot[c]] EXCEPT !.paired = p]
    <3>1. adapters' = [adapters EXCEPT ![target[c]] = [adapters[target[c]] EXCEPT ![slot[c]] = new]]
      BY <2>2
    <3>2. new.alias = adapters[target[c]][slot[c]].alias /\ adapters[target[c]][slot[c]] # None
      BY <1>2, ConstantsAssumption DEF Record
    <3> HIDE DEF new
    <3> QED
      BY <1>2, <3>1, <3>2 DEF IInv, TypeOK
  <2> QED
    BY <1>3, <2>1, <2>2
<1>5. UNCHANGED <<metadata, item, snapshot, target>>
  BY <1>1 DEF Calls, scan
<1>6. NamesKnown'
  BY <1>4, <1>5 DEF NamesKnown, NameKnown, HasName
<1> QED
  BY <1>5, <1>6 DEF NamesFollowed

LEMMA SnapNames ==
    ASSUME IInv, NamesKnown, NEW c \in Client, Snap(c)
    PROVE  NamesKnown' /\ NamesFollowed
<1> DEFINE t == target[c]
           md == adapters[t][slot[c]]
<1>1. slot[c] \in Slot /\ t # None /\ t \in DeviceID /\ md \in Record /\ md # None
  BY ConstantsAssumption DEF Snap, IInv, TypeOK, NoDanglingAdapter, AdapterLabel
<1>2. NameKnown(t, md)
  BY <1>1 DEF NamesKnown
<1>3. PICK r : snapshot' = [snapshot EXCEPT ![c] = r] /\ r.alias = md.alias
  BY <1>1 DEF Snap, Record
<1>4. UNCHANGED <<metadata, adapters, item, target>>
  BY DEF Snap, inventory, scan
<1>5. NamesKnown'
  BY <1>1, <1>2, <1>3, <1>4 DEF IInv, TypeOK, NamesKnown, NameKnown, HasName
<1> QED
  BY <1>4, <1>5 DEF NamesFollowed

\* The copy that a request writes back has a name only when the record has.
LEMMA SetPairingStateNames ==
    ASSUME IInv, NamesKnown, NEW c \in Client, SetPairingState(c)
    PROVE  NamesKnown' /\ NamesFollowed
<1> DEFINE t == target[c]
           md == snapshot[c]
           own == IF md.alias = NoAlias /\ metadata[t] # None
                  THEN [md EXCEPT !.alias = metadata[t].alias] ELSE md
<1>1. pc[c] = "commit" /\ t \in DeviceID /\ md \in Record /\ md # None
  BY ConstantsAssumption DEF SetPairingState, IInv, TypeOK, RequestShape
<1>2. md.alias # NoAlias => HasName(t)
  BY <1>1 DEF NamesKnown, NameKnown
<1>3. /\ own.alias = IF md.alias = NoAlias /\ metadata[t] # None THEN metadata[t].alias ELSE md.alias
      /\ own # None
  <2>1. metadata[t] # None => metadata[t] \in Record
    BY <1>1 DEF IInv, TypeOK, Inventory
  <2>2. own \in Record
    BY <1>1, <2>1 DEF Record
  <2> QED
    BY <1>1, <2>2, ConstantsAssumption DEF Record
<1>4. metadata' = [j \in DeviceID |->
                     CASE j = t          -> own
                       [] j \in Twins(t) -> [metadata[j] EXCEPT !.paired = md.paired]
                       [] OTHER          -> metadata[j]]
  BY DEF SetPairingState
<1>5. UNCHANGED <<adapters, item, target, snapshot>>
  BY DEF SetPairingState, scan
<1> HIDE DEF own
<1>6. ASSUME NEW j \in DeviceID, metadata[j] # None
      PROVE  /\ metadata'[j] # None
             /\ \/ metadata'[j].alias = metadata[j].alias
                \/ /\ metadata[j].alias # NoAlias
                   /\ metadata'[j].alias \in Names(j) \ {NoAlias}
  <2>1. CASE j = t
    <3>1. metadata'[j] = own
      BY <1>4, <2>1 DEF Twins
    <3>2. md.alias \in Names(t)
      BY <1>1 DEF Names
    <3> QED
      BY <1>2, <1>3, <1>6, <2>1, <3>1, <3>2 DEF HasName
  <2>2. CASE j # t /\ j \in Twins(t)
    <3>1. metadata[j] \in Record
      BY <1>6 DEF IInv, TypeOK, Inventory
    <3>2. metadata'[j] = [metadata[j] EXCEPT !.paired = md.paired]
      BY <1>4, <2>2
    <3>3. metadata'[j] \in Record /\ metadata'[j].alias = metadata[j].alias
      BY <1>1, <3>1, <3>2 DEF Record
    <3> QED
      BY <3>3, ConstantsAssumption
  <2>3. CASE j # t /\ j \notin Twins(t)
    BY <1>4, <1>6, <2>3
  <2> QED
    BY <2>1, <2>2, <2>3
<1>7. NamesStay
  BY <1>6, ConstantsAssumption DEF NamesStay, HasName
<1>8. NamesFollowed
  BY <1>6 DEF NamesFollowed, Known
<1>9. NamesKnown'
  BY <1>5, <1>7, ConstantsAssumption DEF NamesKnown, NamesStay, NameKnown, IInv, TypeOK, Save
<1> QED
  BY <1>8, <1>9

LEMMA RenameNames ==
    ASSUME IInv, NamesKnown, NEW c \in Client, NEW a \in Alias, Rename(c, a)
    PROVE  NamesKnown' /\ NamesFollowed
<1> DEFINE t == target[c]
<1>1. UNCHANGED <<adapters, item, target, snapshot>> /\ pc[c] = "rename_apply"
  BY DEF Rename, scan
<1>2. CASE UNCHANGED metadata
  BY <1>1, <1>2 DEF NamesKnown, NameKnown, HasName, NamesFollowed
<1>3. CASE t \in Known /\ ~Taken(t, a) /\ metadata' = [metadata EXCEPT ![t].alias = a]
  <2>1. metadata[t] \in Record /\ metadata[t] # None /\ t \in DeviceID
    BY <1>3 DEF Known, IInv, TypeOK, Inventory
  <2>2. /\ \A j \in DeviceID \ {t} : metadata'[j] = metadata[j]
        /\ metadata'[t] = [metadata[t] EXCEPT !.alias = a]
    BY <1>3, <2>1 DEF IInv, TypeOK, Inventory
  <2>3. metadata'[t].alias = a /\ metadata'[t] \in Record
    BY <2>1, <2>2 DEF Record
  <2>4. a # NoAlias /\ metadata'[t] # None
    BY <2>3, ConstantsAssumption
  <2>5. NamesStay
    BY <2>2, <2>3, <2>4 DEF NamesStay, HasName
  <2>6. Unshared(t, a)
    BY <1>3 DEF Unshared, Taken
  <2>7. NamesFollowed
    BY <1>1, <2>2, <2>3, <2>6 DEF NamesFollowed, Known
  <2>8. NamesKnown'
    BY <1>1, <2>5, ConstantsAssumption DEF NamesKnown, NamesStay, NameKnown, IInv, TypeOK, Save
  <2> QED
    BY <2>7, <2>8
<1> QED
  BY <1>2, <1>3 DEF Rename

LEMMA StepNames ==
    ASSUME IInv, NamesKnown, NEW c \in Client, NewRequest(c) \/ Step(c)
    PROVE  NamesKnown' /\ NamesFollowed
  BY RequestNames, ReadsNames, ReturnNames, ReconcileNames, RegisterNames, MarkUnseenNames,
     AttemptNames, SnapNames, SetPairingStateNames, RenameNames
     DEF Step

\* What a daemon loads has the names that SQLite holds, in its records and in
\* its adapters.
LEMMA LoadedNames ==
    ASSUME NEW rows \in Inventory, NEW i \in DeviceID, NEW s \in Slot,
           LoadedAdapters(rows)[i][s] # None
    PROVE  LoadedAdapters(rows)[i][s] = Loaded(rows)[i]
BY DEF LoadedAdapters, Loaded

LEMMA InitNames == Init => NamesKnown
<1> SUFFICES ASSUME Init PROVE NamesKnown
  OBVIOUS
<1>1. store \in Inventory /\ metadata = Loaded(store) /\ adapters = LoadedAdapters(store)
      /\ item = None /\ snapshot = AllClients(None)
  BY ConstantsAssumption DEF Init
<1> QED
  BY <1>1, LoadedNames DEF NamesKnown, NameKnown, HasName

LEMMA RestartNames == IInv /\ Restart => NamesKnown' /\ NamesFollowed
<1> SUFFICES ASSUME IInv, Restart PROVE NamesKnown' /\ NamesFollowed
  OBVIOUS
<1>1. store \in Inventory /\ metadata' = Loaded(store) /\ adapters' = LoadedAdapters(store)
      /\ item' = None /\ snapshot' = AllClients(None) /\ crashes \in Nat /\ crashes' = crashes + 1
  BY ConstantsAssumption DEF Restart, IInv, TypeOK
<1>2. NamesKnown'
  BY <1>1, LoadedNames DEF NamesKnown, NameKnown, HasName
<1>3. NamesFollowed
  BY <1>1 DEF NamesFollowed
<1> QED
  BY <1>2, <1>3

LEMMA NextNames == IInv /\ NamesKnown /\ [Next]_vars => NamesKnown' /\ NamesFollowed
<1> SUFFICES ASSUME IInv, NamesKnown, [Next]_vars PROVE NamesKnown' /\ NamesFollowed
  OBVIOUS
<1>1. CASE UNCHANGED vars
  BY <1>1 DEF vars, inventory, scan, client, NamesKnown, NameKnown, HasName, NamesFollowed
<1> QED
  BY <1>1, StepNames, RestartNames DEF Next

\* A name is never lost and comes only from Rename, which gives no record a
\* name that another has: for every set of names and every interleaving, a
\* scan or a command may at most bring an earlier name of a record back.
THEOREM NamesAreNeverLost == Spec => NamesKept
<1>1. Spec => []NamesKnown
  BY InitNames, NextNames, Invariance, PTL DEF Spec
<1>2. IInv /\ NamesKnown /\ [Next]_vars => [NamesFollowed]_vars
  BY NextNames
<1>3. Spec => [][NamesFollowed]_vars
  BY <1>1, <1>2, Invariance, PTL DEF Spec
<1> QED
  BY <1>3 DEF NamesKept, NamesFollowed

=============================================================================
