--------------------------- MODULE DeviceManager ---------------------------
(***************************************************************************)
(* The device manager of internal/core/manager.go: the inventory of known  *)
(* devices, the adapters that talk to them, the SQLite copy of the         *)
(* inventory, and the requests that run against them concurrently (the     *)
(* background discovery loop, the HTTP handlers, the Telegram bot).        *)
(*                                                                         *)
(* Every section the code runs under Manager.mu is one atomic action; what *)
(* it runs outside that mutex (an adapter call, a provider, SaveDevice) is *)
(* a step of its own, so that requests interleave exactly where the        *)
(* goroutines can.  scanMu, held over a whole Scan, is scanOwner.          *)
(*                                                                         *)
(* A record keeps the fields the properties tell apart.  IP, MAC, DUID and *)
(* names only decide which records are taken for the same device: that     *)
(* relation is the constant SameIdentity.                                  *)
(***************************************************************************)
EXTENDS Naturals, FiniteSets, Sequences

CONSTANTS
    DeviceID,        \* provider device identifiers
    Client,          \* goroutines that call the manager
    Request,         \* what each client may ask, and of which device
    Samsung,         \* identifiers of Samsung TV records
    Roku,            \* identifiers of Roku records
    Host,            \* those of remote Macs and consoles; any other record has
                     \* no factory that accepts it
    Unit,            \* the physical device behind each identifier
    SameIdentity,    \* pairs of records sameDeviceIdentity accepts
    Rank,            \* metadataRank of each record
    Alias, NoAlias,  \* names an operator may give; the empty alias
    Comparable,      \* names that normalizeDeviceName leaves something of
    Called,          \* the name each record was discovered with, or NoAlias
    None,            \* no record, no adapter, no client
    MaxSlots,        \* adapter objects of one device alive at once: clients + 1
    InitialStore,    \* inventories SQLite may hold when the daemon first starts
    MaxReports,      \* results the providers deliver in one scan
    MaxCrashes,      \* restarts of the daemon in one behaviour
    Fault            \* environment faults this instance admits

Operation == {"scan", "pair", "unpair", "execute", "power_on", "state", "rename"}
\* A row is not saved, a token is not deleted, a TV accepts and returns none.
FaultKind == {"saves", "secrets", "tokenless"}

Slot == 1 .. MaxSlots

Record == [paired: BOOLEAN, verified: BOOLEAN,
           alias: Alias \cup {NoAlias}, online: BOOLEAN]
Inventory == [DeviceID -> Record \cup {None}]
Save == [id: DeviceID, rec: Record]

ASSUME ConstantsAssumption ==
    /\ Request \in [Client -> SUBSET (Operation \X DeviceID)]
    /\ Samsung \subseteq DeviceID /\ Roku \subseteq DeviceID \ Samsung
    /\ Host \subseteq DeviceID \ (Samsung \cup Roku)
    /\ SameIdentity \subseteq DeviceID \X DeviceID
    /\ Rank \in [DeviceID -> Nat]
    /\ MaxSlots \in Nat \ {0}
    /\ InitialStore \subseteq Inventory
    /\ MaxReports \in Nat
    /\ MaxCrashes \in Nat
    /\ Fault \subseteq FaultKind
    /\ NoAlias \notin Alias /\ Comparable \subseteq Alias
    /\ Called \in [DeviceID -> Alias \cup {NoAlias}]
    /\ None \notin Record \cup Save \cup Slot \cup Client \cup DeviceID

(* Two records are merged only when they do belong to one device: the      *)
(* identifiers sameDeviceIdentity compares are taken to be truthful.       *)
ASSUME IdentityAssumption ==
    \A p \in SameIdentity : Unit[p[1]] = Unit[p[2]]

(* sameDeviceIdentity treats its two records alike. *)
ASSUME SymmetryAssumption ==
    \A i, j \in DeviceID : <<i, j>> \in SameIdentity <=> <<j, i>> \in SameIdentity

VARIABLES
    metadata,    \* Manager.metadata
    devices,     \* Manager.devices: the slot of the live adapter of an id
    adapters,    \* d.metadata of every adapter object something refers to
    store,       \* the devices table of SQLite
    scanOwner,   \* the client that holds scanMu
    seen,        \* ids registered by the scan in progress
    reports,     \* results delivered so far by the scan in progress
    item,        \* the reconciled result about to be registered
    pc,          \* where each client is
    target,      \* the device its request is about
    slot,        \* the adapter object it works with (variable d of the code)
    snapshot,    \* its copy of that adapter's metadata (variable md)
    back,        \* where it resumes after the scan or the saves it is in
    pending,     \* the SaveDevice calls it still has to make
    scanErr,     \* whether its last Scan returned an error
    outcome,     \* what its last adapter call returned
    audit,       \* audit rows written for its current command
    crashes,     \* restarts so far
    granted,     \* devices paired at the start or by an accepted prompt
    sighted,     \* ids registered by a scan since the daemon started
    doubtful     \* ids whose row may be older than their record

inventory == <<metadata, devices, adapters>>
scan      == <<scanOwner, seen, reports, item>>
client    == <<pc, target, slot, snapshot, back, pending, scanErr, outcome, audit>>
history   == <<granted, sighted, doubtful>>
vars      == <<inventory, store, scan, client, crashes, history>>

Label == {"idle", "scan_lock", "scan_collect", "scan_register", "scan_save",
          "scan_stale", "scan_end", "commit", "commit_save", "returning",
          "pair_lookup", "pair_missing", "pair_verify", "pair_attempt",
          "pair_relookup", "pair_reattempt", "pair_snap",
          "unpair_lookup", "unpair_attempt", "unpair_snap",
          "exec_lookup", "exec_attempt", "exec_relookup", "exec_reattempt",
          "wake_lookup", "wake_fresh", "wake_attempt", "wake_relookup",
          "wake_reattempt", "exec_snap", "exec_audit",
          "state_lookup", "state_attempt", "state_relookup", "state_reattempt",
          "rename_apply"}

ScanLabel == {"scan_collect", "scan_register", "scan_save", "scan_stale", "scan_end"}

\* Where the request goes on with an adapter it has looked up.
AdapterLabel ==
    {"pair_verify", "pair_attempt", "pair_relookup", "pair_reattempt", "pair_snap",
     "unpair_attempt", "unpair_snap", "exec_attempt", "exec_relookup",
     "exec_reattempt", "wake_fresh", "wake_attempt", "wake_relookup",
     "wake_reattempt", "exec_snap", "state_attempt", "state_relookup",
     "state_reattempt"}

ResumeLabel ==
    {"idle", "returning", "exec_audit", "pair_missing", "pair_verify",
     "pair_relookup", "wake_fresh", "wake_relookup", "exec_relookup",
     "state_relookup"}

Outcome == {"none", "ok", "failed", "unreachable", "unconfirmed"}

TypeOK ==
    /\ metadata \in Inventory
    /\ devices \in [DeviceID -> Slot \cup {None}]
    /\ adapters \in [DeviceID -> [Slot -> Record \cup {None}]]
    /\ store \in Inventory
    /\ scanOwner \in Client \cup {None}
    /\ seen \subseteq DeviceID
    /\ reports \in 0 .. MaxReports
    /\ scanOwner = None => seen = {} /\ reports = 0 /\ item = None
    /\ item \in Save \cup {None}
    /\ pc \in [Client -> Label]
    /\ target \in [Client -> DeviceID \cup {None}]
    /\ slot \in [Client -> Slot \cup {None}]
    /\ snapshot \in [Client -> Record \cup {None}]
    /\ back \in [Client -> ResumeLabel]
    /\ pending \in [Client -> SUBSET Save]
    /\ scanErr \in [Client -> BOOLEAN]
    /\ outcome \in [Client -> Outcome]
    /\ audit \in [Client -> Seq(BOOLEAN)]
    /\ crashes \in 0 .. MaxCrashes
    /\ sighted \subseteq DeviceID
    /\ doubtful \subseteq DeviceID

-----------------------------------------------------------------------------
(* Helpers *)

Known == {i \in DeviceID : metadata[i] # None}
IsSamsung(i) == i \in Samsung

\* Some factory accepts the record: a Samsung TV needs proof of its control
\* endpoint or a saved pairing, a Roku, remote Mac or console only its kind.
Supports(i, rec) == i \in Roku \cup Host \/ (IsSamsung(i) /\ (rec.verified \/ rec.paired))

Same(i, j) == <<i, j>> \in SameIdentity

\* Mutant: duplicates are not looked for.
MutTwins(i) == {}

\* The other records of the device i stands for.
Twins(i) == {j \in Known \ {i} : Same(j, i)}

\* The adapter objects of i that the manager or a client still refers to.
Referenced(i, devs, slots, targets) ==
    {devs[i]} \cup {slots[c] : c \in {d \in Client : targets[d] = i}}

\* An adapter nothing refers to any more is garbage.
Collect(ads, devs, slots, targets) ==
    [i \in DeviceID |-> [s \in Slot |->
        IF s \in Referenced(i, devs, slots, targets) THEN ads[i][s] ELSE None]]

\* Where the next adapter of i is created: the first object no client holds.
FreeSlot(i, s) ==
    LET held == {slot[c] : c \in {d \in Client : target[d] = i}}
    IN s \in Slot \ held /\ \A r \in Slot \ held : s <= r

\* Records of one device another record may lose to in reconcileDiscovery's
\* loop over the map.  Rows of equal rank are ordered by LastSeen, which is
\* not modelled: either may win.
Candidates(i) ==
    LET matches == {j \in Known : Same(j, i)} IN
    {j \in matches : ~ \E k \in matches :
        /\ Rank[k] > Rank[j]
        /\ metadata[k].paired \/ ~metadata[j].paired}

\* Devices that may be paired: granted ones and those that ask no one.
Allowed == granted \cup {Unit[i] : i \in Roku}

Goto(c, label) == pc' = [pc EXCEPT ![c] = label]

\* Client c has changed the records of ids and saves them next.  Their rows
\* follow, unless another client has yet to save an older one.
ToSave(c, ids) ==
    /\ pending' = [pending EXCEPT ![c] = {[id |-> i, rec |-> metadata'[i]] : i \in ids}]
    /\ doubtful' = (doubtful \ ids)
           \cup {i \in ids : \E d \in Client \ {c} : \E s \in pending[d] : s.id = i}

-----------------------------------------------------------------------------
(* The daemon starts: NewManager on the rows SQLite holds. *)

\* Mutant: a restarted daemon believes the saved online flag.
MutReload(row) == row

\* The record a daemon starts with for a saved row.
Reload(row) == IF row = None THEN None ELSE [row EXCEPT !.online = FALSE]

ReloadedAdapter(rows, i) ==
    IF rows[i] # None /\ Supports(i, rows[i]) THEN 1 ELSE None

Loaded(rows) == [i \in DeviceID |-> Reload(rows[i])]

LoadedDevices(rows) == [i \in DeviceID |-> ReloadedAdapter(rows, i)]

LoadedAdapters(rows) ==
    [i \in DeviceID |-> [s \in Slot |->
        IF s = ReloadedAdapter(rows, i) THEN Reload(rows[i]) ELSE None]]

PairedIn(rows) == {Unit[i] : i \in {j \in DeviceID : rows[j] # None /\ rows[j].paired}}

AllClients(value) == [c \in Client |-> value]

Init ==
    /\ store \in InitialStore
    /\ metadata = Loaded(store)
    /\ devices = LoadedDevices(store)
    /\ adapters = LoadedAdapters(store)
    /\ scanOwner = None /\ seen = {} /\ reports = 0 /\ item = None
    /\ pc = AllClients("idle") /\ back = AllClients("idle")
    /\ target = AllClients(None) /\ slot = AllClients(None)
    /\ snapshot = AllClients(None) /\ pending = AllClients({})
    /\ scanErr = AllClients(FALSE) /\ outcome = AllClients("none")
    /\ audit = AllClients(<<>>)
    /\ crashes = 0
    /\ granted = PairedIn(store) /\ sighted = {} /\ doubtful = {}

\* The process dies at any point; what SQLite holds is all that is left.
Restart ==
    /\ crashes < MaxCrashes
    /\ crashes' = crashes + 1
    /\ metadata' = Loaded(store)
    /\ devices' = LoadedDevices(store)
    /\ adapters' = LoadedAdapters(store)
    /\ scanOwner' = None /\ seen' = {} /\ reports' = 0 /\ item' = None
    /\ pc' = AllClients("idle") /\ back' = AllClients("idle")
    /\ target' = AllClients(None) /\ slot' = AllClients(None)
    /\ snapshot' = AllClients(None) /\ pending' = AllClients({})
    /\ scanErr' = AllClients(FALSE) /\ outcome' = AllClients("none")
    /\ audit' = AllClients(<<>>)
    /\ sighted' = {} /\ doubtful' = {}
    /\ UNCHANGED <<store, granted>>

-----------------------------------------------------------------------------
(* Requests arrive and return. *)

EntryLabel ==
    [scan |-> "scan_lock", pair |-> "pair_lookup", unpair |-> "unpair_lookup",
     execute |-> "exec_lookup", power_on |-> "wake_lookup",
     state |-> "state_lookup", rename |-> "rename_apply"]

Begin(c, op, i) ==
    /\ pc[c] = "idle"
    /\ <<op, i>> \in Request[c]
    /\ Goto(c, EntryLabel[op])
    /\ target' = [target EXCEPT ![c] = i]
    /\ back' = [back EXCEPT ![c] = "returning"]
    /\ UNCHANGED <<inventory, store, scan, slot, snapshot, pending, scanErr,
                   outcome, audit, crashes, history>>

Return(c) ==
    /\ pc[c] = "returning"
    /\ Goto(c, "idle")
    /\ target' = [target EXCEPT ![c] = None]
    /\ slot' = [slot EXCEPT ![c] = None]
    /\ snapshot' = [snapshot EXCEPT ![c] = None]
    /\ back' = [back EXCEPT ![c] = "idle"]
    /\ scanErr' = [scanErr EXCEPT ![c] = FALSE]
    /\ outcome' = [outcome EXCEPT ![c] = "none"]
    /\ audit' = [audit EXCEPT ![c] = <<>>]
    /\ adapters' = Collect(adapters, devices, slot', target')
    /\ UNCHANGED <<metadata, devices, store, scan, pending, crashes, history>>

-----------------------------------------------------------------------------
(* Manager.Scan *)

StartScan(c, label) ==
    /\ Goto(c, "scan_lock")
    /\ back' = [back EXCEPT ![c] = label]

ScanLock(c) ==
    /\ pc[c] = "scan_lock"
    /\ scanOwner = None
    /\ scanOwner' = c
    /\ Goto(c, "scan_collect")
    /\ UNCHANGED <<inventory, store, seen, reports, item, target, slot, snapshot,
                   back, pending, scanErr, outcome, audit, crashes, history>>

\* Mutant: a device that answers a provider is taken for paired.
MutReportedPaired(i) == BOOLEAN

\* What a provider says of the pairing of i: a Roku that answers ECP is paired
\* as it is, any other record starts unpaired.
ReportedPaired(i) == IF i \in Roku THEN BOOLEAN ELSE {FALSE}

\* One provider result: normalised, then matched with a known record under
\* the read lock.  The match lends it its id, pairing, proof and alias.
Reconcile(c, i, paired, verified) ==
    /\ pc[c] = "scan_collect"
    /\ reports < MaxReports
    /\ reports' = reports + 1
    /\ \/ /\ Candidates(i) = {}
          /\ item' = [id |-> i, rec |-> [paired |-> paired, verified |-> verified,
                                         alias |-> NoAlias, online |-> TRUE]]
       \/ \E j \in Candidates(i) :
             item' = [id |-> j,
                      rec |-> [paired |-> paired \/ metadata[j].paired,
                               verified |-> verified \/ metadata[j].verified,
                               alias |-> metadata[j].alias,
                               online |-> TRUE]]
    /\ Goto(c, "scan_register")
    /\ UNCHANGED <<inventory, store, scanOwner, seen, target, slot, snapshot, back,
                   pending, scanErr, outcome, audit, crashes, history>>

\* Mutant: any paired record lends its pairing.
MutRegistered(i, rec) ==
    LET old == metadata[i]
        known == old # None
    IN [paired   |-> rec.paired \/ \E j \in Known : metadata[j].paired,
        verified |-> rec.verified \/ (known /\ old.verified),
        alias    |-> IF known /\ rec.alias = NoAlias THEN old.alias ELSE rec.alias,
        online   |-> TRUE]

\* Mutant: the alias of the known record is not carried over.
MutRegisteredAlias(i, rec) ==
    LET old == metadata[i]
        known == old # None
    IN [paired |-> rec.paired \/ (known /\ old.paired),
        verified |-> rec.verified \/ (known /\ old.verified),
        alias |-> NoAlias, online |-> TRUE]

\* What register makes of a result for i: what the known record and its
\* duplicates say about pairing is read again, under the write lock.
Registered(i, rec) ==
    LET old == metadata[i]
        known == old # None
    IN [paired   |-> \/ rec.paired
                     \/ known /\ old.paired
                     \/ \E j \in Twins(i) : metadata[j].paired,
        verified |-> rec.verified \/ (known /\ old.verified),
        alias    |-> IF known /\ rec.alias = NoAlias THEN old.alias ELSE rec.alias,
        online   |-> TRUE]

\* A record no factory accepts keeps the adapter it has.
Unsupported(i) == UNCHANGED <<devices, adapters>>

Register(c) ==
    /\ pc[c] = "scan_register"
    /\ LET i == item.id
           rec == Registered(i, item.rec)
       IN /\ metadata' = [metadata EXCEPT ![i] = rec]
          /\ IF Supports(i, rec)
             THEN \E s \in Slot :
                    /\ FreeSlot(i, s)
                    /\ devices' = [devices EXCEPT ![i] = s]
                    /\ adapters' = Collect([adapters EXCEPT ![i][s] = rec],
                                           devices', slot, target)
             ELSE Unsupported(i)
          /\ seen' = seen \cup {i}
          /\ sighted' = sighted \cup {i}
          /\ ToSave(c, {i})
    /\ item' = None
    /\ Goto(c, "scan_save")
    /\ UNCHANGED <<store, scanOwner, reports, target, slot, snapshot, back,
                   scanErr, outcome, audit, crashes, granted>>

\* All providers have answered: records they did not report are offline.
MarkUnseen(c) ==
    LET stale == {i \in Known \ seen : metadata[i].online} IN
    /\ pc[c] = "scan_collect"
    /\ metadata' = [i \in DeviceID |->
                      IF i \in stale THEN [metadata[i] EXCEPT !.online = FALSE]
                      ELSE metadata[i]]
    /\ ToSave(c, stale)
    /\ Goto(c, IF stale = {} THEN "scan_end" ELSE "scan_stale")
    /\ UNCHANGED <<devices, adapters, store, scan, target, slot, snapshot, back,
                   scanErr, outcome, audit, crashes, granted, sighted>>

\* Mutant: the set of reported devices survives into the next scan.
MutScanReset == seen' = seen /\ reports' = 0

ScanReset == seen' = {} /\ reports' = 0

\* A scan fails when a provider failed and no record, new or remembered, is
\* in a category the operator lets be shown; categories are not modelled.
ScanEnd(c, failed) ==
    /\ pc[c] = "scan_end"
    /\ scanErr' = [scanErr EXCEPT ![c] = failed]
    /\ scanOwner' = None
    /\ ScanReset
    /\ Goto(c, back[c])
    /\ UNCHANGED <<inventory, store, item, target, slot, snapshot, back, pending,
                   outcome, audit, crashes, history>>

-----------------------------------------------------------------------------
(* SaveDevice, outside the mutex, one record at a time in map order.  It    *)
(* runs under the context of its request or scan, which may be cancelled   *)
(* or past its deadline, and on connections that do not wait for each      *)
(* other: any save may fail, and the manager goes on.                      *)

\* Mutant: an INSERT that ignores conflicts.
MutInsertOnly(s) == IF store[s.id] # None THEN store ELSE [store EXCEPT ![s.id] = s.rec]

\* Mutant: the UPDATE of a known row leaves the alias out.
MutUpsert(s) ==
    [store EXCEPT ![s.id] = IF @ = None THEN s.rec ELSE [s.rec EXCEPT !.alias = store[s.id].alias]]

Upsert(s) == [store EXCEPT ![s.id] = s.rec]

AfterSaves(c, label) ==
    CASE label = "scan_save"  -> "scan_collect"
      [] label = "scan_stale" -> "scan_end"
      [] OTHER                -> back[c]

SaveDevice(c, s) ==
    /\ pc[c] \in {"scan_save", "scan_stale", "commit_save"}
    /\ s \in pending[c]
    /\ pending' = [pending EXCEPT ![c] = @ \ {s}]
    /\ \/ store' = Upsert(s) /\ UNCHANGED doubtful
       \/ "saves" \in Fault /\ UNCHANGED store /\ doubtful' = doubtful \cup {s.id}
    /\ pc' = [pc EXCEPT ![c] = IF pending'[c] = {} THEN AfterSaves(c, pc[c]) ELSE @]
    /\ UNCHANGED <<inventory, scan, target, slot, snapshot, back, scanErr, outcome,
                   audit, crashes, granted, sighted>>

-----------------------------------------------------------------------------
(* Manager.device, the lookup under the read lock every request starts with *)

Found(c) == devices[target[c]] # None

Take(c) ==
    /\ slot' = [slot EXCEPT ![c] = devices[target[c]]]
    /\ adapters' = Collect(adapters, devices, slot', target)

Keep(c) == UNCHANGED <<slot, adapters>>

\* After a rescan the request goes on with the adapter there is, or else with
\* the one it has.
Refresh(c) == IF Found(c) THEN Take(c) ELSE Keep(c)

\* A step of client c that reads the inventory and moves on.
Reads(c) ==
    UNCHANGED <<metadata, devices, store, scan, target, snapshot, pending, scanErr,
                outcome, audit, crashes, history>>

Proceed(c, label) == Goto(c, label) /\ UNCHANGED back

\* Mutant: the retry has no limit.
MutFirstAttempt(c) == TRUE

\* An adapter call that fails as unreachable is made again after a rescan,
\* once per request.
FirstAttempt(c) ==
    pc[c] \in {"pair_attempt", "exec_attempt", "wake_attempt", "state_attempt"}

RescanThen(c) ==
    CASE pc[c] \in {"pair_attempt", "pair_reattempt"}   -> "pair_relookup"
      [] pc[c] \in {"exec_attempt", "exec_reattempt"}   -> "exec_relookup"
      [] pc[c] \in {"wake_attempt", "wake_reattempt"}   -> "wake_relookup"
      [] pc[c] \in {"state_attempt", "state_reattempt"} -> "state_relookup"

\* The adapter was unreachable: rescan, or go on to label.
Unreachable(c, label) ==
    /\ outcome' = [outcome EXCEPT ![c] = "unreachable"]
    /\ UNCHANGED adapters
    /\ IF FirstAttempt(c) THEN StartScan(c, RescanThen(c)) ELSE Proceed(c, label)

(* Manager.Pair *)

\* A Samsung TV is always rescanned first, whether or not it has an adapter.
PairLookup(c) ==
    /\ pc[c] = "pair_lookup"
    /\ LET known == metadata[target[c]] # None
           isTV == known /\ IsSamsung(target[c])
       IN \/ Found(c) /\ isTV  /\ Take(c) /\ StartScan(c, "pair_verify")
          \/ Found(c) /\ ~isTV /\ Take(c) /\ Proceed(c, "pair_attempt")
          \/ ~Found(c) /\ isTV  /\ Keep(c) /\ StartScan(c, "pair_missing")
          \/ ~Found(c) /\ ~isTV /\ Keep(c) /\ Proceed(c, "returning")
    /\ Reads(c)

\* The record had no adapter before the scan: ControlVerified is not checked.
PairMissing(c) ==
    /\ pc[c] = "pair_missing"
    /\ back' = [back EXCEPT ![c] = "returning"]
    /\ \/ Found(c) /\ Take(c) /\ Goto(c, "pair_attempt")
       \/ ~Found(c) /\ Keep(c) /\ Goto(c, "returning")
    /\ Reads(c)

PairVerify(c) ==
    /\ pc[c] = "pair_verify"
    /\ back' = [back EXCEPT ![c] = "returning"]
    /\ Refresh(c)
    /\ Goto(c, IF metadata[target[c]].verified THEN "pair_attempt" ELSE "returning")
    /\ Reads(c)

\* A step of client c that only waits for an adapter.
Calls(c) ==
    UNCHANGED <<metadata, devices, store, scan, target, slot, snapshot, pending,
                scanErr, audit, crashes, sighted, doubtful>>

\* Mutant: unpairing does not reach the adapter object.
MutSetPaired(c, paired) ==
    adapters' = [adapters EXCEPT ![target[c]][slot[c]].paired = @ \/ paired]

\* A Roku adapter has no pairing to keep: its Pair and Unpair do nothing.
SetPaired(c, paired) ==
    IF target[c] \in Roku THEN UNCHANGED adapters
    ELSE adapters' = [adapters EXCEPT ![target[c]][slot[c]].paired = paired]

\* The pairing prompt.  Accepted, the adapter is paired and its token saved;
\* a TV that accepts without returning a token leaves the adapter paired and
\* the call failed; rejected or unanswered, nothing changes.
PairAttempt(c) ==
    /\ pc[c] \in {"pair_attempt", "pair_reattempt"}
    /\ \/ /\ outcome' = [outcome EXCEPT ![c] = "ok"]
          /\ SetPaired(c, TRUE)
          /\ granted' = granted \cup {Unit[target[c]]}
          /\ Proceed(c, "pair_snap")
       \/ /\ outcome' = [outcome EXCEPT ![c] = "failed"]
          /\ \/ UNCHANGED <<adapters, granted>>
             \/ /\ "tokenless" \in Fault /\ IsSamsung(target[c])
                /\ SetPaired(c, TRUE)
                /\ granted' = granted \cup {Unit[target[c]]}
          /\ Proceed(c, "returning")
       \/ Unreachable(c, "returning") /\ UNCHANGED granted
    /\ Calls(c)

PairRelookup(c) ==
    /\ pc[c] = "pair_relookup"
    /\ back' = [back EXCEPT ![c] = "returning"]
    /\ Refresh(c)
    /\ Goto(c, IF Found(c) THEN "pair_reattempt" ELSE "returning")
    /\ Reads(c)

(* Manager.Unpair *)

UnpairLookup(c) ==
    /\ pc[c] = "unpair_lookup"
    /\ \/ Found(c) /\ Take(c) /\ Proceed(c, "unpair_attempt")
       \/ ~Found(c) /\ Keep(c) /\ Proceed(c, "returning")
    /\ Reads(c)

\* The adapter forgets its pairing even when deleting the token fails, and
\* the manager then returns before it touches its own record.
UnpairAttempt(c) ==
    /\ pc[c] = "unpair_attempt"
    /\ SetPaired(c, FALSE)
    /\ \/ outcome' = [outcome EXCEPT ![c] = "ok"] /\ Proceed(c, "unpair_snap")
       \/ /\ "secrets" \in Fault
          /\ outcome' = [outcome EXCEPT ![c] = "failed"]
          /\ Proceed(c, "returning")
    /\ UNCHANGED granted
    /\ Calls(c)

(* setPairingState, the one write path of Pair, Unpair and Execute *)

\* The request copies the adapter's metadata: Pair and Unpair then set the
\* Paired field of the copy, Execute keeps what the adapter says.
Snap(c) ==
    LET md == adapters[target[c]][slot[c]] IN
    /\ \/ /\ pc[c] = "pair_snap"
          /\ snapshot' = [snapshot EXCEPT ![c] = [md EXCEPT !.paired = TRUE]]
          /\ UNCHANGED back
       \/ /\ pc[c] = "unpair_snap"
          /\ snapshot' = [snapshot EXCEPT ![c] = [md EXCEPT !.paired = FALSE]]
          /\ UNCHANGED back
       \/ /\ pc[c] = "exec_snap"
          /\ snapshot' = [snapshot EXCEPT ![c] = md]
          /\ back' = [back EXCEPT ![c] = "exec_audit"]
    /\ Goto(c, "commit")
    /\ UNCHANGED <<inventory, store, scan, target, slot, pending, scanErr, outcome,
                   audit, crashes, history>>

\* The copy replaces the record, which lends it only a missing alias; the
\* duplicates of the device take over its pairing state.
SetPairingState(c) ==
    LET i == target[c]
        md == snapshot[c]
        own == IF md.alias = NoAlias /\ metadata[i] # None
               THEN [md EXCEPT !.alias = metadata[i].alias] ELSE md
    IN /\ pc[c] = "commit"
       /\ metadata' = [j \in DeviceID |->
                         CASE j = i          -> own
                           [] j \in Twins(i) -> [metadata[j] EXCEPT !.paired = md.paired]
                           [] OTHER          -> metadata[j]]
       /\ ToSave(c, Twins(i) \cup {i})
       /\ Goto(c, "commit_save")
       /\ UNCHANGED <<devices, adapters, store, scan, target, slot, snapshot, back,
                      scanErr, outcome, audit, crashes, granted, sighted>>

(* Manager.Execute, which also runs power_on *)

\* Without an adapter the command is audited as failed and refused.
ExecuteLookup(c) ==
    /\ \/ /\ pc[c] = "exec_lookup" /\ Found(c)
          /\ Take(c) /\ Proceed(c, "exec_attempt")
       \/ /\ pc[c] = "wake_lookup" /\ Found(c)
          /\ Take(c) /\ StartScan(c, "wake_fresh")
       \/ /\ pc[c] \in {"exec_lookup", "wake_lookup"} /\ ~Found(c)
          /\ Keep(c) /\ Proceed(c, "exec_audit")
    /\ Reads(c)

\* Before a wake-up packet the address is refreshed, if the scan worked.
WakeRefresh(c) ==
    /\ pc[c] = "wake_fresh"
    /\ IF scanErr[c] THEN Keep(c) ELSE Refresh(c)
    /\ Proceed(c, "wake_attempt")
    /\ Reads(c)

\* One Execute of the adapter.  A Samsung key that finds no token, or that
\* the TV rejects, fails and leaves the adapter unpaired.  Only the first
\* reachability failure is followed by a rescan and a second attempt, and
\* never a wake-up that was sent and not confirmed.
ExecuteAttempt(c) ==
    LET wake == pc[c] \in {"wake_attempt", "wake_reattempt"} IN
       /\ pc[c] \in {"exec_attempt", "exec_reattempt", "wake_attempt", "wake_reattempt"}
       /\ UNCHANGED granted
       /\ \/ /\ outcome' = [outcome EXCEPT ![c] = "ok"]
             /\ UNCHANGED adapters
             /\ Proceed(c, "exec_snap")
          \/ /\ outcome' = [outcome EXCEPT ![c] = "failed"]
             /\ \/ UNCHANGED adapters
                \/ ~wake /\ IsSamsung(target[c]) /\ SetPaired(c, FALSE)
             /\ Proceed(c, "exec_snap")
          \/ /\ wake /\ IsSamsung(target[c])
             /\ outcome' = [outcome EXCEPT ![c] = "unconfirmed"]
             /\ UNCHANGED adapters
             /\ Proceed(c, "exec_snap")
          \/ Unreachable(c, "exec_snap")
       /\ Calls(c)

ExecuteRelookup(c) ==
    /\ pc[c] \in {"exec_relookup", "wake_relookup"}
    /\ \/ /\ scanErr[c] \/ ~Found(c)
          /\ Keep(c) /\ Proceed(c, "exec_snap")
       \/ /\ ~scanErr[c] /\ Found(c) /\ Take(c)
          /\ Proceed(c, IF pc[c] = "exec_relookup" THEN "exec_reattempt"
                                                   ELSE "wake_reattempt")
    /\ Reads(c)

Verdict(c) == outcome[c] = "ok"

\* The one audit row of the command, under the context of the request and on
\* connections that do not wait: it may fail, which is ignored.
ExecuteAudit(c) ==
    /\ pc[c] = "exec_audit"
    /\ \/ audit' = [audit EXCEPT ![c] = Append(@, Verdict(c))]
       \/ UNCHANGED audit
    /\ Goto(c, "returning")
    /\ UNCHANGED <<inventory, store, scan, target, slot, snapshot, back, pending,
                   scanErr, outcome, crashes, history>>

(* Manager.State: a read, retried once after a rescan *)

StateLookup(c) ==
    /\ pc[c] = "state_lookup"
    /\ \/ Found(c) /\ Take(c) /\ Proceed(c, "state_attempt")
       \/ ~Found(c) /\ Keep(c) /\ Proceed(c, "returning")
    /\ Reads(c)

StateAttempt(c) ==
    /\ pc[c] \in {"state_attempt", "state_reattempt"}
    /\ UNCHANGED granted
    /\ \/ /\ \E o \in {"ok", "failed"} : outcome' = [outcome EXCEPT ![c] = o]
          /\ UNCHANGED adapters
          /\ Proceed(c, "returning")
       \/ Unreachable(c, "returning")
    /\ Calls(c)

StateRelookup(c) ==
    /\ pc[c] = "state_relookup"
    /\ back' = [back EXCEPT ![c] = "returning"]
    /\ \/ (scanErr[c] \/ ~Found(c)) /\ Keep(c) /\ Goto(c, "returning")
       \/ ~scanErr[c] /\ Found(c) /\ Take(c) /\ Goto(c, "state_reattempt")
    /\ Reads(c)

(* Manager.Rename *)

\* Mutant: only the names operators gave are compared.
MutTaken(i, a) == a \in Comparable /\ \E j \in Known \ {i} : a = metadata[j].alias

\* Another record has the name, given or discovered.  Names are compared by
\* their letters a to z and digits; one without any is never taken.
Taken(i, a) == a \in Comparable /\ \E j \in Known \ {i} : a \in {metadata[j].alias, Called[j]}

\* Refused when the record is unknown or the name taken; the adapter's copy of
\* the metadata is not told.
Rename(c, a) ==
    LET i == target[c] IN
       /\ pc[c] = "rename_apply"
       /\ \/ /\ i \notin Known \/ Taken(i, a)
             /\ Goto(c, "returning")
             /\ UNCHANGED <<metadata, pending, doubtful>>
          \/ /\ i \in Known /\ ~Taken(i, a)
             /\ metadata' = [metadata EXCEPT ![i].alias = a]
             /\ ToSave(c, {i})
             /\ Goto(c, "commit_save")
       /\ UNCHANGED <<devices, adapters, store, scan, target, slot, snapshot, back,
                      scanErr, outcome, audit, crashes, granted, sighted>>

-----------------------------------------------------------------------------
NewRequest(c) == \E op \in Operation, i \in DeviceID : Begin(c, op, i)

Step(c) ==
    \/ Return(c)
    \/ ScanLock(c)
    \/ \E i \in DeviceID : \E p \in ReportedPaired(i), v \in BOOLEAN : Reconcile(c, i, p, v)
    \/ Register(c) \/ MarkUnseen(c)
    \/ \E failed \in BOOLEAN : ScanEnd(c, failed)
    \/ \E s \in pending[c] : SaveDevice(c, s)
    \/ PairLookup(c) \/ PairMissing(c) \/ PairVerify(c)
    \/ PairAttempt(c) \/ PairRelookup(c)
    \/ UnpairLookup(c) \/ UnpairAttempt(c)
    \/ ExecuteLookup(c) \/ WakeRefresh(c) \/ ExecuteAttempt(c)
    \/ ExecuteRelookup(c) \/ ExecuteAudit(c)
    \/ Snap(c) \/ SetPairingState(c)
    \/ StateLookup(c) \/ StateAttempt(c) \/ StateRelookup(c)
    \/ \E a \in Alias : Rename(c, a)

Next == Restart \/ \E c \in Client : NewRequest(c) \/ Step(c)

Spec == Init /\ [][Next]_vars

\* Goroutines run, providers and adapters answer or time out (every request
\* has a deadline), and Go's mutexes do not starve a waiter.
FairSpec ==
    /\ Spec
    /\ \A c \in Client : WF_vars(Step(c)) /\ SF_vars(ScanLock(c))

-----------------------------------------------------------------------------
(* Properties of every interleaving *)

\* Pairing never spreads to a device nobody paired: a record is paired only
\* if its device was, at the start or by an accepted prompt, or is a Roku,
\* however scans, duplicates, stale copies and restarts hand the flag around
\* (register 678-688, reconcileDiscovery 590, setPairingState 1000-1011).
PairingProvenance ==
    \A i \in Known : metadata[i].paired => Unit[i] \in Allowed

\* A device reported online was seen by a scan of this daemon, although rows
\* are saved with the flag and commands write old copies back (NewManager
\* 53-60, "honest offline state").
OnlineMeansSighted ==
    \A i \in Known : metadata[i].online => i \in sighted

\* What can still say that unit u is paired: its records and rows, adapters
\* that somebody uses, and what scans and requests carry or have yet to save.
Says(rec) == rec # None /\ rec.paired
Remembered(u) ==
    \E i \in DeviceID : Unit[i] = u /\
        \/ Says(metadata[i]) \/ Says(store[i])
        \/ \E s \in Slot : Says(adapters[i][s])
        \/ item # None /\ item.id = i /\ item.rec.paired
        \/ \E c \in Client :
              \/ target[c] = i /\ (pc[c] = "pair_snap" \/ Says(snapshot[c]))
              \/ \E s \in pending[c] : s.id = i /\ s.rec.paired

\* The prompt of unit u is answered.
Prompted(c, u) ==
    /\ pc[c] \in {"pair_attempt", "pair_reattempt"} /\ Unit[target[c]] = u
    /\ outcome'[c] \in {"ok", "failed"}

\* Scans, adapters, requests and restarts hand a pairing on and write old ones
\* back, but they make none: once nothing says any more that a device is
\* paired, only the answer to a prompt of its own makes it so, however all of them
\* interleave (register 675-688, reconcileDiscovery 590, setPairingState
\* 1000-1014, Pair 855, NewManager 51-76).  A Roku is paired as it is.
PairingNeedsPrompt ==
    [][\A u \in {Unit[i] : i \in DeviceID} \ {Unit[i] : i \in Roku} :
          ~Remembered(u) /\ Remembered(u)' => \E c \in Client : Prompted(c, u)]_vars

\* Records that some request has yet to save.
Unsaved == UNION {{s.id : s \in pending[c]} : c \in Client}

\* SQLite follows the inventory although requests write and save in sections of
\* their own: a restart brings back each record, but for its online flag,
\* unless its last save failed, was under way, or overlapped that of another
\* request (README 172, SaveDevice in register 711, markUnseen 664,
\* setPairingState 1020, Rename 799).
RowsFollow ==
    \A i \in DeviceID \ (doubtful \cup Unsaved) : Reload(store[i]) = Reload(metadata[i])

\* No record but i has the name a, as far as names are compared.
Unshared(i, a) ==
    a \in Comparable => \A j \in Known \ {i} : a # metadata[j].alias /\ a # Called[j]

\* The names that something remembers for record i.
Names(i) ==
    LET copies == {metadata[i]} \cup {adapters[i][s] : s \in Slot}
                  \cup {snapshot[c] : c \in {d \in Client : target[d] = i}}
                  \cup (IF item # None /\ item.id = i THEN {item.rec} ELSE {})
    IN {r.alias : r \in copies \ {None}}

\* A name is never lost, and comes only from a Rename, which gives no record a
\* name another one has: scans and commands may at most bring an earlier name
\* of the same record back (register 695-698, setPairingState 1003-1005).
NamesKept ==
    [][\A i \in Known : metadata'[i] # None /\ crashes' = crashes
          /\ metadata'[i].alias # metadata[i].alias
          => \/ \E c \in Client : pc[c] = "rename_apply" /\ target[c] = i
                                  /\ Unshared(i, metadata'[i].alias)
             \/ /\ metadata[i].alias # NoAlias
                /\ metadata'[i].alias \in Names(i) \ {NoAlias}]_vars

\* A request that has begun returns: no cycle of scanMu, mu and the rescans
\* nested in Pair, Execute and State holds it forever, so that every client is
\* idle again and again.
RequestsReturn ==
    \A c \in Client : []<>(pc[c] = "idle")

-----------------------------------------------------------------------------
(* Properties of requests that do not overlap *)

Quiet == \A c \in Client : pc[c] = "idle"

\* The devices known under one record and told apart from a Roku, whose
\* adapter says "paired" whatever happens.
Alone == {i \in DeviceID \ Roku : \A j \in DeviceID \ {i} : ~Same(i, j)}

\* Between requests all records of one device agree on its pairing
\* (setPairingState 989-992).
DuplicatesAgree ==
    Quiet => \A i, j \in Known : Same(i, j) => metadata[i].paired = metadata[j].paired

\* Once unpaired, a device is reported paired again only because a Pair
\* request succeeded: no scan and no command brings the old state back
\* (register 678-682, setPairingState 989-992).  A restart may lose the last
\* unsaved change.
PairedOnlyByPairing ==
    [][\A i \in Known \cap Alone : metadata'[i] # None /\ crashes' = crashes
          /\ ~metadata[i].paired /\ metadata'[i].paired
          => \E c \in Client : pc[c] = "commit" /\ back[c] = "returning"]_vars

=============================================================================
