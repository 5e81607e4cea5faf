# Verification of local-device-bridge

TLA+ specifications of the daemon's own logic, checked with TLC on small
instances and, for the properties that matter most, proved with TLAPS for every
value of the constants. Paths and line numbers refer to the repository's `src/`.

1. [The system](#1-the-system): components, state, operations, interactions
2. [What is hard](#2-what-is-hard)
3. [Modules](#3-modules): what models what
4. [Runs](#4-runs): what each shows, bounds, fairness
5. [Proofs](#5-proofs)
6. [Where code and documents disagree](#6-where-code-and-documents-disagree)
7. [Abstractions and what is not modelled](#7-abstractions-and-what-is-not-modelled)
8. [Plan](#8-plan)

To repeat the work, in this directory:

    tlc -workers 2 -config ManagerOverlap.cfg MCDeviceManager
    tlapm DeviceManagerProofs.tla

## 1. The system

One daemon per state directory finds the devices of a home network and runs
commands on them for a dashboard, a CLI, a Telegram bot and agents.

    dashboard, CLI, agents ──HTTP──▶ api.Server ─┐
    Telegram ──long poll──▶ telegram.Bot ────────┤
    discovery loop (main.go) ── Scan ────────────┼─▶ core.Manager ─▶ adapters ─▶ devices
                                                 │        │  ▲
                        providers ── results ────┘        │  └─ metadata, devices (mutex mu)
                                                          ▼
                                       SQLite (devices, audit)      secret store

| Component | Source | State | Operations | What makes it correct |
|---|---|---|---|---|
| Device manager | `internal/core/manager.go` | `metadata`, `devices` under `mu`; `scanMu`; adapters' own copies of the metadata | `NewManager`, `Scan`, `Pair`, `Unpair`, `Execute`, `State`, `Rename`, `List`, `ResolveDeviceReference` | pairing never spreads and comes only from a prompt; online is honest; names are not lost; requests return |
| State store | `internal/store/sqlite.go` | tables `devices`, `audit` | `SaveDevice`, `LoadDevices`, `Audit`, `ListAudit` | a restart forgets only what failed to be saved |
| Daemon lock | `internal/daemonlock/lock.go` | a PID file | `Acquire`, `Close` | one daemon per directory; stale locks do not block |
| HTTP API | `internal/api/server.go` | `pairTokens` under `pairMu`, operator token, settings | sessions, phone links, settings, device requests | a link opens one session before its expiry; file, API and manager agree on settings |
| Samsung adapter | `internal/samsung/samsung.go` | metadata copy; tokens in the secret store | `Pair`, `Unpair`, `State`, `Execute` | tokens match the TV; keys are not sent twice; power toggles at most once |
| Roku adapter | `internal/roku/roku.go` | none beyond metadata | same interface, ECP requests | no pairing to keep |
| macOS adapter | `internal/macos` | a pairing secret for a remote Mac | same interface | fails closed |
| Console adapter | `internal/console` | none | wake, state | fails closed |
| Secret store | `internal/security/secrets.go` | keychain and a fallback file, shared by daemon and CLI | `Get`, `Set`, `Delete` | what was set last is what is read; deleted is gone; one name does not disturb another; daemon and CLI hold one token |
| Telegram bot | `internal/telegram/bot.go` | update offset and button aliases (memory) | poll, handle a message, handle a tap | every update handled, none twice in a run; commands mean what the help says; buttons keep their device |
| Daemon lifecycle | `cmd/local-device-bridge/main.go` | the running services, the open store | `runDaemon`, `serveWithRecovery`, `runDiscoveryLoop` | the listener comes back; a signal ends the daemon; the store is open in one process |
| CLI | `internal/cli` | none | commands, setup, `ensureDaemonReady` | never starts a second daemon |
| Configuration | `internal/config` | the JSON file, written by the dashboard and by setup | `Load`, `Save` | a change reverts no other; file, API and manager agree |
| Discovery | `internal/discovery` | none kept | mDNS, SSDP, ARP and port sweeps | what it reports lets the manager tell devices apart |
| Service installation | `internal/service` | unit files | install, uninstall, status | the service restarts a failed daemon and runs one |
| TLS | `internal/api/tls.go` | certificate files | generate, load | |
| Dashboard | `internal/api/static` | browser state | polls the API | |

**Interactions.** Every request ends in the manager. It keeps a record per
device id (`metadata`) and an adapter object per supported record (`devices`).
An adapter holds its own copy of the record, so the same flag lives in up to
four places: the record, the adapter's copy, the SQLite row, and the local
variable of a request in flight. The mutex `mu` is held for short sections only;
adapter calls, provider results and `SaveDevice` run outside it. `scanMu` is held
over a whole `Scan`, and `Pair`, `Execute` and `State` call `Scan` themselves.

## 2. What is hard

* **Stale copies.** `reconcileDiscovery` reads a record under the read lock and
  `register` writes it back later (590, 675); `setPairingState` writes an
  adapter's whole copy over the record (1005); `Pair` keeps the adapter object it
  looked up while `register` replaces it (706).
* **Duplicates.** Several records may stand for one device; pairing is handed
  between them by identity comparison in three places.
* **Unordered, failing saves.** `SaveDevice` runs after the mutex is released, under the
  context of its scan or request, which may be cancelled or past its deadline (the five
  seconds of `scanForPowerRecovery` are mostly spent before `register` saves), and on
  connections that do not wait for each other (sqlite.go 22). Errors of scans are ignored,
  and so is that of `Audit`.
* **Restarts.** Only SQLite and the secret store survive; rows keep flags that
  are no longer true.
* **Retries.** `Pair`, `Execute` and `State` rescan and try again after an
  unreachable device, with the adapter the scan may have replaced.
* **Two daemons.** Lock files are created, written, read and removed by separate
  system calls, and PIDs are reused, in a container by the very next daemon.
* **Two processes.** The daemon and CLI commands share the keychain, the fallback
  file and the configuration without a lock; both files are truncated before they
  are written. A daemon that answers no health request is taken for absent.
* **Endings.** A listener fails, a signal arrives during the wait, a service manager
  starts the next daemon while the last one still has the store open.
* **Delivery.** Telegram delivers again what no later request has confirmed; the
  offset and the aliases behind buttons do not survive the daemon.
* **Identity.** Several providers report one device under several IDs, in any order,
  while addresses and names change, come back, and are shared by two TVs.
* **Clock and mutex.** A phone link's expiry is decided on a clock reading taken
  before the mutex.

`PROJECT.json` lists every hazard at its line, with the properties that cover it
or the reason none does yet.

## 3. Modules

| Module | Extends | Content |
|---|---|---|
| `DeviceManager` | | manager, adapters' copies, SQLite rows, all requests |
| `MCDeviceManager` | `DeviceManager` | instances for TLC |
| `DeviceManagerProofs` | `DeviceManager` | proofs |
| `DaemonLock` | | the lock file, one system call per step |
| `MCDaemonLock` | `DaemonLock` | instance |
| `OneTimeLink` | | abstract: what a phone link promises |
| `BrowserPairing` | instantiates `OneTimeLink` | the token table that implements it |
| `BrowserPairingProofs` | `BrowserPairing` | proofs, with the refinement |
| `DaemonLifecycle` | `DaemonLock` | main, its listener, the service manager and the commands that start daemons |
| `MCDaemonLifecycle`, `DaemonLifecycleProofs` | `DaemonLifecycle` | instance, proofs, those of the lock included |
| `SamsungTV` | | the Samsung adapter, its tokens, the TV, and the manager's retry |
| `MCSamsungTV`, `SamsungTVProofs` | `SamsungTV` | instances, proofs |
| `SecretStore`, `MCSecretStore`, `SecretStoreProofs` | | keychain, fallback file and the tokens kept in them |
| `Settings`, `MCSettings`, `SettingsProofs` | | the configuration file and its copies in the daemon |
| `ChatCommands` | | what a typed Telegram command means |
| `UpdateQueue` | | abstract: what Telegram and the bot promise of updates |
| `Telegram`, `MCTelegram`, `TelegramProofs` | `ChatCommands`; instantiates `UpdateQueue` | polling, offsets, handling, buttons; proofs, with the refinement |
| `Inventory`, `MCInventory`, `InventoryProofs` | | identity, reconciliation, merging and the rows of `List`; instance, proofs |

### DeviceManager

The variables follow the code's fields:

| Variable | Code |
|---|---|
| `metadata`, `devices` | `Manager.metadata`, `Manager.devices` |
| `adapters` | the `metadata` field of each adapter object something still refers to; an object nothing refers to is garbage |
| `store` | the rows of the `devices` table |
| `scanOwner`, `seen`, `reports`, `item` | `scanMu` and the locals of `Scan` |
| `pc`, `back` | where each request is, and where it resumes after a nested `Scan` or its saves |
| `slot`, `snapshot`, `pending`, `outcome`, `audit` | its locals `d` and `md`, the saves it still has to make, what its adapter call returned, the audit rows it wrote |
| `granted`, `sighted`, `doubtful` | history, read by properties only: units that were granted a pairing, ids seen by this daemon, ids whose row may be behind their record |

A section under `Manager.mu` is one action; whatever runs outside it (an adapter
call, a provider result, one `SaveDevice`) is an action of its own. A request is
the chain of its actions: `Pair` is `PairLookup`, a scan, `PairVerify` or
`PairMissing`, `PairAttempt`, possibly a second scan with `PairRelookup` and a
second attempt, then `Snap`, `SetPairingState` and its saves. `Execute` has the
same shape with a rescan before `power_on`, and ends in `ExecuteAudit`.
`Restart` kills the daemon anywhere and loads what SQLite holds.

`Supports` is that of each kind of record: a Samsung TV needs proof of its control
endpoint or a saved pairing, a Roku, a remote Mac or a console its kind only, anything
else has no adapter. `Called` is the name a record was discovered with, which `Rename`
compares as it does aliases, and `Comparable` the names of which
`normalizeDeviceName` leaves something. The faults an instance may admit are saves that
fail (`"saves"`), tokens that cannot be deleted (`"secrets"`) and prompts that are
accepted without a token (`"tokenless"`). An audit row may always be missing.

### DaemonLock

`lockFile` is the process that created the file now bearing the name, `written`
whether its PID is in it. `Create`, `Write`, `Read`, `Check`, `Remove` and `Stop`
are the calls of `Acquire` and `Close` in the order the code makes them; `Crash`
leaves the file behind. `Start` gives a process a number of its set `Number` that no
living process has; a dead one may have had it, the one that left the lock included.
`overlapped` records that a daemon was started while
another was still in `Acquire`.

### OneTimeLink and BrowserPairing

`OneTimeLink` has two variables: `link`, which goes from unissued to open and from open to
used or lapsed, and `sessions`, which a visit extends as it uses the link. `BrowserPairing`
has the table, the mutex sections (`Record`, `Consume`), and the clock readings taken before
them (`Draw`, `Arrive`). The refinement maps a token in the table to `open`, one a session
was given for to `used`, any other that was issued to `lapsed`.

### SamsungTV

`DeviceManager` sees an adapter call as one step with an outcome. `SamsungTV` opens
it: any number of requests use one adapter, which has no lock, so each read or write
of its `Paired` flag, each call of the secret store and each exchange with the TV is
an action.

| Variable | Code |
|---|---|
| `paired` | the `Paired` flag of the adapter's metadata |
| `saved` | what the secret store holds under each of `secretNames()`, in that order |
| `row` | the flag the manager has saved, from which a restart starts |
| `accepted` | the token the TV accepts (environment) |
| `req` | per request: program point, operation, keys asked and left, attempt, secret name reached, token in hand, keys or wake-ups sent, outcome |
| `overlapped`, `prompted` | history, read by properties only |

`Pair` is `PairDial` (the prompt, with or without a token in the answer), `PairSave`,
`PairTidy`. `Unpair`, and `invalidatePairing` after a rejection, is one `DeleteSecret`
per name and `Cleared`. A key is `Key` (the flag), `Check` (the first lookup of the
token), `ReadToken` (the second, in `connect`), `Dial` with the handshake,
`SaveRefreshed` for a rotated token, `Write`, `Acknowledge`. `power_off` reads the state
first (`Preflight`); `power_on` is `Wake`, `Confirm`. `Unreachable` is an error that
`shouldRediscoverForPair` recognises: the manager starts the request once more.
`Finish` is what the manager saves afterwards.

### DaemonLifecycle

Extends the lock: a daemon that has it is `opening` the store, `binding` and
`serving` its listener, `waiting` the two seconds of `serveWithRecovery`, `closing`
and `closed`, after which the lock goes (`Release`) and the process ends (`Exit`).
`Interrupt` is an error of the listener, `Heed` a signal noticed, `Die` a crash in
any of these. `Supervise` is launchd or systemd: it starts the service when it is
loaded and again after a failure; `replaces` says whether installing it ends the
running one (launchd's `bootout`) or not (systemd). `Unload`, `Load` and `Spawn` are
`ensureDaemonReady`: no timely answer to a health request is enough for each of
them, whether a daemon runs or not.

### SecretStore

`keychain` and `fallback` are the two places, `call` the call each process is in,
one step per keychain call and file operation; `Torn` is a file that was truncated
and not yet written. The keychain works, is absent, or comes and goes
(`Mode`). `ensureToken` is a `Get` that goes on as a `Set` when it found nothing
(`Missing`). `promised` records what a lookup may return, `shadowed` the names whose
keychain entry refused a change, after which the code cannot know which place is newer.

### Settings

`file` is the configuration, `shared` and `visible` the copies of the API and the
manager. A request is `Decode`, `Load`, `Truncate`, `Write`, `Share`, `Tell`; setup is
`Ask`, `Answer`, `TruncateSetup`, `SaveSetup`. Four flags are two: one that setup asks
about and one it does not; all other sections together are `rest`. `expected` records
what was last asked for.

### ChatCommands and Telegram

`ChatCommands` has the parsers as operators on sequences of words (`Tv`, `Power`,
`VolumeShortcut`, `KeyShortcut`, `Mac`, joined in `Meaning`) and the lookup of devices;
`Promised` lists the forms of the bot's help. `Telegram` has the service's side (`updates`,
`confirmed`) and the bot's (`offset`, `batch`, `buttons`, and where `Run` is).
`Fetched` and `PollFailed` are `getUpdates`, whose request may confirm updates although
its answer is lost; a message is handled and then answered, so a crash can fall
in between. `Die` and `Return` end a run; memory is lost, Telegram's queue is not.
`UpdateQueue` has no offset and no batch, only a number of updates `behind` this run. The
refinement maps it to the offset, to one less while an answer is due, since the offset
passes an update before it is handled to its end, and to what Telegram has forgotten after
a restart, when the offset is zero.

### Inventory

Opens the constant `SameIdentity` of `DeviceManager`: records with the fields that
identity is computed from, and a history field `units`, the devices a record is made
of. `Reports` are what the providers say of each device under which ID; `Find` is one
result reconciled and registered, `Finish` is `markUnseen`. `Listings` is every
result of `List` over the orders in which Go may read the map. `Move` and `Call` are
the router and the owner: an address is new, one that some device had before, or its own
earlier one, though never one in use; a name is new, or that of another TV, which may have
it still. Two TVs may have one name from the start (`FirstNames`). `held` and `borne` record
what each device has had; `ambiguous` is set when an address or a name was that of two
devices, came back, or was the one thing known of a TV. A row is `Current` for a device if
it has the device's address or its name: two changes between two sightings can leave a
record that has neither, of which nothing is promised.

## 4. Runs

| Run | Instance | Shows |
|---|---|---|
| `ManagerOverlap` | 1 TV, the scanning loop and a user with every request that writes, two saved inventories, failing saves and secret deletes, tokenless TVs, 1 name, 1 restart | types, honest online flag, rows that follow their records but for saves that failed or overlapped, no pairing without a prompt, no name lost |
| `ManagerSequential` | two records of one TV, another TV and a Roku, one user who writes, 2 names, one of which the other TV was discovered with | pairing never crosses devices; the records of a TV agree; every row follows; no name lost or given twice by `Rename`; unpaired stays unpaired |
| `ManagerReturns` | 1 TV, loop and user, fairness | every request returns |
| `Lifecycle` | 2 daemons, 1 other program, service manager, commands, fairness | one daemon, one open store, a stable lock while starts do not overlap; the listener returns; signals are heeded; a lone start clears a dead daemon's lock unless its number is taken |
| `PhoneLinks` | 2 links, 2 browsers, time 0..4, lifetime 2, 1 restart | usable until expiry, late visits refused, single use by refinement |
| `TVRequests` | 2 requests at once, 3 tokens, 2 secret names, commands of up to 2 keys, failing saves and deletes, 1 restart | nothing is sent more often than a retry allows; for requests that do not overlap: commands never prompt, `Pair` and `Unpair` do what they report, valid pairings are kept |
| `SecretsSaved` | daemon and command, a token and another secret, 3 values, each kind of keychain, 1 crash in a call | lookups return what was saved last; both processes hold the saved token |
| `SettingsSaved` | 2 requests, setup, 2 flags, 2 contents of the rest, any crashes and restarts | nothing reverted; file, API and manager agree between requests |
| `ChatUpdates` | 2 devices, one with an action word in its name, 3 updates, 1 restart, 1 rename or scan, fairness | the help is true, or its exception harmless; delivery in order and at least once by refinement; nothing twice in a run; taps keep their device; all handled |
| `Rows` | a Samsung TV, another TV, of different names or of one, a Windows computer, 3 reports, 2 changes of address or name, to new or used ones | rows mix only devices linked by an address or name they had; else one row each under the address or name of today, with the name given |
| `ManagerUnpairDuringScan`, `LockTogether` | the smallest instance that fails | section 6 |

**Bounds.** `MaxSlots` is one more than the clients, the most adapter objects of a device
that can be alive at once, and so cuts nothing. `MaxReports` of `DeviceManager`: one result
per scan is enough for it to be matched, overtaken by another request and registered;
duplicates follow their twins in the next scan. Requests and scans repeat without limit. One
restart is enough to lose or keep each unsaved change; what a second would add is a state
`InitialStore` already has. The initial inventories are those the program writes: none,
unpaired, paired, rows of an older build without `control_verified`, and one in which the
second record is yet to be found. Two clients are enough for each hazard listed, all of
which are one request overtaking another; one name is enough there for a record to lose it, and what a `power_on`
writes is what an `execute` does (`ManagerReturns` has `power_on` and `state`).
`ManagerSequential` has one client and three devices instead: either record of the first TV
is paired, the other TV is one that was paired before, or never, and its name is one of the
two a user may give, so that names collide and return. Its saves do not fail, since without
a restart no row is read again; `ManagerOverlap` has saves that fail, and a restart. For the
phone links, time 4 and lifetime 2 let a link be issued, expire and be swept with a second
one issued on either side of its deadline. Two daemons are one that ends, or crashes, and
the next; what a third could add is only checked by the proofs. The second daemon, or the
other program, may get the number of the first once that has ended. For the Samsung TV, two
keys are one already sent when the other fails, two names a written and a legacy one, and
three tokens one the TV accepts, one still saved and one a request holds. In `SecretsSaved`
three values are one in each place and a new one; the first two calls that meet are the last
(`overlapped`), because nothing is promised after them. In `ChatUpdates` three updates are
one handled, one in the batch, and one beyond it. In `Rows` three reports let one device be
found, found again under another ID or address, and another one come between; two changes
are an address and a name that both change between two sightings, or an address that one
device leaves and another takes. Five addresses and four names are as many as two changes
can use. Tokens, values, clients, requests and processes are only compared for equality and
alike where a run declares them symmetric.

**Deadlock** is checked except where the modelled world ends: processes of
`DaemonLock` and `DaemonLifecycle` each run once, the clock of `BrowserPairing`, the
updates and restarts of `Telegram` and the reports of `Inventory` are bounded, and in
`SecretStore` and `Settings` an unreadable file or a crash in a last call may leave
nothing to do.

**Fairness** is used by three runs. `ManagerReturns`: `WF(Step(c))`: a goroutine that can
run does, and an adapter call, a provider and a save end, because each has a
deadline (the adapters' clients and dialers have timeouts, scans and requests a
context). `SF(ScanLock(c))`: Go's `sync.Mutex` hands a waiter the lock after a
millisecond of starvation, so the scanning loop cannot keep a request out
forever. Nothing is assumed of the order of saves or results, nor that a user
makes a request. `Lifecycle`: `WF(Main(p))`, a process that can run does, and
`SF(Bind(p))`, of the attempts to listen on a port that is free again and again one
succeeds (an assumption about the machine: another program does not keep the port); that
a listener fails, or a command interferes, is never required nor
excluded. `ChatUpdates`: weak fairness of the service manager's start, of handling, of
the three seconds and of returning after a cancel; `SF(Fetched)`, of the requests
repeated for ever not all fail.

Each property has a mutant of a definition (the operators named `Mut...`), a
plausible bug with which the same run fails.

## 5. Proofs

Every safety property that a passing run checks is the subject of a theorem, but for
`PairedOnlyByPairing`. The proofs
are for any number of devices, duplicates, clients, processes, requests, names, values,
tokens, updates, reports and browsers, and any bound. Every invariant below was
checked by TLC on the instance of its run, or one with one more fault or restart,
before it was proved. The invariant proofs have one layout: a lemma per action (or per
group of actions that move the same way), one for the initial states, one for
stuttering, and a theorem that combines them.

**Assumptions** on the constants. `ConstantsAssumption`, `LockAssumption`,
`PairingAssumption`, `CrashAssumption` and the like give them their types.
`IdentityAssumption` has content: two records are only taken for the same device when
they are, that is, the serial numbers, MACs and addresses `sameDeviceIdentity` compares
are truthful. `SymmetryAssumption` says that function treats its two arguments alike,
which its text does (manager.go 262-285). `DigestAssumption` takes the digests in
Telegram's buttons to be injective; `LabelAssumption` says that the buttons of a
keyboard are among those the bot draws. `ChatAssumption` takes every name to have a word:
`Rename` refuses an empty one and providers fall back to a generic one.
`InventoryAssumption` says only that there is an address for every device; that names
and addresses tell devices apart is assumed nowhere, but is a condition inside
`OneRowEach` and `NamesStay` (`ambiguous`). Where addresses are reused,
`IdentityAssumption` of `DeviceManager` can fail too, and with it `PairingNeverSpreads`:
`InventoryMixesOnlyTheMet` says between which devices.

**Hypotheses** of single theorems are the restrictions under which the code keeps the
property at all; each names its theorem's below.

| Hypothesis | Meaning | Without it |
|---|---|---|
| `OneAtATime` (`DuplicatesStayAgreed`) | one client, so requests and scans do not overlap | a scan that matched a result before an unpair registers it afterwards (section 6) |
| `Network` | matching is transitive among the devices, a Roku has one record, the rows found at the start agree | a record that matches one by MAC and another by address takes the pairing from one and not to the other |
| `MaxCrashes = 0` (`DuplicatesStayAgreed`) | no restart | a crash between the saves of two records of one TV leaves their rows apart |
| `"read" \notin Fault` | secrets can be read | section 6: an unreadable token is taken for none |

`Network` is met by the devices of `ManagerSequential`; `sameDeviceIdentity` alone does
not guarantee it.

**DeviceManager, any clients.** `TypeOK` alone is not inductive: a request that resumes
after a rescan needs the adapter it took to be alive still, and `Collect` frees the
objects nothing refers to. `IInv == TypeOK /\ RequestShape /\ NoDanglingAdapter`
adds what each program point holds (`RequestShape`) and that references are live.
From it `TypeCorrect` follows. The flags
need more: `PairingProvenance` and `OnlineMeansSighted` speak of `metadata`, which
is written from adapters, results in flight, snapshots and, after a restart,
SQLite. `FlagsSound(G)` says it of every copy (`RecordsSound`, `AdaptersSound`,
`CopiesSound`), for any set `G` of units that may be paired, and each step keeps it for any
`G` that has the Rokus and the unit of the prompt it answers. With the units that were
granted a pairing, `PairingNeverSpreads` and `OnlineIsSighted` follow. With all
units but one it says that nothing remembers a pairing of that one (`ForgottenSound`), so
that no step but the answer to a prompt of its own can bring one about
(`PairingIsAskedFor`). `RestartsRemember` rests on `RowsKept`: a record whose row is not
`doubtful` is to be saved by one client at most, as it now is, or its row has it, but for
the online flag. Nothing is assumed of saves, clients or restarts.

**DeviceManager, one request at a time.** `Merged` says that
records which match agree and that a paired result has a paired twin; transitivity
carries the flag from the records `Twins` reaches to all others (`DuplicatesStayAgreed`).

**DeviceManager, names.** `NamesKnown` says that every copy of a record (adapters, the
result in flight, snapshots) that has a name belongs to a record that has one. A stale
copy may bring back an earlier name of the same record, and no more: `NamesAreNeverLost`
says so of every step, for any set of names, clients and restarts.

**DaemonLock.** While no starts have overlapped, `Exclusive` is inductive: the
one process in `Acquire` has read the running daemon's number if there is a
running daemon, and removes only when there is none. For `RestartNeedsNoCleanup`,
`Foreign` says that a number in the file, or read from it, is that of another daemon that
ran: a daemon that starts alone and gives up has found a living process with that number,
or could not write, since what it removes stays removed until it creates its own.

**DaemonLifecycle.** Every step of `LifeNext` is one of `DaemonLock.Next` or leaves its
variables alone (`LifecycleKeepsProtocol`), so all of the above holds of daemons with
listeners, supervisors and impatient commands. `LifeTypeOK`, which says that a process
with the store open is `running`, is inductive (`StoreInsideLock`) because the deferred
calls close the store before the lock; with `SequentialOneDaemon` it gives
`StoreIsExclusive`.

**SamsungTV.** `DeliveryBound` is about the end of a request; `IInv` says at each
program point what has been sent: what this attempt has behind it (`asked - left`), and
all but one key of an earlier attempt (`Earlier`), because an attempt that reports the
TV unreachable never follows a key that completed the command. `Shape` ties a program
point to its operation, so that a retry of a `power_on` is known to have sent nothing.
The token needs `AInv`: as long as requests have not overlapped, at most one is on its
way, nobody has been prompted by a command, and a saved token that the TV accepts is
saved under no later name than any other (`Honoured`), so that the first lookup finds
it. `Underway` says per program point what is in hand: the token found, the names still
to be deleted, or that what is being deleted is no longer accepted. The
properties at the end of `Pair` and `Unpair` (`PairingIsDurable`, `UnpairingForgets`),
`CommandsAloneNeverPrompt` and the action property `PairingIsKept` follow.

**SecretStore.** While no two processes have been in a call at once, `Orderly` says what
keychain and file hold: any name is found as promised (`Sound`), the token a process
holds is the one found (`Kept`), and once a changing call has left the keychain, the
keychain and the contents it is about to write hold its value or nothing (`Settled`).
The two are stated of the file as it is when no call is writing it, and of the contents
about to be written otherwise: between truncation and write the file says nothing.
`AnswersAreKept` and `TokensAreShared` are their readings for a lookup.

**Settings.** Three parts under three conditions. `Still`: what is not at work has left
nothing behind. `Alone`, until something overlapped (`lost`): `Faithful` says that at
each point of a request the configuration in hand is the expected one but for the flags
that the request names, and the file, when whole, is as expected. `OneByOne`, until two
requests overlapped (`mixed`, forgotten by a restart): how far the new flags have been
carried, from the file to the daemon's copy and on to the manager. `NothingIsReverted`
follows from the second, `CopiesAreKept` from the third, which setup may not disturb.

**Telegram.** `IInv` orders the queue: what Telegram has confirmed is handled; while the
bot polls, so is all the offset has passed; while it handles, all before the update at
hand, and the batch runs on from there without a gap (`Batch`, `Progress`). `Order` says
the commands executed in this run come from updates behind the offset, which gives
`ExecutedOncePerRun`. `Aliases` says each hash in the map is its device's own, whatever
names came and went (`TapsStayWithTheirDevice`). `BotImplementsQueue` adds `NextInLine`, that
the update at hand is the next after what is behind, and maps each step to one of
`UpdateQueue` or a stutter. `NothingIsForgotten` says in the bot's own terms what the queue
promises of forgetting. `HelpAlwaysTrue` needs only that the names given are names
(`Named`); the rest is about sequences. A form typed with a name is
that name's words and the form's own (`Split`, `Typed`). If the name has no action word, the
first one found is the form's (`FirstAction`), and each parser
then reads what the help promises (`TvMeans`, `PowerMeans`, `LouderMeans`, `VolumeMeans`,
`KeyMeans`). If it has one, that is the first (`ActionInName`): the device is sought by
the words before it, or nothing is done (`CutMeans`). The forms go through one lemma each,
for names of any length.

**Inventory.** There are two invariants, one for any home and one for those in which
addresses and names tell devices apart. `MInv` says of each record, by itself, that the
devices it is made of are linked by addresses and names they had (`Sound`), and that
whatever it tells (its serial number, MAC, name or address, and its ID) was that of one of
them (`Claims`). If two records are taken for the same device, their devices have one of
these in common (`SameBridges`, `KeyBridges`), so a merge, whether by a report, a
registration or `List`, is linked again (`MergeSound`). Nothing is assumed of how names
and addresses are given (`InventoryMixesOnlyTheMet`).

`IInv`, which holds until the home is `ambiguous`, says what a record can be. `Filed`: one
device's, in one of three shapes (told by its maker, plain, computer), under an ID made of
that device's address or of one of its names. `Alone`: of a device one record at most is
`Main`, the one that says who it is. `Later`: what was seen after a record with the address
of today has that address, so the merge, which keeps the later address, moves none back.
`Told`: a settled device has a main record with its address and name. `PairedByMain`: a
plain record is paired only if the main one is, so reconciliation, which prefers paired
records, finds the main one first. `Aliased`: the main record has the name given last, and
what could merge into it has none. `Homes` (addresses and names belong to one device, now
and in the past) is what makes `SameIdentity` right. `List` is three folds, over orders of a
finite set. Each is unrolled into the sequence of its steps, and a property of every step's
result carried along it: all rows are sound (`RowsMixOnlyMet`); a device's main record, once
it is in a group, at its address, or in a row, stays there and takes up the rest
(`OneRowEach`, `NamesStay`).

**BrowserPairing.** `IInv` relates table, drafts and history:
`DraftsOwnTheirTokens` (a drawn token is nobody else's), `HeldLinksAreOpen` (a held
token was issued, with the expiry shown, and opened no session),
`OnlyIssuedAdmit`, `VisitsArePast`. `TableImplementsLink` maps each step to one of
`OneTimeLink` or a stutter.

**Only model-checked.**

* `RequestsReturn`, `ListenerReturns`, `StopsWhenTold` and `AllHandled` are liveness,
  which tlapm does not prove under fairness.
* `PairedOnlyByPairing`, for requests one after the other: that a device which was unpaired
  is not paired again by a scan or a command.
* The counterexamples of section 6: what TLC finds in `ManagerUnpairDuringScan` and
  `LockTogether` is one behaviour of one instance.

The specifications use no recursive operator. Where a proof needs induction, over the
steps of a fold or the length of a sequence, it is first order: the least
counterexample of a set of numbers (`WFMin` of the library, `LeastNatural` and `UpTo` in
`InventoryProofs`), never a theorem that takes a predicate as a parameter.

## 6. Where code and documents disagree

Two have a run in which TLC finds the counterexample; `PROJECT.json` quotes the text.

* **Unpairing during a scan** (`ManagerUnpairDuringScan`): a result reconciled before
  the unpair and registered after it brings the pairing back.
* **Daemons started together** (`LockTogether`): the second reads the lock file
  before the first has written its PID, takes it for stale and removes it.

The others are states or values of the models in which the named property fails once
its restriction, or a bound of its run, is lifted:

* **Record and adapter** (ARCHITECTURE.md 72: a pairing "updates both the manager metadata
  and the live adapter"). `Pair` pairs the adapter it looked up before the prompt. A scan
  that registers the TV while the prompt is open replaces the live adapter, which stays
  unpaired; the record says paired. Even without overlap, `setPairingState` updates the
  other records of a TV but not their adapters: a command to one record of a TV that was
  unpaired through the other finds an adapter still paired and writes the pairing back,
  hence `Alone` in `PairedOnlyByPairing`. A delete that fails in `Unpair`, or a prompt without a
  token in `Pair`, changes the adapter and not the record.
* **Audit** (ARCHITECTURE.md 42: the manager "records success or failure in the audit
  store"). `Audit` uses the context of the request (manager.go 967): a client that hangs up
  during a command leaves no row, nor does a busy database, and the error is ignored.
* **Remembered devices** (README 172: devices "that have been discovered once stay in
  SQLite"). The save of `register` fails when the context of the scan is done or the database
  busy, and is not repeated until the next scan: a daemon that ends before has forgotten a
  device it listed. `RowsFollow` excepts failed saves.
* **Names that return.** An adapter keeps the name of its record as it was; the next
  command writes that copy back (manager.go 960, 1005), and the name before a `Rename`
  returns, although requests are one after the other. If another device has got
  it since, two have one name, which `Rename` refuses (manager.go 778-790). A scan does the
  same when a rename falls between its match and its registration. `NamesKept` allows
  an earlier name of the same record, and is about what `Rename` gives only.
* **Names without Latin letters** are compared by nothing: `normalizeDeviceName` drops all
  but a to z and digits, and a name of which nothing is left is never taken (manager.go
  778), so two devices may be given the same one. `Comparable` stands for the others.
* **Unpairing during a command** (samsung.go 523): `sendKey` checks for a token and
  `connect` looks it up again. An unpair in between, or another command whose token was
  rejected, makes it dial without one. `CommandsNeverPrompt` fails where
  `SequentialNeverPrompt` holds.
* A command to a device the last scan found gone writes back the adapter's copy of the
  record, which says online (README 172-174).
* **Process numbers** (lock.go 20-22: "a restart does not require manual cleanup"). A PID
  that a crash left in the lock file may belong to another process, or to the restarted
  daemon itself where every start gets the same PID, as in a container; it is then refused
  until the file is removed. `RestartTakesLock` names this exception.
* A secret that cannot be read is taken for one that is not there (samsung.go 738,
  server.go 98): a command during a short keychain failure saves the TV as unpaired, and
  a daemon that starts during one replaces its bearer token. `TVRequests` is checked with
  reads that succeed, `TokensAgree` without a keychain that comes and goes.
* A crash between truncation and write leaves `config.json` empty; daemon and CLI
  then refuse to start, setup included, until the file is removed (`Start` and `Ask`
  need `file # Torn`). The fallback file of secrets is lost in the same way.
* After setup, a daemon that was not restarted writes its own flags over those setup
  saved, with the next flag changed on the dashboard; `lost` excludes it in
  `NothingReverted`.
* **Help for names with an action word.** For a device called "Home TV" `tvHelp` prints
  `/tv Home TV status` (bot.go 531-545), but the parser takes the first action word for the
  action (316-326) and answers with its usage; `/tv tv up mute` is a command to the device
  called `tv` where `tv up` is meant. `HelpIsTrue` excepts `/tv` with such names and says
  what may happen instead. `/tv <device> power up` sends the key UP instead of an error.
* Telegram delivers the last batch again after a shutdown between handling and the next
  request, so its commands are executed once per run, not once (`OncePerRun`).
* The ID of a Windows computer is its address (arp.go 235), though docs/cli.md 122 calls
  IDs stable: name and pairing pass to the next machine with the address.
* **Shared names.** manager.go 212-217 says that two TVs commonly share a friendly name and
  leaves the name out of the key of such a record, but `sameDeviceIdentity` joins on it when
  one of the two is a Samsung (281), whatever their addresses: such a TV and a Samsung are
  one row. `RowsMixOnlyMet` says that this, or an address they both had, is needed.
* **An address that is used again.** A device that gets the address of another one is filed
  under the other's record if nothing tells them apart. If both have serial numbers, the
  record of the one that is switched off still hides the other, as `List` keeps one row per
  address (119-137): `OneRowEach` fails, hence `ambiguous`.
* A rotated token that cannot be saved (samsung.go 674) loses the pairing with the
  old one; `PairingKept` is for TVs that keep their token.
* A TV whose address and name both change between two sightings leaves its plain mDNS
  record behind, offline, as a second row that may hold the name it was given:
  `OneRowEach` and `NamesStay` fail without `Current`.
* `device <id> volume -2` of docs/cli.md 117 is always refused (cli.go 1175-1183: the
  sign is not removed before the number is read). The CLI's parser is not modelled.
* Running setup again and pressing Enter at "Allowed IDs" erases the saved list
  (cli.go 434); answering that only this computer uses the dashboard also sets
  `InsecureLANHTTP` to false for a later change of mind (384). `rest` does not tell
  them apart.

## 7. Abstractions and what is not modelled

* **Identity.** In `DeviceManager`, IP, MAC, DUID and names decide only which records are
  merged: `SameIdentity` and `Rank`; `Inventory` computes them. Rows of equal rank are
  ordered by `LastSeen` in the code; the model lets either win. The order of matching over
  the map is covered.
* **The bridge host's own record** (register 689-691) is not modelled, nor are
  results without an address (only the host provider's), which skip matching.
* **Category visibility** is left out: it filters what is returned. Its effect on the error of a
  scan is a nondeterministic choice (`ScanEnd`).
* **Consoles** have a subset of the behaviour of a remote Mac's record (`Host`).
* **Roku.** Its adapter keeps no pairing, and a scan may report it paired whatever
  the operator asked; `PairedOnlyByPairing` is about the other devices, and
  `PairingNeedsPrompt` too.
* **Adapter calls** are one step of `DeviceManager`, with every outcome the manager
  tells apart. `SamsungTV` opens those of a Samsung TV; it has one adapter object, whose
  replacement by scans is `DeviceManager`'s, and leaves out which endpoint or address
  answers, the shape of events, key names and durations. The TV may answer anything
  its protocol allows, but accepts one token at a time and rejects no token it accepts.
* **Inventory** has `Rename` and `Pair` between scans only (their interleaving with scans is
  `DeviceManager`'s), no restart, no visibility filters, no computers but Windows ones and
  no consoles, whose identity has the same shape. `blurred` leaves out names given to a
  device whose current record has not told who it is.
* **Lifecycle.** The local companion listener of LAN mode (main.go 114-118), which nothing
  retries when it fails, is not covered by `ListenerReturns`; it, health checks as such and
  removal of the service are left out; a process runs once. Windows' scheduled task, which
  is not restarted, is `Supervise` not taken.
* **Settings** abstracts the contents of the file to flags and `rest`; fields are not
  validated by the code beyond defaults. **SecretStore** treats values as opaque.
* **Telegram**: texts of answers, the size of a batch and requests that Telegram refuses
  for other reasons are left out; `Digest` is taken to be injective.
* The `TypeOK` of `SecretStore`, `Settings` and `Telegram` are proved; no run checks them.
* **Events** are dropped when the channel is full; nothing reads it in the daemon.
* **Not modelled:** rendering, menus and argument parsing of the CLI, authentication
  headers, the agent manifest, the text of unit files, TLS files, the dashboard page,
  sockets and parsing of discovery. `PROJECT.json` gives the reason for each component.

## 8. Plan

Done: `DeviceManager`, `DaemonLock`, `OneTimeLink` and `BrowserPairing`, `SamsungTV`,
`DaemonLifecycle`, `SecretStore`, `Settings`, `ChatCommands`, `Telegram` and `Inventory`, all
checked and proved.

Proofs to come:

1. `DeviceManager`: `PairedOnlyByPairing` for requests that do not overlap, and
   `DuplicatesAgree` for several clients whose requests do not
2. `SamsungTV` as an implementation of the adapter calls of `DeviceManager`: which flag an
   attempt leaves for which outcome
3. `OneRowEach` for the devices whose own address and name are nobody else's, in a home where
   others' are

To model next: the CLI's argument parser, authentication and sessions of the API,
visibility, and Roku key sequences. Liveness stays with TLC.
