----------------------------- MODULE Inventory -----------------------------
(***************************************************************************)
(* Which records of internal/core/manager.go are about the same device,    *)
(* how a scan files what the providers of internal/discovery report, and   *)
(* the rows that List makes of the records.  DeviceManager takes the       *)
(* identity of devices as given; here it is computed from what providers   *)
(* know, while routers hand out addresses and owners rename their TVs.     *)
(*                                                                         *)
(* The scans of the manager exclude each other, and each registration is   *)
(* one critical section of its lock: a step here.                          *)
(***************************************************************************)
EXTENDS Naturals, FiniteSets, SequencesExt

CONSTANTS
    Samsung, Television, Windows,   \* the devices in the home
    Address,
    Name,          \* names that owners give to TVs
    Alias,         \* names given with Rename
    None,          \* a field that is not known
    FirstNames,    \* how the TVs may be called at first
    MaxReports, MaxChanges

Unit == Samsung \cup Television \cup Windows

\* There is an address for every device.
ASSUME InventoryAssumption ==
    /\ Samsung \cap Television = {} /\ (Samsung \cup Television) \cap Windows = {}
    /\ None \notin Unit \cup Address \cup Name \cup Alias \cup {"samsung", "other"}
    /\ \E f \in [Unit -> Address] : IsInjective(f)
    /\ FirstNames \subseteq [Samsung \cup Television -> Name]

VARIABLES
    metadata,   \* the records, by ID
    scanning,   \* a scan is under way
    seen,       \* IDs that it has seen
    lease,      \* the address of each device
    called,     \* what each TV calls itself
    held,       \* history: the addresses that each device has had
    borne,      \* history: the names that each TV has had
    settled,    \* history: devices that told who they are where they are now
    given,      \* history: the alias last given to each device
    blurred,    \* history: devices that were renamed while not settled
    ambiguous,  \* history: an address or a name was that of two devices, or came
                \* back to one, or a TV was renamed that says nothing but its name
    clock,      \* reports so far: the time of a record is its report
    changes     \* addresses and names changed so far

home == <<lease, called, held, borne, ambiguous, changes>>
vars == <<metadata, scanning, seen, home, settled, given, blurred, clock>>

-----------------------------------------------------------------------------
(* What a provider reports of a device *)

IsSamsung(r) == r.maker = "samsung"

\* units is no field of the program: the devices that a record is made of.
Report(u, id, kind, maker, mac, name) ==
    [id |-> id, kind |-> kind, maker |-> maker,
     duid |-> IF id[1] = "samsung" THEN u ELSE None, mac |-> mac, name |-> name,
     ip |-> lease[u], online |-> TRUE, seen |-> clock, paired |-> FALSE, alias |-> None, units |-> {u}]

\* parseSamsungMetadata, makeMDNSDevice, and probeWindowsHost with the address
\* table of ARPProvider.  A probed computer has a generic name.
Reports(u) ==
    (IF u \in Samsung THEN {Report(u, <<"samsung", u>>, "tv", "samsung", u, called[u])} ELSE {})
    \cup (IF u \in Windows THEN {Report(u, <<"windows", lease[u]>>, "computer", "other", u, None)}
          ELSE {Report(u, <<"mdns", called[u]>>, "tv", None, None, called[u])})

\* Whether a report says all that is known of the device: a generic mDNS
\* record of a Samsung TV does not.
Full(item, u) == u \in Samsung => IsSamsung(item)

-----------------------------------------------------------------------------
(* Identity *)

First(a, b) == IF a # None THEN a ELSE b

\* metadataRank
Rank(r) ==
    CASE r.kind = "tv" /\ r.maker # None -> 5
      [] r.kind # "tv" /\ r.maker # None -> 4
      [] OTHER -> 3

\* metadataIdentityKey: for every kind the best name that a record has.
IdentityKey(r) ==
    CASE r.kind = "tv" /\ r.duid # None -> <<"duid", r.duid>>
      [] r.mac # None /\ ~(r.kind = "tv" /\ r.duid # None) -> <<r.kind, r.mac>>
      [] r.kind = "tv" /\ r.duid = None /\ r.mac = None /\ IsSamsung(r) -> <<"name", r.name>>
      [] OTHER -> <<r.kind, r.name, r.ip>>

\* sameDeviceIdentity
Differ(a, b) == a # None /\ b # None /\ a # b
\* The mutant takes two unknown values for the same value.
MutAgree(a, b) == a = b
Agree(a, b) == a # None /\ a = b
\* The mutant does with names what metadataIdentityKey says of them.
MutSameName(a, b) == Agree(a.name, b.name) /\ a.ip = b.ip
SameName(a, b) == Agree(a.name, b.name) /\ (a.ip = b.ip \/ IsSamsung(a) \/ IsSamsung(b))
SameIdentity(a, b) ==
    /\ a.kind = b.kind
    /\ \/ Agree(a.duid, b.duid)
       \/ /\ ~Differ(a.duid, b.duid)
          /\ Agree(a.mac, b.mac) \/ (~Differ(a.mac, b.mac) /\ (SameName(a, b) \/ a.ip = b.ip))

\* mergeMetadata
Better(a, b) == Rank(a) > Rank(b) \/ (Rank(a) = Rank(b) /\ a.seen > b.seen)
Merge(c, x) ==
    LET winner == IF Better(x, c) THEN x ELSE c
        latest == IF x.seen > c.seen THEN x ELSE c
        identity == CASE IsSamsung(c) -> c [] ~IsSamsung(c) /\ IsSamsung(x) -> x [] OTHER -> winner
    IN [identity EXCEPT
          !.maker = First(identity.maker, First(c.maker, x.maker)),
          !.duid = First(identity.duid, First(c.duid, x.duid)),
          !.mac = First(identity.mac, First(c.mac, x.mac)),
          !.name = First(identity.name, First(c.name, x.name)),
          !.ip = latest.ip, !.online = latest.online, !.seen = latest.seen,
          !.paired = c.paired \/ x.paired,
          !.alias = First(c.alias, x.alias),
          !.units = c.units \cup x.units]

-----------------------------------------------------------------------------
(* List *)

\* An assignment to an element of a Go map, new or not.
Put(map, key, value) == [k \in DOMAIN map \cup {key} |-> IF k = key THEN value ELSE map[k]]

Records == {metadata[i] : i \in DOMAIN metadata}

\* The map of the records is read in any order.
Add(groups, r) ==
    IF IdentityKey(r) \in DOMAIN groups
    THEN [groups EXCEPT ![IdentityKey(r)] = Merge(@, r)]
    ELSE Put(groups, IdentityKey(r), r)
Grouped(order) == FoldLeft(Add, <<>>, order)

\* Of what has the same address only the best remains.
BestAtAddress(rows) == {r \in rows : \A s \in rows \ {r} : s.ip = r.ip => Better(r, s)}

\* collapseMetadata: a row joins the first that it is the same device as.
Join(rows, r) ==
    LET at == SelectInSeq(rows, LAMBDA s : SameIdentity(s, r))
    IN IF at = 0 THEN Append(rows, r) ELSE [rows EXCEPT ![at] = Merge(@, r)]
Collapsed(order) == FoldLeft(Join, <<>>, order)

\* The rows are sorted by the names shown, which may be in any order.
Listings ==
    LET best == {BestAtAddress(Range(Grouped(o))) : o \in SetToSeqs(Records)}
    IN {Range(Collapsed(o)) : o \in UNION {SetToSeqs(rows) : rows \in best}}

-----------------------------------------------------------------------------
(* A scan *)

Matches(item) == {r \in Records : SameIdentity(r, item)}

\* reconcileDiscovery: the record that an item is filed under is paired rather
\* than not, of the best rank and the latest; the records are read in any order.
Skip(c, r) == (c.paired /\ ~r.paired) \/ Rank(r) < Rank(c) \/ (Rank(r) = Rank(c) /\ r.seen < c.seen)
Prefer(c, r) == IF Skip(c, r) THEN c ELSE r
Candidate(order) == FoldLeft(Prefer, order[1], order)
Candidates(item) == {Candidate(o) : o \in SetToSeqs(Matches(item)) \ {<<>>}}

Reconciled(item, c) ==
    IF IsSamsung(item)
    THEN [item EXCEPT !.id = c.id, !.paired = c.paired, !.alias = c.alias]
    ELSE [Merge(c, item) EXCEPT !.id = c.id, !.ip = item.ip, !.online = TRUE, !.kind = c.kind,
                                !.maker = First(c.maker, item.maker), !.name = First(c.name, item.name),
                                !.seen = item.seen]

\* The mutant takes the record as reconciled.
MutRegistered(item) ==
    LET old == metadata[item.id]
        known == item.id \in DOMAIN metadata
    IN [item EXCEPT !.paired = item.paired \/ (known /\ old.paired),
                    !.units = IF known THEN item.units \cup old.units ELSE item.units]

\* register: what is filed under an ID keeps its alias and its pairing.
Registered(item) ==
    LET old == metadata[item.id]
        known == item.id \in DOMAIN metadata
        twin == \E i \in DOMAIN metadata \ {item.id} :
                    metadata[i].paired /\ SameIdentity(metadata[i], item)
    IN [item EXCEPT
          !.paired = item.paired \/ twin \/ (known /\ old.paired),
          !.alias = IF known THEN First(item.alias, old.alias) ELSE item.alias,
          !.units = IF known THEN item.units \cup old.units ELSE item.units]

File(item) ==
    /\ metadata' = Put(metadata, item.id, Registered(item))
    /\ seen' = seen \cup {item.id}

Begin ==
    /\ ~scanning /\ clock < MaxReports
    /\ scanning' = TRUE
    /\ UNCHANGED <<metadata, seen, home, settled, given, blurred, clock>>

Find(u) ==
    /\ scanning /\ clock < MaxReports
    /\ \E item \in Reports(u) :
          /\ \/ Matches(item) = {} /\ File(item)
             \/ \E c \in Candidates(item) : File(Reconciled(item, c))
          /\ settled' = IF Full(item, u) THEN settled \cup {u} ELSE settled
    /\ clock' = clock + 1
    /\ UNCHANGED <<scanning, home, given, blurred>>

\* markUnseen
Finish ==
    /\ scanning
    /\ scanning' = FALSE /\ seen' = {}
    /\ metadata' = [i \in DOMAIN metadata |->
                      IF i \in seen THEN metadata[i] ELSE [metadata[i] EXCEPT !.online = FALSE]]
    /\ UNCHANGED <<home, settled, given, blurred, clock>>

-----------------------------------------------------------------------------
(* The users and the home *)

Row(i) == {l \in UNION Listings : l.id = i}

\* What is left of a TV whose name and address both changed has neither.
Current(r, u) == r.ip = lease[u] \/ r.name = called[u]

\* Rename, with the ID of a row: no other record may have the name.
Rename(i, a) ==
    /\ ~scanning
    /\ \A j \in DOMAIN metadata \ {i} : a \notin {metadata[j].alias, metadata[j].name}
    /\ metadata[i].alias # a /\ Row(i) # {}
    /\ metadata' = [metadata EXCEPT ![i].alias = a]
    /\ given' = [u \in Unit |-> IF u \in metadata[i].units /\ Current(metadata[i], u) THEN a ELSE given[u]]
    /\ blurred' = blurred \cup (metadata[i].units \ settled)
    /\ UNCHANGED <<scanning, seen, home, settled, clock>>

\* Pair, with the records that setPairingState finds to be the same device.
Pair(i) ==
    /\ ~scanning /\ IsSamsung(metadata[i]) /\ ~metadata[i].paired
    /\ metadata' = [j \in DOMAIN metadata |->
                      IF j = i \/ SameIdentity(metadata[j], metadata[i])
                      THEN [metadata[j] EXCEPT !.paired = TRUE] ELSE metadata[j]]
    /\ UNCHANGED <<scanning, seen, home, settled, given, blurred, clock>>

\* The router gives a device another address: one that no device has now, or
\* had until today.  It does not matter which of the new ones.
Addresses == UNION Range(held)
Move(u, a) ==
    /\ changes < MaxChanges /\ changes' = changes + 1
    /\ a \notin Range(lease)
    /\ a \in Addresses \/ a = CHOOSE b \in Address \ Addresses : TRUE
    /\ lease' = [lease EXCEPT ![u] = a]
    /\ held' = [held EXCEPT ![u] = @ \cup {a}]
    /\ ambiguous' = (ambiguous \/ a \in Addresses)
    /\ settled' = settled \ {u}
    /\ UNCHANGED <<metadata, scanning, seen, called, borne, given, blurred, clock>>

\* The owner renames a TV, after another one too: households have two TVs of
\* one name.
Names == UNION Range(borne)
Call(u, n) ==
    /\ changes < MaxChanges /\ changes' = changes + 1
    /\ n # called[u] /\ u \notin Windows
    /\ n \in Names \/ n = CHOOSE b \in Name \ Names : TRUE
    /\ called' = [called EXCEPT ![u] = n]
    /\ borne' = [borne EXCEPT ![u] = @ \cup {n}]
    /\ ambiguous' = (ambiguous \/ n \in Names \/ u \in Television)
    /\ settled' = settled \ {u}
    /\ UNCHANGED <<metadata, scanning, seen, lease, held, given, blurred, clock>>

Init ==
    /\ metadata = <<>> /\ scanning = FALSE /\ seen = {}
    /\ lease = CHOOSE f \in [Unit -> Address] : IsInjective(f)
    /\ \E names \in FirstNames :
          /\ called = [u \in Unit |-> IF u \in Windows THEN None ELSE names[u]]
          /\ ambiguous = ~IsInjective(names)
    /\ held = [u \in Unit |-> {lease[u]}]
    /\ borne = [u \in Unit |-> {called[u]} \ {None}]
    /\ settled = {} /\ blurred = {}
    /\ given = [u \in Unit |-> None]
    /\ clock = 0 /\ changes = 0

Next ==
    \/ Begin \/ Finish
    \/ \E u \in Unit : Find(u) \/ (\E a \in Address : Move(u, a)) \/ (\E n \in Name : Call(u, n))
    \/ \E i \in DOMAIN metadata : Pair(i) \/ \E a \in Alias : Rename(i, a)

Spec == Init /\ [][Next]_vars

-----------------------------------------------------------------------------
\* What can make a TV be taken for another one, or a computer for another.
Met(u, v) ==
    /\ u \in Windows <=> v \in Windows
    /\ held[u] \cap held[v] # {} \/ borne[u] \cap borne[v] # {}

\* A row of the list is about one device, or about TVs or computers that are
\* linked by addresses and names they shared, at once or one after the other,
\* whatever the order in which the records are read and the rows compared:
\* nothing else makes records of two devices one, and a TV is never taken for
\* a computer (sameDeviceIdentity, mergeMetadata, reconcileDiscovery).
RowsMixOnlyMet ==
    \A rows \in Listings : \A r \in rows : \A part \in (SUBSET r.units) \ {{}, r.units} :
        \E u \in part, v \in r.units \ part : Met(u, v)

\* A device that has told who it is since it got its address and its name has
\* exactly one row under that address or name, online or not, although several
\* providers report it under several IDs and older records of it may be left
\* (reconcileDiscovery, List).  This is so as long as addresses and names tell
\* the devices apart: a TV that is switched off hides what has its address now.
OneRowEach ==
    ~ambiguous =>
        \A rows \in Listings : \A u \in settled :
            Cardinality({r \in rows : u \in r.units /\ Current(r, u)}) = 1

\* It is shown under the name that it was given last, on whichever of its
\* records (Rename, register, mergeMetadata); of those renamed in between,
\* the name may be lost with the record that had it.
NamesStay ==
    ~ambiguous =>
        \A rows \in Listings : \A r \in rows : \A u \in (r.units \cap settled) \ blurred :
            Current(r, u) => r.alias = given[u]

=============================================================================
