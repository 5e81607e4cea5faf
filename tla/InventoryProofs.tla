-------------------------- MODULE InventoryProofs --------------------------
(***************************************************************************)
(* What the rows of the list show, for any devices, addresses and names,   *)
(* any number of reports, moves and renames, and every order in which Go   *)
(* reads a map.                                                            *)
(***************************************************************************)
EXTENDS Inventory, WellFoundedInduction, FiniteSetTheorems, SequenceTheorems, TLAPS

Id == {"samsung", "windows", "mdns"} \X (Unit \cup Address \cup Name)
Record ==
    [id : Id, kind : {"tv", "computer"}, maker : {"samsung", "other", None},
     duid : Unit \cup {None}, mac : Unit \cup {None}, name : Name \cup {None},
     ip : Address, online : BOOLEAN, seen : Nat, paired : BOOLEAN,
     alias : Alias \cup {None}, units : SUBSET Unit]

TypeOK ==
    /\ metadata \in [DOMAIN metadata -> Record] /\ IsFiniteSet(DOMAIN metadata)
    /\ scanning \in BOOLEAN /\ seen \subseteq Id
    /\ lease \in [Unit -> Address] /\ called \in [Unit -> Name \cup {None}]
    /\ held \in [Unit -> SUBSET Address] /\ borne \in [Unit -> SUBSET Name]
    /\ settled \subseteq Unit /\ blurred \subseteq Unit
    /\ given \in [Unit -> Alias \cup {None}]
    /\ clock \in Nat /\ changes \in Nat /\ ambiguous \in BOOLEAN

\* Addresses and names are one device's only, now and in the past.
Homes ==
    /\ \A u \in Unit : lease[u] \in held[u]
    /\ \A u \in Unit : IF u \in Windows THEN called[u] = None ELSE called[u] \in borne[u]
    /\ \A u \in Television : borne[u] = {called[u]}
    /\ \A u, v \in Unit : u # v => held[u] \cap held[v] = {} /\ borne[u] \cap borne[v] = {}

\* The part of it that always holds.
Dwells ==
    /\ \A u \in Unit : lease[u] \in held[u]
    /\ \A u \in Unit : IF u \in Windows THEN called[u] = None ELSE called[u] \in borne[u]

\* The three shapes of a record: one that its maker told of, one that only a
\* name is known of, and a computer.
FullOf(r, u) ==
    u \in Samsung /\ r.kind = "tv" /\ r.maker = "samsung" /\ r.duid = u /\ r.mac = u /\ r.name \in borne[u]
PlainOf(r, u) ==
    u \notin Windows /\ r.kind = "tv" /\ r.maker = None /\ r.duid = None /\ r.mac = None /\ r.name \in borne[u]
ComputerOf(r, u) ==
    u \in Windows /\ r.kind = "computer" /\ r.maker = "other" /\ r.duid = None /\ r.mac = u /\ r.name = None
About(r, u) ==
    /\ r \in Record /\ r.units = {u} /\ r.ip \in held[u]
    /\ FullOf(r, u) \/ PlainOf(r, u) \/ ComputerOf(r, u)

\* The ID of each shape.  That of a full record may be the name it had as a
\* plain one; as long as the device has this name, so has the record.
FiledUnder(i, r, u) ==
    \/ FullOf(r, u) /\ i = <<"samsung", u>>
    \/ FullOf(r, u) /\ \E n \in borne[u] : i = <<"mdns", n>> /\ (n = called[u] => r.name = called[u])
    \/ PlainOf(r, u) /\ i = <<"mdns", r.name>>
    \/ ComputerOf(r, u) /\ \E a \in held[u] : i = <<"windows", a>>

FiledIn(m, time) ==
    \A i \in DOMAIN m :
        /\ m[i].id = i /\ m[i].seen < time
        /\ \E u \in Unit : About(m[i], u) /\ FiledUnder(i, m[i], u)
Filed == FiledIn(metadata, clock)

\* The record that says who its device is: of each device there is one at most.
Main(r) == r.duid # None \/ r.units \cap Samsung = {}
AloneIn(m) ==
    \A i, j \in DOMAIN m : m[i].units = m[j].units /\ Main(m[i]) /\ Main(m[j]) => i = j
Alone == AloneIn(metadata)

\* What was seen after a record with the address of today has it too.
LaterIn(m) ==
    \A u \in Unit : \A i, j \in DOMAIN m :
        m[i].units = {u} /\ m[j].units = {u} /\ m[i].ip = lease[u] /\ m[j].seen >= m[i].seen
        => m[j].ip = lease[u]
Later == LaterIn(metadata)

ToldIn(m, devices) ==
    \A u \in devices : \E i \in DOMAIN m :
        m[i].units = {u} /\ Main(m[i]) /\ m[i].ip = lease[u] /\ m[i].name = called[u]
Told == ToldIn(metadata, settled)

PairedIn(m) ==
    \A i \in DOMAIN m :
        m[i].paired /\ ~Main(m[i])
        => \E j \in DOMAIN m : m[j].units = m[i].units /\ Main(m[j]) /\ m[j].paired
PairedByMain == PairedIn(metadata)

\* Of a device that was only renamed while it was settled, the main record has
\* the name; the others with its address or its name have none.
AliasedIn(m, unclear, names) ==
    \A u \in Unit \ unclear :
        /\ \A i \in DOMAIN m :
              m[i].units = {u} =>
                  IF Main(m[i]) THEN m[i].alias = names[u] ELSE Current(m[i], u) => m[i].alias = None
        /\ (\A i \in DOMAIN m : m[i].units = {u} => ~Main(m[i])) => names[u] = None
Aliased == AliasedIn(metadata, blurred, given)

IInv == TypeOK /\ Homes /\ Filed /\ Alone /\ Later /\ Told /\ PairedByMain /\ Aliased

-----------------------------------------------------------------------------
(* Folds *)

LEMMA LeastNatural ==
    ASSUME NEW T, T \subseteq Nat, T # {}
    PROVE  \E n \in T : \A m \in T : n <= m
<1>1. PICK n \in T : \A m \in T : ~(<<m, n>> \in OpToRel(<, Nat))
  BY NatLessThanWellFounded, WFMin
<1>2. ASSUME NEW m \in T, m < n
      PROVE  FALSE
  <2>1. <<m, n>> \in OpToRel(<, Nat)
    BY <1>2 DEF OpToRel
  <2> QED
    BY <1>1, <2>1
<1>3. \A m \in T : n <= m
  BY <1>2
<1> QED
  BY <1>3

\* Induction up to a number, for a set in the place of a predicate.
LEMMA UpTo ==
    ASSUME NEW N \in Nat, NEW G, 0 \in G, \A n \in 1 .. N : n - 1 \in G => n \in G
    PROVE  N \in G
<1> DEFINE Bad == {n \in 0 .. N : n \notin G}
<1>1. SUFFICES ASSUME Bad # {}
               PROVE  FALSE
  OBVIOUS
<1>2. Bad \subseteq Nat
  OBVIOUS
<1> HIDE DEF Bad
<1>3. PICK n \in Bad : \A m \in Bad : n <= m
  BY <1>1, <1>2, LeastNatural
<1> USE DEF Bad
<1>4. n \in 1 .. N /\ n - 1 \in 0 .. N
  BY <1>3
<1>5. n - 1 \notin Bad
  BY <1>3, <1>4
<1> QED
  BY <1>3, <1>4, <1>5

\* The largest number of an interval.
LEMMA MaxOfInterval ==
    ASSUME NEW n \in Nat, NEW s \in SUBSET (1 .. n), n \in s
    PROVE  Max(s) = n
<1>1. n \in s /\ \A y \in s : n >= y
  OBVIOUS
<1>2. Max(s) \in s /\ \A y \in s : Max(s) >= y
  BY <1>1 DEF Max
<1>3. Max(s) \in 1 .. n /\ Max(s) >= n
  BY <1>2
<1> QED
  BY <1>3

\* The three steps that sequences are folded with in Inventory.
Step(t, a, b) == IF t = "add" THEN Add(a, b) ELSE IF t = "join" THEN Join(a, b) ELSE Prefer(a, b)

\* f folds the parts of o, as FoldLeft defines it.
Folds(f, t, base, o, S) ==
    f = [s \in SUBSET S |-> IF s = {} THEN base ELSE Step(t, f[s \ {Max(s)}], o[Max(s)])]

LEMMA FoldExtends ==
    ASSUME NEW t, NEW base, NEW o, NEW n \in Nat, NEW f, Folds(f, t, base, o, 1 .. n)
    PROVE  \E g : Folds(g, t, base, o, 1 .. n + 1)
<1> DEFINE g == [s \in SUBSET (1 .. n + 1) |->
                   IF n + 1 \in s THEN Step(t, f[s \ {n + 1}], o[n + 1]) ELSE f[s]]
<1>1. ASSUME NEW s \in SUBSET (1 .. n + 1)
      PROVE  g[s] = IF s = {} THEN base ELSE Step(t, g[s \ {Max(s)}], o[Max(s)])
  <2>1. CASE n + 1 \in s
    <3>1. Max(s) = n + 1
      BY <2>1, MaxOfInterval
    <3>2. s \ {n + 1} \in SUBSET (1 .. n + 1) /\ n + 1 \notin s \ {n + 1}
      OBVIOUS
    <3>3. g[s \ {n + 1}] = f[s \ {n + 1}]
      BY <3>2
    <3> QED
      BY <2>1, <3>1, <3>3
  <2>2. CASE n + 1 \notin s
    <3>1. s \in SUBSET (1 .. n)
      BY <2>2
    <3>2. /\ s \ {Max(s)} \in SUBSET (1 .. n) /\ s \ {Max(s)} \in SUBSET (1 .. n + 1)
          /\ n + 1 \notin s \ {Max(s)}
      BY <3>1, <2>2
    <3>3. g[s] = f[s] /\ g[s \ {Max(s)}] = f[s \ {Max(s)}]
      BY <2>2, <3>2
    <3>4. f[s] = IF s = {} THEN base ELSE Step(t, f[s \ {Max(s)}], o[Max(s)])
      BY <3>1, Zenon DEF Folds
    <3> QED
      BY <3>3, <3>4, Zenon
  <2> QED
    BY <2>1, <2>2
<1>2. Folds(g, t, base, o, 1 .. n + 1)
  BY <1>1, Zenon DEF Folds
<1> QED
  BY <1>2

LEMMA FoldExists ==
    ASSUME NEW t, NEW base, NEW o, NEW n \in Nat
    PROVE  \E f : Folds(f, t, base, o, 1 .. n)
<1> DEFINE T == {m \in Nat : ~ \E f : Folds(f, t, base, o, 1 .. m)}
<1>1. SUFFICES ASSUME T # {}
               PROVE  FALSE
  OBVIOUS
<1>2. PICK m \in T : \A k \in T : m <= k
  BY <1>1, LeastNatural
<1>3. m # 0
  <2> DEFINE f == [s \in SUBSET (1 .. 0) |-> base]
  <2>1. ASSUME NEW s \in SUBSET (1 .. 0)
        PROVE  s = {}
    OBVIOUS
  <2>2. Folds(f, t, base, o, 1 .. 0)
    BY <2>1, Zenon DEF Folds
  <2> QED
    BY <2>2
<1>4. m - 1 \in Nat /\ m - 1 \notin T
  BY <1>2, <1>3
<1>5. PICK f : Folds(f, t, base, o, 1 .. m - 1)
  BY <1>4
<1>6. \E g : Folds(g, t, base, o, 1 .. m - 1 + 1)
  BY <1>4, <1>5, FoldExtends
<1> QED
  BY <1>2, <1>6


\* What a fold has after each element.
Steps(a, t, base, o, N) ==
    a[0] = base /\ \A n \in 1 .. N : a[n] = Step(t, a[n - 1], o[n])

LEMMA FoldSteps ==
    ASSUME NEW t, NEW base, NEW N \in Nat, NEW o, NEW f, Folds(f, t, base, o, 1 .. N)
    PROVE  \E a : Steps(a, t, base, o, N) /\ f[1 .. N] = a[N]
<1> DEFINE a == [n \in 0 .. N |-> f[1 .. n]]
<1>2. a[0] = base
  <2>1. 1 .. 0 = {} /\ {} \in SUBSET (1 .. N)
    OBVIOUS
  <2>2. f[{}] = base
    BY <2>1, Zenon DEF Folds
  <2> QED
    BY <2>1, <2>2
<1>3. ASSUME NEW n \in 1 .. N
      PROVE  a[n] = Step(t, a[n - 1], o[n])
  <2>1. 1 .. n \in SUBSET (1 .. N) /\ n \in 1 .. n /\ n \in Nat
    OBVIOUS
  <2>2. 1 .. n # {} /\ (1 .. n) \ {n} = 1 .. (n - 1)
    OBVIOUS
  <2>3. Max(1 .. n) = n
    BY <2>1, MaxOfInterval
  <2>4. f[1 .. n] = Step(t, f[(1 .. n) \ {n}], o[n])
    BY <2>1, <2>2, <2>3, Zenon DEF Folds
  <2>5. a[n] = f[1 .. n] /\ a[n - 1] = f[1 .. (n - 1)]
    OBVIOUS
  <2> QED
    BY <2>2, <2>4, <2>5, Zenon
<1>4. a[N] = f[1 .. N]
  OBVIOUS
<1> HIDE DEF a
<1> QED
  BY <1>2, <1>3, <1>4 DEF Steps

LEMMA GroupedSteps ==
    ASSUME NEW N \in Nat, NEW o, DOMAIN o = 1 .. N
    PROVE  \E a : /\ a[0] = <<>>
                  /\ \A n \in 1 .. N : a[n] = Add(a[n - 1], o[n])
                  /\ Grouped(o) = a[N]
<1> DEFINE iter == CHOOSE f : f = [s \in SUBSET DOMAIN o |->
                                     IF s = {} THEN <<>> ELSE Add(f[s \ {Max(s)}], o[Max(s)])]
<1>1. Grouped(o) = iter[DOMAIN o]
  BY DEF Grouped, FoldLeft, MapThenFoldSet
<1>2. Folds(iter, "add", <<>>, o, DOMAIN o)
  <2>1. PICK g : Folds(g, "add", <<>>, o, DOMAIN o)
    BY FoldExists
  <2>2. \A c, r : Step("add", c, r) = Add(c, r)
    BY DEF Step
  <2>3. g = [s \in SUBSET DOMAIN o |->
              IF s = {} THEN <<>> ELSE Add(g[s \ {Max(s)}], o[Max(s)])]
    BY <2>1, <2>2 DEF Folds
  <2>4. iter = [s \in SUBSET DOMAIN o |->
                 IF s = {} THEN <<>> ELSE Add(iter[s \ {Max(s)}], o[Max(s)])]
    BY <2>3, Zenon
  <2> HIDE DEF iter
  <2> QED
    BY <2>2, <2>4 DEF Folds
<1> HIDE DEF iter
<1>3. PICK a : Steps(a, "add", <<>>, o, N) /\ iter[1 .. N] = a[N]
  <2>1. Folds(iter, "add", <<>>, o, 1 .. N)
    BY <1>2
  <2> QED
    BY <2>1, FoldSteps
<1>4. a[0] = <<>> /\ \A n \in 1 .. N : a[n] = Add(a[n - 1], o[n])
  BY <1>3 DEF Step, Steps
<1> QED
  BY <1>1, <1>3, <1>4

LEMMA CollapsedSteps ==
    ASSUME NEW N \in Nat, NEW o, DOMAIN o = 1 .. N
    PROVE  \E a : /\ a[0] = <<>>
                  /\ \A n \in 1 .. N : a[n] = Join(a[n - 1], o[n])
                  /\ Collapsed(o) = a[N]
<1> DEFINE iter == CHOOSE f : f = [s \in SUBSET DOMAIN o |->
                                     IF s = {} THEN <<>> ELSE Join(f[s \ {Max(s)}], o[Max(s)])]
<1>1. Collapsed(o) = iter[DOMAIN o]
  BY DEF Collapsed, FoldLeft, MapThenFoldSet
<1>2. Folds(iter, "join", <<>>, o, DOMAIN o)
  <2>1. PICK g : Folds(g, "join", <<>>, o, DOMAIN o)
    BY FoldExists
  <2>2. \A c, r : Step("join", c, r) = Join(c, r)
    BY DEF Step
  <2>3. g = [s \in SUBSET DOMAIN o |->
              IF s = {} THEN <<>> ELSE Join(g[s \ {Max(s)}], o[Max(s)])]
    BY <2>1, <2>2 DEF Folds
  <2>4. iter = [s \in SUBSET DOMAIN o |->
                 IF s = {} THEN <<>> ELSE Join(iter[s \ {Max(s)}], o[Max(s)])]
    BY <2>3, Zenon
  <2> HIDE DEF iter
  <2> QED
    BY <2>2, <2>4 DEF Folds
<1> HIDE DEF iter
<1>3. PICK a : Steps(a, "join", <<>>, o, N) /\ iter[1 .. N] = a[N]
  <2>1. Folds(iter, "join", <<>>, o, 1 .. N)
    BY <1>2
  <2> QED
    BY <2>1, FoldSteps
<1>4. a[0] = <<>> /\ \A n \in 1 .. N : a[n] = Join(a[n - 1], o[n])
  BY <1>3 DEF Step, Steps
<1> QED
  BY <1>1, <1>3, <1>4

LEMMA CandidateSteps ==
    ASSUME NEW N \in Nat, NEW o, DOMAIN o = 1 .. N
    PROVE  \E a : /\ a[0] = o[1]
                  /\ \A n \in 1 .. N : a[n] = Prefer(a[n - 1], o[n])
                  /\ Candidate(o) = a[N]
<1> DEFINE iter == CHOOSE f : f = [s \in SUBSET DOMAIN o |->
                                     IF s = {} THEN o[1] ELSE Prefer(f[s \ {Max(s)}], o[Max(s)])]
<1>1. Candidate(o) = iter[DOMAIN o]
  BY DEF Candidate, FoldLeft, MapThenFoldSet
<1>2. Folds(iter, "prefer", o[1], o, DOMAIN o)
  <2>1. PICK g : Folds(g, "prefer", o[1], o, DOMAIN o)
    BY FoldExists
  <2>2. \A c, r : Step("prefer", c, r) = Prefer(c, r)
    BY DEF Step
  <2>3. g = [s \in SUBSET DOMAIN o |->
              IF s = {} THEN o[1] ELSE Prefer(g[s \ {Max(s)}], o[Max(s)])]
    BY <2>1, <2>2 DEF Folds
  <2>4. iter = [s \in SUBSET DOMAIN o |->
                 IF s = {} THEN o[1] ELSE Prefer(iter[s \ {Max(s)}], o[Max(s)])]
    BY <2>3, Zenon
  <2> HIDE DEF iter
  <2> DEFINE base == o[1]
  <2>5. iter = [s \in SUBSET DOMAIN o |->
                 IF s = {} THEN base ELSE Prefer(iter[s \ {Max(s)}], o[Max(s)])]
    BY <2>4
  <2> HIDE DEF base
  <2>6. Folds(iter, "prefer", base, o, DOMAIN o)
    BY <2>2, <2>5 DEF Folds
  <2> QED
    BY <2>6 DEF base
<1> HIDE DEF iter
<1>3. PICK a : Steps(a, "prefer", o[1], o, N) /\ iter[1 .. N] = a[N]
  <2>1. Folds(iter, "prefer", o[1], o, 1 .. N)
    BY <1>2
  <2> QED
    BY <2>1, FoldSteps
<1>4. a[0] = o[1] /\ \A n \in 1 .. N : a[n] = Prefer(a[n - 1], o[n])
  BY <1>3 DEF Step, Steps
<1> QED
  BY <1>1, <1>3, <1>4

-----------------------------------------------------------------------------
(* Records *)

\* The record whose identity a merged record has, and the one seen last.
Identity(c, x) ==
    CASE IsSamsung(c) -> c [] ~IsSamsung(c) /\ IsSamsung(x) -> x [] OTHER -> IF Better(x, c) THEN x ELSE c
Latest(c, x) == IF x.seen > c.seen THEN x ELSE c

LEMMA First3 ==
    ASSUME NEW S, NEW a \in S, NEW b \in S, NEW c \in S
    PROVE  First(a, First(b, c)) \in S /\ First(a, b) \in S
BY DEF First

LEMMA MergeFields ==
    ASSUME NEW c \in Record, NEW x \in Record, NEW m, m = Merge(c, x), NEW p, p = Identity(c, x),
           NEW l, l = Latest(c, x)
    PROVE  /\ m \in Record /\ m.id = p.id /\ m.kind = p.kind
           /\ m.maker = First(p.maker, First(c.maker, x.maker))
           /\ m.duid = First(p.duid, First(c.duid, x.duid))
           /\ m.mac = First(p.mac, First(c.mac, x.mac))
           /\ m.name = First(p.name, First(c.name, x.name))
           /\ m.ip = l.ip /\ m.online = l.online /\ m.seen = l.seen
           /\ m.alias = First(c.alias, x.alias)
           /\ m.units = c.units \cup x.units
           /\ m.paired = (c.paired \/ x.paired)
<1>1. p \in Record
  BY DEF Identity
<1>2. l \in Record
  BY DEF Latest
<1>3. m = [p EXCEPT
             !.maker = First(p.maker, First(c.maker, x.maker)),
             !.duid = First(p.duid, First(c.duid, x.duid)),
             !.mac = First(p.mac, First(c.mac, x.mac)),
             !.name = First(p.name, First(c.name, x.name)),
             !.ip = l.ip, !.online = l.online, !.seen = l.seen,
             !.paired = c.paired \/ x.paired,
             !.alias = First(c.alias, x.alias),
             !.units = c.units \cup x.units]
  BY Zenon DEF Merge, Identity, Latest
<1>5. /\ First(p.maker, First(c.maker, x.maker)) \in {"samsung", "other", None}
      /\ First(p.duid, First(c.duid, x.duid)) \in Unit \cup {None}
      /\ First(p.mac, First(c.mac, x.mac)) \in Unit \cup {None}
      /\ First(p.name, First(c.name, x.name)) \in Name \cup {None}
      /\ First(c.alias, x.alias) \in Alias \cup {None}
  <2>1. \A r \in {p, c, x} :
           /\ r.maker \in {"samsung", "other", None} /\ r.duid \in Unit \cup {None}
           /\ r.mac \in Unit \cup {None} /\ r.name \in Name \cup {None}
           /\ r.alias \in Alias \cup {None}
    BY <1>1 DEF Record
  <2>2. First(p.maker, First(c.maker, x.maker)) \in {"samsung", "other", None}
    BY <2>1, First3
  <2>3. First(p.duid, First(c.duid, x.duid)) \in Unit \cup {None}
    BY <2>1, First3
  <2>4. First(p.mac, First(c.mac, x.mac)) \in Unit \cup {None}
    BY <2>1, First3
  <2>5. First(p.name, First(c.name, x.name)) \in Name \cup {None}
    BY <2>1, First3
  <2>6. First(c.alias, x.alias) \in Alias \cup {None}
    BY <2>1, First3
  <2> QED
    BY <2>2, <2>3, <2>4, <2>5, <2>6
<1>6. (c.paired \/ x.paired) \in BOOLEAN /\ c.units \cup x.units \in SUBSET Unit
  BY DEF Record
<1>7. m \in Record
  <2>1. l.ip \in Address /\ l.online \in BOOLEAN /\ l.seen \in Nat
    BY <1>2 DEF Record
  <2> DEFINE maker == First(p.maker, First(c.maker, x.maker))
             duid == First(p.duid, First(c.duid, x.duid))
             mac == First(p.mac, First(c.mac, x.mac))
             name == First(p.name, First(c.name, x.name))
             paired == c.paired \/ x.paired
             alias == First(c.alias, x.alias)
             units == c.units \cup x.units
  <2>2. m = [p EXCEPT !.maker = maker, !.duid = duid, !.mac = mac, !.name = name,
                      !.ip = l.ip, !.online = l.online, !.seen = l.seen, !.paired = paired,
                      !.alias = alias, !.units = units]
    BY <1>3, Zenon
  <2>3. /\ maker \in {"samsung", "other", None} /\ duid \in Unit \cup {None}
        /\ mac \in Unit \cup {None} /\ name \in Name \cup {None}
        /\ paired \in BOOLEAN /\ alias \in Alias \cup {None} /\ units \in SUBSET Unit
    BY <1>5, <1>6, Zenon
  <2> HIDE DEF maker, duid, mac, name, paired, alias, units
  <2>4. p.id \in Id /\ p.kind \in {"tv", "computer"}
    BY <1>1 DEF Record
  <2>5. m = [id |-> p.id, kind |-> p.kind, maker |-> maker, duid |-> duid, mac |-> mac, name |-> name,
             ip |-> l.ip, online |-> l.online, seen |-> l.seen, paired |-> paired,
             alias |-> alias, units |-> units]
    BY <1>1, <2>2 DEF Record
  <2> QED
    BY <2>1, <2>3, <2>4, <2>5 DEF Record
<1>8. m.paired = (c.paired \/ x.paired)
  BY <1>1, <1>3 DEF Record
<1>9. /\ m.id = p.id /\ m.kind = p.kind
      /\ m.maker = First(p.maker, First(c.maker, x.maker))
      /\ m.duid = First(p.duid, First(c.duid, x.duid))
      /\ m.mac = First(p.mac, First(c.mac, x.mac))
      /\ m.name = First(p.name, First(c.name, x.name))
      /\ m.ip = l.ip /\ m.online = l.online /\ m.seen = l.seen
      /\ m.alias = First(c.alias, x.alias)
      /\ m.units = c.units \cup x.units
  BY <1>1, <1>3 DEF Record
<1> QED
  BY <1>7, <1>8, <1>9

\* Two records that are taken for one are about one device.
LEMMA SameIdentityIsOne ==
    ASSUME Homes, NEW u \in Unit, NEW v \in Unit, NEW a, NEW b,
           About(a, u), About(b, v), SameIdentity(a, b)
    PROVE  u = v
BY InventoryAssumption
   DEF Homes, About, FullOf, PlainOf, ComputerOf, SameIdentity, Agree, Differ, SameName, Unit, Record

LEMMA MergeAbout ==
    ASSUME TypeOK, NEW u \in Unit, NEW c, NEW x, About(c, u), About(x, u)
    PROVE  About(Merge(c, x), u)
<1> DEFINE m == Merge(c, x)
           p == Identity(c, x)
<1>1. c \in Record /\ x \in Record
  BY DEF About
<1>2. m.ip \in held[u] /\ m.units = {u} /\ m \in Record
  <2>1. m \in Record /\ m.ip = Latest(c, x).ip /\ m.units = c.units \cup x.units
    BY <1>1, MergeFields
  <2>2. Latest(c, x) = x \/ Latest(c, x) = c
    BY DEF Latest
  <2>3. c.ip \in held[u] /\ x.ip \in held[u] /\ c.units = {u} /\ x.units = {u}
    BY DEF About
  <2> HIDE DEF m
  <2> QED
    BY <2>1, <2>2, <2>3
<1>3. p = c \/ p = x
  BY DEF Identity
<1>4. /\ m.kind = p.kind /\ m.maker = First(p.maker, First(c.maker, x.maker))
      /\ m.duid = First(p.duid, First(c.duid, x.duid))
      /\ m.mac = First(p.mac, First(c.mac, x.mac))
      /\ m.name = First(p.name, First(c.name, x.name))
  BY <1>1, MergeFields
<1>5. FullOf(m, u) \/ PlainOf(m, u) \/ ComputerOf(m, u)
  <2>1. CASE u \in Windows
    <3>1. ComputerOf(c, u) /\ ComputerOf(x, u)
      BY <2>1, InventoryAssumption DEF About, FullOf, PlainOf
    <3> QED
      BY <2>1, <3>1, <1>3, <1>4 DEF ComputerOf, First
  <2>2. CASE FullOf(c, u) \/ FullOf(x, u)
    <3>1. p.maker = "samsung" /\ FullOf(p, u)
      BY <2>2, InventoryAssumption DEF About, FullOf, PlainOf, ComputerOf, Identity, IsSamsung
    <3>2. p.name # None /\ p.duid # None /\ p.mac # None /\ p.maker # None
      BY <3>1, InventoryAssumption DEF FullOf, TypeOK, Unit
    <3> QED
      BY <3>1, <3>2, <1>4 DEF FullOf, First
  <2>3. CASE PlainOf(c, u) /\ PlainOf(x, u)
    BY <2>3, <1>3, <1>4 DEF PlainOf, First
  <2> QED
    BY <2>1, <2>2, <2>3 DEF About, ComputerOf
<1> QED
  BY <1>2, <1>5 DEF About

-----------------------------------------------------------------------------
(* Orders and groups *)

LEMMA OrderFacts ==
    ASSUME NEW S, IsFiniteSet(S), NEW o \in SetToSeqs(S), NEW N, N = Cardinality(S)
    PROVE  /\ N \in Nat /\ DOMAIN o = 1 .. N /\ o \in [1 .. N -> S]
           /\ \A i, j \in 1 .. N : o[i] = o[j] => i = j
           /\ \A x \in S : \E i \in 1 .. N : o[i] = x
<1>1. N \in Nat
  BY FS_CardinalityType
<1>2. o \in [1 .. N -> S] /\ \A i, j \in 1 .. N : i # j => o[i] # o[j]
  BY Zenon DEF SetToSeqs
<1>3. o \in Injection(1 .. N, S)
  BY <1>2 DEF Injection, IsInjective
<1>4. IsFiniteSet(1 .. N) /\ Cardinality(1 .. N) = N
  BY <1>1, FS_Interval
<1>5. o \in Surjection(1 .. N, S)
  BY <1>3, <1>4, FS_Injection
<1> QED
  BY <1>1, <1>2, <1>5 DEF Surjection

LEMMA RecordsFinite ==
    ASSUME TypeOK
    PROVE  IsFiniteSet(Records)
<1>1. metadata \in Surjection(DOMAIN metadata, Records)
  BY DEF TypeOK, Surjection, Records
<1> QED
  BY <1>1, FS_Surjection DEF TypeOK

LEMMA RecordFacts ==
    ASSUME Filed, NEW r \in Records
    PROVE  /\ r.id \in DOMAIN metadata /\ metadata[r.id] = r /\ r.seen < clock
           /\ \E u \in Unit : About(r, u) /\ FiledUnder(r.id, r, u)
BY DEF Filed, FiledIn, Records

\* The shape of a record decides by what it is grouped.
LEMMA KeyOfShape ==
    ASSUME NEW r, NEW u \in Unit
    PROVE  /\ FullOf(r, u) => IdentityKey(r) = <<"duid", u>>
           /\ PlainOf(r, u) => IdentityKey(r) = <<"tv", r.name, r.ip>>
           /\ ComputerOf(r, u) => IdentityKey(r) = <<"computer", u>>
BY InventoryAssumption DEF FullOf, PlainOf, ComputerOf, IdentityKey, IsSamsung, Unit

LEMMA MainShapes ==
    ASSUME NEW r, NEW u \in Unit, About(r, u)
    PROVE  /\ FullOf(r, u) \/ ComputerOf(r, u) => Main(r)
           /\ PlainOf(r, u) => (Main(r) <=> u \notin Samsung)
           /\ u \in Samsung => (Main(r) <=> FullOf(r, u))
           /\ u \in Samsung => (~Main(r) <=> PlainOf(r, u))
BY InventoryAssumption DEF About, FullOf, PlainOf, ComputerOf, Main, Unit

LEMMA MainIsAlone ==
    ASSUME IInv, NEW r \in Records, NEW s \in Records, r.units = s.units, Main(r), Main(s)
    PROVE  r = s
<1>1. r.id \in DOMAIN metadata /\ metadata[r.id] = r /\ s.id \in DOMAIN metadata /\ metadata[s.id] = s
  BY RecordFacts DEF IInv
<1> QED
  BY <1>1 DEF IInv, Alone, AloneIn

LEMMA KeysDiffer ==
    ASSUME IInv, NEW r \in Records, NEW s \in Records, IdentityKey(r) = IdentityKey(s)
    PROVE  r = s
<1>1. PICK u \in Unit : About(r, u) /\ FiledUnder(r.id, r, u)
  BY RecordFacts DEF IInv
<1>2. PICK v \in Unit : About(s, v) /\ FiledUnder(s.id, s, v)
  BY RecordFacts DEF IInv
<1>3. r.id = s.id => r = s
  BY RecordFacts, Zenon DEF IInv
<1>4. ASSUME u = v, Main(r), Main(s)
      PROVE  r = s
  BY <1>1, <1>2, <1>4, MainIsAlone DEF About
<1>5. CASE FullOf(r, u)
  <2>1. FullOf(s, v) /\ u = v
    BY <1>2, <1>5, KeyOfShape DEF About
  <2> QED
    BY <1>1, <1>2, <1>4, <1>5, <2>1, MainShapes
<1>6. CASE ComputerOf(r, u)
  <2>1. ComputerOf(s, v) /\ u = v
    BY <1>2, <1>6, KeyOfShape DEF About
  <2> QED
    BY <1>1, <1>2, <1>4, <1>6, <2>1, MainShapes
<1>7. CASE PlainOf(r, u)
  <2>1. PlainOf(s, v) /\ r.name = s.name
    BY <1>2, <1>7, KeyOfShape DEF About
  <2>2. r.id = <<"mdns", r.name>> /\ s.id = <<"mdns", s.name>>
    BY <1>1, <1>2, <1>7, <2>1, InventoryAssumption DEF FiledUnder, FullOf, PlainOf, ComputerOf
  <2> QED
    BY <1>3, <2>1, <2>2
<1> QED
  BY <1>1, <1>5, <1>6, <1>7 DEF About

\* As no two records have one key, grouping leaves them as they are.
LEMMA GroupedKeeps ==
    ASSUME IInv, NEW o \in SetToSeqs(Records)
    PROVE  Range(Grouped(o)) = Records
<1> DEFINE N == Cardinality(Records)
           Key(m) == IdentityKey(o[m])
<1>1. /\ N \in Nat /\ DOMAIN o = 1 .. N /\ o \in [1 .. N -> Records]
      /\ \A i, j \in 1 .. N : o[i] = o[j] => i = j
      /\ \A x \in Records : \E i \in 1 .. N : o[i] = x
  BY OrderFacts, RecordsFinite DEF IInv
<1> HIDE DEF N
<1>2. PICK a : /\ a[0] = <<>>
               /\ \A n \in 1 .. N : a[n] = Add(a[n - 1], o[n])
               /\ Grouped(o) = a[N]
  BY <1>1, GroupedSteps
<1> DEFINE Good(n) == /\ DOMAIN a[n] = {Key(m) : m \in 1 .. n}
                      /\ \A m \in 1 .. n : a[n][Key(m)] = o[m]
<1>3. Good(0)
  <2>1. 1 .. 0 = {}
    BY SMT
  <2>2. {Key(m) : m \in 1 .. 0} = {} /\ DOMAIN a[0] = {}
    BY <1>2, <2>1
  <2> QED
    BY <2>1, <2>2
<1>4. ASSUME NEW n \in 1 .. N, Good(n - 1)
      PROVE  Good(n)
  <2>1. n - 1 \in Nat /\ 1 .. n = (1 .. (n - 1)) \cup {n} /\ n \notin 1 .. (n - 1)
    BY <1>1
  <2>2. \A m \in 1 .. (n - 1) : Key(m) # Key(n)
    BY <1>1, <2>1, KeysDiffer
  <2>3. Key(n) \notin DOMAIN a[n - 1]
    BY <1>4, <2>2
  <2>4. a[n] = Put(a[n - 1], Key(n), o[n])
    BY <1>2, <2>3 DEF Add
  <2> HIDE DEF Key
  <2>5. DOMAIN a[n] = DOMAIN a[n - 1] \cup {Key(n)}
    BY <2>4 DEF Put
  <2>6. DOMAIN a[n] = {Key(m) : m \in 1 .. n}
    BY <1>4, <2>1, <2>5
  <2>7. a[n][Key(n)] = o[n]
    BY <2>4 DEF Put
  <2>8. ASSUME NEW m \in 1 .. (n - 1)
        PROVE  a[n][Key(m)] = o[m]
    <3>1. Key(m) \in DOMAIN a[n - 1] /\ Key(m) # Key(n)
      BY <1>4, <2>2
    <3> QED
      BY <1>4, <2>4, <3>1 DEF Put
  <2> QED
    BY <2>1, <2>6, <2>7, <2>8
<1>5. Good(N)
  <2> DEFINE G == {n \in 0 .. N : Good(n)}
  <2> HIDE DEF Good
  <2>1. 0 \in G
    BY <1>1, <1>3
  <2>2. \A n \in 1 .. N : n - 1 \in G => n \in G
    BY <1>1, <1>4
  <2>3. N \in G
    BY <1>1, <2>1, <2>2, UpTo
  <2> QED
    BY <2>3
<1>6. Range(Grouped(o)) = {o[m] : m \in 1 .. N}
  <2> DEFINE g == Grouped(o)
  <2>1. DOMAIN g = {Key(m) : m \in 1 .. N} /\ \A m \in 1 .. N : g[Key(m)] = o[m]
    BY <1>2, <1>5
  <2> HIDE DEF g, Key
  <2>2. \A x : x \in {g[k] : k \in DOMAIN g} <=> x \in {o[m] : m \in 1 .. N}
    BY <2>1
  <2> QED
    BY <2>2 DEF Range, g
<1> QED
  BY <1>1, <1>6

-----------------------------------------------------------------------------
(* Rows *)

LEMMA ListingIsCollapsed ==
    ASSUME IInv, NEW rows \in Listings
    PROVE  \E o \in SetToSeqs(BestAtAddress(Records)) : rows = Range(Collapsed(o))
<1>1. \A o \in SetToSeqs(Records) : Range(Grouped(o)) = Records
  BY GroupedKeeps
<1> QED
  BY <1>1 DEF Listings

LEMMA BestFacts ==
    ASSUME TypeOK
    PROVE  /\ BestAtAddress(Records) \subseteq Records /\ IsFiniteSet(BestAtAddress(Records))
           /\ \A r, s \in BestAtAddress(Records) : r.ip = s.ip => r = s
<1>1. BestAtAddress(Records) \subseteq Records
  BY DEF BestAtAddress
<1>2. IsFiniteSet(BestAtAddress(Records))
  BY <1>1, RecordsFinite, FS_Subset
<1>3. ASSUME NEW r \in BestAtAddress(Records), NEW s \in BestAtAddress(Records), r.ip = s.ip, r # s
      PROVE  FALSE
  <2>1. r \in Record /\ s \in Record
    BY <1>1 DEF TypeOK, Records
  <2>2. Better(r, s) /\ Better(s, r)
    BY <1>3 DEF BestAtAddress
  <2>3. Rank(r) \in {3, 4, 5} /\ Rank(s) \in {3, 4, 5} /\ r.seen \in Nat /\ s.seen \in Nat
    BY <2>1 DEF Rank, Record
  <2> QED
    BY <2>2, <2>3 DEF Better
<1> QED
  BY <1>1, <1>2, <1>3

\* The row that a record joins.
Place(rows, r) == SelectInSeq(rows, LAMBDA s : SameIdentity(s, r))

LEMMA PlaceFacts ==
    ASSUME NEW rows \in Seq(Record), NEW r
    PROVE  \/ /\ Place(rows, r) = 0
              /\ \A i \in 1 .. Len(rows) : ~SameIdentity(rows[i], r)
           \/ /\ Place(rows, r) \in 1 .. Len(rows)
              /\ SameIdentity(rows[Place(rows, r)], r)
<1> DEFINE I == {i \in 1 .. Len(rows) : SameIdentity(rows[i], r)}
<1>1. Place(rows, r) = IF I # {} THEN Min(I) ELSE 0
  BY DEF Place, SelectInSeq
<1>2. CASE I = {}
  BY <1>1, <1>2
<1>3. CASE I # {}
  <2>1. I \subseteq Nat
    OBVIOUS
  <2>2. PICK n \in I : \A m \in I : n <= m
    BY <1>3, <2>1, LeastNatural
  <2>3. Min(I) \in I
    BY <2>2 DEF Min
  <2> QED
    BY <1>1, <1>3, <2>3
<1> QED
  BY <1>2, <1>3

LEMMA JoinFacts ==
    ASSUME NEW rows \in Seq(Record), NEW r \in Record, NEW at, at = Place(rows, r)
    PROVE  \/ /\ at = 0 /\ Join(rows, r) = Append(rows, r)
              /\ \A i \in 1 .. Len(rows) : ~SameIdentity(rows[i], r)
           \/ /\ at \in 1 .. Len(rows) /\ Join(rows, r) = [rows EXCEPT ![at] = Merge(rows[at], r)]
              /\ SameIdentity(rows[at], r)
<1>1. Join(rows, r) = IF at = 0 THEN Append(rows, r) ELSE [rows EXCEPT ![at] = Merge(rows[at], r)]
  BY DEF Join, Place
<1> QED
  BY <1>1, PlaceFacts

\* A row about u, with the ID of a record about u.
RowOf(r, u) == About(r, u) /\ r.id \in DOMAIN metadata /\ metadata[r.id].units = {u}

LEMMA CollapsedAbout ==
    ASSUME TypeOK, Homes, NEW N \in Nat, NEW o, DOMAIN o = 1 .. N,
           \A n \in 1 .. N : \E u \in Unit : RowOf(o[n], u)
    PROVE  /\ Collapsed(o) \in Seq(Record)
           /\ \A i \in 1 .. Len(Collapsed(o)) : \E u \in Unit : RowOf(Collapsed(o)[i], u)
<1>1. PICK a : /\ a[0] = <<>>
               /\ \A n \in 1 .. N : a[n] = Join(a[n - 1], o[n])
               /\ Collapsed(o) = a[N]
  BY CollapsedSteps
<1> DEFINE Good(n) == /\ a[n] \in Seq(Record)
                      /\ \A i \in 1 .. Len(a[n]) : \E u \in Unit : RowOf(a[n][i], u)
<1>2. Good(0)
  BY <1>1
<1>3. ASSUME NEW n \in 1 .. N, Good(n - 1)
      PROVE  Good(n)
  <2> DEFINE rows == a[n - 1]
             r == o[n]
             at == Place(rows, r)
  <2>1. PICK v \in Unit : RowOf(r, v)
    OBVIOUS
  <2>2. a[n] = Join(rows, r) /\ r \in Record /\ rows \in Seq(Record)
    BY <1>1, <1>3, <2>1 DEF About, RowOf
  <2>3. \A i \in 1 .. Len(rows) : \E u \in Unit : RowOf(rows[i], u)
    BY <1>3
  <2> HIDE DEF rows, r
  <2>4. CASE at = 0 /\ a[n] = Append(rows, r)
    BY <2>1, <2>2, <2>3, <2>4, AppendProperties
  <2>5. CASE /\ at \in 1 .. Len(rows) /\ a[n] = [rows EXCEPT ![at] = Merge(rows[at], r)]
             /\ SameIdentity(rows[at], r)
    <3>1. PICK u \in Unit : RowOf(rows[at], u)
      BY <2>3, <2>5
    <3>2. About(Merge(rows[at], r), v) /\ u = v
      BY <2>1, <2>5, <3>1, SameIdentityIsOne, MergeAbout DEF RowOf
    <3>3. Merge(rows[at], r) \in Record /\ rows[at] \in Record
      BY <3>1, <3>2 DEF About, RowOf
    <3>4. Merge(rows[at], r).id \in {rows[at].id, r.id}
      BY <2>2, <3>3, MergeFields DEF Identity
    <3>5. RowOf(Merge(rows[at], r), v)
      BY <2>1, <3>1, <3>2, <3>4 DEF RowOf
    <3> HIDE DEF at
    <3> QED
      BY <2>2, <2>3, <2>5, <3>3, <3>5
  <2> QED
    BY <2>2, <2>4, <2>5, JoinFacts
<1>4. Good(N)
  <2> DEFINE G == {n \in 0 .. N : Good(n)}
  <2> HIDE DEF Good
  <2>1. 0 \in G
    BY <1>2
  <2>2. \A n \in 1 .. N : n - 1 \in G => n \in G
    BY <1>3
  <2>3. N \in G
    BY <2>1, <2>2, UpTo
  <2> QED
    BY <2>3
<1> QED
  BY <1>1, <1>4

LEMMA RowsAbout ==
    ASSUME IInv, NEW o \in SetToSeqs(BestAtAddress(Records)), NEW r \in Range(Collapsed(o))
    PROVE  \E u \in Unit : RowOf(r, u)
<1> DEFINE N == Cardinality(BestAtAddress(Records))
<1>1. N \in Nat /\ DOMAIN o = 1 .. N /\ o \in [1 .. N -> BestAtAddress(Records)]
  BY OrderFacts, BestFacts DEF IInv
<1> HIDE DEF N
<1>2. \A n \in 1 .. N : \E u \in Unit : RowOf(o[n], u)
  BY <1>1, BestFacts, RecordFacts DEF IInv, About, RowOf
<1> QED
  BY <1>1, <1>2, CollapsedAbout DEF Range, IInv

-----------------------------------------------------------------------------
(* The row of a settled device *)

MainOf(F, u) ==
    /\ u \in settled /\ F \in Records /\ F.units = {u} /\ Main(F)
    /\ F.ip = lease[u] /\ F.name = called[u]

\* A row that shows what the main record does, and the name given.
Shows(M, F, u) ==
    /\ About(M, u) /\ (FullOf(F, u) => FullOf(M, u)) /\ M.id = F.id /\ M.ip = F.ip /\ M.name = F.name
    /\ M.seen = F.seen /\ (u \notin blurred => M.alias = given[u])

LEMMA SettledHasMain ==
    ASSUME IInv, NEW u \in settled
    PROVE  \E F : MainOf(F, u)
BY DEF IInv, Told, ToldIn, MainOf, Records

LEMMA MainFacts ==
    ASSUME IInv, NEW u, NEW F, MainOf(F, u)
    PROVE  /\ u \in Unit /\ About(F, u) /\ FiledUnder(F.id, F, u) /\ Shows(F, F, u)
           /\ u \in Samsung => FullOf(F, u)
<1>1. u \in Unit
  BY DEF IInv, TypeOK, MainOf
<1>2. About(F, u) /\ FiledUnder(F.id, F, u)
  <2>1. PICK v \in Unit : About(F, v) /\ FiledUnder(F.id, F, v)
    BY RecordFacts DEF IInv, MainOf
  <2> QED
    BY <2>1 DEF About, MainOf
<1>3. u \notin blurred => F.alias = given[u]
  <2>1. F.id \in DOMAIN metadata /\ metadata[F.id] = F
    BY RecordFacts DEF IInv, MainOf
  <2> QED
    BY <1>1, <2>1 DEF IInv, Aliased, AliasedIn, MainOf
<1> QED
  BY <1>1, <1>2, <1>3, MainShapes DEF Shows, MainOf

LEMMA Others ==
    ASSUME IInv, NEW u, NEW F, MainOf(F, u), NEW r \in Records, r.units = {u}, r # F
    PROVE  /\ u \in Samsung /\ FullOf(F, u) /\ PlainOf(r, u) /\ About(r, u) /\ ~Main(r)
           /\ r.id # F.id /\ r.id = <<"mdns", r.name>>
           /\ r.ip # F.ip => r.seen < F.seen
           /\ Current(r, u) /\ u \notin blurred => r.alias = None
<1>1. u \in Unit /\ About(F, u)
  BY MainFacts
<1>2. About(r, u) /\ FiledUnder(r.id, r, u)
  <2>1. PICK v \in Unit : About(r, v) /\ FiledUnder(r.id, r, v)
    BY RecordFacts DEF IInv
  <2> QED
    BY <2>1 DEF About
<1>3. ~Main(r)
  BY MainIsAlone DEF MainOf
<1>4. u \in Samsung /\ PlainOf(r, u) /\ FullOf(F, u)
  BY <1>1, <1>2, <1>3, MainShapes, MainFacts DEF Main, About
<1>5. r.id = <<"mdns", r.name>>
  BY <1>2, <1>4, InventoryAssumption DEF FiledUnder, FullOf, PlainOf, ComputerOf, Unit
<1>6. /\ r.id \in DOMAIN metadata /\ metadata[r.id] = r
      /\ F.id \in DOMAIN metadata /\ metadata[F.id] = F
  BY RecordFacts DEF IInv, MainOf
<1>7. r.ip # F.ip => r.seen < F.seen
  <2>1. r.seen \in Nat /\ F.seen \in Nat
    BY <1>1, <1>2 DEF About, Record
  <2>2. F.ip = lease[u] /\ F.units = {u}
    BY DEF MainOf
  <2>3. r.seen >= F.seen => r.ip = lease[u]
    BY <1>1, <1>6, <2>2 DEF IInv, Later, LaterIn
  <2> QED
    BY <2>1, <2>2, <2>3
<1>8. Current(r, u) /\ u \notin blurred => r.alias = None
  BY <1>1, <1>3, <1>6 DEF IInv, Aliased, AliasedIn
<1> QED
  BY <1>2, <1>3, <1>4, <1>5, <1>6, <1>7, <1>8

LEMMA MainIsBest ==
    ASSUME IInv, NEW u, NEW F, MainOf(F, u)
    PROVE  F \in BestAtAddress(Records)
<1>1. ASSUME NEW s \in Records \ {F}, s.ip = F.ip
      PROVE  Better(F, s)
  <2>1. PICK v \in Unit : About(s, v)
    BY RecordFacts DEF IInv
  <2>2. v = u
    BY <1>1, <2>1, MainFacts DEF About, IInv, Homes
  <2>3. FullOf(F, u) /\ PlainOf(s, u)
    BY <2>1, <2>2, Others DEF About
  <2> QED
    BY <2>3, InventoryAssumption DEF Better, Rank, FullOf, PlainOf
<1> QED
  BY <1>1 DEF BestAtAddress, MainOf

LEMMA PlainsDiffer ==
    ASSUME IInv, NEW u, NEW r, NEW s, PlainOf(r, u), PlainOf(s, u), SameIdentity(r, s)
    PROVE  r.ip = s.ip
BY InventoryAssumption DEF PlainOf, SameIdentity, Agree, Differ, SameName, IsSamsung

LEMMA FullAndPlain ==
    ASSUME IInv, NEW u \in Unit, NEW r, NEW s, FullOf(r, u), PlainOf(s, u), r.ip # s.ip
    PROVE  /\ SameIdentity(r, s) <=> r.name = s.name
           /\ SameIdentity(s, r) <=> r.name = s.name
<1>1. r.name # None /\ s.name # None /\ u # None
  BY InventoryAssumption DEF FullOf, PlainOf, IInv, TypeOK, Unit
<1> QED
  BY <1>1 DEF FullOf, PlainOf, SameIdentity, Agree, Differ, SameName, IsSamsung

\* A plain record with the name of the main row adds nothing to it.
LEMMA MergeShows ==
    ASSUME IInv, NEW u, NEW F, MainOf(F, u), NEW r \in Records, r.units = {u}, r # F, r.ip # F.ip,
           r.name = F.name, NEW M, Shows(M, F, u)
    PROVE  Shows(Merge(M, r), F, u) /\ Shows(Merge(r, M), F, u)
<1>1. /\ u \in Samsung /\ FullOf(M, u) /\ PlainOf(r, u) /\ About(r, u) /\ r.seen < F.seen
      /\ u \notin blurred => r.alias = None
  BY Others DEF Shows, Current, MainOf
<1>2. u \in Unit /\ M \in Record /\ r \in Record /\ About(M, u)
  BY <1>1 DEF About, Shows, Unit
<1>3. M.seen = F.seen /\ M.seen \in Nat /\ r.seen \in Nat
  BY <1>2 DEF Shows, Record
<1>4. Identity(M, r) = M /\ Identity(r, M) = M /\ Latest(M, r) = M /\ Latest(r, M) = M
  BY <1>1, <1>3, InventoryAssumption DEF Identity, Latest, IsSamsung, FullOf, PlainOf
<1>5. ASSUME NEW m, m \in {Merge(M, r), Merge(r, M)}
      PROVE  Shows(m, F, u)
  <2>1. About(m, u)
    BY <1>1, <1>2, <1>5, MergeAbout DEF IInv
  <2>2. /\ m.maker \in {First(M.maker, First(M.maker, r.maker)), First(M.maker, First(r.maker, M.maker))}
        /\ m.id = M.id /\ m.ip = M.ip /\ m.seen = M.seen /\ m.kind = M.kind
        /\ m.name \in {First(M.name, First(M.name, r.name)), First(M.name, First(r.name, M.name))}
        /\ m.alias \in {First(M.alias, r.alias), First(r.alias, M.alias)}
    BY <1>2, <1>4, <1>5, MergeFields
  <2>3. M.name # None /\ M.maker = "samsung"
    BY <1>1, InventoryAssumption DEF FullOf, IInv, TypeOK, Unit
  <2>4. m.name = M.name /\ m.maker = "samsung"
    BY <2>2, <2>3, InventoryAssumption DEF First
  <2>5. FullOf(m, u)
    BY <1>1, <2>1, <2>4, InventoryAssumption DEF About, FullOf, PlainOf, ComputerOf
  <2>6. u \notin blurred => m.alias = given[u]
    BY <1>1, <2>2 DEF Shows, First
  <2> QED
    BY <2>1, <2>2, <2>4, <2>5, <2>6 DEF Shows
<1> QED
  BY <1>5

\* Every row is about some device.
AllAbout(rows) == \A i \in 1 .. Len(rows) : \E u \in Unit : About(rows[i], u)

\* The rows of u while its main record has not come yet: its other records;
\* and when it has: the row that shows it, and records that are out of date.
Apart(rows, o, n, u) ==
    \A i \in 1 .. Len(rows) :
        rows[i].units = {u} =>
            /\ \E m \in 1 .. n : rows[i] = o[m]
            /\ \A j \in 1 .. Len(rows) : j # i => rows[j] # rows[i]
Stale(r, o, n, F, u) == r.name # called[u] /\ \E m \in 1 .. n : r = o[m] /\ o[m] # F
Together(rows, o, n, F, u) ==
    \E k \in 1 .. Len(rows) :
        /\ Shows(rows[k], F, u)
        /\ \A i \in 1 .. Len(rows) :
              i # k /\ rows[i].units = {u} =>
                  Stale(rows[i], o, n, F, u)

LEMMA StaleLater ==
    ASSUME NEW n \in Nat, NEW r, NEW o, NEW F, NEW u, Stale(r, o, n - 1, F, u)
    PROVE  Stale(r, o, n, F, u)
BY DEF Stale

\* What happens to the rows of u in a step, by what the record is about.
Untouched(J, rows, u) ==
    /\ J \in Seq(Record) /\ Len(rows) <= Len(J)
    /\ AllAbout(J)
    /\ \A i \in 1 .. Len(J) : J[i].units = {u} => i \in 1 .. Len(rows) /\ J[i] = rows[i]
    /\ \A i \in 1 .. Len(rows) : rows[i].units = {u} => J[i] = rows[i]

LEMMA JoinOther ==
    ASSUME TypeOK, Homes, NEW rows \in Seq(Record), NEW u \in Unit, NEW v \in Unit, u # v,
           NEW r, About(r, v), AllAbout(rows),
           NEW J, J = Join(rows, r)
    PROVE  Untouched(J, rows, u)
<1> DEFINE at == Place(rows, r)
<1>1. r \in Record /\ r.units = {v} /\ {v} # {u} /\ Len(rows) \in Nat
  BY DEF About
<1>2. CASE at = 0 /\ J = Append(rows, r)
  <2>1. /\ J \in Seq(Record) /\ Len(J) = Len(rows) + 1 /\ J[Len(rows) + 1] = r
        /\ \A i \in 1 .. Len(rows) : J[i] = rows[i]
    BY <1>1, <1>2, AppendProperties
  <2>2. \A i \in 1 .. Len(J) : i = Len(rows) + 1 \/ i \in 1 .. Len(rows)
    BY <1>1, <2>1
  <2>3. AllAbout(J)
    BY <2>1, <2>2 DEF AllAbout
  <2>4. \A i \in 1 .. Len(J) : J[i].units = {u} => i \in 1 .. Len(rows) /\ J[i] = rows[i]
    BY <1>1, <2>1, <2>2
  <2> QED
    BY <1>1, <2>1, <2>3, <2>4 DEF Untouched
<1>3. CASE /\ at \in 1 .. Len(rows) /\ J = [rows EXCEPT ![at] = Merge(rows[at], r)]
           /\ SameIdentity(rows[at], r)
  <2>1. PICK w \in Unit : About(rows[at], w)
    BY <1>3 DEF AllAbout
  <2>2. About(rows[at], v)
    BY <1>3, <2>1, SameIdentityIsOne
  <2>3. About(Merge(rows[at], r), v)
    BY <2>2, MergeAbout
  <2>4. /\ Merge(rows[at], r) \in Record /\ Merge(rows[at], r).units = {v} /\ rows[at].units = {v}
    BY <2>2, <2>3 DEF About
  <2> DEFINE m == Merge(rows[at], r)
  <2>5. m \in Record /\ m.units = {v} /\ About(m, v) /\ J = [rows EXCEPT ![at] = m]
    BY <1>3, <2>3, <2>4
  <2> HIDE DEF m, at
  <2>6. /\ J \in Seq(Record) /\ Len(J) = Len(rows) /\ J[at] = m
        /\ \A i \in 1 .. Len(rows) : i # at => J[i] = rows[i]
    BY <1>3, <2>5
  <2>7. AllAbout(J)
    BY <2>5, <2>6 DEF AllAbout
  <2>8. \A i \in 1 .. Len(J) : J[i].units = {u} => i \in 1 .. Len(rows) /\ J[i] = rows[i]
    BY <1>1, <2>5, <2>6
  <2>9. \A i \in 1 .. Len(rows) : rows[i].units = {u} => J[i] = rows[i]
    BY <1>1, <2>4, <2>6
  <2> QED
    BY <1>1, <2>6, <2>7, <2>8, <2>9 DEF Untouched
<1> QED
  BY <1>1, <1>2, <1>3, JoinFacts

\* What is known of the order in which the best records are collapsed, with
\* the main record of u at f.
Ordered(o, N, F, f, u) ==
    /\ N \in Nat /\ f \in 1 .. N /\ o[f] = F
    /\ \A i \in 1 .. N : o[i] \in Records /\ \E v \in Unit : About(o[i], v)
    /\ \A i, j \in 1 .. N : o[i] = o[j] \/ o[i].ip = o[j].ip => i = j

Appended(J, rows, r) == J = Append(rows, r)

LEMMA JoinBefore ==
    ASSUME IInv, NEW u, NEW F, MainOf(F, u), NEW N, NEW o, NEW f, Ordered(o, N, F, f, u),
           NEW n \in 1 .. N, n < f, o[n].units = {u},
           NEW rows \in Seq(Record), Apart(rows, o, n - 1, u),
           AllAbout(rows), NEW J, J = Join(rows, o[n])
    PROVE  Appended(J, rows, o[n])
<1> DEFINE r == o[n]
           at == Place(rows, r)
<1>1. /\ r \in Records /\ r # F /\ u \in Unit /\ PlainOf(r, u) /\ About(r, u) /\ r \in Record
  <2>1. r \in Records /\ r # F
    BY DEF Ordered
  <2> QED
    BY <2>1, MainFacts, Others DEF About
<1>2. ASSUME at \in 1 .. Len(rows), SameIdentity(rows[at], r)
      PROVE  FALSE
  <2>1. PICK w \in Unit : About(rows[at], w)
    BY <1>2 DEF AllAbout
  <2>2. w = u
    BY <1>1, <1>2, <2>1, SameIdentityIsOne DEF IInv
  <2>3. PICK m \in 1 .. n - 1 : rows[at] = o[m]
    BY <1>2, <2>1, <2>2 DEF Apart, About
  <2>4. m \in 1 .. N /\ m # n /\ m # f
    BY <2>3 DEF Ordered
  <2>5. o[m] \in Records /\ o[m] # F /\ o[m].units = {u}
    BY <2>1, <2>2, <2>3, <2>4 DEF Ordered, About
  <2>6. PlainOf(o[m], u)
    BY <2>5, Others
  <2>7. o[m].ip = r.ip
    BY <1>1, <1>2, <2>3, <2>6, PlainsDiffer
  <2> QED
    BY <2>4, <2>7 DEF Ordered
<1> QED
  BY <1>1, <1>2, JoinFacts DEF Appended

LEMMA JoinMain ==
    ASSUME IInv, NEW u, NEW F, MainOf(F, u), NEW N, NEW o, NEW f, Ordered(o, N, F, f, u),
           NEW rows \in Seq(Record), Apart(rows, o, f - 1, u),
           AllAbout(rows),
           NEW J, J = Join(rows, F)
    PROVE  /\ Together(J, o, f, F, u) /\ J \in Seq(Record)
           /\ AllAbout(J)
<1> DEFINE at == Place(rows, F)
<1>1. u \in Unit /\ F \in Record /\ About(F, u) /\ Shows(F, F, u) /\ F.units = {u} /\ f \in Nat /\ f \in 1 .. N
  BY MainFacts DEF About, Ordered
<1>2. ASSUME NEW i \in 1 .. Len(rows), rows[i].units = {u}
      PROVE  /\ \E m \in 1 .. f - 1 : rows[i] = o[m]
             /\ \E m \in 1 .. f : rows[i] = o[m] /\ o[m] # F
             /\ rows[i] \in Records /\ rows[i] # F
             /\ FullOf(F, u) /\ PlainOf(rows[i], u) /\ rows[i].ip # F.ip
             /\ SameIdentity(rows[i], F) <=> rows[i].name = called[u]
  <2>1. PICK m \in 1 .. f - 1 : rows[i] = o[m]
    BY <1>2 DEF Apart
  <2>2. m \in 1 .. N /\ m # f /\ m \in 1 .. f /\ o[f] = F
    BY <1>1, <2>1 DEF Ordered
  <2>3. o[m] \in Records /\ o[m] # F /\ o[m].ip # F.ip
    BY <1>1, <2>2 DEF Ordered
  <2>4. FullOf(F, u) /\ PlainOf(o[m], u)
    BY <1>2, <2>1, <2>3, Others
  <2>5. SameIdentity(o[m], F) <=> o[m].name = called[u]
    BY <1>1, <2>3, <2>4, FullAndPlain DEF MainOf
  <2> QED
    BY <2>1, <2>2, <2>3, <2>4, <2>5
<1>3. CASE /\ at = 0 /\ J = Append(rows, F)
           /\ \A i \in 1 .. Len(rows) : ~SameIdentity(rows[i], F)
  <2>1. /\ J \in Seq(Record) /\ Len(J) = Len(rows) + 1 /\ J[Len(rows) + 1] = F
        /\ \A i \in 1 .. Len(rows) : J[i] = rows[i]
    BY <1>1, <1>3, AppendProperties
  <2>2. Len(rows) + 1 \in 1 .. Len(J) /\ \A i \in 1 .. Len(J) : i = Len(rows) + 1 \/ i \in 1 .. Len(rows)
    BY <2>1
  <2>3. Together(J, o, f, F, u)
    <3>1. Shows(J[Len(rows) + 1], F, u)
      BY <1>1, <2>1
    <3>2. ASSUME NEW i \in 1 .. Len(J), i # Len(rows) + 1, J[i].units = {u}
          PROVE  Stale(J[i], o, f, F, u)
      BY <1>2, <1>3, <2>1, <2>2, <3>2 DEF Stale
    <3> QED
      BY <2>2, <3>1, <3>2 DEF Together
  <2>4. AllAbout(J)
    BY <1>1, <2>1, <2>2 DEF AllAbout
  <2> QED
    BY <2>1, <2>3, <2>4
<1>4. CASE /\ at \in 1 .. Len(rows) /\ J = [rows EXCEPT ![at] = Merge(rows[at], F)]
           /\ SameIdentity(rows[at], F)
  <2>1. PICK w \in Unit : About(rows[at], w)
    BY <1>4 DEF AllAbout
  <2>2. rows[at].units = {u}
    BY <1>1, <1>4, <2>1, SameIdentityIsOne DEF IInv, About
  <2> DEFINE M == Merge(rows[at], F)
  <2>3. Shows(M, F, u)
    <3>1. rows[at] \in Records /\ rows[at] # F /\ rows[at].ip # F.ip /\ rows[at].name = F.name
      BY <1>2, <1>4, <2>2 DEF MainOf
    <3> QED
      BY <1>1, <2>2, <3>1, MergeShows
  <2>4. M \in Record /\ About(M, u)
    BY <2>3 DEF Shows, About
  <2>5. J = [rows EXCEPT ![at] = M]
    BY <1>4
  <2> HIDE DEF M
  <2>6. ASSUME NEW i \in 1 .. Len(rows), i # at, rows[i].units = {u}
        PROVE  rows[i].name # called[u]
    <3>1. SUFFICES ASSUME rows[i].name = called[u]
                   PROVE  FALSE
      OBVIOUS
    <3>2. rows[at].name = called[u]
      BY <1>2, <1>4, <2>2
    <3>3. /\ rows[i] \in Records /\ rows[at] \in Records /\ rows[i] # F /\ rows[at] # F
      BY <1>2, <1>4, <2>2, <2>6
    <3>4. rows[i].id = <<"mdns", called[u]>> /\ rows[at].id = <<"mdns", called[u]>>
      BY <2>2, <2>6, <3>1, <3>2, <3>3, Others
    <3>5. rows[i] = rows[at]
      BY <3>3, <3>4, RecordFacts, Zenon DEF IInv
    <3> QED
      BY <1>4, <2>2, <2>6, <3>5 DEF Apart
  <2> HIDE DEF at
  <2>7. /\ J \in Seq(Record) /\ Len(J) = Len(rows) /\ J[at] = M
        /\ \A i \in 1 .. Len(rows) : i # at => J[i] = rows[i]
    BY <1>4, <2>4, <2>5
  <2>8. Together(J, o, f, F, u)
    <3>1. ASSUME NEW i \in 1 .. Len(J), i # at, J[i].units = {u}
          PROVE  Stale(J[i], o, f, F, u)
      BY <1>2, <2>6, <2>7, <3>1 DEF Stale
    <3> QED
      BY <1>4, <2>3, <2>7, <3>1 DEF Together
  <2>9. AllAbout(J)
    BY <1>1, <2>4, <2>7 DEF AllAbout
  <2> QED
    BY <2>7, <2>8, <2>9
<1> QED
  BY <1>1, <1>3, <1>4, JoinFacts

LEMMA JoinAfter ==
    ASSUME IInv, NEW u, NEW F, MainOf(F, u), NEW N, NEW o, NEW f, Ordered(o, N, F, f, u),
           NEW n \in 1 .. N, f < n, o[n].units = {u},
           NEW rows \in Seq(Record), Together(rows, o, n - 1, F, u),
           AllAbout(rows),
           NEW J, J = Join(rows, o[n])
    PROVE  /\ Together(J, o, n, F, u) /\ J \in Seq(Record)
           /\ AllAbout(J)
<1> DEFINE r == o[n]
           at == Place(rows, r)
<1>1. /\ r \in Records /\ r # F /\ r.ip # F.ip /\ u \in Unit /\ n \in Nat /\ f \in 1 .. N /\ N \in Nat
      /\ FullOf(F, u) /\ PlainOf(r, u) /\ About(r, u) /\ r \in Record /\ r.units = {u}
  <2>1. r \in Records /\ r # F /\ r.ip # F.ip /\ N \in Nat /\ f \in 1 .. N
    BY DEF Ordered
  <2> QED
    BY <2>1, MainFacts, Others DEF About
<1>2. PICK k \in 1 .. Len(rows) :
        /\ Shows(rows[k], F, u)
        /\ \A i \in 1 .. Len(rows) :
              i # k /\ rows[i].units = {u} =>
                  Stale(rows[i], o, n - 1, F, u)
  BY DEF Together
<1>3. SameIdentity(rows[k], r) <=> r.name = F.name
  <2>1. FullOf(rows[k], u) /\ rows[k].ip # r.ip /\ rows[k].name = F.name
    BY <1>1, <1>2 DEF Shows
  <2> QED
    BY <1>1, <2>1, FullAndPlain
<1>4. ASSUME at \in 1 .. Len(rows), SameIdentity(rows[at], r)
      PROVE  at = k
  <2>1. PICK w \in Unit : About(rows[at], w)
    BY <1>4 DEF AllAbout
  <2>2. rows[at].units = {u}
    BY <1>1, <1>4, <2>1, SameIdentityIsOne DEF IInv, About
  <2>3. SUFFICES ASSUME at # k
                 PROVE  FALSE
    OBVIOUS
  <2>4. PICK m \in 1 .. n - 1 : rows[at] = o[m] /\ o[m] # F
    BY <1>2, <1>4, <2>2, <2>3 DEF Stale
  <2>5. m \in 1 .. N /\ m # n
    BY <1>1, <2>4
  <2>6. o[m] \in Records
    BY <2>5 DEF Ordered
  <2>7. PlainOf(o[m], u)
    BY <2>2, <2>4, <2>6, Others
  <2>8. o[m].ip = r.ip
    BY <1>1, <1>4, <2>4, <2>7, PlainsDiffer
  <2> QED
    BY <2>5, <2>8 DEF Ordered
<1>5. CASE /\ at = 0 /\ J = Append(rows, r)
           /\ \A i \in 1 .. Len(rows) : ~SameIdentity(rows[i], r)
  <2>1. /\ J \in Seq(Record) /\ Len(J) = Len(rows) + 1 /\ J[Len(rows) + 1] = r
        /\ \A i \in 1 .. Len(rows) : J[i] = rows[i]
    BY <1>1, <1>5, AppendProperties
  <2>2. \A i \in 1 .. Len(J) : i = Len(rows) + 1 \/ i \in 1 .. Len(rows)
    BY <2>1
  <2>3. r.name # called[u]
    BY <1>2, <1>3, <1>5 DEF MainOf
  <2>4. Together(J, o, n, F, u)
    <3>1. Shows(J[k], F, u) /\ k \in 1 .. Len(J)
      BY <1>2, <2>1
    <3>2. ASSUME NEW i \in 1 .. Len(J), i # k, J[i].units = {u}
          PROVE  Stale(J[i], o, n, F, u)
      <4>1. CASE i = Len(rows) + 1
        BY <1>1, <2>1, <2>3, <4>1 DEF Stale
      <4>2. CASE i \in 1 .. Len(rows)
        BY <1>1, <1>2, <2>1, <3>2, <4>2, StaleLater
      <4> QED
        BY <2>2, <4>1, <4>2
    <3> QED
      BY <3>1, <3>2 DEF Together
  <2>5. AllAbout(J)
    BY <1>1, <2>1, <2>2 DEF AllAbout
  <2> QED
    BY <2>1, <2>4, <2>5
<1>6. CASE /\ at \in 1 .. Len(rows) /\ J = [rows EXCEPT ![at] = Merge(rows[at], r)]
           /\ SameIdentity(rows[at], r)
  <2> DEFINE M == Merge(rows[k], r)
  <2>1. Shows(M, F, u)
    BY <1>1, <1>2, <1>3, <1>4, <1>6, MergeShows
  <2>2. M \in Record /\ About(M, u)
    BY <2>1 DEF Shows, About
  <2>3. J = [rows EXCEPT ![k] = M]
    BY <1>4, <1>6
  <2> HIDE DEF M
  <2>4. /\ J \in Seq(Record) /\ Len(J) = Len(rows) /\ J[k] = M
        /\ \A i \in 1 .. Len(rows) : i # k => J[i] = rows[i]
    BY <1>2, <2>2, <2>3
  <2>5. Together(J, o, n, F, u)
    <3>1. ASSUME NEW i \in 1 .. Len(J), i # k, J[i].units = {u}
          PROVE  Stale(J[i], o, n, F, u)
      BY <1>1, <1>2, <2>4, <3>1, StaleLater
    <3> QED
      BY <1>2, <2>1, <2>4, <3>1 DEF Together
  <2>6. AllAbout(J)
    BY <1>1, <2>2, <2>4 DEF AllAbout
  <2> QED
    BY <2>4, <2>5, <2>6
<1> QED
  BY <1>1, <1>5, <1>6, JoinFacts

\* A settled device has one row that shows its main record; what else is left
\* of it has neither its address nor its name.
OneShown(C, F, u) ==
    \E k \in 1 .. Len(C) :
        /\ Shows(C[k], F, u)
        /\ \A i \in 1 .. Len(C) :
              i # k /\ C[i].units = {u} => C[i] \in Records /\ ~Main(C[i]) /\ ~Current(C[i], u)

LEMMA SettledRows ==
    ASSUME IInv, NEW u, NEW F, MainOf(F, u), NEW o \in SetToSeqs(BestAtAddress(Records))
    PROVE  OneShown(Collapsed(o), F, u) /\ Collapsed(o) \in Seq(Record)
<1> DEFINE N == Cardinality(BestAtAddress(Records))
<1>1. PICK f : Ordered(o, N, F, f, u) /\ DOMAIN o = 1 .. N
  <2>1. /\ N \in Nat /\ DOMAIN o = 1 .. N /\ o \in [1 .. N -> BestAtAddress(Records)]
        /\ \A i, j \in 1 .. N : o[i] = o[j] => i = j
        /\ \A x \in BestAtAddress(Records) : \E i \in 1 .. N : o[i] = x
    BY OrderFacts, BestFacts DEF IInv
  <2>2. PICK f \in 1 .. N : o[f] = F
    BY <2>1, MainIsBest
  <2>3. \A i \in 1 .. N : o[i] \in Records /\ \E v \in Unit : About(o[i], v)
    BY <2>1, BestFacts, RecordFacts DEF IInv
  <2>4. \A i, j \in 1 .. N : o[i] = o[j] \/ o[i].ip = o[j].ip => i = j
    BY <2>1, BestFacts DEF IInv
  <2> QED
    BY <2>1, <2>2, <2>3, <2>4 DEF Ordered
<1> HIDE DEF N
<1>2. u \in Unit /\ N \in Nat /\ f \in 1 .. N /\ f \in Nat
  BY <1>1, MainFacts DEF Ordered
<1>3. PICK a : /\ a[0] = <<>>
               /\ \A n \in 1 .. N : a[n] = Join(a[n - 1], o[n])
               /\ Collapsed(o) = a[N]
  BY <1>1, <1>2, CollapsedSteps
<1> DEFINE Good(n) == /\ a[n] \in Seq(Record)
                      /\ AllAbout(a[n])
                      /\ n < f => Apart(a[n], o, n, u)
                      /\ n >= f => Together(a[n], o, n, F, u)
<1>4. Good(0)
  <2>1. a[0] \in Seq(Record) /\ Len(a[0]) = 0 /\ 0 < f
    BY <1>2, <1>3
  <2> QED
    BY <1>2, <2>1 DEF Apart, AllAbout
<1>5. ASSUME NEW n \in 1 .. N, Good(n - 1)
      PROVE  Good(n)
  <2> DEFINE rows == a[n - 1]
             r == o[n]
             J == a[n]
  <2>1. PICK v \in Unit : About(r, v)
    BY <1>1 DEF Ordered
  <2>2. /\ J = Join(rows, r) /\ r \in Record /\ rows \in Seq(Record) /\ n \in Nat
        /\ AllAbout(rows)
        /\ n - 1 < f => Apart(rows, o, n - 1, u)
        /\ n - 1 >= f => Together(rows, o, n - 1, F, u)
    BY <1>2, <1>3, <1>5, <2>1 DEF About
  <2> HIDE DEF rows, J, Good
  <2>3. CASE u # v
    <3>1. /\ J \in Seq(Record) /\ Len(rows) <= Len(J)
          /\ AllAbout(J)
          /\ \A i \in 1 .. Len(J) : J[i].units = {u} => i \in 1 .. Len(rows) /\ J[i] = rows[i]
          /\ \A i \in 1 .. Len(rows) : rows[i].units = {u} => J[i] = rows[i]
      <4>1. TypeOK /\ Homes
        BY DEF IInv
      <4>2. J = Join(rows, r) /\ rows \in Seq(Record) /\ AllAbout(rows)
        BY <2>2
      <4>3. u \in Unit /\ u # v
        BY <1>2, <2>3
      <4> HIDE DEF r
      <4>4. Untouched(J, rows, u)
        BY <2>1, <4>1, <4>2, <4>3, JoinOther
      <4> QED
        BY <4>4 DEF Untouched
    <3>2. n # f
      <4>1. F.units = {u} /\ o[f] = F /\ r.units = {v} /\ {u} # {v}
        BY <1>1, <2>1, <2>3 DEF Ordered, MainOf, About
      <4> QED
        BY <4>1
    <3>3. ASSUME n < f
          PROVE  Apart(J, o, n, u)
      <4>1. Apart(rows, o, n - 1, u)
        BY <1>2, <2>2, <3>3
      <4>2. ASSUME NEW i \in 1 .. Len(J), J[i].units = {u}
            PROVE  \E m \in 1 .. n : J[i] = o[m]
        BY <2>2, <3>1, <4>1, <4>2 DEF Apart
      <4>3. ASSUME NEW i \in 1 .. Len(J), J[i].units = {u}, NEW j \in 1 .. Len(J), j # i
            PROVE  J[j] # J[i]
        BY <3>1, <4>1, <4>3 DEF Apart
      <4> QED
        BY <4>2, <4>3 DEF Apart
    <3>4. ASSUME n >= f
          PROVE  Together(J, o, n, F, u)
      <4>1. Together(rows, o, n - 1, F, u)
        BY <1>2, <2>2, <3>2, <3>4
      <4>2. PICK k \in 1 .. Len(rows) :
              /\ Shows(rows[k], F, u)
              /\ \A i \in 1 .. Len(rows) :
                    i # k /\ rows[i].units = {u} =>
                        Stale(rows[i], o, n - 1, F, u)
        BY <4>1 DEF Together
      <4>3. J[k] = rows[k] /\ k \in 1 .. Len(J)
        BY <3>1, <4>2 DEF Shows, About
      <4>4. ASSUME NEW i \in 1 .. Len(J), i # k, J[i].units = {u}
            PROVE  Stale(J[i], o, n, F, u)
        BY <2>2, <3>1, <4>2, <4>4, StaleLater
      <4> QED
        BY <4>2, <4>3, <4>4 DEF Together
    <3> QED
      BY <3>1, <3>3, <3>4 DEF J, Good
  <2>4. CASE u = v /\ n = f
    <3>1. r = F
      BY <1>1, <2>4 DEF Ordered
    <3>2. Apart(rows, o, f - 1, u)
      BY <1>2, <2>2, <2>4
    <3>3. /\ Together(J, o, f, F, u) /\ J \in Seq(Record)
          /\ AllAbout(J)
      BY <1>1, <2>2, <3>1, <3>2, JoinMain
    <3> QED
      BY <1>2, <2>4, <3>3 DEF J, Good
  <2>5. CASE u = v /\ n < f
    <3>1. Apart(rows, o, n - 1, u) /\ r.units = {u} /\ n < f
      BY <1>2, <2>1, <2>2, <2>5 DEF About
    <3>2. J = Append(rows, r)
      <4>1. Appended(J, rows, r)
        BY <1>1, <2>2, <3>1, JoinBefore
      <4> QED
        BY <4>1 DEF Appended
    <3>3. /\ J \in Seq(Record) /\ Len(J) = Len(rows) + 1 /\ J[Len(rows) + 1] = r
          /\ \A i \in 1 .. Len(rows) : J[i] = rows[i]
      BY <2>2, <3>2, AppendProperties
    <3>4. \A i \in 1 .. Len(J) : i = Len(rows) + 1 \/ i \in 1 .. Len(rows)
      BY <3>3
    <3>5. \A i \in 1 .. Len(rows) : rows[i].units = {u} => \E m \in 1 .. n - 1 : rows[i] = o[m]
      BY <3>1 DEF Apart
    <3>6. \A i \in 1 .. Len(rows) : rows[i] # r
      <4>1. ASSUME NEW i \in 1 .. Len(rows), rows[i] = r
            PROVE  FALSE
        <5>1. PICK m \in 1 .. n - 1 : r = o[m]
          BY <3>1, <3>5, <4>1
        <5>2. m \in 1 .. N /\ m # n
          BY <1>2, <5>1
        <5> QED
          BY <1>1, <5>1, <5>2 DEF Ordered
      <4> QED
        BY <4>1
    <3>7. ASSUME NEW i \in 1 .. Len(J), J[i].units = {u}
          PROVE  \E m \in 1 .. n : J[i] = o[m]
      BY <2>2, <3>3, <3>4, <3>5, <3>7
    <3>8. ASSUME NEW i \in 1 .. Len(J), J[i].units = {u}, NEW j \in 1 .. Len(J), j # i
          PROVE  J[j] # J[i]
      BY <3>1, <3>3, <3>4, <3>6, <3>8 DEF Apart
    <3>9. Apart(J, o, n, u)
      BY <3>7, <3>8 DEF Apart
    <3>10. AllAbout(J)
      BY <2>1, <2>2, <3>3, <3>4 DEF AllAbout
    <3> QED
      BY <1>2, <2>2, <2>5, <3>3, <3>9, <3>10 DEF J, Good
  <2>6. CASE u = v /\ n > f
    <3>1. Together(rows, o, n - 1, F, u) /\ r.units = {u} /\ f < n
      BY <1>2, <2>1, <2>2, <2>6 DEF About
    <3>2. /\ Together(J, o, n, F, u) /\ J \in Seq(Record)
          /\ AllAbout(J)
      BY <1>1, <2>2, <3>1, JoinAfter
    <3> QED
      BY <1>2, <2>2, <2>6, <3>2 DEF J, Good
  <2> QED
    BY <1>2, <2>2, <2>3, <2>4, <2>5, <2>6
<1>6. Good(N)
  <2> DEFINE G == {n \in 0 .. N : Good(n)}
  <2> HIDE DEF Good
  <2>1. 0 \in G
    BY <1>2, <1>4
  <2>2. \A n \in 1 .. N : n - 1 \in G => n \in G
    BY <1>2, <1>5
  <2>3. N \in G
    BY <1>2, <2>1, <2>2, UpTo
  <2> QED
    BY <2>3
<1>7. Together(Collapsed(o), o, N, F, u) /\ Collapsed(o) \in Seq(Record)
  BY <1>2, <1>3, <1>6
<1> DEFINE C == Collapsed(o)
<1>8. PICK k \in 1 .. Len(C) :
        /\ Shows(C[k], F, u)
        /\ \A i \in 1 .. Len(C) :
              i # k /\ C[i].units = {u} => Stale(C[i], o, N, F, u)
  BY <1>7 DEF Together
<1>9. ASSUME NEW i \in 1 .. Len(C), i # k, C[i].units = {u}
      PROVE  C[i] \in Records /\ ~Main(C[i]) /\ ~Current(C[i], u)
  <2>1. PICK m \in 1 .. N : C[i] = o[m] /\ o[m] # F
    BY <1>8, <1>9 DEF Stale
  <2>2. o[m] \in Records /\ o[m].ip # F.ip
    BY <1>1, <1>2, <2>1 DEF Ordered
  <2>3. ~Main(o[m])
    BY <1>9, <2>1, <2>2, Others
  <2> QED
    BY <1>8, <1>9, <2>1, <2>2, <2>3 DEF Current, MainOf, Stale
<1> QED
  BY <1>7, <1>8, <1>9 DEF OneShown

LEMMA OneOfEach ==
    ASSUME IInv
    PROVE  OneRowEach
<1>1. SUFFICES ASSUME NEW rows \in Listings, NEW u \in settled
               PROVE  Cardinality({r \in rows : u \in r.units /\ Current(r, u)}) = 1
  BY DEF OneRowEach
<1>2. PICK o \in SetToSeqs(BestAtAddress(Records)) : rows = Range(Collapsed(o))
  BY ListingIsCollapsed
<1>3. PICK F : MainOf(F, u)
  BY SettledHasMain
<1> DEFINE C == Collapsed(o)
<1>4. OneShown(C, F, u) /\ C \in Seq(Record)
  BY <1>3, SettledRows
<1>5. PICK k \in 1 .. Len(C) :
        /\ Shows(C[k], F, u)
        /\ \A i \in 1 .. Len(C) :
              i # k /\ C[i].units = {u} => C[i] \in Records /\ ~Main(C[i]) /\ ~Current(C[i], u)
  BY <1>4 DEF OneShown
<1>6. rows = {C[i] : i \in 1 .. Len(C)}
  BY <1>2, <1>4 DEF Range
<1>7. u \in C[k].units /\ Current(C[k], u)
  BY <1>3, <1>5 DEF Shows, About, Current, MainOf
<1>8. \A r \in rows : u \in r.units => r.units = {u}
  BY <1>2, RowsAbout DEF About, RowOf
<1> HIDE DEF C
<1>9. {r \in rows : u \in r.units /\ Current(r, u)} = {C[k]}
  BY <1>5, <1>6, <1>7, <1>8
<1> QED
  BY <1>9, FS_Singleton

LEMMA NamesAreKept ==
    ASSUME IInv
    PROVE  NamesStay
<1>1. SUFFICES ASSUME NEW rows \in Listings, NEW r \in rows, NEW u \in (r.units \cap settled) \ blurred,
                      Current(r, u)
               PROVE  r.alias = given[u]
  BY DEF NamesStay
<1>2. PICK o \in SetToSeqs(BestAtAddress(Records)) : rows = Range(Collapsed(o))
  BY ListingIsCollapsed
<1>3. PICK F : MainOf(F, u)
  BY SettledHasMain
<1> DEFINE C == Collapsed(o)
<1>4. OneShown(C, F, u) /\ C \in Seq(Record)
  BY <1>3, SettledRows
<1>5. PICK i \in 1 .. Len(C) : r = C[i]
  BY <1>2, <1>4 DEF Range
<1>6. r.units = {u}
  BY <1>1, <1>2, RowsAbout DEF About, RowOf
<1> QED
  BY <1>1, <1>4, <1>5, <1>6 DEF OneShown, Shows

-----------------------------------------------------------------------------
(* Steps *)

LEMMA Begins ==
    ASSUME Init, ~ambiguous
    PROVE  IInv
<1>0. PICK names \in FirstNames :
        /\ called = [u \in Unit |-> IF u \in Windows THEN None ELSE names[u]]
        /\ ambiguous = ~IsInjective(names)
  BY DEF Init
<1>1. lease \in [Unit -> Address] /\ \A u, v \in Unit : lease[u] = lease[v] => u = v
  BY InventoryAssumption DEF Init, IsInjective
<1>2. /\ names \in [Samsung \cup Television -> Name]
      /\ \A u, v \in Samsung \cup Television : names[u] = names[v] => u = v
  BY <1>0, InventoryAssumption DEF IsInjective
<1>3. called = [u \in Unit |-> IF u \in Windows THEN None ELSE names[u]]
  BY <1>0
<1>4. /\ held = [u \in Unit |-> {lease[u]}] /\ borne = [u \in Unit |-> {called[u]} \ {None}]
      /\ given = [u \in Unit |-> None]
      /\ metadata = <<>> /\ scanning = FALSE /\ seen = {} /\ settled = {} /\ blurred = {} /\ clock = 0
      /\ changes = 0 /\ ambiguous = FALSE
  BY DEF Init
<1>5. DOMAIN metadata = {} /\ metadata \in [DOMAIN metadata -> Record] /\ IsFiniteSet(DOMAIN metadata)
  BY <1>4, FS_EmptySet
<1>6. called \in [Unit -> Name \cup {None}]
  BY <1>2, <1>3 DEF Unit
<1>7. TypeOK
  <2>1. held \in [Unit -> SUBSET Address] /\ given \in [Unit -> Alias \cup {None}]
    BY <1>1, <1>4
  <2>2. borne \in [Unit -> SUBSET Name]
    BY <1>4, <1>6
  <2> QED
    BY <1>1, <1>4, <1>5, <1>6, <2>1, <2>2 DEF TypeOK
<1>8. Homes
  <2>1. \A u \in Unit : u \notin Windows => called[u] = names[u] /\ called[u] # None /\ borne[u] = {called[u]}
    BY <1>2, <1>3, <1>4, InventoryAssumption DEF Unit
  <2>2. \A u \in Windows : u \in Unit /\ called[u] = None /\ borne[u] = {}
    BY <1>3, <1>4 DEF Unit
  <2>3. ASSUME NEW u \in Unit, NEW v \in Unit, u # v
        PROVE  held[u] \cap held[v] = {} /\ borne[u] \cap borne[v] = {}
    BY <1>1, <1>2, <1>4, <2>1, <2>2, <2>3 DEF Unit
  <2>4. Television \subseteq Unit /\ Television \cap Windows = {}
    BY InventoryAssumption DEF Unit
  <2> QED
    BY <1>4, <2>1, <2>2, <2>3, <2>4 DEF Homes
<1> QED
  BY <1>4, <1>5, <1>7, <1>8
     DEF IInv, Filed, FiledIn, Alone, AloneIn, Later, LaterIn, Told, ToldIn, PairedByMain, PairedIn,
         Aliased, AliasedIn

\* What a step leaves to be shown that changes only the records.
LEMMA SameHome ==
    ASSUME Homes, UNCHANGED home, NEW m, m = metadata'
    PROVE  /\ Homes' /\ (FiledIn(m, clock') => Filed') /\ (AloneIn(m) => Alone')
           /\ (LaterIn(m) => Later') /\ (ToldIn(m, settled') => Told') /\ (PairedIn(m) => PairedByMain')
           /\ (AliasedIn(m, blurred', given') => Aliased')
<1>1. lease' = lease /\ called' = called /\ held' = held /\ borne' = borne
  BY DEF home
<1>2. Homes'
  BY <1>1 DEF Homes
<1>3. FiledIn(m, clock') => Filed'
  BY <1>1 DEF Filed, FiledIn, About, FiledUnder, FullOf, PlainOf, ComputerOf
<1>4. (AloneIn(m) => Alone') /\ (PairedIn(m) => PairedByMain')
  BY DEF Alone, AloneIn, PairedByMain, PairedIn, Main
<1>5. LaterIn(m) => Later'
  BY <1>1 DEF Later, LaterIn
<1>6. ToldIn(m, settled') => Told'
  BY <1>1 DEF Told, ToldIn, Main
<1>7. AliasedIn(m, blurred', given') => Aliased'
  BY <1>1 DEF Aliased, AliasedIn, Main, Current
<1> QED
  BY <1>2, <1>3, <1>4, <1>5, <1>6, <1>7

\* Records that differ in what they show of the moment only.
Alike(r, s) ==
    /\ r.id = s.id /\ r.kind = s.kind /\ r.maker = s.maker /\ r.duid = s.duid /\ r.mac = s.mac
    /\ r.name = s.name /\ r.ip = s.ip /\ r.seen = s.seen /\ r.alias = s.alias /\ r.units = s.units

LEMMA MarkFacts ==
    ASSUME NEW r \in Record
    PROVE  /\ [r EXCEPT !.online = FALSE] \in Record /\ Alike([r EXCEPT !.online = FALSE], r)
           /\ [r EXCEPT !.online = FALSE].paired = r.paired
           /\ [r EXCEPT !.paired = TRUE] \in Record /\ Alike([r EXCEPT !.paired = TRUE], r)
           /\ [r EXCEPT !.paired = TRUE].paired = TRUE
<1>1. [r EXCEPT !.online = FALSE] \in Record /\ [r EXCEPT !.paired = TRUE] \in Record
  BY DEF Record
<1>2. Alike([r EXCEPT !.online = FALSE], r) /\ Alike([r EXCEPT !.paired = TRUE], r)
  BY DEF Record, Alike
<1>3. [r EXCEPT !.online = FALSE].paired = r.paired
  BY DEF Record
<1>4. [r EXCEPT !.paired = TRUE].paired = TRUE
  BY DEF Record
<1> QED
  BY <1>1, <1>2, <1>3, <1>4

LEMMA AlikeSelf ==
    ASSUME NEW r
    PROVE  Alike(r, r)
BY DEF Alike

LEMMA AlikeFacts ==
    ASSUME NEW m, DOMAIN m = DOMAIN metadata, \A i \in DOMAIN m : m[i] \in Record /\ Alike(m[i], metadata[i])
    PROVE  /\ Filed => FiledIn(m, clock)
           /\ Alone => AloneIn(m)
           /\ Later => LaterIn(m)
           /\ Told => ToldIn(m, settled)
           /\ Aliased => AliasedIn(m, blurred, given)
<1>1. ASSUME NEW i \in DOMAIN m
      PROVE  /\ m[i].id = metadata[i].id /\ m[i].seen = metadata[i].seen /\ m[i].ip = metadata[i].ip
             /\ m[i].name = metadata[i].name /\ m[i].units = metadata[i].units
             /\ m[i].alias = metadata[i].alias
             /\ Main(m[i]) <=> Main(metadata[i])
             /\ \A u : Current(m[i], u) <=> Current(metadata[i], u)
             /\ \A u : About(metadata[i], u) => About(m[i], u)
             /\ \A u : FiledUnder(i, metadata[i], u) => FiledUnder(i, m[i], u)
  BY <1>1 DEF Alike, Main, Current, About, FiledUnder, FullOf, PlainOf, ComputerOf
<1>2. Filed => FiledIn(m, clock)
  BY <1>1 DEF Filed, FiledIn
<1>3. Alone => AloneIn(m)
  BY <1>1 DEF Alone, AloneIn
<1>4. Later => LaterIn(m)
  BY <1>1 DEF Later, LaterIn
<1>5. Told => ToldIn(m, settled)
  BY <1>1 DEF Told, ToldIn
<1>6. Aliased => AliasedIn(m, blurred, given)
  BY <1>1 DEF Aliased, AliasedIn
<1> QED
  BY <1>2, <1>3, <1>4, <1>5, <1>6

LEMMA BeginKeeps ==
    ASSUME IInv, Begin
    PROVE  IInv'
<1>1. TypeOK'
  BY DEF IInv, TypeOK, Begin, home
<1>2. UNCHANGED home /\ metadata' = metadata /\ UNCHANGED <<settled, given, blurred, clock>>
  BY DEF Begin
<1>3. Homes' /\ Filed' /\ Alone' /\ Later' /\ Told' /\ PairedByMain' /\ Aliased'
  BY <1>2, SameHome DEF IInv, Filed, Alone, Later, Told, PairedByMain, Aliased
<1> QED
  BY <1>1, <1>3 DEF IInv

LEMMA FinishKeeps ==
    ASSUME IInv, Finish
    PROVE  IInv'
<1> DEFINE m == [i \in DOMAIN metadata |->
                   IF i \in seen THEN metadata[i] ELSE [metadata[i] EXCEPT !.online = FALSE]]
<1>1. m = metadata' /\ UNCHANGED home /\ UNCHANGED <<settled, given, blurred, clock>> /\ scanning' = FALSE /\ seen' = {}
  BY DEF Finish
<1>3. ASSUME NEW i \in DOMAIN m
      PROVE  m[i] \in Record /\ Alike(m[i], metadata[i]) /\ m[i].paired = metadata[i].paired
  <2>1. metadata[i] \in Record
    BY DEF IInv, TypeOK
  <2>2. m[i] = metadata[i] \/ m[i] = [metadata[i] EXCEPT !.online = FALSE]
    OBVIOUS
  <2> HIDE DEF m
  <2> QED
    BY <2>1, <2>2, MarkFacts, AlikeSelf
<1>2. DOMAIN m = DOMAIN metadata /\ m \in [DOMAIN m -> Record]
  <2>1. m = [i \in DOMAIN m |-> m[i]] /\ DOMAIN m = DOMAIN metadata
    OBVIOUS
  <2> HIDE DEF m
  <2> QED
    BY <1>3, <2>1
<1> HIDE DEF m
<1>4. TypeOK'
  BY <1>1, <1>2 DEF IInv, TypeOK, home
<1>5. PairedIn(m)
  BY <1>2, <1>3 DEF IInv, PairedByMain, PairedIn, Alike, Main
<1> QED
  BY <1>1, <1>2, <1>3, <1>4, <1>5, SameHome, AlikeFacts DEF IInv

LEMMA PairKeeps ==
    ASSUME IInv, NEW i \in DOMAIN metadata, Pair(i)
    PROVE  IInv'
<1> DEFINE m == [j \in DOMAIN metadata |->
                   IF j = i \/ SameIdentity(metadata[j], metadata[i])
                   THEN [metadata[j] EXCEPT !.paired = TRUE] ELSE metadata[j]]
<1>1. /\ m = metadata' /\ UNCHANGED home /\ UNCHANGED <<settled, given, blurred, clock>>
      /\ UNCHANGED <<scanning, seen>> /\ IsSamsung(metadata[i])
  BY DEF Pair
<1>2. ASSUME NEW j \in DOMAIN m
      PROVE  /\ m[j] \in Record /\ Alike(m[j], metadata[j]) /\ (metadata[j].paired => m[j].paired)
             /\ m[j].paired => metadata[j].paired \/ j = i \/ SameIdentity(metadata[j], metadata[i])
             /\ j = i => m[j].paired
  <2>1. metadata[j] \in Record
    BY DEF IInv, TypeOK
  <2>2. m[j] = IF j = i \/ SameIdentity(metadata[j], metadata[i])
               THEN [metadata[j] EXCEPT !.paired = TRUE] ELSE metadata[j]
    OBVIOUS
  <2> HIDE DEF m
  <2> QED
    BY <2>1, <2>2, MarkFacts, AlikeSelf
<1>3. DOMAIN m = DOMAIN metadata /\ m \in [DOMAIN m -> Record]
  <2>1. m = [j \in DOMAIN m |-> m[j]] /\ DOMAIN m = DOMAIN metadata
    OBVIOUS
  <2> HIDE DEF m
  <2> QED
    BY <1>2, <2>1
<1> HIDE DEF m
<1>4. TypeOK'
  BY <1>1, <1>3 DEF IInv, TypeOK, home
<1>5. PICK u \in Unit : About(metadata[i], u) /\ FiledUnder(i, metadata[i], u)
  BY DEF IInv, Filed, FiledIn
<1>6. Main(metadata[i])
  BY <1>1, <1>5, InventoryAssumption DEF IsSamsung, About, FullOf, PlainOf, ComputerOf, Main, Unit
<1>7. ASSUME NEW j \in DOMAIN m
      PROVE  m[j].units = metadata[j].units /\ (Main(m[j]) <=> Main(metadata[j]))
  BY <1>2 DEF Alike, Main
<1>8. PairedIn(m)
  <2>1. SUFFICES ASSUME NEW j \in DOMAIN m, m[j].paired, ~Main(m[j])
                 PROVE  \E k \in DOMAIN m : m[k].units = m[j].units /\ Main(m[k]) /\ m[k].paired
    BY DEF PairedIn
  <2>2. CASE metadata[j].paired
    <3>1. PICK k \in DOMAIN metadata :
            metadata[k].units = metadata[j].units /\ Main(metadata[k]) /\ metadata[k].paired
      BY <1>3, <1>7, <2>1, <2>2 DEF IInv, PairedByMain, PairedIn
    <3> QED
      BY <1>2, <1>3, <1>7, <3>1
  <2>3. CASE SameIdentity(metadata[j], metadata[i])
    <3>1. PICK v \in Unit : About(metadata[j], v)
      BY <1>3 DEF IInv, Filed, FiledIn
    <3>2. metadata[j].units = metadata[i].units
      BY <1>5, <2>3, <3>1, SameIdentityIsOne DEF IInv, About
    <3> QED
      BY <1>2, <1>3, <1>6, <1>7, <3>2
  <2> QED
    BY <1>2, <1>6, <1>7, <2>1, <2>2, <2>3
<1> QED
  BY <1>1, <1>2, <1>3, <1>4, <1>8, SameHome, AlikeFacts DEF IInv

LEMMA RenameKeeps ==
    ASSUME IInv, NEW i \in DOMAIN metadata, NEW a \in Alias, Rename(i, a)
    PROVE  IInv'
<1> DEFINE old == metadata[i]
           new == [old EXCEPT !.alias = a]
           m == [metadata EXCEPT ![i] = new]
<1>1. /\ m = metadata' /\ UNCHANGED home /\ UNCHANGED <<settled, clock>> /\ UNCHANGED <<scanning, seen>>
      /\ given' = [u \in Unit |-> IF u \in old.units /\ Current(old, u) THEN a ELSE given[u]]
      /\ blurred' = blurred \cup (old.units \ settled) /\ Row(i) # {}
  BY DEF Rename
<1>2. PICK v \in Unit : About(old, v) /\ FiledUnder(i, old, v)
  BY DEF IInv, Filed, FiledIn
<1>3. /\ old \in Record /\ new \in Record /\ new.alias = a /\ old.units = {v} /\ new.units = {v}
      /\ new.id = old.id /\ new.kind = old.kind /\ new.maker = old.maker /\ new.duid = old.duid
      /\ new.mac = old.mac /\ new.name = old.name /\ new.ip = old.ip /\ new.seen = old.seen
  BY <1>2 DEF About, Record
<1>4. new.paired = old.paired
  BY <1>3 DEF Record
<1> HIDE DEF new
<1>5. /\ DOMAIN m = DOMAIN metadata /\ m \in [DOMAIN m -> Record] /\ m[i] = new
      /\ \A j \in DOMAIN m : j # i => m[j] = metadata[j]
  BY <1>3 DEF IInv, TypeOK
<1> HIDE DEF m, old
<1>6. v \in settled => Main(old) \/ ~Current(old, v)
  <2>1. SUFFICES ASSUME v \in settled, ~Main(old), Current(old, v)
                 PROVE  FALSE
    OBVIOUS
  <2>2. PICK l \in UNION Listings : l.id = i
    BY <1>1 DEF Row
  <2>11. PICK rows \in Listings : l \in rows
    OBVIOUS
  <2>3. PICK o \in SetToSeqs(BestAtAddress(Records)) : rows = Range(Collapsed(o))
    BY ListingIsCollapsed
  <2>4. PICK F : MainOf(F, v)
    BY <2>1, SettledHasMain
  <2>5. OneShown(Collapsed(o), F, v) /\ Collapsed(o) \in Seq(Record)
    BY <2>4, SettledRows
  <2>6. PICK k \in 1 .. Len(Collapsed(o)) : l = Collapsed(o)[k]
    BY <2>3, <2>5, <2>11 DEF Range
  <2>7. l.units = {v}
    BY <1>3, <2>2, <2>3, <2>11, RowsAbout DEF About, RowOf, old
  <2>8. l.id = F.id \/ (l \in Records /\ ~Current(l, v))
    BY <2>5, <2>6, <2>7 DEF OneShown, Shows
  <2>9. F.id = i => F = old
    BY <2>4, RecordFacts DEF IInv, MainOf, old
  <2>10. l \in Records => l = old
    BY <2>2, RecordFacts DEF IInv, old
  <2> QED
    BY <2>1, <2>2, <2>4, <2>8, <2>9, <2>10 DEF MainOf
<1>7. TypeOK'
  <2>1. given' \in [Unit -> Alias \cup {None}]
    BY <1>1 DEF IInv, TypeOK
  <2> QED
    BY <1>1, <1>3, <1>5, <2>1 DEF IInv, TypeOK, home
<1>8. ASSUME NEW j \in DOMAIN m
      PROVE  /\ m[j].id = metadata[j].id /\ m[j].seen = metadata[j].seen /\ m[j].ip = metadata[j].ip
             /\ m[j].name = metadata[j].name /\ m[j].units = metadata[j].units
             /\ Main(m[j]) <=> Main(metadata[j])
             /\ \A u : Current(m[j], u) <=> Current(metadata[j], u)
             /\ \A u : About(metadata[j], u) => About(m[j], u)
             /\ \A u : FiledUnder(j, metadata[j], u) => FiledUnder(j, m[j], u)
  BY <1>3, <1>5 DEF old, Main, Current, About, FiledUnder, FullOf, PlainOf, ComputerOf
<1>9. \A j \in DOMAIN m : m[j].paired = metadata[j].paired
  BY <1>4, <1>5 DEF old
<1>10. FiledIn(m, clock) /\ AloneIn(m) /\ LaterIn(m) /\ ToldIn(m, settled) /\ PairedIn(m)
  <2>1. FiledIn(m, clock)
    BY <1>5, <1>8 DEF IInv, Filed, FiledIn
  <2>2. AloneIn(m)
    BY <1>5, <1>8 DEF IInv, Alone, AloneIn
  <2>3. LaterIn(m)
    BY <1>5, <1>8 DEF IInv, Later, LaterIn
  <2>4. ToldIn(m, settled)
    BY <1>5, <1>8 DEF IInv, Told, ToldIn
  <2>5. PairedIn(m)
    BY <1>5, <1>8, <1>9 DEF IInv, PairedByMain, PairedIn
  <2> QED
    BY <2>1, <2>2, <2>3, <2>4, <2>5
<1>11. AliasedIn(m, blurred', given')
  <2>1. SUFFICES ASSUME NEW u \in Unit \ blurred'
                 PROVE  /\ \A j \in DOMAIN m :
                              m[j].units = {u} =>
                                  IF Main(m[j]) THEN m[j].alias = given'[u]
                                  ELSE Current(m[j], u) => m[j].alias = None
                        /\ (\A j \in DOMAIN m : m[j].units = {u} => ~Main(m[j])) => given'[u] = None
    BY DEF AliasedIn
  <2>2. /\ \A j \in DOMAIN metadata :
              metadata[j].units = {u} =>
                  IF Main(metadata[j]) THEN metadata[j].alias = given[u]
                  ELSE Current(metadata[j], u) => metadata[j].alias = None
        /\ (\A j \in DOMAIN metadata : metadata[j].units = {u} => ~Main(metadata[j])) => given[u] = None
    BY <1>1, <2>1 DEF IInv, Aliased, AliasedIn
  <2>3. CASE u # v
    <3>1. given'[u] = given[u] /\ {u} # {v}
      BY <1>1, <1>3, <2>3
    <3> QED
      BY <1>3, <1>5, <1>8, <2>2, <3>1 DEF old
  <2>4. CASE u = v
    <3>1. u \in settled
      BY <1>1, <1>3, <2>1, <2>4
    <3>2. PICK k \in DOMAIN metadata :
            /\ metadata[k].units = {u} /\ Main(metadata[k])
            /\ metadata[k].ip = lease[u] /\ metadata[k].name = called[u]
      BY <3>1 DEF IInv, Told, ToldIn
    <3>3. Main(m[k]) /\ m[k].units = {u} /\ k \in DOMAIN m
      BY <1>5, <1>8, <3>2
    <3>4. Main(old) => k = i /\ Current(old, u)
      BY <1>3, <2>4, <3>2 DEF IInv, Alone, AloneIn, old, Current
    <3>5. given'[u] = IF Current(old, u) THEN a ELSE given[u]
      BY <1>1, <1>3, <2>4
    <3>6. ASSUME NEW j \in DOMAIN m, m[j].units = {u}
          PROVE  IF Main(m[j]) THEN m[j].alias = given'[u] ELSE Current(m[j], u) => m[j].alias = None
      <4>1. CASE j = i
        BY <1>3, <1>5, <1>6, <1>8, <2>4, <3>1, <3>4, <3>5, <4>1 DEF old
      <4>2. CASE j # i
        <5>1. m[j] = metadata[j] /\ metadata[j].units = {u}
          BY <1>5, <3>6, <4>2
        <5>2. Main(m[j]) => j = k
          BY <1>5, <3>2, <5>1 DEF IInv, Alone, AloneIn
        <5>3. Main(m[j]) => ~Main(old)
          BY <3>4, <4>2, <5>2
        <5>4. Main(m[j]) => given'[u] = given[u]
          BY <1>6, <2>4, <3>1, <3>5, <5>3
        <5> QED
          BY <1>5, <2>2, <5>1, <5>4
      <4> QED
        BY <4>1, <4>2
    <3> QED
      BY <3>3, <3>6
  <2> QED
    BY <2>3, <2>4
<1> QED
  BY <1>1, <1>7, <1>10, <1>11, SameHome DEF IInv

\* An address or a name that is new to the home is no record's.
LEMMA NewIsUnknown ==
    ASSUME IInv
    PROVE  /\ \A a : a \notin Addresses => \A u \in Unit : a \notin held[u]
           /\ \A n : n \notin Names => \A u \in Unit : n \notin borne[u]
           /\ \A i \in DOMAIN metadata : \E u \in Unit : About(metadata[i], u) /\ metadata[i].ip \in held[u]
<1>1. DOMAIN held = Unit /\ DOMAIN borne = Unit
  BY DEF IInv, TypeOK
<1>2. \A u \in Unit : held[u] \subseteq Addresses /\ borne[u] \subseteq Names
  BY <1>1 DEF Addresses, Names, Range
<1> QED
  BY <1>2 DEF IInv, Filed, FiledIn, About

LEMMA MoveType ==
    ASSUME TypeOK, NEW u \in Unit, NEW a \in Address, Move(u, a)
    PROVE  TypeOK'
<1>1. /\ UNCHANGED <<metadata, scanning, seen, called, borne, given, blurred, clock>>
      /\ lease' = [lease EXCEPT ![u] = a] /\ held' = [held EXCEPT ![u] = held[u] \cup {a}]
      /\ settled' = settled \ {u} /\ changes' = changes + 1 /\ ambiguous' = (ambiguous \/ a \in Addresses)
  BY DEF Move
<1>2. lease' \in [Unit -> Address] /\ held' \in [Unit -> SUBSET Address]
  BY <1>1 DEF TypeOK
<1>3. changes' \in Nat /\ settled' \subseteq Unit
  BY <1>1 DEF TypeOK
<1>4. ambiguous' \in BOOLEAN
  BY <1>1
<1> QED
  BY <1>1, <1>2, <1>3, <1>4 DEF TypeOK

LEMMA CallType ==
    ASSUME TypeOK, NEW u \in Unit, NEW n \in Name, Call(u, n)
    PROVE  TypeOK'
<1>1. /\ UNCHANGED <<metadata, scanning, seen, lease, held, given, blurred, clock>>
      /\ called' = [called EXCEPT ![u] = n] /\ borne' = [borne EXCEPT ![u] = borne[u] \cup {n}]
      /\ settled' = settled \ {u} /\ changes' = changes + 1
      /\ ambiguous' = (ambiguous \/ n \in Names \/ u \in Television)
  BY DEF Call
<1>2. called' \in [Unit -> Name \cup {None}] /\ borne' \in [Unit -> SUBSET Name]
  BY <1>1 DEF TypeOK
<1>3. changes' \in Nat /\ settled' \subseteq Unit
  BY <1>1 DEF TypeOK
<1>4. ambiguous' \in BOOLEAN
  BY <1>1
<1> QED
  BY <1>1, <1>2, <1>3, <1>4 DEF TypeOK

LEMMA MoveKeeps ==
    ASSUME IInv, NEW u \in Unit, NEW a \in Address, Move(u, a), ~ambiguous'
    PROVE  IInv'
<1>1. /\ UNCHANGED <<metadata, scanning, seen, called, borne, given, blurred, clock>>
      /\ lease' = [lease EXCEPT ![u] = a] /\ held' = [held EXCEPT ![u] = held[u] \cup {a}]
      /\ settled' = settled \ {u} /\ a \notin Addresses
      /\ changes' = changes + 1 /\ ambiguous' = FALSE
  BY DEF Move
<1>2. \A v \in Unit : a \notin held[v]
  BY <1>1, NewIsUnknown
<1>3. /\ \A v \in Unit : held[v] \subseteq held'[v]
      /\ \A v \in Unit : v # u => held'[v] = held[v] /\ lease'[v] = lease[v]
      /\ held'[u] = held[u] \cup {a} /\ lease'[u] = a
  BY <1>1 DEF IInv, TypeOK
<1>4. TypeOK'
  BY MoveType DEF IInv
<1>5. Homes'
  BY <1>1, <1>2, <1>3 DEF IInv, Homes
<1>6. Filed'
  <2>1. ASSUME NEW i \in DOMAIN metadata
        PROVE  /\ metadata[i].id = i /\ metadata[i].seen < clock
               /\ \E v \in Unit : About(metadata[i], v)' /\ FiledUnder(i, metadata[i], v)'
    <3>1. PICK v \in Unit : About(metadata[i], v) /\ FiledUnder(i, metadata[i], v)
      BY DEF IInv, Filed, FiledIn
    <3>2. About(metadata[i], v)'
      BY <1>1, <1>3, <3>1 DEF About, FullOf, PlainOf, ComputerOf
    <3>3. FiledUnder(i, metadata[i], v)'
      BY <1>1, <1>3, <3>1 DEF FiledUnder, FullOf, PlainOf, ComputerOf
    <3> QED
      BY <3>2, <3>3 DEF IInv, Filed, FiledIn
  <2> QED
    BY <1>1, <2>1 DEF Filed, FiledIn
<1>7. \A i \in DOMAIN metadata : metadata[i].units = {u} => metadata[i].ip # a
  BY <1>2, NewIsUnknown DEF About
<1>8. Alone' /\ PairedByMain'
  BY <1>1 DEF IInv, Alone, AloneIn, PairedByMain, PairedIn, Main
<1>9. Later'
  BY <1>1, <1>3, <1>7 DEF IInv, Later, LaterIn
<1>10. Told'
  <2>1. \A v \in settled' : v # u /\ v \in settled /\ v \in Unit
    BY <1>1 DEF IInv, TypeOK
  <2> QED
    BY <1>1, <1>3, <2>1 DEF IInv, Told, ToldIn, Main
<1>11. Aliased'
  <2>1. \A v \in Unit : \A i \in DOMAIN metadata :
          metadata[i].units = {v} /\ Current(metadata[i], v)' => Current(metadata[i], v)
    BY <1>1, <1>3, <1>7 DEF Current
  <2> QED
    BY <1>1, <2>1 DEF IInv, Aliased, AliasedIn, Main
<1> QED
  BY <1>4, <1>5, <1>6, <1>8, <1>9, <1>10, <1>11 DEF IInv

LEMMA CallKeeps ==
    ASSUME IInv, NEW u \in Unit, NEW n \in Name, Call(u, n), ~ambiguous'
    PROVE  IInv'
<1>1. /\ UNCHANGED <<metadata, scanning, seen, lease, held, given, blurred, clock>>
      /\ called' = [called EXCEPT ![u] = n] /\ borne' = [borne EXCEPT ![u] = borne[u] \cup {n}]
      /\ settled' = settled \ {u} /\ n \notin Names /\ u \in Samsung
      /\ changes' = changes + 1 /\ ambiguous' = FALSE
  BY DEF Call, Unit
<1>2. \A v \in Unit : n \notin borne[v]
  BY <1>1, NewIsUnknown
<1>3. /\ \A v \in Unit : borne[v] \subseteq borne'[v]
      /\ \A v \in Unit : v # u => borne'[v] = borne[v] /\ called'[v] = called[v]
      /\ borne'[u] = borne[u] \cup {n} /\ called'[u] = n
  BY <1>1 DEF IInv, TypeOK
<1>4. TypeOK'
  BY CallType DEF IInv
<1>5. Homes'
  <2>1. \A v \in Unit : IF v \in Windows THEN called'[v] = None ELSE called'[v] \in borne'[v]
    BY <1>1, <1>3, InventoryAssumption DEF IInv, Homes
  <2>2. \A v \in Television : borne'[v] = {called'[v]}
    BY <1>1, <1>3, InventoryAssumption DEF IInv, Homes, Unit
  <2>3. \A v, w \in Unit : v # w => held'[v] \cap held'[w] = {} /\ borne'[v] \cap borne'[w] = {}
    BY <1>1, <1>2, <1>3 DEF IInv, Homes
  <2> QED
    BY <1>1, <2>1, <2>2, <2>3 DEF IInv, Homes
<1>6. Filed'
  <2>1. ASSUME NEW i \in DOMAIN metadata
        PROVE  /\ metadata[i].id = i /\ metadata[i].seen < clock
               /\ \E v \in Unit : About(metadata[i], v)' /\ FiledUnder(i, metadata[i], v)'
    <3>1. PICK v \in Unit : About(metadata[i], v) /\ FiledUnder(i, metadata[i], v)
      BY DEF IInv, Filed, FiledIn
    <3>2. About(metadata[i], v)'
      BY <1>1, <1>3, <3>1 DEF About, FullOf, PlainOf, ComputerOf
    <3>3. \A x \in borne[v] : x = called'[v] => v # u
      BY <1>2, <1>3
    <3>4. FiledUnder(i, metadata[i], v)'
      <4>1. CASE FullOf(metadata[i], v) /\ i = <<"samsung", v>>
        BY <1>1, <1>3, <4>1 DEF FiledUnder, FullOf
      <4>2. CASE /\ FullOf(metadata[i], v)
                 /\ \E x \in borne[v] : i = <<"mdns", x>> /\ (x = called[v] => metadata[i].name = called[v])
        BY <1>1, <1>3, <3>3, <4>2 DEF FiledUnder, FullOf
      <4>3. CASE PlainOf(metadata[i], v) /\ i = <<"mdns", metadata[i].name>>
        BY <1>1, <1>3, <4>3 DEF FiledUnder, PlainOf
      <4>4. CASE ComputerOf(metadata[i], v) /\ \E x \in held[v] : i = <<"windows", x>>
        BY <1>1, <1>3, <4>4 DEF FiledUnder, ComputerOf
      <4> QED
        BY <3>1, <4>1, <4>2, <4>3, <4>4 DEF FiledUnder
    <3> QED
      BY <3>2, <3>4 DEF IInv, Filed, FiledIn
  <2> QED
    BY <1>1, <2>1 DEF Filed, FiledIn
<1>7. \A i \in DOMAIN metadata : metadata[i].units = {u} => metadata[i].name # n
  <2>1. ASSUME NEW i \in DOMAIN metadata, metadata[i].units = {u}
        PROVE  metadata[i].name # n
    <3>1. PICK v \in Unit : About(metadata[i], v)
      BY NewIsUnknown
    <3>2. FullOf(metadata[i], u) \/ PlainOf(metadata[i], u)
      BY <1>1, <2>1, <3>1, InventoryAssumption DEF About, ComputerOf
    <3> QED
      BY <1>2, <3>2 DEF FullOf, PlainOf
  <2> QED
    BY <2>1
<1>8. Alone' /\ PairedByMain' /\ Later'
  BY <1>1 DEF IInv, Alone, AloneIn, PairedByMain, PairedIn, Later, LaterIn, Main
<1>10. Told'
  <2>1. \A v \in settled' : v # u /\ v \in settled /\ v \in Unit
    BY <1>1 DEF IInv, TypeOK
  <2> QED
    BY <1>1, <1>3, <2>1 DEF IInv, Told, ToldIn, Main
<1>11. Aliased'
  <2>1. \A v \in Unit : \A i \in DOMAIN metadata :
          metadata[i].units = {v} /\ Current(metadata[i], v)' => Current(metadata[i], v)
    BY <1>1, <1>3, <1>7 DEF Current
  <2> QED
    BY <1>1, <2>1 DEF IInv, Aliased, AliasedIn, Main
<1> QED
  BY <1>4, <1>5, <1>6, <1>8, <1>10, <1>11 DEF IInv

-----------------------------------------------------------------------------
(* What a report is filed under *)

LEMMA ItemFacts ==
    ASSUME TypeOK, Dwells, NEW u \in Unit, NEW item \in Reports(u)
    PROVE  /\ About(item, u) /\ item \in Record /\ item.units = {u}
           /\ item.ip = lease[u] /\ item.seen = clock /\ item.name = called[u]
           /\ item.paired = FALSE /\ item.alias = None
           /\ \/ FullOf(item, u) /\ item.id = <<"samsung", u>> /\ Full(item, u) /\ IsSamsung(item)
              \/ /\ PlainOf(item, u) /\ item.id = <<"mdns", called[u]>> /\ ~IsSamsung(item)
                 /\ Full(item, u) <=> u \notin Samsung
              \/ ComputerOf(item, u) /\ item.id = <<"windows", lease[u]>> /\ Full(item, u) /\ ~IsSamsung(item)
<1>1. lease[u] \in Address /\ lease[u] \in held[u] /\ clock \in Nat
  BY DEF TypeOK, Dwells
<1>2. u \in Windows => called[u] = None
  BY DEF Dwells
<1>3. u \notin Windows => called[u] \in borne[u] /\ called[u] \in Name
  BY DEF TypeOK, Dwells
<1>4. /\ None # "samsung" /\ None # "other" /\ Samsung \cap Windows = {} /\ Samsung \subseteq Unit
      /\ Windows \subseteq Unit /\ None \notin Unit
  BY InventoryAssumption DEF Unit
<1>5. CASE u \in Samsung /\ item = Report(u, <<"samsung", u>>, "tv", "samsung", u, called[u])
  <2>1. item = [id |-> <<"samsung", u>>, kind |-> "tv", maker |-> "samsung", duid |-> u, mac |-> u,
                name |-> called[u], ip |-> lease[u], online |-> TRUE, seen |-> clock, paired |-> FALSE,
                alias |-> None, units |-> {u}]
    BY <1>5 DEF Report
  <2>2. item \in Record
    <3>1. <<"samsung", u>> \in Id /\ {u} \in SUBSET Unit
      BY <1>1, <1>3, <1>4, <1>5 DEF Id
    <3> DEFINE id == <<"samsung", u>>
               units == {u}
               yes == TRUE
               no == FALSE
    <3>2. id \in Id /\ units \in SUBSET Unit /\ yes \in BOOLEAN /\ no \in BOOLEAN
      BY <3>1
    <3>3. item = [id |-> id, kind |-> "tv", maker |-> "samsung", duid |-> u, mac |-> u, name |-> called[u],
                  ip |-> lease[u], online |-> yes, seen |-> clock, paired |-> no, alias |-> None,
                  units |-> units]
      BY <2>1
    <3> HIDE DEF id, units, yes, no
    <3> QED
      BY <1>1, <1>3, <1>4, <1>5, <3>2, <3>3 DEF Record
  <2>3. FullOf(item, u)
    BY <1>3, <1>4, <1>5, <2>1 DEF FullOf
  <2> QED
    BY <1>1, <2>1, <2>2, <2>3 DEF About, Full, IsSamsung
<1>6. CASE u \in Windows /\ item = Report(u, <<"windows", lease[u]>>, "computer", "other", u, None)
  <2>1. item = [id |-> <<"windows", lease[u]>>, kind |-> "computer", maker |-> "other", duid |-> None, mac |-> u,
                name |-> None, ip |-> lease[u], online |-> TRUE, seen |-> clock, paired |-> FALSE,
                alias |-> None, units |-> {u}]
    BY <1>6 DEF Report
  <2>2. item \in Record
    <3>1. <<"windows", lease[u]>> \in Id /\ {u} \in SUBSET Unit
      BY <1>1, <1>3, <1>4, <1>6 DEF Id
    <3> DEFINE id == <<"windows", lease[u]>>
               units == {u}
               yes == TRUE
               no == FALSE
    <3>2. id \in Id /\ units \in SUBSET Unit /\ yes \in BOOLEAN /\ no \in BOOLEAN
      BY <3>1
    <3>3. item = [id |-> id, kind |-> "computer", maker |-> "other", duid |-> None, mac |-> u, name |-> None,
                  ip |-> lease[u], online |-> yes, seen |-> clock, paired |-> no, alias |-> None,
                  units |-> units]
      BY <2>1
    <3> HIDE DEF id, units, yes, no
    <3> QED
      BY <1>1, <1>3, <1>4, <1>6, <3>2, <3>3 DEF Record
  <2>3. ComputerOf(item, u) /\ u \notin Samsung
    BY <1>4, <1>6, <2>1 DEF ComputerOf
  <2> QED
    BY <1>1, <1>2, <1>6, <2>1, <2>2, <2>3 DEF About, Full, IsSamsung
<1>7. CASE u \notin Windows /\ item = Report(u, <<"mdns", called[u]>>, "tv", None, None, called[u])
  <2>1. item = [id |-> <<"mdns", called[u]>>, kind |-> "tv", maker |-> None, duid |-> None, mac |-> None,
                name |-> called[u], ip |-> lease[u], online |-> TRUE, seen |-> clock, paired |-> FALSE,
                alias |-> None, units |-> {u}]
    BY <1>7 DEF Report
  <2>2. item \in Record
    <3>1. <<"mdns", called[u]>> \in Id /\ {u} \in SUBSET Unit
      BY <1>1, <1>3, <1>4, <1>7 DEF Id
    <3> DEFINE id == <<"mdns", called[u]>>
               units == {u}
               yes == TRUE
               no == FALSE
    <3>2. id \in Id /\ units \in SUBSET Unit /\ yes \in BOOLEAN /\ no \in BOOLEAN
      BY <3>1
    <3>3. item = [id |-> id, kind |-> "tv", maker |-> None, duid |-> None, mac |-> None, name |-> called[u],
                  ip |-> lease[u], online |-> yes, seen |-> clock, paired |-> no, alias |-> None,
                  units |-> units]
      BY <2>1
    <3> HIDE DEF id, units, yes, no
    <3> QED
      BY <1>1, <1>3, <1>4, <1>7, <3>2, <3>3 DEF Record
  <2>3. PlainOf(item, u)
    BY <1>3, <1>4, <1>7, <2>1 DEF PlainOf
  <2>4. ~IsSamsung(item)
    BY <1>4, <2>1 DEF IsSamsung
  <2> QED
    BY <1>1, <2>1, <2>2, <2>3, <2>4 DEF About, Full
<1> QED
  BY <1>5, <1>6, <1>7 DEF Reports

\* What matches is about the device, and of today.
LEMMA MatchFacts ==
    ASSUME IInv, NEW u \in Unit, NEW item, About(item, u), item.ip = lease[u], item.name = called[u],
           NEW r \in Matches(item)
    PROVE  /\ r \in Records /\ r \in Record /\ About(r, u) /\ FiledUnder(r.id, r, u) /\ r.units = {u}
           /\ PlainOf(r, u) => Current(r, u)
<1>1. r \in Records /\ SameIdentity(r, item)
  BY DEF Matches
<1>2. PICK v \in Unit : About(r, v) /\ FiledUnder(r.id, r, v)
  BY <1>1, RecordFacts DEF IInv
<1>3. v = u
  BY <1>1, <1>2, SameIdentityIsOne DEF IInv
<1>4. PlainOf(r, u) => Current(r, u)
  BY <1>1, InventoryAssumption DEF PlainOf, Current, SameIdentity, Agree, Differ, SameName
<1> QED
  BY <1>1, <1>2, <1>3, <1>4 DEF About

\* When a record of a device is paired, its main record is.
LEMMA MainIsPaired ==
    ASSUME IInv, NEW r \in Records, r.paired
    PROVE  \E s \in Records : s.units = r.units /\ Main(s) /\ s.paired
<1>1. r.id \in DOMAIN metadata /\ metadata[r.id] = r
  BY RecordFacts DEF IInv
<1>2. CASE Main(r)
  BY <1>2
<1>3. CASE ~Main(r)
  BY <1>1, <1>3 DEF IInv, PairedByMain, PairedIn, Records
<1> QED
  BY <1>2, <1>3

\* The full record of a TV is preferred to its plain ones.
LEMMA FullIsPreferred ==
    ASSUME IInv, NEW u \in Unit, NEW F \in Records, NEW r \in Records, About(F, u), FullOf(F, u), About(r, u)
    PROVE  Prefer(r, F) = F /\ Prefer(F, r) = F
<1>1. CASE r = F
  BY <1>1 DEF Prefer
<1>2. CASE r # F
  <2>1. u \in Samsung /\ Main(F)
    BY MainShapes DEF FullOf
  <2>2. ~Main(r)
    BY <1>2, <2>1, MainIsAlone DEF About
  <2>3. PlainOf(r, u)
    BY <2>1, <2>2, MainShapes
  <2>4. r.paired => F.paired
    <3>1. SUFFICES ASSUME r.paired
                   PROVE  F.paired
      OBVIOUS
    <3>2. PICK s \in Records : s.units = r.units /\ Main(s) /\ s.paired
      BY <3>1, MainIsPaired
    <3>3. s = F
      BY <2>1, <3>2, MainIsAlone DEF About
    <3> QED
      BY <3>2, <3>3
  <2>5. Rank(F) = 5 /\ Rank(r) = 3
    BY <2>3, InventoryAssumption DEF Rank, FullOf, PlainOf
  <2>6. ~Skip(r, F) /\ Skip(F, r)
    <3>1. ~(r.paired /\ ~F.paired)
      BY <2>4
    <3> HIDE <2>4
    <3> QED
      BY <2>5, <3>1 DEF Skip
  <2> QED
    BY <2>6 DEF Prefer
<1> QED
  BY <1>1, <1>2

\* What an item is filed under is a record that it matches.
LEMMA CandidateMatches ==
    ASSUME TypeOK, NEW item, NEW c \in Candidates(item)
    PROVE  c \in Matches(item)
<1> DEFINE M == Matches(item)
           N == Cardinality(M)
<1>1. M \subseteq Records /\ IsFiniteSet(M)
  BY RecordsFinite, FS_Subset DEF Matches
<1> HIDE DEF M
<1>2. PICK o \in SetToSeqs(M) : o # <<>> /\ c = Candidate(o)
  BY DEF Candidates, M
<1>3. N \in Nat /\ DOMAIN o = 1 .. N /\ o \in [1 .. N -> M]
  BY <1>1, OrderFacts
<1>4. N # 0
  <2>1. ASSUME N = 0
        PROVE  o = <<>>
    BY <1>3, <2>1
  <2> QED
    BY <1>2, <2>1
<1> HIDE DEF N
<1>5. PICK a : a[0] = o[1] /\ (\A n \in 1 .. N : a[n] = Prefer(a[n - 1], o[n])) /\ Candidate(o) = a[N]
  BY <1>3, CandidateSteps
<1> DEFINE G == {n \in 0 .. N : a[n] \in M}
<1>6. 0 \in G
  BY <1>3, <1>4, <1>5
<1>7. ASSUME NEW n \in 1 .. N, n - 1 \in G
      PROVE  n \in G
  <2>1. a[n] = a[n - 1] \/ a[n] = o[n]
    BY <1>5 DEF Prefer
  <2> QED
    BY <1>3, <1>7, <2>1
<1> HIDE DEF G
<1>8. N \in G
  BY <1>3, <1>6, <1>7, UpTo
<1> QED
  BY <1>2, <1>5, <1>8 DEF G, M

LEMMA CandidateFacts ==
    ASSUME IInv, NEW u \in Unit, NEW item, About(item, u), item.ip = lease[u], item.name = called[u],
           NEW c \in Candidates(item)
    PROVE  /\ c \in Matches(item)
           /\ \A F \in Matches(item) : FullOf(F, u) => c = F
<1> DEFINE M == Matches(item)
           N == Cardinality(M)
<1>1. M \subseteq Records /\ IsFiniteSet(M)
  BY RecordsFinite, FS_Subset DEF Matches, IInv
<1>2. \A r \in M : r \in Records /\ About(r, u)
  BY MatchFacts
<1> HIDE DEF M
<1>3. PICK o \in SetToSeqs(M) : o # <<>> /\ c = Candidate(o)
  BY DEF Candidates, M
<1>4. /\ N \in Nat /\ DOMAIN o = 1 .. N /\ o \in [1 .. N -> M]
      /\ \A x \in M : \E i \in 1 .. N : o[i] = x
  BY <1>1, OrderFacts
<1>5. N # 0
  <2>1. ASSUME N = 0
        PROVE  o = <<>>
    BY <1>4, <2>1
  <2> QED
    BY <1>3, <2>1
<1> HIDE DEF N
<1>6. PICK a : a[0] = o[1] /\ (\A n \in 1 .. N : a[n] = Prefer(a[n - 1], o[n])) /\ Candidate(o) = a[N]
  BY <1>4, CandidateSteps
<1>7. a[N] \in M
  BY <1>3, <1>6, CandidateMatches DEF M, IInv
<1>8. ASSUME NEW F \in M, FullOf(F, u)
      PROVE  a[N] = F
  <2>1. PICK f \in 1 .. N : o[f] = F
    BY <1>4
  <2> DEFINE G == {n \in 0 .. N : a[n] \in M /\ (f <= n => a[n] = F)}
  <2>2. 0 \in G
    BY <1>4, <1>5, <1>6
  <2>3. ASSUME NEW n \in 1 .. N, n - 1 \in G
        PROVE  n \in G
    <3>1. a[n] = Prefer(a[n - 1], o[n]) /\ a[n - 1] \in M /\ o[n] \in M /\ (f <= n - 1 => a[n - 1] = F)
      BY <1>4, <1>6, <2>3
    <3>2. a[n] \in M
      BY <3>1 DEF Prefer
    <3>3. CASE f = n
      BY <1>2, <1>8, <2>1, <3>1, <3>2, <3>3, FullIsPreferred
    <3>4. CASE f <= n - 1
      BY <1>2, <1>4, <1>8, <3>1, <3>2, <3>4, FullIsPreferred
    <3> QED
      BY <1>4, <3>2, <3>3, <3>4
  <2> HIDE DEF G
  <2>4. N \in G
    BY <1>4, <2>2, <2>3, UpTo
  <2> QED
    BY <1>4, <2>4 DEF G
<1> QED
  BY <1>3, <1>6, <1>7, <1>8 DEF M

\* Two records of the same shape.
Shaped(q, x) ==
    /\ q.id = x.id /\ q.kind = x.kind /\ q.maker = x.maker /\ q.duid = x.duid /\ q.mac = x.mac
    /\ q.name = x.name /\ q.ip = x.ip /\ q.seen = x.seen /\ q.units = x.units

LEMMA ShapedFacts ==
    ASSUME NEW u, NEW q, NEW x, Shaped(q, x)
    PROVE  /\ Main(q) <=> Main(x)
           /\ q \in Record => (About(x, u) => About(q, u))
           /\ \A i : FiledUnder(i, x, u) => FiledUnder(i, q, u)
BY DEF Shaped, Main, About, FiledUnder, FullOf, PlainOf, ComputerOf

\* What the program has of u, or nothing, is filed under this ID.
Known(id, u) == id \in DOMAIN metadata => metadata[id].units = {u}

LEMMA RegisteredFacts ==
    ASSUME IInv, NEW u \in Unit, NEW x, About(x, u), Known(x.id, u),
           x.paired => \E r \in Records : r.units = {u} /\ r.paired,
           NEW q, q = Registered(x)
    PROVE  /\ Shaped(q, x) /\ q \in Record
           /\ x.id \in DOMAIN metadata /\ metadata[x.id].paired => q.paired
           /\ q.paired => \E s \in Records : s.units = {u} /\ Main(s) /\ s.paired
           /\ q.alias = IF x.id \in DOMAIN metadata THEN First(x.alias, metadata[x.id].alias) ELSE x.alias
<1> DEFINE known == x.id \in DOMAIN metadata
           old == metadata[x.id]
           twin == \E i \in DOMAIN metadata \ {x.id} : metadata[i].paired /\ SameIdentity(metadata[i], x)
           paired == x.paired \/ twin \/ (known /\ old.paired)
           alias == IF known THEN First(x.alias, old.alias) ELSE x.alias
           units == IF known THEN x.units \cup old.units ELSE x.units
<1>1. q = [x EXCEPT !.paired = paired, !.alias = alias, !.units = units]
  BY Zenon DEF Registered
<1>2. x \in Record /\ x.units = {u}
  BY DEF About
<1>3. known => old \in Record
  BY DEF IInv, TypeOK
<1>4. paired \in BOOLEAN
  BY <1>2, <1>3 DEF Record
<1>5. alias \in Alias \cup {None}
  BY <1>2, <1>3 DEF Record, First
<1>6. units = x.units /\ units \in SUBSET Unit
  BY <1>2 DEF Known
<1>7. known /\ old.paired => paired
  OBVIOUS
<1>8. paired => \E s \in Records : s.units = {u} /\ Main(s) /\ s.paired
  <2>1. SUFFICES ASSUME paired
                 PROVE  \E r \in Records : r.units = {u} /\ r.paired
    BY MainIsPaired
  <2>2. CASE x.paired
    BY <2>2
  <2>3. CASE twin
    <3>1. PICK i \in DOMAIN metadata : metadata[i].paired /\ SameIdentity(metadata[i], x)
      BY <2>3
    <3>2. PICK v \in Unit : About(metadata[i], v)
      BY DEF IInv, Filed, FiledIn
    <3>3. v = u
      BY <3>1, <3>2, SameIdentityIsOne DEF IInv
    <3> QED
      BY <3>1, <3>2, <3>3 DEF About, Records
  <2>4. CASE known /\ old.paired
    BY <2>4 DEF Known, Records
  <2> QED
    BY <2>1, <2>2, <2>3, <2>4
<1>9. alias = IF x.id \in DOMAIN metadata THEN First(x.alias, metadata[x.id].alias) ELSE x.alias
  OBVIOUS
<1> HIDE DEF paired, alias, units
<1>10. q \in Record
  BY <1>1, <1>2, <1>4, <1>5, <1>6 DEF Record
<1>11. q.paired = paired
  BY <1>1, <1>2 DEF Record
<1>12. Shaped(q, x) /\ q.alias = alias
  BY <1>1, <1>2, <1>6 DEF Record, Shaped
<1> QED
  BY <1>7, <1>8, <1>9, <1>10, <1>11, <1>12

\* What Find needs of the record that it writes.
WellFiled(q, u, full) ==
    /\ About(q, u) /\ FiledUnder(q.id, q, u) /\ q.seen = clock /\ q.ip = lease[u]
    /\ Main(q) => \A r \in Records : r.units = {u} /\ Main(r) => r.id = q.id
    /\ Known(q.id, u)
    /\ q.id \in DOMAIN metadata =>
          (Main(metadata[q.id]) => Main(q)) /\ (metadata[q.id].paired => q.paired)
    /\ full => Main(q) /\ q.name = called[u]
    /\ u \in settled /\ Main(q) => q.name = called[u]
    /\ ~Main(q) /\ q.paired => \E r \in Records : r.units = {u} /\ Main(r) /\ r.paired
    /\ u \notin blurred => q.alias = IF Main(q) THEN given[u] ELSE None

\* The same before the record is registered.
ToBeFiled(x, u, full) ==
    /\ About(x, u) /\ FiledUnder(x.id, x, u) /\ x.seen = clock /\ x.ip = lease[u]
    /\ Main(x) => \A r \in Records : r.units = {u} /\ Main(r) => r.id = x.id
    /\ Known(x.id, u)
    /\ x.id \in DOMAIN metadata => (Main(metadata[x.id]) => Main(x))
    /\ full => Main(x) /\ x.name = called[u]
    /\ u \in settled /\ Main(x) => x.name = called[u]
    /\ x.paired => \E r \in Records : r.units = {u} /\ r.paired
    /\ u \notin blurred =>
          /\ x.alias \in {None, IF Main(x) THEN given[u] ELSE None}
          /\ IF x.id \in DOMAIN metadata
             THEN metadata[x.id].alias = IF Main(x) THEN given[u] ELSE None
             ELSE x.alias = IF Main(x) THEN given[u] ELSE None

LEMMA RegisteringFiles ==
    ASSUME IInv, NEW u \in Unit, NEW full, NEW x, ToBeFiled(x, u, full), NEW q, q = Registered(x)
    PROVE  WellFiled(q, u, full)
<1>1. /\ Shaped(q, x) /\ q \in Record
      /\ x.id \in DOMAIN metadata /\ metadata[x.id].paired => q.paired
      /\ q.paired => \E s \in Records : s.units = {u} /\ Main(s) /\ s.paired
      /\ q.alias = IF x.id \in DOMAIN metadata THEN First(x.alias, metadata[x.id].alias) ELSE x.alias
  <2>1. /\ About(x, u) /\ Known(x.id, u)
        /\ x.paired => \E r \in Records : r.units = {u} /\ r.paired
    BY Zenon DEF ToBeFiled
  <2> QED
    BY <2>1, RegisteredFacts
<1>2. (Main(q) <=> Main(x)) /\ About(q, u) /\ FiledUnder(q.id, q, u)
  BY <1>1, ShapedFacts DEF ToBeFiled, Shaped
<1>3. q.id = x.id /\ q.seen = x.seen /\ q.ip = x.ip /\ q.name = x.name
  BY <1>1 DEF Shaped
<1>4. u \notin blurred => q.alias = IF Main(q) THEN given[u] ELSE None
  BY <1>1, <1>2 DEF ToBeFiled, First
<1>5. /\ q.seen = clock /\ q.ip = lease[u]
      /\ Main(q) => \A r \in Records : r.units = {u} /\ Main(r) => r.id = q.id
      /\ Known(q.id, u)
      /\ q.id \in DOMAIN metadata => (Main(metadata[q.id]) => Main(q))
      /\ full => Main(q) /\ q.name = called[u]
      /\ u \in settled /\ Main(q) => q.name = called[u]
  BY <1>2, <1>3 DEF ToBeFiled
<1> QED
  BY <1>1, <1>2, <1>3, <1>4, <1>5 DEF WellFiled

\* What is known of the records of a device.
LEMMA RecordsOf ==
    ASSUME IInv, NEW u \in Unit, NEW r \in Records, r.units = {u}
    PROVE  /\ About(r, u) /\ FiledUnder(r.id, r, u) /\ r.id \in DOMAIN metadata /\ metadata[r.id] = r
           /\ u \in Samsung => FullOf(r, u) \/ PlainOf(r, u)
           /\ u \in Television => PlainOf(r, u) /\ r.name = called[u] /\ r.id = <<"mdns", called[u]>> /\ Main(r)
           /\ u \in Windows => ComputerOf(r, u) /\ Main(r)
           /\ u \notin blurred =>
                 IF Main(r) THEN r.alias = given[u] ELSE Current(r, u) => r.alias = None
<1>1. r.id \in DOMAIN metadata /\ metadata[r.id] = r
  BY RecordFacts DEF IInv
<1>2. About(r, u) /\ FiledUnder(r.id, r, u)
  <2>1. PICK v \in Unit : About(r, v) /\ FiledUnder(r.id, r, v)
    BY RecordFacts DEF IInv
  <2> QED
    BY <2>1 DEF About
<1>3. u \notin blurred =>
         IF Main(r) THEN r.alias = given[u] ELSE Current(r, u) => r.alias = None
  BY <1>1 DEF IInv, Aliased, AliasedIn
<1>4. CASE u \in Samsung
  BY <1>1, <1>2, <1>3, <1>4, InventoryAssumption DEF About, ComputerOf
<1>5. CASE u \in Television
  <2>1. PlainOf(r, u) /\ u \notin Samsung /\ u \notin Windows
    BY <1>2, <1>5, InventoryAssumption DEF About, ComputerOf, FullOf
  <2>2. r.name = called[u]
    BY <1>5, <2>1 DEF PlainOf, IInv, Homes
  <2>3. r.id = <<"mdns", r.name>>
    BY <1>2, <2>1, InventoryAssumption DEF FiledUnder, FullOf, PlainOf, ComputerOf
  <2>4. Main(r)
    BY <1>2, <2>1, MainShapes
  <2> QED
    BY <1>1, <1>2, <1>3, <2>1, <2>2, <2>3, <2>4
<1>6. CASE u \in Windows
  <2>1. ComputerOf(r, u) /\ u \notin Samsung /\ u \notin Television
    BY <1>2, <1>6, InventoryAssumption DEF About, FullOf, PlainOf
  <2>2. Main(r)
    BY <1>2, <2>1, MainShapes
  <2> QED
    BY <1>1, <1>2, <1>3, <1>6, <2>1, <2>2
<1> QED
  BY <1>4, <1>5, <1>6 DEF Unit

\* Whose an ID is.
LEMMA IdFacts ==
    ASSUME IInv, NEW u \in Unit, NEW i \in DOMAIN metadata
    PROVE  /\ metadata[i] \in Records /\ metadata[i].id = i
           /\ i = <<"samsung", u>> => metadata[i].units = {u} /\ FullOf(metadata[i], u)
           /\ \A n \in borne[u] : i = <<"mdns", n>> => metadata[i].units = {u}
           /\ \A a \in held[u] : i = <<"windows", a>> => metadata[i].units = {u}
<1>1. metadata[i] \in Records /\ metadata[i].id = i
  BY DEF IInv, Filed, FiledIn, Records
<1>2. PICK v \in Unit : About(metadata[i], v) /\ FiledUnder(i, metadata[i], v)
  BY DEF IInv, Filed, FiledIn
<1>3. i = <<"samsung", u>> => metadata[i].units = {u} /\ FullOf(metadata[i], u)
  BY <1>2 DEF FiledUnder, About
<1>4. ASSUME NEW n \in borne[u], i = <<"mdns", n>>
      PROVE  metadata[i].units = {u}
  <2>1. n \in borne[v]
    BY <1>2, <1>4 DEF FiledUnder, PlainOf
  <2> QED
    BY <1>2, <2>1 DEF IInv, Homes, About
<1>5. ASSUME NEW a \in held[u], i = <<"windows", a>>
      PROVE  metadata[i].units = {u}
  <2>1. a \in held[v]
    BY <1>2, <1>5 DEF FiledUnder
  <2> QED
    BY <1>2, <2>1 DEF IInv, Homes, About
<1> QED
  BY <1>1, <1>3, <1>4, <1>5

LEMMA NoMain ==
    ASSUME IInv, NEW u \in Unit, \A r \in Records : r.units = {u} => ~Main(r)
    PROVE  u \notin settled /\ (u \notin blurred => given[u] = None)
<1>1. \A i \in DOMAIN metadata : metadata[i].units = {u} => ~Main(metadata[i])
  BY DEF Records
<1>2. u \notin settled
  BY SettledHasMain DEF MainOf
<1> QED
  BY <1>1, <1>2 DEF IInv, Aliased, AliasedIn

LEMMA FreshFiles ==
    ASSUME IInv, NEW u \in Unit, NEW item \in Reports(u), Matches(item) = {}
    PROVE  ToBeFiled(item, u, Full(item, u))
<1>1. /\ About(item, u) /\ item \in Record /\ item.units = {u} /\ item.paired = FALSE
      /\ item.ip = lease[u] /\ item.seen = clock /\ item.name = called[u] /\ item.alias = None
  BY ItemFacts DEF IInv, Homes, Dwells
<1>2. \A r \in Records : ~SameIdentity(r, item)
  BY DEF Matches
<1>3. CASE FullOf(item, u) /\ item.id = <<"samsung", u>>
  <2>1. ASSUME NEW r \in Records, FullOf(r, u)
        PROVE  FALSE
    <3>1. u # None
      BY InventoryAssumption DEF Unit
    <3> QED
      BY <1>2, <1>3, <2>1, <3>1 DEF FullOf, SameIdentity, Agree
  <2>2. \A r \in Records : r.units = {u} => ~Main(r)
    BY <1>3, <2>1, RecordsOf, MainShapes DEF FullOf
  <2>3. item.id \notin DOMAIN metadata
    BY <1>3, <2>1, IdFacts
  <2>4. Main(item) /\ FiledUnder(item.id, item, u)
    BY <1>1, <1>3, MainShapes DEF FiledUnder
  <2> QED
    BY <1>1, <2>2, <2>3, <2>4, NoMain DEF ToBeFiled, Known
<1>4. CASE ComputerOf(item, u) /\ item.id = <<"windows", lease[u]>>
  <2>1. ASSUME NEW r \in Records, r.units = {u}
        PROVE  FALSE
    <3>1. u # None /\ ComputerOf(r, u)
      BY <1>4, <2>1, RecordsOf, InventoryAssumption DEF ComputerOf, Unit
    <3> QED
      BY <1>2, <1>4, <3>1 DEF ComputerOf, SameIdentity, Agree, Differ
  <2>2. lease[u] \in held[u]
    BY DEF IInv, Homes
  <2>3. item.id \notin DOMAIN metadata
    BY <1>4, <2>1, <2>2, IdFacts
  <2>4. Main(item) /\ FiledUnder(item.id, item, u)
    BY <1>1, <1>4, <2>2, MainShapes DEF FiledUnder
  <2> QED
    BY <1>1, <2>1, <2>3, <2>4, NoMain DEF ToBeFiled, Known
<1>5. CASE PlainOf(item, u) /\ item.id = <<"mdns", called[u]>>
  <2>1. FiledUnder(item.id, item, u) /\ called[u] \in borne[u] /\ u \notin Windows
    BY <1>1, <1>5 DEF FiledUnder, PlainOf
  <2>2. item.id \in DOMAIN metadata =>
           metadata[item.id] \in Records /\ metadata[item.id].units = {u} /\ metadata[item.id].id = item.id
    BY <1>5, <2>1, IdFacts
  <2>3. Known(item.id, u)
    BY <2>2 DEF Known
  <2>4. CASE u \in Samsung
    <3>1. ~Main(item) /\ ~Full(item, u)
      BY <1>1, <1>5, <2>4, MainShapes, InventoryAssumption DEF Full, IsSamsung, PlainOf
    <3>2. ASSUME item.id \in DOMAIN metadata
          PROVE  ~Main(metadata[item.id]) /\ (u \notin blurred => metadata[item.id].alias = None)
      <4> DEFINE old == metadata[item.id]
      <4>1. old \in Records /\ old.units = {u} /\ old.id = <<"mdns", called[u]>> /\ FiledUnder(old.id, old, u)
        BY <1>5, <2>2, <3>2, RecordsOf
      <4>2. About(old, u) /\ (u \notin blurred /\ ~Main(old) => (Current(old, u) => old.alias = None))
        BY <4>1, RecordsOf
      <4> HIDE DEF old
      <4>3. old.name = called[u]
        BY <4>1, InventoryAssumption DEF FiledUnder, PlainOf
      <4>4. ASSUME FullOf(old, u)
            PROVE  FALSE
        <5>1. SameIdentity(old, item)
          <6>1. called[u] # None
            BY <2>1, InventoryAssumption DEF IInv, TypeOK
          <6> QED
            BY <1>1, <1>5, <4>3, <4>4, <6>1 DEF FullOf, PlainOf, SameIdentity, Agree, Differ, SameName, IsSamsung
        <5> QED
          BY <1>2, <4>1, <5>1
      <4>5. ~Main(old)
        BY <2>4, <4>2, <4>4, MainShapes
      <4> QED
        BY <4>2, <4>3, <4>5 DEF old, Current
    <3> QED
      BY <1>1, <2>1, <2>3, <3>1, <3>2 DEF ToBeFiled
  <2>5. CASE u \in Television
    <3>1. Main(item) /\ u \notin Samsung
      BY <1>1, <1>5, <2>5, MainShapes, InventoryAssumption
    <3>2. \A r \in Records : r.units = {u} => r.id = item.id
      BY <1>5, <2>5, RecordsOf
    <3>3. item.id \in DOMAIN metadata /\ u \notin blurred => metadata[item.id].alias = given[u]
      BY <2>2, <2>5, RecordsOf
    <3>4. item.id \notin DOMAIN metadata /\ u \notin blurred => given[u] = None
      BY <3>2, NoMain, RecordFacts DEF IInv
    <3> QED
      BY <1>1, <2>1, <2>3, <3>1, <3>2, <3>3, <3>4 DEF ToBeFiled
  <2> QED
    BY <2>1, <2>4, <2>5 DEF Unit
<1> QED
  BY <1>3, <1>4, <1>5, ItemFacts DEF IInv, Homes, Dwells

\* The fields of a reconciled record.
Reconciles(x, item, c, u) ==
    /\ x \in Record /\ x.id = c.id /\ x.ip = item.ip /\ x.seen = item.seen /\ x.units = {u}
    /\ x.alias = c.alias /\ (x.paired => c.paired)
    /\ IsSamsung(item) =>
          /\ x.kind = item.kind /\ x.maker = item.maker /\ x.duid = item.duid /\ x.mac = item.mac
          /\ x.name = item.name
    /\ ~IsSamsung(item) =>
          /\ x.kind = c.kind /\ x.maker = First(c.maker, item.maker) /\ x.name = First(c.name, item.name)
          /\ \E p \in {c, item} :
                /\ IsSamsung(c) => p = c
                /\ x.duid = First(p.duid, First(c.duid, item.duid))
                /\ x.mac = First(p.mac, First(c.mac, item.mac))

LEMMA ReconciledFields ==
    ASSUME TypeOK, NEW u \in Unit, NEW item, NEW c, About(item, u), About(c, u), item.alias = None,
           item.paired = FALSE, NEW x, x = Reconciled(item, c)
    PROVE  Reconciles(x, item, c, u)
<1>1. item \in Record /\ c \in Record /\ item.units = {u} /\ c.units = {u}
  BY DEF About
<1>2. CASE IsSamsung(item)
  <2>1. x = [item EXCEPT !.id = c.id, !.paired = c.paired, !.alias = c.alias]
    BY <1>2 DEF Reconciled
  <2>2. c.id \in Id /\ c.paired \in BOOLEAN /\ c.alias \in Alias \cup {None}
    BY <1>1 DEF Record
  <2>3. x \in Record
    BY <1>1, <2>1, <2>2 DEF Record
  <2>4. x.paired = c.paired
    BY <1>1, <2>1 DEF Record
  <2>5. /\ x.id = c.id /\ x.ip = item.ip /\ x.seen = item.seen /\ x.units = item.units /\ x.alias = c.alias
        /\ x.kind = item.kind /\ x.maker = item.maker /\ x.duid = item.duid /\ x.mac = item.mac
        /\ x.name = item.name
    BY <1>1, <2>1 DEF Record
  <2> QED
    BY <1>1, <1>2, <2>3, <2>4, <2>5 DEF Reconciles
<1>3. CASE ~IsSamsung(item)
  <2> DEFINE m == Merge(c, item)
             p == Identity(c, item)
             maker == First(c.maker, item.maker)
             name == First(c.name, item.name)
             yes == TRUE
  <2>1. x = [m EXCEPT !.id = c.id, !.ip = item.ip, !.online = yes, !.kind = c.kind, !.maker = maker,
                      !.name = name, !.seen = item.seen]
    BY <1>3, Zenon DEF Reconciled
  <2>2. /\ m \in Record /\ m.duid = First(p.duid, First(c.duid, item.duid))
        /\ m.mac = First(p.mac, First(c.mac, item.mac))
        /\ m.alias = First(c.alias, item.alias) /\ m.units = c.units \cup item.units
    <3>1. m.duid = First(p.duid, First(c.duid, item.duid)) /\ m.mac = First(p.mac, First(c.mac, item.mac))
      BY <1>1, MergeFields
    <3>2. m \in Record /\ m.units = c.units \cup item.units
      BY <1>1, MergeAbout DEF About
    <3>3. m.alias = First(c.alias, item.alias)
      BY <1>1, MergeFields
    <3> HIDE DEF m, p
    <3> QED
      BY <3>1, <3>2, <3>3
  <2>3. m.paired = (c.paired \/ item.paired)
    BY <1>1, MergeFields
  <2>4. /\ c.id \in Id /\ item.ip \in Address /\ yes \in BOOLEAN /\ c.kind \in {"tv", "computer"}
        /\ item.seen \in Nat
    BY <1>1 DEF Record
  <2>5. maker \in {"samsung", "other", None} /\ name \in Name \cup {None}
    BY <1>1, First3 DEF Record
  <2>6. p \in {c, item} /\ (IsSamsung(c) => p = c)
    BY DEF Identity
  <2>7. maker = First(c.maker, item.maker) /\ name = First(c.name, item.name)
    OBVIOUS
  <2> HIDE DEF m, p, maker, name, yes
  <2>8. x \in Record
    BY <2>1, <2>2, <2>4, <2>5 DEF Record
  <2>9. x.paired = m.paired
    BY <2>1, <2>2 DEF Record
  <2>10. /\ x.id = c.id /\ x.ip = item.ip /\ x.seen = item.seen /\ x.kind = c.kind /\ x.maker = maker
         /\ x.name = name /\ x.duid = m.duid /\ x.mac = m.mac /\ x.alias = m.alias /\ x.units = m.units
    BY <2>1, <2>2 DEF Record
  <2>11. x.paired => c.paired
    BY <2>3, <2>9
  <2>12. x.alias = c.alias /\ x.units = {u}
    BY <1>1, <2>2, <2>10 DEF First
  <2> QED
    BY <1>3, <2>2, <2>6, <2>7, <2>8, <2>10, <2>11, <2>12 DEF Reconciles
<1> QED
  BY <1>2, <1>3

LEMMA ReconciledFiles ==
    ASSUME IInv, NEW u \in Unit, NEW item \in Reports(u), NEW c \in Candidates(item)
    PROVE  ToBeFiled(Reconciled(item, c), u, Full(item, u))
<1> DEFINE x == Reconciled(item, c)
<1>1. /\ About(item, u) /\ item \in Record /\ item.paired = FALSE
      /\ item.ip = lease[u] /\ item.seen = clock /\ item.name = called[u] /\ item.alias = None
      /\ \/ FullOf(item, u) /\ Full(item, u) /\ IsSamsung(item)
         \/ PlainOf(item, u) /\ ~IsSamsung(item) /\ (Full(item, u) <=> u \notin Samsung)
         \/ ComputerOf(item, u) /\ Full(item, u) /\ ~IsSamsung(item)
  BY ItemFacts DEF IInv, Homes, Dwells
<1>2. c \in Matches(item) /\ \A F \in Matches(item) : FullOf(F, u) => c = F
  BY <1>1, CandidateFacts
<1>3. /\ c \in Records /\ About(c, u) /\ FiledUnder(c.id, c, u) /\ c.units = {u}
      /\ PlainOf(c, u) => Current(c, u)
  BY <1>1, <1>2, MatchFacts
<1>4. /\ c.id \in DOMAIN metadata /\ metadata[c.id] = c
      /\ u \notin blurred =>
            IF Main(c) THEN c.alias = given[u] ELSE Current(c, u) => c.alias = None
      /\ u \in Samsung => FullOf(c, u) \/ PlainOf(c, u)
      /\ u \in Television => PlainOf(c, u) /\ c.name = called[u] /\ c.id = <<"mdns", called[u]>> /\ Main(c)
      /\ u \in Windows => ComputerOf(c, u) /\ Main(c)
  BY <1>3, RecordsOf
<1>5. /\ x \in Record /\ x.id = c.id /\ x.ip = item.ip /\ x.seen = item.seen /\ x.units = {u}
      /\ x.alias = c.alias /\ (x.paired => c.paired)
      /\ IsSamsung(item) =>
            /\ x.kind = item.kind /\ x.maker = item.maker /\ x.duid = item.duid /\ x.mac = item.mac
            /\ x.name = item.name
      /\ ~IsSamsung(item) =>
            /\ x.kind = c.kind /\ x.maker = First(c.maker, item.maker) /\ x.name = First(c.name, item.name)
            /\ \E p \in {c, item} :
                  /\ IsSamsung(c) => p = c
                  /\ x.duid = First(p.duid, First(c.duid, item.duid))
                  /\ x.mac = First(p.mac, First(c.mac, item.mac))
  <2>1. Reconciles(x, item, c, u)
    BY <1>1, <1>3, ReconciledFields DEF IInv
  <2> HIDE DEF x
  <2> QED
    BY <2>1 DEF Reconciles
<1>6. item.ip \in held[u] /\ u # None
  BY <1>1, InventoryAssumption DEF About, Unit
<1> HIDE DEF x
<1>7. x.paired => \E r \in Records : r.units = {u} /\ r.paired
  BY <1>3, <1>5
<1>8. Known(x.id, u)
  BY <1>3, <1>4, <1>5 DEF Known
<1>9. CASE FullOf(item, u) /\ IsSamsung(item)
  <2>1. FullOf(x, u) /\ About(x, u) /\ Main(x) /\ x.name = called[u] /\ u \in Samsung
    BY <1>1, <1>5, <1>6, <1>9, MainShapes DEF FullOf, About
  <2>2. ASSUME NEW r \in Records, r.units = {u}, Main(r)
        PROVE  c = r
    <3>1. FullOf(r, u)
      BY <2>1, <2>2, RecordsOf, MainShapes
    <3>2. SameIdentity(r, item)
      BY <1>6, <1>9, <3>1 DEF FullOf, SameIdentity, Agree
    <3> QED
      BY <1>2, <3>1, <3>2 DEF Matches
  <2>3. FiledUnder(x.id, x, u)
    <3>1. CASE FullOf(c, u)
      BY <1>3, <1>5, <2>1, <3>1, InventoryAssumption DEF FiledUnder, PlainOf, ComputerOf, FullOf
    <3>2. CASE PlainOf(c, u)
      <4>1. c.id = <<"mdns", c.name>> /\ c.name \in borne[u]
        BY <1>3, <2>1, <3>2, InventoryAssumption DEF FiledUnder, PlainOf, ComputerOf, FullOf
      <4> QED
        BY <1>5, <2>1, <4>1 DEF FiledUnder
    <3> QED
      BY <1>4, <2>1, <3>1, <3>2
  <2>4. u \notin blurred => c.alias = given[u]
    <3>1. CASE Main(c)
      BY <1>4, <3>1
    <3>2. CASE ~Main(c)
      <4>1. PlainOf(c, u)
        BY <1>3, <2>1, <3>2, MainShapes
      <4>2. u \notin blurred => given[u] = None
        BY <2>2, <3>2, NoMain
      <4> QED
        BY <1>3, <1>4, <3>2, <4>1, <4>2
    <3> QED
      BY <3>1, <3>2
  <2> QED
    BY <1>1, <1>4, <1>5, <1>7, <1>8, <2>1, <2>2, <2>3, <2>4 DEF ToBeFiled, x
<1>10. CASE PlainOf(item, u) /\ FullOf(c, u) /\ ~IsSamsung(item)
  <2>1. u \in Samsung /\ ~Full(item, u) /\ Main(c) /\ c.name # None
    BY <1>1, <1>3, <1>10, MainShapes, InventoryAssumption DEF FullOf, Full, IInv, TypeOK
  <2>2. FullOf(x, u) /\ About(x, u) /\ Main(x) /\ x.name = c.name
    <3>1. FullOf(x, u) /\ x.name = c.name
      BY <1>5, <1>6, <1>10, <2>1, InventoryAssumption DEF FullOf, First, IsSamsung
    <3> QED
      BY <1>5, <1>6, <3>1, MainShapes DEF About
  <2>3. FiledUnder(x.id, x, u)
    BY <1>3, <1>5, <1>10, <2>2, InventoryAssumption DEF FiledUnder, PlainOf, ComputerOf, FullOf
  <2>4. \A r \in Records : r.units = {u} /\ Main(r) => r = c
    BY <1>3, <2>1, MainIsAlone
  <2>5. u \in settled => c.name = called[u]
    BY <2>4, SettledHasMain DEF MainOf
  <2> QED
    BY <1>1, <1>4, <1>5, <1>7, <1>8, <2>1, <2>2, <2>3, <2>4, <2>5 DEF ToBeFiled, x
<1>11. CASE PlainOf(item, u) /\ PlainOf(c, u) /\ ~IsSamsung(item)
  <2>1. c.name # None /\ c.name \in borne[u] /\ u \notin Windows
    BY <1>11, InventoryAssumption DEF PlainOf, IInv, TypeOK
  <2>2. PlainOf(x, u) /\ x.name = c.name
    BY <1>5, <1>11, <2>1 DEF PlainOf, First
  <2>3. About(x, u)
    BY <1>5, <1>6, <2>2 DEF About
  <2>4. FiledUnder(x.id, x, u)
    BY <1>3, <1>5, <1>11, <2>2, InventoryAssumption DEF FiledUnder, PlainOf, ComputerOf, FullOf
  <2>5. CASE u \in Samsung
    <3>1. ~Main(x) /\ ~Main(c) /\ ~Full(item, u)
      BY <1>1, <1>3, <1>11, <2>2, <2>3, <2>5, MainShapes, InventoryAssumption DEF PlainOf, ComputerOf
    <3> QED
      BY <1>1, <1>3, <1>4, <1>5, <1>7, <1>8, <1>11, <2>3, <2>4, <3>1 DEF ToBeFiled, x
  <2>6. CASE u \in Television
    <3>1. Main(x) /\ Main(c) /\ u \notin Samsung
      BY <1>4, <2>2, <2>3, <2>6, MainShapes, InventoryAssumption
    <3>2. \A r \in Records : r.units = {u} => r.id = c.id
      BY <1>4, <2>6, RecordsOf
    <3> QED
      BY <1>1, <1>4, <1>5, <1>7, <1>8, <2>2, <2>3, <2>4, <2>6, <3>1, <3>2 DEF ToBeFiled, x
  <2> QED
    BY <2>1, <2>5, <2>6 DEF Unit
<1>12. CASE ComputerOf(item, u) /\ ~IsSamsung(item)
  <2>1. ComputerOf(c, u) /\ Main(c) /\ u \in Windows /\ u \in Unit
    BY <1>4, <1>12 DEF ComputerOf
  <2>2. ComputerOf(x, u)
    BY <1>5, <1>6, <1>12, <2>1, InventoryAssumption DEF ComputerOf, First
  <2>3. About(x, u) /\ Main(x) /\ x.name = called[u]
    BY <1>1, <1>5, <1>6, <1>12, <2>2, MainShapes DEF About, ComputerOf
  <2>4. FiledUnder(x.id, x, u)
    BY <1>3, <1>5, <2>1, <2>2, InventoryAssumption DEF FiledUnder, PlainOf, ComputerOf, FullOf
  <2>5. \A r \in Records : r.units = {u} /\ Main(r) => r = c
    BY <1>3, <2>1, MainIsAlone
  <2> QED
    BY <1>1, <1>4, <1>5, <1>7, <1>8, <2>1, <2>3, <2>4, <2>5 DEF ToBeFiled, x
<1>13. PlainOf(item, u) => FullOf(c, u) \/ PlainOf(c, u)
  BY <1>4 DEF PlainOf, Unit
<1> QED
  BY <1>1, <1>9, <1>10, <1>11, <1>12, <1>13

\* Filing it keeps the invariant.
LEMMA FilingKeeps ==
    ASSUME IInv, NEW u \in Unit, NEW full \in BOOLEAN, NEW q, WellFiled(q, u, full),
           metadata' = Put(metadata, q.id, q), seen' = seen \cup {q.id},
           settled' = IF full THEN settled \cup {u} ELSE settled,
           clock' = clock + 1, UNCHANGED <<scanning, home, given, blurred>>
    PROVE  IInv'
<1> DEFINE d == q.id
           m == Put(metadata, d, q)
<1>1. /\ About(q, u) /\ FiledUnder(d, q, u) /\ q.seen = clock /\ q.ip = lease[u]
      /\ Main(q) => \A r \in Records : r.units = {u} /\ Main(r) => r.id = d
      /\ Known(d, u)
      /\ d \in DOMAIN metadata => (Main(metadata[d]) => Main(q)) /\ (metadata[d].paired => q.paired)
      /\ full => Main(q) /\ q.name = called[u]
      /\ u \in settled /\ Main(q) => q.name = called[u]
      /\ ~Main(q) /\ q.paired => \E r \in Records : r.units = {u} /\ Main(r) /\ r.paired
      /\ u \notin blurred => q.alias = IF Main(q) THEN given[u] ELSE None
  BY Zenon DEF WellFiled
<1>2. q \in Record /\ q.units = {u} /\ q.id \in Id /\ clock \in Nat
  BY <1>1 DEF About, Record, IInv, TypeOK
<1>3. m = [k \in DOMAIN metadata \cup {d} |-> IF k = d THEN q ELSE metadata[k]]
  BY DEF Put
<1> HIDE DEF m
<1>4. /\ DOMAIN m = DOMAIN metadata \cup {d} /\ m[d] = q
      /\ \A i \in DOMAIN m : i # d => i \in DOMAIN metadata /\ m[i] = metadata[i]
      /\ \A i \in DOMAIN metadata : i # d => m[i] = metadata[i]
  BY <1>3
<1>5. \A i \in DOMAIN metadata : metadata[i] \in Records /\ metadata[i].id = i /\ metadata[i].seen \in Nat
                                 /\ metadata[i].seen < clock
  BY DEF IInv, Filed, FiledIn, Records, TypeOK, Record
<1>6. TypeOK'
  <2>1. m \in [DOMAIN m -> Record]
    BY <1>2, <1>3, <1>4 DEF IInv, TypeOK
  <2>2. IsFiniteSet(DOMAIN m)
    BY <1>4, FS_AddElement DEF IInv, TypeOK
  <2>3. settled' \subseteq Unit /\ clock' \in Nat /\ seen' \subseteq Id
    BY <1>2 DEF IInv, TypeOK
  <2> QED
    BY <2>1, <2>2, <2>3 DEF IInv, TypeOK, home, m
<1>7. FiledIn(m, clock')
  <2>1. ASSUME NEW i \in DOMAIN m
        PROVE  /\ m[i].id = i /\ m[i].seen < clock'
               /\ \E v \in Unit : About(m[i], v) /\ FiledUnder(i, m[i], v)
    <3>1. CASE i = d
      BY <1>1, <1>2, <1>4, <3>1
    <3>2. CASE i # d
      BY <1>2, <1>4, <1>5, <3>2 DEF IInv, Filed, FiledIn
    <3> QED
      BY <3>1, <3>2
  <2> QED
    BY <2>1 DEF FiledIn
<1>8. \A i \in DOMAIN metadata : metadata[i].units = {u} /\ Main(metadata[i]) /\ Main(q) => i = d
  BY <1>1, <1>5
<1>9. AloneIn(m)
  <2>1. SUFFICES ASSUME NEW i \in DOMAIN m, NEW j \in DOMAIN m, m[i].units = m[j].units, Main(m[i]), Main(m[j])
                 PROVE  i = j
    BY DEF AloneIn
  <2>2. CASE i # d /\ j # d
    BY <1>4, <2>1, <2>2 DEF IInv, Alone, AloneIn
  <2>3. CASE i = d \/ j = d
    BY <1>2, <1>4, <1>8, <2>1, <2>3
  <2> QED
    BY <2>2, <2>3
<1>10. LaterIn(m)
  <2>1. SUFFICES ASSUME NEW v \in Unit, NEW i \in DOMAIN m, NEW j \in DOMAIN m,
                        m[i].units = {v}, m[j].units = {v}, m[i].ip = lease[v], m[j].seen >= m[i].seen
                 PROVE  m[j].ip = lease[v]
    BY DEF LaterIn
  <2>2. CASE i # d /\ j # d
    BY <1>4, <2>1, <2>2 DEF IInv, Later, LaterIn
  <2>3. CASE j = d
    <3>1. u = v
      BY <1>2, <1>4, <2>1, <2>3
    <3> QED
      BY <1>1, <1>4, <2>3, <3>1
  <2>4. CASE i = d /\ j # d
    BY <1>1, <1>2, <1>4, <1>5, <2>1, <2>4
  <2> QED
    BY <2>2, <2>3, <2>4
<1>11. ToldIn(m, settled')
  <2>1. SUFFICES ASSUME NEW v \in settled'
                 PROVE  \E i \in DOMAIN m : /\ m[i].units = {v} /\ Main(m[i])
                                            /\ m[i].ip = lease[v] /\ m[i].name = called[v]
    BY DEF ToldIn
  <2>2. CASE v = u /\ full
    BY <1>1, <1>2, <1>4, <2>2
  <2>3. CASE v \in settled /\ ~(v = u /\ full)
    <3>1. PICK i \in DOMAIN metadata : /\ metadata[i].units = {v} /\ Main(metadata[i])
                                       /\ metadata[i].ip = lease[v] /\ metadata[i].name = called[v]
      BY <2>3 DEF IInv, Told, ToldIn
    <3>2. CASE i # d
      BY <1>4, <3>1, <3>2
    <3>3. CASE i = d
      <4>1. {v} = {u} /\ Main(q)
        BY <1>1, <3>1, <3>3 DEF Known
      <4>2. v = u
        BY <4>1
      <4> QED
        BY <1>1, <1>2, <1>4, <2>3, <4>1, <4>2
    <3> QED
      BY <3>2, <3>3
  <2> QED
    BY <2>1, <2>2, <2>3
<1>12. PairedIn(m)
  <2>1. SUFFICES ASSUME NEW i \in DOMAIN m, m[i].paired, ~Main(m[i])
                 PROVE  \E j \in DOMAIN m : m[j].units = m[i].units /\ Main(m[j]) /\ m[j].paired
    BY DEF PairedIn
  <2>2. \E j \in DOMAIN metadata : metadata[j].units = m[i].units /\ Main(metadata[j]) /\ metadata[j].paired
    <3>1. CASE i = d
      <4>1. m[i] = q
        BY <1>4, <3>1
      <4>2. q.paired /\ ~Main(q)
        BY <2>1, <4>1
      <4>3. PICK r \in Records : r.units = {u} /\ Main(r) /\ r.paired
        BY <1>1, <4>2
      <4> QED
        BY <1>2, <4>1, <4>3 DEF Records
    <3>2. CASE i # d
      BY <1>4, <2>1, <3>2 DEF IInv, PairedByMain, PairedIn
    <3> QED
      BY <3>1, <3>2
  <2>3. PICK j \in DOMAIN metadata : metadata[j].units = m[i].units /\ Main(metadata[j]) /\ metadata[j].paired
    BY <2>2
  <2>4. CASE j # d
    BY <1>4, <2>3, <2>4
  <2>5. CASE j = d
    BY <1>1, <1>2, <1>4, <2>3, <2>5 DEF Known
  <2> QED
    BY <2>4, <2>5
<1>13. AliasedIn(m, blurred', given')
  <2>1. SUFFICES ASSUME NEW v \in Unit \ blurred
                 PROVE  /\ \A j \in DOMAIN m :
                              m[j].units = {v} =>
                                  IF Main(m[j]) THEN m[j].alias = given[v]
                                  ELSE Current(m[j], v) => m[j].alias = None
                        /\ (\A j \in DOMAIN m : m[j].units = {v} => ~Main(m[j])) => given[v] = None
    BY DEF AliasedIn
  <2>2. /\ \A j \in DOMAIN metadata :
              metadata[j].units = {v} =>
                  IF Main(metadata[j]) THEN metadata[j].alias = given[v]
                  ELSE Current(metadata[j], v) => metadata[j].alias = None
        /\ (\A j \in DOMAIN metadata : metadata[j].units = {v} => ~Main(metadata[j])) => given[v] = None
    BY <2>1 DEF IInv, Aliased, AliasedIn
  <2>3. ASSUME NEW j \in DOMAIN m, m[j].units = {v}
        PROVE  IF Main(m[j]) THEN m[j].alias = given[v] ELSE Current(m[j], v) => m[j].alias = None
    <3>1. CASE j = d
      <4>1. {v} = {u}
        BY <1>2, <1>4, <2>3, <3>1
      <4>2. v = u
        BY <4>1
      <4> QED
        BY <1>1, <1>4, <3>1, <4>2
    <3>2. CASE j # d
      BY <1>4, <2>2, <2>3, <3>2
    <3> QED
      BY <3>1, <3>2
  <2>4. ASSUME \A j \in DOMAIN m : m[j].units = {v} => ~Main(m[j])
        PROVE  given[v] = None
    <3>1. ASSUME NEW j \in DOMAIN metadata, metadata[j].units = {v}, Main(metadata[j])
          PROVE  FALSE
      <4>1. CASE j # d
        BY <1>4, <2>4, <3>1, <4>1
      <4>2. CASE j = d
        BY <1>1, <1>2, <1>4, <2>4, <3>1, <4>2 DEF Known
      <4> QED
        BY <4>1, <4>2
    <3> QED
      BY <2>2, <3>1
  <2> QED
    BY <2>3, <2>4
<1>14. m = metadata' /\ UNCHANGED home
  BY DEF m
<1> QED
  BY <1>6, <1>7, <1>9, <1>10, <1>11, <1>12, <1>13, <1>14, SameHome DEF IInv

LEMMA FindKeeps ==
    ASSUME IInv, NEW u \in Unit, Find(u)
    PROVE  IInv'
<1>1. PICK item \in Reports(u) :
        /\ \/ Matches(item) = {} /\ File(item)
           \/ \E c \in Candidates(item) : File(Reconciled(item, c))
        /\ settled' = IF Full(item, u) THEN settled \cup {u} ELSE settled
  BY DEF Find
<1>2. clock' = clock + 1 /\ UNCHANGED <<scanning, home, given, blurred>>
  BY DEF Find
<1>3. PICK x : File(x) /\ ToBeFiled(x, u, Full(item, u))
  BY <1>1, FreshFiles, ReconciledFiles
<1> DEFINE q == Registered(x)
<1>4. WellFiled(q, u, Full(item, u)) /\ q.id = x.id
  <2>1. q.id = x.id
    <3>1. /\ About(x, u) /\ Known(x.id, u)
          /\ x.paired => \E r \in Records : r.units = {u} /\ r.paired
      BY <1>3, Zenon DEF ToBeFiled
    <3>2. Shaped(q, x)
      BY <3>1, RegisteredFacts
    <3> QED
      BY <3>2 DEF Shaped
  <2> QED
    BY <1>3, <2>1, RegisteringFiles
<1>5. metadata' = Put(metadata, q.id, q) /\ seen' = seen \cup {q.id}
  BY <1>3, <1>4 DEF File
<1>6. Full(item, u) \in BOOLEAN
  BY DEF Full, IsSamsung
<1> HIDE DEF q
<1> QED
  BY <1>1, <1>2, <1>4, <1>5, <1>6, FilingKeeps

-----------------------------------------------------------------------------
(* Devices that are taken for one *)

\* Every part of the devices met the others.
Linked(S) == S # {} /\ \A part \in (SUBSET S) \ {{}, S} : \E u \in part, v \in S \ part : Met(u, v)
Bridged(A, B) == \E u \in A, v \in B : u = v \/ Met(u, v)

LEMMA LinkedUnion ==
    ASSUME NEW A, NEW B, Linked(A), Linked(B), Bridged(A, B)
    PROVE  Linked(A \cup B)
<1>1. SUFFICES ASSUME NEW part \in (SUBSET (A \cup B)) \ {{}, A \cup B}
               PROVE  \E u \in part, v \in (A \cup B) \ part : Met(u, v)
  BY DEF Linked
<1>2. ASSUME NEW S, Linked(S), S \subseteq A \cup B, part \cap S # {}, ~(S \subseteq part)
      PROVE  \E u \in part, v \in (A \cup B) \ part : Met(u, v)
  <2>1. part \cap S # {} /\ part \cap S # S /\ part \cap S \in SUBSET S
    BY <1>2
  <2>2. PICK u \in part \cap S, v \in S \ (part \cap S) : Met(u, v)
    BY <1>2, <2>1 DEF Linked
  <2> QED
    BY <1>2, <2>2
<1>3. PICK u \in A, v \in B : u = v \/ Met(u, v)
  BY DEF Bridged
<1>4. CASE A \subseteq part /\ part \cap B = {}
  BY <1>3, <1>4
<1>5. CASE B \subseteq part /\ part \cap A = {}
  <2>1. Met(v, u)
    BY <1>3, <1>5 DEF Met
  <2> QED
    BY <1>5, <2>1
<1>6. CASE \/ part \cap A # {} /\ ~(A \subseteq part)
           \/ part \cap B # {} /\ ~(B \subseteq part)
  <2>1. Linked(A) /\ Linked(B) /\ A \subseteq A \cup B /\ B \subseteq A \cup B
    OBVIOUS
  <2> QED
    BY <1>2, <1>6, <2>1
<1>7. \/ A \subseteq part /\ part \cap B = {}
      \/ B \subseteq part /\ part \cap A = {}
      \/ part \cap A # {} /\ ~(A \subseteq part)
      \/ part \cap B # {} /\ ~(B \subseteq part)
  <2>1. part \subseteq A \cup B /\ part # {} /\ part # A \cup B
    OBVIOUS
  <2>2. part \cap A # {} \/ part \cap B # {}
    BY <2>1
  <2>3. ~(A \subseteq part /\ B \subseteq part)
    BY <2>1
  <2>4. A # {} /\ B # {}
    BY DEF Linked
  <2> QED
    BY <2>2, <2>3, <2>4, Zenon
<1> QED
  BY <1>4, <1>5, <1>6, <1>7

\* A record tells nothing but what one of its devices has or had.
Sound(r) ==
    /\ r \in Record /\ Linked(r.units)
    /\ r.duid # None => r.duid \in r.units
    /\ r.mac # None => r.mac \in r.units
    /\ r.name # None => \E u \in r.units : r.name \in borne[u]
    /\ \E u \in r.units : r.ip \in held[u]
    /\ IsSamsung(r) => r.duid # None
    /\ \A u \in r.units : u \in Windows <=> r.kind = "computer"

\* So does its ID.
Claims(i, r) ==
    CASE i[1] = "samsung" -> r.kind = "tv" /\ i[2] \in r.units
      [] i[1] = "mdns" -> r.kind = "tv" /\ \E u \in r.units : i[2] \in borne[u]
      [] OTHER -> r.kind = "computer" /\ \E u \in r.units : i[2] \in held[u]

LEMMA SharedBridges ==
    ASSUME NEW a, NEW b, Sound(a), Sound(b), a.kind = b.kind,
           \/ \E u \in a.units, v \in b.units : held[u] \cap held[v] # {}
           \/ \E u \in a.units, v \in b.units : borne[u] \cap borne[v] # {}
    PROVE  Bridged(a.units, b.units)
<1>1. PICK u \in a.units, v \in b.units : held[u] \cap held[v] # {} \/ borne[u] \cap borne[v] # {}
  OBVIOUS
<1>2. u \in Windows <=> v \in Windows
  BY DEF Sound
<1>3. Met(u, v)
  BY <1>1, <1>2 DEF Met
<1> QED
  BY <1>3 DEF Bridged

LEMMA FieldBridges ==
    ASSUME NEW a, NEW b, Sound(a), Sound(b), a.kind = b.kind,
           Agree(a.duid, b.duid) \/ Agree(a.mac, b.mac) \/ Agree(a.name, b.name) \/ a.ip = b.ip
    PROVE  Bridged(a.units, b.units)
<1>1. CASE Agree(a.duid, b.duid) \/ Agree(a.mac, b.mac)
  BY <1>1 DEF Agree, Sound, Bridged
<1>2. CASE Agree(a.name, b.name)
  <2>1. PICK u \in a.units, v \in b.units : a.name \in borne[u] /\ b.name \in borne[v]
    BY <1>2 DEF Agree, Sound
  <2>2. borne[u] \cap borne[v] # {}
    BY <1>2, <2>1 DEF Agree
  <2> QED
    BY <2>2, SharedBridges
<1>3. CASE a.ip = b.ip
  <2>1. PICK u \in a.units, v \in b.units : a.ip \in held[u] /\ b.ip \in held[v]
    BY DEF Sound
  <2>2. held[u] \cap held[v] # {}
    BY <1>3, <2>1
  <2> QED
    BY <2>2, SharedBridges
<1> QED
  BY <1>1, <1>2, <1>3

\* What is taken for one shares a device, or devices of both have met.
LEMMA SameBridges ==
    ASSUME NEW a, NEW b, Sound(a), Sound(b), SameIdentity(a, b)
    PROVE  a.kind = b.kind /\ Bridged(a.units, b.units)
<1>1. a.kind = b.kind
  BY DEF SameIdentity
<1>2. Agree(a.duid, b.duid) \/ Agree(a.mac, b.mac) \/ Agree(a.name, b.name) \/ a.ip = b.ip
  BY DEF SameIdentity, SameName
<1> QED
  BY <1>1, <1>2, FieldBridges

LEMMA KeyBridges ==
    ASSUME NEW a, NEW b, Sound(a), Sound(b), IdentityKey(a) = IdentityKey(b)
    PROVE  a.kind = b.kind /\ Bridged(a.units, b.units)
<1> DEFINE Keyed(r) ==
      \/ r.kind = "tv" /\ r.duid # None /\ IdentityKey(r) = <<"duid", r.duid>>
      \/ r.mac # None /\ IdentityKey(r) = <<r.kind, r.mac>>
      \/ IdentityKey(r) = <<r.kind, r.name, r.ip>>
<1>1. ASSUME NEW r, Sound(r)
      PROVE  Keyed(r) /\ r.kind # "duid"
  BY <1>1 DEF IdentityKey, Sound, Record
<1>2. Keyed(a) /\ Keyed(b) /\ a.kind # "duid" /\ b.kind # "duid"
  BY <1>1
<1>3. a.kind = b.kind /\ (Agree(a.duid, b.duid) \/ Agree(a.mac, b.mac) \/ a.ip = b.ip)
  BY <1>2 DEF Agree
<1> QED
  BY <1>3, FieldBridges

LEMMA ClaimsBridge ==
    ASSUME NEW i \in Id, NEW a, NEW b, Sound(a), Sound(b), Claims(i, a), Claims(i, b)
    PROVE  a.kind = b.kind /\ Bridged(a.units, b.units)
<1>1. CASE i[1] = "samsung"
  BY <1>1 DEF Claims, Bridged
<1>2. CASE i[1] = "mdns"
  <2>1. a.kind = b.kind
    BY <1>2 DEF Claims
  <2>2. PICK u \in a.units, v \in b.units : i[2] \in borne[u] /\ i[2] \in borne[v]
    BY <1>2 DEF Claims
  <2>3. borne[u] \cap borne[v] # {}
    BY <2>2
  <2> QED
    BY <2>1, <2>3, SharedBridges
<1>3. CASE i[1] # "samsung" /\ i[1] # "mdns"
  <2>1. a.kind = b.kind
    BY <1>3 DEF Claims
  <2>2. PICK u \in a.units, v \in b.units : i[2] \in held[u] /\ i[2] \in held[v]
    BY <1>3 DEF Claims
  <2>3. held[u] \cap held[v] # {}
    BY <2>2
  <2> QED
    BY <2>1, <2>3, SharedBridges
<1> QED
  BY <1>1, <1>2, <1>3

LEMMA MergeSound ==
    ASSUME NEW c, NEW x, Sound(c), Sound(x), c.kind = x.kind, Bridged(c.units, x.units),
           NEW m, m = Merge(c, x)
    PROVE  Sound(m) /\ m.kind = c.kind /\ m.units = c.units \cup x.units
<1> DEFINE p == Identity(c, x)
<1>1. c \in Record /\ x \in Record /\ (p = c \/ p = x)
  BY DEF Sound, Identity
<1>2. /\ m \in Record /\ m.kind = p.kind /\ m.maker = First(p.maker, First(c.maker, x.maker))
      /\ m.duid = First(p.duid, First(c.duid, x.duid)) /\ m.mac = First(p.mac, First(c.mac, x.mac))
      /\ m.name = First(p.name, First(c.name, x.name)) /\ m.ip = Latest(c, x).ip
      /\ m.units = c.units \cup x.units
  BY <1>1, MergeFields
<1> HIDE DEF p
<1>3. /\ m.kind = c.kind /\ m.maker \in {c.maker, x.maker} /\ m.duid \in {c.duid, x.duid}
      /\ m.mac \in {c.mac, x.mac} /\ m.name \in {c.name, x.name} /\ m.ip \in {c.ip, x.ip}
      /\ (c.duid # None \/ x.duid # None) => m.duid # None
  BY <1>1, <1>2 DEF First, Latest
<1>4. Linked(m.units)
  BY <1>2, LinkedUnion DEF Sound
<1>5. IsSamsung(m) => m.duid # None
  BY <1>3 DEF Sound, IsSamsung
<1> QED
  BY <1>2, <1>3, <1>4, <1>5 DEF Sound

\* A group under its key: the group has a record of this key in it.
Holds(k, row) ==
    Sound(row) /\ \E r : Sound(r) /\ IdentityKey(r) = k /\ r.kind = row.kind /\ r.units \subseteq row.units

LEMMA Widened ==
    ASSUME NEW A, NEW B, NEW C, Bridged(A, B), A \subseteq C
    PROVE  Bridged(C, B)
BY DEF Bridged

LEMMA AddSound ==
    ASSUME NEW groups, NEW r, Sound(r), IsFiniteSet(DOMAIN groups),
           \A k \in DOMAIN groups : Holds(k, groups[k])
    PROVE  /\ IsFiniteSet(DOMAIN Add(groups, r))
           /\ \A k \in DOMAIN Add(groups, r) : Holds(k, Add(groups, r)[k])
<1> DEFINE key == IdentityKey(r)
           new == Add(groups, r)
<1>1. CASE key \in DOMAIN groups
  <2> DEFINE m == Merge(groups[key], r)
  <2>1. new = [groups EXCEPT ![key] = m]
    BY <1>1 DEF Add
  <2>2. Holds(key, groups[key])
    BY <1>1
  <2>3. PICK s : /\ Sound(s) /\ IdentityKey(s) = key /\ s.kind = groups[key].kind
                 /\ s.units \subseteq groups[key].units
    BY <2>2 DEF Holds
  <2>4. s.kind = r.kind /\ Bridged(s.units, r.units)
    BY <2>3, KeyBridges
  <2>5. Bridged(groups[key].units, r.units)
    BY <2>3, <2>4, Widened
  <2>6. Sound(m) /\ m.kind = groups[key].kind /\ m.units = groups[key].units \cup r.units
    <3> DEFINE c == groups[key]
    <3>1. Sound(c) /\ c.kind = r.kind /\ Bridged(c.units, r.units)
      BY <2>2, <2>3, <2>4, <2>5 DEF Holds
    <3>2. m = Merge(c, r)
      OBVIOUS
    <3> HIDE DEF c, m
    <3>3. Sound(m) /\ m.kind = c.kind /\ m.units = c.units \cup r.units
      BY <3>1, <3>2, MergeSound
    <3> QED
      BY <3>3 DEF c
  <2> HIDE DEF m, new, key
  <2>7. Holds(key, m)
    <3>1. s.kind = m.kind /\ s.units \subseteq m.units
      BY <2>3, <2>6
    <3> QED
      BY <2>3, <2>6, <3>1, Zenon DEF Holds
  <2>8. DOMAIN new = DOMAIN groups /\ \A k \in DOMAIN new : new[k] = IF k = key THEN m ELSE groups[k]
    BY <2>1
  <2> QED
    BY <2>7, <2>8 DEF new
<1>2. CASE key \notin DOMAIN groups
  <2>1. new = Put(groups, key, r)
    BY <1>2 DEF Add
  <2>2. Holds(key, r)
    BY DEF Holds
  <2> HIDE DEF key, new
  <2>3. /\ DOMAIN new = DOMAIN groups \cup {key}
        /\ \A k \in DOMAIN new : new[k] = IF k = key THEN r ELSE groups[k]
    BY <2>1 DEF Put
  <2>4. IsFiniteSet(DOMAIN new)
    BY <2>3, FS_AddElement
  <2> QED
    BY <2>2, <2>3, <2>4 DEF new
<1> QED
  BY <1>1, <1>2

LEMMA GroupedSound ==
    ASSUME NEW N \in Nat, NEW o, DOMAIN o = 1 .. N, \A n \in 1 .. N : Sound(o[n])
    PROVE  /\ IsFiniteSet(Range(Grouped(o)))
           /\ \A r \in Range(Grouped(o)) : Sound(r)
<1>1. PICK a : /\ a[0] = <<>>
               /\ \A n \in 1 .. N : a[n] = Add(a[n - 1], o[n])
               /\ Grouped(o) = a[N]
  BY GroupedSteps
<1> DEFINE Good(n) == IsFiniteSet(DOMAIN a[n]) /\ \A k \in DOMAIN a[n] : Holds(k, a[n][k])
<1>2. Good(0)
  <2>1. DOMAIN a[0] = {}
    BY <1>1
  <2> QED
    BY <2>1, FS_EmptySet
<1>3. ASSUME NEW n \in 1 .. N, Good(n - 1)
      PROVE  Good(n)
  <2>1. a[n] = Add(a[n - 1], o[n]) /\ Sound(o[n])
    BY <1>1
  <2> QED
    BY <1>3, <2>1, AddSound
<1>4. Good(N)
  <2> DEFINE G == {n \in 0 .. N : Good(n)}
  <2> HIDE DEF Good
  <2>1. 0 \in G
    BY <1>2
  <2>2. \A n \in 1 .. N : n - 1 \in G => n \in G
    BY <1>3
  <2>3. N \in G
    BY <2>1, <2>2, UpTo
  <2> QED
    BY <2>3
<1> DEFINE g == Grouped(o)
<1>5. IsFiniteSet(DOMAIN g) /\ \A k \in DOMAIN g : Sound(g[k])
  BY <1>1, <1>4 DEF Holds
<1> HIDE DEF g
<1>6. Range(g) = {g[k] : k \in DOMAIN g}
  BY DEF Range
<1>7. IsFiniteSet({g[k] : k \in DOMAIN g})
  <2> DEFINE h == [k \in DOMAIN g |-> g[k]]
             S == {g[k] : k \in DOMAIN g}
  <2>1. h \in Surjection(DOMAIN g, S)
    BY DEF Surjection
  <2> HIDE DEF h, S
  <2> QED
    BY <1>5, <2>1, FS_Surjection DEF S
<1> QED
  BY <1>5, <1>6, <1>7 DEF g

LEMMA CollapsedSound ==
    ASSUME NEW N \in Nat, NEW o, DOMAIN o = 1 .. N, \A n \in 1 .. N : Sound(o[n])
    PROVE  \A r \in Range(Collapsed(o)) : Sound(r)
<1>1. PICK a : /\ a[0] = <<>>
               /\ \A n \in 1 .. N : a[n] = Join(a[n - 1], o[n])
               /\ Collapsed(o) = a[N]
  BY CollapsedSteps
<1> DEFINE Good(n) == a[n] \in Seq(Record) /\ \A i \in 1 .. Len(a[n]) : Sound(a[n][i])
<1>2. Good(0)
  BY <1>1
<1>3. ASSUME NEW n \in 1 .. N, Good(n - 1)
      PROVE  Good(n)
  <2> DEFINE rows == a[n - 1]
             r == o[n]
             at == Place(rows, r)
             m == Merge(rows[at], r)
  <2>1. a[n] = Join(rows, r) /\ Sound(r) /\ r \in Record /\ rows \in Seq(Record)
    BY <1>1, <1>3 DEF Sound
  <2>2. \A i \in 1 .. Len(rows) : Sound(rows[i])
    BY <1>3
  <2> HIDE DEF rows, r, at
  <2>3. CASE a[n] = Append(rows, r)
    BY <2>1, <2>2, <2>3, AppendProperties
  <2>4. CASE /\ at \in 1 .. Len(rows) /\ a[n] = [rows EXCEPT ![at] = m]
             /\ SameIdentity(rows[at], r)
    <3>1. Sound(rows[at])
      BY <2>2, <2>4
    <3>2. rows[at].kind = r.kind /\ Bridged(rows[at].units, r.units)
      BY <2>1, <2>4, <3>1, SameBridges
    <3>3. Sound(m)
      BY <2>1, <3>1, <3>2, MergeSound
    <3>4. m \in Record
      BY <3>3 DEF Sound
    <3> HIDE DEF m
    <3> QED
      BY <2>1, <2>2, <2>4, <3>3, <3>4
  <2> QED
    BY <2>1, <2>3, <2>4, JoinFacts DEF at
<1>4. Good(N)
  <2> DEFINE G == {n \in 0 .. N : Good(n)}
  <2> HIDE DEF Good
  <2>1. 0 \in G
    BY <1>2
  <2>2. \A n \in 1 .. N : n - 1 \in G => n \in G
    BY <1>3
  <2>3. N \in G
    BY <2>1, <2>2, UpTo
  <2> QED
    BY <2>3
<1> DEFINE c == Collapsed(o)
<1>5. c \in Seq(Record) /\ \A i \in 1 .. Len(c) : Sound(c[i])
  BY <1>1, <1>4
<1> HIDE DEF c
<1> QED
  BY <1>5 DEF Range, c

\* The records are sound, and filed under what they tell.
SoundlyFiled(m) == \A i \in DOMAIN m : m[i].id = i /\ Sound(m[i]) /\ Claims(i, m[i])
MInv == TypeOK /\ Dwells /\ SoundlyFiled(metadata)

LEMMA ListingsSound ==
    ASSUME MInv, NEW rows \in Listings, NEW r \in rows
    PROVE  Sound(r)
<1>1. \A s \in Records : Sound(s)
  BY DEF MInv, SoundlyFiled, Records
<1>2. PICK o \in SetToSeqs(Records) :
        \E p \in SetToSeqs(BestAtAddress(Range(Grouped(o)))) : rows = Range(Collapsed(p))
  BY DEF Listings
<1> DEFINE N == Cardinality(Records)
           best == BestAtAddress(Range(Grouped(o)))
           P == Cardinality(best)
<1>8. PICK p \in SetToSeqs(best) : rows = Range(Collapsed(p))
  BY <1>2
<1>3. N \in Nat /\ DOMAIN o = 1 .. N /\ o \in [1 .. N -> Records]
  BY RecordsFinite, OrderFacts DEF MInv
<1> HIDE DEF N
<1>4. IsFiniteSet(Range(Grouped(o))) /\ \A s \in Range(Grouped(o)) : Sound(s)
  BY <1>1, <1>3, GroupedSound
<1>5. best \subseteq Range(Grouped(o))
  BY DEF BestAtAddress
<1> HIDE DEF best
<1>6. IsFiniteSet(best) /\ \A s \in best : Sound(s)
  BY <1>4, <1>5, FS_Subset
<1>7. P \in Nat /\ DOMAIN p = 1 .. P /\ p \in [1 .. P -> best]
  BY <1>6, <1>8, OrderFacts
<1> HIDE DEF P
<1> QED
  BY <1>6, <1>7, <1>8, CollapsedSound

LEMMA OnlyTheMet == MInv => RowsMixOnlyMet
<1>1. SUFFICES ASSUME MInv, NEW rows \in Listings, NEW r \in rows,
                      NEW part \in (SUBSET r.units) \ {{}, r.units}
               PROVE  \E u \in part, v \in r.units \ part : Met(u, v)
  BY DEF RowsMixOnlyMet
<1> QED
  BY <1>1, ListingsSound DEF Sound, Linked

LEMMA ItemSound ==
    ASSUME MInv, NEW u \in Unit, NEW item \in Reports(u)
    PROVE  Sound(item) /\ Claims(item.id, item)
<1>1. /\ About(item, u) /\ item \in Record /\ item.units = {u} /\ item.ip = lease[u] /\ item.name = called[u]
      /\ \/ FullOf(item, u) /\ item.id = <<"samsung", u>>
         \/ PlainOf(item, u) /\ item.id = <<"mdns", called[u]>> /\ ~IsSamsung(item)
         \/ ComputerOf(item, u) /\ item.id = <<"windows", lease[u]>> /\ ~IsSamsung(item)
  BY ItemFacts DEF MInv
<1>2. Linked({u})
  <2>1. (SUBSET {u}) \ {{}, {u}} = {}
    OBVIOUS
  <2> QED
    BY <2>1 DEF Linked
<1>3. item.ip \in held[u] /\ lease[u] \in held[u]
  BY <1>1 DEF About, MInv, Dwells
<1>4. Samsung \cap Windows = {} /\ None \notin Unit
  BY InventoryAssumption
<1>5. CASE FullOf(item, u) /\ item.id = <<"samsung", u>>
  BY <1>1, <1>2, <1>3, <1>4, <1>5 DEF FullOf, Sound, Claims
<1>6. CASE PlainOf(item, u) /\ item.id = <<"mdns", called[u]>> /\ ~IsSamsung(item)
  BY <1>1, <1>2, <1>3, <1>4, <1>6 DEF PlainOf, Sound, Claims
<1>7. CASE ComputerOf(item, u) /\ item.id = <<"windows", lease[u]>> /\ ~IsSamsung(item)
  BY <1>1, <1>2, <1>3, <1>4, <1>7 DEF ComputerOf, Sound, Claims
<1> QED
  BY <1>1, <1>5, <1>6, <1>7

\* What a step may change in a record without harm.
Agreeing(s, r) ==
    /\ s.kind = r.kind /\ s.maker = r.maker /\ s.duid = r.duid /\ s.mac = r.mac /\ s.name = r.name
    /\ s.ip = r.ip /\ s.units = r.units

LEMMA AgreeingSound ==
    ASSUME NEW i, NEW r, NEW s \in Record, Agreeing(s, r)
    PROVE  (Sound(r) => Sound(s)) /\ (Claims(i, r) => Claims(i, s))
BY DEF Agreeing, Sound, Claims, IsSamsung

LEMMA RegisteredSound ==
    ASSUME MInv, NEW x, Sound(x), x.id \notin DOMAIN metadata => Claims(x.id, x),
           x.id \in DOMAIN metadata =>
               x.kind = metadata[x.id].kind /\ Bridged(x.units, metadata[x.id].units),
           NEW q, q = Registered(x)
    PROVE  q.id = x.id /\ Sound(q) /\ Claims(q.id, q)
<1> DEFINE known == x.id \in DOMAIN metadata
           old == metadata[x.id]
           paired == x.paired \/ (\E i \in DOMAIN metadata \ {x.id} :
                                     metadata[i].paired /\ SameIdentity(metadata[i], x)) \/ (known /\ old.paired)
           alias == IF known THEN First(x.alias, old.alias) ELSE x.alias
           units == IF known THEN x.units \cup old.units ELSE x.units
<1>1. q = [x EXCEPT !.paired = paired, !.alias = alias, !.units = units]
  BY Zenon DEF Registered
<1>2. x \in Record
  BY DEF Sound
<1>3. known => old \in Record /\ Sound(old) /\ Claims(x.id, old)
  BY DEF MInv, SoundlyFiled, Sound
<1>4. alias \in Alias \cup {None}
  BY <1>2, <1>3 DEF Record, First
<1>5. units \in SUBSET Unit /\ x.units \subseteq units /\ (known => old.units \subseteq units)
  BY <1>2, <1>3 DEF Record
<1>6. paired \in BOOLEAN
  BY <1>2, <1>3 DEF Record
<1>7. Linked(units)
  BY <1>3, LinkedUnion DEF Sound
<1>8. \A u \in units : u \in Windows <=> x.kind = "computer"
  BY <1>3 DEF Sound
<1>9. known => Claims(x.id, old) /\ x.kind = old.kind /\ old.units \subseteq units
  BY <1>3, <1>5
<1>10. ~known => Claims(x.id, x) /\ x.units \subseteq units
  BY <1>5
<1> HIDE DEF paired, alias, units
<1>11. q \in Record
  BY <1>1, <1>2, <1>4, <1>5, <1>6 DEF Record
<1>12. /\ q.id = x.id /\ q.kind = x.kind /\ q.maker = x.maker /\ q.duid = x.duid /\ q.mac = x.mac
       /\ q.name = x.name /\ q.ip = x.ip /\ q.units = units
  BY <1>1, <1>2 DEF Record
<1>13. Sound(q)
  BY <1>5, <1>7, <1>8, <1>11, <1>12 DEF Sound, IsSamsung
<1>14. Claims(q.id, q)
  BY <1>9, <1>10, <1>12 DEF Claims
<1> QED
  BY <1>12, <1>13, <1>14

LEMMA ReconciledSound ==
    ASSUME NEW item, NEW c, Sound(item), Sound(c), c.kind = item.kind,
           Bridged(c.units, item.units), NEW x, x = Reconciled(item, c)
    PROVE  Sound(x) /\ x.id = c.id /\ x.kind = c.kind /\ Bridged(x.units, c.units)
<1>1. item \in Record /\ c \in Record
  BY DEF Sound
<1>2. Bridged(item.units, c.units)
  <2>1. PICK u \in c.units, v \in item.units : u = v \/ Met(u, v)
    BY DEF Bridged
  <2>2. u = v \/ Met(v, u)
    BY <2>1 DEF Met
  <2> QED
    BY <2>2 DEF Bridged
<1>3. CASE IsSamsung(item)
  <2>1. x = [item EXCEPT !.id = c.id, !.paired = c.paired, !.alias = c.alias]
    BY <1>3 DEF Reconciled
  <2>2. c.id \in Id /\ c.paired \in BOOLEAN /\ c.alias \in Alias \cup {None}
    BY <1>1 DEF Record
  <2>3. x \in Record
    BY <1>1, <2>1, <2>2 DEF Record
  <2>4. x.id = c.id /\ Agreeing(x, item)
    BY <1>1, <2>1 DEF Record, Agreeing
  <2> QED
    BY <1>2, <2>3, <2>4, AgreeingSound DEF Agreeing
<1>4. CASE ~IsSamsung(item)
  <2> DEFINE m == Merge(c, item)
             maker == First(c.maker, item.maker)
             name == First(c.name, item.name)
             yes == TRUE
  <2>1. x = [m EXCEPT !.id = c.id, !.ip = item.ip, !.online = yes, !.kind = c.kind, !.maker = maker,
                      !.name = name, !.seen = item.seen]
    BY <1>4, Zenon DEF Reconciled
  <2>2. Sound(m) /\ m.kind = c.kind /\ m.units = c.units \cup item.units
    BY MergeSound
  <2>3. m.duid = First(Identity(c, item).duid, First(c.duid, item.duid))
    BY <1>1, MergeFields
  <2>4. c.duid # None => m.duid # None
    BY <2>3 DEF First
  <2>5. maker \in {c.maker, item.maker} /\ name \in {c.name, item.name}
    BY DEF First
  <2>6. maker = "samsung" => c.maker = "samsung"
    BY <1>4, <2>5 DEF IsSamsung
  <2>7. /\ c.id \in Id /\ item.ip \in Address /\ yes \in BOOLEAN /\ c.kind \in {"tv", "computer"}
        /\ item.seen \in Nat
    BY <1>1 DEF Record
  <2>8. maker \in {"samsung", "other", None} /\ name \in Name \cup {None} /\ m \in Record
    BY <1>1, <2>2, <2>5 DEF Record, Sound
  <2> HIDE DEF m, maker, name, yes
  <2>9. x \in Record
    BY <2>1, <2>7, <2>8 DEF Record
  <2>10. /\ x.id = c.id /\ x.ip = item.ip /\ x.kind = c.kind /\ x.maker = maker
         /\ x.name = name /\ x.duid = m.duid /\ x.mac = m.mac /\ x.units = c.units \cup item.units
    BY <2>1, <2>2, <2>8 DEF Record
  <2>11. Sound(x)
    <3>1. \E u \in x.units : x.ip \in held[u]
      BY <2>10 DEF Sound
    <3>2. x.name # None => \E u \in x.units : x.name \in borne[u]
      BY <2>5, <2>10 DEF Sound
    <3>3. IsSamsung(x) => x.duid # None
      BY <2>4, <2>6, <2>10 DEF Sound, IsSamsung
    <3> QED
      BY <2>2, <2>9, <2>10, <3>1, <3>2, <3>3 DEF Sound
  <2>12. Bridged(x.units, c.units)
    BY <1>2, <2>10, Widened
  <2> QED
    BY <2>10, <2>11, <2>12
<1> QED
  BY <1>3, <1>4

\* A step that changes what the records show of the moment.
LEMMA MarkingSound ==
    ASSUME MInv, UNCHANGED home, UNCHANGED clock, scanning' \in BOOLEAN, seen' \subseteq Id,
           settled' \subseteq Unit, blurred' \subseteq Unit, given' \in [Unit -> Alias \cup {None}],
           NEW m, m = metadata', m = [i \in DOMAIN metadata |-> m[i]],
           \A i \in DOMAIN metadata : m[i] \in Record /\ m[i].id = metadata[i].id /\ Agreeing(m[i], metadata[i])
    PROVE  MInv'
<1>1. DOMAIN m = DOMAIN metadata /\ m \in [DOMAIN m -> Record]
  OBVIOUS
<1>2. lease' = lease /\ called' = called /\ held' = held /\ borne' = borne /\ changes' = changes /\ ambiguous' = ambiguous
  BY DEF home
<1>3. TypeOK'
  BY <1>1, <1>2 DEF MInv, TypeOK
<1>4. SoundlyFiled(m)
  BY <1>1, AgreeingSound DEF MInv, SoundlyFiled
<1>5. SoundlyFiled(m) => SoundlyFiled(metadata)'
  BY <1>2 DEF SoundlyFiled, Sound, Claims, Linked, Met
<1>6. Dwells'
  BY <1>2 DEF MInv, Dwells
<1> QED
  BY <1>3, <1>4, <1>5, <1>6 DEF MInv

LEMMA MarkingSteps ==
    ASSUME MInv,
           \/ Begin \/ Finish
           \/ \E i \in DOMAIN metadata : Pair(i) \/ \E a \in Alias : Rename(i, a)
           \/ UNCHANGED vars
    PROVE  MInv'
<1>1. \A i \in DOMAIN metadata : metadata[i] \in Record
  BY DEF MInv, TypeOK
<1>2. /\ scanning \in BOOLEAN /\ seen \subseteq Id /\ settled \subseteq Unit /\ blurred \subseteq Unit
      /\ given \in [Unit -> Alias \cup {None}] /\ metadata = [i \in DOMAIN metadata |-> metadata[i]]
  BY DEF MInv, TypeOK
<1>3. ASSUME NEW r \in Record
      PROVE  /\ [r EXCEPT !.online = FALSE] \in Record /\ Agreeing([r EXCEPT !.online = FALSE], r)
             /\ [r EXCEPT !.online = FALSE].id = r.id
             /\ [r EXCEPT !.paired = TRUE] \in Record /\ Agreeing([r EXCEPT !.paired = TRUE], r)
             /\ [r EXCEPT !.paired = TRUE].id = r.id
             /\ Agreeing(r, r)
  BY <1>3, MarkFacts DEF Alike, Agreeing
<1>4. CASE Begin \/ UNCHANGED vars
  <2>1. metadata' = metadata /\ UNCHANGED home /\ UNCHANGED <<clock, settled, blurred, given, seen>> /\ scanning' \in BOOLEAN
    BY <1>2, <1>4 DEF Begin, vars, home
  <2> QED
    BY <1>1, <1>2, <1>3, <2>1, MarkingSound
<1>5. CASE Finish
  <2> DEFINE m == [i \in DOMAIN metadata |->
                     IF i \in seen THEN metadata[i] ELSE [metadata[i] EXCEPT !.online = FALSE]]
  <2>1. /\ m = metadata' /\ UNCHANGED home /\ UNCHANGED <<settled, given, blurred, clock>>
        /\ scanning' = FALSE /\ seen' = {}
    BY <1>5 DEF Finish
  <2>2. m = [i \in DOMAIN metadata |-> m[i]]
    OBVIOUS
  <2>3. \A i \in DOMAIN metadata : m[i] = metadata[i] \/ m[i] = [metadata[i] EXCEPT !.online = FALSE]
    OBVIOUS
  <2> HIDE DEF m
  <2>4. \A i \in DOMAIN metadata : m[i] \in Record /\ m[i].id = metadata[i].id /\ Agreeing(m[i], metadata[i])
    BY <1>1, <1>3, <2>3
  <2> QED
    BY <1>2, <2>1, <2>2, <2>4, MarkingSound
<1>6. ASSUME NEW i \in DOMAIN metadata, Pair(i)
      PROVE  MInv'
  <2> DEFINE m == [j \in DOMAIN metadata |->
                     IF j = i \/ SameIdentity(metadata[j], metadata[i])
                     THEN [metadata[j] EXCEPT !.paired = TRUE] ELSE metadata[j]]
  <2>1. m = metadata' /\ UNCHANGED home /\ UNCHANGED <<settled, given, blurred, clock, scanning, seen>>
    BY <1>6 DEF Pair
  <2>2. m = [j \in DOMAIN metadata |-> m[j]]
    OBVIOUS
  <2>3. \A j \in DOMAIN metadata : m[j] = metadata[j] \/ m[j] = [metadata[j] EXCEPT !.paired = TRUE]
    OBVIOUS
  <2> HIDE DEF m
  <2>4. \A j \in DOMAIN metadata : m[j] \in Record /\ m[j].id = metadata[j].id /\ Agreeing(m[j], metadata[j])
    BY <1>1, <1>3, <2>3
  <2> QED
    BY <1>2, <2>1, <2>2, <2>4, MarkingSound
<1>7. ASSUME NEW i \in DOMAIN metadata, NEW a \in Alias, Rename(i, a)
      PROVE  MInv'
  <2> DEFINE old == metadata[i]
             new == [old EXCEPT !.alias = a]
             m == [metadata EXCEPT ![i] = new]
  <2>1. /\ m = metadata' /\ UNCHANGED home /\ UNCHANGED <<settled, clock, scanning, seen>>
        /\ given' = [u \in Unit |-> IF u \in old.units /\ Current(old, u) THEN a ELSE given[u]]
        /\ blurred' = blurred \cup (old.units \ settled)
    BY <1>7 DEF Rename
  <2>2. new \in Record /\ Agreeing(new, old) /\ new.id = old.id
    BY <1>1 DEF Record, Agreeing
  <2>3. given' \in [Unit -> Alias \cup {None}]
    BY <1>2, <2>1
  <2>4. blurred' \subseteq Unit
    BY <1>1, <1>2, <2>1 DEF Record
  <2> HIDE DEF new
  <2>5. m = [j \in DOMAIN metadata |-> m[j]] /\ \A j \in DOMAIN metadata : m[j] = IF j = i THEN new ELSE metadata[j]
    BY <1>2
  <2> HIDE DEF m
  <2>6. \A j \in DOMAIN metadata : m[j] \in Record /\ m[j].id = metadata[j].id /\ Agreeing(m[j], metadata[j])
    BY <1>1, <1>3, <2>2, <2>5
  <2> QED
    BY <1>2, <2>1, <2>3, <2>4, <2>5, <2>6, MarkingSound
<1> QED
  BY <1>4, <1>5, <1>6, <1>7

\* Devices that have met have met for ever.
LEMMA GrowingSound ==
    ASSUME MInv, TypeOK', Dwells', metadata' = metadata,
           \A u \in Unit : held[u] \subseteq held'[u] /\ borne[u] \subseteq borne'[u]
    PROVE  MInv'
<1>1. \A u, v \in Unit : Met(u, v) => Met(u, v)'
  BY DEF Met
<1>2. ASSUME NEW i \in DOMAIN metadata
      PROVE  metadata[i].id = i /\ Sound(metadata[i])' /\ Claims(i, metadata[i])'
  <2> DEFINE r == metadata[i]
  <2>1. r.id = i /\ Sound(r) /\ Claims(i, r) /\ r' = r
    BY DEF MInv, SoundlyFiled
  <2>2. r.units \subseteq Unit
    BY <2>1 DEF Sound, Record
  <2> HIDE DEF r
  <2>3. Linked(r.units)'
    BY <1>1, <2>1, <2>2 DEF Sound, Linked
  <2>4. Sound(r)'
    BY <2>1, <2>2, <2>3 DEF Sound, IsSamsung
  <2>5. Claims(i, r)'
    BY <2>1, <2>2 DEF Claims
  <2> QED
    BY <2>1, <2>4, <2>5 DEF r
<1> QED
  BY <1>2 DEF MInv, SoundlyFiled

LEMMA MovingSound ==
    ASSUME MInv, NEW u \in Unit,
           (\E a \in Address : Move(u, a)) \/ (\E n \in Name : Call(u, n))
    PROVE  MInv'
<1>1. ASSUME NEW a \in Address, Move(u, a)
      PROVE  MInv'
  <2>1. /\ metadata' = metadata /\ called' = called /\ borne' = borne
        /\ lease' = [lease EXCEPT ![u] = a] /\ held' = [held EXCEPT ![u] = held[u] \cup {a}]
    BY <1>1 DEF Move
  <2>2. TypeOK'
    BY <1>1, MoveType DEF MInv
  <2>3. /\ \A v \in Unit : held'[v] = IF v = u THEN held[u] \cup {a} ELSE held[v]
        /\ \A v \in Unit : lease'[v] = IF v = u THEN a ELSE lease[v]
    BY <2>1 DEF MInv, TypeOK
  <2>4. Dwells'
    BY <2>1, <2>3 DEF MInv, Dwells
  <2> QED
    BY <2>1, <2>2, <2>3, <2>4, GrowingSound
<1>2. ASSUME NEW n \in Name, Call(u, n)
      PROVE  MInv'
  <2>1. /\ metadata' = metadata /\ lease' = lease /\ held' = held /\ u \notin Windows
        /\ called' = [called EXCEPT ![u] = n] /\ borne' = [borne EXCEPT ![u] = borne[u] \cup {n}]
    BY <1>2 DEF Call
  <2>2. TypeOK'
    BY <1>2, CallType DEF MInv
  <2>3. /\ \A v \in Unit : borne'[v] = IF v = u THEN borne[u] \cup {n} ELSE borne[v]
        /\ \A v \in Unit : called'[v] = IF v = u THEN n ELSE called[v]
    BY <2>1 DEF MInv, TypeOK
  <2>4. Dwells'
    BY <2>1, <2>3 DEF MInv, Dwells
  <2> QED
    BY <2>1, <2>2, <2>3, <2>4, GrowingSound
<1> QED
  BY <1>1, <1>2

LEMMA FindingSound ==
    ASSUME MInv, NEW u \in Unit, Find(u)
    PROVE  MInv'
<1>1. PICK item \in Reports(u) :
        /\ \/ Matches(item) = {} /\ File(item)
           \/ \E c \in Candidates(item) : File(Reconciled(item, c))
        /\ settled' = IF Full(item, u) THEN settled \cup {u} ELSE settled
  BY DEF Find
<1>2. clock' = clock + 1 /\ UNCHANGED <<scanning, home, given, blurred>>
  BY DEF Find
<1>3. Sound(item) /\ Claims(item.id, item)
  BY ItemSound
<1>4. \A i \in DOMAIN metadata : metadata[i].id = i /\ Sound(metadata[i]) /\ Claims(i, metadata[i])
  BY DEF MInv, SoundlyFiled
<1>5. PICK x : /\ File(x) /\ Sound(x) /\ (x.id \notin DOMAIN metadata => Claims(x.id, x))
               /\ x.id \in DOMAIN metadata =>
                     x.kind = metadata[x.id].kind /\ Bridged(x.units, metadata[x.id].units)
  <2>1. CASE File(item)
    <3>1. item.id \in Id
      BY <1>3 DEF Sound, Record
    <3> QED
      BY <1>3, <1>4, <2>1, <3>1, ClaimsBridge
  <2>2. ASSUME NEW c \in Candidates(item), File(Reconciled(item, c))
        PROVE  \E x : /\ File(x) /\ Sound(x) /\ (x.id \notin DOMAIN metadata => Claims(x.id, x))
                      /\ x.id \in DOMAIN metadata =>
                            x.kind = metadata[x.id].kind /\ Bridged(x.units, metadata[x.id].units)
    <3>1. c \in Records /\ SameIdentity(c, item)
      BY <2>2, CandidateMatches DEF MInv, Matches
    <3>2. c.id \in DOMAIN metadata /\ metadata[c.id] = c /\ Sound(c)
      BY <1>4, <3>1 DEF Records
    <3>3. c.kind = item.kind /\ Bridged(c.units, item.units)
      BY <1>3, <3>1, <3>2, SameBridges
    <3> DEFINE x == Reconciled(item, c)
    <3>4. Sound(x) /\ x.id = c.id /\ x.kind = c.kind /\ Bridged(x.units, c.units)
      BY <1>3, <3>2, <3>3, ReconciledSound
    <3> HIDE DEF x
    <3>5. File(x)
      BY <2>2 DEF x
    <3> QED
      BY <3>2, <3>4, <3>5
  <2> QED
    BY <1>1, <2>1, <2>2
<1> DEFINE q == Registered(x)
<1>6. q.id = x.id /\ Sound(q) /\ Claims(q.id, q)
  BY <1>5, RegisteredSound
<1>7. metadata' = Put(metadata, x.id, q) /\ seen' = seen \cup {x.id}
  BY <1>5 DEF File
<1> HIDE DEF q
<1> DEFINE m == metadata'
<1>8. /\ DOMAIN m = DOMAIN metadata \cup {x.id} /\ m = [i \in DOMAIN m |-> m[i]]
      /\ \A i \in DOMAIN m : m[i] = IF i = x.id THEN q ELSE metadata[i]
  BY <1>7 DEF Put
<1>9. lease' = lease /\ called' = called /\ held' = held /\ borne' = borne /\ changes' = changes /\ ambiguous' = ambiguous
  BY <1>2 DEF home
<1>10. x.id \in Id
  BY <1>5 DEF Sound, Record
<1>11. TypeOK'
  <2>1. \A i \in DOMAIN m : m[i] \in Record
    BY <1>6, <1>8 DEF MInv, TypeOK, Sound
  <2>2. m \in [DOMAIN m -> Record]
    BY <1>8, <2>1
  <2>3. IsFiniteSet(DOMAIN m)
    BY <1>8, FS_AddElement DEF MInv, TypeOK
  <2>4. settled' \subseteq Unit /\ clock' \in Nat /\ seen' \subseteq Id
    BY <1>1, <1>2, <1>7, <1>10 DEF MInv, TypeOK
  <2> QED
    BY <1>2, <1>9, <2>2, <2>3, <2>4 DEF MInv, TypeOK
<1>12. \A i \in DOMAIN m : m[i].id = i /\ Sound(m[i]) /\ Claims(i, m[i])
  BY <1>4, <1>6, <1>8
<1> HIDE DEF m
<1>13. SoundlyFiled(metadata)'
  <2>1. m = metadata'
    BY DEF m
  <2> QED
    BY <1>9, <1>12, <2>1 DEF SoundlyFiled, Sound, Claims, Linked, Met
<1>14. Dwells'
  BY <1>9 DEF MInv, Dwells
<1> QED
  BY <1>11, <1>13, <1>14 DEF MInv

LEMMA BeginsSound ==
    ASSUME Init
    PROVE  MInv
<1>1. PICK names \in FirstNames : called = [u \in Unit |-> IF u \in Windows THEN None ELSE names[u]]
  BY DEF Init
<1>2. names \in [Samsung \cup Television -> Name]
  BY InventoryAssumption
<1>3. /\ held = [u \in Unit |-> {lease[u]}] /\ borne = [u \in Unit |-> {called[u]} \ {None}]
      /\ given = [u \in Unit |-> None] /\ lease \in [Unit -> Address] /\ ambiguous \in BOOLEAN
      /\ metadata = <<>> /\ scanning = FALSE /\ seen = {} /\ settled = {} /\ blurred = {} /\ clock = 0
      /\ changes = 0
  BY InventoryAssumption DEF Init
<1>4. DOMAIN metadata = {} /\ metadata \in [DOMAIN metadata -> Record] /\ IsFiniteSet(DOMAIN metadata)
  BY <1>3, FS_EmptySet
<1>5. called \in [Unit -> Name \cup {None}]
  BY <1>1, <1>2 DEF Unit
<1>6. borne \in [Unit -> SUBSET Name]
  BY <1>3, <1>5
<1>7. TypeOK
  <2>1. held \in [Unit -> SUBSET Address] /\ given \in [Unit -> Alias \cup {None}]
    BY <1>3
  <2> QED
    BY <1>3, <1>4, <1>5, <1>6, <2>1 DEF TypeOK
<1>8. Dwells
  <2>1. \A u \in Unit : u \notin Windows => called[u] # None /\ borne[u] = {called[u]}
    BY <1>1, <1>2, <1>3, InventoryAssumption DEF Unit
  <2> QED
    BY <1>1, <1>3, <2>1 DEF Dwells
<1> QED
  BY <1>4, <1>7, <1>8 DEF MInv, SoundlyFiled

-----------------------------------------------------------------------------
(* The theorems *)

\* Nothing makes things clear again.
LEMMA StaysAmbiguous ==
    ASSUME [Next]_vars, ambiguous
    PROVE  ambiguous'
<1>1. CASE UNCHANGED home
  BY <1>1 DEF home
<1>2. ASSUME NEW u, NEW x, Move(u, x) \/ Call(u, x)
      PROVE  ambiguous'
  BY <1>2 DEF Move, Call
<1>3. UNCHANGED home \/ \E u, x : Move(u, x) \/ Call(u, x)
  BY DEF Next, vars, Begin, Finish, Find, Pair, Rename
<1> QED
  BY <1>1, <1>2, <1>3

LEMMA Invariant == Spec => [](~ambiguous => IInv)
<1>1. (~ambiguous => IInv) /\ [Next]_vars => (~ambiguous => IInv)'
  <2>1. SUFFICES ASSUME ~ambiguous => IInv, [Next]_vars, ~ambiguous'
                 PROVE  IInv'
    OBVIOUS
  <2>0. IInv
    BY <2>1, StaysAmbiguous
  <2>2. CASE UNCHANGED vars
    <3>1. UNCHANGED <<metadata, home, settled, given, blurred, clock, scanning, seen>>
      BY <2>2 DEF vars, home
    <3>2. TypeOK'
      BY <2>0, <3>1 DEF IInv, TypeOK, home
    <3>3. Homes' /\ Filed' /\ Alone' /\ Later' /\ Told' /\ PairedByMain' /\ Aliased'
      BY <2>0, <3>1, SameHome DEF IInv, Filed, Alone, Later, Told, PairedByMain, Aliased
    <3> QED
      BY <3>2, <3>3 DEF IInv
  <2>3. CASE Next
    BY <2>0, <2>1, <2>3, BeginKeeps, FinishKeeps, FindKeeps, MoveKeeps, CallKeeps, PairKeeps, RenameKeeps
       DEF Next
  <2> QED
    BY <2>1, <2>2, <2>3
<1>2. Init => (~ambiguous => IInv)
  BY Begins
<1> QED
  BY <1>1, <1>2, PTL DEF Spec

LEMMA AlwaysSound == Spec => []MInv
<1>1. MInv /\ [Next]_vars => MInv'
  BY MarkingSteps, FindingSound, MovingSound DEF Next
<1>2. Init => MInv
  BY BeginsSound
<1> QED
  BY <1>1, <1>2, PTL DEF Spec

\* A row is about one device, or about TVs or computers linked by addresses and
\* names that they shared: however names and addresses are given, nothing but
\* that makes records of two devices one (sameDeviceIdentity, mergeMetadata,
\* metadataIdentityKey, reconcileDiscovery, register).
THEOREM InventoryMixesOnlyTheMet == Spec => []RowsMixOnlyMet
BY AlwaysSound, OnlyTheMet, PTL

\* A device that told who it is since it got its address and its name has one
\* row under either, whatever older records of it are left, as long as no
\* address and no name was another's or came back (reconcileDiscovery,
\* collapseMetadata, List).
THEOREM InventoryShowsOnce == Spec => []OneRowEach
<1>1. (~ambiguous => IInv) => OneRowEach
  BY OneOfEach DEF OneRowEach
<1> QED
  BY <1>1, Invariant, PTL

\* The row shows the name that the device was given last (Rename, register).
THEOREM InventoryKeepsNames == Spec => []NamesStay
<1>1. (~ambiguous => IInv) => NamesStay
  BY NamesAreKept DEF NamesStay
<1> QED
  BY <1>1, Invariant, PTL
=============================================================================
