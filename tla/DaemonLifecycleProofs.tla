----------------------- MODULE DaemonLifecycleProofs -----------------------
(***************************************************************************)
(* First, what the daemon lock guarantees when starts do not overlap, for  *)
(* any number of processes and any reuse of their numbers: exclusion, and  *)
(* when a daemon may fail to take the lock.  Then, a daemon with its       *)
(* listeners, its service manager and the commands that start it keeps to  *)
(* the protocol of the lock, so that all of this holds of it, and of the   *)
(* store it opens.                                                         *)
(***************************************************************************)
EXTENDS DaemonLifecycle, TLAPS

LEMMA TypeInvariant == Spec => []TypeOK
<1>1. Init => TypeOK
  <2> SUFFICES ASSUME Init PROVE TypeOK
    OBVIOUS
  <2>1. attempt \in [Process -> 0 .. 1] /\ found \in [Process -> PID \cup {NoPID}]
    BY DEF Init
  <2>2. pc \in [Process -> StartLabel \cup RunLabel \cup EndLabel]
    BY DEF Init, EndLabel
  <2>3. pid \in [Process -> PID \cup {NoPID}]
    BY DEF Init
  <2>. QED
    BY <2>1, <2>2, <2>3 DEF Init, TypeOK
<1>2. TypeOK /\ [Next]_vars => TypeOK'
  <2> SUFFICES ASSUME TypeOK, [Next]_vars PROVE TypeOK'
    OBVIOUS
  <2>1. CASE UNCHANGED vars
    BY <2>1 DEF TypeOK, vars
  <2>2. ASSUME NEW p \in Process, Step(p) PROVE TypeOK'
    <3>0. CASE Start(p)
      <4>1. pid' \in [Process -> PID \cup {NoPID}] /\ pid'[p] # NoPID
            /\ \A q \in Process \ {p} : pid'[q] = pid[q]
        <5>1. PICK n \in Number[p] : pid' = [pid EXCEPT ![p] = n]
          BY <3>0 DEF Start
        <5>2. n \in PID /\ n # NoPID
          BY LockAssumption
        <5>. QED
          BY <5>1, <5>2 DEF TypeOK
      <4>. QED
        BY <3>0, <4>1 DEF TypeOK, Start, Goto, StartLabel, RunLabel
    <3>1. CASE Create(p) \/ Write(p)
      BY <3>1 DEF TypeOK, Create, Write, Goto, StartLabel, RunLabel, EndLabel
    <3>2. CASE Read(p)
      <4>1. Recorded(p) \in PID \cup {NoPID}
        BY LockAssumption DEF Recorded, TypeOK
      <4>. QED
        BY <3>2, <4>1 DEF TypeOK, Read, Goto, StartLabel
    <3>3. CASE Check(p)
      BY <3>3 DEF TypeOK, Check, Goto, StartLabel, EndLabel
    <3>4. CASE Remove(p)
      <4>1. attempt' \in [Process -> 0 .. 1]
        <5>1. CASE LastAttempt(p)
          BY <3>4, <5>1 DEF Remove, TypeOK
        <5>2. CASE ~LastAttempt(p)
          <6>1. attempt' = [attempt EXCEPT ![p] = attempt[p] + 1]
            BY <3>4, <5>2 DEF Remove
          <6>2. attempt[p] \in 0 .. 1 /\ attempt[p] # 1
            BY <5>2 DEF LastAttempt, TypeOK
          <6>3. attempt[p] + 1 \in 0 .. 1
            BY <6>2
          <6>. QED
            BY <6>1, <6>3 DEF TypeOK
        <5>. QED
          BY <5>1, <5>2
      <4>. QED
        BY <3>4, <4>1 DEF TypeOK, Remove, Goto, StartLabel, EndLabel
    <3>5. CASE Stop(p) \/ End(p) \/ Crash(p)
      BY <3>5 DEF TypeOK, Stop, End, Crash, Goto, Alive, RunLabel, EndLabel
    <3>. QED
      BY <2>2, <3>0, <3>1, <3>2, <3>3, <3>4, <3>5 DEF Step
  <2>. QED
    BY <2>1, <2>2 DEF Next
<1>. QED
  BY <1>1, <1>2, PTL DEF Spec

-----------------------------------------------------------------------------
(* Starts one at a time *)

\* The one daemon that starts knows of a running one: the lock it wrote, the
\* number it read; where it will remove or has created the file, none runs.
Exclusive ==
    /\ \A p, q \in Starting : p = q
    /\ LockKept
    /\ \A p \in Process : pc[p] = "write" => lockFile = p
    /\ \A p \in Process : pc[p] = "check" => \A r \in Running : found[p] = pid[r]
    /\ \A p \in Process : pc[p] = "remove" => Running = {}

LEMMA ExclusiveStep ==
    ASSUME TypeOK, Exclusive, NEW p \in Process, Step(p), ~overlapped'
    PROVE  Exclusive'
<1>1. CASE Start(p)
  <2>1. pc[p] = "unborn" /\ UNCHANGED <<lockFile, written, found>>
    BY <1>1 DEF Start
  <2>2. CASE p \in Stranger
    BY <1>1, <2>1, <2>2
       DEF Start, Goto, TypeOK, Exclusive, LockKept, Starting, Running, Daemon, StartLabel
  <2>3. CASE p \notin Stranger
    <3>1. Starting = {} /\ pc' = [pc EXCEPT ![p] = "create"]
      BY <1>1, <2>3 DEF Start, Goto, Daemon
    <3>. QED
      BY <2>1, <3>1
         DEF TypeOK, Exclusive, LockKept, Starting, Running, Daemon, StartLabel
  <2>. QED
    BY <2>2, <2>3
<1>2. CASE Create(p)
  <2>1. Running' = Running /\ Starting' = Starting
    BY <1>2 DEF Create, Goto, TypeOK, Running, Starting, Daemon, StartLabel
  <2>2. CASE lockFile = NoFile
    <3>1. Running = {}
      BY <2>2, LockAssumption DEF Exclusive, LockKept, Running, Daemon
    <3>. QED
      BY <1>2, <2>1, <2>2, <3>1, LockAssumption
         DEF Create, Goto, TypeOK, Exclusive, LockKept, Starting, StartLabel
  <2>3. CASE lockFile # NoFile
    BY <1>2, <2>1, <2>3, LockAssumption
       DEF Create, Goto, TypeOK, Exclusive, LockKept
  <2>. QED
    BY <2>2, <2>3
<1>3. CASE Write(p)
  <2>1. lockFile = p /\ p \in Starting
    BY <1>3 DEF Write, Exclusive, Starting, StartLabel
  <2>2. Running = {}
    BY <1>3, <2>1 DEF Write, Exclusive, LockKept, Running
  <2>3. Starting = {p} /\ Starting' = {}
    BY <1>3, <2>1 DEF Write, Goto, TypeOK, Exclusive, Starting, StartLabel
  <2>4. \A q \in Process : pc'[q] \notin StartLabel
    BY <2>3 DEF Starting
  <2>5. Running' \subseteq {p} /\ (Running' # {} => lockFile' = p /\ written')
    BY <1>3, <2>1, <2>2 DEF Write, Goto, TypeOK, Running, Daemon
  <2>. QED
    BY <2>3, <2>4, <2>5 DEF Exclusive, LockKept, StartLabel, Running
<1>4. CASE Read(p)
  <2>1. Running' = Running /\ Starting' = Starting
    BY <1>4 DEF Read, Goto, TypeOK, Running, Starting, Daemon, StartLabel
  <2>2. \A r \in Running : Recorded(p) = pid[r]
    BY LockAssumption DEF Exclusive, LockKept, Recorded, Running, Daemon
  <2>. QED
    BY <1>4, <2>1, <2>2 DEF Read, Goto, TypeOK, Exclusive, LockKept
<1>5. CASE Check(p)
  <2>1. Running' = Running /\ Starting' \subseteq Starting
    BY <1>5 DEF Check, Goto, TypeOK, Running, Starting, Daemon, StartLabel
  <2>2. ~InUse(p) => Running = {}
    BY <1>5 DEF Check, InUse, Exclusive, Running, Daemon, Alive, EndLabel
  <2>. QED
    BY <1>5, <2>1, <2>2 DEF Check, Goto, TypeOK, Exclusive, LockKept
<1>6. CASE Remove(p)
  <2>1. Running = {} /\ Running' = {} /\ Starting' \subseteq Starting
    BY <1>6 DEF Remove, Goto, TypeOK, Exclusive, Running, Starting, Daemon, StartLabel
  <2>2. p \in Starting
    BY <1>6 DEF Remove, Starting, StartLabel
  <2>3. \A q \in Process : pc'[q] # "write"
    BY <1>6, <2>2 DEF Remove, Goto, TypeOK, Exclusive, Starting, StartLabel
  <2>. QED
    BY <2>1, <2>3 DEF Exclusive, LockKept
<1>7. CASE Stop(p)
  <2>1. Running' = Running \ {p} /\ Starting' = Starting
    BY <1>7 DEF Stop, Goto, TypeOK, Running, Starting, Daemon, StartLabel
  <2>2. p \in Running /\ lockFile = p /\ Running' = {}
    BY <1>7, <2>1 DEF Stop, Exclusive, LockKept, Running
  <2>3. \A q \in Process : pc'[q] # "write"
    BY <1>7, <2>2 DEF Stop, Goto, TypeOK, Exclusive
  <2>. QED
    BY <1>7, <2>1, <2>2, <2>3 DEF Stop, Goto, TypeOK, Exclusive, LockKept
<1>8. CASE End(p)
  <2>1. Running' = Running /\ Starting' = Starting
    BY <1>8 DEF End, Goto, TypeOK, Running, Starting, Daemon, StartLabel
  <2>. QED
    BY <1>8, <2>1 DEF End, Goto, TypeOK, Exclusive, LockKept
<1>9. CASE Crash(p)
  <2>1. Running' = Running \ {p} /\ Starting' = Starting \ {p}
    BY <1>9 DEF Crash, Goto, TypeOK, Running, Starting, Daemon, StartLabel
  <2>. QED
    BY <1>9, <2>1 DEF Crash, Goto, TypeOK, Exclusive, LockKept
<1>. QED
  BY <1>1, <1>2, <1>3, <1>4, <1>5, <1>6, <1>7, <1>8, <1>9 DEF Step

LEMMA ExclusiveInvariant == Spec => [](~overlapped => Exclusive)
<1> DEFINE Inv == ~overlapped => Exclusive
<1>1. Init => Inv
  BY DEF Init, Exclusive, LockKept, Starting, Running, Daemon, StartLabel
<1>2. Inv /\ UNCHANGED vars => Inv'
  BY DEF Exclusive, LockKept, Starting, Running, vars
<1>3. ASSUME TypeOK, Inv, NEW p \in Process, Step(p) PROVE Inv'
  <2>1. overlapped => overlapped'
    BY <1>3 DEF Step, Start, Create, Write, Read, Check, Remove, Stop, End, Crash
  <2>. QED
    BY <1>3, <2>1, ExclusiveStep
<1>4. TypeOK /\ Inv /\ [Next]_vars => Inv'
  BY <1>2, <1>3 DEF Next
<1>. QED
  BY <1>1, <1>4, TypeInvariant, PTL DEF Spec

\* A second attempt finds no file.
Second ==
    \A p \in Process : LastAttempt(p) =>
        /\ pc[p] \notin {"unborn", "read", "check", "remove"}
        /\ pc[p] = "create" => lockFile = NoFile

LEMMA SecondStep ==
    ASSUME TypeOK, Exclusive, Second, NEW p \in Process, Step(p)
    PROVE  Second'
<1>1. ASSUME NEW q \in Process, q # p, LastAttempt(q)'
      PROVE  /\ pc'[q] \notin {"unborn", "read", "check", "remove"}
             /\ pc'[q] = "create" => lockFile' = NoFile
  <2>1. pc'[q] = pc[q] /\ LastAttempt(q)
    BY <1>1 DEF Step, Start, Create, Write, Read, Check, Remove, Stop, End, Crash, Goto,
                TypeOK, LastAttempt
  <2>2. CASE pc[q] = "create"
    <3>1. p \notin Starting
      BY <1>1, <2>2 DEF Exclusive, Starting, StartLabel
    <3>2. lockFile' \in {lockFile, NoFile}
      BY <3>1 DEF Step, Start, Create, Write, Read, Check, Remove, Stop, End, Crash,
                  Starting, StartLabel
    <3>. QED
      BY <2>1, <2>2, <3>2 DEF Second
  <2>3. CASE pc[q] # "create"
    BY <2>1, <2>3 DEF Second
  <2>. QED
    BY <2>2, <2>3
<1>2. ASSUME LastAttempt(p)'
      PROVE  /\ pc'[p] \notin {"unborn", "read", "check", "remove"}
             /\ pc'[p] = "create" => lockFile' = NoFile
  <2>1. CASE Remove(p)
    BY <2>1 DEF Remove, Goto, TypeOK
  <2>2. CASE ~Remove(p)
    <3>1. LastAttempt(p)
      BY <1>2, <2>2 DEF Step, Start, Create, Write, Read, Check, Stop, End, Crash,
                        LastAttempt
    <3>2. pc[p] \notin {"unborn", "read", "check", "remove"}
          /\ (pc[p] = "create" => lockFile = NoFile)
      BY <3>1 DEF Second
    <3>. QED
      BY <2>2, <3>2 DEF Step, Start, Create, Write, Read, Check, Stop, End, Crash, Goto,
                        TypeOK
  <2>. QED
    BY <2>1, <2>2
<1>. QED
  BY <1>1, <1>2 DEF Second

LEMMA SecondInvariant == Spec => [](~overlapped => Second)
<1> DEFINE Inv == ~overlapped => Second
<1>1. Init => Inv
  BY DEF Init, Second, LastAttempt
<1>2. Inv /\ UNCHANGED vars => Inv'
  BY DEF Second, LastAttempt, vars
<1>3. ASSUME TypeOK, ~overlapped => Exclusive, Inv, NEW p \in Process, Step(p) PROVE Inv'
  <2>1. overlapped => overlapped'
    BY <1>3 DEF Step, Start, Create, Write, Read, Check, Remove, Stop, End, Crash
  <2>. QED
    BY <1>3, <2>1, SecondStep
<1>4. TypeOK /\ (~overlapped => Exclusive) /\ Inv /\ [Next]_vars => Inv'
  BY <1>2, <1>3 DEF Next
<1>. QED
  BY <1>1, <1>4, TypeInvariant, ExclusiveInvariant, PTL DEF Spec

\* As long as daemons start one at a time, two never run in one state
\* directory, whatever crashes, stops and other programs do.
THEOREM SequentialStartsExclude == Spec => []SequentialOneDaemon
<1>1. (~overlapped => Exclusive) => SequentialOneDaemon
  BY DEF Exclusive, LockKept, OneDaemon, SequentialOneDaemon
<1>. QED
  BY <1>1, ExclusiveInvariant, PTL

\* As long as daemons start one at a time, the lock of a running daemon stays
\* in place until it stops.
THEOREM SequentialStartsKeepLock == Spec => []SequentialLockKept
<1>1. (~overlapped => Exclusive) => SequentialLockKept
  BY DEF Exclusive, SequentialLockKept
<1>. QED
  BY <1>1, ExclusiveInvariant, PTL

-----------------------------------------------------------------------------
(* What a lock file holds, whatever starts overlap *)

Ran == {d \in Daemon : pc[d] \in {"running", "released", "stopped", "crashed"}}

\* A file with a number is that of a daemon that runs or crashed, and a number
\* that was read is that of another one.
Foreign ==
    /\ lockFile \in Daemon \cup {NoFile}
    /\ lockFile # NoFile => pc[lockFile] \in {"write", "running", "crashed"}
    /\ lockFile # NoFile /\ written => pc[lockFile] \in {"running", "crashed"}
    /\ \A p \in Process : pc[p] = "check" =>
          found[p] = NoPID \/ \E d \in Ran \ {p} : found[p] = pid[d]
    /\ \A p \in Process : pc[p] \in StartLabel => p \in Daemon

LEMMA ForeignStep ==
    ASSUME TypeOK, Foreign, NEW p \in Process, Step(p)
    PROVE  Foreign'
<1> USE DEF StartLabel, Daemon
<1>1. /\ p \notin Ran \/ Stop(p) \/ End(p) \/ Crash(p)
      /\ Ran \subseteq Ran' /\ \A d \in Ran : pid'[d] = pid[d]
  BY DEF Step, Start, Create, Write, Read, Check, Remove, Stop, End, Crash, Goto, TypeOK,
         Ran, Alive, EndLabel
<1>2. CASE Start(p)
  BY <1>1, <1>2, LockAssumption DEF Start, Goto, TypeOK, Foreign
<1>3. CASE Create(p)
  BY <1>1, <1>3, LockAssumption DEF Create, Goto, TypeOK, Foreign
<1>4. CASE Write(p)
  BY <1>1, <1>4, LockAssumption DEF Write, Goto, TypeOK, Foreign
<1>5. CASE Read(p)
  <2>1. Recorded(p) = NoPID \/ \E d \in Ran \ {p} : Recorded(p) = pid[d]
    BY <1>5 DEF Read, Recorded, Foreign, Ran
  <2>2. /\ found' = [found EXCEPT ![p] = Recorded(p)]
        /\ pc' = [pc EXCEPT ![p] = "check"] /\ pc[p] = "read"
        /\ UNCHANGED <<lockFile, written>>
    BY <1>5 DEF Read, Goto
  <2>3. \A q \in Process : pc'[q] = "check" =>
           found'[q] = NoPID \/ \E d \in Ran' \ {q} : found'[q] = pid'[d]
    BY <1>1, <2>1, <2>2 DEF TypeOK, Foreign
  <2>. QED
    BY <2>2, <2>3, LockAssumption DEF TypeOK, Foreign
<1>6. CASE Check(p)
  BY <1>1, <1>6, LockAssumption DEF Check, Goto, TypeOK, Foreign
<1>7. CASE Remove(p)
  BY <1>1, <1>7, LockAssumption DEF Remove, Goto, TypeOK, Foreign
<1>8. CASE Stop(p)
  BY <1>1, <1>8, LockAssumption DEF Stop, Goto, TypeOK, Foreign
<1>9. CASE End(p) \/ Crash(p)
  BY <1>1, <1>9, LockAssumption DEF End, Crash, Goto, TypeOK, Foreign, Alive, EndLabel
<1>. QED
  BY <1>2, <1>3, <1>4, <1>5, <1>6, <1>7, <1>8, <1>9 DEF Step

LEMMA ForeignInvariant == Spec => []Foreign
<1>1. Init => Foreign
  BY LockAssumption DEF Init, Foreign, StartLabel
<1>2. Foreign /\ UNCHANGED vars => Foreign'
  BY DEF Foreign, Ran, vars
<1>3. TypeOK /\ Foreign /\ [Next]_vars => Foreign'
  BY <1>2, ForeignStep DEF Next
<1>. QED
  BY <1>1, <1>3, TypeInvariant, PTL DEF Spec

\* A daemon that starts alone takes the lock unless it cannot write the file,
\* or a living process has the number another daemon left in it: whatever
\* crashed before, and however numbers are given again.
THEOREM RestartNeedsNoCleanup == Spec => RestartTakesLock
<1> DEFINE Took == \A p \in Daemon : ~overlapped /\ pc[p] \in StartLabel /\ pc'[p] = "refused"
          => \/ pc[p] = "write"
             \/ \E d \in Daemon \ {p}, q \in Alive :
                   /\ found[p] = pid[d] /\ pc[d] \in {"running", "released", "stopped", "crashed"}
                   /\ pid[q] = pid[d]
<1>1. ASSUME TypeOK, Foreign, ~overlapped => Second, NEW q \in Process, Step(q),
             NEW p \in Daemon, ~overlapped, pc[p] \in StartLabel, pc'[p] = "refused",
             pc[p] # "write"
      PROVE  \E d \in Daemon \ {p}, r \in Alive :
                /\ found[p] = pid[d] /\ pc[d] \in {"running", "released", "stopped", "crashed"}
                /\ pid[r] = pid[d]
  <2>1. p \in Process
    BY DEF Daemon
  <2>2. Check(p) \/ (Remove(p) /\ LastAttempt(p))
    BY <1>1, <2>1 DEF Step, Start, Create, Write, Read, Check, Remove, Stop, End, Crash, Goto,
                      TypeOK, StartLabel
  <2>3. ~(Remove(p) /\ LastAttempt(p))
    BY <1>1, <2>1 DEF Second, Remove
  <2>4. pc[p] = "check" /\ InUse(p)
    BY <1>1, <2>1, <2>2, <2>3 DEF Check, Goto, TypeOK
  <2>5. PICK r \in Alive : pid[r] = found[p]
    BY <2>4 DEF InUse
  <2>6. found[p] # NoPID
    <3>1. r \in Process /\ pc[r] # "unborn"
      BY DEF Alive, EndLabel
    <3>. QED
      BY <1>1, <2>5, <3>1 DEF TypeOK
  <2>7. PICK d \in Ran \ {p} : found[p] = pid[d]
    BY <1>1, <2>1, <2>4, <2>6 DEF Foreign
  <2>. QED
    BY <2>5, <2>7 DEF Ran
<1>2. TypeOK /\ Foreign /\ (~overlapped => Second) /\ [Next]_vars => [Took]_vars
  BY <1>1 DEF Next
<1>. QED
  BY <1>2, TypeInvariant, ForeignInvariant, SecondInvariant, PTL DEF Spec, RestartTakesLock

-----------------------------------------------------------------------------
(* Daemons with listeners and supervisors *)

\* Nothing a daemon, the service manager or a command does touches the lock
\* but by the steps of DaemonLock.
THEOREM LifecycleKeepsProtocol == LifeSpec => Spec
<1>1. LifeInit => Init
  BY DEF LifeInit
<1>2. [LifeNext]_lifeVars => [Next]_vars
  <2> SUFFICES ASSUME [LifeNext]_lifeVars PROVE [Next]_vars
    OBVIOUS
  <2>1. CASE UNCHANGED lifeVars \/ Unload \/ Load
    BY <2>1 DEF lifeVars, Unload, Load
  <2>2. ASSUME NEW p \in Process, Living(p) PROVE [Next]_vars
    <3>1. CASE Locking(p) \/ Release(p) \/ Exit(p) \/ Die(p) \/ Supervise(p) \/ Spawn(p)
      <4>1. Step(p)
        BY <3>1 DEF Locking, Release, Exit, Die, Supervise, Spawn, Step
      <4>. QED
        BY <4>1 DEF Next
    <3>2. CASE Open(p) \/ Bind(p) \/ Interrupt(p) \/ Retry(p) \/ Heed(p) \/ CloseStore(p) \/ Tell(p)
      BY <3>2 DEF Open, Bind, Interrupt, Retry, Heed, CloseStore, Tell
    <3>. QED
      BY <2>2, <3>1, <3>2 DEF Living, Main
  <2>3. ASSUME NEW p \in Process, Other(p) PROVE [Next]_vars
    BY <2>3 DEF Other, Step, Next
  <2>. QED
    BY <2>1, <2>2, <2>3 DEF LifeNext
<1>. QED
  BY <1>1, <1>2, PTL DEF LifeSpec, Spec

LEMMA LifeTypeStep ==
    ASSUME LifeTypeOK, TypeOK', NEW p \in Process, Living(p)
    PROVE  LifeTypeOK'
<1> USE DEF LifeTypeOK, Stage
<1>1. CASE Locking(p)
  <2>1. pc[p] \in StartLabel
    BY <1>1 DEF Locking, Create, Write, Read, Check, Remove, StartLabel
  <2>2. UNCHANGED life /\ \A q \in Process \ {p} : pc'[q] = pc[q]
    BY <1>1 DEF Locking, Create, Write, Read, Check, Remove, Goto, TypeOK
  <2>. QED
    BY <2>1, <2>2 DEF life, StartLabel, Daemon
<1>2. CASE Supervise(p) \/ Spawn(p)
  <2>1. /\ pc[p] = "unborn" /\ \A q \in Process \ {p} : pc'[q] = pc[q]
        /\ UNCHANGED <<replaces, stage, told, failed>>
        /\ loaded' = loaded /\ installing' = installing
        /\ unit' = unit \/ (unit' = {p} /\ p \in Daemon)
    BY <1>2 DEF Supervise, Spawn, Start, Goto, TypeOK, life
  <2>. QED
    BY <2>1 DEF Daemon
<1>3. CASE Tell(p)
  BY <1>3 DEF Tell, Running, vars
<1>4. CASE /\ p \in Daemon
           /\ \/ Open(p) \/ Bind(p) \/ Interrupt(p) \/ Retry(p) \/ Heed(p)
              \/ CloseStore(p)
  <2>1. CASE Open(p)
    BY <1>4, <2>1 DEF Open, Move, vars
  <2>2. CASE Interrupt(p)
    BY <1>4, <2>2 DEF Interrupt, AfterError, Move, vars
  <2>3. CASE Bind(p) \/ Retry(p) \/ Heed(p) \/ CloseStore(p)
    BY <1>4, <2>3 DEF Bind, Retry, Heed, CloseStore, Move, vars
  <2>. QED
    BY <1>4, <2>1, <2>2, <2>3
<1>5. CASE Release(p) \/ Exit(p)
  <2>1. /\ UNCHANGED life /\ \A q \in Process \ {p} : pc'[q] = pc[q]
        /\ pc[p] # "running" \/ stage[p] = "closed" \/ p \notin Daemon
    BY <1>5, LockAssumption DEF Release, Exit, Done, Stop, End, Goto, TypeOK, Daemon
  <2>. QED
    BY <2>1 DEF life, Daemon
<1>6. CASE Die(p)
  BY <1>6 DEF Die, Crash, Move, Goto, TypeOK, Daemon
<1>. QED
  BY <1>1, <1>2, <1>3, <1>4, <1>5, <1>6 DEF Living, Main

\* The store is open only while the lock is held, in every process.
THEOREM StoreInsideLock == LifeSpec => []LifeTypeOK
<1>1. LifeInit => LifeTypeOK
  <2> SUFFICES ASSUME LifeInit PROVE LifeTypeOK
    OBVIOUS
  <2>1. TypeOK
    <3>1. attempt \in [Process -> 0 .. 1] /\ found \in [Process -> PID \cup {NoPID}]
      BY DEF LifeInit, Init
    <3>2. pc \in [Process -> StartLabel \cup RunLabel \cup EndLabel]
      BY DEF LifeInit, Init, EndLabel
    <3>3. pid \in [Process -> PID \cup {NoPID}]
      BY DEF LifeInit, Init
    <3>. QED
      BY <3>1, <3>2, <3>3 DEF LifeInit, Init, TypeOK
  <2>. QED
    BY <2>1 DEF LifeInit, LifeTypeOK, Stage
<1>2. LifeTypeOK /\ TypeOK' /\ [LifeNext]_lifeVars => LifeTypeOK'
  <2> SUFFICES ASSUME LifeTypeOK, TypeOK', [LifeNext]_lifeVars PROVE LifeTypeOK'
    OBVIOUS
  <2>1. CASE UNCHANGED lifeVars
    BY <2>1 DEF LifeTypeOK, lifeVars, life, vars
  <2>2. CASE Unload
    BY <2>2 DEF LifeTypeOK, Unload, vars
  <2>3. CASE Load
    BY <2>3 DEF LifeTypeOK, Load, vars
  <2>4. ASSUME NEW p \in Process, Other(p) PROVE LifeTypeOK'
    <3>1. p \notin Daemon /\ UNCHANGED life /\ \A q \in Process \ {p} : pc'[q] = pc[q]
      BY <2>4 DEF Other, Start, End, Goto, LifeTypeOK, TypeOK, Daemon
    <3>. QED
      BY <3>1 DEF LifeTypeOK, life, Daemon
  <2>. QED
    BY <2>1, <2>2, <2>3, <2>4, LifeTypeStep DEF LifeNext
<1>. QED
  BY <1>1, <1>2, LifecycleKeepsProtocol, TypeInvariant, PTL DEF LifeSpec

\* Two processes never have the store open, as long as no two starts overlap.
THEOREM StoreIsExclusive == LifeSpec => []StoreExclusive
<1>1. LifeTypeOK /\ SequentialOneDaemon => StoreExclusive
  BY DEF LifeTypeOK, SequentialOneDaemon, OneDaemon, StoreExclusive, Running, Daemon
<1>. QED
  BY <1>1, StoreInsideLock, LifecycleKeepsProtocol, SequentialStartsExclude, PTL

=============================================================================
