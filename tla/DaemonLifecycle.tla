-------------------------- MODULE DaemonLifecycle --------------------------
(***************************************************************************)
(* The life of a daemon process around the lock of DaemonLock: runDaemon   *)
(* and serveWithRecovery of cmd/local-device-bridge/main.go, the listener  *)
(* of internal/api/server.go, the service manager that internal/service    *)
(* registers the daemon with, and ensureDaemonReady of internal/cli/cli.go,*)
(* which repairs the service and starts a daemon of its own.               *)
(***************************************************************************)
EXTENDS DaemonLock

VARIABLES
    replaces,    \* whether installing the service ends the one that runs, as
                 \* with launchd; systemd leaves it alone
    stage,       \* where main is in each daemon
    told,        \* daemons that got a signal to end
    failed,      \* daemons whose main returned an error
    loaded,      \* whether the service manager knows the service
    unit,        \* the daemon it started last, as a set
    installing   \* a command is between ending and loading the service

life == <<replaces, stage, told, failed, loaded, unit, installing>>
lifeVars == <<vars, life>>

Stage == {"opening", "binding", "serving", "waiting", "closing", "closed"}

\* The last conjunct: the store is open only while the lock is held.
LifeTypeOK ==
    /\ TypeOK
    /\ {replaces, loaded, installing} \subseteq BOOLEAN
    /\ stage \in [Daemon -> Stage]
    /\ told \subseteq Daemon /\ failed \subseteq Daemon
    /\ unit \subseteq Daemon /\ \A p, q \in unit : p = q
    /\ \A p \in Daemon : stage[p] \notin {"opening", "closed"} => pc[p] = "running"

LifeInit ==
    /\ Init
    /\ replaces \in BOOLEAN
    /\ stage = [p \in Daemon |-> "opening"]
    /\ told = {} /\ failed = {} /\ unit = {}
    /\ loaded = FALSE /\ installing = FALSE

Move(p, s) == stage' = [stage EXCEPT ![p] = s]

-----------------------------------------------------------------------------
(* main of a daemon *)

Locking(p) ==
    /\ p \in Daemon
    /\ Create(p) \/ Write(p) \/ Read(p) \/ Check(p) \/ Remove(p)
    /\ UNCHANGED life

\* The store is opened, the manager loaded, the tokens fetched: the listener
\* is started, or main gives up.
Open(p) ==
    /\ pc[p] = "running" /\ stage[p] = "opening"
    /\ \/ Move(p, "binding") /\ UNCHANGED failed
       \/ Move(p, "closing") /\ failed' = failed \cup {p}
    /\ UNCHANGED <<vars, replaces, told, loaded, unit, installing>>

Bind(p) ==
    /\ stage[p] = "binding" /\ p \notin told
    /\ \A q \in Daemon : stage[q] # "serving"
    /\ Move(p, "serving")
    /\ UNCHANGED <<vars, replaces, told, failed, loaded, unit, installing>>

\* Mutant: the first error ends the daemon.
MutFatal(p) == "closing"

\* Mutant: the context is not looked at after an error.
MutDeaf(p) == "waiting"

AfterError(p) == IF p \in told THEN "closing" ELSE "waiting"

\* The listener fails: a daemon or another program holds its port, its
\* certificate cannot be read, or the system closed it.
Interrupt(p) ==
    /\ stage[p] \in {"binding", "serving"}
    /\ Move(p, AfterError(p))
    /\ failed' = IF AfterError(p) = "closing" THEN failed \cup {p} ELSE failed
    /\ UNCHANGED <<vars, replaces, told, loaded, unit, installing>>

\* The two seconds are over, with or without a signal at the same time.
Retry(p) ==
    /\ stage[p] = "waiting"
    /\ Move(p, "binding")
    /\ UNCHANGED <<vars, replaces, told, failed, loaded, unit, installing>>

\* A signal ends the wait, or the listener and then, within five seconds, the
\* requests in work; when those take longer, that is an error.
Heed(p) ==
    /\ p \in told /\ stage[p] \in {"waiting", "binding", "serving"}
    /\ Move(p, "closing")
    /\ \/ UNCHANGED failed
       \/ stage[p] = "serving" /\ failed' = failed \cup {p}
    /\ UNCHANGED <<vars, replaces, told, loaded, unit, installing>>

CloseStore(p) ==
    /\ stage[p] = "closing"
    /\ Move(p, "closed")
    /\ UNCHANGED <<vars, replaces, told, failed, loaded, unit, installing>>

\* Mutant: the lock goes before the store is closed.
MutDone(p) == stage[p] \in {"closing", "closed"}

Done(p) == stage[p] = "closed"

Release(p) == Done(p) /\ Stop(p) /\ UNCHANGED life

\* The process ends.
Exit(p) == p \in Daemon /\ End(p) /\ UNCHANGED life

Die(p) ==
    /\ Crash(p)
    /\ Move(p, "closed")
    /\ UNCHANGED <<replaces, told, failed, loaded, unit, installing>>

-----------------------------------------------------------------------------
(* The service manager, and signals *)

Ended(p) == pc[p] \in EndLabel \ {"unborn"}
Failed(p) == pc[p] \in {"refused", "crashed"} \/ p \in failed

\* The service is started when it is loaded, and again after a failure.
Supervise(p) ==
    /\ loaded /\ \A q \in unit : Ended(q) /\ Failed(q)
    /\ p \in Daemon /\ Start(p)
    /\ unit' = {p}
    /\ UNCHANGED <<replaces, stage, told, failed, loaded, installing>>

\* A signal: while the lock is taken it is only remembered, and once main ends
\* it changes nothing.
Tell(p) ==
    /\ p \in Running \ told /\ stage[p] \notin {"closing", "closed"}
    /\ told' = told \cup {p}
    /\ UNCHANGED <<vars, replaces, stage, failed, loaded, unit, installing>>

-----------------------------------------------------------------------------
(* ensureDaemonReady, and the commands that install the service *)

\* No health request was answered in time, be there a daemon or not: the
\* service is installed anew, which may end the running one before it is
\* loaded again.
Unload ==
    /\ ~installing /\ installing' = TRUE
    /\ told' = IF replaces THEN told \cup (unit \cap Alive) ELSE told
    /\ loaded' = (loaded /\ ~replaces)
    /\ UNCHANGED <<vars, replaces, stage, failed, unit>>

\* It is loaded and started, unless it runs; or that fails.
Load ==
    /\ installing /\ installing' = FALSE
    /\ \/ UNCHANGED <<loaded, unit>>
       \/ /\ loaded' = TRUE
          /\ unit' = IF replaces THEN {} ELSE {q \in unit : ~Ended(q)}
    /\ UNCHANGED <<vars, replaces, stage, told, failed>>

\* Still no answer: a daemon is started beside whatever runs.
Spawn(p) ==
    /\ ~installing
    /\ p \in Daemon /\ Start(p)
    /\ UNCHANGED life

-----------------------------------------------------------------------------
\* What main does of itself.
Main(p) ==
    \/ Locking(p)
    \/ p \in Daemon /\ ( \/ Open(p) \/ Retry(p) \/ Heed(p) \/ CloseStore(p)
                         \/ Release(p) \/ Exit(p))

Living(p) ==
    \/ Main(p) \/ Supervise(p) \/ Spawn(p) \/ Tell(p)
    \/ p \in Daemon /\ (Bind(p) \/ Interrupt(p) \/ Die(p))

\* Another program of the machine comes or goes.
Other(p) == p \in Stranger /\ (Start(p) \/ End(p)) /\ UNCHANGED life

LifeNext == (\E p \in Process : Living(p) \/ Other(p)) \/ Unload \/ Load

LifeSpec == LifeInit /\ [][LifeNext]_lifeVars

\* A daemon goes on, and of the attempts to listen one succeeds in the end: no
\* other program keeps the port for ever.
Fairness == \A p \in Daemon : WF_lifeVars(Main(p)) /\ SF_lifeVars(Bind(p))

FairSpec == LifeSpec /\ Fairness

-----------------------------------------------------------------------------
(* Properties *)

\* The store is open in one process at a time, as long as no two starts
\* overlap: not even a daemon that ends shares it with the next one, whoever
\* starts that (main.go 70-83, the order of the deferred calls).
StoreExclusive ==
    ~overlapped => \A p, q \in Daemon :
        {stage[p], stage[q]} \cap {"opening", "closed"} = {} => p = q

\* The dashboard's listener, interrupted or with its port in use, comes back
\* while the daemon runs, given that the port is free time and again
\* (serveWithRecovery 142-164).  The companion listener on the loopback
\* address (main.go 114-118) is started once and not covered.
ListenerReturns ==
    \A p \in Daemon :
        stage[p] = "binding" ~> \/ stage[p] = "serving" \/ p \in told
                                \/ pc[p] = "crashed" \/ overlapped

\* A daemon that is told to stop stops, wherever it is: while it takes the
\* lock, binds, waits to bind again or serves.
StopsWhenTold == \A p \in Daemon : p \in told ~> Ended(p)

=============================================================================
