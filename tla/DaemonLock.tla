----------------------------- MODULE DaemonLock -----------------------------
(***************************************************************************)
(* The daemon lock of internal/daemonlock/lock.go: a file in the state     *)
(* directory that holds the PID of the daemon using it.  Each system call  *)
(* of Acquire and Close is a step, so that two daemons that start, and one *)
(* that stops, interleave as processes do.                                 *)
(***************************************************************************)
EXTENDS Naturals

CONSTANTS
    Process,      \* incarnations of processes, each of which runs once
    Stranger,     \* those that are other programs of the machine
    PID,          \* process numbers
    Number,       \* those that each incarnation may get: [Process -> SUBSET PID]
    NoPID,        \* what readPID returns for a missing or empty file
    NoFile        \* there is no lock file

ASSUME LockAssumption ==
    /\ Stranger \subseteq Process
    /\ Number \in [Process -> SUBSET PID]
    /\ NoPID \notin PID
    /\ NoFile \notin Process

VARIABLES
    pid,        \* the number of each incarnation that has begun
    lockFile,   \* the incarnation that created the file of that name
    written,    \* whether its PID is in the file
    pc,         \* where each incarnation is
    attempt,    \* the attempt of Acquire it is in
    found,      \* the PID it read
    overlapped  \* history: a daemon was started while another was starting

vars == <<pid, lockFile, written, pc, attempt, found, overlapped>>

StartLabel == {"create", "write", "read", "check", "remove"}
RunLabel == {"running", "released"}
EndLabel == {"unborn", "refused", "stopped", "crashed"}

TypeOK ==
    /\ pid \in [Process -> PID \cup {NoPID}]
    /\ \A p \in Process : pid[p] = NoPID => pc[p] = "unborn"
    /\ lockFile \in Process \cup {NoFile}
    /\ written \in BOOLEAN
    /\ pc \in [Process -> StartLabel \cup RunLabel \cup EndLabel]
    /\ attempt \in [Process -> 0 .. 1]
    /\ found \in [Process -> PID \cup {NoPID}]
    /\ overlapped \in BOOLEAN

Daemon == Process \ Stranger
Alive == {p \in Process : pc[p] \notin EndLabel}
Starting == {p \in Process : pc[p] \in StartLabel}
Running == {p \in Daemon : pc[p] = "running"}

Goto(p, label) == pc' = [pc EXCEPT ![p] = label]

Init ==
    /\ pid = [p \in Process |-> NoPID]
    /\ lockFile = NoFile /\ written = FALSE
    /\ pc = [p \in Process |-> "unborn"]
    /\ attempt = [p \in Process |-> 0]
    /\ found = [p \in Process |-> NoPID]
    /\ overlapped = FALSE

\* The system gives a new process a number no living process has; one that
\* has ended may have had it.
Start(p) ==
    /\ pc[p] = "unborn"
    /\ \E n \in Number[p] \ {pid[q] : q \in Alive} : pid' = [pid EXCEPT ![p] = n]
    /\ IF p \in Stranger THEN Goto(p, "running") ELSE Goto(p, "create")
    /\ overlapped' = (overlapped \/ (p \in Daemon /\ Starting # {}))
    /\ UNCHANGED <<lockFile, written, attempt, found>>

\* OpenFile with O_EXCL creates the file, still empty, or finds one.
Create(p) ==
    /\ pc[p] = "create"
    /\ \/ /\ lockFile = NoFile
          /\ lockFile' = p /\ written' = FALSE
          /\ Goto(p, "write")
       \/ /\ lockFile # NoFile
          /\ Goto(p, "read")
          /\ UNCHANGED <<lockFile, written>>
    /\ UNCHANGED <<pid, attempt, found, overlapped>>

\* The PID goes to the file p opened, whatever the name stands for by now.
\* When that fails, the name is removed and p gives up.
Write(p) ==
    /\ pc[p] = "write"
    /\ \/ /\ written' = (written \/ lockFile = p)
          /\ Goto(p, "running")
          /\ UNCHANGED lockFile
       \/ /\ lockFile' = NoFile /\ written' = FALSE
          /\ Goto(p, "refused")
    /\ UNCHANGED <<pid, attempt, found, overlapped>>

\* Mutant: the line end Acquire writes is not trimmed, so no number parses.
MutRecorded(p) == NoPID

\* readPID: the number in the file, if there is one.
Recorded(p) ==
    IF lockFile # NoFile /\ written THEN pid[lockFile] ELSE NoPID

Read(p) ==
    /\ pc[p] = "read"
    /\ found' = [found EXCEPT ![p] = Recorded(p)]
    /\ Goto(p, "check")
    /\ UNCHANGED <<pid, lockFile, written, attempt, overlapped>>

\* Mutant: an unsuccessful look for the process counts as its absence.
MutInUse(p) == FALSE

\* processAlive: some process has the number, be it p itself.
InUse(p) == \E q \in Alive : pid[q] = found[p]

Check(p) ==
    /\ pc[p] = "check"
    /\ Goto(p, IF InUse(p) THEN "refused" ELSE "remove")
    /\ UNCHANGED <<pid, lockFile, written, attempt, found, overlapped>>

\* Mutant: one attempt only, which a stale file uses up.
MutLastAttempt(p) == TRUE

LastAttempt(p) == attempt[p] = 1

\* The name is removed, whichever file it stands for; a missing one is no
\* error.  After the second attempt p gives up.
Remove(p) ==
    /\ pc[p] = "remove"
    /\ lockFile' = NoFile /\ written' = FALSE
    /\ \/ /\ ~LastAttempt(p)
          /\ attempt' = [attempt EXCEPT ![p] = @ + 1]
          /\ Goto(p, "create")
       \/ /\ LastAttempt(p)
          /\ Goto(p, "refused")
          /\ UNCHANGED attempt
    /\ UNCHANGED <<pid, found, overlapped>>

\* Close removes the name; the process ends a little later.
Stop(p) ==
    /\ pc[p] = "running" /\ p \in Daemon
    /\ Goto(p, "released")
    /\ lockFile' = NoFile /\ written' = FALSE
    /\ UNCHANGED <<pid, attempt, found, overlapped>>

\* A daemon that released the lock ends; other programs just end.
End(p) ==
    /\ pc[p] = "released" \/ (pc[p] = "running" /\ p \in Stranger)
    /\ Goto(p, "stopped")
    /\ UNCHANGED <<pid, lockFile, written, attempt, found, overlapped>>

\* The process dies and leaves the file as it is.
Crash(p) ==
    /\ p \in Daemon /\ p \in Alive
    /\ Goto(p, "crashed")
    /\ UNCHANGED <<pid, lockFile, written, attempt, found, overlapped>>

Step(p) ==
    \/ Start(p) \/ Create(p) \/ Write(p) \/ Read(p) \/ Check(p) \/ Remove(p)
    \/ Stop(p) \/ End(p) \/ Crash(p)

Next == \E p \in Process : Step(p)

Spec == Init /\ [][Next]_vars

-----------------------------------------------------------------------------
(* Properties *)

\* Two daemons never run in one state directory (lock.go 1-3).
OneDaemon == \A p, q \in Running : p = q

LockKept == \A p \in Running : lockFile = p /\ written

\* A daemon that starts alone clears away what a dead one left and takes the
\* lock in the same start: it gives up only when it cannot write the file, or
\* when the number that another daemon recorded is that of a living process,
\* be it some other program or the new daemon itself (Acquire 25-50).
RestartTakesLock ==
    [][\A p \in Daemon : ~overlapped /\ pc[p] \in StartLabel /\ pc'[p] = "refused"
          => \/ pc[p] = "write"
             \/ \E d \in Daemon \ {p}, q \in Alive :
                   /\ found[p] = pid[d] /\ pc[d] \in {"running", "released", "stopped", "crashed"}
                   /\ pid[q] = pid[d]]_vars

\* As long as no two starts overlap, two daemons never run, whatever crashes,
\* stops and stale files come before (Acquire 25-49).
SequentialOneDaemon == ~overlapped => OneDaemon

\* Nor is the lock of a running daemon taken away: the file keeps its name
\* and its number until the daemon stops or dies (Acquire 42-46, Close).
SequentialLockKept == ~overlapped => LockKept

=============================================================================
