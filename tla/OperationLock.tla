---------------------------- MODULE OperationLock ----------------------------
(***************************************************************************)
(* withOperationLock (agent/src/state.ts): the file lock that serialises    *)
(* the wallet operations of concurrently started CLI commands. Each file     *)
(* system call is a step; a process can be killed between any two.           *)
(***************************************************************************)
EXTENDS FiniteSets

CONSTANTS
    Pids,      \* process ids; a dead process' id may be given to a new one
    Absent,    \* there is no lock file
    Empty,     \* the content of a lock file that is created but not written yet
    Overlap    \* whether a command may start while another is still acquiring the lock

VARIABLES
    lock,   \* the lock file: Absent, or the process that created it and its content
    at,     \* where each process is
    owner   \* the content of the lock file as each process last read it

lockVars == <<lock, at, owner>>

-----------------------------------------------------------------------------
Acquiring == {"open", "read", "check", "remove", "reopen"}
Owning    == {"write", "action", "release"}
Steps     == {"dead", "exit"} \cup Acquiring \cup Owning

Contents == Pids \cup {Empty}
LockFile == [creator : Pids, content : Contents]
ASSUME PidsAssumption == Empty \notin Pids /\ Absent \notin LockFile /\ Overlap \in BOOLEAN

processIsRunning(p) == at[p] # "dead"

\* What makes a lock file stale: it names a process that is gone. Mutants: a file that
\* names nobody is stale, too; whoever the file names is not looked up.
StaleIfEmpty(content) == content = Empty \/ ~processIsRunning(content)
StaleUnchecked(content) == content \in Pids
Stale(content) == content \in Pids /\ ~processIsRunning(content)

Owners == {p \in Pids : at[p] \in Owning}

Goto(p, step) == at' = [at EXCEPT ![p] = step]

LockInit ==
    /\ lock = Absent
    /\ at = [p \in Pids |-> "dead"]
    /\ owner = [p \in Pids |-> Empty]

-----------------------------------------------------------------------------
\* The user starts deposit, call or redeem.
Launch(p) ==
    /\ at[p] = "dead"
    /\ Overlap \/ \A q \in Pids : at[q] \notin Acquiring
    /\ Goto(p, "open")
    /\ owner' = [owner EXCEPT ![p] = Empty]
    /\ UNCHANGED lock

\* open(lockFile, 'wx'): creates the file or fails, in one system call.
Open(p) ==
    /\ at[p] = "open"
    /\ \/ /\ lock = Absent
          /\ lock' = [creator |-> p, content |-> Empty]
          /\ Goto(p, "write")
       \/ /\ lock # Absent
          /\ Goto(p, "read")
          /\ UNCHANGED lock
    /\ UNCHANGED owner

\* readFile: the lock may have been removed since (ENOENT ends the command).
Read(p) ==
    /\ at[p] = "read"
    /\ \/ /\ lock = Absent
          /\ Goto(p, "exit")
          /\ UNCHANGED owner
       \/ /\ lock # Absent
          /\ Goto(p, "check")
          /\ owner' = [owner EXCEPT ![p] = lock.content]
    /\ UNCHANGED lock

\* Only a lock with the pid of a process that is gone is stale; on any other the
\* command ends with "Another m402 operation is active".
Check(p) ==
    /\ at[p] = "check"
    /\ IF Stale(owner[p])
       THEN Goto(p, "remove")
       ELSE Goto(p, "exit")
    /\ UNCHANGED <<lock, owner>>

\* rm(lockFile, { force: true }): by name, whoever created the file there now.
Remove(p) ==
    /\ at[p] = "remove"
    /\ lock' = Absent
    /\ Goto(p, "reopen")
    /\ UNCHANGED owner

Reopen(p) ==
    /\ at[p] = "reopen"
    /\ \/ /\ lock = Absent
          /\ lock' = [creator |-> p, content |-> Empty]
          /\ Goto(p, "write")
       \/ /\ lock # Absent
          /\ Goto(p, "exit")
          /\ UNCHANGED lock
    /\ UNCHANGED owner

\* handle.writeFile: into the file that was opened, even if another has its name now.
\* When the write fails, the finally block still releases.
Write(p) ==
    /\ at[p] = "write"
    /\ \/ /\ IF lock # Absent /\ lock.creator = p
             THEN lock' = [lock EXCEPT !.content = p]
             ELSE UNCHANGED lock
          /\ Goto(p, "action")
       \/ /\ Goto(p, "release")
          /\ UNCHANGED lock
    /\ UNCHANGED owner

\* The action returns or throws.
Finish(p) ==
    /\ at[p] = "action"
    /\ Goto(p, "release")
    /\ UNCHANGED <<lock, owner>>

Release(p) ==
    /\ at[p] = "release"
    /\ lock' = Absent
    /\ Goto(p, "exit")
    /\ UNCHANGED owner

Exit(p) ==
    /\ at[p] = "exit"
    /\ Goto(p, "dead")
    /\ UNCHANGED <<lock, owner>>

Die(p) ==
    /\ at[p] \in Acquiring \cup Owning
    /\ Goto(p, "dead")
    /\ UNCHANGED <<lock, owner>>

LockNext == \E p \in Pids :
    \/ Launch(p) \/ Open(p) \/ Read(p) \/ Check(p) \/ Remove(p) \/ Reopen(p)
    \/ Write(p) \/ Finish(p) \/ Release(p) \/ Exit(p) \/ Die(p)

LockSpec == LockInit /\ [][LockNext]_lockVars

-----------------------------------------------------------------------------
\* The lock file is written by the process that created it, with its own pid, and only
\* a process that read a pid goes on to remove it.
LockTypeOK ==
    /\ lock \in LockFile \cup {Absent}
    /\ at \in [Pids -> Steps]
    /\ owner \in [Pids -> Contents]
    /\ lock # Absent => lock.content \in {Empty, lock.creator}
    /\ \A p \in Pids : at[p] \in {"remove", "reopen"} => owner[p] \in Pids

\* At most one process is inside the lock: wallet operations run serially, also
\* after a crash has left a stale lock behind (agent/README.md: "A local lock
\* serializes wallet operations").
MutualExclusion == \A p, q \in Owners : p = q

\* The lock file is that of the process inside, and everybody who is past reading it
\* has read that process' pid, so nobody is about to remove it. This is what mutual
\* exclusion rests on.
LockProtected ==
    \A p \in Owners :
        /\ lock # Absent /\ lock.creator = p
        /\ \A q \in Pids :
               /\ at[q] \notin {"remove", "reopen"}
               /\ at[q] = "check" => owner[q] \in {p, Empty}
=============================================================================
