----------------------------- MODULE StateLock ------------------------------
(***************************************************************************)
(* The importer's lock: daemon.lock in the state directory, a file created *)
(* exclusively that holds the identity of the process which created it.    *)
(* Every command that writes the state database holds it.  A process that  *)
(* finds the file judges it stale when it names no process that lives, and *)
(* removes it; whoever releases the lock removes whatever file is there.   *)
(*                                                                         *)
(* Processes interleave at their system calls.  A process identity is used *)
(* again after the process is gone, by the importer or by any other.       *)
(*                                                                         *)
(* Two history variables, which no action reads, say when a removal was a  *)
(* mistake: the file belonged to a process at work, which had not written  *)
(* it when it was read, or which created it after the one that was read.   *)
(***************************************************************************)
EXTENDS Integers, FiniteSets

CONSTANTS
  Process,       \* the invocations that compete, each of them again and again
  Pid,           \* process identities
  Strangers,     \* identities that processes of other programs may take
  MaxCrashes,    \* bound on crashes and failing writes
  None

ASSUME StateLockAssumption ==
  /\ Strangers \subseteq Pid
  /\ None \notin Pid
  /\ MaxCrashes \in Nat

VARIABLES
  lock,      \* the file: who created it and what is written in it, or None
  pc,        \* where a process is in acquire and release
  pid,       \* its identity, None while it does not run
  seen,      \* the identity it read from the file
  stranger,  \* identities that processes of other programs have
  crashes,
  judging,   \* history: processes that have read the file which is there now
  raced      \* history: how files of processes at work came to be removed

history == <<judging, raced>>

lockVars == <<lock, pc, pid, seen, stranger, crashes, history>>

LockPC == {"off", "open", "write", "read", "probe", "remove", "hold"}

Alive == {pid[p] : p \in Process} \cup stranger

\* A file that was created and not written yet has the content None.
LockFile == [creator : Process, content : Pid \cup {None}]

ASSUME LockFileAssumption == None \notin LockFile

\* What the file says, None if it is not there.
Content == IF lock = None THEN None ELSE lock.content

\* The file that is there belongs to a process that writes it or holds the lock.
AtWork == lock # None /\ pc[lock.creator] \in {"write", "hold"}

LockInit ==
  /\ lock = None
  /\ pc = [p \in Process |-> "off"]
  /\ pid = [p \in Process |-> None]
  /\ seen = [p \in Process |-> None]
  /\ stranger = {}
  /\ crashes = 0
  /\ judging = {} /\ raced = {}

-----------------------------------------------------------------------------
(* A process.                                                              *)

Goto(p, label) == pc' = [pc EXCEPT ![p] = label]

Exit(p) ==
  /\ Goto(p, "off")
  /\ pid' = [pid EXCEPT ![p] = None]
  /\ seen' = [seen EXCEPT ![p] = None]

\* The file is gone, and with it whatever was read of it.
Unlink == lock' = None /\ judging' = {}

Start(p) ==
  /\ pc[p] = "off"
  /\ \E i \in Pid \ Alive : pid' = [pid EXCEPT ![p] = i]
  /\ Goto(p, "open")
  /\ UNCHANGED <<lock, seen, stranger, crashes, history>>

\* openSync with "wx".
Create(p) ==
  /\ pc[p] = "open" /\ lock = None
  /\ lock' = [creator |-> p, content |-> None]
  /\ Goto(p, "write")
  /\ UNCHANGED <<pid, seen, stranger, crashes, history>>

FindFile(p) ==
  /\ pc[p] = "open" /\ lock # None
  /\ Goto(p, "read")
  /\ UNCHANGED <<lock, pid, seen, stranger, crashes, history>>

\* writeSync goes to the file this process created, wherever that is by now.
WritePid(p) ==
  /\ pc[p] = "write"
  /\ lock' = IF lock # None /\ lock.creator = p
             THEN [lock EXCEPT !.content = pid[p]] ELSE lock
  /\ Goto(p, "hold")
  /\ UNCHANGED <<pid, seen, stranger, crashes, history>>

\* What is there names no process: it is gone, or not written yet.
ReadNothing(p) ==
  /\ pc[p] = "read"
  /\ Content = None
  /\ judging' = IF lock = None THEN judging ELSE judging \cup {p}
  /\ Goto(p, "remove")
  /\ UNCHANGED <<lock, pid, seen, stranger, crashes, raced>>

ReadPid(p) ==
  /\ pc[p] = "read"
  /\ Content # None
  /\ seen' = [seen EXCEPT ![p] = Content]
  /\ judging' = judging \cup {p}
  /\ Goto(p, "probe")
  /\ UNCHANGED <<lock, pid, stranger, crashes, raced>>

\* Faulty: the error of the probe is not looked at.
RefusedAlways(p) ==
  /\ pc[p] = "probe"
  /\ judging' = judging \ {p}
  /\ Exit(p)
  /\ UNCHANGED <<lock, stranger, crashes, raced>>

\* Faulty: a process that was refused releases what it has not acquired.
RefusedReleasing(p) ==
  /\ pc[p] = "probe" /\ seen[p] \in Alive
  /\ Unlink
  /\ Exit(p)
  /\ UNCHANGED <<stranger, crashes, raced>>

\* process.kill(pid, 0): the lock is held, the command fails.
Refused(p) ==
  /\ pc[p] = "probe" /\ seen[p] \in Alive
  /\ judging' = judging \ {p}
  /\ Exit(p)
  /\ UNCHANGED <<lock, stranger, crashes, raced>>

\* Faulty: whatever the probe says, the file is stale.
FindDeadAlways(p) ==
  /\ pc[p] = "probe"
  /\ Goto(p, "remove")
  /\ UNCHANGED <<lock, pid, seen, stranger, crashes, history>>

FindDead(p) ==
  /\ pc[p] = "probe" /\ seen[p] \notin Alive
  /\ Goto(p, "remove")
  /\ UNCHANGED <<lock, pid, seen, stranger, crashes, history>>

\* What the removal by p of the file of a process at work comes from: another
\* file was read, this one was read before its creator wrote it, or it named
\* its creator.
Mistake(p) ==
  IF p \notin judging THEN "replaced" ELSE IF seen[p] = None THEN "unwritten" ELSE "named"

\* rmSync removes what has the name now, and acquire begins again.
RemoveStale(p) ==
  /\ pc[p] = "remove"
  /\ Unlink
  /\ raced' = IF AtWork THEN raced \cup {Mistake(p)} ELSE raced
  /\ seen' = [seen EXCEPT ![p] = None]
  /\ Goto(p, "open")
  /\ UNCHANGED <<pid, stranger, crashes>>

Acquire(p) ==
  \/ Create(p) \/ FindFile(p) \/ WritePid(p) \/ ReadNothing(p) \/ ReadPid(p)
  \/ Refused(p) \/ FindDead(p) \/ RemoveStale(p)

\* The file is removed, whosever it is, and the process ends.
Release(p) ==
  /\ pc[p] = "hold"
  /\ Unlink
  /\ Exit(p)
  /\ UNCHANGED <<stranger, crashes, raced>>

-----------------------------------------------------------------------------
(* Crashes, failing writes, and the rest of the machine.                   *)

Fault == crashes < MaxCrashes /\ crashes' = crashes + 1

Crash(p) ==
  /\ pc[p] # "off"
  /\ Fault
  /\ judging' = judging \ {p}
  /\ Exit(p)
  /\ UNCHANGED <<lock, stranger, raced>>

\* The error leaves acquire; withStateLock releases nothing.
WriteFails(p) ==
  /\ pc[p] = "write"
  /\ Fault
  /\ judging' = judging \ {p}
  /\ Exit(p)
  /\ UNCHANGED <<lock, stranger, raced>>

StrangerStarts ==
  /\ \E i \in Strangers \ Alive : stranger' = stranger \cup {i}
  /\ UNCHANGED <<lock, pc, pid, seen, crashes, history>>

StrangerEnds ==
  /\ \E i \in stranger : stranger' = stranger \ {i}
  /\ UNCHANGED <<lock, pc, pid, seen, crashes, history>>

LockFault(p) == Crash(p) \/ WriteFails(p)

LockNext ==
  \/ \E p \in Process : Start(p) \/ Acquire(p) \/ Release(p) \/ LockFault(p)
  \/ StrangerStarts \/ StrangerEnds

LockSpec == LockInit /\ [][LockNext]_lockVars

-----------------------------------------------------------------------------
(* Properties.                                                             *)

LockTypeOK ==
  /\ lock \in LockFile \cup {None}
  /\ pc \in [Process -> LockPC]
  /\ pid \in [Process -> Pid \cup {None}]
  /\ seen \in [Process -> Pid \cup {None}]
  /\ stranger \subseteq Pid
  /\ crashes \in 0 .. MaxCrashes
  /\ judging \subseteq Process
  /\ raced \subseteq {"replaced", "unwritten", "named"}

\* docs/OPERATIONS.md: the commands "need its exclusive lock".  At most one
\* process holds it.
Exclusive == \A p, q \in Process : pc[p] = "hold" /\ pc[q] = "hold" => p = q

\* What of that the code keeps, whoever crashed before and whatever became of the
\* process identities.  Two processes hold the lock only after the file of a
\* process at work was taken for a stale one, and that happens in two ways: it
\* was read between its creation and its writing, or it has replaced the stale
\* file that was read.  A file that names a live process is never removed
\* because of what was read in it.
ExclusiveUnlessRaced ==
  /\ raced \subseteq {"replaced", "unwritten"}
  /\ raced = {} => Exclusive

\* The file that protects a process stays where it is until that process
\* releases the lock or crashes, although others may remove files; the two races
\* apart.
HoldersFileStays ==
  [][\A p \in Process :
       pc[p] = "hold" /\ pc'[p] = "hold" /\ raced' = {} => lock' = lock]_lockVars

=============================================================================
