---------------------------- MODULE DaemonProofs ----------------------------
(***************************************************************************)
(* What the daemon gets from its lock: it uses the lock as StateLock says, *)
(* so one daemon runs at a time unless a lock file was removed by mistake, *)
(* and until then the heartbeat row is the running daemon's, and a pause   *)
(* lets one cycle begin at most.                                           *)
(***************************************************************************)
EXTENDS Daemon, TLAPS

-----------------------------------------------------------------------------
(* The lock.  A file that names its creator is safe: whoever reads it finds *)
(* an identity that is alive as long as the creator holds the lock, so who *)
(* is about to remove this very file with an identity in hand knows that   *)
(* nobody is at work behind it.  Before any file was removed by mistake    *)
(* every process that writes or holds has its file, which only one can.    *)

\* A process that runs has an identity of its own.
Identified ==
  /\ \A p \in Process : pid[p] # None <=> pc[p] # "off"
  /\ \A p, q \in Process : pid[p] # None /\ pid[p] = pid[q] => p = q
  /\ \A p \in Process : pid[p] \notin stranger
  /\ \A p \in Process : seen[p] # None => pc[p] \in {"probe", "remove"}

\* What the file of a process at work says.
FileNamesWorker ==
  lock # None =>
    /\ pc[lock.creator] = "write" => lock.content = None
    /\ pc[lock.creator] = "hold" => lock.content = pid[lock.creator]

\* What a process has read of the file that is there.
ReadingHolds ==
  \A p \in judging :
    /\ lock # None
    /\ pc[p] \in {"probe", "remove"}
    /\ pc[p] = "probe" => seen[p] # None
    /\ seen[p] # None => lock.content = seen[p]
    /\ pc[p] = "remove" /\ seen[p] # None => ~AtWork

OnlyRaces == raced \subseteq {"replaced", "unwritten"}

\* Until a file is removed by mistake, who is at work has its file.
FileIsOwn ==
  raced = {} =>
    \A p \in Process : pc[p] \in {"write", "hold"} => lock # None /\ lock.creator = p

LockInv ==
  LockTypeOK /\ Identified /\ FileNamesWorker /\ ReadingHolds /\ OnlyRaces /\ FileIsOwn

-----------------------------------------------------------------------------
LEMMA LockInvInit == LockInit => LockInv
BY StateLockAssumption
DEF LockInit, LockInv, LockTypeOK, LockPC, Identified, FileNamesWorker, ReadingHolds,
    OnlyRaces, FileIsOwn

LEMMA LockInvExcludes == LockInv => ExclusiveUnlessRaced
BY DEF LockInv, OnlyRaces, FileIsOwn, ExclusiveUnlessRaced, Exclusive

LEMMA LockInvOne ==
  ASSUME LockInv, raced = {}, NEW p \in Process, NEW q \in Process,
         pc[p] = "hold", pc[q] = "hold"
  PROVE  p = q
BY LockInvExcludes DEF ExclusiveUnlessRaced, Exclusive

-----------------------------------------------------------------------------
(* Types.                                                                  *)

LEMMA LockTypeStep ==
  ASSUME LockTypeOK, [LockNext]_lockVars
  PROVE  LockTypeOK'
<1> USE StateLockAssumption DEF LockTypeOK, LockPC, LockFile, history
<1>1. CASE UNCHANGED lockVars
  BY <1>1 DEF lockVars
<1>2. ASSUME NEW p \in Process, Start(p)
      PROVE  LockTypeOK'
  BY <1>2 DEF Start, Goto
<1>3. ASSUME NEW p \in Process, Create(p)
      PROVE  LockTypeOK'
  BY <1>3 DEF Create, Goto
<1>4. ASSUME NEW p \in Process, WritePid(p)
      PROVE  LockTypeOK'
  BY <1>4 DEF WritePid, Goto
<1>5. ASSUME NEW p \in Process, FindFile(p) \/ ReadNothing(p) \/ FindDead(p)
      PROVE  LockTypeOK'
  BY <1>5 DEF FindFile, ReadNothing, FindDead, Goto
<1>6. ASSUME NEW p \in Process, ReadPid(p)
      PROVE  LockTypeOK'
  BY <1>6 DEF ReadPid, Content, Goto
<1>7. ASSUME NEW p \in Process, Refused(p) \/ Release(p) \/ Crash(p) \/ WriteFails(p)
      PROVE  LockTypeOK'
  <2>1. crashes' \in 0 .. MaxCrashes
    BY <1>7 DEF Refused, Release, Crash, WriteFails, Fault
  <2>2. lock' \in LockFile \cup {None} /\ judging' \subseteq Process /\ raced' = raced
    BY <1>7 DEF Refused, Release, Crash, WriteFails, Unlink
  <2>3. Exit(p) /\ stranger' = stranger
    BY <1>7 DEF Refused, Release, Crash, WriteFails
  <2> QED BY <2>1, <2>2, <2>3 DEF Exit, Goto
<1>8. ASSUME NEW p \in Process, RemoveStale(p)
      PROVE  LockTypeOK'
  <2>1. raced' \subseteq {"replaced", "unwritten", "named"}
    BY <1>8 DEF RemoveStale, Mistake
  <2> QED BY <1>8, <2>1 DEF RemoveStale, Unlink, Goto
<1>9. CASE StrangerStarts \/ StrangerEnds
  BY <1>9 DEF StrangerStarts, StrangerEnds
<1> QED
  BY <1>1, <1>2, <1>3, <1>4, <1>5, <1>6, <1>7, <1>8, <1>9
  DEF LockNext, Acquire, LockFault

-----------------------------------------------------------------------------
(* The steps, one action at a time.                                        *)

LEMMA LockInvStep ==
  ASSUME LockInv, [LockNext]_lockVars
  PROVE  LockInv'
<1>0. LockTypeOK'
  BY LockTypeStep DEF LockInv
<1> USE <1>0, StateLockAssumption, LockFileAssumption
<1> USE DEF LockInv, LockTypeOK, LockPC, LockFile, Identified, FileNamesWorker, ReadingHolds,
            OnlyRaces, FileIsOwn, AtWork, history
<1>1. CASE UNCHANGED lockVars
  BY <1>1 DEF lockVars
<1>2. ASSUME NEW p \in Process, Start(p)
      PROVE  LockInv'
  BY <1>2 DEF Start, Goto, Alive
<1>3. ASSUME NEW p \in Process, Create(p)
      PROVE  LockInv'
  <2>1. judging = {} /\ lock' = [creator |-> p, content |-> None] /\ lock' # None
    BY <1>3 DEF Create
  <2> QED BY <1>3, <2>1 DEF Create, Goto
<1>4. ASSUME NEW p \in Process, WritePid(p)
      PROVE  LockInv'
  <2>1. p \notin judging
    BY <1>4 DEF WritePid
  <2>2. CASE lock # None /\ lock.creator = p
    <3>1. lock' = [creator |-> p, content |-> pid[p]] /\ lock.content = None /\ lock' # None
      BY <1>4, <2>2 DEF WritePid
    <3>2. \A q \in judging : seen[q] = None
      BY <2>2, <3>1
    <3>3. \A q \in judging : pc[q] # "probe"
      BY <3>2
    <3> QED BY <1>4, <2>1, <2>2, <3>1, <3>2, <3>3 DEF WritePid, Goto
  <2>3. CASE ~(lock # None /\ lock.creator = p)
    BY <1>4, <2>1, <2>3 DEF WritePid, Goto
  <2> QED BY <2>2, <2>3
<1>5. ASSUME NEW p \in Process, FindFile(p)
      PROVE  LockInv'
  BY <1>5 DEF FindFile, Goto
<1>6. ASSUME NEW p \in Process, ReadNothing(p)
      PROVE  LockInv'
  <2>1. seen[p] = None
    BY <1>6 DEF ReadNothing
  <2> QED BY <1>6, <2>1 DEF ReadNothing, Content, Goto
<1>7. ASSUME NEW p \in Process, ReadPid(p)
      PROVE  LockInv'
  BY <1>7 DEF ReadPid, Content, Goto
<1>8. ASSUME NEW p \in Process, FindDead(p)
      PROVE  LockInv'
  <2>1. p \in judging => ~AtWork
    <3> SUFFICES ASSUME p \in judging, AtWork
                 PROVE  FALSE
      OBVIOUS
    <3>1. lock # None /\ lock.content = seen[p] /\ seen[p] # None
      BY <1>8 DEF FindDead
    <3>2. seen[p] = pid[lock.creator]
      BY <3>1
    <3> QED BY <1>8, <3>1, <3>2 DEF FindDead, Alive
  <2> QED BY <1>8, <2>1 DEF FindDead, Goto
<1>9. ASSUME NEW p \in Process, RemoveStale(p)
      PROVE  LockInv'
  <2>1. lock' = None /\ judging' = {}
    BY <1>9 DEF RemoveStale, Unlink
  <2>2. raced' \subseteq {"replaced", "unwritten"}
    BY <1>9 DEF RemoveStale, Mistake
  <2>3. FileIsOwn'
    <3> SUFFICES ASSUME raced' = {}, NEW q \in Process, pc'[q] \in {"write", "hold"}
                 PROVE  FALSE
      BY DEF FileIsOwn
    <3>1. ~AtWork /\ raced = {} /\ pc[q] \in {"write", "hold"}
      BY <1>9 DEF RemoveStale, Goto
    <3> QED BY <3>1
  <2> QED BY <1>9, <2>1, <2>2, <2>3 DEF RemoveStale, Goto
<1>10. ASSUME NEW p \in Process, Refused(p) \/ Crash(p) \/ WriteFails(p)
       PROVE  LockInv'
  BY <1>10 DEF Refused, Crash, WriteFails, Exit, Goto
<1>11. ASSUME NEW p \in Process, Release(p)
       PROVE  LockInv'
  <2>1. lock' = None /\ judging' = {} /\ raced' = raced
    BY <1>11 DEF Release, Unlink
  <2>2. raced = {} => \A q \in Process \ {p} : pc[q] \notin {"write", "hold"}
    BY <1>11 DEF Release
  <2> QED BY <1>11, <2>1, <2>2 DEF Release, Exit, Goto
<1>12. CASE StrangerStarts \/ StrangerEnds
  BY <1>12 DEF StrangerStarts, StrangerEnds, Alive
<1> QED
  BY <1>1, <1>2, <1>3, <1>4, <1>5, <1>6, <1>7, <1>8, <1>9, <1>10, <1>11, <1>12
  DEF LockNext, Acquire, LockFault

\* What ties processes, their identities and the file together is inductive.
THEOREM LockIsSound == LockSpec => []LockInv
BY LockInvInit, LockInvStep, PTL DEF LockSpec

\* Two processes hold the lock only after one of the two races of acquireLock's
\* stale check, for any number of processes, crashes and reuses of process
\* identities: a file that names a live process is never taken for a stale one,
\* and before the first race the lock excludes.
THEOREM LockExcludes == LockSpec => []ExclusiveUnlessRaced
BY LockIsSound, LockInvExcludes, PTL

\* A removal by mistake is not forgotten.
LEMMA RacedStays ==
  ASSUME [LockNext]_lockVars
  PROVE  raced' = {} => raced = {}
BY DEF LockNext, lockVars, history, Start, Acquire, Create, FindFile, WritePid, ReadNothing,
       ReadPid, Refused, FindDead, RemoveStale, Release, LockFault, Crash, WriteFails,
       StrangerStarts, StrangerEnds

\* Nobody removes or replaces the file of a process that holds the lock, until
\* one of the races.
LEMMA HoldersFileStep ==
  ASSUME LockInv, LockNext, NEW p \in Process, pc[p] = "hold", pc'[p] = "hold", raced' = {}
  PROVE  lock' = lock
<1> USE DEF LockInv, LockTypeOK, history
<1>0. raced = {} /\ lock # None /\ lock.creator = p
  <2>1. raced = {}
    BY RacedStays
  <2> QED BY <2>1 DEF FileIsOwn
<1>1. ASSUME NEW q \in Process, Create(q)
      PROVE  lock' = lock
  BY <1>0, <1>1 DEF Create
<1>2. ASSUME NEW q \in Process, WritePid(q)
      PROVE  lock' = lock
  BY <1>0, <1>2 DEF WritePid
<1>3. ASSUME NEW q \in Process, RemoveStale(q)
      PROVE  lock' = lock
  BY <1>0, <1>3 DEF RemoveStale, AtWork
<1>4. ASSUME NEW q \in Process, Release(q)
      PROVE  lock' = lock
  <2>1. q = p
    BY <1>0, <1>4, LockInvOne DEF Release
  <2> QED BY <1>4, <2>1 DEF Release, Exit, Goto
<1> QED
  BY <1>1, <1>2, <1>3, <1>4
  DEF LockNext, Start, Acquire, FindFile, ReadNothing, ReadPid, Refused, FindDead,
      LockFault, Crash, WriteFails, StrangerStarts, StrangerEnds

THEOREM HoldersFileIsSafe == LockSpec => HoldersFileStays
<1>1. LockInv /\ [LockNext]_lockVars
      => [\A p \in Process :
            pc[p] = "hold" /\ pc'[p] = "hold" /\ raced' = {} => lock' = lock]_lockVars
  BY HoldersFileStep
<1> QED BY <1>1, LockIsSound, PTL DEF LockSpec, HoldersFileStays

-----------------------------------------------------------------------------
(* The daemon.                                                             *)

\* runLockedDaemon runs under the lock.
RunsLocked == \A p \in Importing : at[p] # "none" => pc[p] = "hold"

\* A daemon that looked before the marker was set has not begun its cycle yet.
LookedBefore ==
  raced = {} /\ marker =>
    \A p \in Continuous : at[p] = "decide" /\ ~mem[p].paused => begun = 0

DaemonInv == LockInv /\ TypeOK /\ RunsLocked /\ RunningIsShown /\ LookedBefore /\ PauseHolds

-----------------------------------------------------------------------------
LEMMA LockStepIsLockNext == LockStep => LockNext
BY DEF LockStep, LockNext

\* Every step of the system is a step of the lock or leaves it alone.
LEMMA StepIsLockStep ==
  ASSUME [Next]_vars
  PROVE  [LockNext]_lockVars
<1>1. CASE UNCHANGED vars
  BY <1>1 DEF vars
<1>2. CASE LockStep
  BY <1>2, LockStepIsLockNext
<1>3. ASSUME NEW p \in Process, ReleaseLock(p) \/ CrashProcess(p)
      PROVE  LockNext
  BY <1>3 DEF ReleaseLock, CrashProcess, LockNext
<1>4. ASSUME NEW p \in Importing,
             DaemonStep(p) \/ Beat(p) \/ ScanInterval(p) \/ RetryDelay(p) \/ Signal(p)
      PROVE  UNCHANGED lockVars
  BY <1>4 DEF DaemonStep, Startup, Look, BeginCycle, Sleep, Preflight, PreflightFails,
              ScanSources, RunBatch, Verify, StopDaemon, Beat, ScanInterval, RetryDelay, Signal
<1>5. CASE HeartbeatAges \/ SetPaused \/ BankChanges
  BY <1>5 DEF HeartbeatAges, SetPaused, BankChanges, Change
<1> QED BY <1>1, <1>2, <1>3, <1>4, <1>5 DEF Next

\* The daemon uses its lock as the lock's specification says: what is proved of
\* the lock holds in the composition.
THEOREM DaemonImplementsLock == Spec => LockSpec
<1>1. DaemonInit => LockInit
  BY DEF DaemonInit
<1> QED BY <1>1, StepIsLockStep, PTL DEF Spec, LockSpec

\* Daemons and commands in competition: they are two at a time only after one
\* of the races over the lock file.
THEOREM DaemonExcludes == Spec => []ExclusiveUnlessRaced
BY DaemonImplementsLock, LockExcludes, PTL

-----------------------------------------------------------------------------
LEMMA OneRuns ==
  ASSUME LockInv, raced = {}, RunsLocked, NEW p \in Importing, at[p] # "none",
         NEW q \in Importing, at[q] # "none"
  PROVE  p = q
BY LockInvOne, DaemonAssumption DEF RunsLocked, Importing

\* What runs has an identity, and is alive.
LEMMA RunsAlive ==
  ASSUME LockInv, RunsLocked, NEW p \in Importing, at[p] # "none"
  PROVE  pid[p] \in Pid /\ pid[p] \in Alive
BY DaemonAssumption DEF LockInv, LockTypeOK, Identified, RunsLocked, Importing, Alive

LEMMA DaemonInvInit == DaemonInit => DaemonInv
<1> SUFFICES ASSUME DaemonInit
             PROVE  DaemonInv
  OBVIOUS
<1>1. LockInv /\ LockTypeOK
  BY LockInvInit DEF DaemonInit, LockInv
<1>2. AtStart \in Memory
  BY DEF AtStart, Memory, Phase
<1>3. TypeOK
  <2>1. at \in [Importing -> DaemonPC] /\ mem \in [Importing -> Memory]
    BY <1>2 DEF DaemonInit, DaemonPC
  <2>2. changes \in 0 .. MaxChanges /\ signals \in 0 .. MaxSignals /\ begun \in 0 .. 2
    BY DaemonAssumption DEF DaemonInit
  <2> QED BY <1>1, <2>1, <2>2 DEF DaemonInit, TypeOK
<1> QED
  BY <1>1, <1>3
  DEF DaemonInit, DaemonInv, RunsLocked, RunningIsShown, Runs, LookedBefore, PauseHolds

LEMMA DaemonInvExplains == DaemonInv => RunningIsShown /\ PauseHolds /\ TypeOK
BY DEF DaemonInv

-----------------------------------------------------------------------------
(* Steps of the lock, and the end of a process.                            *)

LEMMA LockStepKeeps ==
  ASSUME DaemonInv, LockInv', LockStep
  PROVE  DaemonInv'
<1> USE DEF DaemonInv, LockStep, daemonVars
<1>0. raced' = {} => raced = {}
  BY LockStepIsLockNext, RacedStays
<1>1. LockTypeOK'
  BY DEF LockInv
<1>2. TypeOK'
  BY <1>1 DEF TypeOK
<1>3. \A p \in Process : pc[p] = "hold" => pc'[p] = "hold" /\ pid'[p] = pid[p]
  BY DEF LockInv, LockTypeOK, LockPC, Start, Acquire, Create, FindFile, WritePid, ReadNothing,
         ReadPid, Refused, FindDead, RemoveStale, StrangerStarts, StrangerEnds, Exit, Goto
<1>4. RunsLocked'
  BY <1>3, DaemonAssumption DEF RunsLocked, Importing
<1>5. RunningIsShown'
  <2> SUFFICES ASSUME raced' = {}, NEW p \in Importing, Runs(p)'
               PROVE  Running' /\ row'.pid = pid'[p]
    BY DEF RunningIsShown
  <2>1. at[p] # "none" /\ at'[p] # "none"
    BY DEF Runs
  <2>2. pid'[p] = pid[p] /\ pid'[p] \in Alive'
    BY <1>3, <2>1, DaemonAssumption DEF RunsLocked, Importing, Alive
  <2> QED BY <1>0, <2>2 DEF RunningIsShown, Runs, Running
<1>6. LookedBefore' /\ PauseHolds'
  BY <1>0 DEF LookedBefore, PauseHolds
<1> QED BY <1>2, <1>4, <1>5, <1>6

\* What ends leaves the row as it is; nothing runs beside it.
LEMMA EndKeeps ==
  ASSUME DaemonInv, LockInv', NEW p \in Process, ReleaseLock(p) \/ CrashProcess(p)
  PROVE  DaemonInv'
<1>0. raced' = {} => raced = {}
  BY RacedStays DEF ReleaseLock, CrashProcess, LockNext
<1>1. /\ Forget(p) /\ Silent /\ UNCHANGED <<work, begun, Surroundings>>
      /\ \A q \in Process \ {p} : pc'[q] = pc[q] /\ pid'[q] = pid[q]
  BY DEF ReleaseLock, CrashProcess, LockFault, Release, Crash, WriteFails, Exit, Goto,
         DaemonInv, LockInv, LockTypeOK
<1>2. /\ \A q \in Importing \ {p} : at'[q] = at[q] /\ mem'[q] = mem[q]
      /\ p \in Importing => at'[p] = "none"
  BY <1>1 DEF Forget, DaemonInv, TypeOK
<1>3. TypeOK'
  BY <1>1 DEF Forget, Silent, Surroundings, DaemonInv, LockInv, TypeOK, DaemonPC, AtStart,
              Memory, Phase
<1>4. RunsLocked'
  BY <1>1, <1>2, DaemonAssumption DEF RunsLocked, Importing, DaemonInv
<1>5. RunningIsShown'
  <2> SUFFICES ASSUME raced' = {}, NEW q \in Importing, Runs(q)'
               PROVE  Running' /\ row'.pid = pid'[q]
    BY DEF RunningIsShown
  <2>1. q # p /\ Runs(q)
    BY <1>2 DEF Runs
  <2>2. pid'[q] = pid[q] /\ pid'[q] \in Alive'
    BY <1>1, <2>1, DaemonAssumption DEF Importing, Alive
  <2> QED BY <1>0, <1>1, <2>1, <2>2 DEF RunningIsShown, Running, Silent, DaemonInv
<1>6. LookedBefore' /\ PauseHolds'
  BY <1>0, <1>1, <1>2 DEF LookedBefore, PauseHolds, Surroundings, DaemonInv, Importing
<1> QED BY <1>3, <1>4, <1>5, <1>6 DEF DaemonInv

-----------------------------------------------------------------------------
(* Steps of a daemon.  A daemon that goes on either renews the row or      *)
(* leaves it, and begins a cycle at most once after it looked.             *)

\* How a cycle ends: with a heartbeat, and back at the loop or stopped.
CycleEnds(p) ==
  /\ \E label \in {"look", "stopped"}, memory \in Memory : Move(p, label, memory)
  /\ \/ at'[p] = "stopped" /\ Heartbeat(p, "stopped", FALSE)
     \/ at'[p] = "look" /\ \E phase \in Phase, error \in BOOLEAN : Heartbeat(p, phase, error)

LEMMA FailureEndsCycle ==
  ASSUME TypeOK, NEW p \in Importing, CycleFails(p)
  PROVE  CycleEnds(p)
<1>1. mem[p] \in Memory /\ at \in [Importing -> DaemonPC]
  BY DEF TypeOK
<1>2. CASE p \in Once
  BY <1>1, <1>2 DEF CycleFails, CycleEnds, Stopped, Move
<1>3. CASE p \notin Once
  <2> DEFINE memory == IF mem[p].aborted THEN mem[p]
                       ELSE [mem[p] EXCEPT !.phase = "error", !.error = TRUE, !.waiting = TRUE]
  <2>1. memory \in Memory
    BY <1>1 DEF Memory, Phase
  <2>2. memory.phase \in Phase /\ memory.error \in BOOLEAN
    BY <2>1 DEF Memory
  <2>3. Move(p, "look", memory) /\ Heartbeat(p, memory.phase, memory.error)
    BY <1>3 DEF CycleFails
  <2> HIDE DEF memory
  <2> QED BY <1>1, <2>1, <2>2, <2>3 DEF CycleEnds, Move
<1> QED BY <1>2, <1>3

LEMMA SuccessEndsCycle ==
  ASSUME TypeOK, NEW p \in Importing, CycleSucceeds(p)
  PROVE  CycleEnds(p)
<1>1. mem[p] \in Memory /\ at \in [Importing -> DaemonPC]
  BY DEF TypeOK
<1>2. CASE p \in Once
  BY <1>1, <1>2 DEF CycleSucceeds, CycleEnds, Stopped, Move
<1>3. CASE p \notin Once
  <2> DEFINE due == mem[p].due /\ ~mem[p].scanning
             scanned == mem[p].scanned \/ mem[p].scanning
             memory == [mem[p] EXCEPT !.phase = "idle", !.error = FALSE, !.waiting = FALSE,
                                      !.due = due, !.scanned = scanned]
  <2>1. due \in BOOLEAN /\ scanned \in BOOLEAN
    OBVIOUS
  <2>2. Move(p, "look", memory) /\ Heartbeat(p, "idle", FALSE)
    BY <1>3 DEF CycleSucceeds
  <2> HIDE DEF due, scanned
  <2>3. memory \in Memory
    BY <1>1, <2>1 DEF Memory, Phase
  <2> HIDE DEF memory
  <2> QED BY <1>1, <2>2, <2>3 DEF CycleEnds, Move, Phase
<1> QED BY <1>2, <1>3

\* The shapes a step can have.
StepForm(p) ==
  /\ UNCHANGED lockVars /\ UNCHANGED Surroundings
  /\ \E label \in DaemonPC \ {"none"}, memory \in Memory : Move(p, label, memory)
  /\ \/ Silent /\ Runs(p) /\ at'[p] # "stopped"
     \/ \E phase \in Phase, error \in BOOLEAN :
          Heartbeat(p, phase, error) /\ at'[p] # "stopped"
     \/ Heartbeat(p, "stopped", FALSE) /\ at'[p] = "stopped"
  /\ \/ at'[p] # "decide" /\ begun' = begun
     \/ at'[p] = "decide" /\ mem'[p].paused = marker /\ begun' = begun
     \/ at[p] = "decide" /\ ~mem[p].paused /\ at'[p] = "preflight" /\ CountBegin(p)
  /\ pc[p] = "hold" \/ at[p] # "none"
  /\ work' \in BOOLEAN

LEMMA CycleEndsForm ==
  ASSUME TypeOK, NEW p \in Importing, CycleEnds(p), at[p] # "none",
         UNCHANGED <<lockVars, begun, Surroundings>>, work' \in BOOLEAN
  PROVE  StepForm(p)
<1>1. at'[p] \in {"look", "stopped"} /\ {"look", "stopped"} \subseteq DaemonPC \ {"none"}
  BY DEF CycleEnds, DaemonPC
<1>2. \E label \in DaemonPC \ {"none"}, memory \in Memory : Move(p, label, memory)
  BY <1>1 DEF CycleEnds
<1> QED BY <1>1, <1>2 DEF CycleEnds, StepForm, Surroundings, lockVars

LEMMA StepShape ==
  ASSUME TypeOK, NEW p \in Importing, DaemonStep(p)
  PROVE  StepForm(p)
<1>6. CASE PreflightFails(p)
  BY <1>6, FailureEndsCycle, CycleEndsForm DEF PreflightFails, TypeOK
<1>7. CASE ScanSources(p) /\ mem[p].aborted
  BY <1>7, FailureEndsCycle, CycleEndsForm DEF ScanSources, TypeOK
<1>8. CASE RunBatch(p) /\ CycleSucceeds(p)
  BY <1>8, SuccessEndsCycle, CycleEndsForm DEF RunBatch, TypeOK
<1>9. CASE Verify(p)
  BY <1>9, FailureEndsCycle, SuccessEndsCycle, CycleEndsForm DEF Verify, TypeOK
<1> USE DEF StepForm, TypeOK, Memory, Phase, DaemonPC, Move
<1>1. CASE Startup(p)
  BY <1>1 DEF Startup, AtStart
<1>2. CASE Look(p)
  BY <1>2 DEF Look, Runs
<1>3. CASE BeginCycle(p)
  BY <1>3 DEF BeginCycle, Wanted
<1>4. CASE Sleep(p)
  BY <1>4 DEF Sleep, Runs
<1>5. CASE Preflight(p)
  BY <1>5 DEF Preflight, Runs
<1>11. CASE ScanSources(p) /\ ~mem[p].aborted
  BY <1>11 DEF ScanSources, Runs
<1>12. CASE RunBatch(p) /\ ~CycleSucceeds(p)
  BY <1>12 DEF RunBatch, Runs
<1>10. CASE StopDaemon(p)
  BY <1>10 DEF StopDaemon, Stopped
<1> QED
  BY <1>1, <1>2, <1>3, <1>4, <1>5, <1>6, <1>7, <1>8, <1>9, <1>10, <1>11, <1>12
  DEF DaemonStep

LEMMA DaemonStepKeeps ==
  ASSUME DaemonInv, LockInv', NEW p \in Importing, DaemonStep(p)
  PROVE  DaemonInv'
<1>0. TypeOK /\ RunsLocked /\ LockInv
  BY DEF DaemonInv
<1>1. UNCHANGED lockVars /\ UNCHANGED Surroundings
  BY <1>0, StepShape DEF StepForm
<1>2. PICK label \in DaemonPC \ {"none"}, memory \in Memory : Move(p, label, memory)
  BY <1>0, StepShape DEF StepForm
<1>3. /\ at'[p] = label /\ mem'[p] = memory
      /\ \A q \in Importing \ {p} : at'[q] = at[q] /\ mem'[q] = mem[q]
  BY <1>0, <1>2 DEF Move, TypeOK
<1>4. pc[p] = "hold"
  BY <1>0, StepShape DEF StepForm, RunsLocked
<1>5. raced = {} => \A q \in Importing \ {p} : at[q] = "none"
  BY <1>0, <1>4, LockInvOne, DaemonAssumption DEF RunsLocked, Importing
<1>6. pid[p] \in Pid /\ pid[p] \in Alive
  BY <1>0, <1>4, DaemonAssumption DEF LockInv, LockTypeOK, Identified, Importing, Alive
<1>7. begun' \in 0 .. 2
  <2>1. begun' = begun \/ CountBegin(p)
    BY <1>0, StepShape DEF StepForm
  <2> QED BY <1>0, <2>1 DEF TypeOK, CountBegin
<1>8. row' \in StatusRow \cup {None} /\ fresh' \in BOOLEAN
  <2>1. \/ Silent
        \/ \E phase \in Phase \cup {"stopped"}, error \in BOOLEAN : Heartbeat(p, phase, error)
    BY <1>0, StepShape DEF StepForm
  <2>2. \A phase \in Phase \cup {"stopped"}, error \in BOOLEAN :
          Heartbeat(p, phase, error) => row' \in StatusRow /\ fresh' \in BOOLEAN
    BY <1>6 DEF StatusRow, Heartbeat
  <2> QED BY <1>0, <2>1, <2>2 DEF TypeOK, Silent
<1>9. TypeOK'
  BY <1>0, <1>1, <1>2, <1>7, <1>8, StepShape DEF StepForm, TypeOK, LockInv, Move, Surroundings
<1>10. RunsLocked'
  BY <1>0, <1>1, <1>3, <1>4 DEF RunsLocked, lockVars, history
<1>11. RunningIsShown'
  <2> SUFFICES ASSUME raced' = {}, NEW q \in Importing, Runs(q)'
               PROVE  Running' /\ row'.pid = pid'[q]
    BY DEF RunningIsShown
  <2>1. q = p /\ at'[p] # "stopped"
    BY <1>1, <1>3, <1>5 DEF Runs, lockVars, history
  <2>2. CASE Silent /\ Runs(p)
    BY <1>1, <2>1, <2>2 DEF DaemonInv, RunningIsShown, Running, Silent, Alive, lockVars, history
  <2>3. ASSUME NEW phase \in Phase, NEW error \in BOOLEAN, Heartbeat(p, phase, error)
        PROVE  Running' /\ row'.pid = pid'[q]
    <3>1. row' # None
      BY <1>6, <2>3, StatusRowAssumption DEF Heartbeat, StatusRow
    <3> QED BY <1>1, <1>6, <2>1, <2>3, <3>1 DEF Heartbeat, Running, Phase, Alive, lockVars,
                                                   history
  <2> QED BY <1>0, <2>1, <2>2, <2>3, StepShape DEF StepForm
<1>12. LookedBefore' /\ PauseHolds'
  <2>1. CASE at'[p] # "decide" /\ begun' = begun
    BY <1>1, <1>3, <1>5, <2>1 DEF LookedBefore, PauseHolds, Importing, DaemonInv, lockVars,
                                history
  <2>2. CASE at'[p] = "decide" /\ mem'[p].paused = marker /\ begun' = begun
    BY <1>1, <1>3, <1>5, <2>2 DEF LookedBefore, PauseHolds, Importing, DaemonInv, Surroundings,
                                lockVars, history
  <2>3. CASE at[p] = "decide" /\ ~mem[p].paused /\ at'[p] = "preflight" /\ CountBegin(p)
    BY <1>1, <1>3, <1>5, <2>3
    DEF LookedBefore, PauseHolds, Importing, DaemonInv, CountBegin, TypeOK, Surroundings,
        lockVars, history
  <2> QED BY <1>0, <2>1, <2>2, <2>3, StepShape DEF StepForm
<1> QED BY <1>9, <1>10, <1>11, <1>12 DEF DaemonInv

-----------------------------------------------------------------------------
(* Heartbeats, time, signals and the surroundings.                         *)

LEMMA BeatKeeps ==
  ASSUME DaemonInv, LockInv', NEW p \in Importing, Beat(p)
  PROVE  DaemonInv'
<1>1. at[p] # "none" /\ RunsLocked /\ LockInv /\ TypeOK
  BY DEF Beat, Runs, DaemonInv
<1>2. /\ pid[p] \in Pid /\ pid[p] \in Alive
      /\ raced = {} => \A q \in Importing : at[q] # "none" => q = p
  BY <1>1, RunsAlive, OneRuns
<1>3. row' \in StatusRow /\ row'.phase # "stopped" /\ row'.pid = pid[p] /\ fresh'
  BY <1>1, <1>2 DEF Beat, Heartbeat, StatusRow, TypeOK, Memory, Phase
<1>4. row' # None
  BY <1>3, StatusRowAssumption
<1>5. UNCHANGED <<lockVars, at, mem, work, begun, Surroundings>>
  BY DEF Beat
<1>6. TypeOK'
  BY <1>1, <1>3, <1>5 DEF TypeOK, LockInv, Surroundings, Beat, Heartbeat
<1>7. RunningIsShown'
  BY <1>2, <1>3, <1>4, <1>5 DEF RunningIsShown, Runs, Running, Alive, lockVars, history
<1> QED
  BY <1>5, <1>6, <1>7
  DEF DaemonInv, RunsLocked, LookedBefore, PauseHolds, lockVars, history, Surroundings

LEMMA TimeKeeps ==
  ASSUME DaemonInv, LockInv', NEW p \in Importing,
         ScanInterval(p) \/ RetryDelay(p) \/ Signal(p)
  PROVE  DaemonInv'
<1>1. /\ UNCHANGED <<lockVars, at, row, fresh, work, begun, marker, bank, sound, changes>>
      /\ signals' \in 0 .. MaxSignals
  BY DaemonAssumption DEF ScanInterval, RetryDelay, Signal, Surroundings, DaemonInv, TypeOK
<1>2. mem' \in [Importing -> Memory] /\ \A q \in Importing : mem'[q].paused = mem[q].paused
  <2>1. mem \in [Importing -> Memory] /\ mem[p] \in Memory
    BY DEF DaemonInv, TypeOK
  <2>2. [mem[p] EXCEPT !.due = TRUE] \in Memory /\ [mem[p] EXCEPT !.waiting = FALSE] \in Memory
        /\ [mem[p] EXCEPT !.aborted = TRUE] \in Memory
    BY <2>1 DEF Memory
  <2>3. \E memory \in Memory :
          memory.paused = mem[p].paused /\ mem' = [mem EXCEPT ![p] = memory]
    BY <2>1, <2>2 DEF ScanInterval, RetryDelay, Signal, Memory
  <2> QED BY <2>1, <2>3
<1>3. TypeOK'
  BY <1>1, <1>2 DEF DaemonInv, TypeOK, LockInv
<1>4. RunsLocked' /\ RunningIsShown'
  BY <1>1 DEF DaemonInv, RunsLocked, RunningIsShown, Runs, Running, Alive, lockVars, history
<1>5. LookedBefore' /\ PauseHolds'
  BY <1>1, <1>2 DEF DaemonInv, LookedBefore, PauseHolds, Importing, lockVars, history
<1> QED BY <1>3, <1>4, <1>5 DEF DaemonInv

LEMMA SurroundingsKeep ==
  ASSUME DaemonInv, LockInv', HeartbeatAges \/ SetPaused \/ BankChanges
  PROVE  DaemonInv'
<1> USE DEF DaemonInv, RunsLocked, RunningIsShown, Runs, Running, Alive, lockVars, history,
            LookedBefore, PauseHolds
<1>0. TypeOK /\ LockTypeOK' /\ MaxChanges \in Nat
  BY DaemonAssumption DEF LockInv
<1>1. CASE HeartbeatAges
  <2>1. fresh' \in BOOLEAN
        /\ UNCHANGED <<at, mem, row, work, begun, marker, bank, sound, changes, signals>>
    BY <1>1 DEF HeartbeatAges, Surroundings
  <2>2. TypeOK'
    BY <1>0, <2>1 DEF TypeOK
  <2> QED BY <1>1, <2>1, <2>2 DEF HeartbeatAges, Surroundings
<1>2. CASE SetPaused
  <2>1. marker' \in BOOLEAN /\ begun' = 0
        /\ changes < MaxChanges /\ changes' = changes + 1
        /\ UNCHANGED <<at, mem, row, fresh, work, bank, sound, signals>>
    BY <1>2 DEF SetPaused, Change
  <2>2. TypeOK'
    BY <1>0, <2>1 DEF TypeOK
  <2> QED BY <1>2, <2>1, <2>2 DEF SetPaused, Change
<1>3. CASE BankChanges
  <2>1. bank' \in BOOLEAN /\ sound' \in BOOLEAN
    BY <1>0, <1>3 DEF BankChanges, TypeOK
  <2>2. changes < MaxChanges /\ changes' = changes + 1
        /\ UNCHANGED <<at, mem, row, fresh, work, marker, begun, signals>>
    BY <1>3 DEF BankChanges, Change
  <2>3. TypeOK'
    BY <1>0, <2>1, <2>2 DEF TypeOK
  <2> QED BY <1>3, <2>2, <2>3 DEF BankChanges, Change
<1> QED BY <1>1, <1>2, <1>3

LEMMA DaemonInvStep ==
  ASSUME DaemonInv, [Next]_vars
  PROVE  DaemonInv'
<1>1. LockInv'
  BY StepIsLockStep, LockInvStep DEF DaemonInv
<1>2. CASE UNCHANGED vars
  BY <1>1, <1>2
  DEF vars, daemonVars, DaemonInv, TypeOK, LockInv, RunsLocked, RunningIsShown, Runs, Running,
      Alive, lockVars, history, LookedBefore, PauseHolds
<1> QED
  BY <1>1, <1>2, LockStepKeeps, EndKeeps, DaemonStepKeeps, BeatKeeps, TimeKeeps,
     SurroundingsKeep
  DEF Next

\* Lock, identities, heartbeat row and pause together are inductive.
THEOREM DaemonIsSound == Spec => []DaemonInv
BY DaemonInvInit, DaemonInvStep, PTL DEF Spec

\* Types of the daemon's variables, for any processes and bounds.
THEOREM DaemonTypes == Spec => []TypeOK
BY DaemonIsSound, DaemonInvExplains, PTL

\* While a daemon runs, the row that other processes read is its own, as long as
\* no lock file was removed by mistake.
THEOREM DaemonIsShown == Spec => []RunningIsShown
BY DaemonIsSound, DaemonInvExplains, PTL

\* After the pause marker is set one more cycle begins at most, whatever daemons
\* crash and are started again, as long as no lock file was removed by mistake.
THEOREM PauseIsKept == Spec => []PauseHolds
BY DaemonIsSound, DaemonInvExplains, PTL

=============================================================================
