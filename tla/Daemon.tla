------------------------------- MODULE Daemon -------------------------------
(***************************************************************************)
(* The importer daemon under its lock: the main loop with the pause        *)
(* marker, scans that are due, retries of failed cycles, the heartbeat row *)
(* that other processes read, and signals.  What a cycle does to the       *)
(* sessions is Importer's subject; here it scans, sends and verifies, and  *)
(* any of these may fail.                                                  *)
(*                                                                         *)
(* Time is modelled by what has passed: the scan interval, the delay of a  *)
(* retry, the age of a heartbeat.                                          *)
(***************************************************************************)
EXTENDS StateLock

CONSTANTS
  Continuous,    \* processes that run the daemon
  Once,          \* processes that run daemon --once
  MaxChanges,    \* bound on changes of the bank, the documents and the marker
  MaxSignals     \* bound on SIGTERM and SIGINT

Importing == Continuous \cup Once

ASSUME DaemonAssumption ==
  /\ Importing \subseteq Process /\ Continuous \cap Once = {}
  /\ MaxChanges \in Nat /\ MaxSignals \in Nat

VARIABLES
  at,        \* where runLockedDaemon of a process is
  mem,       \* its local variables
  row,       \* daemon_status: identity, phase, error; or None
  fresh,     \* is the heartbeat younger than HEARTBEAT_STALE_MS?
  marker,    \* does the file "paused" exist?
  work,      \* is there pending work (pendingWorkCount)?
  bank,      \* does the bank answer?
  sound,     \* do the documents of the bank agree with the state database?
  changes,
  signals,
  begun      \* cycles of continuous daemons begun since the pause marker is there

daemonVars == <<at, mem, row, fresh, marker, work, bank, sound, changes, signals, begun>>

vars == <<lockVars, daemonVars>>

DaemonPC ==
  {"none", "look", "decide", "preflight", "scan", "batch", "verify", "stopped"}

Phase == {"starting", "idle", "paused", "error", "working"}

\* A row of daemon_status.
StatusRow == [pid : Pid, phase : Phase \cup {"stopped"}, error : BOOLEAN]

ASSUME StatusRowAssumption == None \notin StatusRow

\* error, due, waiting: lastError; nextFullScan has passed; retryAt has not.
Memory ==
  [phase : Phase, error : BOOLEAN,
   paused : BOOLEAN, due : BOOLEAN, waiting : BOOLEAN, aborted : BOOLEAN,
   scanning : BOOLEAN, scanned : BOOLEAN]

AtStart ==
  [phase |-> "starting", error |-> FALSE, paused |-> FALSE, due |-> TRUE,
   waiting |-> FALSE, aborted |-> FALSE, scanning |-> FALSE, scanned |-> FALSE]

DaemonInit ==
  /\ LockInit
  /\ at = [p \in Importing |-> "none"]
  /\ mem = [p \in Importing |-> AtStart]
  /\ row = None /\ fresh = FALSE
  /\ marker \in BOOLEAN /\ work \in BOOLEAN
  /\ bank \in BOOLEAN /\ sound \in BOOLEAN
  /\ changes = 0 /\ signals = 0 /\ begun = 0

-----------------------------------------------------------------------------
(* Steps.                                                                  *)

Runs(p) == at[p] \notin {"none", "stopped"}

\* StateDatabase.heartbeat.
Heartbeat(p, phase, error) ==
  /\ row' = [pid |-> pid[p], phase |-> phase, error |-> error]
  /\ fresh' = TRUE

Silent == UNCHANGED <<row, fresh>>

Move(p, label, memory) ==
  /\ at' = [at EXCEPT ![p] = label]
  /\ mem' = [mem EXCEPT ![p] = memory]

CountBegin(p) ==
  begun' = IF marker /\ p \in Continuous /\ begun < 2 THEN begun + 1 ELSE begun

Surroundings == <<marker, bank, sound, changes, signals>>

\* Faulty: the daemon reports itself before it has the lock.
StartupUnlocked(p) ==
  /\ at[p] = "none"
  /\ Heartbeat(p, "starting", FALSE)
  /\ IF p \in Once
     THEN Move(p, "preflight", [AtStart EXCEPT !.scanning = TRUE])
     ELSE Move(p, "look", AtStart)
  /\ UNCHANGED <<lockVars, work, begun, Surroundings>>

Startup(p) ==
  /\ pc[p] = "hold" /\ at[p] = "none"
  /\ Heartbeat(p, "starting", FALSE)
  /\ IF p \in Once
     THEN Move(p, "preflight", [AtStart EXCEPT !.scanning = TRUE])
     ELSE Move(p, "look", AtStart)
  /\ UNCHANGED <<lockVars, work, begun, Surroundings>>

\* setInterval: the timer fires while the daemon waits for anything.
Beat(p) ==
  /\ Runs(p)
  /\ Heartbeat(p, mem[p].phase, mem[p].error)
  /\ UNCHANGED <<lockVars, at, mem, work, begun, Surroundings>>

\* isPaused.
Look(p) ==
  /\ at[p] = "look" /\ ~mem[p].aborted
  /\ Move(p, "decide", [mem[p] EXCEPT !.paused = marker])
  /\ Silent
  /\ UNCHANGED <<lockVars, work, begun, Surroundings>>

\* Faulty: a failed cycle is not repeated of itself.
WantedForWork(p) ==
  /\ ~mem[p].paused /\ ~mem[p].waiting
  /\ mem[p].due \/ work

\* Faulty: the marker is not looked at between the cycles of a queue.
WantedPaused(p) ==
  /\ ~mem[p].paused \/ work
  /\ ~mem[p].waiting
  /\ mem[p].due \/ mem[p].error \/ work

Wanted(p) ==
  /\ ~mem[p].paused /\ ~mem[p].waiting
  /\ mem[p].due \/ mem[p].error \/ work

BeginCycle(p) ==
  /\ at[p] = "decide" /\ Wanted(p)
  /\ Move(p, "preflight", [mem[p] EXCEPT !.phase = "working", !.scanning = mem[p].due])
  /\ Heartbeat(p, "working", mem[p].error)
  /\ CountBegin(p)
  /\ UNCHANGED <<lockVars, work, Surroundings>>

Sleep(p) ==
  /\ at[p] = "decide" /\ ~Wanted(p)
  /\ Move(p, "look",
          [mem[p] EXCEPT !.phase = IF mem[p].paused THEN "paused"
                                   ELSE IF mem[p].error THEN "error" ELSE "idle"])
  /\ Silent
  /\ UNCHANGED <<lockVars, work, begun, Surroundings>>

-----------------------------------------------------------------------------
(* A cycle.                                                                *)

\* The finally block: the row says stopped before the lock is released.
Stopped(p, memory) ==
  /\ Move(p, "stopped", memory)
  /\ Heartbeat(p, "stopped", FALSE)

\* Faulty: a scan that failed waits for the next interval.
CycleFailsLazily(p) ==
  IF p \in Once THEN Stopped(p, mem[p])
  ELSE LET memory == IF mem[p].aborted THEN mem[p]
                     ELSE [mem[p] EXCEPT !.phase = "error", !.error = TRUE,
                                         !.waiting = TRUE, !.due = FALSE]
       IN /\ Move(p, "look", memory)
          /\ Heartbeat(p, memory.phase, memory.error)

\* An error during a shutdown is not recorded.  A scan stays due.
CycleFails(p) ==
  IF p \in Once THEN Stopped(p, mem[p])
  ELSE LET memory == IF mem[p].aborted THEN mem[p]
                     ELSE [mem[p] EXCEPT !.phase = "error", !.error = TRUE, !.waiting = TRUE]
       IN /\ Move(p, "look", memory)
          /\ Heartbeat(p, memory.phase, memory.error)

CycleSucceeds(p) ==
  IF p \in Once THEN Stopped(p, mem[p])
  ELSE LET memory == [mem[p] EXCEPT
                        !.phase = "idle", !.error = FALSE, !.waiting = FALSE,
                        !.due = @ /\ ~mem[p].scanning,
                        !.scanned = @ \/ mem[p].scanning]
       IN /\ Move(p, "look", memory)
          /\ Heartbeat(p, "idle", FALSE)

Preflight(p) ==
  /\ at[p] = "preflight" /\ bank /\ ~mem[p].aborted
  /\ Move(p, IF mem[p].scanning THEN "scan" ELSE "batch", mem[p])
  /\ Silent
  /\ UNCHANGED <<lockVars, work, begun, Surroundings>>

PreflightFails(p) ==
  /\ at[p] = "preflight" /\ (~bank \/ mem[p].aborted)
  /\ CycleFails(p)
  /\ UNCHANGED <<lockVars, work, begun, Surroundings>>

\* The scan queues what it finds, and throws when it is aborted.
ScanSources(p) ==
  /\ at[p] = "scan"
  /\ IF mem[p].aborted THEN CycleFails(p) /\ UNCHANGED work
     ELSE /\ work' \in {work, TRUE}
          /\ Move(p, "batch", mem[p]) /\ Silent
  /\ UNCHANGED <<lockVars, begun, Surroundings>>

\* The batch sends some of the work, or all of it; errors of single
\* generations stay with them.
RunBatch(p) ==
  /\ at[p] = "batch"
  /\ work' \in IF bank THEN {work, FALSE} ELSE {work}
  /\ IF work' \/ mem[p].aborted THEN CycleSucceeds(p)
     ELSE Move(p, "verify", mem[p]) /\ Silent
  /\ UNCHANGED <<lockVars, begun, Surroundings>>

\* With nothing pending the documents of the bank are compared.
Verify(p) ==
  /\ at[p] = "verify"
  /\ IF bank /\ sound THEN CycleSucceeds(p) ELSE CycleFails(p)
  /\ UNCHANGED <<lockVars, work, begun, Surroundings>>

-----------------------------------------------------------------------------
(* The end, and what happens to the lock meanwhile.                        *)

StopDaemon(p) ==
  /\ at[p] = "look" /\ mem[p].aborted
  /\ Stopped(p, mem[p])
  /\ UNCHANGED <<lockVars, work, begun, Surroundings>>

Forget(p) ==
  /\ at' = IF p \in Importing THEN [at EXCEPT ![p] = "none"] ELSE at
  /\ mem' = IF p \in Importing THEN [mem EXCEPT ![p] = AtStart] ELSE mem

\* Faulty: the lock is released while the daemon still has to say that it
\* stops.
ReleaseLockEarly(p) ==
  /\ p \in Importing => at[p] = "stopped" \/ (at[p] = "look" /\ mem[p].aborted)
  /\ Release(p)
  /\ Silent
  /\ UNCHANGED <<at, mem, work, begun, Surroundings>>

ReleaseLock(p) ==
  /\ p \in Importing => at[p] = "stopped"
  /\ Release(p)
  /\ Forget(p)
  /\ Silent
  /\ UNCHANGED <<work, begun, Surroundings>>

CrashProcess(p) ==
  /\ LockFault(p)
  /\ Forget(p)
  /\ Silent
  /\ UNCHANGED <<work, begun, Surroundings>>

DaemonStep(p) ==
  \/ Startup(p) \/ Look(p) \/ BeginCycle(p) \/ Sleep(p)
  \/ Preflight(p) \/ PreflightFails(p) \/ ScanSources(p) \/ RunBatch(p) \/ Verify(p)
  \/ StopDaemon(p)

-----------------------------------------------------------------------------
(* Time, signals, operators, the bank.                                     *)

ScanInterval(p) ==
  /\ Runs(p) /\ ~mem[p].due
  /\ mem' = [mem EXCEPT ![p].due = TRUE]
  /\ UNCHANGED <<lockVars, at, row, fresh, work, begun, Surroundings>>

RetryDelay(p) ==
  /\ Runs(p) /\ mem[p].waiting
  /\ mem' = [mem EXCEPT ![p].waiting = FALSE]
  /\ UNCHANGED <<lockVars, at, row, fresh, work, begun, Surroundings>>

\* No live daemon renews the row.
HeartbeatAges ==
  /\ fresh /\ \A p \in Importing : ~Runs(p)
  /\ fresh' = FALSE
  /\ UNCHANGED <<lockVars, at, mem, row, work, begun, Surroundings>>

Signal(p) ==
  /\ Runs(p) /\ ~mem[p].aborted
  /\ signals < MaxSignals /\ signals' = signals + 1
  /\ mem' = [mem EXCEPT ![p].aborted = TRUE]
  /\ UNCHANGED <<lockVars, at, row, fresh, work, begun, marker, bank, sound, changes>>

Change ==
  /\ changes < MaxChanges /\ changes' = changes + 1
  /\ UNCHANGED <<lockVars, at, mem, row, fresh, work, signals>>

\* setPaused.
SetPaused ==
  /\ Change
  /\ marker' = ~marker /\ begun' = 0
  /\ UNCHANGED <<bank, sound>>

BankChanges ==
  /\ Change
  /\ \/ bank' = ~bank /\ UNCHANGED sound
     \/ sound' = ~sound /\ UNCHANGED bank
  /\ UNCHANGED <<marker, begun>>

LockStep ==
  /\ \/ \E p \in Process : Start(p) \/ Acquire(p)
     \/ StrangerStarts \/ StrangerEnds
  /\ UNCHANGED daemonVars

Next ==
  \/ LockStep
  \/ \E p \in Process : ReleaseLock(p) \/ CrashProcess(p)
  \/ \E p \in Importing :
       DaemonStep(p) \/ Beat(p) \/ ScanInterval(p) \/ RetryDelay(p) \/ Signal(p)
  \/ HeartbeatAges \/ SetPaused \/ BankChanges

Spec == DaemonInit /\ [][Next]_vars

\* Processes go on, one of them is started again after all have ended, and
\* the delay of a retry passes.  A scan interval may be as long as it likes,
\* and nobody has to send a signal.
Fairness ==
  /\ WF_vars(LockStep /\ \E p \in Process : Start(p))
  /\ \A p \in Process : WF_vars(Acquire(p) /\ UNCHANGED daemonVars) /\ WF_vars(ReleaseLock(p))
  /\ \A p \in Importing : WF_vars(DaemonStep(p)) /\ WF_vars(RetryDelay(p))

FairSpec == Spec /\ Fairness

-----------------------------------------------------------------------------
(* Properties.                                                             *)

TypeOK ==
  /\ LockTypeOK
  /\ at \in [Importing -> DaemonPC] /\ mem \in [Importing -> Memory]
  /\ row \in StatusRow \cup {None}
  /\ fresh \in BOOLEAN /\ marker \in BOOLEAN /\ work \in BOOLEAN
  /\ bank \in BOOLEAN /\ sound \in BOOLEAN
  /\ changes \in 0 .. MaxChanges /\ signals \in 0 .. MaxSignals /\ begun \in 0 .. 2

\* importerHealth: what the status of the extension says of the daemon.
Running == row # None /\ row.phase # "stopped" /\ fresh /\ row.pid \in Alive

\* A daemon that runs is the one the status shows: the last words of another
\* one never replace its heartbeat, as long as no lock file was removed by
\* mistake.
RunningIsShown ==
  raced = {} => \A p \in Importing : Runs(p) => Running /\ row.pid = pid[p]

\* docs/OPERATIONS.md: "Pause prevents daemon scans and submissions."  A daemon
\* that looked before the marker was set begins one more cycle, and no daemon
\* begins another, as long as no lock file was removed by mistake.
PauseHolds == raced = {} => begun <= 1

\* The conditions under which the daemon p can do its work from now on.
Undisturbed(p) ==
  p \in Continuous /\ Runs(p) /\ ~mem[p].aborted /\ ~marker /\ bank /\ sound

\* docs/STATUS-INTEGRATION.md: "The daemon retries failed cycles after
\* importer.retryDelayMs, independent of the full scan interval".  The error
\* is gone for good when the cause is gone.
ErrorClears ==
  \A p \in Importing :
    <>[]Undisturbed(p) => <>[](~mem[p].error)

\* A scan that was due and failed is not put off to the next interval.
ScanIsRepeated ==
  \A p \in Importing :
    <>[]Undisturbed(p) => <>[](mem[p].scanned)

\* A lock file of a process that is gone never stands in the way for good.
StaleLockGoes == []<>(lock = None \/ Content \in Alive)

=============================================================================
