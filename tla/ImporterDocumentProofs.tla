----------------------- MODULE ImporterDocumentProofs -----------------------
(***************************************************************************)
(* The remote document and the rows: whatever was edited, lost, retried,   *)
(* repaired and cancelled, the document is what was acknowledged, or what  *)
(* an operation on record wrote, or it was deleted and what replaces it is *)
(* on disk.  With it, what no step may do to a session whose exclusion is  *)
(* recorded, or that is preserved.                                         *)
(***************************************************************************)
EXTENDS ImporterRegisterProofs, Verification

-----------------------------------------------------------------------------
(* Exclusion and preservation.                                             *)

\* A task is found primary only while no exclusion by name is recorded.
LEMMA ClearedSteps ==
  ASSUME TypeInv, NEW h \in Hash, NEW g \in Hash, TaskStep(h), task'[g].pc \in Cleared
  PROVE  task[g].pc \in Cleared \/ StoredKey \notin tombstone'
<1> USE DEF TypeInv
<1>1. CASE g # h
  <2>1. task'[g] = task[g] \/ task'[g].pc \in {"idle", "waiting"}
    BY <1>1, StepOthers DEF Untouched
  <2> QED BY <2>1 DEF Cleared
<1>2. ASSUME g = h, NEW pc \in PC, Goto(h, pc), pc \notin Cleared \/ task[h].pc \in Cleared
      PROVE  task[g].pc \in Cleared
  BY <1>2, GotoEffect
<1>3. ASSUME g = h, Finish(h)
      PROVE  FALSE
  BY <1>3, FinishEffect DEF Cleared
<1>4. CASE g = h /\ Begin(h)
  <2>1. PICK t \in Task : task' = [task EXCEPT ![h] = t] /\ t.pc \in {"reload", "classify", "poll"}
    BY <1>4, BeginTask
  <2> QED BY <1>4, <2>1 DEF Cleared, TypeOK, WorkerTypeOK
<1>4a. CASE g = h /\ Reload(h)
  BY <1>4a, ReloadTask DEF Cleared, TypeOK, WorkerTypeOK
<1>5. CASE g = h /\ (PollCompleted(h) \/ PollNotFound(h))
  BY <1>2, <1>3, <1>5 DEF PollCompleted, PollNotFound, Catch, PC, Cleared
<1>6. CASE ClassifyPrimary(h)
  BY <1>6, HindsightAssumption DEF ClassifyPrimary, EffectiveKind
<1>7. CASE g = h /\ (Load(h) \/ Preflight(h) \/ SavePayload(h) \/ Record(h) \/ Swap(h) \/ Inspect(h)
                     \/ Erase(h) \/ MarkReady(h))
  <2>1. task[h].pc \in Cleared
    BY <1>7 DEF Load, Preflight, SavePayload, Record, Swap, Inspect, Erase, MarkReady, Cleared
  <2> QED BY <1>7, <2>1
<1>8. CASE g = h /\ (Submit(h) \/ PostAccepted(h) \/ MarkPending(h))
  BY <1>2, <1>8 DEF Submit, PostAccepted, MarkPending, PC, Cleared
<1>9. CASE g = h /\ (BeginRefused(h) \/ PollFailed(h) \/ PollTimeout(h) \/ ClassifyGone(h)
                     \/ ClassifyExcluded(h) \/ Cleanup(h))
  BY <1>3, <1>9 DEF BeginRefused, PollFailed, CatchTerminal, PollTimeout, ClassifyGone,
                    ClassifyExcluded, Cleanup, Catch
<1> QED BY <1>1, <1>4, <1>4a, <1>5, <1>6, <1>7, <1>8, <1>9 DEF TaskStep

\* Where an exclusion is recorded, the task that records it is the one at work.
LEMMA StepNothingToSend ==
  ASSUME TypeInv, OperationInv, OwnershipInv, NothingToSend, Next
  PROVE  NothingToSend'
<1> USE DEF TypeInv, workerVars, sourceVars, localVars
<1> SUFFICES ASSUME StoredKey \in tombstone', NEW g \in Hash, task'[g].pc \in Cleared
             PROVE  FALSE
  BY DEF NothingToSend
<1>1. CASE UNCHANGED <<tombstone, task>>
  BY <1>1 DEF NothingToSend
<1>2. ASSUME NEW h \in Hash, TaskStep(h)
      PROVE  FALSE
  <2>1. task[g].pc \in Cleared
    BY <1>2, ClearedSteps
  <2>2. StoredKey \notin tombstone
    BY <2>1 DEF NothingToSend
  <2>3. ClassifyExcluded(h)
    BY <1>2, <2>2 DEF TaskStep, BeginRefused, Begin, Reload, PollCompleted, PollFailed, PollTimeout,
       PollNotFound, ClassifyPrimary, ClassifyGone, Load, Preflight, SavePayload, Record, Swap,
       Inspect, Erase, MarkReady, Submit, PostAccepted, MarkPending, Cleanup
  <2>4. Engaged(h) /\ Engaged(g) /\ task[h].pc = "classify"
    BY <2>1, <2>3 DEF ClassifyExcluded, Exclude, Engaged, Cleared
  <2> QED BY <2>1, <2>4, OnlyOneEngaged DEF Cleared
<1>3. ASSUME NEW h \in Hash, PostAttemptLost(h)
      PROVE  FALSE
  BY <1>1, <1>3 DEF PostAttemptLost
<1>4. ASSUME NEW h \in Hash, PostRejected(h) \/ TaskError(h)
      PROVE  FALSE
  <2>1. Finish(h) /\ UNCHANGED tombstone
    BY <1>4 DEF PostRejected, CatchTerminal, TaskError, Catch
  <2>2. task[g].pc \in Cleared
    BY <2>1, FinishEffect DEF Cleared
  <2> QED BY <2>1, <2>2 DEF NothingToSend
<1>5. CASE (\E h \in Hash : CrashInExclusion(h)) \/ Crash
  <2>1. task' = [h \in Hash |-> NoTask]
    BY <1>5 DEF CrashInExclusion, Crash
  <2> QED BY <2>1 DEF NoTask, Cleared
<1>5a. CASE StartBatch
  <2>1. PICK H \in SUBSET Hash, repair \in BOOLEAN : RunOnce(H, repair)
    BY <1>5a DEF StartBatch
  <2> QED BY <2>1 DEF RunOnce, NoTask, Cleared
<1>6. CASE Scan \/ ScanFault
  <2>1. phase # "batch" /\ UNCHANGED task
    BY <1>6 DEF Scan, ScanFault, ScanMissing, ScanExcluded, ScanUnchanged, ScanEmpty, ScanLoaded,
                ScanTorn, CanScan
  <2> QED BY <2>1 DEF OperationInv, TasksInBatch, Cleared
<1>7. CASE Environment \/ (\E h \in Hash, r \in Replay : Work(h, r)) \/ BatchDone \/ Startup
           \/ RetryFailed \/ CancelQueuedWork
  BY <1>1, <1>7 DEF Environment, Edit, Reclassify, CompleteHeader, Transit, BankFault, Work, BatchDone, Startup,
                    RetryFailed, CancelQueuedWork
<1> QED BY <1>2, <1>3, <1>4, <1>5, <1>5a, <1>6, <1>7 DEF Next, WorkerStep, WorkerFault, TaskFault

\* The inductive invariant holds.
THEOREM ExclusionsEndSending ==
  Spec => [](TypeInv /\ OperationInv /\ OwnershipInv /\ NothingToSend)
<1>1. Init => NothingToSend
  BY DEF Init, NothingToSend
<1>2. TypeInv /\ OperationInv /\ OwnershipInv /\ NothingToSend /\ [Next]_vars => NothingToSend'
  BY StepNothingToSend DEF vars, workerVars, NothingToSend
<1> QED BY <1>1, <1>2, OwnershipIsSound, PTL DEF Spec

\* An operation is recorded as submitted by the task that goes on to send it.
LEMMA SubmitsOnly ==
  ASSUME TypeInv, Next, NEW h \in Hash, NEW r \in Replay,
         operation'[h][r] = "submitting", operation[h][r] # "submitting"
  PROVE  \E x \in Hash : Submit(x)
<1> USE DEF TypeInv, dbVars, workerVars, localVars
<1>1. ASSUME NEW x \in Hash, NEW s \in OperationStatus \ {"submitting"}, SetOperation(x, s)
      PROVE  FALSE
  BY <1>1, SetOperationEffect
<1>2. ASSUME NEW x \in Hash, PollCompleted(x) \/ PollFailed(x) \/ Record(x) \/ MarkReady(x)
                             \/ MarkPending(x) \/ PostRejected(x)
      PROVE  FALSE
  BY <1>1, <1>2 DEF PollCompleted, PollFailed, Record, MarkReady, MarkPending, PostRejected,
                    CatchTerminal, OperationStatus, Unsent, TerminalFailures
<1>3. ASSUME NEW x \in Hash, TaskStep(x)
      PROVE  Submit(x)
  BY <1>2, <1>3 DEF TaskStep, BeginRefused, Begin, Reload, PollTimeout, PollNotFound,
       ClassifyPrimary, ClassifyGone, ClassifyExcluded, Exclude, Load, Preflight, SavePayload, Swap,
       Inspect, Erase, PostAccepted, Cleanup
<1>4. ASSUME NEW x \in Hash, WorkerFault(x)
      PROVE  FALSE
  BY <1>2, <1>4 DEF WorkerFault, TaskFault, PostAttemptLost, TaskError, CrashInExclusion, Exclude
<1>5. UNCHANGED operation \/ \E x \in Hash : TaskStep(x) \/ WorkerFault(x)
  BY DEF Next, WorkerStep, Environment, Edit, Reclassify, CompleteHeader, Transit, BankFault, Work,
         StartBatch, RunOnce, BatchDone, Scan, ScanMissing, ScanExcluded, ScanUnchanged,
         ScanEmpty, ScanLoaded, ScanFault, ScanTorn, Startup, Crash, RetryFailed, CancelQueuedWork
<1> QED BY <1>3, <1>4, <1>5

\* Once an exclusion by name is recorded under the stored identity nothing of the
\* session is submitted any more, whichever of scan and worker recorded it, and
\* although the name may be taken back.  It holds whatever the session comes from;
\* it says nothing of one that was excluded under another identity, which only the
\* scan of a session whose header was completed records.
THEOREM TombstonesStopRetain == Spec => TombstoneStopsRetain
<1>1. ASSUME TypeInv, NothingToSend, [Next]_vars
      PROVE  [(StoredKey \in tombstone) =>
                \A h \in Hash, r \in Replay :
                  operation'[h][r] = "submitting" => operation[h][r] = "submitting"]_vars
  <2>1. CASE Next
    <3>1. ASSUME NEW x \in Hash, Submit(x), StoredKey \in tombstone
          PROVE  FALSE
      BY <1>1, <3>1 DEF Submit, NothingToSend, Cleared
    <3> QED BY <1>1, <2>1, <3>1, SubmitsOnly
  <2> QED BY <1>1, <2>1
<1> QED BY <1>1, ExclusionsEndSending, PTL DEF Spec, TombstoneStopsRetain

\* A session that is preserved as ambiguous stays so: no task works on it, and no
\* scan but one that finds it excluded by name writes its row.
THEOREM PreservedStaysPreserved == Spec => FrozenStaysFrozen
<1> DEFINE Stays == session'.status \in {"ambiguous_preserved", "excluded_configured"}
<1>1. ASSUME TypeInv, OperationInv, OwnershipInv, Next, session.status = "ambiguous_preserved"
      PROVE  Stays
  <2> USE <1>1 DEF TypeInv, dbVars, workerVars, localVars
  <2>1. session \in Session
    BY DEF TypeOK, DbTypeOK
  <2>2. ASSUME NEW h \in Hash, Engaged(h)
        PROVE  FALSE
    BY <2>2 DEF OwnershipInv, OwnerAt, Engaged, Protected
  <2>3. CASE UNCHANGED session
    BY <2>3
  <2>4. ASSUME NEW h \in Hash, TaskStep(h)
        PROVE  UNCHANGED session
    BY <2>2, <2>4, IdleTaskStep DEF Begin, BeginRefused, Cleanup
  <2>5. ASSUME NEW h \in Hash, WorkerFault(h)
        PROVE  UNCHANGED session
    BY <2>2, <2>5 DEF WorkerFault, TaskFault, PostAttemptLost, PostRejected, TaskError, Awaiting,
                      CrashInExclusion, Exclude, Engaged
  <2>6. ASSUME NEW torn \in BOOLEAN, ScanExcluded(torn)
        PROVE  Stays
    <3>1. EffectiveKind(ScanKey, kind) = "configured"
      BY <2>6 DEF ScanExcluded, Frozen
    <3> QED BY <2>1, <2>6, <3>1 DEF ScanExcluded, SetSessionClassification, ExcludedAs, Session
  <2>7. ASSUME ScanMissing \/ ScanUnchanged \/ ScanEmpty \/ ScanLoaded \/ ScanTorn
        PROVE  FALSE
    BY <2>7 DEF ScanMissing, ScanUnchanged, ScanEmpty, ScanLoaded, ScanTorn, Frozen, Protected
  <2>8. CASE Environment \/ StartBatch \/ BatchDone \/ (\E h \in Hash, r \in Replay : Work(h, r))
             \/ Startup \/ Crash \/ RetryFailed \/ CancelQueuedWork
    BY <2>3, <2>8 DEF Environment, Edit, Reclassify, CompleteHeader, Transit, BankFault, Work, StartBatch, RunOnce,
                      BatchDone, Startup, Crash, RetryFailed, CancelQueuedWork
  <2> QED BY <2>3, <2>4, <2>5, <2>6, <2>7, <2>8 DEF Next, WorkerStep, Scan, ScanFault
<1>2. TypeInv /\ OperationInv /\ OwnershipInv /\ [Next]_vars
      => [session.status = "ambiguous_preserved" => Stays]_vars
  BY <1>1
<1> QED BY <1>2, OwnershipIsSound, PTL DEF Spec, FrozenStaysFrozen

-----------------------------------------------------------------------------
(* Repairs.                                                                *)

\* A row, or a task's copy of it, that repairs nothing.
Ordinary(row) == row.policy = "current" /\ ~row.repair

\* Claims and state changes make no repair of an ordinary row.
LEMMA ClaimedOrdinary ==
  ASSUME TypeOK, NEW h \in Hash, Ordinary(generation[h])
  PROVE  Ordinary(WithoutStaleRepair(h, Claimed(h)))
<1>1. generation[h] \in Generation
  BY TaskTypes
<1>2. Claimed(h).policy = generation[h].policy /\ Claimed(h).repair = generation[h].repair
  BY <1>1 DEF Claimed, Generation
<1> QED BY <1>2 DEF WithoutStaleRepair, Ordinary

LEMMA MovedOrdinary ==
  ASSUME TypeOK, NEW H, NEW from, NEW to, generation' = Moved(H, from, to),
         NEW h \in Hash, Ordinary(generation[h])
  PROVE  Ordinary(generation'[h])
BY TaskTypes DEF Moved, Ordinary, Generation

LEMMA SetStateOrdinary ==
  ASSUME TypeOK, NEW x \in Hash, NEW s, generation' = SetGenerationState(x, s),
         NEW h \in Hash, Ordinary(generation[h])
  PROVE  Ordinary(generation'[h])
BY TaskTypes DEF SetGenerationState, Ordinary, TypeOK, DbTypeOK, Generation

LEMMA TaskStepOrdinary ==
  ASSUME TypeInv, ~Upgraded, RepairsAreUpgrades, NEW x \in Hash, TaskStep(x), NEW h \in Hash
  PROVE  /\ session'.policy = "current"
         /\ Ordinary(generation'[h])
         /\ Ordinary(task'[h].gen) /\ task'[h].pc # "inspect"
<1> USE DEF TypeInv, dbVars, RepairsAreUpgrades
<1>0. /\ session.policy = "current"
      /\ \A g \in Hash : /\ Ordinary(generation[g]) /\ Ordinary(task[g].gen)
                         /\ task[g].pc # "inspect"
      /\ session \in Session
  BY DEF Ordinary, TypeOK, DbTypeOK
<1>1. ASSUME NEW pc \in PC \ {"inspect"}, Goto(x, pc)
      PROVE  Ordinary(task'[h].gen) /\ task'[h].pc # "inspect"
  <2>1. task'[h].gen = task[h].gen /\ (task'[h].pc = pc \/ task'[h].pc = task[h].pc)
    BY <1>1, GotoEffect
  <2> QED BY <1>0, <1>1, <2>1
<1>2. ASSUME Finish(x)
      PROVE  Ordinary(task'[h].gen) /\ task'[h].pc # "inspect"
  BY <1>0, <1>2, FinishEffect DEF Finish, NoTask, NoGeneration, Ordinary, TypeOK, WorkerTypeOK
<1>3. CASE Begin(x)
  <2> DEFINE row == WithoutStaleRepair(x, Claimed(x))
  <2>1. Ordinary(row)
    BY <1>0, ClaimedOrdinary
  <2>2. generation' = [generation EXCEPT ![x] = row] /\ UNCHANGED session
    BY <1>3 DEF Begin
  <2>3. PICK r2 \in Generation, t \in Task :
          /\ generation' = [generation EXCEPT ![x] = r2] /\ task' = [task EXCEPT ![x] = t]
          /\ t.gen = r2 /\ t.pc \in {"reload", "classify", "poll"}
    BY <1>3, BeginTask
  <2>4. r2 = row
    BY <2>2, <2>3 DEF TypeOK, DbTypeOK
  <2> HIDE DEF row
  <2> QED BY <1>0, <2>1, <2>2, <2>3, <2>4 DEF TypeOK, DbTypeOK, WorkerTypeOK
<1>4. CASE Reload(x)
  <2>1. PICK t \in Task : task' = [task EXCEPT ![x] = t] /\ t.pc = "classify"
    BY <1>4, ReloadTask
  <2>2. Ordinary(t.gen)
    <3>1. PICK r \in Replay : task'[x].gen = [task[x].gen EXCEPT !.replay = r]
      BY <1>4, TaskTypes DEF Reload, TypeOK, WorkerTypeOK, Task
    <3>2. task'[x] = t
      BY <2>1 DEF TypeOK, WorkerTypeOK
    <3> QED BY <1>0, <3>1, <3>2, TaskTypes DEF Ordinary, Generation
  <2> QED BY <1>0, <1>4, <2>1, <2>2 DEF Reload, TypeOK, WorkerTypeOK
<1>5. CASE PollCompleted(x)
  <2>1. session' = Acknowledge(x, generation[x].policy)
        /\ generation' = SetGenerationState(x, "completed") /\ Goto(x, "cleanup")
    BY <1>5 DEF PollCompleted
  <2>2. session'.policy = generation[x].policy
    BY <1>0, <2>1 DEF Acknowledge, Session
  <2> QED BY <1>0, <1>1, <2>1, <2>2, SetStateOrdinary DEF Ordinary, PC
<1>6. CASE PollFailed(x) \/ PollTimeout(x) \/ PollNotFound(x) \/ ClassifyGone(x) \/ Submit(x)
  <2>1. UNCHANGED session /\ (UNCHANGED generation \/ \E s : generation' = SetGenerationState(x, s))
    BY <1>6 DEF PollFailed, CatchTerminal, PollTimeout, PollNotFound, ClassifyGone, Submit, Catch
  <2>2. Finish(x) \/ \E pc \in PC \ {"inspect"} : Goto(x, pc)
    BY <1>6 DEF PollFailed, CatchTerminal, PollTimeout, PollNotFound, ClassifyGone, Submit, Catch, PC
  <2> QED BY <1>0, <1>1, <1>2, <2>1, <2>2, SetStateOrdinary
<1>7. CASE ClassifyExcluded(x)
  <2>1. session'.policy = session.policy /\ Finish(x)
    BY <1>0, <1>7 DEF ClassifyExcluded, Exclude, SetSessionClassification, Session
  <2>2. \/ UNCHANGED generation
        \/ generation' = SetGenerationState(x, "superseded")
        \/ generation' = MarkSessionGenerationsCleanupPending
    BY <1>7 DEF ClassifyExcluded, Exclude
  <2> QED BY <1>0, <1>2, <2>1, <2>2, SetStateOrdinary, MovedOrdinary
          DEF MarkSessionGenerationsCleanupPending
<1>8. CASE Load(x) \/ Preflight(x)
  <2>1. UNCHANGED session /\ (UNCHANGED generation \/ \E s : generation' = SetGenerationState(x, s))
    BY <1>8 DEF Load, Preflight, Catch
  <2>2. \/ Finish(x) \/ \E pc \in PC \ {"inspect"} : Goto(x, pc)
        \/ task' = [task EXCEPT ![x].doc = source, ![x].pc = "preflight"]
    BY <1>8 DEF Load, Preflight, Catch, PC
  <2>3. ASSUME task' = [task EXCEPT ![x].doc = source, ![x].pc = "preflight"]
        PROVE  Ordinary(task'[h].gen) /\ task'[h].pc # "inspect"
    BY <1>0, <2>3, TaskTypes DEF TypeOK, WorkerTypeOK, Task
  <2> QED BY <1>0, <1>1, <1>2, <2>1, <2>2, <2>3, SetStateOrdinary
<1>9. CASE ClassifyPrimary(x)
  <2>1. /\ UNCHANGED <<session, generation>>
        /\ \E d, pc : pc # "inspect" /\ task' = [task EXCEPT ![x].doc = d, ![x].pc = pc]
    BY <1>9 DEF ClassifyPrimary
  <2> QED BY <1>0, <2>1, TaskTypes DEF TypeOK, WorkerTypeOK, Task
<1>10. CASE Record(x)
  <2>1. /\ UNCHANGED session /\ generation' = [generation EXCEPT ![x] = task[x].gen]
        /\ \E pc : pc # "inspect" /\ task' = [task EXCEPT ![x].op = "prepared", ![x].pc = pc]
    BY <1>10 DEF Record
  <2> QED BY <1>0, <2>1, TaskTypes DEF TypeOK, DbTypeOK, WorkerTypeOK, Task
<1>11. CASE Inspect(x)
  BY <1>0, <1>11 DEF Inspect, Ordinary
<1>12. CASE SavePayload(x) \/ Swap(x) \/ Erase(x) \/ MarkReady(x) \/ PostAccepted(x)
            \/ MarkPending(x) \/ BeginRefused(x) \/ Cleanup(x)
  <2>1. UNCHANGED <<session, generation>>
    BY <1>12 DEF SavePayload, Swap, Erase, MarkReady, PostAccepted, MarkPending, BeginRefused, Cleanup
  <2>2. Finish(x) \/ \E pc \in PC \ {"inspect"} : Goto(x, pc)
    BY <1>12 DEF SavePayload, Swap, Erase, MarkReady, PostAccepted, MarkPending, BeginRefused,
                 Cleanup, PC
  <2> QED BY <1>0, <1>1, <1>2, <2>1, <2>2
<1> QED BY <1>3, <1>4, <1>5, <1>6, <1>7, <1>8, <1>9, <1>10, <1>11, <1>12 DEF TaskStep

\* Without a state from before the current policy nothing is ever repaired.
LEMMA StepRepairs ==
  ASSUME TypeInv, RepairsAreUpgrades, Next
  PROVE  RepairsAreUpgrades'
<1> USE DEF TypeInv, dbVars, workerVars, localVars
<1> DEFINE KeptRow(h)  == Ordinary(generation'[h])
           KeptTask(h) == Ordinary(task'[h].gen) /\ task'[h].pc # "inspect"
           Kept        == /\ session'.policy = "current"
                          /\ \A h \in Hash : KeptRow(h) /\ KeptTask(h)
<1> SUFFICES ASSUME ~Upgraded
             PROVE  Kept
  BY DEF RepairsAreUpgrades, Ordinary
<1>0. /\ session.policy = "current" /\ session \in Session
      /\ \A h \in Hash : /\ Ordinary(generation[h]) /\ Ordinary(task[h].gen)
                         /\ task[h].pc # "inspect"
  BY DEF RepairsAreUpgrades, Ordinary, TypeOK, DbTypeOK
<1>1. ASSUME NEW x \in Hash, TaskStep(x)
      PROVE  Kept
  BY <1>1, TaskStepOrdinary
<1>2. ASSUME task' = [h \in Hash |-> NoTask]
      PROVE  \A h \in Hash : KeptTask(h)
  BY <1>2 DEF NoTask, NoGeneration, Ordinary
<1>3. ASSUME NEW x \in Hash, Finish(x)
      PROVE  \A h \in Hash : KeptTask(h)
  <2>1. task'[x] = NoTask /\ \A g \in Hash \ {x} : task'[g] = task[g]
    BY <1>3 DEF Finish, TypeOK, WorkerTypeOK
  <2> QED BY <1>0, <2>1 DEF NoTask, NoGeneration, Ordinary
<1>4. ASSUME NEW x \in Hash, WorkerFault(x)
      PROVE  Kept
  <2>1. CASE PostAttemptLost(x)
    BY <1>0, <2>1 DEF PostAttemptLost
  <2>2. CASE PostRejected(x) \/ TaskError(x)
    <3>1. Finish(x) /\ UNCHANGED session /\ \E s : generation' = SetGenerationState(x, s)
      BY <2>2 DEF PostRejected, CatchTerminal, TaskError, Catch
    <3> QED BY <1>0, <1>3, <3>1, SetStateOrdinary
  <2>3. CASE CrashInExclusion(x)
    <3>1. UNCHANGED generation /\ task' = [h \in Hash |-> NoTask] /\ session'.policy = session.policy
      BY <1>0, <2>3 DEF CrashInExclusion, Exclude, SetSessionClassification, Session
    <3> QED BY <1>0, <1>2, <3>1
  <2> QED BY <1>4, <2>1, <2>2, <2>3 DEF WorkerFault, TaskFault
<1>5. CASE Scan \/ ScanFault
  <2>1. UNCHANGED task /\ session'.policy = session.policy
    <3>1. CASE \E torn \in BOOLEAN : ScanExcluded(torn)
      BY <1>0, <3>1 DEF ScanExcluded, SetSessionClassification, Session
    <3>2. CASE ScanMissing \/ ScanUnchanged \/ ScanEmpty \/ ScanLoaded \/ ScanTorn
      BY <1>0, <3>2 DEF ScanMissing, ScanUnchanged, ScanEmpty, ScanLoaded, ScanTorn, Scanned, Session
    <3> QED BY <1>5, <3>1, <3>2 DEF Scan, ScanFault
  <2>2. \A h \in Hash : KeptRow(h)
    <3>1. ASSUME NEW r \in Replay, source \in Hash,
                 generation' = [SupersedeOlder(source) EXCEPT ![source] = Queued(source, r)],
                 NEW h \in Hash
          PROVE  KeptRow(h)
      <4>1. CASE h = source
        BY <1>0, <3>1, <4>1 DEF SupersedeOlder, Moved, Queued, Ordinary
      <4>2. CASE h # source
        <5>1. generation'[h] = SupersedeOlder(source)[h]
          BY <3>1, <4>2 DEF SupersedeOlder, Moved
        <5> QED BY <1>0, <5>1, TaskTypes DEF SupersedeOlder, Moved, Generation, Ordinary
      <4> QED BY <4>1, <4>2
    <3>2. \/ UNCHANGED generation
          \/ generation' = MarkSessionGenerationsCleanupPending
          \/ generation' = SupersedeOlder(source)
          \/ source \in Hash /\ \E r \in Replay :
               generation' = [SupersedeOlder(source) EXCEPT ![source] = Queued(source, r)]
      BY <1>5 DEF Scan, ScanFault, ScanMissing, ScanExcluded, ScanUnchanged, ScanEmpty, ScanLoaded,
                  ScanTorn
    <3> QED BY <1>0, <3>1, <3>2, MovedOrdinary
            DEF SupersedeOlder, MarkSessionGenerationsCleanupPending
  <2> QED BY <1>0, <2>1, <2>2
<1>6. CASE RetryFailed \/ CancelQueuedWork
  <2>1. ASSUME NEW h \in Hash
        PROVE  KeptRow(h)
    <3>1. CASE RetryFailed
      BY <1>0, <3>1, TaskTypes DEF RetryFailed, ResetFailed, Generation, Ordinary
    <3> QED BY <1>0, <1>6, <3>1, MovedOrdinary DEF CancelQueuedWork, CancelQueued
  <2> QED BY <1>0, <1>6, <2>1 DEF RetryFailed, CancelQueuedWork
<1>7. CASE StartBatch
  <2>1. PICK H \in SUBSET Hash, repair \in BOOLEAN : RunOnce(H, repair)
    BY <1>7 DEF StartBatch
  <2>2. UNCHANGED <<session, generation>>
    BY <2>1 DEF RunOnce
  <2>3. ASSUME NEW h \in Hash
        PROVE  KeptTask(h)
    <3>1. \/ task'[h] = NoTask
          \/ task'[h].gen = generation[h] /\ task'[h].pc = "waiting"
      BY <2>1 DEF RunOnce, NoTask
    <3> QED BY <1>0, <3>1 DEF NoTask, NoGeneration, Ordinary
  <2> QED BY <1>0, <2>2, <2>3
<1>8. CASE Crash
  BY <1>0, <1>2, <1>8 DEF Crash
<1>9. CASE Environment \/ (\E h \in Hash, r \in Replay : Work(h, r)) \/ BatchDone \/ Startup
  BY <1>0, <1>9 DEF Environment, Edit, Reclassify, CompleteHeader, Transit, BankFault, Work, BatchDone, Startup
<1> QED BY <1>1, <1>4, <1>5, <1>6, <1>7, <1>8, <1>9 DEF Next, WorkerStep

-----------------------------------------------------------------------------
(* Rows.                                                                   *)

\* The row of a session is never lost, and protected only where the session is
\* found to be other than primary.
LEMMA SessionMoves ==
  ASSUME TypeInv, Next
  PROVE  /\ session'.status = "absent" => session.status = "absent"
         /\ session'.status \in Protected =>
              session'.kind # "primary" \/ (session.status \in Protected /\ session'.kind = session.kind)
<1> USE DEF TypeInv, dbVars, workerVars, localVars
<1>1. session \in Session
  BY DEF TypeOK, DbTypeOK
<1>2. CASE UNCHANGED session
  BY <1>2
<1>3. ASSUME NEW x \in Hash, NEW torn \in BOOLEAN, Exclude(x, torn)
      PROVE  session'.status # "absent" /\ session'.kind # "primary"
  BY <1>1, <1>3 DEF Exclude, SetSessionClassification, ExcludedAs, Session
<1>4. ASSUME NEW torn \in BOOLEAN, ScanExcluded(torn)
      PROVE  UNCHANGED session \/ (session'.status # "absent" /\ session'.kind # "primary")
  BY <1>1, <1>4 DEF ScanExcluded, SetSessionClassification, ExcludedAs, Session
<1>5. CASE ScanMissing \/ ScanUnchanged \/ ScanEmpty \/ ScanLoaded \/ ScanTorn
  BY <1>1, <1>5 DEF ScanMissing, ScanUnchanged, ScanEmpty, ScanLoaded, ScanTorn, Scanned, Session,
                    Protected, ExcludedStatus
<1>6. ASSUME NEW x \in Hash, PollCompleted(x)
      PROVE  /\ session'.status = session.status \/ session'.status = "imported"
             /\ session'.kind = session.kind
  BY <1>1, <1>6 DEF PollCompleted, Acknowledge, Session
<1>7. ASSUME NEW x \in Hash, TaskStep(x)
      PROVE  UNCHANGED session \/ PollCompleted(x) \/ Exclude(x, FALSE)
  BY <1>7 DEF TaskStep, BeginRefused, Begin, Reload, PollFailed, PollTimeout, PollNotFound,
              ClassifyPrimary, ClassifyGone, ClassifyExcluded, Load, Preflight, SavePayload, Record,
              Swap, Inspect, Erase, MarkReady, Submit, PostAccepted, MarkPending, Cleanup
<1>8. ASSUME NEW x \in Hash, WorkerFault(x)
      PROVE  UNCHANGED session \/ Exclude(x, TRUE)
  BY <1>8 DEF WorkerFault, TaskFault, PostAttemptLost, PostRejected, TaskError, CrashInExclusion
<1>9. CASE Environment \/ StartBatch \/ BatchDone \/ (\E h \in Hash, r \in Replay : Work(h, r))
           \/ Startup \/ Crash \/ RetryFailed \/ CancelQueuedWork
  BY <1>2, <1>9 DEF Environment, Edit, Reclassify, CompleteHeader, Transit, BankFault, Work, StartBatch, RunOnce,
                    BatchDone, Startup, Crash, RetryFailed, CancelQueuedWork
<1> QED BY <1>2, <1>3, <1>4, <1>5, <1>6, <1>7, <1>8, <1>9
        DEF Next, WorkerStep, Scan, ScanFault, Protected, ExcludedStatus

\* What a step can make of the state of a generation.
StateMoves(h) ==
  LET s == generation'[h].state
  IN  /\ \/ s = generation[h].state
         \/ s = "completed" /\ PollCompleted(h)
         \/ s = "cleanup_pending" /\ session'.kind # "primary"
         \/ s \in {"queued", "failed", "superseded"} \cup Active
      /\ generation[h].state = "none" => s = "none" \/ session'.status # "absent"
      /\ s = "none" => generation[h].state = "none"

\* Only its own poll completes a generation, and only an exclusion marks it for
\* a cleanup; a row is written first when a scan queues the content.
LEMMA StateSteps ==
  ASSUME TypeInv, OperationInv, OwnershipInv, Next, NEW h \in Hash
  PROVE  StateMoves(h)
<1> USE DEF TypeInv, dbVars, workerVars, localVars
<1>1. generation[h] \in Generation /\ session \in Session
  BY TaskTypes DEF TypeOK, DbTypeOK
<1>2. CASE UNCHANGED generation
  BY <1>2 DEF StateMoves
<1>3. ASSUME NEW x \in Hash, Engaged(x), NEW s \in {"failed", "superseded"} \cup Active,
             generation' = SetGenerationState(x, s)
      PROVE  StateMoves(h)
  <2>1. generation[x].state \in Active
    BY <1>3 DEF OwnershipInv, OwnerAt, Engaged
  <2> QED BY <1>3, <2>1, SetGenerationStateEffect DEF StateMoves, Active, GenerationState
<1>4. ASSUME generation' = MarkSessionGenerationsCleanupPending, session'.kind # "primary"
      PROVE  StateMoves(h)
  <2>1. \/ generation'[h] = generation[h]
        \/ /\ generation'[h] = [generation[h] EXCEPT !.state = "cleanup_pending"]
           /\ generation[h].state # "none"
    BY <1>4 DEF MarkSessionGenerationsCleanupPending, Moved
  <2> QED BY <1>1, <1>4, <2>1 DEF StateMoves, Generation
<1>5. ASSUME NEW H, generation' = Moved(H, {"queued", "failed"}, "superseded")
      PROVE  StateMoves(h)
  <2>1. \/ generation'[h] = generation[h]
        \/ /\ generation'[h] = [generation[h] EXCEPT !.state = "superseded"]
           /\ generation[h].state # "none"
    BY <1>5 DEF Moved
  <2> QED BY <1>1, <2>1 DEF StateMoves, Generation
<1>6. ASSUME NEW x \in Hash, NEW torn \in BOOLEAN, Exclude(x, torn)
      PROVE  StateMoves(h)
  <2>1. Engaged(x) /\ session'.kind # "primary"
    BY <1>1, <1>6 DEF Exclude, SetSessionClassification, Session, Engaged
  <2> QED BY <1>2, <1>3, <1>4, <1>6, <2>1 DEF Exclude
<1>7. ASSUME NEW x \in Hash, TaskStep(x)
      PROVE  StateMoves(h)
  <2>1. CASE Begin(x)
    <3>1. generation[x].state # "none"
      BY <2>1 DEF Begin, Claimable, Active
    <3>2. PICK row \in Generation : row.state \in Active /\ generation' = [generation EXCEPT ![x] = row]
      BY <2>1, BeginTask
    <3> QED BY <3>1, <3>2 DEF StateMoves, Active, TypeOK, DbTypeOK
  <2>2. CASE Record(x)
    <3>1. /\ generation' = [generation EXCEPT ![x] = task[x].gen] /\ task[x].gen.state \in Active
          /\ generation[x].state \in Active
      BY <2>2 DEF Record, OperationInv, OperationAt, IdentityAt, OwnershipInv, OwnerAt
    <3> QED BY <3>1 DEF StateMoves, Active, TypeOK, DbTypeOK
  <2>3. CASE PollCompleted(x)
    <3>1. generation' = SetGenerationState(x, "completed") /\ generation[x].state \in Active
      BY <2>3 DEF PollCompleted, OwnershipInv, OwnerAt
    <3> QED BY <2>3, <3>1, SetGenerationStateEffect DEF StateMoves, Active, GenerationState
  <2>4. CASE PollFailed(x) \/ PollTimeout(x) \/ PollNotFound(x) \/ ClassifyGone(x) \/ Load(x)
             \/ Preflight(x) \/ Inspect(x) \/ Submit(x)
    <3>1. /\ Engaged(x)
          /\ \/ UNCHANGED generation
             \/ \E s \in {"failed", "superseded"} \cup Active : generation' = SetGenerationState(x, s)
      BY <2>4 DEF PollFailed, CatchTerminal, PollTimeout, PollNotFound, ClassifyGone, Load, Preflight,
                  Inspect, Submit, Catch, Engaged, Active
    <3> QED BY <1>2, <1>3, <3>1
  <2>5. CASE ClassifyExcluded(x)
    BY <1>6, <2>5 DEF ClassifyExcluded
  <2>6. CASE BeginRefused(x) \/ Reload(x) \/ ClassifyPrimary(x) \/ SavePayload(x) \/ Swap(x)
             \/ Erase(x) \/ MarkReady(x) \/ PostAccepted(x) \/ MarkPending(x) \/ Cleanup(x)
    BY <1>2, <2>6 DEF BeginRefused, Reload, ClassifyPrimary, SavePayload, Swap, Erase, MarkReady,
                      PostAccepted, MarkPending, Cleanup
  <2> QED BY <1>7, <2>1, <2>2, <2>3, <2>4, <2>5, <2>6 DEF TaskStep
<1>8. ASSUME NEW x \in Hash, WorkerFault(x)
      PROVE  StateMoves(h)
  <2>1. CASE PostAttemptLost(x)
    BY <1>2, <2>1 DEF PostAttemptLost
  <2>2. CASE PostRejected(x) \/ TaskError(x)
    <3>1. Engaged(x) /\ \E s \in {"failed"} \cup Active : generation' = SetGenerationState(x, s)
      BY <2>2 DEF PostRejected, CatchTerminal, TaskError, Awaiting, Catch, Engaged, Active
    <3> QED BY <1>3, <3>1
  <2> QED BY <1>6, <1>8, <2>1, <2>2 DEF WorkerFault, TaskFault, CrashInExclusion
<1>9. ASSUME NEW torn \in BOOLEAN, ScanExcluded(torn)
      PROVE  StateMoves(h)
  <2>1. UNCHANGED generation \/ session'.kind # "primary"
    BY <1>1, <1>9 DEF ScanExcluded, SetSessionClassification, Session
  <2> QED BY <1>2, <1>4, <1>9, <2>1 DEF ScanExcluded
<1>10. CASE ScanLoaded \/ ScanTorn
  <2>1. session'.status # "absent"
    BY <1>1, <1>10 DEF ScanLoaded, ScanTorn, Scanned, Session
  <2>2. ASSUME NEW r \in Replay, source \in Hash,
               generation' = [SupersedeOlder(source) EXCEPT ![source] = Queued(source, r)]
        PROVE  StateMoves(h)
    <3>1. CASE h = source
      BY <2>1, <2>2, <3>1 DEF StateMoves, SupersedeOlder, Moved, Queued
    <3>2. CASE h # source
      <4>1. \/ generation'[h] = generation[h]
            \/ /\ generation'[h] = [generation[h] EXCEPT !.state = "superseded"]
               /\ generation[h].state # "none"
        BY <2>2, <3>2 DEF SupersedeOlder, Moved
      <4> QED BY <1>1, <4>1 DEF StateMoves, Generation
    <3> QED BY <3>1, <3>2
  <2> QED BY <1>2, <1>5, <1>10, <2>2 DEF ScanLoaded, ScanTorn, SupersedeOlder
<1>11. CASE RetryFailed
  BY <1>1, <1>11 DEF RetryFailed, ResetFailed, StateMoves, Generation
<1>12. CASE CancelQueuedWork
  BY <1>5, <1>12 DEF CancelQueuedWork, CancelQueued
<1>13. CASE ScanMissing \/ ScanUnchanged \/ ScanEmpty \/ Environment \/ StartBatch \/ BatchDone
            \/ (\E x \in Hash, q \in Replay : Work(x, q)) \/ Startup \/ Crash
  BY <1>2, <1>13 DEF ScanMissing, ScanUnchanged, ScanEmpty, Environment, Edit, Reclassify, CompleteHeader, Transit,
                     BankFault, Work, StartBatch, RunOnce, BatchDone, Startup, Crash
<1> QED BY <1>7, <1>8, <1>9, <1>10, <1>11, <1>12, <1>13 DEF Next, WorkerStep, Scan, ScanFault

\* What is acknowledged when a poll completes an operation.
LEMMA PollAcknowledges ==
  ASSUME TypeInv, NEW h \in Hash, PollCompleted(h)
  PROVE  session'.ack = h /\ generation'[h].state = "completed"
BY SetGenerationStateEffect DEF PollCompleted, Acknowledge, TypeInv, TypeOK, DbTypeOK, Session,
                                GenerationState

\* The rows of the session account for one another.
LEMMA StepRows ==
  ASSUME AllInv, OneWriterAssumption, RowsInv, NotCleanedInv, Next
  PROVE  RowsInv' /\ NotCleanedInv'
<1> USE DEF AllInv, TypeInv
<1>1. /\ \A h \in Hash : StateMoves(h)
      /\ session \in Session
  BY StateSteps DEF TypeOK, DbTypeOK
<1>2. session'.status = "absent" => session.status = "absent"
  BY SessionMoves
<1>3. UNCHANGED session.ack \/ \E h \in Hash : PollCompleted(h)
  BY AcknowledgedHashMoves
<1>4. session'.ack # None => generation'[session'.ack].state # "none"
  <2>1. ASSUME NEW h \in Hash, PollCompleted(h)
        PROVE  session'.ack = h /\ generation'[h].state = "completed"
    BY <2>1, PollAcknowledges
  <2>2. ASSUME UNCHANGED session.ack, session.ack # None
        PROVE  generation'[session'.ack].state # "none"
    <3>1. session.ack \in Hash
      BY <1>1, <2>2 DEF Session
    <3> QED BY <1>1, <2>2, <3>1 DEF StateMoves, RowsInv
  <2> QED BY <1>3, <2>1, <2>2
<1>5. ASSUME NEW h \in Hash, generation'[h].state # "none"
      PROVE  Known'
  BY <1>1, <1>2, <1>5 DEF StateMoves, RowsInv, Known
<1>6. ASSUME NEW h \in Hash, generation'[h].state = "completed"
      PROVE  session'.ack # None
  <2>1. ASSUME NEW x \in Hash, PollCompleted(x)
        PROVE  session'.ack # None
    BY <2>1, PollAcknowledges, HindsightAssumption
  <2> QED BY <1>1, <1>3, <1>6, <2>1 DEF StateMoves, RowsInv, Active
<1>7. ASSUME NEW h \in Hash, generation'[h].state = "cleanup_pending"
      PROVE  ~Retaining' \/ origin' = "database"
  <2>1. CASE generation[h].state = "cleanup_pending"
    BY <2>1, StaysLeft, OriginMoves DEF RowsInv, WriterInv, LeftForGood
  <2> QED BY <1>1, <1>7, <2>1 DEF StateMoves, Retaining, Active
<1>8. NotCleanedInv'
  <2>1. session'.status \in Protected => session'.kind # "primary"
    BY SessionMoves DEF NotCleanedInv
  <2>2. ASSUME NEW h \in Hash
        PROVE  generation'[h].state # "excluded"
    BY <1>1 DEF StateMoves, NotCleanedInv, Active
  <2> QED BY <2>1, <2>2 DEF NotCleanedInv
<1> QED BY <1>4, <1>5, <1>6, <1>7, <1>8 DEF RowsInv

-----------------------------------------------------------------------------
(* The document.                                                           *)

\* The document is replaced by an operation that completes, or deleted by a
\* repair.
LEMMA DocumentMoves ==
  ASSUME AllInv, Next, document' # document
  PROVE  \/ \E h \in Hash : Erase(h)
         \/ \E h \in Hash, r \in Replay : RemoteComplete(h, r)
<1>1. BankStep
  BY QuietStep
<1> QED BY <1>1 DEF BankStep, PostAccepted, PostAttemptLost, Work, BankFault, RemoteStart, RemoteFail,
                    Prune, Transit, Deliver, Drop, Crash

\* An operation is recorded as completed by the poll that acknowledges it.
LEMMA CompletesOnly ==
  ASSUME AllInv, OneWriterAssumption, Next, NEW h \in Hash, NEW r \in Replay,
         operation'[h][r] = "completed", operation[h][r] # "completed"
  PROVE  PollCompleted(h)
<1> USE DEF AllInv, TypeInv, dbVars, workerVars, localVars
<1>1. ASSUME NEW x \in Hash, NEW s \in OperationStatus \ {"completed"}, SetOperation(x, s)
      PROVE  FALSE
  BY <1>1, SetOperationEffect
<1>2. ASSUME NEW x \in Hash, PollFailed(x) \/ Record(x) \/ MarkReady(x) \/ Submit(x)
                             \/ MarkPending(x) \/ PostRejected(x)
      PROVE  FALSE
  BY <1>1, <1>2 DEF PollFailed, Record, MarkReady, Submit, MarkPending, PostRejected,
                    CatchTerminal, OperationStatus, Unsent, TerminalFailures
<1>3. ASSUME NEW x \in Hash, PollCompleted(x)
      PROVE  x = h
  BY <1>3, SetOperationEffect DEF PollCompleted, OperationStatus
<1>4. ASSUME NEW x \in Hash, TaskStep(x), ~UNCHANGED operation
      PROVE  PollCompleted(x)
  BY <1>2, <1>4 DEF TaskStep, BeginRefused, Begin, Reload, PollTimeout, PollNotFound,
       ClassifyPrimary, ClassifyGone, ClassifyExcluded, Exclude, Load, Preflight, SavePayload, Swap,
       Inspect, Erase, PostAccepted, Cleanup
<1>5. ASSUME NEW x \in Hash, WorkerFault(x)
      PROVE  UNCHANGED operation
  BY <1>2, <1>5 DEF WorkerFault, TaskFault, PostAttemptLost, TaskError, CrashInExclusion, Exclude
<1>6. UNCHANGED operation \/ \E x \in Hash : TaskStep(x) \/ WorkerFault(x)
  BY DEF Next, WorkerStep, Environment, Edit, Reclassify, CompleteHeader, Transit, BankFault, Work,
         StartBatch, RunOnce, BatchDone, Scan, ScanMissing, ScanExcluded, ScanUnchanged,
         ScanEmpty, ScanLoaded, ScanFault, ScanTorn, Startup, Crash, RetryFailed, CancelQueuedWork
<1> QED BY <1>3, <1>4, <1>5, <1>6

\* Payload files go when their operation is completed, or when a fresh identity
\* has taken their content over.
LEMMA PayloadMoves ==
  ASSUME AllInv, Next, NEW h \in Hash, NEW r \in Replay,
         payload[h][r] = h, operation[h][r] # "completed"
  PROVE  \/ payload'[h][r] = h
         \/ /\ UNCHANGED operation
            /\ \E q \in Replay : payload'[h][q] = h /\ operation[h][q] # "completed"
<1> USE DEF AllInv, TypeInv, dbVars, workerVars, localVars
<1>1. payload \in [Hash -> [Replay -> Hash \cup {None}]]
  BY DEF TypeOK, DbTypeOK
<1>2. CASE UNCHANGED payload
  BY <1>2
<1>3. ASSUME NEW x \in Hash, SavePayload(x)
      PROVE  payload'[h][r] = h
  <2>1. task[x].doc = x
    BY <1>3 DEF SavePayload, OwnContent, OwnTasks, Carrying
  <2> QED BY <1>1, <1>3, <2>1, TaskTypes DEF SavePayload
<1>4. ASSUME NEW x \in Hash, Cleanup(x)
      PROVE  payload'[h][r] = h
  <2>1. Persisted(x) = "completed"
    BY <1>4 DEF Cleanup, OperationInv, OperationAt, RowAt
  <2> QED BY <1>1, <1>4, <2>1, TaskTypes DEF Cleanup, CleanupPayload, Persisted
<1>5. ASSUME NEW x \in Hash, Swap(x), payload'[h][r] # h
      PROVE  /\ UNCHANGED operation
             /\ \E q \in Replay : payload'[h][q] = h /\ operation[h][q] # "completed"
  <2> DEFINE q == task[x].gen.replay
  <2>1. payload' = [payload EXCEPT ![x][task[x].old] = None] /\ UNCHANGED operation
    BY <1>5, <1>2 DEF Swap, CleanupPayload
  <2>2. operation[x][q] = "prepared" /\ payload[x][q] = x /\ q \in Replay
    BY <1>5, TaskTypes DEF Swap, OperationInv, OperationAt, RowAt, RecoverableAt, Persisted, Unsent
  <2>3. task[x].old # q
    BY <1>5, <2>2 DEF Swap, OperationInv, OperationAt, FilesAt, TerminalFailures
  <2>4. x = h
    BY <1>1, <1>5, <2>1
  <2>5. payload'[h][q] = h
    BY <1>1, <2>1, <2>2, <2>3, <2>4
  <2> QED BY <2>1, <2>2, <2>4, <2>5
<1>6. CASE Startup
  BY <1>6 DEF Startup
<1>7. ASSUME NEW x \in Hash, TaskStep(x), ~SavePayload(x), ~Cleanup(x), ~Swap(x)
      PROVE  UNCHANGED payload
  BY <1>7 DEF TaskStep, BeginRefused, Begin, Reload, PollCompleted, PollFailed, PollTimeout,
       PollNotFound, ClassifyPrimary, ClassifyGone, ClassifyExcluded, Exclude, Load, Preflight,
       Record, Inspect, Erase, MarkReady, Submit, PostAccepted, MarkPending
<1>8. ASSUME NEW x \in Hash, WorkerFault(x)
      PROVE  UNCHANGED payload
  BY <1>8 DEF WorkerFault, TaskFault, PostAttemptLost, PostRejected, TaskError, CrashInExclusion,
              Exclude
<1>9. CASE Environment \/ (\E x \in Hash, q \in Replay : Work(x, q)) \/ StartBatch \/ BatchDone
           \/ Scan \/ ScanFault \/ Crash \/ RetryFailed \/ CancelQueuedWork
  BY <1>2, <1>9 DEF Environment, Edit, Reclassify, CompleteHeader, Transit, BankFault, Work, StartBatch, RunOnce,
       BatchDone, Scan, ScanMissing, ScanExcluded, ScanUnchanged, ScanEmpty, ScanLoaded, ScanFault,
       ScanTorn, Crash, RetryFailed, CancelQueuedWork
<1> QED BY <1>2, <1>3, <1>4, <1>5, <1>6, <1>7, <1>8, <1>9 DEF Next, WorkerStep

\* A document is deleted when its replacement is on disk, which stays there until
\* the replacement has landed.
LEMMA StepErased ==
  ASSUME AllInv, OneWriterAssumption, DocumentInv, Next
  PROVE  ErasedInv'
<1> USE DEF AllInv, TypeInv
<1> SUFFICES ASSUME document' = None, session'.ack # None
             PROVE  Upgraded /\ \E h \in Hash, r \in Replay : ErasedAt(h, r)'
  BY DEF ErasedInv
<1>1. ASSUME NEW h \in Hash, Erase(h)
      PROVE  Upgraded /\ \E r \in Replay : ErasedAt(h, r)'
  <2>1. Upgraded
    BY <1>1 DEF Erase, DocumentInv, RepairsAreUpgrades
  <2>2. /\ Persisted(h) = "prepared" /\ payload[h][task[h].gen.replay] = h
        /\ task[h].gen.replay \in Replay
    BY <1>1, TaskTypes DEF Erase, OperationInv, OperationAt, RowAt, RecoverableAt, Persisted, Unsent
  <2>3. UNCHANGED <<payload, operation>>
    BY <1>1 DEF Erase, dbVars
  <2> QED BY <2>1, <2>2, <2>3 DEF ErasedAt, Persisted
<1>2. ASSUME NEW h \in Hash, NEW r \in Replay, RemoteComplete(h, r)
      PROVE  FALSE
  BY <1>2, CompletionLands, HindsightAssumption
<1>3. ASSUME NEW h \in Hash, PollCompleted(h)
      PROVE  FALSE
  <2>1. document = h /\ UNCHANGED document
    BY <1>3, AcknowledgesDocument DEF PollCompleted, remoteVars
  <2> QED BY <2>1, HindsightAssumption
<1>4. CASE UNCHANGED document /\ ~\E h \in Hash : PollCompleted(h)
  <2>1. document = None /\ session.ack # None
    BY <1>4, AcknowledgedHashMoves
  <2>2. PICK h \in Hash, r \in Replay : ErasedAt(h, r)
    BY <2>1 DEF DocumentInv, ErasedInv
  <2>3. Upgraded
    BY <2>1 DEF DocumentInv, ErasedInv
  <2>4. \A q \in Replay : operation[h][q] # "completed" => operation'[h][q] # "completed"
    BY <1>4, CompletesOnly
  <2> QED BY <2>2, <2>3, <2>4, PayloadMoves DEF ErasedAt
<1> QED BY <1>1, <1>2, <1>3, <1>4, DocumentMoves

\* The bank keeps what it received, and what it completed unless it forgets.
LEMMA BankKeeps ==
  ASSUME AllInv, Next, NEW h \in Hash, NEW r \in Replay
  PROVE  /\ body[h][r] # None => body'[h][r] # None
         /\ remote[h][r] = "completed" => remote'[h][r] = "completed" \/ Forgets
<1> USE DEF AllInv, TypeInv
<1> DEFINE Keeps == /\ body[h][r] # None => body'[h][r] # None
                    /\ remote[h][r] = "completed" => remote'[h][r] = "completed" \/ Forgets
<1>1. CASE UNCHANGED <<remote, body>>
  BY <1>1
<1>2. ASSUME NEW m \in Request, m.content = m.hash, Receive(m)
      PROVE  Keeps
  BY <1>2, ReceiveEffect, HindsightAssumption
<1>3. ASSUME NEW x \in Hash, PostAccepted(x)
      PROVE  Keeps
  BY <1>2, <1>3, RetainType DEF PostAccepted, Retain
<1>4. ASSUME NEW m \in wire, Transit(m)
      PROVE  Keeps
  <2>1. m \in Request /\ m.content = m.hash
    BY DEF TypeOK, RemoteTypeOK, OwnContent, OwnRequests
  <2> QED BY <1>1, <1>2, <1>4, <2>1 DEF Transit, Deliver, Drop
<1>5. ASSUME NEW x \in Hash, NEW q \in Replay, Work(x, q) \/ BankFault(x, q)
      PROVE  Keeps
  <2>1. PICK s \in RemoteStatus :
          SetRemote(x, q, s) /\ UNCHANGED body /\ (remote[x][q] = "completed" => Forgets)
    BY <1>5 DEF Work, BankFault, RemoteStart, RemoteComplete, RemoteFail, Prune, Unfinished,
                RemoteStatus
  <2> QED BY <2>1, SetRemoteEffect
<1>6. CASE \E x \in Hash : PostAttemptLost(x) \/ Erase(x)
  BY <1>1, <1>6 DEF PostAttemptLost, Erase
<1>7. CASE Crash
  BY <1>1, <1>7 DEF Crash
<1> QED BY <1>1, <1>3, <1>4, <1>5, <1>6, <1>7, QuietStep DEF BankStep

\* An operation that was sent ends without being completed only when the bank
\* reports that it failed, or rejects it without having received it.
LEMMA FailsOnly ==
  ASSUME AllInv, OneWriterAssumption, Next, NEW h \in Hash, NEW r \in Replay, Sent(h, r),
         operation'[h][r] \notin {"submitting", "pending"}, ~PollCompleted(h)
  PROVE  body[h][r] = None \/ (remote[h][r] = "failed" /\ operation'[h][r] = "failed")
<1> USE DEF AllInv, TypeInv, dbVars, workerVars, localVars
<1> DEFINE Ends == body[h][r] = None \/ (remote[h][r] = "failed" /\ operation'[h][r] = "failed")
<1>1. CASE UNCHANGED operation
  BY <1>1 DEF Sent
<1>2. ASSUME NEW x \in Hash, Engaged(x)
      PROVE  /\ x = h /\ task[x].gen.replay = r /\ task[x].pc # "record"
             /\ Persisted(x) \in {"submitting", "pending"}
  BY <1>2, EngagedSent
<1>3. ASSUME NEW x \in Hash, NEW s \in OperationStatus, Engaged(x), SetOperation(x, s)
      PROVE  operation'[h][r] = s
  BY <1>2, <1>3, SetOperationEffect
<1>4. ASSUME NEW x \in Hash, PollFailed(x)
      PROVE  Ends
  <2>1. Engaged(x) /\ SetOperation(x, "failed") /\ Polled(x) = "failed"
    BY <1>4 DEF PollFailed, CatchTerminal, Engaged
  <2> QED BY <1>2, <1>3, <2>1 DEF Polled, OperationStatus, TerminalFailures
<1>5. ASSUME NEW x \in Hash, Record(x) \/ MarkReady(x) \/ PollCompleted(x)
      PROVE  FALSE
  <2>1. Engaged(x)
    BY <1>5 DEF Record, MarkReady, PollCompleted, Engaged
  <2> QED BY <1>2, <1>5, <2>1 DEF Record, MarkReady, OperationInv, OperationAt, RowAt
<1>6. ASSUME NEW x \in Hash, Submit(x) \/ MarkPending(x)
      PROVE  FALSE
  <2>1. Engaged(x) /\ \E s \in {"submitting", "pending"} : SetOperation(x, s)
    BY <1>6 DEF Submit, MarkPending, Engaged
  <2> QED BY <1>3, <2>1 DEF OperationStatus
<1>7. ASSUME NEW x \in Hash, PostRejected(x)
      PROVE  Ends
  <2>1. Engaged(x) /\ ~AttemptLost(x)
    BY <1>7 DEF PostRejected, OneWriterAssumption, Engaged
  <2> QED BY <1>2, <2>1 DEF AttemptLost
<1>8. ASSUME NEW x \in Hash, TaskStep(x)
      PROVE  Ends
  BY <1>1, <1>4, <1>5, <1>6, <1>8 DEF TaskStep, BeginRefused, Begin, Reload, PollTimeout,
     PollNotFound, ClassifyPrimary, ClassifyGone, ClassifyExcluded, Exclude, Load, Preflight,
     SavePayload, Swap, Inspect, Erase, PostAccepted, Cleanup
<1>9. ASSUME NEW x \in Hash, WorkerFault(x)
      PROVE  Ends
  BY <1>1, <1>7, <1>9 DEF WorkerFault, TaskFault, PostAttemptLost, TaskError, CrashInExclusion,
     Exclude
<1>10. UNCHANGED operation \/ \E x \in Hash : TaskStep(x) \/ WorkerFault(x)
  BY DEF Next, WorkerStep, Environment, Edit, Reclassify, CompleteHeader, Transit, BankFault, Work,
         StartBatch, RunOnce, BatchDone, Scan, ScanMissing, ScanExcluded, ScanUnchanged,
         ScanEmpty, ScanLoaded, ScanFault, ScanTorn, Startup, Crash, RetryFailed, CancelQueuedWork
<1> QED BY <1>1, <1>8, <1>9, <1>10

\* What the document holds is acknowledged, or on record: it is what the
\* operation wrote that is to be polled, or one that the bank has forgotten.
LEMMA StepAccounted ==
  ASSUME AllInv, OneWriterAssumption, AccountedInv, Next
  PROVE  AccountedInv'
<1> USE DEF AllInv, TypeInv
<1>1. CASE document' = None
  BY <1>1 DEF AccountedInv
<1>2. ASSUME NEW x \in Hash, NEW q \in Replay, RemoteComplete(x, q)
      PROVE  Unacknowledged(x)'
  <2>1. <<x, q>> \in Open /\ document' = x
    BY <1>2, CompletionLands
  <2>2. Holds(x, q)' /\ operation'[x][q] \in {"submitting", "pending"}
    BY <2>1, OpenKeepsGeneration
  <2>3. generation'[x].replay = q
    BY <2>2 DEF Holds
  <2>4. remote[x][q] = "processing" /\ SetRemote(x, q, "completed")
    BY <1>2 DEF RemoteComplete
  <2>5. remote'[x][q] = "completed"
    BY <2>4, SetRemoteEffect DEF RemoteStatus
  <2>6. body[x][q] # None
    BY <2>4 DEF WriterInv, RemoteAt
  <2>7. body'[x][q] # None
    BY <2>6, BankKeeps
  <2> QED BY <2>1, <2>2, <2>3, <2>5, <2>7 DEF Unacknowledged, Sent
<1>3. ASSUME NEW x \in Hash, PollCompleted(x)
      PROVE  AccountedInv'
  BY <1>3, AcknowledgesDocument DEF AccountedInv, PollCompleted, remoteVars
<1>4. ASSUME UNCHANGED document, ~\E x \in Hash : PollCompleted(x)
      PROVE  AccountedInv'
  <2>1. UNCHANGED session.ack
    BY <1>4, AcknowledgedHashMoves
  <2>2. CASE document \in {session.ack, None}
    BY <1>4, <2>1, <2>2 DEF AccountedInv
  <2>3. CASE Overwritten
    <3>1. PICK h \in Hash, r \in Replay : Forgets /\ document = h /\ operation[h][r] = "failed"
      BY <2>3 DEF Overwritten
    <3>2. operation'[h][r] = "failed"
      BY <3>1, OperationWrites, SetOperationEffect DEF Persisted, TerminalFailures
    <3> QED BY <1>4, <3>1, <3>2 DEF AccountedInv, Overwritten
  <2>4. ASSUME NEW h \in Hash, Unacknowledged(h)
        PROVE  AccountedInv'
    <3> DEFINE r == generation[h].replay
    <3>1. document = h /\ Sent(h, r) /\ r \in Replay
      BY <2>4, TaskTypes DEF Unacknowledged
    <3>2. body[h][r] # None /\ (remote[h][r] = "completed" \/ Forgets)
      BY <2>4 DEF Unacknowledged
    <3>3. CASE operation'[h][r] \in {"submitting", "pending"}
      <4>1. Holds(h, r)' /\ generation'[h].replay = r
        BY <3>1, <3>3, SentKeepsGeneration DEF Holds
      <4>2. body'[h][r] # None /\ (remote'[h][r] = "completed" \/ Forgets)
        BY <3>1, <3>2, BankKeeps
      <4>3. Unacknowledged(h)'
        BY <1>4, <3>1, <3>3, <4>1, <4>2 DEF Unacknowledged, Sent
      <4> QED BY <4>3 DEF AccountedInv
    <3>4. CASE operation'[h][r] \notin {"submitting", "pending"}
      <4>1. remote[h][r] = "failed" /\ operation'[h][r] = "failed"
        BY <1>4, <3>1, <3>2, <3>4, FailsOnly
      <4> QED BY <1>4, <3>1, <3>2, <4>1 DEF AccountedInv, Overwritten
    <3> QED BY <3>3, <3>4
  <2> QED BY <2>2, <2>3, <2>4 DEF AccountedInv
<1>5. CASE \E x \in Hash : Erase(x)
  BY <1>1, <1>5 DEF Erase
<1> QED BY <1>2, <1>3, <1>4, <1>5, DocumentMoves DEF AccountedInv

-----------------------------------------------------------------------------
(* The induction.                                                          *)

DocumentAllInv == AllInv /\ DocumentInv /\ NotCleanedInv

\* A new state has nothing, and one from before the current policy what it
\* acknowledged.
LEMMA InitDocument ==
  ASSUME Init
  PROVE  DocumentInv /\ NotCleanedInv
<1>1. task = [h \in Hash |-> NoTask]
  BY DEF Init
<1>2. /\ session.ack \in Hash \cup {None} /\ document = session.ack
      /\ session.status \notin Protected
  BY HindsightAssumption DEF Init, Fresh, Legacy, NoSession, Protected, ExcludedStatus
<1>3. RepairsAreUpgrades
  <2>1. ASSUME ~Upgraded
        PROVE  session.policy = "current" /\ \A h \in Hash : generation[h] = NoGeneration
    BY <2>1 DEF Init, Fresh, NoSession
  <2> QED BY <1>1, <2>1 DEF RepairsAreUpgrades, NoTask, NoGeneration
<1>4. RowsInv /\ \A h \in Hash : generation[h].state # "excluded"
  <2>1. CASE Fresh
    BY <2>1 DEF Fresh, NoSession, NoGeneration, RowsInv
  <2>2. ASSUME NEW g \in Hash, Legacy(g)
        PROVE  RowsInv /\ \A h \in Hash : generation[h].state # "excluded"
    <3>1. /\ session.ack = g /\ session.status = "imported"
          /\ generation[g].state = "completed"
          /\ \A h \in Hash \ {g} : generation[h].state = "none"
      BY <2>2 DEF Legacy, NoGeneration
    <3> QED BY <2>2, <3>1, HindsightAssumption DEF RowsInv, Known
  <2> QED BY <2>1, <2>2 DEF Init
<1> QED BY <1>2, <1>3, <1>4 DEF DocumentInv, ErasedInv, AccountedInv, NotCleanedInv

\* Every step of the system keeps rows and document accounted for.
LEMMA StepDocument ==
  ASSUME DocumentAllInv, OneWriterAssumption, [Next]_vars
  PROVE  DocumentAllInv'
<1> USE DEF DocumentAllInv
<1>1. AllInv'
  BY StepAll
<1>2. CASE Next
  BY <1>1, <1>2, StepRepairs, StepErased, StepAccounted, StepRows DEF AllInv, DocumentInv
<1>3. CASE UNCHANGED vars
  BY <1>1, <1>3 DEF vars, dbVars, remoteVars, workerVars, sourceVars, DocumentInv, RepairsAreUpgrades,
     ErasedInv, ErasedAt, AccountedInv, Unacknowledged, Sent, Holds, Retaining, Overwritten, RowsInv,
     Known, NotCleanedInv
<1> QED BY <1>2, <1>3

\* The inductive invariant holds.
THEOREM DocumentsAreAccounted ==
  ASSUME OneWriterAssumption
  PROVE  Spec => []DocumentAllInv
<1>1. Init => DocumentAllInv
  BY InitTypes, InitOperations, InitOwnership, InitWriter, InitDocument DEF DocumentAllInv, AllInv
<1>2. DocumentAllInv /\ [Next]_vars => DocumentAllInv'
  BY StepDocument
<1> QED BY <1>1, <1>2, PTL DEF Spec

\* What a repair deleted from the bank is on disk until it is in the bank again,
\* whatever fails, is cancelled or crashes in between.
THEOREM ErasedDocumentsAreKept ==
  ASSUME OneWriterAssumption
  PROVE  Spec => []ErasedIsOnDisk
<1>1. DocumentAllInv => ErasedIsOnDisk
  BY DEF DocumentAllInv, DocumentInv, ErasedInv, ErasedAt, ErasedIsOnDisk
<1> QED BY <1>1, DocumentsAreAccounted, PTL

\* While nothing is being sent, or waits for a cleanup, what is acknowledged is
\* in the bank, but for a repair that was given up and a bank that forgets.
THEOREM AcknowledgedDocumentsAreRemote ==
  ASSUME OneWriterAssumption
  PROVE  Spec => []AcknowledgedIsRemote
<1>1. DocumentAllInv => AcknowledgedIsRemote
  BY DEF DocumentAllInv, DocumentInv, ErasedInv, AccountedInv, Unacknowledged, Sent, Holds,
         AcknowledgedIsRemote
<1> QED BY <1>1, DocumentsAreAccounted, PTL

\* A cycle that leaves no work has nothing to report but in the three cases
\* that the property names.
LEMMA AccountedIsVerified ==
  ASSUME DocumentAllInv
  PROVE  NoWorkIsVerified
<1> USE DEF DocumentAllInv, DocumentInv
<1> SUFFICES ASSUME ~PendingWork, Undisturbed, ~Requeued, ~Erased, ~Overwritten
             PROVE  DocumentAccountingReady
  BY DEF NoWorkIsVerified
<1>1. \A h \in Hash : generation[h].state \in {"none", "completed", "superseded"}
  BY TaskTypes DEF AllInv, TypeInv, PendingWork, Undisturbed, FailedWork, Eligible, NotCleanedInv,
                   Generation, GenerationState
<1>2. session.kind = "primary" /\ session.status \notin Protected /\ session \in Session
  BY DEF Undisturbed, NotCleanedInv, AllInv, TypeInv, TypeOK, DbTypeOK
<1>3. ~Excluded
  BY <1>1, <1>2 DEF Excluded, Protected
<1>4. document \in {session.ack, None}
  BY <1>1 DEF AccountedInv, Unacknowledged, Sent, Holds, Active
<1>5. ~Missing
  BY DEF Missing, Expected, RowsInv, ErasedInv, ErasedAt, Erased
<1>6. ~Unexpected
  <2>1. ASSUME document # None
        PROVE  Expected
    <3>1. session.ack \in Hash /\ generation[session.ack].state # "none"
      BY <1>2, <1>4, <2>1 DEF Session, RowsInv
    <3>2. generation[session.ack].state = "completed"
      BY <1>1, <1>4, <2>1, <3>1 DEF Requeued
    <3> QED BY <3>1, <3>2 DEF Expected, RowsInv
  <2> QED BY <2>1 DEF Unexpected
<1> QED BY <1>3, <1>4, <1>5, <1>6
        DEF DocumentAccountingReady, ExcludedPresent, HashMismatch, Undisturbed

\* A daemon whose work is done does not fail cycle after cycle on what its own
\* edits, faults, retries and cancellations left.
THEOREM FinishedWorkIsVerified ==
  ASSUME OneWriterAssumption
  PROVE  Spec => []NoWorkIsVerified
<1>1. DocumentAllInv => NoWorkIsVerified
  BY AccountedIsVerified
<1> QED BY <1>1, DocumentsAreAccounted, PTL

=============================================================================
