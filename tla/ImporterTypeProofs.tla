------------------------- MODULE ImporterTypeProofs -------------------------
(***************************************************************************)
(* Type correctness of Importer for every value of its constants, and with *)
(* it that an identity stands for one content: a request of the right type *)
(* carries the content its generation is made for, so the two are proved   *)
(* by one induction.                                                       *)
(***************************************************************************)
EXTENDS ImporterInvariants, TLAPS

\* The invariant of the induction.
TypeInv == TypeOK /\ OwnContent

-----------------------------------------------------------------------------
(* What the statements of the worker and the database yield.               *)

\* The rows and tasks the code starts from have their types.
LEMMA EmptyRecordTypes ==
  NoTask \in Task /\ NoGeneration \in Generation /\ NoSession \in Session
BY HindsightAssumption, StateDbAssumption
   DEF NoTask, Task, NoGeneration, Generation, PC, OperationStatus, Policy, GenerationState,
       Active, NoSession, Session, SessionStatus, Kind, Replay

\* setGenerationState writes a row of table generations.
LEMMA SetGenerationStateType ==
  ASSUME TypeOK, NEW h \in Hash, NEW s \in GenerationState
  PROVE  SetGenerationState(h, s) \in [Hash -> Generation]
BY DEF TypeOK, DbTypeOK, SetGenerationState, Generation

\* So does every conditional update of states.
LEMMA MovedType ==
  ASSUME TypeOK, NEW H, NEW from, NEW to \in GenerationState
  PROVE  Moved(H, from, to) \in [Hash -> Generation]
BY DEF TypeOK, DbTypeOK, Moved, Generation

\* claimGeneration counts the attempt of a generation it starts.
LEMMA ClaimedType ==
  ASSUME TypeOK, NEW h \in Hash
  PROVE  Claimed(h) \in Generation
<1>1. generation[h] \in Generation
  BY DEF TypeOK, DbTypeOK
<1>2. CASE generation[h].state \in {"queued", "failed"}
  <2> DEFINE a == IF generation[h].attempts < MaxAttempts THEN generation[h].attempts + 1
                  ELSE generation[h].attempts
  <2>1. a \in 0 .. MaxAttempts
    BY <1>1, StateDbAssumption DEF Generation
  <2>2. Claimed(h) = [generation[h] EXCEPT !.state = "processing", !.attempts = a]
    BY <1>2 DEF Claimed
  <2> HIDE DEF a
  <2> QED BY <1>1, <2>1, <2>2 DEF Generation, GenerationState, Active
<1> QED BY <1>1, <1>2 DEF Claimed

\* acknowledgeGeneration writes a session row.
LEMMA AcknowledgeType ==
  ASSUME TypeOK, NEW h \in Hash, NEW p \in Policy
  PROVE  Acknowledge(h, p) \in Session
BY DEF TypeOK, DbTypeOK, Acknowledge, Session, SessionStatus

\* setSessionClassification writes a session row too.
LEMMA ClassificationType ==
  ASSUME TypeOK, NEW k \in Kind, NEW s \in SessionStatus
  PROVE  SetSessionClassification(k, s) \in Session
BY DEF TypeOK, DbTypeOK, SetSessionClassification, Session

\* upsertOperation writes a row of table operations.
LEMMA SetOperationType ==
  ASSUME TypeOK, NEW h \in Hash, NEW s \in OperationStatus, SetOperation(h, s)
  PROVE  operation' \in [Hash -> [Replay -> OperationStatus]]
BY DEF TypeOK, DbTypeOK, WorkerTypeOK, SetOperation, Task, Generation

\* A task that moves on.
LEMMA GotoType ==
  ASSUME TypeOK, NEW h \in Hash, NEW pc \in PC, Goto(h, pc)
  PROVE  task' \in [Hash -> Task]
BY DEF TypeOK, WorkerTypeOK, Goto, Task

\* A task that has loaded its content, and moves on.
LEMMA LoadedTaskType ==
  ASSUME NEW t \in Task, NEW d \in Hash \cup {None}, NEW pc \in PC
  PROVE  [t EXCEPT !.doc = d, !.pc = pc] \in Task
BY DEF Task

\* A task whose operation row was written.
LEMMA RecordedTaskType ==
  ASSUME NEW t \in Task, NEW o \in OperationStatus, NEW pc \in PC
  PROVE  [t EXCEPT !.op = o, !.pc = pc] \in Task
BY DEF Task

\* A task that ends.
LEMMA FinishType ==
  ASSUME TypeOK, NEW h \in Hash, Finish(h)
  PROVE  task' \in [Hash -> Task]
BY EmptyRecordTypes DEF TypeOK, WorkerTypeOK, Finish

\* An error with an open remote outcome ends the task and writes its generation.
LEMMA CatchType ==
  ASSUME TypeOK, NEW h \in Hash, Catch(h)
  PROVE  generation' \in [Hash -> Generation] /\ task' \in [Hash -> Task]
BY SetGenerationStateType, FinishType DEF Catch, GenerationState

\* An operation known to have failed ends the task and writes both rows.
LEMMA CatchTerminalType ==
  ASSUME TypeOK, NEW h \in Hash, NEW s \in TerminalFailures, CatchTerminal(h, s)
  PROVE  /\ generation' \in [Hash -> Generation]
         /\ task' \in [Hash -> Task]
         /\ operation' \in [Hash -> [Replay -> OperationStatus]]
BY SetGenerationStateType, FinishType, SetOperationType
   DEF CatchTerminal, GenerationState, OperationStatus

\* A fault stays within its bound, also the one that keeps a payload file.
LEMMA FaultType ==
  ASSUME TypeOK, Fault
  PROVE  faults' \in 0 .. MaxFaults
BY WorkerAssumption DEF TypeOK, WorkerTypeOK, Fault

\* Removing a payload file, or failing to.
LEMMA CleanupPayloadType ==
  ASSUME TypeOK, NEW h \in Hash, NEW r \in Replay \cup {None}, CleanupPayload(h, r)
  PROVE  /\ payload' \in [Hash -> [Replay -> Hash \cup {None}]]
         /\ faults' \in 0 .. MaxFaults
<1>1. CASE Fault /\ UNCHANGED payload
  BY <1>1, FaultType DEF TypeOK, DbTypeOK
<1>2. CASE payload' = [payload EXCEPT ![h][r] = None] /\ UNCHANGED faults
  BY <1>2 DEF TypeOK, DbTypeOK, WorkerTypeOK
<1> QED BY <1>1, <1>2 DEF CleanupPayload

\* The bank keeps its type when an operation changes its status ...
LEMMA SetRemoteType ==
  ASSUME TypeOK, NEW h \in Hash, NEW r \in Replay, NEW s \in RemoteStatus, SetRemote(h, r, s)
  PROVE  remote' \in [Hash -> [Replay -> RemoteStatus]]
BY DEF TypeOK, RemoteTypeOK, SetRemote

\* ... and when it receives a request that has one.
LEMMA ReceiveType ==
  ASSUME TypeOK, NEW m \in Request, Receive(m)
  PROVE  /\ remote' \in [Hash -> [Replay -> RemoteStatus]]
         /\ body' \in [Hash -> [Replay -> Hash \cup {None}]]
<1>1. m.hash \in Hash /\ m.replay \in Replay /\ m.content \in Hash
  BY DEF Request
<1>2. CASE remote[m.hash][m.replay] = "absent"
  <2>1. remote' \in [Hash -> [Replay -> RemoteStatus]]
    BY <1>1, <1>2, SetRemoteType DEF Receive, RemoteStatus
  <2>2. body' \in [Hash -> [Replay -> Hash \cup {None}]]
    <3>1. body' = [body EXCEPT ![m.hash][m.replay] = m.content]
      BY <1>2 DEF Receive
    <3> QED BY <1>1, <3>1 DEF TypeOK, RemoteTypeOK
  <2> QED BY <2>1, <2>2
<1>3. CASE remote[m.hash][m.replay] # "absent"
  BY <1>3 DEF TypeOK, RemoteTypeOK, Receive
<1> QED BY <1>2, <1>3

\* A task that sends has a request to send: the content of its generation.
LEMMA RetainType ==
  ASSUME TypeInv, NEW h \in Hash, task[h].pc = "post"
  PROVE  Retain(h) \in Request /\ Retain(h).content = h
BY DEF TypeInv, TypeOK, WorkerTypeOK, OwnContent, OwnTasks, Carrying, Retain, Request, Task, Generation

\* The exclusion of a session writes rows of the right types.
LEMMA ExcludeType ==
  ASSUME TypeOK, NEW h \in Hash, NEW torn \in BOOLEAN, Exclude(h, torn)
  PROVE  /\ session' \in Session
         /\ generation' \in [Hash -> Generation]
         /\ tombstone' \subseteq Identity \X Identity
<1> DEFINE k == EffectiveKind(StoredKey, StructuralKind(h))
<1>1. k \in Kind
  BY DEF TypeOK, WorkerTypeOK, EffectiveKind, StructuralKind, Kind
<1>2. ExcludedAs(k) \in SessionStatus
  BY <1>1 DEF ExcludedAs, Kind, SessionStatus, Protected, ExcludedStatus
<1>3. session' \in Session
  BY <1>1, <1>2, ClassificationType DEF Exclude, SessionStatus, Protected
<1>4. generation' \in [Hash -> Generation]
  BY MovedType, SetGenerationStateType
     DEF Exclude, MarkSessionGenerationsCleanupPending, GenerationState, TypeOK, DbTypeOK
<1>5. tombstone' \subseteq Identity \X Identity
  BY DEF Exclude, StoredKey, Identity, TypeOK, WorkerTypeOK
<1> QED BY <1>3, <1>4, <1>5

\* A task begins in one of three ways: it replaces a failed identity by a fresh
\* one, it goes on with what was never sent, or it polls.
LEMMA BeginTask ==
  ASSUME TypeOK, NEW h \in Hash, Begin(h)
  PROVE  \E row \in Generation, t \in Task :
           /\ row.replay = generation[h].replay
           /\ row.state \in Active
           /\ generation' = [generation EXCEPT ![h] = row]
           /\ task' = [task EXCEPT ![h] = t]
           /\ t.gen = row /\ t.op = operation[h][row.replay]
           /\ t.doc = None /\ t.old = None
           /\ \/ t.pc = "reload" /\ t.op \in TerminalFailures
              \/ t.pc = "classify" /\ t.op \in Unsent \cup {"none"}
              \/ t.pc = "poll" /\ t.op \notin Unsent \cup TerminalFailures \cup {"none"}
<1> DEFINE row == WithoutStaleRepair(h, Claimed(h))
           status == operation[h][row.replay]
           pc == CASE status \in TerminalFailures -> "reload"
                   [] status \in Unsent \cup {"none"} -> "classify"
                   [] OTHER -> "poll"
           t == [NoTask EXCEPT !.pc = pc, !.gen = row, !.op = status]
<1>1. row \in Generation /\ row.replay = generation[h].replay /\ row.state \in Active
  <2>1. Claimed(h) \in Generation
    BY ClaimedType
  <2>2. Claimed(h).replay = generation[h].replay /\ Claimed(h).state \in Active
    <3>1. generation[h] \in Generation
      BY DEF TypeOK, DbTypeOK
    <3>2. generation[h].state \in {"queued", "failed"} \cup Active
      BY DEF Begin, Claimable, Active
    <3> QED BY <3>1, <3>2 DEF Claimed, Generation, Active
  <2> QED BY <2>1, <2>2 DEF WithoutStaleRepair, Generation
<1>2. status \in OperationStatus
  BY <1>1 DEF TypeOK, DbTypeOK, Generation
<1>3. \/ pc = "reload" /\ status \in TerminalFailures
      \/ pc = "classify" /\ status \in Unsent \cup {"none"}
      \/ pc = "poll" /\ status \notin Unsent \cup TerminalFailures \cup {"none"}
  BY DEF Unsent, TerminalFailures
<1>4. generation' = [generation EXCEPT ![h] = row] /\ task' = [task EXCEPT ![h] = t]
  BY DEF Begin
<1>5. /\ t \in Task
      /\ t.pc = pc /\ t.gen = row /\ t.op = status /\ t.doc = None /\ t.old = None
  <2>1. pc \in PC
    BY <1>3 DEF PC
  <2> HIDE DEF row, status, pc
  <2> QED BY <1>1, <1>2, <2>1, EmptyRecordTypes DEF Task, NoTask
<1> HIDE DEF t, pc
<1> QED BY <1>1, <1>3, <1>4, <1>5

\* A failed identity is replaced in the task, by one no row knows yet; the row
\* of the generation still names the failed one.
LEMMA ReloadTask ==
  ASSUME TypeOK, NEW h \in Hash, Reload(h)
  PROVE  \E t \in Task :
           /\ task' = [task EXCEPT ![h] = t]
           /\ t.pc = "classify" /\ t.op = "none"
           /\ t.doc = payload[h][task[h].gen.replay]
           /\ t.gen.state = task[h].gen.state
           /\ operation[h][t.gen.replay] = "none"
           /\ t.old \in {None, task[h].gen.replay}
<1> DEFINE failed == task[h].gen.replay
           left == payload[h][failed]
           previous == IF left = None THEN None ELSE failed
           start == task[h]
           replaced(r) == [start EXCEPT !.pc = "classify", !.op = "none", !.gen.replay = r,
                                        !.doc = left, !.old = previous]
<1>1. start \in Task
  BY DEF TypeOK, WorkerTypeOK
<1>2. failed \in Replay
  BY <1>1 DEF Task, Generation
<1>3. left \in Hash \cup {None} /\ previous \in Replay \cup {None}
  BY <1>2 DEF TypeOK, DbTypeOK
<1>4. PICK r \in Replay : NextOperationId(h, failed, r)
                          /\ task' = [task EXCEPT ![h] = replaced(r)]
  BY DEF Reload
<1>5. operation[h][r] = "none"
  BY <1>4 DEF NextOperationId
<1>6. /\ replaced(r) \in Task
      /\ replaced(r).pc = "classify" /\ replaced(r).op = "none" /\ replaced(r).doc = left
      /\ replaced(r).gen.replay = r /\ replaced(r).gen.state = start.gen.state
      /\ replaced(r).old = previous
  <2> HIDE DEF start, left, previous
  <2> QED BY <1>1, <1>3 DEF Task, PC, Generation, OperationStatus
<1> HIDE DEF replaced
<1> QED BY <1>4, <1>5, <1>6

-----------------------------------------------------------------------------
(* Steps of a task.                                                        *)

\* Every step of processGeneration keeps the types.
LEMMA WorkerStepTypes ==
  ASSUME TypeInv, NEW h \in Hash, WorkerStep(h)
  PROVE  TypeOK'
<1> USE DEF TypeInv, TypeOK, RemoteTypeOK, DbTypeOK, WorkerTypeOK,
            dbVars, remoteVars, sourceVars
<1> SUFFICES ASSUME TaskStep(h), UNCHANGED <<phase, edits>>
             PROVE  TypeOK'
  BY DEF WorkerStep
<1>1. CASE BeginRefused(h)
  BY <1>1, FinishType DEF BeginRefused
<1>2. CASE Begin(h)
  <2>1. PICK row \in Generation, t \in Task : /\ generation' = [generation EXCEPT ![h] = row]
                                              /\ task' = [task EXCEPT ![h] = t]
    BY <1>2, BeginTask
  <2>2. generation' \in [Hash -> Generation] /\ task' \in [Hash -> Task]
    BY <2>1
  <2> QED BY <1>2, <2>2 DEF Begin
<1>2a. CASE Reload(h)
  <2>1. PICK t \in Task : task' = [task EXCEPT ![h] = t]
    BY <1>2a, ReloadTask
  <2>2. task' \in [Hash -> Task]
    BY <2>1
  <2> QED BY <1>2a, <2>2 DEF Reload
<1>3. CASE PollCompleted(h)
  <2>1. generation[h].policy \in Policy
    BY DEF Generation
  <2>2. session' \in Session
    BY <1>3, <2>1, AcknowledgeType DEF PollCompleted
  <2>3. operation' \in [Hash -> [Replay -> OperationStatus]]
    BY <1>3, SetOperationType DEF PollCompleted, OperationStatus
  <2>4. generation' \in [Hash -> Generation]
    BY <1>3, SetGenerationStateType DEF PollCompleted, GenerationState
  <2>5. task' \in [Hash -> Task]
    BY <1>3, GotoType DEF PollCompleted, PC
  <2> QED BY <1>3, <2>2, <2>3, <2>4, <2>5 DEF PollCompleted
<1>4. CASE PollFailed(h)
  BY <1>4, CatchTerminalType DEF PollFailed, TerminalFailures
<1>5. CASE PollTimeout(h)
  BY <1>5, CatchType DEF PollTimeout
<1>6. CASE PollNotFound(h)
  BY <1>6, CatchType, GotoType DEF PollNotFound, PC
<1>7. CASE ClassifyPrimary(h)
  <2>1. Loaded(h) \in Hash \cup {None}
    BY DEF Loaded, Task, Generation
  <2>2. task' \in [Hash -> Task]
    <3>1. PICK t \in Task : task' = [task EXCEPT ![h] = t]
      <4> DEFINE t == [task[h] EXCEPT !.doc = Loaded(h),
                         !.pc = IF Loaded(h) = None THEN "load" ELSE "preflight"]
      <4>1. t \in Task
        BY <2>1, LoadedTaskType DEF PC
      <4>2. task' = [task EXCEPT ![h] = t]
        BY <1>7 DEF ClassifyPrimary
      <4> QED BY <4>1, <4>2
    <3> QED BY <3>1
  <2> QED BY <1>7, <2>2 DEF ClassifyPrimary
<1>8. CASE ClassifyGone(h)
  BY <1>8, CatchType DEF ClassifyGone
<1>9. CASE ClassifyExcluded(h)
  <2>1. session' \in Session /\ generation' \in [Hash -> Generation] /\ tombstone' \subseteq Identity \X Identity
    BY <1>9, ExcludeType DEF ClassifyExcluded
  <2>2. task' \in [Hash -> Task]
    BY <1>9, FinishType DEF ClassifyExcluded
  <2> QED BY <1>9, <2>1, <2>2 DEF ClassifyExcluded, Exclude
<1>10. CASE Load(h)
  <2>1. task' \in [Hash -> Task]
    <3>1. CASE task' = [task EXCEPT ![h].doc = source, ![h].pc = "preflight"] /\ source = h
      <4> DEFINE t == [task[h] EXCEPT !.doc = source, !.pc = "preflight"]
      <4>1. t \in Task
        BY <3>1, LoadedTaskType DEF PC
      <4>2. task' = [task EXCEPT ![h] = t]
        BY <3>1
      <4> QED BY <4>1, <4>2
    <3> QED BY <1>10, <3>1, CatchType, FinishType DEF Load
  <2>2. generation' \in [Hash -> Generation]
    BY <1>10, CatchType, SetGenerationStateType DEF Load, GenerationState
  <2> QED BY <1>10, <2>1, <2>2 DEF Load
<1>11. CASE Preflight(h)
  BY <1>11, CatchType, GotoType DEF Preflight, PC
<1>12. CASE SavePayload(h)
  BY <1>12, GotoType DEF SavePayload, Task, Generation, PC
<1>13. CASE Record(h)
  <2>1. task' \in [Hash -> Task]
    <3> DEFINE next == IF task[h].old = None THEN "prepared" ELSE "swap"
               t == [task[h] EXCEPT !.op = "prepared", !.pc = next]
    <3>1. t \in Task
      BY RecordedTaskType DEF OperationStatus, Unsent, PC
    <3>2. task' = [task EXCEPT ![h] = t]
      BY <1>13 DEF Record
    <3> HIDE DEF t
    <3> QED BY <3>1, <3>2
  <2>2. generation' \in [Hash -> Generation]
    BY <1>13 DEF Record, Task
  <2>3. operation' \in [Hash -> [Replay -> OperationStatus]]
    BY <1>13, SetOperationType DEF Record, OperationStatus, Unsent
  <2> QED BY <1>13, <2>1, <2>2, <2>3 DEF Record
<1>14. CASE Swap(h)
  <2>1. task[h].old \in Replay \cup {None}
    BY DEF Task
  <2> QED BY <1>14, <2>1, GotoType, CleanupPayloadType DEF Swap, PC
<1>15. CASE Inspect(h)
  BY <1>15, CatchType, GotoType DEF Inspect, PC
<1>16. CASE Erase(h)
  BY <1>16, GotoType DEF Erase, PC
<1>17. CASE MarkReady(h)
  BY <1>17, GotoType, SetOperationType DEF MarkReady, PC, OperationStatus, Unsent
<1>18. CASE Submit(h)
  BY <1>18, GotoType, SetOperationType, SetGenerationStateType
     DEF Submit, PC, OperationStatus, GenerationState, Active
<1>19. CASE PostAccepted(h)
  BY <1>19, GotoType, RetainType, ReceiveType DEF PostAccepted, PC
<1>20. CASE MarkPending(h)
  BY <1>20, GotoType, SetOperationType DEF MarkPending, PC, OperationStatus
<1>21. CASE Cleanup(h)
  <2>1. task[h].gen.replay \in Replay
    BY DEF Task, Generation
  <2> QED BY <1>21, <2>1, FinishType, CleanupPayloadType DEF Cleanup
<1> QED
  BY <1>1, <1>2, <1>2a, <1>3, <1>4, <1>5, <1>6, <1>7, <1>8, <1>9, <1>10, <1>11, <1>12, <1>13, <1>14,
     <1>15, <1>16, <1>17, <1>18, <1>19, <1>20, <1>21 DEF TaskStep

\* Faults of a task, and the crash in the middle of an exclusion.
LEMMA WorkerFaultTypes ==
  ASSUME TypeInv, NEW h \in Hash, WorkerFault(h)
  PROVE  TypeOK'
<1> USE DEF TypeInv, TypeOK, RemoteTypeOK, DbTypeOK, WorkerTypeOK,
            dbVars, remoteVars, sourceVars
<1>1. CASE PostAttemptLost(h) /\ UNCHANGED <<phase, edits>>
  BY <1>1, FaultType, RetainType DEF PostAttemptLost
<1>2. CASE PostRejected(h) /\ UNCHANGED <<phase, edits>>
  BY <1>2, FaultType, CatchTerminalType DEF PostRejected, TerminalFailures
<1>3. CASE TaskError(h) /\ UNCHANGED <<phase, edits>>
  BY <1>3, FaultType, CatchType DEF TaskError
<1>4. CASE CrashInExclusion(h)
  <2>1. session' \in Session /\ generation' \in [Hash -> Generation] /\ tombstone' \subseteq Identity \X Identity
    BY <1>4, ExcludeType DEF CrashInExclusion
  <2>2. task' \in [Hash -> Task] /\ faults' \in 0 .. MaxFaults
    BY <1>4, FaultType, EmptyRecordTypes DEF CrashInExclusion
  <2> QED BY <1>4, <2>1, <2>2 DEF CrashInExclusion, Exclude, Phase
<1> QED BY <1>1, <1>2, <1>3, <1>4 DEF WorkerFault, TaskFault

-----------------------------------------------------------------------------
(* Scans.                                                                  *)

\* upsertSession writes a session row.
LEMMA ScannedType ==
  ASSUME TypeOK, source # Gone, NEW s \in SessionStatus
  PROVE  Scanned(s) \in Session
BY DEF TypeOK, DbTypeOK, WorkerTypeOK, Scanned, Session, Kind

\* queueGeneration writes a row of table generations.
LEMMA QueuedType ==
  ASSUME TypeOK, NEW h \in Hash, NEW r \in Replay
  PROVE  [SupersedeOlder(h) EXCEPT ![h] = Queued(h, r)] \in [Hash -> Generation]
<1>1. SupersedeOlder(h) \in [Hash -> Generation]
  BY MovedType DEF SupersedeOlder, GenerationState
<1>2. Queued(h, r) \in Generation
  BY StateDbAssumption DEF TypeOK, DbTypeOK, Queued, Generation, GenerationState, Policy
<1> QED BY <1>1, <1>2

\* The exclusion of a session by a scan writes rows of the right types.
LEMMA ScanExcludedType ==
  ASSUME TypeOK, NEW torn \in BOOLEAN, ScanExcluded(torn)
  PROVE  /\ session' \in Session
         /\ generation' \in [Hash -> Generation]
         /\ tombstone' \subseteq Identity \X Identity
         /\ phase' \in Phase
<1>1. EffectiveKind(ScanKey, kind) \in Kind
  BY DEF TypeOK, WorkerTypeOK, EffectiveKind, Kind
<1>2. ExcludedAs(EffectiveKind(ScanKey, kind)) \in SessionStatus
  BY <1>1 DEF ExcludedAs, Kind, SessionStatus, Protected, ExcludedStatus
<1>3. session' \in Session
  BY <1>1, <1>2, ClassificationType DEF ScanExcluded, SessionStatus, Protected, TypeOK, DbTypeOK
<1>4. generation' \in [Hash -> Generation]
  BY MovedType
     DEF ScanExcluded, MarkSessionGenerationsCleanupPending, GenerationState, TypeOK, DbTypeOK
<1>5. tombstone' \subseteq Identity \X Identity
  BY DEF ScanExcluded, ScanRecord, Reported, Identity, TypeOK, WorkerTypeOK
<1> QED BY <1>3, <1>4, <1>5 DEF ScanExcluded, TypeOK, Phase

\* A scan writes rows of the right types.
LEMMA ScanTypes ==
  ASSUME TypeOK, Scan
  PROVE  TypeOK'
<1> USE DEF TypeOK, RemoteTypeOK, DbTypeOK, WorkerTypeOK, dbVars, remoteVars, sourceVars, workerVars
<1>1. CASE ScanMissing
  BY <1>1 DEF ScanMissing, Session, SessionStatus
<1>2. CASE ScanExcluded(FALSE) /\ UNCHANGED faults
  BY <1>2, ScanExcludedType DEF ScanExcluded
<1>3. CASE ScanUnchanged
  BY <1>3 DEF ScanUnchanged, Session, SessionStatus
<1>4. CASE ScanEmpty
  BY <1>4, ScannedType, WorkerAssumption DEF ScanEmpty, SessionStatus
<1>5. CASE ScanLoaded
  <2>1. source \in Hash /\ source # Gone
    BY <1>5, WorkerAssumption DEF ScanLoaded
  <2>2. session' \in Session
    BY <1>5, <2>1, ScannedType DEF ScanLoaded, SessionStatus
  <2>3. generation' \in [Hash -> Generation]
    <3>1. CASE generation' = SupersedeOlder(source)
      BY <3>1, MovedType DEF SupersedeOlder, GenerationState
    <3>2. ASSUME NEW r \in Replay,
                 generation' = [SupersedeOlder(source) EXCEPT ![source] = Queued(source, r)]
          PROVE  generation' \in [Hash -> Generation]
      BY <2>1, <3>2, QueuedType
    <3> QED BY <1>5, <3>1, <3>2 DEF ScanLoaded
  <2>4. before' \in SUBSET (Hash \X Hash)
    BY <1>5, <2>1 DEF ScanLoaded, QueuedLast
  <2> QED BY <1>5, <2>2, <2>3, <2>4 DEF ScanLoaded
<1> QED BY <1>1, <1>2, <1>3, <1>4, <1>5 DEF Scan

\* So does a scan that a crash cuts short.
LEMMA ScanFaultTypes ==
  ASSUME TypeOK, ScanFault
  PROVE  TypeOK'
<1> USE DEF TypeOK, RemoteTypeOK, DbTypeOK, WorkerTypeOK, dbVars, remoteVars, sourceVars, workerVars
<1>1. CASE ScanTorn
  <2>1. source # Gone
    BY <1>1, WorkerAssumption DEF ScanTorn
  <2>2. session' \in Session
    BY <1>1, <2>1, ScannedType DEF ScanTorn, SessionStatus
  <2>3. generation' \in [Hash -> Generation]
    BY <1>1, MovedType DEF ScanTorn, SupersedeOlder, GenerationState
  <2> QED BY <1>1, <2>2, <2>3, FaultType DEF ScanTorn, Phase
<1>2. CASE ScanExcluded(TRUE) /\ Fault
  <2>1. session' \in Session /\ generation' \in [Hash -> Generation] /\ tombstone' \subseteq Identity \X Identity
    BY <1>2, ScanExcludedType
  <2>2. faults' \in 0 .. MaxFaults
    BY <1>2, FaultType
  <2> QED BY <1>2, <2>1, <2>2 DEF ScanExcluded, Phase
<1> QED BY <1>1, <1>2 DEF ScanFault

-----------------------------------------------------------------------------
(* The process, the operator and the environment.                          *)

\* resetFailed writes rows of table generations.
LEMMA ResetRowType ==
  ASSUME NEW row \in Generation
  PROVE  [row EXCEPT !.state = "queued", !.attempts = 0] \in Generation
<1>1. 0 \in 0 .. MaxAttempts
  BY StateDbAssumption
<1> QED BY <1>1 DEF Generation, GenerationState

\* The daemon's cycle, a crash and the operator's commands keep the types.
LEMMA ProcessTypes ==
  ASSUME TypeInv, Startup \/ StartBatch \/ BatchDone \/ Crash \/ RetryFailed \/ CancelQueuedWork
  PROVE  TypeOK'
<1> USE DEF TypeInv, TypeOK, RemoteTypeOK, DbTypeOK, WorkerTypeOK,
            dbVars, remoteVars, sourceVars, workerVars, Phase
<1>1. CASE Startup
  BY <1>1 DEF Startup
<1>2. CASE StartBatch
  <2>1. PICK H \in SUBSET Hash, repair \in BOOLEAN : RunOnce(H, repair)
    BY <1>2 DEF StartBatch
  <2>2. ASSUME NEW h \in Hash
        PROVE  [NoTask EXCEPT !.pc = "waiting", !.gen = generation[h]] \in Task
    BY EmptyRecordTypes DEF Task, PC
  <2>3. task' \in [Hash -> Task]
    BY <2>1, <2>2, EmptyRecordTypes DEF RunOnce
  <2> QED BY <2>1, <2>3 DEF RunOnce
<1>3. CASE BatchDone
  BY <1>3 DEF BatchDone
<1>4. CASE Crash
  <2>1. wire' \subseteq Request
    BY <1>4, RetainType DEF Crash
  <2>2. task' \in [Hash -> Task]
    BY <1>4, EmptyRecordTypes DEF Crash
  <2> QED BY <1>4, <2>1, <2>2, FaultType DEF Crash
<1>5. CASE RetryFailed
  <2>1. \A h \in Hash : [generation[h] EXCEPT !.state = "queued", !.attempts = 0] \in Generation
    BY ResetRowType
  <2> QED BY <1>5, <2>1 DEF RetryFailed, ResetFailed
<1>6. CASE CancelQueuedWork
  BY <1>6, MovedType DEF CancelQueuedWork, CancelQueued, GenerationState
<1> QED BY <1>1, <1>2, <1>3, <1>4, <1>5, <1>6

\* The bank keeps the types as it carries out an operation.
LEMMA WorkTypes ==
  ASSUME TypeOK, NEW h \in Hash, NEW r \in Replay, Work(h, r)
  PROVE  TypeOK'
BY SetRemoteType
   DEF TypeOK, RemoteTypeOK, DbTypeOK, WorkerTypeOK, dbVars, sourceVars, workerVars, localVars,
       Work, RemoteStart, RemoteComplete, RemoteStatus

\* So do edits, reclassifications, the network and faults of the bank.
LEMMA EnvironmentTypes ==
  ASSUME TypeOK, Environment
  PROVE  TypeOK'
<1> USE DEF TypeOK, RemoteTypeOK, DbTypeOK, WorkerTypeOK,
            dbVars, remoteVars, sourceVars, workerVars, localVars
<1>1. CASE \E content \in Contents : Edit(content)
  BY <1>1, ImporterAssumption DEF Edit
<1>2. CASE \E k \in Kinds : Reclassify(k)
  BY <1>2, ImporterAssumption DEF Reclassify
<1>3. CASE \E m \in wire : Transit(m)
  BY <1>3, ReceiveType DEF Transit, Deliver, Drop
<1>4. ASSUME NEW h \in Hash, NEW r \in Replay, BankFault(h, r)
      PROVE  TypeOK'
  BY <1>4, FaultType, SetRemoteType DEF BankFault, RemoteFail, Prune, RemoteStatus
<1>5. CASE CompleteHeader
  BY <1>5 DEF CompleteHeader
<1> QED BY <1>1, <1>2, <1>3, <1>4, <1>5 DEF Environment

-----------------------------------------------------------------------------
(* One content for each identity.                                          *)

\* A task that moves on carries what it carried.
LEMMA GotoContent ==
  ASSUME TypeInv, NEW h \in Hash, NEW pc \in PC, Goto(h, pc),
         pc \in Carrying => task[h].pc \in Carrying
  PROVE  OwnTasks'
BY DEF TypeInv, TypeOK, WorkerTypeOK, Task, OwnContent, OwnTasks, Goto

\* A task that ends carries nothing.
LEMMA FinishContent ==
  ASSUME TypeInv, NEW h \in Hash, Finish(h)
  PROVE  OwnTasks'
BY DEF TypeInv, TypeOK, WorkerTypeOK, Task, OwnContent, OwnTasks, Finish, NoTask, Carrying

\* Removing a payload file leaves the others as they are.
LEMMA CleanupPayloadContent ==
  ASSUME TypeInv, NEW h \in Hash, NEW r \in Replay \cup {None}, CleanupPayload(h, r)
  PROVE  OwnPayloads'
BY DEF TypeInv, TypeOK, DbTypeOK, OwnContent, OwnPayloads, CleanupPayload

\* A request with the content of its identity keeps the bodies right.
LEMMA ReceiveContent ==
  ASSUME TypeInv, NEW m \in Request, m.content = m.hash, Receive(m)
  PROVE  OwnBodies'
<1>1. m.hash \in Hash /\ m.replay \in Replay
  BY DEF Request
<1> QED BY <1>1 DEF TypeInv, TypeOK, RemoteTypeOK, OwnContent, OwnBodies, Receive

\* The content a task has loaded is that of its generation.
LEMMA LoadedContent ==
  ASSUME TypeInv, NEW h \in Hash
  PROVE  Loaded(h) \in {h, None}
BY DEF TypeInv, TypeOK, WorkerTypeOK, Task, Generation, OwnContent, OwnTasks, OwnPayloads, Loaded

\* Every step of processGeneration handles the content of its own generation.
LEMMA WorkerStepContent ==
  ASSUME TypeInv, NEW h \in Hash, TaskStep(h)
  PROVE  OwnContent'
<1> USE DEF TypeInv, OwnContent, dbVars, remoteVars, sourceVars
<1> DEFINE Unsaved == UNCHANGED <<payload, body, wire>>
<1>1. ASSUME Unsaved, OwnTasks'
      PROVE  OwnContent'
  BY <1>1 DEF OwnPayloads, OwnBodies, OwnRequests
<1>2. CASE BeginRefused(h) \/ PollFailed(h) \/ PollTimeout(h) \/ ClassifyGone(h)
           \/ ClassifyExcluded(h)
  <2>1. Unsaved /\ Finish(h)
    BY <1>2 DEF BeginRefused, PollFailed, PollTimeout, ClassifyGone, ClassifyExcluded, Exclude,
                Catch, CatchTerminal
  <2> QED BY <1>1, <2>1, FinishContent
<1>3. CASE Begin(h)
  <2>1. PICK t \in Task : task' = [task EXCEPT ![h] = t] /\ t.pc \notin Carrying /\ t.doc = None
    BY <1>3, BeginTask DEF Carrying
  <2>2. OwnTasks'
    BY <2>1 DEF OwnTasks, TypeOK, WorkerTypeOK
  <2> QED BY <1>1, <1>3, <2>2 DEF Begin
<1>3a. CASE Reload(h)
  <2>1. PICK t \in Task : /\ task' = [task EXCEPT ![h] = t]
                          /\ t.pc = "classify"
                          /\ t.doc = payload[h][task[h].gen.replay]
    BY <1>3a, ReloadTask
  <2>2. task[h].gen.replay \in Replay
    BY DEF TypeOK, WorkerTypeOK, Task, Generation
  <2>3. OwnTasks'
    BY <2>1, <2>2 DEF OwnTasks, OwnPayloads, Carrying, TypeOK, WorkerTypeOK
  <2> QED BY <1>1, <1>3a, <2>3 DEF Reload
<1>4. CASE PollCompleted(h) \/ Preflight(h) \/ Inspect(h) \/ Erase(h) \/ MarkReady(h)
           \/ Submit(h) \/ MarkPending(h)
  <2>1. Unsaved
    BY <1>4 DEF PollCompleted, Preflight, Inspect, Erase, MarkReady, Submit, MarkPending
  <2>2. Finish(h) \/ \E pc \in PC : Goto(h, pc) /\ (pc \in Carrying => task[h].pc \in Carrying)
    BY <1>4 DEF PollCompleted, Preflight, Inspect, Erase, MarkReady, Submit, MarkPending,
                Catch, Carrying, PC
  <2> QED BY <1>1, <2>1, <2>2, FinishContent, GotoContent
<1>5. CASE PollNotFound(h)
  <2>1. Unsaved /\ (Goto(h, "classify") \/ Finish(h))
    BY <1>5 DEF PollNotFound, Catch
  <2> QED BY <1>1, <2>1, FinishContent, GotoContent DEF Carrying, PC
<1>6. CASE ClassifyPrimary(h)
  <2>1. OwnTasks'
    BY <1>6, LoadedContent DEF ClassifyPrimary, OwnTasks, TypeOK, WorkerTypeOK, Task, Carrying
  <2> QED BY <1>1, <1>6, <2>1 DEF ClassifyPrimary
<1>7. CASE Load(h)
  <2>1. ASSUME source = h, task' = [task EXCEPT ![h].doc = source, ![h].pc = "preflight"]
        PROVE  OwnTasks'
    <3> DEFINE t == [task[h] EXCEPT !.doc = source, !.pc = "preflight"]
    <3>1. task[h] \in Task
      BY DEF TypeOK, WorkerTypeOK
    <3>2. t.doc = h /\ task' = [task EXCEPT ![h] = t]
      BY <2>1, <3>1 DEF Task
    <3> HIDE DEF t
    <3>3. \A g \in Hash : task'[g] = IF g = h THEN t ELSE task[g]
      BY <3>2 DEF TypeOK, WorkerTypeOK
    <3> QED BY <3>2, <3>3 DEF OwnTasks
  <2>2. OwnTasks'
    BY <1>7, <2>1, FinishContent DEF Load, Catch
  <2> QED BY <1>1, <1>7, <2>2 DEF Load
<1>8. CASE SavePayload(h)
  <2>1. OwnTasks'
    BY <1>8, GotoContent DEF SavePayload, Carrying, PC
  <2>2. OwnPayloads'
    BY <1>8 DEF SavePayload, OwnPayloads, OwnTasks, TypeOK, DbTypeOK
  <2> QED BY <1>8, <2>1, <2>2 DEF SavePayload, OwnBodies, OwnRequests
<1>9. CASE Record(h)
  <2>1. OwnTasks'
    BY <1>9 DEF Record, OwnTasks, TypeOK, WorkerTypeOK, Task, Carrying
  <2> QED BY <1>1, <1>9, <2>1 DEF Record
<1>10. CASE Swap(h)
  <2>1. task[h].old \in Replay \cup {None}
    BY DEF TypeOK, WorkerTypeOK, Task
  <2>2. OwnTasks' /\ OwnPayloads'
    BY <1>10, <2>1, GotoContent, CleanupPayloadContent DEF Swap, Carrying, PC
  <2> QED BY <1>10, <2>2 DEF Swap, OwnBodies, OwnRequests
<1>11. CASE PostAccepted(h)
  <2>1. OwnTasks'
    BY <1>11, GotoContent DEF PostAccepted, Carrying, PC
  <2>2. OwnBodies'
    BY <1>11, RetainType, ReceiveContent DEF PostAccepted, Retain
  <2> QED BY <1>11, <2>1, <2>2 DEF PostAccepted, OwnPayloads, OwnRequests
<1>12. CASE Cleanup(h)
  <2>1. task[h].gen.replay \in Replay
    BY DEF TypeOK, WorkerTypeOK, Task, Generation
  <2>2. OwnTasks' /\ OwnPayloads'
    BY <1>12, <2>1, FinishContent, CleanupPayloadContent DEF Cleanup
  <2> QED BY <1>12, <2>2 DEF Cleanup, OwnBodies, OwnRequests
<1> QED
  BY <1>2, <1>3, <1>3a, <1>4, <1>5, <1>6, <1>7, <1>8, <1>9, <1>10, <1>11, <1>12 DEF TaskStep

\* The other steps leave payload files alone, end tasks, or lose a request.
LEMMA OtherContent ==
  ASSUME TypeInv, Next, ~\E h \in Hash : TaskStep(h)
  PROVE  OwnContent'
<1> USE DEF TypeInv, OwnContent, dbVars, remoteVars, sourceVars, workerVars, localVars
<1> DEFINE Ended == task' = [h \in Hash |-> NoTask]
<1>1. ASSUME UNCHANGED <<payload, body, wire>>, Ended \/ UNCHANGED task
      PROVE  OwnContent'
  BY <1>1 DEF OwnPayloads, OwnBodies, OwnRequests, OwnTasks, NoTask, Carrying
<1>2. CASE Scan \/ ScanFault \/ BatchDone \/ RetryFailed \/ CancelQueuedWork
  BY <1>1, <1>2 DEF Scan, ScanMissing, ScanExcluded, ScanUnchanged, ScanEmpty, ScanLoaded,
                    ScanFault, ScanTorn, BatchDone, RetryFailed, CancelQueuedWork
<1>3. CASE Startup
  BY <1>3 DEF Startup, OwnPayloads, OwnBodies, OwnRequests, OwnTasks
<1>4. CASE StartBatch
  <2>1. \A h \in Hash : task'[h].pc \in {"idle", "waiting"} /\ task'[h].doc = None
    <3>1. PICK H \in SUBSET Hash, repair \in BOOLEAN : RunOnce(H, repair)
      BY <1>4 DEF StartBatch
    <3> QED BY <3>1 DEF RunOnce, NoTask
  <2> QED BY <1>4, <2>1 DEF StartBatch, RunOnce, OwnPayloads, OwnBodies, OwnRequests, OwnTasks,
                            Carrying
<1>5. CASE Crash
  <2>1. OwnRequests'
    BY <1>5, RetainType DEF Crash, OwnRequests, Retain
  <2> QED BY <1>5, <2>1 DEF Crash, OwnPayloads, OwnBodies, OwnTasks, NoTask, Carrying
<1>6. ASSUME NEW h \in Hash, NEW r \in Replay, Work(h, r) \/ BankFault(h, r)
      PROVE  OwnContent'
  BY <1>1, <1>6 DEF Work, RemoteStart, RemoteComplete, BankFault, RemoteFail, Prune
<1>7. CASE Environment
  <2>1. ASSUME NEW m \in wire, Transit(m)
        PROVE  OwnContent'
    <3>1. m \in Request /\ m.content = m.hash
      BY DEF TypeOK, RemoteTypeOK, OwnRequests
    <3>2. OwnBodies'
      BY <2>1, <3>1, ReceiveContent DEF Transit, Deliver, Drop, OwnBodies
    <3> QED BY <2>1, <3>2 DEF Transit, Deliver, Drop, OwnPayloads, OwnRequests, OwnTasks
  <2>2. CASE \E content \in Contents : Edit(content)
    BY <1>1, <2>2 DEF Edit
  <2>3. CASE \E k \in Kinds : Reclassify(k)
    BY <1>1, <2>3 DEF Reclassify
  <2>4. CASE CompleteHeader
    BY <1>1, <2>4 DEF CompleteHeader
  <2> QED BY <1>6, <1>7, <2>1, <2>2, <2>3, <2>4 DEF Environment
<1>8. ASSUME NEW h \in Hash, WorkerFault(h)
      PROVE  OwnContent'
  <2>1. CASE PostAttemptLost(h)
    BY <2>1, RetainType DEF PostAttemptLost, Retain, OwnPayloads, OwnBodies, OwnRequests, OwnTasks
  <2>2. CASE PostRejected(h) \/ TaskError(h)
    <3>1. UNCHANGED <<payload, body, wire>> /\ Finish(h)
      BY <2>2 DEF PostRejected, TaskError, Catch, CatchTerminal
    <3> QED BY <3>1, FinishContent DEF OwnPayloads, OwnBodies, OwnRequests
  <2>3. CASE CrashInExclusion(h)
    BY <1>1, <2>3 DEF CrashInExclusion, Exclude
  <2> QED BY <1>8, <2>1, <2>2, <2>3 DEF WorkerFault, TaskFault
<1> QED BY <1>2, <1>3, <1>4, <1>5, <1>6, <1>7, <1>8 DEF Next, WorkerStep

-----------------------------------------------------------------------------
(* The induction.                                                          *)

\* A new database and one from an older policy have their types.
LEMMA InitTypes ==
  ASSUME Init
  PROVE  TypeInv
<1>1. RemoteTypeOK
  BY DEF Init, Fresh, Legacy, RemoteTypeOK, RemoteStatus
<1>2. session \in Session /\ generation \in [Hash -> Generation]
  <2>1. CASE Fresh
    BY <2>1, EmptyRecordTypes DEF Fresh
  <2>2. ASSUME NEW h \in Hash, Legacy(h)
        PROVE  session \in Session /\ generation \in [Hash -> Generation]
    <3>1. session \in Session
      BY <2>2 DEF Legacy, Session, SessionStatus, Kind, Policy
    <3>2. [NoGeneration EXCEPT !.state = "completed", !.attempts = 1, !.policy = "old"]
            \in Generation
      <4>1. 1 \in 0 .. MaxAttempts
        BY StateDbAssumption
      <4> QED BY <4>1, EmptyRecordTypes DEF Generation, GenerationState, Policy
    <3> QED BY <2>2, <3>1, <3>2, EmptyRecordTypes DEF Legacy
  <2> QED BY <2>1, <2>2 DEF Init
<1>3. DbTypeOK
  BY <1>2 DEF Init, Fresh, Legacy, DbTypeOK, OperationStatus, Replay, HindsightAssumption
<1>4. WorkerTypeOK
  <2>1. source \in Hash
    BY DEF Init, Fresh, Legacy
  <2>2. 0 \in 0 .. MaxFaults
    BY WorkerAssumption
  <2> QED BY <2>1, <2>2, EmptyRecordTypes DEF Init, WorkerTypeOK, Kind
<1>5. OwnContent
  BY DEF Init, OwnContent, OwnPayloads, OwnBodies, OwnRequests, OwnTasks, NoTask, Carrying
<1> QED BY <1>1, <1>3, <1>4, <1>5, ImporterAssumption DEF Init, TypeInv, TypeOK, Phase

\* Every step of the system keeps types and contents.
LEMMA StepTypes ==
  ASSUME TypeInv, [Next]_vars
  PROVE  TypeInv'
<1>1. CASE UNCHANGED vars
  BY <1>1 DEF vars, dbVars, remoteVars, sourceVars, workerVars, TypeInv, TypeOK, RemoteTypeOK,
              DbTypeOK, WorkerTypeOK, OwnContent, OwnPayloads, OwnBodies, OwnRequests, OwnTasks
<1>2. CASE Next
  <2>1. TypeOK'
    BY <1>2, WorkerStepTypes, WorkerFaultTypes, ScanTypes, ScanFaultTypes, ProcessTypes,
       WorkTypes, EnvironmentTypes DEF Next, TypeInv
  <2>2. OwnContent'
    BY <1>2, WorkerStepContent, OtherContent
  <2> QED BY <2>1, <2>2 DEF TypeInv
<1> QED BY <1>1, <1>2

\* Every variable keeps its type, and everything kept or sent under an
\* identity is the content the identity is made for.
THEOREM TypesAndContents == Spec => []TypeInv
BY InitTypes, StepTypes, PTL DEF Spec

\* Type correctness.
THEOREM TypeCorrect == Spec => []TypeOK
BY TypesAndContents, PTL DEF TypeInv

\* The identity of an operation stands for one content, in every request and
\* in the bank.
THEOREM PayloadsAreImmutable == Spec => []ImmutablePayload
<1>1. TypeInv => ImmutablePayload
  BY DEF TypeInv, OwnContent, OwnBodies, OwnRequests, ImmutablePayload
<1> QED BY <1>1, TypesAndContents, PTL
=============================================================================
