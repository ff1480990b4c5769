----------------------- MODULE SubagentCleanupProofs -----------------------
(***************************************************************************)
(* cleanup-subagents: its commands keep what is true of the importer, an   *)
(* excluded generation has nothing left that could write the document, a   *)
(* closed job is one whose generation is excluded, and a document is only  *)
(* deleted by a reviewed job of a session that is not to be kept.          *)
(*                                                                         *)
(* The invariant of the importer and that of the jobs are proved together: *)
(* the command relies on an operation of a session that is not retained    *)
(* staying with its generation, and the importer on a command that takes   *)
(* no operation from its generation while it is open.                      *)
(***************************************************************************)
EXTENDS SubagentCleanupInvariants, ImporterDocumentProofs

\* The command is proved for a session that is read from a file: one that
\* disappeared from a database is ambiguous only as long as it is gone.
FilesOnly == "database" \notin Origins

CommandTypeOK == /\ job \in [TargetKind -> [Hash -> Job]]
                 /\ run \in Run

CleanupAllInv == AllInv /\ CommandTypeOK /\ CleanupInv

Working == run.pc \notin {"idle", "classify", "list", "next"}

-----------------------------------------------------------------------------
(* While the command runs.                                                 *)

\* No task runs.
LEMMA TasksAreIdle ==
  ASSUME CleanupAllInv, run.pc # "idle", NEW h \in Hash
  PROVE  phase = "down" /\ task[h].pc = "idle"
BY DEF CleanupAllInv, CleanupInv, CommandAlone, AllInv, OperationInv, TasksInBatch

\* What the job, the row and the operation of the current job are.
LEMMA CurrentTypes ==
  ASSUME CleanupAllInv, Working
  PROVE  /\ run.cur \in JobId /\ run.cur[1] \in TargetKind /\ run.cur[2] \in Hash
         /\ run.cur = <<run.cur[1], run.cur[2]>>
         /\ Current \in Job /\ Current.phase \in {"planned", "remote_deleted"}
         /\ ~Retaining
         /\ generation[run.cur[2]].state \in {"cleanup_pending", "excluded"}
         /\ Current.op # None => /\ Current.op \in Replay
                                 /\ Current.op = generation[run.cur[2]].replay
                                 /\ operation[run.cur[2]][Current.op] # "none"
<1>1. run.cur \in run.reviewed /\ Current.phase \in {"planned", "remote_deleted"}
  BY DEF CleanupAllInv, CleanupInv, CurrentInv, Working
<1>2. run.cur \in JobId
  BY <1>1 DEF CleanupAllInv, CommandTypeOK, Run
<1>3. run.cur[1] \in TargetKind /\ run.cur[2] \in Hash /\ run.cur = <<run.cur[1], run.cur[2]>>
  BY <1>2 DEF JobId
<1>4. Current \in Job
  BY <1>3 DEF Current, CleanupAllInv, CommandTypeOK
<1>5. JobAt(run.cur[1], run.cur[2])
  BY <1>3 DEF CleanupAllInv, CleanupInv
<1> QED BY <1>1, <1>2, <1>3, <1>4, <1>5 DEF JobAt, Current, Job

\* The operation under settlement.
LEMMA SettlingTypes ==
  ASSUME CleanupAllInv, run.pc \in Settling
  PROVE  Working /\ Current.op # None
BY DEF CleanupAllInv, CleanupInv, CurrentInv, Working, Settling

-----------------------------------------------------------------------------
(* The importer's invariant through the steps of the command.              *)

\* With no task running, operations and owners are a matter of the rows.
LEMMA RowsAreEnough ==
  ASSUME AllInv, UNCHANGED <<task, phase, payload>>, \A h \in Hash : task[h].pc = "idle",
         \A h \in Hash :
           /\ generation'[h].replay = generation[h].replay
           /\ generation'[h].state \in {"queued", "failed"} \cup Active =>
                /\ generation'[h].state = generation[h].state
                /\ operation'[h] = operation[h]
           /\ \A r \in Replay : operation'[h][r] \in Unsent \cup {"submitting", "pending"} =>
                operation'[h][r] = operation[h][r]
  PROVE  OperationInv' /\ OwnershipInv'
<1>1. ASSUME NEW h \in Hash
      PROVE  OperationAt(h)' /\ OwnerAt(h)'
  <2>1. WaitingAt(h) /\ RecoverableAt(h)
    BY DEF AllInv, OperationInv, OperationAt
  <2>2. task'[h].pc = "idle"
    OBVIOUS
  <2>3. WaitingAt(h)'
    BY <2>1, <2>2 DEF WaitingAt
  <2>4. RecoverableAt(h)'
    BY <2>1 DEF RecoverableAt
  <2>5. RowAt(h)' /\ IdentityAt(h)' /\ FilesAt(h)' /\ OwnerAt(h)'
    BY <2>2 DEF RowAt, IdentityAt, FilesAt, OwnerAt
  <2> QED BY <2>3, <2>4, <2>5 DEF OperationAt
<1>2. SingleActive'
  BY DEF AllInv, OwnershipInv, SingleActive
<1>3. TasksInBatch'
  BY DEF TasksInBatch
<1> QED BY <1>1, <1>2, <1>3 DEF OperationInv, OwnershipInv

\* A session that is not retained has left for good.
LEMMA FilesLeave ==
  ASSUME AllInv, FilesOnly
  PROVE  origin # "database" /\ (~Retaining => Left)
BY DEF FilesOnly, AllInv, TypeInv, TypeOK, WorkerTypeOK, WriterInv, LeftForGood

\* A session that is not retained has nothing to land.
LEMMA RowsAreWritten ==
  ASSUME AllInv, FilesOnly, UNCHANGED <<remote, body, wire, document, origin>>, NameStays', LeftForGood',
         \A h \in Hash : UNCHANGED generation[h] \/ ~Retaining',
         \A h \in Hash : UNCHANGED operation[h] \/ ~Retaining',
         Retaining' => Retaining,
         \A h \in Hash, r \in Replay :
           /\ operation'[h][r] \in Unsent \cup {"none"} => operation'[h][r] = operation[h][r]
           /\ <<h, r>> \in Open => /\ operation'[h][r] = operation[h][r]
                                   /\ Holds(h, r)'
  PROVE  WriterInv'
<1>1. Open' = Open
  BY DEF Open, Unfinished
<1>2. ASSUME NEW h \in Hash, NEW r \in Replay
      PROVE  RemoteAt(h, r)'
  <2>1. RemoteAt(h, r) /\ (Requested(h, r)' <=> Requested(h, r))
    BY DEF AllInv, WriterInv, Requested
  <2> QED BY <1>1, <2>1 DEF RemoteAt
<1>3. ASSUME NEW h \in Hash
      PROVE  LandedAt(h)'
  BY DEF AllInv, WriterInv, LandedAt
<1>4. OneRemoteWriter'
  BY <1>1 DEF AllInv, WriterInv, OneRemoteWriter
<1>5. SentIsHeld'
  BY FilesLeave DEF SentIsHeld
<1> QED BY <1>2, <1>3, <1>4, <1>5 DEF WriterInv

\* The classification of the command: what it takes for other than primary was
\* left for good, once the tombstone is recorded.
LEMMA LiveIsLeft ==
  ASSUME TypeInv, OneWriterAssumption, NameStays, ~Retaining => Left, UNCHANGED kind,
         tombstone' = Excluding
  PROVE  NameStays' /\ (Left => Left') /\ (LiveKind # "primary" => Left')
<1>1. tombstone' = tombstone \/ (kind = "configured" /\ source # Gone /\ tombstone' = tombstone \cup {ScanKey})
  BY DEF Excluding
<1>2. NameStays' /\ (Left => Left')
  BY <1>1 DEF NameStays, Left
<1>3. ASSUME StoredKey \in tombstone
      PROVE  Left
  BY <1>3 DEF NameStays, Left, OneWriterAssumption
<1>4. CASE Grouped /\ kind # "primary"
  <2>1. ScanKey = StoredKey
    BY <1>4 DEF Grouped, ScanKey, StoredKey
  <2>2. kind = "configured" => StoredKey \in tombstone'
    BY <1>4, <2>1 DEF Excluding, Grouped
  <2>3. CASE kind \notin Reverting \cup {"primary"}
    BY <1>2, <2>3 DEF Left
  <2>4. CASE kind \in Reverting
    BY <1>2, <2>2, <2>4 DEF Left, OneWriterAssumption
  <2> QED BY <1>4, <2>3, <2>4
<1>5. CASE ~Grouped /\ session.kind # "primary"
  BY <1>2, <1>5 DEF Retaining
<1> QED BY <1>2, <1>3, <1>4, <1>5 DEF LiveKind, EffectiveKind

\* What planning does: jobs for the targeted generations, which then wait for
\* the cleanup, in a session that is not retained any more.
PlanSteps(H) ==
  /\ LiveKind # "primary"
  /\ H \subseteq Unplanned(LiveKind)
  /\ PlanJobs(LiveKind, H)

LEMMA PlanEffect ==
  ASSUME CleanupAllInv, NEW H, PlanSteps(H), NEW h \in Hash
  PROVE  /\ LiveKind \in TargetKind /\ H \subseteq Hash
         /\ generation'[h].replay = generation[h].replay
         /\ generation'[h] \in Generation
         /\ h \in H => generation'[h].state = "cleanup_pending"
         /\ h \notin H => generation'[h] = generation[h]
         /\ session' \in Session
         /\ H # {} => session'.status \in Protected
         /\ H = {} => UNCHANGED session
         /\ ~Retaining => ~Retaining'
<1> USE DEF CleanupAllInv, AllInv, TypeInv, PlanSteps
<1>1. generation[h] \in Generation /\ session \in Session /\ session.kind \in Kind /\ kind \in Kind
  BY TaskTypes DEF TypeOK, DbTypeOK, WorkerTypeOK, Session
<1>2. LiveKind \in TargetKind
  BY <1>1 DEF LiveKind, EffectiveKind, TargetKind, Kind
<1>3. H \subseteq Hash
  BY DEF Unplanned
<1>4. h \in H => generation[h].state \in {"queued", "submitted", "processing", "completed", "failed",
                                          "cleanup_pending"}
  BY <1>1 DEF Unplanned, Targeted, Generation, GenerationState
<1>5. generation'[h] = IF h \in H /\ generation[h].state # "cleanup_pending"
                       THEN [generation[h] EXCEPT !.state = "cleanup_pending"] ELSE generation[h]
  BY <1>4 DEF PlanJobs, Moved
<1>6. /\ generation'[h].replay = generation[h].replay /\ generation'[h] \in Generation
      /\ h \in H => generation'[h].state = "cleanup_pending"
      /\ h \notin H => generation'[h] = generation[h]
  BY <1>1, <1>5 DEF Generation, GenerationState
<1>7. /\ session' \in Session
      /\ H # {} => session'.status \in Protected
      /\ H = {} => UNCHANGED session
      /\ ~Retaining => ~Retaining'
  BY <1>1 DEF PlanJobs, Session, SessionStatus, Protected, Retaining
<1> QED BY <1>2, <1>3, <1>6, <1>7

\* Planning keeps what is true of the importer.
LEMMA PlanKeepsAll ==
  ASSUME CleanupAllInv, OneWriterAssumption, FilesOnly, run.pc # "idle", NEW H, PlanSteps(H),
         tombstone' = Excluding,
         UNCHANGED <<before, operation, payload, remoteVars, sourceVars, workerVars, phase, edits>>,
         faults' \in 0 .. MaxFaults
  PROVE  AllInv'
<1> USE DEF CleanupAllInv, AllInv, TypeInv, remoteVars, sourceVars, workerVars
<1>1. \A h \in Hash :
         /\ generation'[h].replay = generation[h].replay /\ generation'[h] \in Generation
         /\ h \in H => generation'[h].state = "cleanup_pending"
         /\ h \notin H => generation'[h] = generation[h]
  BY PlanEffect
<1>2. /\ session' \in Session
      /\ H # {} => ~Retaining'
      /\ H = {} => UNCHANGED session
      /\ ~Retaining => ~Retaining'
  <2>1. CASE Hash = {}
    <3>1. H = {}
      BY <2>1 DEF PlanSteps, Unplanned
    <3> QED BY <3>1 DEF PlanSteps, PlanJobs, TypeOK, DbTypeOK, Retaining
  <2>2. CASE Hash # {}
    BY <2>2, PlanEffect DEF Retaining
  <2> QED BY <2>1, <2>2
<1>3. generation' \in [Hash -> Generation]
  <2>1. generation' = [h \in Hash |-> generation'[h]]
    BY DEF PlanSteps, PlanJobs, Moved
  <2> QED BY <1>1, <2>1
<1>4. TypeInv'
  <2>1. tombstone' \subseteq Identity \X Identity
    BY DEF TypeOK, WorkerTypeOK, Excluding, ScanKey, Reported, Identity
  <2>2. OwnContent'
    BY DEF OwnContent, OwnPayloads, OwnBodies, OwnRequests, OwnTasks
  <2> QED BY <1>2, <1>3, <2>1, <2>2 DEF TypeOK, DbTypeOK, RemoteTypeOK, WorkerTypeOK
<1>5. OperationInv' /\ OwnershipInv'
  BY <1>1, RowsAreEnough, TasksAreIdle DEF Active
<1>6. NameStays' /\ LeftForGood'
  BY LiveIsLeft, FilesLeave DEF WriterInv, LeftForGood, PlanSteps
<1>7. \A h \in Hash : UNCHANGED generation[h] \/ ~Retaining'
  BY <1>1, <1>2
<1>8. ASSUME NEW h \in Hash, NEW r \in Replay, <<h, r>> \in Open
      PROVE  Holds(h, r)'
  <2>1. Holds(h, r)
    BY <1>8 DEF WriterInv, RemoteAt
  <2> QED BY <1>1, <1>2, <2>1 DEF Holds
<1>9. WriterInv'
  BY <1>2, <1>6, <1>7, <1>8, RowsAreWritten
<1> QED BY <1>4, <1>5, <1>9

\* So does a status written to an operation that is not open, of a generation
\* that waits for the cleanup.
LEMMA SettlingKeepsAll ==
  ASSUME CleanupAllInv, FilesOnly, run.pc # "idle", NEW x \in Hash, NEW q \in Replay,
         operation' \in [Hash -> [Replay -> OperationStatus]],
         \A h \in Hash, r \in Replay :
           <<h, r>> # <<x, q>> => operation'[h][r] = operation[h][r],
         operation'[x][q] \in {"not_submitted", "completed", "failed"},
         ~Retaining, generation[x].state \in {"cleanup_pending", "excluded"}, <<x, q>> \notin Open,
         UNCHANGED <<session, generation, before, payload, remoteVars, sourceVars, tombstone,
                     workerVars, phase, edits, faults>>
  PROVE  AllInv'
<1> USE DEF CleanupAllInv, AllInv, TypeInv, remoteVars, sourceVars, workerVars
<1>1. \A h \in Hash, r \in Replay :
        operation'[h][r] = IF <<h, r>> = <<x, q>> THEN operation'[x][q] ELSE operation[h][r]
  OBVIOUS
<1>2. \A h \in Hash \ {x} : operation'[h] = operation[h]
  BY DEF TypeOK, DbTypeOK
<1>3. TypeInv'
  <2>1. OwnContent'
    BY DEF OwnContent, OwnPayloads, OwnBodies, OwnRequests, OwnTasks
  <2> QED BY <2>1 DEF TypeOK, DbTypeOK, RemoteTypeOK, WorkerTypeOK
<1>4. OperationInv' /\ OwnershipInv'
  BY <1>1, <1>2, RowsAreEnough, TasksAreIdle DEF Active, Unsent
<1>5. ~Retaining' /\ NameStays' /\ LeftForGood'
  BY FilesLeave DEF WriterInv, NameStays, LeftForGood, Left, Retaining
<1>6. ASSUME NEW h \in Hash, NEW r \in Replay, <<h, r>> \in Open
      PROVE  Holds(h, r)'
  BY <1>6 DEF WriterInv, RemoteAt, Holds, Retaining
<1>7. WriterInv'
  BY <1>1, <1>5, <1>6, RowsAreWritten DEF Unsent
<1> QED BY <1>1, <1>3, <1>4, <1>7

\* What the command can make of the bank: a pending operation is cancelled, or
\* the document deleted.
CommandBankStep ==
  /\ UNCHANGED <<body, wire>>
  /\ \/ UNCHANGED <<remote, document>>
     \/ document' = None /\ UNCHANGED remote
     \/ /\ UNCHANGED document
        /\ \E h \in Hash, r \in Replay :
             Unfinished(h, r) /\ SetRemote(h, r, "failed")

\* It opens nothing ...
LEMMA BankStepOpens ==
  ASSUME TypeInv, CommandBankStep
  PROVE  Open' \subseteq Open
<1>1. ASSUME NEW x \in Hash, NEW q \in Replay, SetRemote(x, q, "failed"), UNCHANGED wire
      PROVE  Open' \subseteq Open
  <2>1. \A h \in Hash, r \in Replay :
          remote'[h][r] = IF <<h, r>> = <<x, q>> THEN "failed" ELSE remote[h][r]
    BY <1>1, SetRemoteEffect DEF RemoteStatus
  <2> QED BY <1>1, <2>1 DEF Open, Unfinished
<1>2. CASE UNCHANGED <<remote, wire>>
  BY <1>2 DEF Open, Unfinished
<1> QED BY <1>1, <1>2 DEF CommandBankStep

\* ... and keeps what is true of the importer, in a session that is not retained.
LEMMA BankStepKeepsAll ==
  ASSUME CleanupAllInv, FilesOnly, CommandBankStep, ~Retaining, faults' \in 0 .. MaxFaults,
         UNCHANGED <<dbVars, sourceVars, tombstone, workerVars, phase, edits>>
  PROVE  AllInv'
<1> USE DEF CleanupAllInv, AllInv, TypeInv, dbVars, sourceVars, workerVars
<1>1. Open' \subseteq Open
  BY BankStepOpens
<1>2. /\ remote' \in [Hash -> [Replay -> RemoteStatus]]
      /\ document' \in Hash \cup {None}
      /\ UNCHANGED <<body, wire>>
      /\ \A h \in Hash, r \in Replay : remote'[h][r] # "absent" => remote[h][r] # "absent"
  <2>1. ASSUME NEW x \in Hash, NEW q \in Replay, Unfinished(x, q), SetRemote(x, q, "failed")
        PROVE  /\ remote' \in [Hash -> [Replay -> RemoteStatus]]
               /\ \A h \in Hash, r \in Replay : remote'[h][r] # "absent" => remote[h][r] # "absent"
    <3>1. remote' \in [Hash -> [Replay -> RemoteStatus]]
      BY <2>1 DEF SetRemote, TypeOK, RemoteTypeOK, RemoteStatus
    <3>2. \A h \in Hash, r \in Replay :
            remote'[h][r] = IF <<h, r>> = <<x, q>> THEN "failed" ELSE remote[h][r]
      BY <2>1, SetRemoteEffect DEF RemoteStatus
    <3> QED BY <2>1, <3>1, <3>2 DEF Unfinished
  <2>2. remote \in [Hash -> [Replay -> RemoteStatus]] /\ document \in Hash \cup {None}
    BY DEF TypeOK, RemoteTypeOK
  <2> QED BY <2>1, <2>2 DEF CommandBankStep
<1>3. TypeInv'
  <2>1. OwnContent'
    BY <1>2 DEF OwnContent, OwnPayloads, OwnBodies, OwnRequests, OwnTasks
  <2> QED BY <1>2, <2>1 DEF TypeOK, DbTypeOK, RemoteTypeOK, WorkerTypeOK
<1>4. OperationInv'
  BY DEF OperationInv, TasksInBatch, OperationAt, RowAt, IdentityAt, FilesAt, WaitingAt,
         RecoverableAt, Persisted
<1>5. OwnershipInv'
  BY DEF OwnershipInv, SingleActive, OwnerAt
<1>6. ~Retaining' /\ NameStays' /\ LeftForGood' /\ SentIsHeld'
  BY FilesLeave DEF WriterInv, NameStays, LeftForGood, Left, SentIsHeld, Retaining
<1>7. ASSUME NEW h \in Hash, NEW r \in Replay
      PROVE  RemoteAt(h, r)'
  <2>1. RemoteAt(h, r) /\ (Requested(h, r)' <=> Requested(h, r)) /\ (Holds(h, r)' <=> Holds(h, r))
    BY <1>2 DEF WriterInv, Requested, Holds, Retaining
  <2> QED BY <1>1, <1>2, <2>1 DEF RemoteAt
<1>8. OneRemoteWriter' /\ \A h \in Hash : LandedAt(h)'
  BY <1>1, <1>6 DEF WriterInv, OneRemoteWriter, LandedAt
<1> QED BY <1>3, <1>4, <1>5, <1>6, <1>7, <1>8 DEF WriterInv

\* A generation with nothing open is excluded.
LEMMA FinalizeEffect ==
  ASSUME CleanupAllInv, FinalizeExcluded, NEW h \in Hash
  PROVE  /\ generation'[h].replay = generation[h].replay /\ generation'[h] \in Generation
         /\ h # run.cur[2] => generation'[h] = generation[h]
         /\ h = run.cur[2] => generation'[h].state = "excluded"
<1>1. generation[h] \in Generation
  BY TaskTypes DEF CleanupAllInv, AllInv, TypeInv
<1>2. h = run.cur[2] => generation[h].state \in {"cleanup_pending", "excluded"}
  BY CurrentTypes DEF FinalizeExcluded, Working
<1> QED BY <1>1, <1>2 DEF FinalizeExcluded, Moved, Generation, GenerationState

LEMMA FinalizeKeepsAll ==
  ASSUME CleanupAllInv, FilesOnly, FinalizeExcluded
  PROVE  AllInv' /\ ~Retaining'
<1> USE DEF CleanupAllInv, AllInv, TypeInv, remoteVars, sourceVars, workerVars
<1> DEFINE x == run.cur[2]
<1>1. \A h \in Hash :
        /\ generation'[h].replay = generation[h].replay /\ generation'[h] \in Generation
        /\ h # x => generation'[h] = generation[h]
        /\ h = x => generation'[h].state = "excluded"
  BY FinalizeEffect
<1>2. /\ x \in Hash /\ ~Retaining /\ NothingOpen(x)
      /\ run.cur[1] \in TargetKind
  BY CurrentTypes DEF FinalizeExcluded, Working, CleanupInv, CurrentInv, Settling
<1>3. session' \in Session /\ session'.status \in Protected
  BY <1>2 DEF FinalizeExcluded, SetSessionClassification, ExcludedAs, TypeOK, DbTypeOK, Session,
              SessionStatus, Protected, ExcludedStatus, TargetKind
<1>4. generation' \in [Hash -> Generation]
  <2>1. generation' = [h \in Hash |-> generation'[h]]
    BY DEF FinalizeExcluded, Moved
  <2> QED BY <1>1, <2>1
<1>5. TypeInv'
  <2>1. OwnContent'
    BY DEF FinalizeExcluded, OwnContent, OwnPayloads, OwnBodies, OwnRequests, OwnTasks
  <2> QED BY <1>3, <1>4, <2>1
          DEF FinalizeExcluded, TypeOK, DbTypeOK, RemoteTypeOK, WorkerTypeOK
<1>6. OperationInv' /\ OwnershipInv'
  BY <1>1, RowsAreEnough, TasksAreIdle DEF FinalizeExcluded, Active
<1>7. ~Retaining' /\ NameStays' /\ LeftForGood'
  BY <1>2, <1>3, FilesLeave DEF FinalizeExcluded, WriterInv, NameStays, LeftForGood, Left, Retaining
<1>8. ASSUME NEW h \in Hash, NEW r \in Replay, <<h, r>> \in Open
      PROVE  Holds(h, r)'
  <2>1. h # x /\ Holds(h, r)
    BY <1>2, <1>8 DEF NothingOpen, WriterInv, RemoteAt
  <2> QED BY <1>1, <1>7, <2>1 DEF Holds
<1>9. WriterInv'
  BY <1>7, <1>8, RowsAreWritten DEF FinalizeExcluded
<1> QED BY <1>5, <1>6, <1>7, <1>9

-----------------------------------------------------------------------------
(* The jobs through the steps of the command.                              *)

JobsInv == /\ \A k \in TargetKind, h \in Hash : JobAt(k, h)
           /\ \A h \in Hash : ExcludedAt(h)

\* A step that writes neither jobs nor generations, settles what it settles and
\* opens nothing, keeps the jobs true.
LEMMA JobsAreKept ==
  ASSUME CleanupAllInv, UNCHANGED <<job, generation>>, Open' \subseteq Open,
         ~Retaining => ~Retaining',
         \A h \in Hash, r \in Replay : operation'[h][r] = "none" <=> operation[h][r] = "none"
  PROVE  JobsInv'
<1>1. ASSUME NEW h \in Hash
      PROVE  /\ NothingOpen(h) => NothingOpen(h)'
             /\ generation[h].replay \in Replay
  BY TaskTypes DEF NothingOpen, CleanupAllInv, AllInv, TypeInv
<1>2. ASSUME NEW k \in TargetKind, NEW h \in Hash
      PROVE  JobAt(k, h)'
  <2>1. JobAt(k, h)
    BY DEF CleanupAllInv, CleanupInv
  <2> QED BY <1>1, <2>1 DEF JobAt
<1>3. ASSUME NEW h \in Hash
      PROVE  ExcludedAt(h)'
  <2>1. ExcludedAt(h)
    BY DEF CleanupAllInv, CleanupInv
  <2> QED BY <1>1, <2>1 DEF ExcludedAt
<1> QED BY <1>2, <1>3 DEF JobsInv

\* The steps that change nothing but the state of the command.
LEMMA QuietCommandSteps ==
  ASSUME CleanupAllInv, OneWriterAssumption, FilesOnly,
         \/ \E ambiguous \in BOOLEAN : StartCleanup(ambiguous)
         \/ ListDocuments \/ NoMoreJobs \/ AskBank \/ NotSettled
  PROVE  CleanupAllInv'
<1>1. UNCHANGED <<vars, job>>
  BY DEF StartCleanup, ListDocuments, NoMoreJobs, AskBank, NotSettled
<1>2. AllInv' /\ UNCHANGED <<job, generation, operation, remote, wire, session, phase>>
  BY <1>1, StepAll DEF CleanupAllInv, vars, dbVars, remoteVars
<1>3. JobsInv'
  <2>1. Open' = Open /\ (Retaining' <=> Retaining)
    BY <1>2 DEF Open, Unfinished, Retaining
  <2> QED BY <1>2, <2>1, JobsAreKept
<1>4. run \in Run /\ run.pc \in CleanupPC
  BY DEF CleanupAllInv, CommandTypeOK, Run
<1>5. NotRunning \in Run /\ NotRunning.pc = "idle" /\ NotRunning.todo = {}
  BY DEF NotRunning, Run, CleanupPC
<1>6. run' \in Run /\ (CommandAlone /\ TodoInv /\ CurrentInv)'
  <2>1. ASSUME NEW ambiguous \in BOOLEAN, StartCleanup(ambiguous)
        PROVE  run' \in Run /\ (CommandAlone /\ TodoInv /\ CurrentInv)'
    <3> DEFINE plan == {ReviewedKind} \X {h \in Hash : Targeted(h, ReviewedKind, ambiguous)}
    <3>1. plan \subseteq JobId
      BY DEF Targeted, ReviewedKind, EffectiveKind, TargetKind, JobId, Kind, CleanupAllInv, AllInv,
             TypeInv, TypeOK, WorkerTypeOK
    <3>2. run' = [NotRunning EXCEPT !.pc = "classify", !.ambiguous = ambiguous, !.reviewed = plan]
          /\ phase = "down"
      BY <2>1 DEF StartCleanup
    <3>3. run' \in Run /\ run'.pc = "classify" /\ run'.todo = {}
      BY <3>1, <3>2 DEF NotRunning, Run, CleanupPC
    <3> QED BY <1>2, <3>2, <3>3 DEF CommandAlone, TodoInv, CurrentInv
  <2>2. CASE ListDocuments
    <3> DEFINE todo == {j \in run.reviewed : job[j[1]][j[2]].phase \in {"planned", "remote_deleted"}}
    <3>1. run' = [run EXCEPT !.pc = "next", !.listed = document # None, !.todo = todo]
          /\ run.pc = "list"
      BY <2>2 DEF ListDocuments
    <3>2. todo \subseteq run.reviewed /\ run.reviewed \subseteq JobId
      BY <1>4 DEF Run
    <3>3. /\ run' \in Run /\ run'.pc = "next" /\ run'.reviewed = run.reviewed
          /\ run'.todo = todo
      BY <1>4, <3>1, <3>2 DEF Run, CleanupPC
    <3> QED BY <1>2, <3>1, <3>3 DEF CommandAlone, TodoInv, CurrentInv, CleanupAllInv, CleanupInv
  <2>3. CASE NoMoreJobs \/ NotSettled
    <3>1. run' = NotRunning
      BY <2>3 DEF NoMoreJobs, NotSettled, Return
    <3> QED BY <1>5, <3>1 DEF CommandAlone, TodoInv, CurrentInv
  <2>4. CASE AskBank
    <3>1. PICK pc \in {"cancel", "wait"} : run' = [run EXCEPT !.pc = pc]
      BY <2>4 DEF AskBank, Step
    <3>2. run.pc \in Settling
      BY <2>4 DEF AskBank, Settling
    <3>3. /\ run' \in Run /\ run'.pc = pc /\ run'.reviewed = run.reviewed
          /\ run'.todo = run.todo /\ run'.cur = run.cur
      BY <1>4, <3>1 DEF Run, CleanupPC
    <3> QED BY <1>2, <3>2, <3>3
            DEF CommandAlone, TodoInv, CurrentInv, Current, Settling, CleanupAllInv, CleanupInv
  <2> QED BY <2>1, <2>2, <2>3, <2>4
<1> QED BY <1>2, <1>3, <1>6 DEF CleanupAllInv, CommandTypeOK, CleanupInv, JobsInv

\* A command that goes on keeps its plan and its current job.
LEMMA StepEffect ==
  ASSUME CommandTypeOK, NEW pc \in CleanupPC, Step(pc)
  PROVE  /\ run' \in Run /\ run'.pc = pc
         /\ run'.reviewed = run.reviewed /\ run'.todo = run.todo /\ run'.cur = run.cur
         /\ run'.listed = run.listed
BY DEF CommandTypeOK, Step, Run

\* A command that ends leaves nothing but its jobs.
LEMMA ReturnEffect ==
  ASSUME Return
  PROVE  run' \in Run /\ (CommandAlone /\ TodoInv /\ CurrentInv)'
BY DEF Return, NotRunning, Run, CleanupPC, CommandAlone, TodoInv, CurrentInv

\* Recording an exclusion by name alone keeps what is true of the importer.
LEMMA TombstoneKeepsAll ==
  ASSUME AllInv, OneWriterAssumption, FilesOnly, tombstone' \in {tombstone, Excluding},
         faults' \in 0 .. MaxFaults,
         UNCHANGED <<dbVars, remoteVars, sourceVars, workerVars, phase, edits>>
  PROVE  AllInv'
<1> USE DEF AllInv, TypeInv, dbVars, remoteVars, sourceVars, workerVars
<1>1. TypeInv'
  <2>1. OwnContent'
    BY DEF OwnContent, OwnPayloads, OwnBodies, OwnRequests, OwnTasks
  <2>2. tombstone' \subseteq Identity \X Identity
    BY DEF TypeOK, WorkerTypeOK, Excluding, ScanKey, Reported, Identity
  <2> QED BY <2>1, <2>2 DEF TypeOK, DbTypeOK, RemoteTypeOK, WorkerTypeOK
<1>2. OperationInv' /\ OwnershipInv'
  BY DEF OperationInv, TasksInBatch, OperationAt, RowAt, IdentityAt, FilesAt, WaitingAt,
         RecoverableAt, Persisted, OwnershipInv, SingleActive, OwnerAt
<1>3. NameStays' /\ (Left => Left')
  <2>1. CASE UNCHANGED tombstone
    BY <2>1 DEF WriterInv, NameStays, Left
  <2> QED BY <2>1, LiveIsLeft, FilesLeave DEF WriterInv
<1>4. LeftForGood' /\ SentIsHeld'
  BY <1>3, FilesLeave DEF LeftForGood, SentIsHeld, Retaining
<1>5. WriterInv'
  BY <1>3, <1>4 DEF WriterInv, Retaining, RemoteAt, Holds, Requested, LandedAt, OneRemoteWriter,
         Open, Unfinished
<1> QED BY <1>1, <1>2, <1>5

\* A new job names the operation of its generation, which waits for the cleanup.
LEMMA PlanJobsTrue ==
  ASSUME CleanupAllInv, NEW H, PlanSteps(H), UNCHANGED <<operation, remote, wire>>
  PROVE  JobsInv' /\ job' \in [TargetKind -> [Hash -> Job]]
         /\ \A k \in TargetKind, h \in Hash :
              job[k][h].phase # "none" => job'[k][h].phase = job[k][h].phase
<1> USE DEF CleanupAllInv
<1> DEFINE planned(h) == [phase |-> "planned",
                          op |-> IF operation[h][generation[h].replay] = "none" THEN None
                                 ELSE generation[h].replay]
<1>0. /\ \A h \in Hash : /\ generation'[h].replay = generation[h].replay
                         /\ h \in H => generation'[h].state = "cleanup_pending"
                         /\ h \notin H => generation'[h] = generation[h]
                         /\ generation[h].replay \in Replay
      /\ \A h \in Hash : /\ H # {} => ~Retaining'
                         /\ ~Retaining => ~Retaining'
                         /\ LiveKind \in TargetKind
  BY PlanEffect, TaskTypes DEF Retaining, AllInv, TypeInv
<1>1. ASSUME NEW k \in TargetKind, NEW h \in Hash
      PROVE  job'[k][h] = IF k = LiveKind /\ h \in H THEN planned(h) ELSE job[k][h]
  BY <1>0 DEF PlanSteps, PlanJobs, CommandTypeOK
<1>2. Open' = Open
  BY DEF Open, Unfinished
<1>3. ASSUME NEW k \in TargetKind, NEW h \in Hash
      PROVE  JobAt(k, h)'
  <2>1. CASE k = LiveKind /\ h \in H
    <3>1. job'[k][h] = planned(h)
      BY <1>1, <2>1
    <3>2. job'[k][h].phase = "planned"
          /\ job'[k][h].op = IF operation[h][generation[h].replay] = "none" THEN None
                             ELSE generation[h].replay
      BY <3>1
    <3> QED BY <1>0, <2>1, <3>2 DEF JobAt
  <2>2. CASE ~(k = LiveKind /\ h \in H)
    <3>1. JobAt(k, h) /\ job'[k][h] = job[k][h]
      BY <1>1, <2>2 DEF CleanupInv
    <3>2. h \in H => generation[h].state # "excluded"
      BY DEF PlanSteps, Unplanned, Targeted
    <3> QED BY <1>0, <1>2, <3>1, <3>2 DEF JobAt, NothingOpen
  <2> QED BY <2>1, <2>2
<1>4. ASSUME NEW h \in Hash
      PROVE  ExcludedAt(h)'
  <2>1. ExcludedAt(h)
    BY DEF CleanupInv
  <2> QED BY <1>0, <1>2, <2>1 DEF ExcludedAt, NothingOpen
<1>5. job' \in [TargetKind -> [Hash -> Job]]
  <2>1. \A h \in Hash : planned(h) \in Job
    BY <1>0 DEF Job, Phases
  <2>2. job \in [TargetKind -> [Hash -> Job]]
    BY DEF CommandTypeOK
  <2> HIDE DEF planned
  <2>3. job' = [job EXCEPT ![LiveKind] = [h \in Hash |-> IF h \in H THEN planned(h)
                                                         ELSE job[LiveKind][h]]]
    BY DEF PlanSteps, PlanJobs, planned
  <2> QED BY <2>1, <2>2, <2>3
<1>6. ASSUME NEW k \in TargetKind, NEW h \in Hash, job[k][h].phase # "none"
      PROVE  job'[k][h].phase = job[k][h].phase
  <2>1. h \in H => job[LiveKind][h].phase = "none"
    BY DEF PlanSteps, Unplanned
  <2> QED BY <1>1, <1>6, <2>1
<1> QED BY <1>3, <1>4, <1>5, <1>6 DEF JobsInv

\* Planning, whole or torn by a crash.
LEMMA PlanningSteps ==
  ASSUME CleanupAllInv, OneWriterAssumption, FilesOnly, PlanAll \/ PlanTorn
  PROVE  CleanupAllInv'
<1> USE DEF CleanupAllInv
<1>1. /\ run.pc = "classify"
      /\ tombstone' = Excluding
      /\ UNCHANGED <<before, operation, payload, remoteVars, sourceVars, workerVars, phase, edits>>
      /\ faults' \in 0 .. MaxFaults
  <2>1. faults \in 0 .. MaxFaults
    BY DEF AllInv, TypeInv, TypeOK, WorkerTypeOK
  <2> QED BY <2>1, WorkerAssumption DEF PlanAll, PlanTorn, Fault
<1>2. \/ LiveKind = "primary" /\ UNCHANGED <<job, generation, session>>
      \/ \E H \in SUBSET Hash : PlanSteps(H)
  BY DEF PlanAll, PlanTorn, PlanSteps, Unplanned
<1>3. UNCHANGED <<operation, remote, wire>>
  BY <1>1 DEF remoteVars
<1>4. ASSUME UNCHANGED <<job, generation, session>>
      PROVE  AllInv' /\ JobsInv' /\ UNCHANGED job
  <2>2. AllInv'
    BY <1>1, <1>4, TombstoneKeepsAll DEF dbVars
  <2>3. Open' = Open /\ (Retaining' <=> Retaining)
    BY <1>3, <1>4 DEF Open, Unfinished, Retaining
  <2>4. JobsInv'
    BY <1>3, <1>4, <2>3, JobsAreKept
  <2> QED BY <1>4, <2>2, <2>4
<1>5. ASSUME NEW H, PlanSteps(H)
      PROVE  AllInv' /\ JobsInv'
  BY <1>1, <1>3, <1>5, PlanKeepsAll, PlanJobsTrue
<1>6. /\ AllInv' /\ JobsInv' /\ job' \in [TargetKind -> [Hash -> Job]]
      /\ \A k \in TargetKind, h \in Hash :
           job[k][h].phase # "none" => job'[k][h].phase = job[k][h].phase
  BY <1>2, <1>3, <1>4, <1>5, PlanJobsTrue DEF CommandTypeOK
<1>7. run' \in Run /\ (CommandAlone /\ TodoInv /\ CurrentInv)'
  <2>1. CASE PlanAll
    <3>1. /\ run' \in Run /\ run'.pc = "list"
          /\ run'.reviewed = run.reviewed /\ run'.todo = run.todo
      BY <2>1, StepEffect DEF PlanAll, CleanupPC
    <3>2. phase' = "down"
      BY <1>1 DEF CleanupInv, CommandAlone
    <3>3. ASSUME NEW j \in run.todo
          PROVE  j \in run.reviewed /\ job'[j[1]][j[2]].phase \in {"planned", "remote_deleted"}
      <4>1. j \in run.reviewed /\ job[j[1]][j[2]].phase \in {"planned", "remote_deleted"}
        BY DEF CleanupInv, TodoInv
      <4>2. j[1] \in TargetKind /\ j[2] \in Hash
        BY <4>1 DEF CommandTypeOK, Run, JobId
      <4> QED BY <1>6, <4>1, <4>2
    <3> QED BY <3>1, <3>2, <3>3 DEF CommandAlone, TodoInv, CurrentInv
  <2>2. CASE PlanTorn
    BY <2>2, ReturnEffect DEF PlanTorn
  <2> QED BY <2>1, <2>2
<1> QED BY <1>6, <1>7 DEF CommandTypeOK, CleanupInv, JobsInv

\* The operation of a job is open only if its row says that it was sent.
LEMMA JobOpen ==
  ASSUME CleanupAllInv, NEW k \in TargetKind, NEW h \in Hash, job[k][h].phase # "none"
  PROVE  /\ ~Retaining /\ generation[h].state \in {"cleanup_pending", "excluded"}
         /\ job[k][h].op \in Replay \cup {None}
         /\ job[k][h].op # None => job[k][h].op = generation[h].replay
         /\ \A r \in Replay : <<h, r>> \in Open =>
              /\ job[k][h].op # None /\ r = job[k][h].op
              /\ operation[h][r] \in {"submitting", "pending"}
<1>1. JobAt(k, h)
  BY DEF CleanupAllInv, CleanupInv
<1>2. job[k][h].op \in Replay \cup {None}
  BY DEF CleanupAllInv, CommandTypeOK, Job
<1>3. None \notin Replay
  BY HindsightAssumption DEF Replay
<1>4. ASSUME NEW r \in Replay, <<h, r>> \in Open
      PROVE  generation[h].replay = r /\ operation[h][r] \in {"submitting", "pending"}
  BY <1>4 DEF CleanupAllInv, AllInv, WriterInv, RemoteAt, Holds
<1> QED BY <1>1, <1>2, <1>3, <1>4 DEF JobAt

\* The next job: an operation that was never sent is recorded as such, one that
\* is over needs no settling, and any other is settled first.
LEMMA NextJobStep ==
  ASSUME CleanupAllInv, OneWriterAssumption, FilesOnly, NEW j \in JobId, NextJob(j)
  PROVE  CleanupAllInv'
<1> USE DEF CleanupAllInv
<1> DEFINE k == j[1]
           h == j[2]
           op == job[k][h].op
           row == IF op = None THEN "none" ELSE operation[h][op]
           local == row \in Unsent \cup {"rejected"}
           settle == row \notin Unsent \cup {"none", "rejected", "completed", "failed"}
           pc == IF job[k][h].phase = "remote_deleted" THEN "finalize"
                 ELSE IF settle THEN "settle" ELSE "delete"
<1>1. /\ k \in TargetKind /\ h \in Hash /\ j = <<k, h>>
      /\ j \in run.todo /\ j \in run.reviewed /\ job[k][h].phase \in {"planned", "remote_deleted"}
      /\ run.pc = "next"
  <2>1. k \in TargetKind /\ h \in Hash /\ j = <<k, h>>
    BY DEF JobId
  <2>2. j \in run.todo /\ run.pc = "next"
    BY DEF NextJob
  <2>3. j \in run.reviewed /\ job[j[1]][j[2]].phase \in {"planned", "remote_deleted"}
    BY <2>2 DEF CleanupInv, TodoInv
  <2> QED BY <2>1, <2>2, <2>3
<1>2. run \in Run
  BY DEF CommandTypeOK
<1>3. /\ run' \in Run /\ run'.pc = pc /\ run'.cur = j /\ run'.todo = run.todo \ {j}
      /\ run'.reviewed = run.reviewed
  <2>1. run' = [run EXCEPT !.pc = pc, !.cur = j, !.todo = @ \ {j}]
    BY DEF NextJob
  <2>2. pc \in CleanupPC
    BY DEF CleanupPC
  <2> HIDE DEF pc
  <2> QED BY <1>2, <2>1, <2>2 DEF Run
<1>4. /\ UNCHANGED <<session, generation, before, payload, remoteVars, sourceVars, tombstone,
                     workerVars, phase, edits, faults, job>>
      /\ IF pc = "delete" /\ local THEN SetSettled(j, "not_submitted") ELSE UNCHANGED operation
  BY DEF NextJob
<1>5. /\ ~Retaining /\ generation[h].state \in {"cleanup_pending", "excluded"}
      /\ op \in Replay \cup {None}
      /\ \A r \in Replay : <<h, r>> \in Open =>
           op # None /\ r = op /\ operation[h][r] \in {"submitting", "pending"}
  BY <1>1, JobOpen
<1>6. /\ AllInv'
      /\ \A g \in Hash, r \in Replay : operation'[g][r] = "none" <=> operation[g][r] = "none"
  <2>1. CASE pc = "delete" /\ local
    <3>1. op # None /\ op \in Replay /\ operation[h][op] \in Unsent \cup {"rejected"}
      BY <1>5, <2>1 DEF Unsent
    <3>2. operation' = [operation EXCEPT ![h][op] = "not_submitted"]
      BY <1>4, <2>1 DEF SetSettled
    <3>3. <<h, op>> \notin Open
      BY <1>5, <3>1 DEF Unsent
    <3> HIDE DEF op, h, k
    <3>4. /\ operation' \in [Hash -> [Replay -> OperationStatus]]
          /\ \A g \in Hash, r \in Replay :
               operation'[g][r] = IF <<g, r>> = <<h, op>> THEN "not_submitted" ELSE operation[g][r]
      <4>1. operation \in [Hash -> [Replay -> OperationStatus]]
        BY DEF AllInv, TypeInv, TypeOK, DbTypeOK
      <4> QED BY <1>1, <3>1, <3>2, <4>1 DEF OperationStatus
    <3>5. run.pc # "idle"
      BY <1>1
    <3>6. AllInv'
      BY <1>1, <1>4, <1>5, <3>1, <3>3, <3>4, <3>5, SettlingKeepsAll
    <3> QED BY <3>1, <3>4, <3>6 DEF Unsent
  <2>2. CASE ~(pc = "delete" /\ local)
    <3>1. UNCHANGED operation
      BY <1>4, <2>2
    <3>2. UNCHANGED vars
      BY <1>4, <3>1 DEF vars, dbVars
    <3> QED BY <3>1, <3>2, StepAll
  <2> QED BY <2>1, <2>2
<1>7. Open' = Open /\ (Retaining' <=> Retaining)
  BY <1>4 DEF remoteVars, Open, Unfinished, Retaining
<1>8. JobsInv'
  BY <1>4, <1>6, <1>7, JobsAreKept
<1>9. CommandAlone' /\ TodoInv'
  BY <1>1, <1>3, <1>4 DEF CommandAlone, TodoInv, CleanupInv
<1>10. CurrentInv'
  <2>1. Current' = job[k][h]
    BY <1>3, <1>4 DEF Current
  <2>2. CASE pc = "finalize"
    <3>1. job[k][h].phase = "remote_deleted" /\ NothingOpen(h)
      BY <1>1, <2>2 DEF CleanupInv, JobAt
    <3> QED BY <1>1, <1>3, <1>7, <2>1, <2>2, <3>1 DEF CurrentInv, Settling, NothingOpen
  <2>3. CASE pc = "settle"
    <3>1. job[k][h].phase # "remote_deleted" /\ settle
      BY <2>3
    <3>2. job[k][h].phase = "planned" /\ op # None
      BY <1>1, <3>1
    <3> QED BY <1>1, <1>3, <2>1, <2>3, <3>2 DEF CurrentInv, Settling
  <2>4. CASE pc = "delete"
    <3>1. job[k][h].phase = "planned" /\ ~settle
      BY <1>1, <2>4
    <3>2. NothingOpen(h)
      BY <1>5, <3>1 DEF NothingOpen, Unsent
    <3> QED BY <1>1, <1>3, <1>7, <2>1, <2>4, <3>1, <3>2 DEF CurrentInv, Settling, NothingOpen
  <2> QED BY <2>2, <2>3, <2>4
<1> QED BY <1>3, <1>4, <1>6, <1>8, <1>9, <1>10 DEF CommandTypeOK, CleanupInv, JobsInv

\* The status the bank reports of an operation is written to its row.
LEMMA SettledKeepsAll ==
  ASSUME CleanupAllInv, FilesOnly, Settled
  PROVE  /\ AllInv'
         /\ \A g \in Hash, r \in Replay : operation'[g][r] = "none" <=> operation[g][r] = "none"
<1>1. run.pc \in Settling /\ run.pc # "idle"
  BY DEF Settled, Settling
<1>2. PICK x \in Hash, q \in Replay :
        /\ x = run.cur[2] /\ q = Current.op
        /\ ~Retaining /\ generation[x].state \in {"cleanup_pending", "excluded"}
        /\ operation[x][q] # "none"
  BY <1>1, SettlingTypes, CurrentTypes
<1>3. PICK s \in {"completed", "failed"} :
        s = remote[x][q] /\ operation' = [operation EXCEPT ![x][q] = s]
  BY <1>2 DEF Settled, Asked, SetSettled, Current
<1>4. <<x, q>> \notin Open
  BY <1>2, <1>3, OpenIs DEF Unfinished
<1>5. UNCHANGED <<session, generation, before, payload, remoteVars, sourceVars, tombstone,
                  workerVars, phase, edits, faults>>
  BY DEF Settled
<1>6. /\ operation \in [Hash -> [Replay -> OperationStatus]]
      /\ s \in OperationStatus \ {"none"} /\ s \in {"not_submitted", "completed", "failed"}
  BY <1>3 DEF CleanupAllInv, AllInv, TypeInv, TypeOK, DbTypeOK, OperationStatus, TerminalFailures
<1>7. /\ operation' \in [Hash -> [Replay -> OperationStatus]]
      /\ \A h \in Hash, r \in Replay :
           operation'[h][r] = IF <<h, r>> = <<x, q>> THEN s ELSE operation[h][r]
  BY <1>3, <1>6
<1>8. AllInv'
  BY <1>1, <1>2, <1>4, <1>5, <1>6, <1>7, SettlingKeepsAll
<1> QED BY <1>2, <1>6, <1>7, <1>8

\* The bank answers: the operation is cancelled, or settled as it reports.
LEMMA SettleSteps ==
  ASSUME CleanupAllInv, OneWriterAssumption, FilesOnly, CancelOperation \/ Settled
  PROVE  CleanupAllInv'
<1> USE DEF CleanupAllInv
<1> DEFINE k == run.cur[1]
           h == run.cur[2]
           op == Current.op
<1>1. run.pc \in Settling
  BY DEF CancelOperation, Settled, Settling
<1>2. /\ Working /\ op # None
      /\ run.cur \in JobId /\ k \in TargetKind /\ h \in Hash /\ ~Retaining
      /\ generation[h].state \in {"cleanup_pending", "excluded"}
      /\ op \in Replay /\ operation[h][op] # "none" /\ job[k][h].phase # "none"
  BY <1>1, SettlingTypes, CurrentTypes DEF Current
<1>3. /\ run.cur \in run.reviewed /\ run.cur \notin run.todo /\ Current.phase = "planned"
  BY <1>1, <1>2 DEF CleanupInv, CurrentInv, Working, Settling
<1>4. /\ AllInv' /\ Open' \subseteq Open
      /\ \A g \in Hash, r \in Replay : operation'[g][r] = "none" <=> operation[g][r] = "none"
      /\ UNCHANGED <<job, generation, session, phase>>
  <2>1. CASE CancelOperation
    <3>1. CommandBankStep
      BY <1>2, <2>1 DEF CancelOperation, CommandBankStep, Asked, Unfinished
    <3>2. faults' \in 0 .. MaxFaults
      BY <2>1 DEF CancelOperation, AllInv, TypeInv, TypeOK, WorkerTypeOK
    <3> QED BY <1>2, <2>1, <3>1, <3>2, BankStepOpens, BankStepKeepsAll
            DEF CancelOperation, dbVars, AllInv
  <2>2. CASE Settled
    <3>1. PICK s \in {"completed", "failed"} :
            s = remote[h][op] /\ operation' = [operation EXCEPT ![h][op] = s]
      BY <2>2 DEF Settled, Asked, SetSettled, Current
    <3>2. <<h, op>> \notin Open
      BY <1>2, <3>1, OpenIs DEF Unfinished
    <3>3. UNCHANGED <<session, generation, before, payload, remoteVars, sourceVars, tombstone,
                      workerVars, phase, edits, faults, job>>
      BY <2>2 DEF Settled
    <3>4. run.pc # "idle" /\ s \in {"not_submitted", "completed", "failed"}
      BY <1>2 DEF Working
    <3>5. /\ AllInv'
          /\ \A g \in Hash, r \in Replay : operation'[g][r] = "none" <=> operation[g][r] = "none"
      BY <1>1, <1>2, <2>2, SettledKeepsAll
    <3>6. Open' = Open
      BY <3>3 DEF remoteVars, Open, Unfinished
    <3> QED BY <1>2, <3>3, <3>5, <3>6
  <2> QED BY <2>1, <2>2
<1>5. Retaining' <=> Retaining
  BY <1>4 DEF Retaining
<1>6. JobsInv'
  BY <1>4, <1>5, JobsAreKept
<1>7. PICK pc \in {"recheck", "delete"} :
        Step(pc) /\ (pc = "delete" => Settled)
  BY DEF CancelOperation, Settled
<1>8. /\ run' \in Run /\ run'.pc = pc
      /\ run'.reviewed = run.reviewed /\ run'.todo = run.todo /\ run'.cur = run.cur
  BY <1>7, StepEffect DEF CleanupPC
<1>9. CommandAlone' /\ TodoInv'
  BY <1>2, <1>4, <1>8 DEF CommandAlone, TodoInv, CleanupInv, Working
<1>10. pc = "delete" => NothingOpen(h)'
  <2>1. ASSUME pc = "delete", NEW r \in Replay, <<h, r>> \in Open'
        PROVE  FALSE
    <3>1. <<h, r>> \in Open
      BY <1>4, <2>1
    <3>2. r = op
      BY <1>2, <3>1, JobOpen DEF Current
    <3>3. remote[h][op] \in {"completed", "failed"}
      BY <1>7, <2>1 DEF Settled, Asked
    <3> QED BY <1>2, <3>1, <3>2, <3>3, OpenIs DEF Unfinished
  <2> QED BY <1>8, <2>1 DEF NothingOpen
<1>11. CurrentInv'
  BY <1>2, <1>3, <1>4, <1>8, <1>10 DEF CurrentInv, Current, Settling
<1> QED BY <1>4, <1>6, <1>8, <1>9, <1>11 DEF CommandTypeOK, CleanupInv, JobsInv

\* The document is deleted; nothing is left to write it again.
LEMMA DeleteSteps ==
  ASSUME CleanupAllInv, OneWriterAssumption, FilesOnly, DeleteDocument
  PROVE  CleanupAllInv'
<1> USE DEF CleanupAllInv
<1>1. Working /\ run.pc = "delete"
  BY DEF DeleteDocument, Working
<1>2. CommandBankStep /\ ~Retaining
  BY <1>1, CurrentTypes DEF DeleteDocument, CommandBankStep
<1>3. faults' \in 0 .. MaxFaults
  BY DEF DeleteDocument, AllInv, TypeInv, TypeOK, WorkerTypeOK
<1>4. /\ AllInv' /\ Open' \subseteq Open
      /\ UNCHANGED <<job, generation, operation, session, phase>>
  BY <1>2, <1>3, BankStepKeepsAll, BankStepOpens DEF DeleteDocument, AllInv, dbVars
<1>5. JobsInv'
  BY <1>4, JobsAreKept DEF Retaining
<1>6. /\ run' \in Run /\ run'.pc = "mark"
      /\ run'.reviewed = run.reviewed /\ run'.todo = run.todo /\ run'.cur = run.cur
  BY DEF DeleteDocument, CommandTypeOK, Run, CleanupPC
<1>7. CommandAlone' /\ TodoInv'
  BY <1>1, <1>4, <1>6 DEF CommandAlone, TodoInv, CleanupInv
<1>8. CurrentInv'
  <2>1. NothingOpen(run.cur[2]) => NothingOpen(run.cur[2])'
    BY <1>4, <1>6 DEF NothingOpen
  <2> QED BY <1>1, <1>4, <1>6, <2>1 DEF CleanupInv, CurrentInv, Current, Settling
<1> QED BY <1>4, <1>5, <1>6, <1>7, <1>8 DEF CommandTypeOK, CleanupInv, JobsInv

\* A phase is written to the current job.
LEMMA PhaseEffect ==
  ASSUME CleanupAllInv, Working, NEW p \in Phases, SetPhase(p)
  PROVE  /\ job' \in [TargetKind -> [Hash -> Job]]
         /\ \A k \in TargetKind, h \in Hash :
              /\ job'[k][h].op = job[k][h].op
              /\ job'[k][h].phase = IF <<k, h>> = run.cur THEN p ELSE job[k][h].phase
<1>1. PICK x \in TargetKind, q \in Hash : x = run.cur[1] /\ q = run.cur[2] /\ run.cur = <<x, q>>
  BY CurrentTypes
<1>2. job' = [job EXCEPT ![x][q].phase = p]
  BY <1>1 DEF SetPhase
<1>3. job \in [TargetKind -> [Hash -> Job]]
  BY DEF CleanupAllInv, CommandTypeOK
<1>4. job' = [job EXCEPT ![x] = [job[x] EXCEPT ![q] = [job[x][q] EXCEPT !.phase = p]]]
  BY <1>2, <1>3
<1>5. \A k \in TargetKind, h \in Hash :
        job'[k][h] = IF k = x /\ h = q THEN [job[k][h] EXCEPT !.phase = p] ELSE job[k][h]
  BY <1>3, <1>4
<1>6. [job[x][q] EXCEPT !.phase = p] \in Job
  BY <1>3 DEF Job
<1>7. job' \in [TargetKind -> [Hash -> Job]]
  BY <1>3, <1>4, <1>6
<1>8. ASSUME NEW k \in TargetKind, NEW h \in Hash
      PROVE  /\ job'[k][h].op = job[k][h].op
             /\ job'[k][h].phase = IF <<k, h>> = run.cur THEN p ELSE job[k][h].phase
  <2>1. job[k][h] \in Job /\ (<<k, h>> = run.cur <=> k = x /\ h = q)
    BY <1>1, <1>3
  <2>2. CASE <<k, h>> = run.cur
    <3>1. job'[k][h] = [job[k][h] EXCEPT !.phase = p]
      BY <1>5, <2>1, <2>2
    <3> QED BY <2>1, <2>2, <3>1 DEF Job
  <2>3. CASE <<k, h>> # run.cur
    BY <1>5, <2>1, <2>3
  <2> QED BY <2>2, <2>3
<1> QED BY <1>7, <1>8

\* The job is marked when the document is gone, and closed when its generation
\* is excluded.
LEMMA MarkSteps ==
  ASSUME CleanupAllInv, OneWriterAssumption, FilesOnly, MarkDeleted \/ CloseJob
  PROVE  CleanupAllInv'
<1> USE DEF CleanupAllInv
<1>1. Working /\ run.pc \in {"mark", "close"}
  BY DEF MarkDeleted, CloseJob, Working
<1>2. PICK p \in {"remote_deleted", "state_finalized"}, pc \in {"finalize", "next"} :
        /\ SetPhase(p) /\ Step(pc)
        /\ \/ p = "remote_deleted" /\ pc = "finalize" /\ run.pc = "mark"
           \/ p = "state_finalized" /\ pc = "next" /\ run.pc = "close"
  BY DEF MarkDeleted, CloseJob
<1>3. UNCHANGED vars
  BY DEF MarkDeleted, CloseJob
<1>4. /\ AllInv' /\ Open' = Open /\ (Retaining' <=> Retaining)
      /\ UNCHANGED <<generation, operation, phase>>
  BY <1>3, StepAll DEF vars, dbVars, remoteVars, Open, Unfinished, Retaining
<1>5. /\ job' \in [TargetKind -> [Hash -> Job]]
      /\ \A k \in TargetKind, h \in Hash :
           /\ job'[k][h].op = job[k][h].op
           /\ job'[k][h].phase = IF <<k, h>> = run.cur THEN p ELSE job[k][h].phase
  BY <1>1, <1>2, PhaseEffect DEF Phases
<1>6. /\ run' \in Run /\ run'.pc = pc
      /\ run'.reviewed = run.reviewed /\ run'.todo = run.todo /\ run'.cur = run.cur
  BY <1>2, StepEffect DEF CleanupPC
<1>7. /\ run.cur[1] \in TargetKind /\ run.cur[2] \in Hash /\ run.cur = <<run.cur[1], run.cur[2]>>
      /\ run.cur \in run.reviewed /\ run.cur \notin run.todo
      /\ NothingOpen(run.cur[2])
      /\ run.pc = "close" => generation[run.cur[2]].state = "excluded"
      /\ job[run.cur[1]][run.cur[2]].phase # "none"
  BY <1>1, CurrentTypes DEF CleanupInv, CurrentInv, Settling, Current
<1>8. ASSUME NEW k \in TargetKind, NEW h \in Hash
      PROVE  JobAt(k, h)'
  <2>1. JobAt(k, h)
    BY DEF CleanupInv
  <2>2. <<k, h>> = run.cur => k = run.cur[1] /\ h = run.cur[2]
    OBVIOUS
  <2>3. CASE <<k, h>> = run.cur
    <3>1. /\ job[k][h].phase # "none" /\ NothingOpen(h)
          /\ p = "state_finalized" => generation[h].state = "excluded"
      BY <1>2, <1>7, <2>2, <2>3
    <3>2. job'[k][h].phase = p /\ job'[k][h].op = job[k][h].op
      BY <1>5, <2>3
    <3> QED BY <1>4, <2>1, <3>1, <3>2 DEF JobAt, NothingOpen
  <2>4. CASE <<k, h>> # run.cur
    <3>1. job'[k][h].phase = job[k][h].phase /\ job'[k][h].op = job[k][h].op
      BY <1>5, <2>4
    <3> QED BY <1>4, <2>1, <3>1 DEF JobAt, NothingOpen
  <2> QED BY <2>3, <2>4
<1>9. ASSUME NEW h \in Hash
      PROVE  ExcludedAt(h)'
  BY <1>4 DEF CleanupInv, ExcludedAt, NothingOpen
<1>10. TodoInv'
  <2>1. ASSUME NEW j \in run.todo
        PROVE  j \in run.reviewed /\ job'[j[1]][j[2]].phase \in {"planned", "remote_deleted"}
    <3>1. j \in run.reviewed /\ job[j[1]][j[2]].phase \in {"planned", "remote_deleted"}
      BY DEF CleanupInv, TodoInv
    <3>2. j[1] \in TargetKind /\ j[2] \in Hash /\ j = <<j[1], j[2]>>
      BY <3>1 DEF CommandTypeOK, Run, JobId
    <3>3. <<j[1], j[2]>> # run.cur
      BY <1>7, <3>2
    <3> QED BY <1>5, <3>1, <3>2, <3>3
  <2> QED BY <1>6, <2>1 DEF TodoInv
<1>11. CommandAlone'
  BY <1>1, <1>4, <1>6 DEF CommandAlone, CleanupInv
<1>12. CurrentInv'
  <2>1. CASE pc = "next"
    BY <1>6, <2>1 DEF CurrentInv
  <2>2. CASE pc = "finalize"
    <3>1. job'[run.cur[1]][run.cur[2]].phase = "remote_deleted"
      BY <1>2, <1>5, <1>7, <2>2
    <3>2. Current' = job'[run.cur[1]][run.cur[2]] /\ NothingOpen(run.cur[2])'
      BY <1>4, <1>6, <1>7 DEF Current, NothingOpen
    <3> QED BY <1>6, <1>7, <2>2, <3>1, <3>2 DEF CurrentInv, Settling
  <2> QED BY <1>2, <2>1, <2>2
<1> QED BY <1>4, <1>5, <1>6, <1>8, <1>9, <1>10, <1>11, <1>12 DEF CommandTypeOK, CleanupInv

\* The generation is excluded, and the session marked.
LEMMA FinalizeSteps ==
  ASSUME CleanupAllInv, OneWriterAssumption, FilesOnly, FinalizeExcluded
  PROVE  CleanupAllInv'
<1> USE DEF CleanupAllInv
<1>1. Working /\ run.pc = "finalize"
  BY DEF FinalizeExcluded, Working
<1>2. AllInv' /\ ~Retaining'
  BY FinalizeKeepsAll
<1>3. UNCHANGED <<operation, job, phase>> /\ Open' = Open
  BY DEF FinalizeExcluded, remoteVars, Open, Unfinished
<1>4. \A h \in Hash :
        /\ generation'[h].replay = generation[h].replay
        /\ h # run.cur[2] => generation'[h] = generation[h]
        /\ h = run.cur[2] => generation'[h].state = "excluded"
  BY FinalizeEffect
<1>5. /\ run.cur \in run.reviewed /\ run.cur \notin run.todo /\ run.cur[2] \in Hash
      /\ NothingOpen(run.cur[2]) /\ Current.phase = "remote_deleted"
  BY <1>1, CurrentTypes DEF CleanupInv, CurrentInv, Settling
<1>6. /\ run' \in Run /\ run'.pc = "close"
      /\ run'.reviewed = run.reviewed /\ run'.todo = run.todo /\ run'.cur = run.cur
  BY StepEffect DEF FinalizeExcluded, CleanupPC
<1>7. ASSUME NEW h \in Hash
      PROVE  /\ ExcludedAt(h)'
             /\ \A k \in TargetKind : JobAt(k, h)'
  <2>1. NothingOpen(h)' <=> NothingOpen(h)
    BY <1>3 DEF NothingOpen
  <2>2. CASE h = run.cur[2]
    <3>1. NothingOpen(h) /\ generation'[h].state = "excluded"
      BY <1>4, <1>5, <2>2
    <3>2. ASSUME NEW k \in TargetKind
          PROVE  JobAt(k, h)'
      <4>1. JobAt(k, h)
        BY DEF CleanupInv
      <4> QED BY <1>2, <1>3, <1>4, <2>1, <3>1, <4>1 DEF JobAt
    <3> QED BY <2>1, <3>1, <3>2 DEF ExcludedAt
  <2>3. CASE h # run.cur[2]
    <3>1. generation'[h] = generation[h] /\ ExcludedAt(h)
      BY <1>4, <2>3 DEF CleanupInv
    <3>2. ASSUME NEW k \in TargetKind
          PROVE  JobAt(k, h)'
      <4>1. JobAt(k, h)
        BY DEF CleanupInv
      <4> QED BY <1>2, <1>3, <2>1, <3>1, <4>1 DEF JobAt
    <3> QED BY <2>1, <3>1, <3>2 DEF ExcludedAt
  <2> QED BY <2>2, <2>3
<1>8. CommandAlone' /\ TodoInv'
  BY <1>1, <1>3, <1>6 DEF CommandAlone, TodoInv, CleanupInv
<1>9. CurrentInv'
  <2>1. /\ Current'.phase = "remote_deleted"
        /\ NothingOpen(run.cur[2])' /\ generation'[run.cur[2]].state = "excluded"
    BY <1>3, <1>4, <1>5, <1>6 DEF Current, NothingOpen
  <2> QED BY <1>5, <1>6, <2>1 DEF CurrentInv, Settling
<1> QED BY <1>2, <1>3, <1>6, <1>7, <1>8, <1>9 DEF CommandTypeOK, CleanupInv

\* A command that stops at an await may have cancelled an operation, or deleted
\* the document.
LEMMA StopSteps ==
  ASSUME CleanupAllInv, OneWriterAssumption, FilesOnly, CleanupStops
  PROVE  CleanupAllInv'
<1> USE DEF CleanupAllInv
<1>1. /\ UNCHANGED <<dbVars, body, wire, sourceVars, tombstone, workerVars, phase, edits, job>>
      /\ faults' \in 0 .. MaxFaults
  BY WorkerAssumption DEF CleanupStops, Fault, AllInv, TypeInv, TypeOK, WorkerTypeOK
<1>2. AllInv' /\ Open' \subseteq Open
  <2>1. CASE UNCHANGED <<remote, document>>
    <3>1. UNCHANGED <<dbVars, remoteVars, sourceVars, workerVars, phase, edits>>
      BY <1>1, <2>1 DEF remoteVars
    <3>3. AllInv'
      BY <1>1, <3>1, TombstoneKeepsAll
    <3> QED BY <1>1, <2>1, <3>3 DEF Open, Unfinished
  <2>2. CASE ~UNCHANGED <<remote, document>>
    <3>1. Working
      BY <2>2 DEF CleanupStops, Working
    <3>2. ~Retaining /\ run.cur[2] \in Hash /\ (run.pc = "cancel" => Current.op \in Replay)
      BY <3>1, CurrentTypes, SettlingTypes DEF Settling
    <3>3. CommandBankStep
      BY <1>1, <2>2, <3>2 DEF CleanupStops, CommandBankStep, Asked, Unfinished
    <3> QED BY <1>1, <3>2, <3>3, BankStepKeepsAll, BankStepOpens DEF AllInv
  <2> QED BY <2>1, <2>2
<1>3. JobsInv'
  BY <1>1, <1>2, JobsAreKept DEF dbVars, Retaining
<1>4. run' \in Run /\ (CommandAlone /\ TodoInv /\ CurrentInv)'
  BY ReturnEffect DEF CleanupStops
<1> QED BY <1>1, <1>2, <1>3, <1>4 DEF CommandTypeOK, CleanupInv, JobsInv

-----------------------------------------------------------------------------
(* The jobs through the steps of the importer, its bank and its source.    *)

\* Nothing is sent for a session that is not retained, and nothing recorded.
LEMMA LeftOperations ==
  ASSUME AllInv, OneWriterAssumption, FilesOnly, Next, ~Retaining
  PROVE  UNCHANGED operation /\ Open' \subseteq Open
<1> USE DEF AllInv, dbVars, workerVars, localVars
<1>1. ASSUME NEW x \in Hash
      PROVE  ~Engaged(x) /\ ~Begin(x)
  BY DEF OwnershipInv, OwnerAt, Engaged, Begin, Claimable, Retaining
<1>2. ASSUME NEW x \in Hash, TaskStep(x)
      PROVE  UNCHANGED operation
  BY <1>1, <1>2, IdleTaskStep DEF BeginRefused, Cleanup
<1>3. ASSUME NEW x \in Hash, WorkerFault(x)
      PROVE  FALSE
  BY <1>1, <1>3 DEF WorkerFault, TaskFault, PostAttemptLost, PostRejected, TaskError, Awaiting,
                    CrashInExclusion, Exclude, Engaged
<1>4. ASSUME Scan \/ ScanFault \/ RetryFailed \/ CancelQueuedWork
      PROVE  UNCHANGED operation
  BY <1>4 DEF Scan, ScanFault, ScanMissing, ScanExcluded, ScanUnchanged, ScanEmpty, ScanLoaded,
              ScanTorn, RetryFailed, CancelQueuedWork
<1>5. ASSUME \/ Environment \/ StartBatch \/ BatchDone \/ Startup \/ Crash
             \/ \E x \in Hash, q \in Replay : Work(x, q)
      PROVE  UNCHANGED operation
  BY <1>5 DEF Environment, Edit, Reclassify, CompleteHeader, Transit, BankFault, Work, StartBatch, RunOnce,
              BatchDone, Startup, Crash
<1>6. UNCHANGED operation
  BY <1>2, <1>3, <1>4, <1>5 DEF Next, WorkerStep
<1>7. ASSUME NEW o \in Open'
      PROVE  o \in Open
  <2>1. PICK h \in Hash, r \in Replay : o = <<h, r>>
    BY DEF Open
  <2> QED BY <2>1, BankMoves, SendingIsRecorded DEF RemoteMoves
<1> QED BY <1>6, <1>7

\* No step of the importer disturbs a job, or a generation that is excluded.
LEMMA JobsSurvive ==
  ASSUME CleanupAllInv, OneWriterAssumption, FilesOnly, Next, UNCHANGED job
  PROVE  JobsInv'
<1> USE DEF CleanupAllInv, AllInv
<1>1. ASSUME NEW k \in TargetKind, NEW h \in Hash, job[k][h].phase # "none"
      PROVE  JobAt(k, h)'
  <2>1. JobAt(k, h) /\ ~Retaining /\ generation[h].state \in {"cleanup_pending", "excluded"}
    BY <1>1 DEF CleanupInv, JobAt
  <2>2. ~Retaining' /\ UNCHANGED operation /\ Open' \subseteq Open
    BY <2>1, FilesLeave, StaysLeft, LeftOperations
  <2>3. generation'[h] = generation[h]
    BY <2>1, <2>2, LeftSessionMoves DEF MarkSessionGenerationsCleanupPending, ResetFailed, CancelQueued,
                                  Moved
  <2> QED BY <1>1, <2>1, <2>2, <2>3 DEF JobAt, NothingOpen
<1>2. ASSUME NEW k \in TargetKind, NEW h \in Hash
      PROVE  JobAt(k, h)'
  BY <1>1 DEF JobAt
<1>3. ASSUME NEW h \in Hash
      PROVE  ExcludedAt(h)'
  <2>1. ASSUME generation'[h].state = "excluded", NEW r \in Replay, <<h, r>> \in Open'
        PROVE  FALSE
    <3>1. generation[h].state = "excluded"
      <4>1. StateMoves(h)
        BY StateSteps
      <4> QED BY <2>1, <4>1 DEF StateMoves, Active
    <3>2. <<h, r>> \notin Open
      BY <3>1 DEF CleanupInv, ExcludedAt, NothingOpen
    <3>3. Sending(h, r)
      BY <2>1, <3>2, BankMoves DEF RemoteMoves
    <3> QED BY <3>1, <3>3, SendingIsRecorded DEF Active
  <2> QED BY <2>1 DEF ExcludedAt, NothingOpen
<1> QED BY <1>2, <1>3 DEF JobsInv

\* The importer while no command runs, and its surroundings while one does.
LEMMA OtherSteps ==
  ASSUME CleanupAllInv, OneWriterAssumption, FilesOnly, UNCHANGED cleanupVars,
         \/ run.pc = "idle" /\ Next
         \/ run.pc # "idle" /\ (Environment \/ \E h \in Hash, r \in Replay : Work(h, r))
  PROVE  CleanupAllInv'
<1> USE DEF CleanupAllInv
<1>1. Next /\ UNCHANGED <<job, run>>
  BY DEF Next, cleanupVars
<1>2. AllInv'
  BY <1>1, StepAll
<1>3. JobsInv'
  BY <1>1, JobsSurvive
<1>4. TodoInv'
  BY <1>1 DEF CleanupInv, TodoInv
<1>5. CommandAlone' /\ (run.pc # "idle" => UNCHANGED <<generation, phase>>)
  BY <1>1 DEF CleanupInv, CommandAlone, Environment, Edit, Reclassify, CompleteHeader, Transit, BankFault, Work,
              localVars, dbVars
<1>6. CurrentInv'
  <2>1. CASE Working
    <3>1. ~Retaining /\ run.cur[2] \in Hash /\ run.pc # "idle"
      BY <2>1, CurrentTypes DEF Working
    <3>2. Open' \subseteq Open
      BY <1>1, <3>1, LeftOperations
    <3>3. NothingOpen(run.cur[2]) => NothingOpen(run.cur[2])'
      BY <1>1, <3>2 DEF NothingOpen
    <3>4. UNCHANGED <<run, job, generation>> /\ Current' = Current
      BY <1>1, <1>5, <3>1 DEF Current
    <3> QED BY <2>1, <3>3, <3>4 DEF CleanupInv, CurrentInv, Working
  <2>2. CASE ~Working
    BY <1>1, <2>2 DEF CurrentInv, Working
  <2> QED BY <2>1, <2>2
<1> QED BY <1>1, <1>2, <1>3, <1>4, <1>5, <1>6 DEF CommandTypeOK, CleanupInv, JobsInv

-----------------------------------------------------------------------------
(* The invariant.                                                          *)

LEMMA StepCleanup ==
  ASSUME CleanupAllInv, OneWriterAssumption, FilesOnly, [CleanupNext]_<<vars, cleanupVars>>
  PROVE  CleanupAllInv'
<1>1. CASE UNCHANGED <<vars, cleanupVars>>
  <2>1. AllInv' /\ UNCHANGED <<job, run, generation, operation, remote, wire, session, phase>>
    BY <1>1, StepAll DEF CleanupAllInv, vars, dbVars, remoteVars, cleanupVars
  <2>2. JobsInv'
    BY <2>1, JobsAreKept DEF Open, Unfinished, Retaining
  <2>3. (CommandAlone /\ TodoInv)'
    BY <2>1 DEF CleanupAllInv, CleanupInv, CommandAlone, TodoInv
  <2>4. CurrentInv'
    BY <2>1 DEF CleanupAllInv, CleanupInv, CurrentInv, Current, NothingOpen, Open, Unfinished
  <2> QED BY <2>1, <2>2, <2>3, <2>4 DEF CleanupAllInv, CommandTypeOK, CleanupInv, JobsInv
<1>2. CASE CleanupStep
  BY <1>2, QuietCommandSteps, PlanningSteps, NextJobStep, SettleSteps, DeleteSteps, MarkSteps,
     FinalizeSteps, StopSteps DEF CleanupStep
<1>3. CASE CleanupNext /\ ~CleanupStep
  BY <1>3, OtherSteps DEF CleanupNext
<1> QED BY <1>1, <1>2, <1>3

LEMMA InitCleanup ==
  ASSUME CleanupInit
  PROVE  CleanupAllInv
<1>1. AllInv
  BY InitTypes, InitOperations, InitOwnership, InitWriter DEF CleanupInit, AllInv
<1>2. /\ run = NotRunning /\ job \in [TargetKind -> [Hash -> Job]]
      /\ \A k \in TargetKind, h \in Hash : job[k][h].phase = "none"
  BY DEF CleanupInit, Job, Phases
<1>3. run \in Run /\ CommandAlone /\ TodoInv /\ CurrentInv
  BY <1>2 DEF NotRunning, Run, CleanupPC, CommandAlone, TodoInv, CurrentInv
<1>4. \A k \in TargetKind, h \in Hash : JobAt(k, h)
  BY <1>2 DEF JobAt
<1>5. Open = {}
  BY DEF CleanupInit, Init, Open, Unfinished
<1> QED BY <1>1, <1>2, <1>3, <1>4, <1>5
        DEF CleanupAllInv, CommandTypeOK, CleanupInv, ExcludedAt, NothingOpen

\* The inductive invariant: what the importer, the jobs and the command say of
\* each other at every step of either.
THEOREM CleanupIsSound ==
  ASSUME OneWriterAssumption, FilesOnly
  PROVE  CleanupSpec => []CleanupAllInv
BY InitCleanup, StepCleanup, PTL DEF CleanupSpec

\* Rows of table cleanup_jobs and the state of the command are what the code
\* can write.
THEOREM CleanupTypesAreCorrect ==
  ASSUME OneWriterAssumption, FilesOnly
  PROVE  CleanupSpec => []CleanupTypeOK
<1>1. CleanupAllInv => CleanupTypeOK
  BY DEF CleanupAllInv, CommandTypeOK, CleanupTypeOK, AllInv, TypeInv
<1> QED BY <1>1, CleanupIsSound, PTL

\* While operators clean up and the daemon retains, at most one operation can
\* still change the remote document.
THEOREM CleanupKeepsOneWriter ==
  ASSUME OneWriterAssumption, FilesOnly
  PROVE  CleanupSpec => []OneRemoteWriter
<1>1. CleanupAllInv => OneRemoteWriter
  BY DEF CleanupAllInv, AllInv, WriterInv
<1> QED BY <1>1, CleanupIsSound, PTL

\* An excluded generation has no operation whose outcome is open: nothing that
\* was sent for it can write the document any more (settleOperation).
THEOREM ExcludedIsSettled ==
  ASSUME OneWriterAssumption, FilesOnly
  PROVE  CleanupSpec => []SettledBeforeExcluded
<1>1. CleanupAllInv => SettledBeforeExcluded
  BY DEF CleanupAllInv, CleanupInv, ExcludedAt, NothingOpen, SettledBeforeExcluded
<1> QED BY <1>1, CleanupIsSound, PTL

\* A job is only closed when its generation was excluded, so an interrupted
\* command leaves nothing that the next one would skip.
THEOREM ClosedJobsAreDone ==
  ASSUME OneWriterAssumption, FilesOnly
  PROVE  CleanupSpec => []FinalizedIsExcluded
<1>1. CleanupAllInv => FinalizedIsExcluded
  BY DEF CleanupAllInv, CleanupInv, JobAt, FinalizedIsExcluded
<1> QED BY <1>1, CleanupIsSound, PTL

-----------------------------------------------------------------------------
(* What is deleted.                                                        *)

\* While a command runs, only its own deletion takes the document away, done or
\* interrupted: the bank replaces it by a content.
LEMMA DeletionsOnly ==
  ASSUME CleanupAllInv, CleanupNext, run.pc # "idle", document # None, document' = None
  PROVE  /\ run.pc = "delete" /\ UNCHANGED <<kind, tombstone>>
         /\ DeleteDocument \/ CleanupStops
<1> USE DEF vars, dbVars, remoteVars, sourceVars
<1>1. CASE CleanupStep
  <2>1. CASE DeleteDocument \/ CleanupStops
    BY <1>1, <2>1 DEF DeleteDocument, CleanupStops
  <2>2. CASE ~(DeleteDocument \/ CleanupStops)
    BY <1>1, <2>2 DEF CleanupStep, StartCleanup, PlanAll, PlanTorn, ListDocuments, NextJob, NoMoreJobs,
                      AskBank, CancelOperation, Settled, NotSettled, MarkDeleted, FinalizeExcluded,
                      CloseJob
  <2> QED BY <2>1, <2>2
<1>2. ASSUME Environment
      PROVE  FALSE
  BY <1>2 DEF Environment, Edit, Reclassify, CompleteHeader, Transit, Deliver, Drop, BankFault, RemoteFail, Prune,
              localVars
<1>3. ASSUME NEW h \in Hash, NEW r \in Replay, Work(h, r)
      PROVE  FALSE
  <2>1. body[h][r] # None \/ UNCHANGED document
    <3>1. RemoteAt(h, r)
      BY DEF CleanupAllInv, AllInv, WriterInv
    <3> QED BY <1>3, <3>1 DEF Work, RemoteStart, RemoteComplete, RemoteAt
  <2> QED BY <1>3, <2>1 DEF Work, RemoteStart, RemoteComplete
<1> QED BY <1>1, <1>2, <1>3 DEF CleanupNext

\* docs/SECURITY.md: "Deletion is limited to explicit, reviewed cleanup plans".
THEOREM DeletionsAreReviewed ==
  ASSUME OneWriterAssumption, FilesOnly
  PROVE  CleanupSpec => DeletionIsReviewed
<1>1. CleanupAllInv /\ [CleanupNext]_<<vars, cleanupVars>> =>
        [run.pc # "idle" /\ document # None /\ document' = None =>
           run.cur \in run.reviewed]_<<vars, cleanupVars>>
  BY DeletionsOnly DEF CleanupAllInv, CleanupInv, CurrentInv
<1> QED BY <1>1, CleanupIsSound, PTL DEF CleanupSpec, DeletionIsReviewed

\* However the session is renamed, deleted and restored while the command and
\* its predecessors run, a document is only deleted while its session is one
\* that is not to be kept.
THEOREM DeletionsAreExclusions ==
  ASSUME OneWriterAssumption, FilesOnly
  PROVE  CleanupSpec => DeletedIsExcluded
<1>1. ASSUME CleanupAllInv, CleanupNext, run.pc # "idle", document # None, document' = None
      PROVE  kind # "primary" \/ StoredKey \in tombstone
  <2>1. run.pc = "delete"
    BY <1>1, DeletionsOnly
  <2>2. ~Retaining
    BY <1>1, <2>1, CurrentTypes DEF Working
  <2> QED BY <1>1, <2>2, FilesLeave DEF CleanupAllInv, Left
<1>2. CleanupAllInv /\ [CleanupNext]_<<vars, cleanupVars>> =>
        [run.pc # "idle" /\ document # None /\ document' = None =>
           kind # "primary" \/ StoredKey \in tombstone]_<<vars, cleanupVars>>
  BY <1>1
<1> QED BY <1>2, CleanupIsSound, PTL DEF CleanupSpec, DeletedIsExcluded

=============================================================================
