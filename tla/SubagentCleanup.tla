-------------------------- MODULE SubagentCleanup --------------------------
(***************************************************************************)
(* cleanup-subagents: the operator's command that deletes the remote       *)
(* document of a session that is not to be kept, while the daemon is       *)
(* stopped.  It writes a job for every generation of the session, settles  *)
(* the operation of the generation at the bank, deletes the document, and  *)
(* excludes the generation; jobs survive the command.                      *)
(*                                                                         *)
(* The bank, requests in transit and the source go on while it runs; each  *)
(* action is the code between two awaits or two transactions.              *)
(***************************************************************************)
EXTENDS Importer

VARIABLES
  job,    \* job[k][h]: the row of table cleanup_jobs for target k, content h
  run     \* the command that is running

cleanupVars == <<job, run>>

TargetKind == Kind \ {"primary"}

Phases == {"none", "planned", "remote_deleted", "state_finalized"}

Job == [phase : Phases,
        op    : Replay \cup {None}]      \* old_operation_id

JobId == TargetKind \X Hash

CleanupPC == {"idle", "classify", "list", "next", "settle", "cancel", "recheck", "wait",
              "delete", "mark", "finalize", "close"}

Run == [pc        : CleanupPC,
        ambiguous : BOOLEAN,             \* --include-ambiguous
        reviewed  : SUBSET JobId,        \* jobs of the plan that is applied
        listed    : BOOLEAN,             \* remoteDocuments has the document
        todo      : SUBSET JobId,        \* jobs the loop has not reached
        cur       : JobId \cup {None}]

NotRunning == [pc |-> "idle", ambiguous |-> FALSE, reviewed |-> {}, listed |-> FALSE,
               todo |-> {}, cur |-> None]

CleanupTypeOK ==
  /\ TypeOK
  /\ job \in [TargetKind -> [Hash -> Job]]
  /\ run \in Run

CleanupInit ==
  /\ Init
  /\ job = [k \in TargetKind |-> [h \in Hash |-> [phase |-> "none", op |-> None]]]
  /\ run = NotRunning

-----------------------------------------------------------------------------
(* Planning.                                                               *)

\* targetForGeneration: generation h of a session of kind k is to be removed.
Targeted(h, k, ambiguous) ==
  /\ generation[h].state \notin {"none", "excluded", "superseded"}
  /\ k # "primary"
  /\ k = "ambiguous" => ambiguous
  /\ session.status = "ambiguous_preserved" => k = "configured" \/ ambiguous

\* A source that exists is classified under the identity discovery reports.
Grouped == source # Gone /\ Reported = "stored"

\* The plan knows tombstones and sources that exist, the command also what
\* the session row says of a source that is gone.
ReviewedKind == EffectiveKind(StoredKey, IF Grouped THEN kind ELSE "primary")

LiveKind == EffectiveKind(StoredKey, IF Grouped THEN kind ELSE session.kind)

\* classifyLiveSources records an exclusion under the identity it discovered.
Excluding == IF source # Gone /\ kind = "configured" THEN tombstone \cup {ScanKey} ELSE tombstone

Step(pc) == run' = [run EXCEPT !.pc = pc]

Return == run' = NotRunning

\* The plan file is the plan of this moment: the command compares their hashes.
\* An operator applies a plan that has jobs.
StartCleanup(ambiguous) ==
  /\ phase = "down"
  /\ run.pc = "idle"
  /\ LET plan == {ReviewedKind} \X {h \in Hash : Targeted(h, ReviewedKind, ambiguous)}
     IN  /\ plan # {}
         /\ run' = [NotRunning EXCEPT !.pc = "classify", !.ambiguous = ambiguous,
                                      !.reviewed = plan]
  /\ UNCHANGED <<vars, job>>

\* planCleanupJob for the generations in H: job, generation and session.
PlanJobs(k, H) ==
  /\ job' = [job EXCEPT ![k] = [h \in Hash |->
       IF h \in H
       THEN [phase |-> "planned",
             op |-> IF operation[h][generation[h].replay] = "none" THEN None
                    ELSE generation[h].replay]
       ELSE job[k][h]]]
  /\ generation' = Moved(H, {"queued", "submitted", "processing", "completed", "failed"},
                         "cleanup_pending")
  /\ session' = IF H = {} \/ session.status \in ExcludedStatus \cup {"cleanup_pending"}
                THEN session
                ELSE [session EXCEPT !.status = "cleanup_pending"]

Unplanned(k) == {h \in Hash : Targeted(h, k, run.ambiguous) /\ job[k][h].phase = "none"}

\* Faulty: an exclusion by name is used, but not recorded.
PlanAllForgetful ==
  /\ run.pc = "classify"
  /\ \/ LiveKind = "primary" /\ UNCHANGED <<job, generation, session>>
     \/ LiveKind # "primary" /\ PlanJobs(LiveKind, Unplanned(LiveKind))
  /\ Step("list")
  /\ UNCHANGED <<before, operation, payload, remoteVars, sourceVars, tombstone, workerVars, phase,
                 edits, faults>>

\* Sources are classified again, exclusions by name recorded, jobs written.
PlanAll ==
  /\ run.pc = "classify"
  /\ tombstone' = Excluding
  /\ \/ LiveKind = "primary" /\ UNCHANGED <<job, generation, session>>
     \/ LiveKind # "primary" /\ PlanJobs(LiveKind, Unplanned(LiveKind))
  /\ Step("list")
  /\ UNCHANGED <<before, operation, payload, remoteVars, sourceVars, workerVars, phase, edits,
                 faults>>

\* A crash between two jobs.
PlanTorn ==
  /\ run.pc = "classify"
  /\ LiveKind # "primary"
  /\ Fault
  /\ tombstone' = Excluding
  /\ \E H \in SUBSET Unplanned(LiveKind) : PlanJobs(LiveKind, H)
  /\ Return
  /\ UNCHANGED <<before, operation, payload, remoteVars, sourceVars, workerVars, phase, edits>>

-----------------------------------------------------------------------------
(* Carrying the jobs out.  listDocumentIds is called once, before the loop. *)

\* Faulty: every open job is carried out, whatever plan was reviewed.
ListAllJobs ==
  /\ run.pc = "list"
  /\ run' = [run EXCEPT
       !.pc = "next",
       !.listed = document # None,
       !.todo = {j \in JobId : job[j[1]][j[2]].phase \in {"planned", "remote_deleted"}}]
  /\ UNCHANGED <<vars, job>>

ListDocuments ==
  /\ run.pc = "list"
  /\ run' = [run EXCEPT
       !.pc = "next",
       !.listed = document # None,
       !.todo = {j \in run.reviewed : job[j[1]][j[2]].phase \in {"planned", "remote_deleted"}}]
  /\ UNCHANGED <<vars, job>>

Current == job[run.cur[1]][run.cur[2]]

SetPhase(to) == job' = [job EXCEPT ![run.cur[1]][run.cur[2]].phase = to]

SetSettled(j, status) ==
  operation' = [operation EXCEPT ![j[2]][job[j[1]][j[2]].op] = status]

\* What is stored of the operation decides whether the bank is asked.
NextJob(j) ==
  LET row    == IF job[j[1]][j[2]].op = None THEN "none"
                ELSE operation[j[2]][job[j[1]][j[2]].op]
      local  == row \in Unsent \cup {"rejected"}
      settle == row \notin Unsent \cup {"none", "rejected", "completed", "failed"}
      pc     == IF job[j[1]][j[2]].phase = "remote_deleted" THEN "finalize"
                ELSE IF settle THEN "settle" ELSE "delete"
  IN  /\ run.pc = "next"
      /\ j \in run.todo
      /\ run' = [run EXCEPT !.pc = pc, !.cur = j, !.todo = @ \ {j}]
      /\ IF pc = "delete" /\ local THEN SetSettled(j, "not_submitted") ELSE UNCHANGED operation
      /\ UNCHANGED <<session, generation, before, payload, remoteVars, sourceVars, tombstone,
                     workerVars, phase, edits, faults, job>>

NoMoreJobs ==
  /\ run.pc = "next"
  /\ run.todo = {}
  /\ Return
  /\ UNCHANGED <<vars, job>>

\* The status the bank reports of the operation under settlement.
Asked == remote[run.cur[2]][Current.op]

\* settleOperation: a pending operation is cancelled, one that is carried out
\* is waited for.
AskBank ==
  /\ run.pc \in {"settle", "recheck"}
  /\ Unfinished(run.cur[2], Current.op)
  /\ Step(IF run.pc = "settle" /\ Asked = "pending" THEN "cancel" ELSE "wait")
  /\ UNCHANGED <<vars, job>>

\* Faulty: a refusal to cancel is taken for a cancellation.
CancelBlindly ==
  /\ run.pc = "cancel"
  /\ Asked # "absent"
  /\ IF Asked = "pending" THEN SetRemote(run.cur[2], Current.op, "failed") ELSE UNCHANGED remote
  /\ SetSettled(run.cur, "failed")
  /\ Step("delete")
  /\ UNCHANGED <<session, generation, before, payload, body, wire, document, sourceVars, tombstone,
                 workerVars, phase, edits, faults, job>>

\* The bank refuses to cancel what it has begun.
CancelOperation ==
  /\ run.pc = "cancel"
  /\ Asked # "absent"
  /\ IF Asked = "pending" THEN SetRemote(run.cur[2], Current.op, "failed") ELSE UNCHANGED remote
  /\ Step("recheck")
  /\ UNCHANGED <<dbVars, body, wire, document, sourceVars, tombstone, workerVars, phase, edits,
                 faults, job>>

Settled ==
  /\ run.pc \in {"settle", "recheck", "wait"}
  /\ Asked \in {"completed", "failed"}
  /\ SetSettled(run.cur, Asked)
  /\ Step("delete")
  /\ UNCHANGED <<session, generation, before, payload, remoteVars, sourceVars, tombstone,
                 workerVars, phase, edits, faults, job>>

\* An operation the bank does not know, or does not finish, ends the command.
NotSettled ==
  /\ \/ run.pc \in {"settle", "recheck", "wait", "cancel"} /\ Asked = "absent"
     \/ run.pc = "wait" /\ Unfinished(run.cur[2], Current.op)
  /\ Return
  /\ UNCHANGED <<vars, job>>

\* A document that was in the list is deleted, and taken off the list.
DeleteDocument ==
  /\ run.pc = "delete"
  /\ document' = IF run.listed THEN None ELSE document
  /\ run' = [run EXCEPT !.pc = "mark", !.listed = FALSE]
  /\ UNCHANGED <<dbVars, remote, body, wire, sourceVars, tombstone, workerVars, phase, edits,
                 faults, job>>

\* Faulty: the job is closed before its generation is excluded.
MarkClosed ==
  /\ run.pc = "mark"
  /\ SetPhase("state_finalized")
  /\ Step("finalize")
  /\ UNCHANGED vars

MarkDeleted ==
  /\ run.pc = "mark"
  /\ SetPhase("remote_deleted")
  /\ Step("finalize")
  /\ UNCHANGED vars

\* Faulty: the session gets the state of its generation as its status.
FinalizeMixed ==
  /\ run.pc = "finalize"
  /\ generation' = Moved({run.cur[2]}, {"cleanup_pending"}, "excluded")
  /\ session' = SetSessionClassification(run.cur[1], "excluded")
  /\ Step("close")
  /\ UNCHANGED <<before, operation, payload, remoteVars, sourceVars, tombstone, workerVars, phase,
                 edits, faults, job>>

\* finalizeExcluded.
FinalizeExcluded ==
  /\ run.pc = "finalize"
  /\ generation' = Moved({run.cur[2]}, {"cleanup_pending"}, "excluded")
  /\ session' = SetSessionClassification(run.cur[1], ExcludedAs(run.cur[1]))
  /\ Step("close")
  /\ UNCHANGED <<before, operation, payload, remoteVars, sourceVars, tombstone, workerVars, phase,
                 edits, faults, job>>

CloseJob ==
  /\ run.pc = "close"
  /\ SetPhase("state_finalized")
  /\ Step("next")
  /\ UNCHANGED vars

\* An error at an await, or the death of the process anywhere.  The bank may
\* have carried out what it was asked for.
CleanupStops ==
  /\ run.pc # "idle"
  /\ Fault
  /\ Return
  /\ \/ UNCHANGED <<remote, document>>
     \/ run.pc = "delete" /\ run.listed /\ document' = None /\ UNCHANGED remote
     \/ /\ run.pc = "cancel" /\ Asked = "pending"
        /\ SetRemote(run.cur[2], Current.op, "failed")
        /\ UNCHANGED document
  /\ UNCHANGED <<dbVars, body, wire, sourceVars, tombstone, workerVars, phase, edits, job>>

CleanupStep ==
  \/ \E ambiguous \in BOOLEAN : StartCleanup(ambiguous)
  \/ PlanAll \/ PlanTorn
  \/ ListDocuments
  \/ \E j \in JobId : NextJob(j)
  \/ NoMoreJobs
  \/ AskBank \/ CancelOperation \/ Settled \/ NotSettled
  \/ DeleteDocument \/ MarkDeleted \/ FinalizeExcluded \/ CloseJob
  \/ CleanupStops

\* The command holds the importer's lock: nothing else of the importer runs.
CleanupNext ==
  \/ CleanupStep
  \/ run.pc = "idle" /\ Next /\ UNCHANGED cleanupVars
  \/ /\ run.pc # "idle"
     /\ Environment \/ \E h \in Hash, r \in Replay : Work(h, r)
     /\ UNCHANGED cleanupVars

CleanupSpec == CleanupInit /\ [][CleanupNext]_<<vars, cleanupVars>>

-----------------------------------------------------------------------------
(* Properties.                                                             *)

\* An excluded generation has no operation whose outcome is open: nothing that
\* was sent for it can write the document any more (settleOperation).
SettledBeforeExcluded ==
  \A h \in Hash : generation[h].state = "excluded" =>
    \A r \in Replay : <<h, r>> \notin Open

\* A job is only closed when its generation was excluded, so an interrupted
\* command leaves nothing that the next one would skip.
FinalizedIsExcluded ==
  \A k \in TargetKind, h \in Hash :
    job[k][h].phase = "state_finalized" => generation[h].state = "excluded"

\* docs/SECURITY.md: "Deletion is limited to explicit, reviewed cleanup plans".
\* Jobs that other commands, or this one after its plan was made, have written
\* delete nothing.
DeletionIsReviewed ==
  [][run.pc # "idle" /\ document # None /\ document' = None =>
       run.cur \in run.reviewed]_<<vars, cleanupVars>>

\* However the session is renamed, deleted and restored while the command and
\* its predecessors run, a document is only deleted while its session is one
\* that is not to be kept.
DeletedIsExcluded ==
  [][run.pc # "idle" /\ document # None /\ document' = None =>
       kind # "primary" \/ StoredKey \in tombstone]_<<vars, cleanupVars>>

\* extension/retrieve.ts: "Memory retrieval is blocked until excluded-session
\* cleanup is complete".  When a cleanup has excluded the session and no
\* generation blocks retrieval, the document of the session is gone.
CleanedIsGone ==
  (/\ \E k \in TargetKind, h \in Hash : job[k][h].phase = "state_finalized"
   /\ session.status \in ExcludedStatus
   /\ \A h \in Hash : generation[h].state # "cleanup_pending")
  => document = None

\* test/integration/cleanup-plan.test.ts: "a prepared local payload was not
\* submitted remotely".  The bank is not asked for an operation that was never
\* sent to it: it would not know it.
LocalIsNotAsked ==
  run.pc = "settle" => operation[run.cur[2]][Current.op] # "not_submitted"
=============================================================================
