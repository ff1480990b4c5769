---------------------------- MODULE ImportWorker ----------------------------
(***************************************************************************)
(* ImportWorker.processGeneration, the task that sends one generation to   *)
(* Hindsight.  A batch runs one task per candidate; the tasks interleave   *)
(* at their awaits, with the source file, with the bank, and with a crash. *)
(* Each action below is the code between two awaits, or between two        *)
(* durable transactions where a crash can fall; task[h].pc names the await *)
(* (or the transaction) the task of generation h has reached.              *)
(***************************************************************************)
EXTENDS StateDb, FiniteSets

CONSTANTS
  MaxInflight,       \* config.maxInflightDocuments
  MaxFaults,         \* bound on faults of network, bank, disk and process
  RejectAfterLoss,   \* may the bank answer 4xx to a retry of a request whose
                     \* first attempt reached it?
  Origins            \* where the session can come from

Gone == "gone"   \* the source file or row does not exist

\* A transcript file, one whose header was completed after the session was
\* stored (its identity now differs from the stored one, which an alias keeps),
\* or a row of OpenCode's database.
Origin == {"file", "aliased", "database"}

\* The identity the session is stored under, and the one discovery reports.
Identity == {"stored", "reported"}

ASSUME WorkerAssumption ==
  /\ Gone \notin Hash \cup {Empty, None}
  /\ MaxInflight \in Nat \ {0}
  /\ MaxFaults \in Nat
  /\ RejectAfterLoss \in BOOLEAN
  /\ Origins \subseteq Origin /\ Origins \cap {"file", "database"} # {}
  /\ "aliased" \in Origins => "file" \in Origins

VARIABLES
  source,       \* what the source normalizes to at this moment
  kind,         \* how the adapter classifies it at this moment
  origin,       \* what the session is read from
  tombstone,    \* keys of the session's rows in table exclusion_tombstones
  task,         \* the tasks of the current batch
  repairMode,   \* the batch belongs to the repair command
  faults        \* faults so far

workerVars == <<task, repairMode>>
sourceVars == <<source, kind, origin>>

PC == {"idle", "waiting", "reload", "poll", "classify", "load", "preflight",
       "save", "record", "swap", "prepared", "inspect", "erase", "ready", "post",
       "posted", "wait", "cleanup"}

Task == [pc  : PC,
         gen : Generation,                    \* the task's copy of the row
         op  : OperationStatus,               \* "persisted", its copy of the status
         doc : Hash \cup {None},              \* the loaded canonical session
         old : Replay \cup {None}]            \* previousPayloadId

NoTask == [pc |-> "idle", gen |-> NoGeneration, op |-> "none",
           doc |-> None, old |-> None]

WorkerTypeOK ==
  /\ source \in Hash \cup {Empty, Gone}
  /\ kind \in Kind
  /\ origin \in Origins
  /\ tombstone \subseteq Identity \X Identity
  /\ task \in [Hash -> Task]
  /\ repairMode \in BOOLEAN
  /\ faults \in 0 .. MaxFaults

-----------------------------------------------------------------------------
(* Helpers.                                                                *)

Running == {h \in Hash : task[h].pc \notin {"idle", "waiting"}}

\* The operation row the task works on.
Persisted(h) == operation[h][task[h].gen.replay]

SetOperation(h, status) ==
  operation' = [operation EXCEPT ![h][task[h].gen.replay] = status]

Goto(h, pc) == task' = [task EXCEPT ![h].pc = pc]

Finish(h) == task' = [task EXCEPT ![h] = NoTask]

Fault == faults < MaxFaults /\ faults' = faults + 1

\* Every await can be answered by an error, except the removal of a payload,
\* whose errors are logged.  Without a repair there is no await between the
\* checkpoints "prepared" and "submitting".
Awaiting(h) ==
  /\ task[h].pc \notin {"idle", "waiting", "ready", "cleanup"}
  /\ task[h].pc = "prepared" => task[h].gen.repair

\* A tombstone is found by native session identifier and document identifier;
\* the worker, and the planning of a cleanup, take both from the session row.
StoredKey == <<"stored", "stored">>

\* Faulty: the classification forgets an exclusion that was recorded.
EffectiveKindForgetful(key, structural) == structural

\* A configured label beats a tombstone, which beats the structural kind.
EffectiveKind(key, structural) ==
  IF structural = "configured" \/ key \in tombstone THEN "configured" ELSE structural

\* Faulty: every error fails the generation, whatever was sent.
CatchFails(h) ==
  /\ generation' = SetGenerationState(h, "failed")
  /\ Finish(h)

\* The catch block, for an error that leaves the remote outcome open: with an
\* operation row the generation stays submitted, without one it has failed.
Catch(h) ==
  /\ generation' = SetGenerationState(h,
       IF Persisted(h) # "none" THEN "submitted" ELSE "failed")
  /\ Finish(h)

\* The catch block, for an operation that is known to have failed.
CatchTerminal(h, status) ==
  /\ SetOperation(h, status)
  /\ generation' = SetGenerationState(h, "failed")
  /\ Finish(h)

-----------------------------------------------------------------------------
(* The claim, and the choice between a new submission, a poll and a        *)
(* replay under a fresh identity.                                          *)

\* A repair that another retain made unnecessary is an ordinary update.
WithoutStaleRepair(h, row) ==
  IF row.repair /\ operation[h][row.replay] = "none" /\ session.policy = row.policy
  THEN [row EXCEPT !.repair = FALSE]
  ELSE row

\* The tasks of a batch start in the order of its candidates, each when the
\* semaphore lets it in.
Starts(h) ==
  /\ task[h].pc = "waiting"
  /\ Cardinality(Running) < MaxInflight
  /\ \A g \in Hash \ {h} : task[g].pc = "waiting" =>
       Ahead(h, task[h].gen.state, g, task[g].gen.state)

BeginRefused(h) ==
  /\ Starts(h)
  /\ ~Claimable(h, task[h].gen.replay)
  /\ Finish(h)
  /\ UNCHANGED <<dbVars, remoteVars, sourceVars, tombstone, repairMode, faults>>

Begin(h) ==
  /\ Starts(h)
  /\ Claimable(h, task[h].gen.replay)
  /\ LET row    == WithoutStaleRepair(h, Claimed(h))
         status == operation[h][row.replay]
         pc     == CASE status \in TerminalFailures   -> "reload"
                     [] status \in Unsent \cup {"none"} -> "classify"
                     [] OTHER                          -> "poll"
     IN  /\ generation' = [generation EXCEPT ![h] = row]
         /\ task' = [task EXCEPT ![h] = [NoTask EXCEPT !.pc = pc, !.gen = row, !.op = status]]
  /\ UNCHANGED <<session, before, operation, payload, remoteVars, sourceVars, tombstone,
                 repairMode, faults>>

\* A failed identity is replaced by a fresh one, for the payload it leaves.
Reload(h) ==
  /\ task[h].pc = "reload"
  /\ LET failed == task[h].gen.replay
         left   == payload[h][failed]
     IN  \E r \in Replay :
           /\ NextOperationId(h, failed, r)
           /\ task' = [task EXCEPT
                ![h] = [@ EXCEPT !.pc = "classify", !.op = "none", !.gen.replay = r, !.doc = left,
                                 !.old = IF left = None THEN None ELSE failed]]
  /\ UNCHANGED <<dbVars, remoteVars, sourceVars, tombstone, repairMode, faults>>

-----------------------------------------------------------------------------
(* Polling a known operation, before anything is read again ("poll") and   *)
(* after a submission ("wait").                                            *)

Polled(h) == remote[h][task[h].gen.replay]

\* Faulty: an operation counts as completed as soon as it has not failed.
PollCompletedEarly(h) ==
  /\ task[h].pc \in {"poll", "wait"}
  /\ Polled(h) \in {"processing", "completed"}
  /\ SetOperation(h, "completed")
  /\ generation' = SetGenerationState(h, "completed")
  /\ session' = Acknowledge(h, generation[h].policy)
  /\ Goto(h, "cleanup")
  /\ UNCHANGED <<before, payload, remoteVars, sourceVars, tombstone, repairMode, faults>>

\* complete: one transaction for the operation, the generation and the
\* acknowledged hash of the session.
PollCompleted(h) ==
  /\ task[h].pc \in {"poll", "wait"}
  /\ Polled(h) = "completed"
  /\ SetOperation(h, "completed")
  /\ generation' = SetGenerationState(h, "completed")
  /\ session' = Acknowledge(h, generation[h].policy)
  /\ Goto(h, "cleanup")
  /\ UNCHANGED <<before, payload, remoteVars, sourceVars, tombstone, repairMode, faults>>

PollFailed(h) ==
  /\ task[h].pc \in {"poll", "wait"}
  /\ Polled(h) = "failed"
  /\ CatchTerminal(h, "failed")
  /\ UNCHANGED <<session, before, payload, remoteVars, sourceVars, tombstone, repairMode, faults>>

\* The poll slice ends while the bank still works on the operation.
PollTimeout(h) ==
  /\ task[h].pc \in {"poll", "wait"}
  /\ Polled(h) \in {"pending", "processing"}
  /\ Catch(h)
  /\ UNCHANGED <<session, before, operation, payload, remoteVars, sourceVars, tombstone,
                 repairMode, faults>>

\* Not found: before a submission it is sent again, after one it is an error.
PollNotFound(h) ==
  /\ Polled(h) = "absent"
  /\ \/ /\ task[h].pc = "poll"
        /\ Goto(h, "classify")
        /\ UNCHANGED generation
     \/ /\ task[h].pc = "wait"
        /\ Catch(h)
  /\ UNCHANGED <<session, before, operation, payload, remoteVars, sourceVars, tombstone,
                 repairMode, faults>>

\* cleanupPayload: the file is removed, or an error keeps it.
CleanupPayload(h, r) ==
  \/ /\ payload' = [payload EXCEPT ![h][r] = None]
     /\ UNCHANGED faults
  \/ /\ Fault
     /\ UNCHANGED payload

Cleanup(h) ==
  /\ task[h].pc = "cleanup"
  /\ CleanupPayload(h, task[h].gen.replay)
  /\ Finish(h)
  /\ UNCHANGED <<session, generation, before, operation, remoteVars, sourceVars, tombstone,
                 repairMode>>

-----------------------------------------------------------------------------
(* Classification and content.  A task with an operation row takes the     *)
(* content from its payload file; only a task without one reads the source.*)

\* The content the task knows when it classifies.
Loaded(h) ==
  IF task[h].op = "none" THEN task[h].doc ELSE payload[h][task[h].gen.replay]

ExcludedAs(k) ==
  CASE k = "subagent"   -> "excluded_subagent"
    [] k = "configured" -> "excluded_configured"
    [] OTHER            -> "excluded_ambiguous"

\* A source that is gone keeps the classification of a loaded payload; without
\* one a file is an error, and a row that disappeared is ambiguous.
StructuralKind(h) ==
  IF source # Gone THEN kind ELSE IF Loaded(h) # None THEN "primary" ELSE "ambiguous"

Unreadable(h) == source = Gone /\ Loaded(h) = None /\ origin # "database"

ClassifyPrimary(h) ==
  /\ task[h].pc = "classify"
  /\ ~Unreadable(h)
  /\ EffectiveKind(StoredKey, StructuralKind(h)) = "primary"
  /\ task' = [task EXCEPT ![h].doc = Loaded(h),
                          ![h].pc = IF Loaded(h) = None THEN "load" ELSE "preflight"]
  /\ UNCHANGED <<dbVars, remoteVars, sourceVars, tombstone, repairMode, faults>>

ClassifyGone(h) ==
  /\ task[h].pc = "classify"
  /\ Unreadable(h)
  /\ Catch(h)
  /\ UNCHANGED <<session, before, operation, payload, remoteVars, sourceVars, tombstone,
                 repairMode, faults>>

\* An acknowledged document whose session became ambiguous is frozen as it is;
\* any other session that is not primary is excluded with all its generations.
\* The session row is written before the generations: torn is the crash between.
Exclude(h, torn) ==
  LET k      == EffectiveKind(StoredKey, StructuralKind(h))
      freeze == k = "ambiguous" /\ session.ack # None /\ task[h].op = "none"
  IN  /\ task[h].pc = "classify"
      /\ ~Unreadable(h)
      /\ k # "primary"
      /\ tombstone' = IF k = "configured" THEN tombstone \cup {StoredKey} ELSE tombstone
      /\ session' = SetSessionClassification(k,
           IF freeze THEN "ambiguous_preserved" ELSE ExcludedAs(k))
      /\ generation' = IF torn THEN generation
                       ELSE IF freeze THEN SetGenerationState(h, "superseded")
                       ELSE MarkSessionGenerationsCleanupPending
      /\ UNCHANGED <<before, operation, payload, remoteVars, sourceVars, repairMode>>

ClassifyExcluded(h) == Exclude(h, FALSE) /\ Finish(h) /\ UNCHANGED faults

\* Faulty: what the source holds now is sent as the generation that was queued.
LoadCurrent(h) ==
  /\ task[h].pc = "load"
  /\ \/ /\ source \in Hash
        /\ task' = [task EXCEPT ![h].doc = source, ![h].pc = "preflight"]
        /\ UNCHANGED generation
     \/ /\ source \notin Hash
        /\ Catch(h)
  /\ UNCHANGED <<session, before, operation, payload, remoteVars, sourceVars, tombstone,
                 repairMode, faults>>

\* adapter.load: the source must still be the generation that was queued.
Load(h) ==
  /\ task[h].pc = "load"
  /\ \/ /\ source = h
        /\ task' = [task EXCEPT ![h].doc = source, ![h].pc = "preflight"]
        /\ UNCHANGED generation
     \/ /\ source \in (Hash \cup {Empty}) \ {h}
        /\ task[h].op = "none"
        /\ generation' = SetGenerationState(h, "superseded")
        /\ Finish(h)
     \/ /\ source # h
        /\ task[h].op # "none" \/ source = Gone
        /\ Catch(h)
  /\ UNCHANGED <<session, before, operation, payload, remoteVars, sourceVars, tombstone,
                 repairMode, faults>>

\* Bank, approval and budget checks passed; what comes next depends on how far
\* an earlier task of this operation got.  A repair needs the repair command.
Preflight(h) ==
  /\ task[h].pc = "preflight"
  /\ \/ /\ task[h].gen.repair => repairMode
        /\ Goto(h, CASE task[h].op = "none"     -> "save"
                     [] task[h].op = "prepared" -> "prepared"
                     [] OTHER                   -> "ready")
        /\ UNCHANGED generation
     \/ /\ task[h].gen.repair
        /\ ~repairMode
        /\ Catch(h)
  /\ UNCHANGED <<session, before, operation, payload, remoteVars, sourceVars, tombstone,
                 repairMode, faults>>

-----------------------------------------------------------------------------
(* Checkpoints of a new operation: payload file, operation row, removal of *)
(* the payload it replaces, removal of the document under repair.          *)

SavePayload(h) ==
  /\ task[h].pc = "save"
  /\ payload' = [payload EXCEPT ![h][task[h].gen.replay] = task[h].doc]
  /\ Goto(h, "record")
  /\ UNCHANGED <<session, generation, before, operation, remoteVars, sourceVars, tombstone,
                 repairMode, faults>>

\* Faulty: the generation row keeps naming the identity that failed.
RecordKeepsIdentity(h) ==
  /\ task[h].pc = "record"
  /\ SetOperation(h, "prepared")
  /\ task' = [task EXCEPT ![h].op = "prepared",
                          ![h].pc = IF task[h].old = None THEN "prepared" ELSE "swap"]
  /\ UNCHANGED <<session, generation, before, payload, remoteVars, sourceVars, tombstone,
                 repairMode, faults>>

Record(h) ==
  /\ task[h].pc = "record"
  /\ generation' = [generation EXCEPT ![h] = task[h].gen]
  /\ SetOperation(h, "prepared")
  /\ task' = [task EXCEPT ![h].op = "prepared",
                          ![h].pc = IF task[h].old = None THEN "prepared" ELSE "swap"]
  /\ UNCHANGED <<session, before, payload, remoteVars, sourceVars, tombstone, repairMode, faults>>

\* Faulty: the payload just written is removed in place of the previous one.
SwapNew(h) ==
  /\ task[h].pc = "swap"
  /\ CleanupPayload(h, task[h].gen.replay)
  /\ Goto(h, "prepared")
  /\ UNCHANGED <<session, generation, before, operation, remoteVars, sourceVars, tombstone,
                 repairMode>>

\* The new payload was read back; the previous one is not needed any more.
Swap(h) ==
  /\ task[h].pc = "swap"
  /\ CleanupPayload(h, task[h].old)
  /\ Goto(h, "prepared")
  /\ UNCHANGED <<session, generation, before, operation, remoteVars, sourceVars, tombstone,
                 repairMode>>

\* The remote document a repair replaces is deleted first, if it is one the
\* importer knows.
Inspect(h) ==
  /\ task[h].pc = "prepared"
  /\ task[h].gen.repair
  /\ IF document \in {session.ack, h, None}
     THEN /\ Goto(h, IF document = None THEN "erase" ELSE "inspect")
          /\ UNCHANGED generation
     ELSE Catch(h)
  /\ UNCHANGED <<session, before, operation, payload, remoteVars, sourceVars, tombstone,
                 repairMode, faults>>

Erase(h) ==
  /\ task[h].pc = "inspect"
  /\ document' = None
  /\ Goto(h, "erase")
  /\ UNCHANGED <<dbVars, remote, body, wire, sourceVars, tombstone, repairMode, faults>>

MarkReady(h) ==
  /\ \/ task[h].pc = "prepared" /\ ~task[h].gen.repair
     \/ task[h].pc = "erase"
  /\ SetOperation(h, "ready")
  /\ Goto(h, "ready")
  /\ UNCHANGED <<session, generation, before, payload, remoteVars, sourceVars, tombstone,
                 repairMode, faults>>

\* Faulty: the status of the operation is written to the generation.
SubmitMixed(h) ==
  /\ task[h].pc = "ready"
  /\ SetOperation(h, "submitting")
  /\ generation' = SetGenerationState(h, "submitting")
  /\ Goto(h, "post")
  /\ UNCHANGED <<session, before, payload, remoteVars, sourceVars, tombstone, repairMode, faults>>

\* The durable intent to send, recorded before the request.
Submit(h) ==
  /\ task[h].pc = "ready"
  /\ SetOperation(h, "submitting")
  /\ generation' = SetGenerationState(h, "submitted")
  /\ Goto(h, "post")
  /\ UNCHANGED <<session, before, payload, remoteVars, sourceVars, tombstone, repairMode, faults>>

-----------------------------------------------------------------------------
(* The retain request.  sendJson sends it again after a transport error or *)
(* a retryable answer; an attempt it gives up may still be in transit.     *)

Retain(h) == [hash |-> h, replay |-> task[h].gen.replay, content |-> task[h].doc]

PostAccepted(h) ==
  /\ task[h].pc = "post"
  /\ Receive(Retain(h))
  /\ Goto(h, "posted")
  /\ UNCHANGED <<dbVars, wire, document, sourceVars, tombstone, repairMode, faults>>

PostAttemptLost(h) ==
  /\ task[h].pc = "post"
  /\ Fault
  /\ wire' = wire \cup {Retain(h)}
  /\ UNCHANGED <<dbVars, remote, body, document, task, sourceVars, tombstone, repairMode>>

\* An earlier attempt of the request is in transit or has reached the bank.
AttemptLost(h) == Retain(h) \in wire \/ body[h][task[h].gen.replay] # None

\* An answer 4xx that is neither 409 nor retryable.
PostRejected(h) ==
  /\ task[h].pc = "post"
  /\ RejectAfterLoss \/ ~AttemptLost(h)
  /\ Fault
  /\ CatchTerminal(h, "rejected")
  /\ UNCHANGED <<session, before, payload, remoteVars, sourceVars, tombstone, repairMode>>

MarkPending(h) ==
  /\ task[h].pc = "posted"
  /\ SetOperation(h, "pending")
  /\ Goto(h, "wait")
  /\ UNCHANGED <<session, generation, before, payload, remoteVars, sourceVars, tombstone,
                 repairMode, faults>>

-----------------------------------------------------------------------------
\* Any other error or the deadline of the task, at any await.
TaskError(h) ==
  /\ Awaiting(h)
  /\ Fault
  /\ Catch(h)
  /\ UNCHANGED <<session, before, operation, payload, remoteVars, sourceVars, tombstone,
                 repairMode>>

\* The steps of a task that no fault is needed for.
TaskStep(h) ==
  \/ BeginRefused(h) \/ Begin(h) \/ Reload(h)
  \/ PollCompleted(h) \/ PollFailed(h) \/ PollTimeout(h) \/ PollNotFound(h)
  \/ ClassifyPrimary(h) \/ ClassifyGone(h) \/ ClassifyExcluded(h)
  \/ Load(h) \/ Preflight(h)
  \/ SavePayload(h) \/ Record(h) \/ Swap(h) \/ Inspect(h) \/ Erase(h) \/ MarkReady(h)
  \/ Submit(h) \/ PostAccepted(h) \/ MarkPending(h) \/ Cleanup(h)

TaskFault(h) == PostAttemptLost(h) \/ PostRejected(h) \/ TaskError(h)
=============================================================================
