------------------------------ MODULE Importer ------------------------------
(***************************************************************************)
(* The importer process around the worker: the scan that queues the        *)
(* current content of the session, the daemon cycle that runs scans and    *)
(* batches, the operator's commands on the queue, the session growing and  *)
(* being reclassified under the importer, crashes and restarts.            *)
(*                                                                         *)
(* One process holds the importer's lock at a time, so a scan, a batch and *)
(* an operator command never overlap.                                      *)
(***************************************************************************)
EXTENDS ImportWorker

CONSTANTS
  WorkBatchSize,     \* config.importer.workBatchSize
  MaxEdits,          \* bound on changes of the source
  Contents,          \* what the source can be changed to
  Kinds,             \* classifications the source can take
  Reverting,         \* classifications a session can leave again
  Forgets,           \* may the bank prune an operation before it is polled?
  Upgraded           \* may the state come from before the current retain policy?

ASSUME ImporterAssumption ==
  /\ WorkBatchSize \in Nat \ {0}
  /\ MaxEdits \in Nat
  /\ Contents \subseteq Hash \cup {Empty, Gone}
  /\ "primary" \in Kinds /\ Kinds \subseteq Kind
  /\ Reverting \subseteq Kinds
  /\ Forgets \in BOOLEAN
  /\ Upgraded \in BOOLEAN

VARIABLES
  phase,    \* "down", or what the running process is doing
  edits     \* changes of the source so far

vars == <<dbVars, remoteVars, sourceVars, tombstone, workerVars, phase, edits, faults>>

Phase == {"down", "idle", "batch"}

TypeOK ==
  /\ RemoteTypeOK
  /\ DbTypeOK
  /\ WorkerTypeOK
  /\ phase \in Phase
  /\ edits \in 0 .. MaxEdits

-----------------------------------------------------------------------------
(* Initial states: a new state database, or one whose session was imported *)
(* under an older retain policy.                                           *)

Fresh ==
  /\ session = NoSession
  /\ generation = [h \in Hash |-> NoGeneration]
  /\ operation = [h \in Hash |-> [r \in Replay |-> "none"]]
  /\ document = None
  /\ source \in Hash

Legacy(h) ==
  /\ session = [status |-> "imported", kind |-> "primary", hash |-> h,
                ack |-> h, policy |-> "old"]
  /\ generation = [g \in Hash |->
       IF g = h THEN [NoGeneration EXCEPT !.state = "completed", !.attempts = 1,
                                          !.policy = "old"]
       ELSE NoGeneration]
  /\ operation = [g \in Hash |-> [r \in Replay |->
       IF g = h /\ r = 0 THEN "completed" ELSE "none"]]
  /\ document = h
  /\ source = h

Init ==
  /\ IF Upgraded THEN \E h \in Hash : Legacy(h) ELSE Fresh
  /\ before = {}
  /\ payload = [h \in Hash |-> [r \in Replay |-> None]]
  /\ remote = [h \in Hash |-> [r \in Replay |-> "absent"]]
  /\ body = [h \in Hash |-> [r \in Replay |-> None]]
  /\ wire = {}
  /\ kind = "primary"
  /\ origin \in Origins \ {"aliased"}
  /\ tombstone = {}
  /\ task = [h \in Hash |-> NoTask]
  /\ repairMode = FALSE
  /\ phase = "down"
  /\ edits = 0
  /\ faults = 0

-----------------------------------------------------------------------------
(* The session under the importer.                                         *)

\* A session with only its reference line left, one that is gone, one that
\* grew, or one that was restored.
Edit(content) ==
  /\ edits < MaxEdits
  /\ content # source
  /\ edits' = edits + 1
  /\ source' = content
  /\ UNCHANGED <<dbVars, remoteVars, kind, origin, tombstone, workerVars, phase, faults>>

Reclassify(k) ==
  /\ edits < MaxEdits
  /\ k # kind
  /\ kind \in Reverting \cup {"primary"}
  /\ edits' = edits + 1
  /\ kind' = k
  /\ UNCHANGED <<dbVars, remoteVars, source, origin, tombstone, workerVars, phase, faults>>

Known == session.status # "absent"

\* The file of a stored session gets a header with an identity of its own; the
\* alias of its path goes on giving the stored one.
CompleteHeader ==
  /\ "aliased" \in Origins
  /\ origin = "file"
  /\ Known /\ source # Gone
  /\ origin' = "aliased"
  /\ UNCHANGED <<dbVars, remoteVars, source, kind, tombstone, workerVars, phase, edits, faults>>

-----------------------------------------------------------------------------
(* queueGeneration.                                                        *)

\* The row an accepted queueGeneration call writes for content h, after the
\* older generations were superseded.
Queued(h, r) ==
  [state    |-> "queued",
   replay   |-> r,
   attempts |-> IF generation[h].state = "failed" THEN generation[h].attempts ELSE 0,
   policy   |-> "current",
   repair   |-> session.ack # None /\ session.policy # "current"]

Previous(h) == IF generation[h].state = "none" THEN None ELSE generation[h].replay

\* A generation of another content that is being sent.
OtherWriter(h) == \E g \in Hash \ {h} : generation[g].state \in Active

\* Nothing to queue: the generation is on its way, or retained already.
OnItsWay(h) == generation[h].state \in {"submitted", "processing", "queued"}

Retained(h) == ~OtherWriter(h) /\ session.ack = h /\ session.policy = "current"

-----------------------------------------------------------------------------
(* scanSources, for the session: discovery, classification, fingerprint,   *)
(* load and queueing.  No worker runs during a scan, so the scan of one    *)
(* session is one step; where it writes several rows outside a transaction *)
(* a crash can fall between them.                                          *)

CanScan == phase = "idle"

Frozen(k) == session.status = "ambiguous_preserved" /\ k # "configured"

\* Discovery knows the session by the identity its file gives at this moment.
Reported == IF origin = "aliased" THEN "reported" ELSE "stored"

\* The scan looks a tombstone up under the discovered identity, and records one
\* under the stored identity with the document of the discovered one.
ScanKey == <<Reported, Reported>>

ScanRecord == <<"stored", Reported>>

\* Faulty: the sweep marks preserved and excluded sessions as well.
ScanMissingProtected ==
  /\ CanScan
  /\ source = Gone
  /\ Known
  /\ session.status # "source_missing"
  /\ session' = [session EXCEPT !.status = "source_missing"]
  /\ UNCHANGED <<generation, before, operation, payload, remoteVars, sourceVars, tombstone,
                 workerVars, phase, edits, faults>>

\* The sweep for sessions that were not discovered.
ScanMissing ==
  /\ CanScan
  /\ source = Gone
  /\ Known
  /\ session.status \notin Protected \cup {"source_missing"}
  /\ session' = [session EXCEPT !.status = "source_missing"]
  /\ UNCHANGED <<generation, before, operation, payload, remoteVars, sourceVars, tombstone,
                 workerVars, phase, edits, faults>>

\* Faulty: an exclusion by name leaves no tombstone.
ScanExcludedForgetful(torn) ==
  LET k        == EffectiveKind(ScanKey, kind)
      preserve == /\ k = "ambiguous"
                  /\ \E h \in Latest : generation[h].state = "completed"
  IN  /\ CanScan
      /\ source # Gone
      /\ k # "primary"
      /\ ~Frozen(k)
      /\ session' = IF ~Known THEN session
                    ELSE SetSessionClassification(k,
                           IF preserve THEN "ambiguous_preserved" ELSE ExcludedAs(k))
      /\ generation' = IF ~Known \/ preserve \/ torn THEN generation
                       ELSE MarkSessionGenerationsCleanupPending
      /\ phase' = IF torn THEN "down" ELSE phase
      /\ UNCHANGED <<before, operation, payload, remoteVars, sourceVars, tombstone, workerVars,
                     edits>>

\* A session that is not primary.  The latest generation decides whether an
\* ambiguous one is preserved or excluded.
ScanExcluded(torn) ==
  LET k        == EffectiveKind(ScanKey, kind)
      preserve == /\ k = "ambiguous"
                  /\ \E h \in Latest : generation[h].state = "completed"
  IN  /\ CanScan
      /\ source # Gone
      /\ k # "primary"
      /\ ~Frozen(k)
      /\ tombstone' = IF kind = "configured" THEN tombstone \cup {ScanRecord} ELSE tombstone
      /\ session' = IF ~Known THEN session
                    ELSE SetSessionClassification(k,
                           IF preserve THEN "ambiguous_preserved" ELSE ExcludedAs(k))
      /\ generation' = IF ~Known \/ preserve \/ torn THEN generation
                       ELSE MarkSessionGenerationsCleanupPending
      /\ phase' = IF torn THEN "down" ELSE phase
      /\ UNCHANGED <<before, operation, payload, remoteVars, sourceVars, workerVars, edits>>

\* The content already accounted for under an equal fingerprint.
AccountedFor ==
  \/ session.status = "empty_after_normalization"
  \/ /\ session.hash \in Hash
     /\ \/ session.ack = session.hash /\ session.policy = "current"
        \/ generation[session.hash].state \in {"queued", "submitted", "processing", "failed"}

ScanUnchanged ==
  /\ CanScan
  /\ source # Gone
  /\ EffectiveKind(ScanKey, kind) = "primary"
  /\ ~Frozen("primary")
  /\ source = session.hash
  /\ AccountedFor
  /\ session' = IF session.status # "source_missing" THEN session
                ELSE [session EXCEPT !.status =
                        IF \E h \in Latest : generation[h].state = "completed"
                        THEN "imported" ELSE "discovered"]
  /\ UNCHANGED <<generation, before, operation, payload, remoteVars, sourceVars, tombstone,
                 workerVars, phase, edits, faults>>

Scanned(status) ==
  [session EXCEPT !.status = status, !.kind = "primary", !.hash = source]

\* A changed session that normalizes to nothing keeps its remote document.
ScanEmpty ==
  /\ CanScan
  /\ source = Empty
  /\ EffectiveKind(ScanKey, kind) = "primary"
  /\ ~Frozen("primary")
  /\ session' = Scanned("empty_after_normalization")
  /\ UNCHANGED <<generation, before, operation, payload, remoteVars, sourceVars, tombstone,
                 workerVars, phase, edits, faults>>

\* A session to retain: upsertSession, queueGeneration, setSessionStatus.  A
\* fingerprint may change where the content does not.
ScanLoaded ==
  LET h == source IN
  /\ CanScan
  /\ h \in Hash
  /\ EffectiveKind(ScanKey, kind) = "primary"
  /\ ~Frozen("primary")
  /\ \/ /\ OnItsWay(h) \/ Retained(h)
        /\ generation' = SupersedeOlder(h)
        /\ UNCHANGED before
        /\ session' = Scanned(IF ~OnItsWay(h) THEN "imported" ELSE "discovered")
     \/ /\ ~OnItsWay(h)
        /\ ~Retained(h)
        /\ \E r \in Replay :
             /\ NextOperationId(h, Previous(h), r)
             /\ generation' = [SupersedeOlder(h) EXCEPT ![h] = Queued(h, r)]
        /\ before' = QueuedLast(h)
        /\ session' = Scanned("discovered")
  /\ UNCHANGED <<operation, payload, remoteVars, sourceVars, tombstone,
                 workerVars, phase, edits, faults>>

\* A crash after upsertSession, before or after supersedeOlder.
ScanTorn ==
  /\ CanScan
  /\ source \in Hash
  /\ EffectiveKind(ScanKey, kind) = "primary"
  /\ ~Frozen("primary")
  /\ Fault
  /\ session' = Scanned("discovered")
  /\ generation' \in {generation, SupersedeOlder(source)}
  /\ phase' = "down"
  /\ UNCHANGED <<before, operation, payload, remoteVars, sourceVars, tombstone, workerVars, edits>>

Scan ==
  \/ ScanMissing
  \/ ScanExcluded(FALSE) /\ UNCHANGED faults
  \/ ScanUnchanged
  \/ ScanEmpty
  \/ ScanLoaded

-----------------------------------------------------------------------------
(* The process: startup, batches, crash, and the commands an operator      *)
(* gives while the daemon is stopped.                                      *)

\* Faulty: the payloads of failed operations are removed as well.
StartupFailedToo ==
  /\ phase = "down"
  /\ phase' = "idle"
  /\ payload' = [h \in Hash |-> [r \in Replay |->
       IF operation[h][r] \in {"completed", "failed", "rejected"} THEN None ELSE payload[h][r]]]
  /\ UNCHANGED <<session, generation, before, operation, remoteVars, sourceVars, tombstone,
                 workerVars, edits, faults>>

\* runLockedDaemon first removes the payloads of completed operations.
Startup ==
  /\ phase = "down"
  /\ phase' = "idle"
  /\ payload' = [h \in Hash |-> [r \in Replay |->
       IF operation[h][r] = "completed" THEN None ELSE payload[h][r]]]
  /\ UNCHANGED <<session, generation, before, operation, remoteVars, sourceVars, tombstone,
                 workerVars, edits, faults>>

Batch(H) ==
  /\ H # {}
  /\ \A h \in H : Eligible(h)
  /\ Cardinality(H) <= WorkBatchSize
  /\ \A g \in Hash \ H : Eligible(g) =>
       /\ Cardinality(H) = WorkBatchSize
       /\ \A h \in H : Ahead(h, generation[h].state, g, generation[g].state)

\* repairHistory runs batches until every target of its plan is acknowledged
\* under the current policy; this session may be done before the others.  An
\* unresolved failure stops it, and so does a document that is neither the
\* reviewed one nor the replacement.
RepairProceeds ==
  /\ Upgraded
  /\ \A h \in Hash : generation[h].state \notin {"failed", "cleanup_pending"}
  /\ session.kind = "primary" /\ session.status # "ambiguous_preserved"
  /\ session.policy # "current" =>
       \/ document = session.ack
       \/ \E h \in Latest : /\ generation[h].repair
                            /\ operation[h][generation[h].replay] # "none"
                            /\ document \in {None, h}

RunOnce(H, repair) ==
  /\ phase = "idle"
  /\ Batch(H)
  /\ repair => RepairProceeds
  /\ phase' = "batch"
  /\ repairMode' = repair
  /\ task' = [h \in Hash |->
       IF h \in H THEN [NoTask EXCEPT !.pc = "waiting", !.gen = generation[h]]
       ELSE NoTask]
  /\ UNCHANGED <<dbVars, remoteVars, sourceVars, tombstone, edits, faults>>

\* The daemon goes on; the repair command ends when it is done, or on an error.
BatchDone ==
  /\ phase = "batch"
  /\ \A h \in Hash : task[h].pc = "idle"
  /\ phase' \in IF repairMode THEN {"idle", "down"} ELSE {"idle"}
  /\ repairMode' = FALSE
  /\ UNCHANGED <<dbVars, remoteVars, sourceVars, tombstone, task, edits, faults>>

\* The process dies, or is shut down and leaves every task at its await.  A
\* request being sent may still reach the bank.
Crash ==
  /\ phase # "down"
  /\ Fault
  /\ phase' = "down"
  /\ task' = [h \in Hash |-> NoTask]
  /\ repairMode' = FALSE
  /\ \E lost \in SUBSET {Retain(h) : h \in {g \in Hash : task[g].pc = "post"}} :
       wire' = wire \cup lost
  /\ UNCHANGED <<dbVars, remote, body, document, sourceVars, tombstone, edits>>

\* A crash while a task writes an exclusion.
CrashInExclusion(h) ==
  /\ phase = "batch"
  /\ Fault
  /\ Exclude(h, TRUE)
  /\ phase' = "down"
  /\ task' = [g \in Hash |-> NoTask]
  /\ UNCHANGED edits

RetryFailed ==
  /\ phase = "down"
  /\ generation' = ResetFailed
  /\ UNCHANGED <<session, before, operation, payload, remoteVars, sourceVars, tombstone,
                 workerVars, phase, edits, faults>>

CancelQueuedWork ==
  /\ phase = "down"
  /\ generation' = CancelQueued
  /\ UNCHANGED <<session, before, operation, payload, remoteVars, sourceVars, tombstone,
                 workerVars, phase, edits, faults>>

-----------------------------------------------------------------------------
(* The specification.                                                      *)

localVars == <<dbVars, sourceVars, tombstone, workerVars, phase, edits>>

\* The bank carries out an operation.
Work(h, r) ==
  /\ RemoteStart(h, r) \/ RemoteComplete(h, r)
  /\ UNCHANGED <<localVars, faults>>

\* The network settles a request that was given up.
Transit(m) ==
  /\ Deliver(m) \/ Drop(m)
  /\ UNCHANGED <<localVars, faults>>

\* The bank fails an operation, or has forgotten one that is over.
BankFault(h, r) ==
  /\ RemoteFail(h, r) \/ (Forgets /\ Prune(h, r))
  /\ Fault
  /\ UNCHANGED localVars

Environment ==
  \/ \E content \in Contents : Edit(content)
  \/ \E k \in Kinds : Reclassify(k)
  \/ CompleteHeader
  \/ \E m \in wire : Transit(m)
  \/ \E h \in Hash, r \in Replay : BankFault(h, r)

WorkerStep(h) == TaskStep(h) /\ UNCHANGED <<phase, edits>>

WorkerFault(h) ==
  \/ TaskFault(h) /\ UNCHANGED <<phase, edits>>
  \/ CrashInExclusion(h)

StartBatch == \E H \in SUBSET Hash, repair \in BOOLEAN : RunOnce(H, repair)

ScanFault == ScanTorn \/ (ScanExcluded(TRUE) /\ Fault)

Next ==
  \/ Environment
  \/ \E h \in Hash, r \in Replay : Work(h, r)
  \/ \E h \in Hash : WorkerStep(h) \/ WorkerFault(h)
  \/ StartBatch \/ BatchDone
  \/ Scan \/ ScanFault
  \/ Startup \/ Crash
  \/ RetryFailed \/ CancelQueuedWork

\* A scan that the fingerprint of the content accounted for cannot cut short.
DueScan == Scan /\ ~(source = session.hash /\ AccountedFor)

\* The bank works on what it accepted; a running daemon keeps its tasks,
\* batches and scans going and is restarted when it is down.
Fairness ==
  /\ \A h \in Hash, r \in Replay : WF_vars(Work(h, r))
  /\ \A h \in Hash : WF_vars(WorkerStep(h))
  /\ WF_vars(\E H \in SUBSET Hash : RunOnce(H, FALSE))
  /\ WF_vars(BatchDone)
  /\ WF_vars(DueScan)
  /\ WF_vars(Startup)

Spec == Init /\ [][Next]_vars

FairSpec == Spec /\ Fairness

-----------------------------------------------------------------------------
(* Safety.                                                                 *)

\* Operations whose outcome at the bank is open: accepted and unfinished, or
\* asked for by a request that may still arrive.
Open ==
  {o \in Hash \X Replay :
     \/ Unfinished(o[1], o[2])
     \/ /\ remote[o[1]][o[2]] = "absent"
        /\ \E m \in wire : m.hash = o[1] /\ m.replay = o[2]}

\* At most one operation can still change the remote document: an operation
\* of uncertain outcome blocks every newer version (claimGeneration,
\* queueGeneration and the worker's catch block).
OneRemoteWriter == \A o, p \in Open : o = p

\* docs/ARCHITECTURE.md: "An uncertain remote outcome continues to block newer
\* versions of that document."
UncertainBlocksNewer == \A o, p \in Open : o[1] = p[1]

\* The identity of an operation stands for one content: every request that
\* was ever sent under it carried the same payload.
ImmutablePayload ==
  /\ \A h \in Hash, r \in Replay : body[h][r] \in {h, None}
  /\ \A m \in wire : m.content = m.hash

\* Content of an operation that may have to be sent again is on disk, whatever
\* became of the source.
Recoverable ==
  \A h \in Hash, r \in Replay :
    operation[h][r] \in Unsent \cup {"submitting", "pending"} => payload[h][r] = h

\* The bank forgot an operation that had written the document, was asked for it
\* again, and failed: the row says failed, the document is there.
Overwritten ==
  Forgets /\ \E h \in Hash, r \in Replay : document = h /\ operation[h][r] = "failed"

\* While no generation is being sent or cleaned up, the acknowledged content is
\* the content of the remote document; only a repair, whose session comes from
\* before the current policy, or a bank that forgets leaves another one.
AcknowledgedIsRemote ==
  (/\ session.ack # None
   /\ \A h \in Hash : generation[h].state \notin Active \cup {"cleanup_pending"})
  => \/ document = session.ack
     \/ Upgraded /\ document = None
     \/ Overwritten

\* The task that runs holds the only active generation of the session, and its
\* copy names the row's operation once a request may have been sent.
TaskOwnsGeneration ==
  \A h \in Running :
    task[h].pc # "cleanup" =>
      /\ generation[h].state \in Active
      /\ \A g \in Hash \ {h} : generation[g].state \notin Active
      /\ session.kind = "primary" /\ session.status \notin Protected
      /\ task[h].pc \in {"post", "posted", "wait", "poll"} =>
           task[h].gen.replay = generation[h].replay

\* A failed identity is never used again: its row keeps its status.
FailedIsFinal ==
  [][\A h \in Hash, r \in Replay :
       operation[h][r] \in TerminalFailures => operation'[h][r] = operation[h][r]]_vars

\* Content that a repair erased from the bank is kept on disk until the new
\* version of the document has landed, whatever fails in between.
ErasedIsOnDisk ==
  document = None /\ session.ack # None =>
    \E h \in Hash, r \in Replay : payload[h][r] = h

\* Once an exclusion by name is recorded under the identity the session is
\* stored under, nothing of it is submitted any more, even when it loses the name
\* again, and whatever identity discovery reports later.  The scan of a session
\* whose header was completed records another key (ScanRecord), which neither
\* the worker nor a later scan looks up: the loss of the name brings it back.
TombstoneStopsRetain ==
  [][(StoredKey \in tombstone) =>
       \A h \in Hash, r \in Replay :
         operation'[h][r] = "submitting" => operation[h][r] = "submitting"]_vars

\* docs/OPERATIONS.md: "Existing ambiguous snapshots remain frozen."  A session
\* that is preserved as ambiguous stays so, whatever becomes of its source;
\* only an exclusion by name ends that.
FrozenStaysFrozen ==
  [][session.status = "ambiguous_preserved" =>
       session'.status \in {"ambiguous_preserved", "excluded_configured"}]_vars

\* The acknowledged hash moves only to content the bank reported as retained,
\* in the step that records the operation as completed.
AcknowledgedOnCompletion ==
  [][session'.ack # session.ack =>
       \E r \in Replay : /\ remote[session'.ack][r] = "completed"
                         /\ operation'[session'.ack][r] = "completed"
                         /\ operation[session'.ack][r] # "completed"]_vars

-----------------------------------------------------------------------------
(* The remote document is a register with one writer.                      *)

Register == INSTANCE DocumentRegister WITH
  Content <- Hash, Attempt <- Replay, Nothing <- None,
  stored <- document, writing <- Open, known <- session.ack

\* However tasks, faults, crashes and operator commands interleave, the bank
\* sees one write of the document at a time, and the acknowledged hash is
\* always taken from the content the document holds at that moment.
OneWriterRegister == Register!RegisterSpec

-----------------------------------------------------------------------------
(* Liveness.                                                               *)

\* Edits, faults and crashes being finite and too few to use up the attempts,
\* the content a session that was never excluded by name settles on is
\* acknowledged and is the remote document.
EventuallyRetained ==
  \A h \in Hash :
    <>[](source = h /\ kind = "primary" /\ tombstone = {}) =>
      <>[](session.ack = h /\ document = h)
=============================================================================
