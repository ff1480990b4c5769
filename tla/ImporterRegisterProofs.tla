----------------------- MODULE ImporterRegisterProofs -----------------------
(***************************************************************************)
(* The remote document is a register with one writer: an operation whose   *)
(* outcome is open blocks every other one, and the acknowledged hash is    *)
(* what the document holds.                                                *)
(*                                                                         *)
(* It rests on three assumptions, which the theorems state: the bank does  *)
(* not reject a request it has already accepted, a session that was once a *)
(* subagent or ambiguous stays so, and one whose header may be completed   *)
(* later keeps the name it was excluded by.                                *)
(***************************************************************************)
EXTENDS ImporterOperationProofs

OneWriterAssumption ==
  /\ RejectAfterLoss = FALSE
  /\ Reverting \subseteq {"configured"}
  /\ "aliased" \in Origins => Reverting = {}

AllInv == TypeInv /\ OperationInv /\ OwnershipInv /\ WriterInv

-----------------------------------------------------------------------------
(* Sessions that stopped being primary.                                    *)

\* What the worker excludes by name bears it, or was excluded by it before.
LEMMA ExcludedByName ==
  ASSUME NEW h \in Hash, EffectiveKind(StoredKey, StructuralKind(h)) = "configured"
  PROVE  kind = "configured" \/ StoredKey \in tombstone
BY DEF EffectiveKind, StructuralKind

\* A tombstone is not removed, and a kind that can not be left is kept.
LEMMA LeftStays ==
  ASSUME OneWriterAssumption, NameStays, Next
  PROVE  NameStays' /\ (Left => Left')
<1> USE DEF dbVars, workerVars, localVars, sourceVars
<1>1. CASE UNCHANGED <<tombstone, kind>>
  BY <1>1 DEF NameStays, Left
<1>2. ASSUME NEW h \in Hash, NEW torn \in BOOLEAN, Exclude(h, torn)
      PROVE  NameStays' /\ (Left => Left')
  BY <1>1, <1>2, ExcludedByName DEF Exclude, NameStays, Left
<1>3. ASSUME NEW torn \in BOOLEAN, ScanExcluded(torn)
      PROVE  NameStays' /\ (Left => Left')
  BY <1>3 DEF ScanExcluded, NameStays, Left
<1>4. ASSUME NEW k \in Kinds, Reclassify(k)
      PROVE  NameStays' /\ (Left => Left')
  BY <1>4 DEF Reclassify, OneWriterAssumption, NameStays, Left
<1>5. ASSUME NEW h \in Hash, TaskStep(h), ~ClassifyExcluded(h)
      PROVE  UNCHANGED <<tombstone, kind>>
  BY <1>5 DEF TaskStep, BeginRefused, Begin, Reload, PollCompleted, PollFailed, PollTimeout,
              PollNotFound, ClassifyPrimary, ClassifyGone, Load, Preflight, SavePayload, Record,
              Swap, Inspect, Erase, MarkReady, Submit, PostAccepted, MarkPending, Cleanup
<1>6. ASSUME NEW h \in Hash, TaskFault(h)
      PROVE  UNCHANGED <<tombstone, kind>>
  BY <1>6 DEF TaskFault, PostAttemptLost, PostRejected, TaskError
<1>7. CASE (\E h \in Hash, r \in Replay : Work(h, r) \/ BankFault(h, r))
           \/ (\E m \in wire : Transit(m)) \/ (\E content \in Contents : Edit(content))
           \/ CompleteHeader \/ StartBatch \/ BatchDone \/ Startup \/ Crash \/ RetryFailed
           \/ CancelQueuedWork \/ ScanEmpty \/ ScanLoaded \/ ScanTorn \/ ScanMissing \/ ScanUnchanged
  BY <1>1, <1>7 DEF Work, BankFault, Transit, Edit, CompleteHeader, StartBatch, RunOnce, BatchDone,
                    Startup, Crash, RetryFailed, CancelQueuedWork, ScanEmpty, ScanLoaded, ScanTorn,
                    ScanMissing, ScanUnchanged
<1> QED
  BY <1>1, <1>2, <1>3, <1>4, <1>5, <1>6, <1>7
     DEF Next, WorkerStep, WorkerFault, ClassifyExcluded, CrashInExclusion, Environment, Scan,
         ScanFault

\* A scan that takes the session for primary finds that it never left, or that
\* it was gone from its database for a while.
LEMMA ScanOfPrimary ==
  ASSUME TypeInv, EffectiveKind(ScanKey, kind) = "primary"
  PROVE  ~Left
<1>1. kind = "primary" /\ ScanKey \notin tombstone
  BY DEF EffectiveKind
<1>2. origin # "aliased" => ScanKey = StoredKey
  BY DEF ScanKey, Reported, StoredKey
<1> QED BY <1>1, <1>2 DEF Left, TypeInv, TypeOK, WorkerTypeOK

\* Of a session of a database that disappeared nothing is loaded.
Disappeared(h) == origin = "database" /\ Loaded(h) = None

\* The session stops being retained when it leaves or disappears, and is only
\* retained again by a scan that takes it for primary.
LEMMA RetainingMoves ==
  ASSUME TypeInv, OneWriterAssumption, NameStays, Next
  PROVE  /\ ~Retaining' => ~Retaining \/ Left'
                           \/ \E h \in Hash, torn \in BOOLEAN : Exclude(h, torn) /\ Disappeared(h)
         /\ Retaining' => Retaining \/ (~Left /\ (ScanEmpty \/ ScanLoaded \/ ScanTorn))
<1> USE DEF TypeInv, dbVars, workerVars, localVars, sourceVars
<1>1. session \in Session /\ kind \in Kind /\ origin \in Origins
  BY DEF TypeOK, DbTypeOK, WorkerTypeOK
<1>2. CASE UNCHANGED session
  BY <1>2 DEF Retaining
<1>3. ASSUME NEW h \in Hash, NEW torn \in BOOLEAN, Exclude(h, torn)
      PROVE  ~Retaining' /\ (Left' \/ Disappeared(h))
  <2> DEFINE k == EffectiveKind(StoredKey, StructuralKind(h))
  <2>1. session'.kind = k /\ k # "primary"
    BY <1>1, <1>3 DEF Exclude, SetSessionClassification, Session
  <2>2. UNCHANGED kind /\ (k = "configured" => StoredKey \in tombstone')
    BY <1>3 DEF Exclude
  <2>3. CASE k = "configured"
    <3>1. "aliased" \in Origins => kind = "configured"
      BY <2>3, ExcludedByName DEF NameStays, OneWriterAssumption
    <3> QED BY <2>1, <2>2, <2>3, <3>1 DEF Left, Retaining, OneWriterAssumption
  <2>4. CASE k # "configured" /\ source # Gone
    <3>1. k = kind
      BY <2>4 DEF EffectiveKind, StructuralKind
    <3> QED BY <2>1, <2>2, <2>4, <3>1 DEF Left, Retaining, OneWriterAssumption
  <2>5. CASE k # "configured" /\ source = Gone
    <3>1. Loaded(h) = None
      BY <2>1, <2>5 DEF EffectiveKind, StructuralKind
    <3> QED BY <1>3, <2>1, <2>5, <3>1 DEF Exclude, Unreadable, Disappeared, Retaining
  <2> QED BY <2>3, <2>4, <2>5
<1>4. ASSUME NEW torn \in BOOLEAN, ScanExcluded(torn), ~UNCHANGED session
      PROVE  ~Retaining' /\ Left'
  <2> DEFINE k == EffectiveKind(ScanKey, kind)
  <2>1. session'.kind = k /\ k # "primary"
    BY <1>1, <1>4 DEF ScanExcluded, SetSessionClassification, Session
  <2>2. UNCHANGED kind /\ tombstone' = IF kind = "configured" THEN tombstone \cup {ScanRecord} ELSE tombstone
    BY <1>4 DEF ScanExcluded
  <2>3. CASE kind \notin Reverting \cup {"primary"}
    BY <2>1, <2>2, <2>3 DEF Left, Retaining
  <2>4. CASE kind \in Reverting \cup {"primary"}
    <3>1. kind = "configured" \/ ScanKey \in tombstone
      BY <2>1, <2>4 DEF EffectiveKind, OneWriterAssumption
    <3>2. "aliased" \notin Origins
      BY <2>4, <3>1 DEF NameStays, OneWriterAssumption
    <3>3. ScanKey = StoredKey /\ ScanRecord = StoredKey
      BY <1>1, <3>2 DEF ScanKey, ScanRecord, Reported, StoredKey
    <3> QED BY <2>1, <2>2, <3>1, <3>2, <3>3 DEF Left, Retaining
  <2> QED BY <2>3, <2>4
<1>5. CASE ScanEmpty \/ ScanLoaded \/ ScanTorn
  <2>1. \E s \in {"discovered", "imported", "empty_after_normalization"} : session' = Scanned(s)
    BY <1>5 DEF ScanEmpty, ScanLoaded, ScanTorn
  <2>2. Retaining'
    BY <1>1, <2>1 DEF Scanned, Session, Retaining, Protected, ExcludedStatus
  <2>3. ~Left
    BY <1>5, ScanOfPrimary DEF ScanEmpty, ScanLoaded, ScanTorn
  <2> QED BY <1>5, <2>2, <2>3
<1>6. CASE ScanMissing \/ ScanUnchanged
  <2>1. session'.kind = session.kind
    BY <1>1, <1>6 DEF ScanMissing, ScanUnchanged, Session
  <2>2. session'.status \in Protected <=> session.status \in Protected
    BY <1>1, <1>6 DEF ScanMissing, ScanUnchanged, Session, Protected, ExcludedStatus
  <2> QED BY <2>1, <2>2 DEF Retaining
<1>7. ASSUME NEW h \in Hash, PollCompleted(h)
      PROVE  Retaining' <=> Retaining
  <2>1. session'.kind = session.kind
    BY <1>1, <1>7 DEF PollCompleted, Acknowledge, Session
  <2>2. session'.status \in Protected <=> session.status \in Protected
    BY <1>1, <1>7 DEF PollCompleted, Acknowledge, Session, Protected, ExcludedStatus
  <2> QED BY <2>1, <2>2 DEF Retaining
<1>8. ASSUME NEW h \in Hash, TaskStep(h), ~PollCompleted(h), ~ClassifyExcluded(h)
      PROVE  UNCHANGED session
  BY <1>8 DEF TaskStep, BeginRefused, Begin, Reload, PollFailed, PollTimeout, PollNotFound,
              ClassifyPrimary, ClassifyGone, Load, Preflight, SavePayload, Record, Swap, Inspect,
              Erase, MarkReady, Submit, PostAccepted, MarkPending, Cleanup
<1>9. ASSUME NEW h \in Hash, TaskFault(h)
      PROVE  UNCHANGED session
  BY <1>9 DEF TaskFault, PostAttemptLost, PostRejected, TaskError
<1>10. CASE (\E h \in Hash, r \in Replay : Work(h, r)) \/ Environment
            \/ StartBatch \/ BatchDone \/ Startup \/ Crash \/ RetryFailed \/ CancelQueuedWork
  BY <1>2, <1>10 DEF Work, Environment, BankFault, Transit, Edit, Reclassify, CompleteHeader,
                     StartBatch, RunOnce, BatchDone, Startup, Crash, RetryFailed, CancelQueuedWork
<1> QED
  BY <1>2, <1>3, <1>4, <1>5, <1>6, <1>7, <1>8, <1>9, <1>10
     DEF Next, WorkerStep, WorkerFault, ClassifyExcluded, CrashInExclusion, Scan, ScanFault

\* Only the header of a file is completed.
LEMMA OriginMoves ==
  ASSUME Next
  PROVE  origin' = "database" <=> origin = "database"
<1> USE DEF dbVars, workerVars, localVars, sourceVars
<1>1. ASSUME NEW h \in Hash, TaskStep(h) \/ TaskFault(h) \/ CrashInExclusion(h)
      PROVE  UNCHANGED origin
  BY <1>1 DEF TaskStep, BeginRefused, Begin, Reload, PollCompleted, PollFailed, PollTimeout,
              PollNotFound, ClassifyPrimary, ClassifyGone, ClassifyExcluded, Exclude, Load, Preflight,
              SavePayload, Record, Swap, Inspect, Erase, MarkReady, Submit, PostAccepted, MarkPending,
              Cleanup, TaskFault, PostAttemptLost, PostRejected, TaskError, CrashInExclusion
<1>2. CASE Environment \/ (\E h \in Hash, r \in Replay : Work(h, r)) \/ StartBatch \/ BatchDone
           \/ Scan \/ ScanFault \/ Startup \/ Crash \/ RetryFailed \/ CancelQueuedWork
  BY <1>2 DEF Environment, Edit, Reclassify, CompleteHeader, Transit, BankFault, Work, StartBatch,
              RunOnce, BatchDone, Scan, ScanMissing, ScanExcluded, ScanUnchanged, ScanEmpty,
              ScanLoaded, ScanFault, ScanTorn, Startup, Crash, RetryFailed, CancelQueuedWork
<1> QED BY <1>1, <1>2 DEF Next, WorkerStep, WorkerFault

\* A session that left does not come back.
LEMMA StaysLeft ==
  ASSUME AllInv, OneWriterAssumption, Next, Left, ~Retaining
  PROVE  ~Retaining'
BY RetainingMoves DEF AllInv, WriterInv

-----------------------------------------------------------------------------
(* Open operations.                                                        *)

\* When an operation is open.
LEMMA OpenIs ==
  ASSUME NEW h \in Hash, NEW r \in Replay
  PROVE  <<h, r>> \in Open <=>
           Unfinished(h, r) \/ (remote[h][r] = "absent" /\ Requested(h, r))
BY DEF Open, Requested

\* An open operation of a primary session is the one of its active generation.
LEMMA OpenIsActive ==
  ASSUME AllInv, NEW o \in Open, Retaining
  PROVE  /\ o = <<o[1], o[2]>> /\ o[1] \in Hash /\ o[2] \in Replay
         /\ generation[o[1]].state \in Active /\ generation[o[1]].replay = o[2]
         /\ operation[o[1]][o[2]] \in {"submitting", "pending"}
<1>1. o \in Hash \X Replay
  BY DEF Open
<1> QED BY <1>1 DEF AllInv, WriterInv, RemoteAt, Holds

\* While a task is engaged no operation but its own is open.
LEMMA EngagedOpen ==
  ASSUME AllInv, NEW h \in Hash, Engaged(h), NEW o \in Open
  PROVE  /\ o = <<h, generation[h].replay>>
         /\ Persisted(h) # "none" => generation[h].replay = task[h].gen.replay
<1>1. Retaining /\ generation[h].state \in Active
  BY DEF AllInv, OwnershipInv, OwnerAt, Engaged, Retaining
<1>2. o = <<h, generation[h].replay>>
  BY <1>1, OpenIsActive DEF AllInv, OwnershipInv, SingleActive
<1>3. Persisted(h) # "none" => generation[h].replay = task[h].gen.replay
  BY DEF AllInv, OperationInv, OperationAt, IdentityAt, Engaged
<1> QED BY <1>2, <1>3

\* A request that was rejected with no attempt lost leaves nothing open.
LEMMA PostRejectedIsSettled ==
  ASSUME AllInv, OneWriterAssumption, NEW h \in Hash, PostRejected(h)
  PROVE  <<h, task[h].gen.replay>> \notin Open
<1> USE DEF AllInv, TypeInv
<1> DEFINE r == task[h].gen.replay
<1>1. ~AttemptLost(h) /\ task[h].pc = "post"
  BY DEF PostRejected, OneWriterAssumption
<1>2. body[h][r] = None /\ Retain(h) \notin wire
  BY <1>1 DEF AttemptLost
<1>3. ~Requested(h, r)
  <2>1. ASSUME NEW m \in wire, m.hash = h, m.replay = r
        PROVE  FALSE
    <3>1. m \in Request /\ m.content = h
      BY <2>1 DEF OwnContent, OwnRequests, TypeOK, RemoteTypeOK
    <3>2. task[h].doc = h
      BY <1>1 DEF OwnContent, OwnTasks, Carrying
    <3>3. m = Retain(h)
      BY <2>1, <3>1, <3>2 DEF Retain, Request
    <3> QED BY <1>2, <3>3
  <2> QED BY <2>1 DEF Requested
<1>4. remote[h][r] = "absent"
  BY <1>2, TaskTypes DEF WriterInv, RemoteAt
<1> QED BY <1>3, <1>4, OpenIs, TaskTypes DEF Unfinished

\* What becomes of an operation row: it is prepared and made ready while
\* nothing was sent, and it is settled when nothing is open any more.
LEMMA OperationMoves ==
  ASSUME AllInv, OneWriterAssumption, Next
  PROVE  \/ UNCHANGED operation
         \/ \E h \in Hash, s \in OperationStatus :
              /\ SetOperation(h, s)
              /\ \/ s \in Unsent /\ Persisted(h) \in Unsent \cup {"none"}
                 \/ s \in {"submitting", "pending"}
                    /\ Persisted(h) \in {"ready", "submitting", "pending"}
                 \/ /\ s \in TerminalFailures \cup {"completed"}
                    /\ <<h, task[h].gen.replay>> \notin Open
<1> USE DEF AllInv, TypeInv, dbVars, workerVars, localVars
<1>1. ASSUME NEW h \in Hash, TaskStep(h), ~UNCHANGED operation
      PROVE  \E s \in OperationStatus :
              /\ SetOperation(h, s)
              /\ \/ s \in Unsent /\ Persisted(h) \in Unsent \cup {"none"}
                 \/ s \in {"submitting", "pending"}
                    /\ Persisted(h) \in {"ready", "submitting", "pending"}
                 \/ /\ s \in TerminalFailures \cup {"completed"}
                    /\ <<h, task[h].gen.replay>> \notin Open
  <2>1. RowAt(h)
    BY DEF OperationInv, OperationAt
  <2>2. CASE PollCompleted(h) \/ PollFailed(h)
    <3>1. Polled(h) \in {"completed", "failed"}
      BY <2>2 DEF PollCompleted, PollFailed
    <3>2. <<h, task[h].gen.replay>> \notin Open
      BY <3>1, OpenIs, TaskTypes DEF Polled, Unfinished
    <3> QED BY <2>2, <3>2
            DEF PollCompleted, PollFailed, CatchTerminal, TerminalFailures, OperationStatus
  <2>3. CASE Record(h) \/ MarkReady(h)
    BY <2>1, <2>3 DEF Record, MarkReady, RowAt, OperationStatus, Unsent
  <2>4. CASE Submit(h) \/ MarkPending(h)
    BY <2>1, <2>4 DEF Submit, MarkPending, RowAt, OperationStatus
  <2> QED BY <1>1, <2>2, <2>3, <2>4
          DEF TaskStep, BeginRefused, Begin, Reload, PollTimeout, PollNotFound, ClassifyPrimary,
              ClassifyGone, ClassifyExcluded, Exclude, Load, Preflight, SavePayload, Swap,
              Inspect, Erase, PostAccepted, Cleanup
<1>2. ASSUME NEW h \in Hash, PostRejected(h)
      PROVE  SetOperation(h, "rejected") /\ <<h, task[h].gen.replay>> \notin Open
  BY <1>2, PostRejectedIsSettled DEF PostRejected, CatchTerminal
<1>3. ASSUME NEW h \in Hash, PostAttemptLost(h) \/ TaskError(h) \/ CrashInExclusion(h)
      PROVE  UNCHANGED operation
  BY <1>3 DEF PostAttemptLost, TaskError, CrashInExclusion, Exclude
<1>4. ASSUME ~\E h \in Hash : TaskStep(h) \/ WorkerFault(h)
      PROVE  UNCHANGED operation
  BY <1>4 DEF Next, WorkerStep, Environment, Edit, Reclassify, CompleteHeader, Transit, BankFault, Work,
              StartBatch, RunOnce, BatchDone, Scan, ScanMissing, ScanExcluded, ScanUnchanged,
              ScanEmpty, ScanLoaded, ScanFault, ScanTorn, Startup, Crash, RetryFailed,
              CancelQueuedWork
<1> QED BY <1>1, <1>2, <1>3, <1>4
        DEF WorkerFault, TaskFault, OperationStatus, TerminalFailures

\* The task of an operation that was sent works on that operation.
LEMMA EngagedSent ==
  ASSUME AllInv, NEW h \in Hash, NEW r \in Replay, Sent(h, r), NEW x \in Hash, Engaged(x)
  PROVE  /\ x = h /\ task[x].gen.replay = r
         /\ Persisted(x) \in {"submitting", "pending"}
         /\ task[x].pc \notin {"save", "record"}
         /\ task[x].pc \in {"poll", "classify", "load", "preflight"} => task[x].op # "none"
<1> USE DEF AllInv, Sent, Holds
<1>1. Retaining
  BY DEF OwnershipInv, OwnerAt, Engaged, Retaining
<1>2. x = h
  BY <1>1 DEF OwnershipInv, OwnerAt, Engaged
<1>3. task[h].gen.replay = r
  BY <1>2 DEF OperationInv, OperationAt, IdentityAt, Engaged, TerminalFailures
<1> QED BY <1>2, <1>3 DEF OperationInv, OperationAt, RowAt, Persisted

\* A task that ends on an error leaves what it sent to a later poll.
LEMMA CatchKeepsSent ==
  ASSUME AllInv, NEW h \in Hash, NEW r \in Replay, Sent(h, r), Engaged(h), Catch(h)
  PROVE  generation'[h].state \in Active /\ generation'[h].replay = r
<1>1. Persisted(h) # "none"
  BY EngagedSent
<1> QED BY <1>1, SetGenerationStateEffect
        DEF AllInv, TypeInv, Catch, GenerationState, Active, Sent, Holds

\* An exclusion leaves an operation that was sent to its generation, for a
\* cleanup.
LEMMA ExclusionKeepsSent ==
  ASSUME AllInv, NEW x \in Hash, NEW torn \in BOOLEAN, Exclude(x, torn),
         NEW h \in Hash, NEW r \in Replay, Sent(h, r)
  PROVE  Holds(h, r)'
<1> USE DEF AllInv, TypeInv
<1> DEFINE k == EffectiveKind(StoredKey, StructuralKind(x))
<1>1. session'.kind = k /\ k # "primary"
  BY DEF Exclude, SetSessionClassification, TypeOK, DbTypeOK, Session
<1>2. Engaged(x) /\ task[x].pc = "classify"
  BY DEF Exclude, Engaged
<1>3. task[x].op # "none"
  BY <1>2, EngagedSent
<1>4. generation'[h] \in {generation[h], [generation[h] EXCEPT !.state = "cleanup_pending"]}
  BY <1>3 DEF Exclude, MarkSessionGenerationsCleanupPending, Moved
<1> QED BY <1>1, <1>4, TaskTypes DEF Generation, Retaining, Sent, Holds

\* A step of its own task does not take it from its generation, unless the step
\* settles it.
LEMMA OwnTaskKeepsSent ==
  ASSUME AllInv, NEW h \in Hash, NEW r \in Replay, Sent(h, r), Retaining, TaskStep(h),
         operation'[h][r] \in {"submitting", "pending"}
  PROVE  Holds(h, r)'
<1> USE DEF AllInv, TypeInv, dbVars
<1>1. generation[h].state \in Active /\ generation[h].replay = r
  BY DEF Sent, Holds
<1>2. CASE UNCHANGED generation
  BY <1>1, <1>2 DEF Holds
<1>3. CASE Begin(h)
  BY <1>1, <1>3, BeginTask DEF TypeOK, DbTypeOK, Holds
<1>4. CASE PollCompleted(h) \/ PollFailed(h)
  <2>1. Engaged(h) /\ \E s \in {"completed", "failed"} : SetOperation(h, s)
    BY <1>4 DEF PollCompleted, PollFailed, CatchTerminal, Engaged
  <2>2. task[h].gen.replay = r
    BY <2>1, EngagedSent
  <2> QED BY <2>1, <2>2, SetOperationEffect DEF OperationStatus, TerminalFailures
<1>5. CASE Catch(h) /\ Engaged(h)
  BY <1>5, CatchKeepsSent DEF Holds
<1>6. CASE Load(h)
  <2>1. Engaged(h) /\ task[h].op # "none"
    BY <1>6, EngagedSent DEF Load, Engaged
  <2> QED BY <1>2, <1>5, <1>6, <2>1 DEF Load
<1>7. CASE ClassifyExcluded(h)
  BY <1>7, ExclusionKeepsSent DEF ClassifyExcluded
<1>8. CASE Record(h)
  BY <1>8, EngagedSent DEF Record, Engaged
<1>9. CASE Submit(h)
  BY <1>1, <1>9, SetGenerationStateEffect DEF Submit, GenerationState, Active, Holds
<1> QED
  BY <1>2, <1>3, <1>4, <1>5, <1>6, <1>7, <1>8, <1>9
     DEF TaskStep, BeginRefused, Reload, PollTimeout, PollNotFound, ClassifyPrimary,
         ClassifyGone, Preflight, SavePayload, Swap,
         Inspect, Erase, MarkReady, PostAccepted, MarkPending, Cleanup, Engaged

\* A task of a generation that is not at work removes a file, or is refused.
LEMMA IdleTaskStep ==
  ASSUME NEW x \in Hash, TaskStep(x), ~Engaged(x), ~Begin(x)
  PROVE  BeginRefused(x) \/ Cleanup(x)
BY DEF TaskStep, Reload, PollCompleted, PollFailed, PollTimeout, PollNotFound, ClassifyPrimary,
       ClassifyGone, ClassifyExcluded, Exclude, Load, Preflight, SavePayload, Record, Swap,
       Inspect, Erase, MarkReady, Submit, PostAccepted, MarkPending, Engaged

\* No other step takes it from the generation of a session that is retained ...
LEMMA SentKeepsActive ==
  ASSUME AllInv, OneWriterAssumption, Next, NEW h \in Hash, NEW r \in Replay, Sent(h, r),
         operation'[h][r] \in {"submitting", "pending"}, Retaining
  PROVE  Holds(h, r)'
<1> USE DEF AllInv, TypeInv, dbVars, workerVars, localVars, Holds
<1>1. generation[h].state \in Active /\ generation[h].replay = r /\ generation[h] \in Generation
  BY TaskTypes DEF Sent
<1>2. CASE UNCHANGED generation
  BY <1>1, <1>2
<1>3. ASSUME NEW x \in Hash, TaskStep(x)
      PROVE  Holds(h, r)'
  <2>1. CASE x = h
    BY <1>3, <2>1, OwnTaskKeepsSent
  <2>2. CASE x # h
    <3>1. ~Engaged(x)
      BY <2>2, EngagedSent
    <3>2. ~Begin(x)
      BY <1>1, <2>2 DEF Begin, Claimable, OtherActive
    <3> QED BY <1>2, <1>3, <3>1, <3>2, IdleTaskStep DEF BeginRefused, Cleanup
  <2> QED BY <2>1, <2>2
<1>4. ASSUME NEW x \in Hash, WorkerFault(x)
      PROVE  Holds(h, r)'
  <2>1. CASE PostAttemptLost(x)
    BY <1>2, <2>1 DEF PostAttemptLost
  <2>2. CASE PostRejected(x)
    <3>1. Engaged(x) /\ SetOperation(x, "rejected")
      BY <2>2 DEF PostRejected, CatchTerminal, Engaged
    <3>2. x = h /\ task[h].gen.replay = r
      BY <3>1, EngagedSent
    <3> QED BY <3>1, <3>2, SetOperationEffect DEF OperationStatus, TerminalFailures
  <2>3. CASE TaskError(x)
    <3>1. Engaged(x) /\ Catch(x)
      BY <2>3 DEF TaskError, Awaiting, Engaged
    <3>2. x = h
      BY <3>1, EngagedSent
    <3> QED BY <3>1, <3>2, CatchKeepsSent
  <2>4. CASE CrashInExclusion(x)
    BY <2>4, ExclusionKeepsSent DEF CrashInExclusion
  <2> QED BY <1>4, <2>1, <2>2, <2>3, <2>4 DEF WorkerFault, TaskFault
<1>5. ASSUME NEW torn \in BOOLEAN, ScanExcluded(torn)
      PROVE  Holds(h, r)'
  <2>1. UNCHANGED generation \/ generation' = MarkSessionGenerationsCleanupPending
    BY <1>5 DEF ScanExcluded
  <2>2. UNCHANGED generation \/ ~Retaining'
    BY <1>5 DEF ScanExcluded, SetSessionClassification, TypeOK, DbTypeOK, Session, Retaining
  <2>3. \/ UNCHANGED generation
        \/ generation'[h] \in {generation[h], [generation[h] EXCEPT !.state = "cleanup_pending"]}
    BY <2>1 DEF MarkSessionGenerationsCleanupPending, Moved
  <2> QED BY <1>1, <1>2, <2>2, <2>3 DEF Generation
<1>6. CASE ScanLoaded \/ ScanTorn
  <2>1. SupersedeOlder(source)[h] = generation[h]
    BY <1>1 DEF SupersedeOlder, Moved, Active
  <2>2. ~OnItsWay(source) => h # source
    BY <1>1 DEF OnItsWay, Active
  <2>3. generation'[h] = generation[h]
    BY <1>6, <2>1, <2>2, <1>1 DEF ScanLoaded, ScanTorn, SupersedeOlder, Moved
  <2> QED BY <1>1, <2>3
<1>7. CASE RetryFailed \/ CancelQueuedWork
  BY <1>1, <1>7 DEF RetryFailed, ResetFailed, CancelQueuedWork, CancelQueued, Moved, Active
<1>8. CASE ScanMissing \/ ScanUnchanged \/ ScanEmpty \/ Environment \/ StartBatch \/ BatchDone
           \/ (\E x \in Hash, q \in Replay : Work(x, q)) \/ Startup \/ Crash
  BY <1>2, <1>8 DEF ScanMissing, ScanUnchanged, ScanEmpty, Environment, Edit, Reclassify, CompleteHeader, Transit,
                    BankFault, Work, StartBatch, RunOnce, BatchDone, Startup, Crash
<1> QED BY <1>3, <1>4, <1>5, <1>6, <1>7, <1>8 DEF Next, WorkerStep, Scan, ScanFault

\* Nothing works on a session that is not retained: until a scan takes it for
\* primary again a step leaves its operations alone, and its generations too but
\* for a command or a scan that marks or resets them.
LEMMA LeftSessionMoves ==
  ASSUME AllInv, OneWriterAssumption, Next, ~Retaining, ~Retaining'
  PROVE  /\ UNCHANGED operation
         /\ \/ UNCHANGED generation
            \/ generation' \in {MarkSessionGenerationsCleanupPending, ResetFailed, CancelQueued}
<1> USE DEF AllInv, dbVars, workerVars, localVars
<1> DEFINE Marked == generation' \in {MarkSessionGenerationsCleanupPending, ResetFailed, CancelQueued}
<1>1. ASSUME NEW x \in Hash
      PROVE  ~Engaged(x) /\ ~Begin(x)
  BY DEF OwnershipInv, OwnerAt, Engaged, Begin, Claimable, Retaining
<1>2. ASSUME NEW x \in Hash, TaskStep(x)
      PROVE  UNCHANGED <<operation, generation>>
  BY <1>1, <1>2, IdleTaskStep DEF BeginRefused, Cleanup
<1>3. ASSUME NEW x \in Hash, WorkerFault(x)
      PROVE  FALSE
  BY <1>1, <1>3 DEF WorkerFault, TaskFault, PostAttemptLost, PostRejected, TaskError, Awaiting,
                    CrashInExclusion, Exclude, Engaged
<1>4. ASSUME ScanLoaded \/ ScanTorn
      PROVE  FALSE
  <2>1. \E s \in {"discovered", "imported"} : session' = Scanned(s)
    BY <1>4 DEF ScanLoaded, ScanTorn
  <2> QED BY <2>1 DEF Scanned, Session, Retaining, Protected, ExcludedStatus, TypeInv, TypeOK, DbTypeOK
<1>5. ASSUME NEW torn \in BOOLEAN, ScanExcluded(torn)
      PROVE  UNCHANGED operation /\ (UNCHANGED generation \/ Marked)
  BY <1>5 DEF ScanExcluded
<1>6. CASE RetryFailed \/ CancelQueuedWork
  BY <1>6 DEF RetryFailed, CancelQueuedWork
<1>7. CASE ScanMissing \/ ScanUnchanged \/ ScanEmpty \/ Environment \/ StartBatch \/ BatchDone
           \/ (\E x \in Hash, q \in Replay : Work(x, q)) \/ Startup \/ Crash
  BY <1>7 DEF ScanMissing, ScanUnchanged, ScanEmpty, Environment, Edit, Reclassify, CompleteHeader,
              Transit, BankFault, Work, StartBatch, RunOnce, BatchDone, Startup, Crash
<1> QED BY <1>2, <1>3, <1>4, <1>5, <1>6, <1>7 DEF Next, WorkerStep, Scan, ScanFault

\* ... and a session that left keeps it for a cleanup.
LEMMA SentKeepsGeneration ==
  ASSUME AllInv, OneWriterAssumption, Next, NEW h \in Hash, NEW r \in Replay, Sent(h, r),
         operation'[h][r] \in {"submitting", "pending"}
  PROVE  Holds(h, r)'
<1>1. CASE Retaining
  BY <1>1, SentKeepsActive
<1>2. CASE ~Retaining
  <2>1. Holds(h, r) /\ Left /\ generation[h] \in Generation
    BY <1>2, TaskTypes DEF AllInv, TypeInv, WriterInv, LeftForGood, Sent
  <2>2. ~Retaining'
    BY <1>2, <2>1, StaysLeft
  <2>3. generation'[h] \in {generation[h], [generation[h] EXCEPT !.state = "cleanup_pending"]}
    BY <1>2, <2>1, <2>2, LeftSessionMoves
       DEF Holds, MarkSessionGenerationsCleanupPending, ResetFailed, CancelQueued, Moved, Active
  <2> QED BY <2>1, <2>2, <2>3 DEF Holds, Generation
<1> QED BY <1>1, <1>2

\* A generation takes a new identity when that is recorded, or, if it is not
\* active, when it is queued.
LEMMA ReplayMoves ==
  ASSUME AllInv, Next, NEW h \in Hash, generation'[h].replay # generation[h].replay
  PROVE  \/ Record(h)
         \/ /\ generation[h].state \notin Active
            /\ UNCHANGED operation
            /\ operation[h][generation'[h].replay] = "none"
<1> USE DEF AllInv, TypeInv, dbVars, workerVars, localVars, sourceVars
<1>1. ASSUME NEW H, NEW from, NEW to \in GenerationState, generation' = Moved(H, from, to)
      PROVE  FALSE
  BY <1>1 DEF Moved, TypeOK, DbTypeOK, Generation
<1>2. ASSUME NEW x \in Hash, NEW s \in GenerationState, generation' = SetGenerationState(x, s)
      PROVE  FALSE
  BY <1>2, SetGenerationStateEffect
<1>3. ASSUME NEW x \in Hash, Catch(x)
      PROVE  FALSE
  BY <1>2, <1>3 DEF Catch, GenerationState
<1>4. ASSUME NEW x \in Hash, NEW torn \in BOOLEAN, Exclude(x, torn)
      PROVE  FALSE
  BY <1>1, <1>2, <1>4 DEF Exclude, MarkSessionGenerationsCleanupPending, GenerationState
<1>5. ASSUME NEW x \in Hash, TaskStep(x)
      PROVE  Record(h)
  <2>1. CASE Begin(x)
    BY <2>1, BeginTask DEF TypeOK, DbTypeOK
  <2>2. CASE Record(x)
    BY <2>2 DEF Record, TypeOK, DbTypeOK
  <2>3. CASE PollCompleted(x) \/ PollFailed(x) \/ Submit(x)
    BY <1>2, <2>3 DEF PollCompleted, PollFailed, CatchTerminal, Submit, GenerationState
  <2>4. CASE ClassifyExcluded(x)
    BY <1>4, <2>4 DEF ClassifyExcluded
  <2>5. CASE Load(x)
    BY <1>2, <1>3, <2>5 DEF Load, GenerationState
  <2> QED
    BY <1>3, <1>5, <2>1, <2>2, <2>3, <2>4, <2>5
       DEF TaskStep, BeginRefused, Reload, PollTimeout, PollNotFound, ClassifyPrimary, ClassifyGone,
           Preflight, SavePayload, Swap, Inspect, Erase, MarkReady, PostAccepted, MarkPending, Cleanup
<1>6. ASSUME NEW x \in Hash, WorkerFault(x)
      PROVE  FALSE
  BY <1>2, <1>3, <1>4, <1>6
     DEF WorkerFault, TaskFault, PostAttemptLost, PostRejected, CatchTerminal, TaskError,
         CrashInExclusion, GenerationState
<1>7. ASSUME NEW torn \in BOOLEAN, ScanExcluded(torn)
      PROVE  FALSE
  BY <1>1, <1>7 DEF ScanExcluded, MarkSessionGenerationsCleanupPending, GenerationState
<1>8. CASE ScanLoaded \/ ScanTorn
  <2>1. SupersedeOlder(source)[h].replay = generation[h].replay
    BY DEF SupersedeOlder, Moved, TypeOK, DbTypeOK, Generation
  <2>2. PICK r \in Replay :
          /\ ScanLoaded /\ ~OnItsWay(source) /\ source \in Hash
          /\ NextOperationId(source, Previous(source), r)
          /\ generation' = [SupersedeOlder(source) EXCEPT ![source] = Queued(source, r)]
    BY <1>1, <1>8 DEF ScanLoaded, ScanTorn, SupersedeOlder, GenerationState
  <2>3. h = source /\ generation'[h].replay = r
    BY <2>1, <2>2 DEF SupersedeOlder, Moved, Queued
  <2> QED BY <2>2, <2>3 DEF NextOperationId, ScanLoaded, OnItsWay, Active
<1>9. CASE RetryFailed \/ CancelQueuedWork
  BY <1>1, <1>9 DEF RetryFailed, ResetFailed, CancelQueuedWork, CancelQueued, GenerationState,
                    TypeOK, DbTypeOK, Generation
<1>10. CASE ScanMissing \/ ScanUnchanged \/ ScanEmpty \/ Environment \/ StartBatch \/ BatchDone
            \/ (\E x \in Hash, q \in Replay : Work(x, q)) \/ Startup \/ Crash
  BY <1>10 DEF ScanMissing, ScanUnchanged, ScanEmpty, Environment, Edit, Reclassify, CompleteHeader, Transit,
               BankFault, Work, StartBatch, RunOnce, BatchDone, Startup, Crash
<1> QED BY <1>5, <1>6, <1>7, <1>8, <1>9, <1>10 DEF Next, WorkerStep, Scan, ScanFault

\* An operation is recorded as sent by the task that goes on to send it.
LEMMA SentBySubmit ==
  ASSUME AllInv, Next, NEW h \in Hash, NEW r \in Replay,
         operation'[h][r] \in {"submitting", "pending"},
         operation[h][r] \notin {"submitting", "pending"}
  PROVE  Submit(h) /\ task[h].gen.replay = r
<1> USE DEF AllInv, TypeInv, dbVars, workerVars, localVars
<1>1. ASSUME NEW x \in Hash, NEW s \in OperationStatus, SetOperation(x, s)
      PROVE  x = h /\ task[h].gen.replay = r /\ s \in {"submitting", "pending"}
  BY <1>1, SetOperationEffect
<1>2. ASSUME NEW x \in Hash, PollCompleted(x) \/ PollFailed(x) \/ Record(x) \/ MarkReady(x)
                             \/ PostRejected(x)
      PROVE  FALSE
  <2>1. \E s \in {"completed", "failed", "prepared", "ready", "rejected"} : SetOperation(x, s)
    BY <1>2 DEF PollCompleted, PollFailed, Record, MarkReady, PostRejected, CatchTerminal
  <2> QED BY <1>1, <2>1 DEF OperationStatus, Unsent, TerminalFailures
<1>3. ASSUME NEW x \in Hash, MarkPending(x)
      PROVE  FALSE
  <2>1. Persisted(x) = "submitting" /\ SetOperation(x, "pending")
    BY <1>3 DEF MarkPending, OperationInv, OperationAt, RowAt
  <2> QED BY <1>1, <2>1 DEF Persisted, OperationStatus
<1>4. ASSUME NEW x \in Hash, TaskStep(x)
      PROVE  Submit(x)
  BY <1>2, <1>3, <1>4 DEF TaskStep, BeginRefused, Begin, Reload, PollTimeout, PollNotFound,
       ClassifyPrimary, ClassifyGone, ClassifyExcluded, Exclude, Load, Preflight, SavePayload, Swap,
       Inspect, Erase, PostAccepted, Cleanup
<1>5. ASSUME NEW x \in Hash, WorkerFault(x)
      PROVE  FALSE
  BY <1>2, <1>5 DEF WorkerFault, TaskFault, PostAttemptLost, TaskError, CrashInExclusion, Exclude
<1>6. UNCHANGED operation \/ \E x \in Hash : TaskStep(x) \/ WorkerFault(x)
  BY DEF Next, WorkerStep, Environment, Edit, Reclassify, CompleteHeader, Transit, BankFault, Work,
         StartBatch, RunOnce, BatchDone, Scan, ScanMissing, ScanExcluded, ScanUnchanged,
         ScanEmpty, ScanLoaded, ScanFault, ScanTorn, Startup, Crash, RetryFailed, CancelQueuedWork
<1>7. PICK x \in Hash : Submit(x)
  BY <1>4, <1>5, <1>6
<1>8. SetOperation(x, "submitting")
  BY <1>7 DEF Submit
<1> QED BY <1>1, <1>7, <1>8 DEF OperationStatus

\* An operation is not settled while it is open, so no step takes an open
\* operation from its generation.
LEMMA OpenKeepsGeneration ==
  ASSUME AllInv, OneWriterAssumption, Next, NEW h \in Hash, NEW r \in Replay, <<h, r>> \in Open
  PROVE  Holds(h, r)' /\ operation'[h][r] \in {"submitting", "pending"}
<1>1. Sent(h, r)
  BY DEF AllInv, WriterInv, RemoteAt, Sent
<1>2. operation'[h][r] \in {"submitting", "pending"}
  <2>1. ASSUME NEW x \in Hash, NEW s \in OperationStatus, SetOperation(x, s),
               \/ s \in Unsent /\ Persisted(x) \in Unsent \cup {"none"}
               \/ s \in {"submitting", "pending"}
               \/ <<x, task[x].gen.replay>> \notin Open
        PROVE  operation'[h][r] \in {"submitting", "pending"}
    <3>1. operation'[h][r] = IF <<h, r>> = <<x, task[x].gen.replay>> THEN s ELSE operation[h][r]
      BY <2>1, SetOperationEffect DEF AllInv, TypeInv
    <3> QED BY <1>1, <2>1, <3>1 DEF Persisted, Unsent, Sent
  <2> QED BY <1>1, <2>1, OperationMoves DEF Sent
<1> QED BY <1>1, <1>2, SentKeepsGeneration

\* What was sent is held by its generation, and nothing is sent under an identity
\* that was not recorded before.
LEMMA StepSentIsHeld ==
  ASSUME AllInv, OneWriterAssumption, Next
  PROVE  SentIsHeld'
<1> USE DEF AllInv, TypeInv
<1> SUFFICES ASSUME origin' = "database", NEW h \in Hash, NEW r, r = generation'[h].replay,
                    operation'[h][r] \in {"submitting", "pending"}
             PROVE  Holds(h, r)'
  BY DEF SentIsHeld, Holds, Retaining
<1>1. r \in Replay
  BY StepTypes DEF TypeOK, DbTypeOK, Generation
<1>2. CASE operation[h][r] \in {"submitting", "pending"}
  <2>1. ~Record(h)
    <3>1. ASSUME Record(h)
          PROVE  FALSE
      <4>1. generation' = [generation EXCEPT ![h] = task[h].gen] /\ SetOperation(h, "prepared")
        BY <3>1 DEF Record
      <4>2. r = task[h].gen.replay
        BY <4>1 DEF TypeOK, DbTypeOK
      <4> QED BY <4>1, <4>2, SetOperationEffect, TaskTypes DEF OperationStatus, Unsent
    <3> QED BY <3>1
  <2>2. r = generation[h].replay
    BY <1>2, <2>1, ReplayMoves
  <2>3. origin = "database"
    BY OriginMoves
  <2>4. Sent(h, r)
    BY <1>2, <2>2, <2>3 DEF WriterInv, SentIsHeld, Sent
  <2> QED BY <1>1, <2>4, SentKeepsGeneration
<1>3. CASE operation[h][r] \notin {"submitting", "pending"}
  <2>1. Submit(h) /\ task[h].gen.replay = r
    BY <1>1, <1>3, SentBySubmit
  <2>2. generation'[h].state = "submitted"
    BY <2>1, SetGenerationStateEffect DEF Submit, GenerationState
  <2> QED BY <2>2 DEF Holds, Active
<1> QED BY <1>2, <1>3

\* A session that is not retained has left for good, or was gone from its
\* database before anything was sent.
LEMMA StepLeftForGood ==
  ASSUME AllInv, OneWriterAssumption, Next
  PROVE  LeftForGood'
<1> USE DEF AllInv, TypeInv
<1> SUFFICES ASSUME ~Retaining', ~Left'
             PROVE  /\ origin' = "database"
                    /\ \A h \in Hash, r \in Replay : ~Sent(h, r)'
  BY DEF LeftForGood
<1>1. ~Left
  BY LeftStays DEF WriterInv
<1>2. ASSUME NEW x \in Hash, NEW torn \in BOOLEAN, Exclude(x, torn), Disappeared(x), Retaining
      PROVE  /\ origin' = "database"
             /\ \A h \in Hash, r \in Replay : ~Sent(h, r)'
  <2>1. UNCHANGED <<origin, operation>> /\ origin = "database"
    BY <1>2 DEF Exclude, Disappeared, sourceVars
  <2>2. ASSUME NEW h \in Hash, NEW r \in Replay, Sent(h, r)'
        PROVE  FALSE
    <3>1. generation'[h].replay = generation[h].replay
      BY <1>2 DEF Exclude, SetGenerationState, MarkSessionGenerationsCleanupPending, Moved, TypeOK,
                  DbTypeOK, Generation
    <3>2. Sent(h, r)
      BY <2>1, <2>2, <3>1 DEF WriterInv, SentIsHeld, Sent, Holds
    <3>3. Engaged(x) /\ task[x].pc = "classify"
      BY <1>2 DEF Exclude, Engaged
    <3>4. x = h /\ task[x].op # "none" /\ Persisted(x) \in {"submitting", "pending"}
          /\ task[x].gen.replay \in Replay
      BY <3>2, <3>3, EngagedSent, TaskTypes
    <3>5. payload[x][task[x].gen.replay] = x
      BY <3>4 DEF OperationInv, OperationAt, RecoverableAt, Persisted
    <3> QED BY <1>2, <3>4, <3>5, HindsightAssumption DEF Disappeared, Loaded
  <2> QED BY <2>1, <2>2
<1>3. CASE ~Retaining
  <2>1. origin = "database" /\ \A h \in Hash, r \in Replay : ~Sent(h, r)
    BY <1>1, <1>3 DEF WriterInv, LeftForGood
  <2>2. /\ UNCHANGED operation
        /\ \/ UNCHANGED generation
           \/ generation' \in {MarkSessionGenerationsCleanupPending, ResetFailed, CancelQueued}
    BY <1>3, LeftSessionMoves
  <2>3. ASSUME NEW h \in Hash, NEW r \in Replay, Sent(h, r)'
        PROVE  FALSE
    <3>1. generation'[h].replay = generation[h].replay
      <4>1. generation[h] \in Generation
        BY TaskTypes
      <4>2. CASE generation' = ResetFailed
        BY <4>1, <4>2 DEF ResetFailed, Generation
      <4>3. CASE generation' \in {MarkSessionGenerationsCleanupPending, CancelQueued}
        BY <4>1, <4>3 DEF CancelQueued, MarkSessionGenerationsCleanupPending, Moved, Generation
      <4> QED BY <2>2, <4>2, <4>3
    <3>2. Sent(h, r)
      BY <2>1, <2>2, <2>3, <3>1 DEF WriterInv, SentIsHeld, Sent, Holds
    <3> QED BY <2>1, <3>2
  <2> QED BY <2>1, <2>3, OriginMoves
<1> QED BY <1>2, <1>3, RetainingMoves DEF WriterInv

-----------------------------------------------------------------------------
(* What the bank and the network know.                                     *)

\* Steps in which the bank, the network or a sender takes part.
BankStep ==
  \/ \E h \in Hash : PostAccepted(h) \/ PostAttemptLost(h) \/ Erase(h)
  \/ \E h \in Hash, r \in Replay : Work(h, r) \/ BankFault(h, r)
  \/ \E m \in wire : Transit(m)
  \/ Crash

\* All other steps leave the bank and the network alone.
LEMMA QuietStep ==
  ASSUME Next, ~BankStep
  PROVE  UNCHANGED <<remote, body, wire, document>>
<1> USE DEF remoteVars
<1>1. ASSUME NEW h \in Hash, TaskStep(h)
      PROVE  UNCHANGED <<remote, body, wire, document>>
  BY <1>1 DEF BankStep, TaskStep, BeginRefused, Begin, Reload, PollCompleted, PollFailed, PollTimeout,
              PollNotFound, ClassifyPrimary, ClassifyGone, ClassifyExcluded, Exclude, Load, Preflight,
              SavePayload, Record, Swap, Inspect, MarkReady, Submit, MarkPending, Cleanup
<1>2. ASSUME NEW h \in Hash, WorkerFault(h)
      PROVE  UNCHANGED <<remote, body, wire, document>>
  BY <1>2 DEF BankStep, WorkerFault, TaskFault, PostRejected, TaskError, CrashInExclusion, Exclude
<1>3. CASE Environment \/ StartBatch \/ BatchDone \/ Scan \/ ScanFault \/ Startup \/ RetryFailed
           \/ CancelQueuedWork
  BY <1>3 DEF BankStep, Environment, Edit, Reclassify, CompleteHeader, StartBatch, RunOnce, BatchDone, Scan,
              ScanMissing, ScanExcluded, ScanUnchanged, ScanEmpty, ScanLoaded, ScanFault, ScanTorn,
              Startup, RetryFailed, CancelQueuedWork
<1> QED BY <1>1, <1>2, <1>3 DEF BankStep, Next, WorkerStep

\* The request that the task of h is sending.
Sending(h, r) == task[h].pc = "post" /\ task[h].gen.replay = r

\* Its operation was recorded before, and is the one of the active generation.
LEMMA SendingIsRecorded ==
  ASSUME AllInv, NEW h \in Hash, NEW r \in Replay, Sending(h, r)
  PROVE  /\ Engaged(h) /\ operation[h][r] = "submitting"
         /\ Retaining
         /\ generation[h].state \in Active /\ generation[h].replay = r
BY DEF AllInv, OperationInv, OperationAt, RowAt, IdentityAt, OwnershipInv, OwnerAt, Engaged, Sending,
       Persisted, Retaining

\* What a step can make of one operation in the bank and on the network.
RemoteMoves(h, r) ==
  /\ remote'[h][r] # "absent" => body'[h][r] # None
  /\ body'[h][r] # None \/ Requested(h, r)' =>
       body[h][r] # None \/ Requested(h, r) \/ Sending(h, r)
  /\ <<h, r>> \in Open' => <<h, r>> \in Open \/ Sending(h, r)

\* A request reaches the bank.
LEMMA ReceiveEffect ==
  ASSUME TypeInv, NEW m \in Request, m.content = m.hash, Receive(m), NEW h \in Hash, NEW r \in Replay
  PROVE  \/ remote'[h][r] = remote[h][r] /\ body'[h][r] = body[h][r]
         \/ /\ m.hash = h /\ m.replay = r /\ remote[h][r] = "absent"
            /\ remote'[h][r] = "pending" /\ body'[h][r] = h
BY DEF Receive, SetRemote, Request, TypeInv, TypeOK, RemoteTypeOK

\* An operation changes its status.
LEMMA SetRemoteEffect ==
  ASSUME TypeInv, NEW x \in Hash, NEW q \in Replay, NEW s \in RemoteStatus, SetRemote(x, q, s),
         NEW h \in Hash, NEW r \in Replay
  PROVE  remote'[h][r] = IF <<h, r>> = <<x, q>> THEN s ELSE remote[h][r]
BY DEF SetRemote, TypeInv, TypeOK, RemoteTypeOK

\* A step changes an operation in the bank only by carrying it out, by settling
\* a request in transit, or by a request of the task that is sending it.
LEMMA BankMoves ==
  ASSUME AllInv, Next, NEW h \in Hash, NEW r \in Replay
  PROVE  RemoteMoves(h, r)
<1> USE DEF AllInv, TypeInv
<1>1. remote[h][r] # "absent" => body[h][r] # None
  BY DEF WriterInv, RemoteAt
<1>2. /\ <<h, r>> \in Open <=> Unfinished(h, r) \/ (remote[h][r] = "absent" /\ Requested(h, r))
      /\ <<h, r>> \in Open' <=> Unfinished(h, r)' \/ (remote'[h][r] = "absent" /\ Requested(h, r)')
  BY OpenIs DEF Open, Requested, Unfinished
<1>3. CASE UNCHANGED <<remote, body, wire>>
  BY <1>1, <1>2, <1>3 DEF RemoteMoves, Requested, Unfinished
<1>4. ASSUME NEW x \in Hash, PostAccepted(x)
      PROVE  RemoteMoves(h, r)
  <2>1. Retain(x) \in Request /\ Retain(x).content = x /\ Retain(x).hash = x
        /\ (Retain(x).hash = h /\ Retain(x).replay = r => Sending(h, r))
    BY <1>4, RetainType DEF PostAccepted, Retain, Sending
  <2>2. Receive(Retain(x)) /\ UNCHANGED wire
    BY <1>4 DEF PostAccepted
  <2>3. \/ remote'[h][r] = remote[h][r] /\ body'[h][r] = body[h][r]
        \/ Sending(h, r) /\ body'[h][r] = h
    BY <2>1, <2>2, ReceiveEffect
  <2> QED BY <1>1, <1>2, <2>2, <2>3, HindsightAssumption DEF RemoteMoves, Requested, Unfinished
<1>5. ASSUME UNCHANGED <<remote, body>>,
             \A m \in wire' : m \in wire \/ \E x \in Hash : m = Retain(x) /\ task[x].pc = "post"
      PROVE  RemoteMoves(h, r)
  <2>1. Requested(h, r)' => Requested(h, r) \/ Sending(h, r)
    BY <1>5 DEF Requested, Retain, Sending
  <2> QED BY <1>1, <1>2, <1>5, <2>1 DEF RemoteMoves, Unfinished
<1>6. ASSUME NEW x \in Hash, PostAttemptLost(x)
      PROVE  RemoteMoves(h, r)
  BY <1>5, <1>6 DEF PostAttemptLost
<1>7. CASE Crash
  BY <1>5, <1>7 DEF Crash
<1>8. ASSUME NEW m \in wire, Deliver(m)
      PROVE  RemoteMoves(h, r)
  <2>1. m \in Request /\ m.content = m.hash
    BY <1>8 DEF TypeOK, RemoteTypeOK, OwnContent, OwnRequests
  <2>2. \/ remote'[h][r] = remote[h][r] /\ body'[h][r] = body[h][r]
        \/ /\ m.hash = h /\ m.replay = r /\ remote[h][r] = "absent"
           /\ body'[h][r] = h
    BY <1>8, <2>1, ReceiveEffect DEF Deliver
  <2>3. Requested(h, r)' => Requested(h, r)
    BY <1>8 DEF Deliver, Requested
  <2> QED BY <1>1, <1>2, <1>8, <2>2, <2>3, HindsightAssumption DEF RemoteMoves, Requested, Unfinished
<1>9. ASSUME NEW m \in wire, Drop(m)
      PROVE  RemoteMoves(h, r)
  <2>1. Requested(h, r)' => Requested(h, r)
    BY <1>9 DEF Drop, Requested
  <2> QED BY <1>1, <1>2, <1>9, <2>1 DEF RemoteMoves, Drop, Unfinished
<1>10. ASSUME NEW x \in Hash, NEW q \in Replay, Work(x, q) \/ BankFault(x, q)
       PROVE  RemoteMoves(h, r)
  <2>1. PICK s \in RemoteStatus :
          /\ SetRemote(x, q, s) /\ UNCHANGED <<body, wire>>
          /\ remote[x][q] # "absent"
          /\ s \in {"pending", "processing"} => Unfinished(x, q)
          /\ s = "absent" => ~Requested(x, q)
    BY <1>10 DEF Work, BankFault, RemoteStart, RemoteComplete, RemoteFail, Prune, Unfinished,
                 RemoteStatus, Requested
  <2>2. remote'[h][r] = IF <<h, r>> = <<x, q>> THEN s ELSE remote[h][r]
    BY <2>1, SetRemoteEffect
  <2> QED BY <1>1, <1>2, <2>1, <2>2 DEF RemoteMoves, Requested, Unfinished
<1>11. ASSUME NEW x \in Hash, Erase(x)
       PROVE  RemoteMoves(h, r)
  BY <1>3, <1>11 DEF Erase
<1> QED BY <1>3, <1>4, <1>6, <1>7, <1>8, <1>9, <1>10, <1>11, QuietStep DEF BankStep, Transit

\* An operation becomes open only when nothing else is, and no step opens two.
LEMMA StepOneWriter ==
  ASSUME AllInv, Next
  PROVE  OneRemoteWriter'
<1>1. ASSUME NEW o \in Open', NEW p \in Open'
      PROVE  o = p
  <2>1. PICK h \in Hash, r \in Replay : o = <<h, r>>
    BY DEF Open
  <2>2. PICK g \in Hash, q \in Replay : p = <<g, q>>
    BY DEF Open
  <2>3. (o \in Open \/ Sending(h, r)) /\ (p \in Open \/ Sending(g, q))
    BY <1>1, <2>1, <2>2, BankMoves DEF RemoteMoves
  <2>4. CASE o \in Open /\ p \in Open
    BY <2>4 DEF AllInv, WriterInv, OneRemoteWriter
  <2>5. CASE Sending(h, r) /\ p \in Open
    BY <2>1, <2>5, SendingIsRecorded, EngagedOpen
  <2>6. CASE o \in Open /\ Sending(g, q)
    BY <2>2, <2>6, SendingIsRecorded, EngagedOpen
  <2>7. CASE Sending(h, r) /\ Sending(g, q)
    BY <2>1, <2>2, <2>7, SendingIsRecorded, OnlyOneEngaged DEF AllInv, Sending
  <2> QED BY <2>3, <2>4, <2>5, <2>6, <2>7
<1> QED BY <1>1 DEF OneRemoteWriter

-----------------------------------------------------------------------------
(* Rows and bank together.                                                 *)

\* The bank, the network and the sending of a request leave the rows alone.
LEMMA BankStepRows ==
  ASSUME BankStep
  PROVE  UNCHANGED <<session, generation, operation>>
BY DEF BankStep, PostAccepted, PostAttemptLost, Erase, Work, BankFault, Transit, Crash, dbVars,
       localVars

\* Nothing was sent under an identity that is not recorded as sent, and an
\* open operation stays the one of its active generation.
LEMMA StepRemote ==
  ASSUME AllInv, OneWriterAssumption, Next, NEW h \in Hash, NEW r \in Replay
  PROVE  RemoteAt(h, r)'
<1>1. /\ body[h][r] # None \/ Requested(h, r) => operation[h][r] \notin Unsent \cup {"none"}
      /\ <<h, r>> \in Open => operation[h][r] \in {"submitting", "pending"}
  BY DEF AllInv, WriterInv, RemoteAt
<1>2. RemoteMoves(h, r)
  BY BankMoves
<1>3. CASE BankStep
  <2>1. UNCHANGED <<session, generation, operation>>
    BY <1>3, BankStepRows
  <2>2. Sending(h, r) => /\ operation[h][r] = "submitting"
                         /\ generation[h].state \in Active /\ generation[h].replay = r
    BY SendingIsRecorded
  <2>3. <<h, r>> \in Open => Holds(h, r)
    BY DEF AllInv, WriterInv, RemoteAt
  <2>4. (Retaining' <=> Retaining) /\ (Holds(h, r) => Holds(h, r)')
    BY <2>1 DEF Retaining, Holds
  <2>5. Sending(h, r) => Holds(h, r)
    BY <2>2 DEF Holds
  <2> QED BY <1>1, <1>2, <2>1, <2>2, <2>3, <2>4, <2>5 DEF RemoteAt, RemoteMoves, Unsent
<1>4. CASE ~BankStep
  <2>1. UNCHANGED <<remote, body, wire>>
    BY <1>4, QuietStep
  <2>2. (<<h, r>> \in Open' <=> <<h, r>> \in Open) /\ (Requested(h, r)' <=> Requested(h, r))
    BY <2>1 DEF Open, Requested, Unfinished
  <2>3. CASE UNCHANGED operation
    BY <1>1, <1>2, <2>1, <2>2, <2>3, OpenKeepsGeneration DEF RemoteAt, RemoteMoves
  <2>4. ASSUME NEW x \in Hash, NEW s \in OperationStatus, SetOperation(x, s),
               \/ s \in Unsent /\ Persisted(x) \in Unsent \cup {"none"}
               \/ s \in {"submitting", "pending"}
                  /\ Persisted(x) \in {"ready", "submitting", "pending"}
               \/ /\ s \in TerminalFailures \cup {"completed"}
                  /\ <<x, task[x].gen.replay>> \notin Open
        PROVE  RemoteAt(h, r)'
    <3>1. operation'[h][r] = IF <<h, r>> = <<x, task[x].gen.replay>> THEN s ELSE operation[h][r]
      BY <2>4, SetOperationEffect DEF AllInv, TypeInv
    <3>2. operation'[h][r] \in Unsent \cup {"none"} => operation[h][r] \in Unsent \cup {"none"}
      BY <2>4, <3>1 DEF Persisted, Unsent, TerminalFailures
    <3>3. <<h, r>> \in Open => operation'[h][r] \in {"submitting", "pending"}
      BY <1>1, <2>4, <3>1 DEF Persisted, Unsent, TerminalFailures
    <3> QED BY <1>1, <1>2, <2>1, <2>2, <3>2, <3>3, OpenKeepsGeneration DEF RemoteAt, RemoteMoves
  <2> QED BY <2>3, <2>4, OperationMoves
<1> QED BY <1>3, <1>4

\* An open operation that completes is the one of the active generation, and
\* what it leaves in the document is the content of that generation.
LEMMA CompletionLands ==
  ASSUME AllInv, NEW x \in Hash, NEW q \in Replay, RemoteComplete(x, q)
  PROVE  <<x, q>> \in Open /\ document' = x
<1>1. remote[x][q] = "processing"
  BY DEF RemoteComplete
<1>2. body[x][q] = x
  BY <1>1 DEF AllInv, WriterInv, RemoteAt, TypeInv, OwnContent, OwnBodies
<1>3. document' = body[x][q]
  BY DEF RemoteComplete
<1> QED BY <1>1, <1>2, <1>3, OpenIs DEF Unfinished

\* What the bank reports as completed and the importer has not yet recorded is
\* the document: nothing was sent, deleted or completed in between.
LEMMA StepLanded ==
  ASSUME AllInv, OneWriterAssumption, Next, NEW h \in Hash
  PROVE  LandedAt(h)'
<1> USE DEF AllInv, TypeInv
<1> DEFINE r == generation'[h].replay
<1>1. SUFFICES ASSUME Retaining', generation'[h].state \in Active,
                      operation'[h][r] \in {"submitting", "pending"}, remote'[h][r] = "completed"
               PROVE  document' = h
  BY DEF LandedAt
<1>2. Retaining /\ generation[h] \in Generation
  <2>1. ASSUME ~Retaining
        PROVE  FALSE
    <3>1. ~Left /\ (ScanEmpty \/ ScanLoaded \/ ScanTorn)
      BY <1>1, <2>1, RetainingMoves DEF WriterInv
    <3>2. UNCHANGED operation /\ ~Record(h)
      BY <2>1, <3>1 DEF ScanEmpty, ScanLoaded, ScanTorn, Record, OwnershipInv, OwnerAt, Retaining
    <3>3. operation[h][generation[h].replay] \in {"submitting", "pending"}
      BY <1>1, <3>2, ReplayMoves
    <3>4. Sent(h, generation[h].replay) /\ generation[h].replay \in Replay
      BY <2>1, <3>1, <3>3, TaskTypes DEF WriterInv, LeftForGood, SentIsHeld, Sent, Generation
    <3> QED BY <2>1, <3>1, <3>4 DEF WriterInv, LeftForGood
  <2> QED BY <2>1, TaskTypes
<1>3. CASE ~BankStep
  <2>1. UNCHANGED <<remote, body, wire, document>>
    BY <1>3, QuietStep
  <2>2. generation[h].state \in Active => generation[h].replay = r
    <3>1. CASE Record(h)
      <4>1. Persisted(h) = "none" /\ generation' = [generation EXCEPT ![h] = task[h].gen]
            /\ SetOperation(h, "prepared")
        BY <3>1 DEF Record, OperationInv, OperationAt, RowAt
      <4>2. r = task[h].gen.replay
        BY <4>1 DEF TypeOK, DbTypeOK
      <4>3. operation'[h][r] = "prepared"
        BY <4>1, <4>2, SetOperationEffect, TaskTypes DEF OperationStatus, Unsent
      <4> QED BY <1>1, <4>3
    <3> QED BY <3>1, ReplayMoves
  <2>3. r \in Replay
    BY <1>1, <2>2, BecomesActive, BeginTask, StepTypes DEF TypeOK, DbTypeOK, Generation
  <2>4. operation[h][r] \in {"submitting", "pending"}
    <3>1. CASE UNCHANGED operation
      BY <1>1, <3>1
    <3>2. ASSUME NEW x \in Hash, NEW s \in OperationStatus, SetOperation(x, s),
                 \/ s \in Unsent /\ Persisted(x) \in Unsent \cup {"none"}
                 \/ s \in {"submitting", "pending"}
                    /\ Persisted(x) \in {"ready", "submitting", "pending"}
                 \/ s \in TerminalFailures \cup {"completed"}
          PROVE  operation[h][r] \in {"submitting", "pending"}
      <4>1. operation'[h][r] = IF <<h, r>> = <<x, task[x].gen.replay>> THEN s ELSE operation[h][r]
        BY <2>3, <3>2, SetOperationEffect
      <4>2. operation[h][r] # "ready"
        BY <1>1, <2>1, <2>3 DEF WriterInv, RemoteAt, Unsent
      <4> QED BY <1>1, <3>2, <4>1, <4>2 DEF Persisted, Unsent, TerminalFailures
    <3> QED BY <3>1, <3>2, OperationMoves
  <2>5. generation[h].state \in Active
    <3>1. ASSUME Begin(h)
          PROVE  generation[h].state \in {"queued", "failed"} \cup Active
                 /\ r = generation[h].replay
      BY <3>1, BeginTask DEF Begin, Claimable, Active, TypeOK, DbTypeOK
    <3> QED BY <1>1, <2>4, <3>1, BecomesActive
            DEF OperationInv, OperationAt, WaitingAt, TerminalFailures
  <2> QED BY <1>1, <1>2, <2>1, <2>2, <2>4, <2>5 DEF WriterInv, LandedAt
<1>4. CASE BankStep
  <2>1. UNCHANGED <<session, generation, operation>>
    BY <1>4, BankStepRows
  <2>2. ASSUME NEW x \in Hash, Erase(x)
        PROVE  FALSE
    <3>1. Engaged(x) /\ Persisted(x) = "prepared" /\ task[x].gen.replay = generation[x].replay
      BY <2>2 DEF Erase, Engaged, OperationInv, OperationAt, RowAt, IdentityAt
    <3>2. x = h
      BY <1>1, <2>1, <3>1 DEF OwnershipInv, OwnerAt, Engaged, Retaining
    <3> QED BY <1>1, <2>1, <3>1, <3>2 DEF Persisted
  <2>3. ASSUME NEW x \in Hash, NEW q \in Replay, RemoteComplete(x, q)
        PROVE  document' = h
    <3>1. x = h
      BY <1>1, <1>2, <2>1, <2>3, CompletionLands, OpenIsActive DEF OwnershipInv, SingleActive
    <3> QED BY <2>3, <3>1, CompletionLands
  <2>4. CASE remote[h][r] = "completed" /\ UNCHANGED document
    BY <1>1, <1>2, <2>1, <2>4 DEF WriterInv, LandedAt
  <2>5. ASSUME NEW m \in Request, m.content = m.hash, Receive(m), UNCHANGED document
        PROVE  document' = h
    BY <1>1, <1>2, <2>1, <2>4, <2>5, ReceiveEffect, TaskTypes
  <2>6. ASSUME NEW x \in Hash, NEW q \in Replay, NEW s \in RemoteStatus \ {"completed"},
               SetRemote(x, q, s), UNCHANGED document
        PROVE  document' = h
    BY <1>1, <1>2, <2>1, <2>4, <2>6, SetRemoteEffect, TaskTypes
  <2>7. ASSUME NEW x \in Hash, PostAccepted(x)
        PROVE  document' = h
    BY <2>5, <2>7, RetainType DEF PostAccepted, Retain
  <2>8. ASSUME NEW m \in wire, Transit(m)
        PROVE  document' = h
    <3>1. m \in Request /\ m.content = m.hash
      BY DEF TypeOK, RemoteTypeOK, OwnContent, OwnRequests
    <3>2. UNCHANGED document /\ (Receive(m) \/ UNCHANGED remote)
      BY <2>8 DEF Transit, Deliver, Drop
    <3> QED BY <1>1, <2>1, <2>4, <2>5, <3>1, <3>2
  <2>9. ASSUME NEW x \in Hash, NEW q \in Replay, Work(x, q) \/ BankFault(x, q)
        PROVE  document' = h
    BY <2>3, <2>6, <2>9 DEF Work, BankFault, RemoteStart, RemoteFail, Prune, RemoteStatus
  <2> QED BY <1>1, <1>4, <2>1, <2>2, <2>4, <2>7, <2>8, <2>9 DEF BankStep, PostAttemptLost, Crash
<1> QED BY <1>3, <1>4

-----------------------------------------------------------------------------
(* The induction.                                                          *)

\* Nothing is open to begin with.
LEMMA InitWriter ==
  ASSUME Init
  PROVE  WriterInv
<1>0. \A h \in Hash : operation[h][generation[h].replay] \notin {"submitting", "pending"}
  <2>1. \A h \in Hash, r \in Replay : operation[h][r] \in {"none", "completed"}
    BY DEF Init, Fresh, Legacy
  <2>2. \A h \in Hash : generation[h].replay \in Replay
    BY InitTypes DEF TypeInv, TypeOK, DbTypeOK, Generation
  <2> QED BY <2>1, <2>2
<1>1. remote = [h \in Hash |-> [r \in Replay |-> "absent"]] /\ wire = {}
      /\ body = [h \in Hash |-> [r \in Replay |-> None]] /\ Retaining /\ tombstone = {}
  BY DEF Init, Fresh, Legacy, NoSession, Retaining, Protected, ExcludedStatus
<1>2. Open = {}
  BY <1>1 DEF Open, Unfinished
<1>3. \A h \in Hash : generation[h].state \notin Active
  <2>1. CASE Fresh
    BY <2>1 DEF Fresh, NoGeneration, Active
  <2>2. ASSUME NEW g \in Hash, Legacy(g)
        PROVE  \A h \in Hash : generation[h].state \notin Active
    BY <2>2 DEF Legacy, NoGeneration, Active
  <2> QED BY <2>1, <2>2 DEF Init
<1> QED BY <1>0, <1>1, <1>2, <1>3
        DEF WriterInv, NameStays, LeftForGood, SentIsHeld, RemoteAt, LandedAt, OneRemoteWriter,
            Requested, Unfinished

\* Every step of the system keeps to one writer.
LEMMA StepAll ==
  ASSUME AllInv, OneWriterAssumption, [Next]_vars
  PROVE  AllInv'
<1>1. TypeInv' /\ OperationInv' /\ OwnershipInv'
  BY StepTypes, StepOperations, StepOwnership DEF AllInv
<1>2. CASE Next
  BY <1>1, <1>2, LeftStays, StepLeftForGood, StepSentIsHeld, StepRemote, StepLanded, StepOneWriter
     DEF AllInv, WriterInv
<1>3. CASE UNCHANGED vars
  BY <1>1, <1>3 DEF AllInv, vars, dbVars, remoteVars, workerVars, sourceVars, WriterInv, NameStays,
                    LeftForGood, Left, SentIsHeld, Sent, Retaining, RemoteAt, Holds, LandedAt, OneRemoteWriter, Open, Unfinished, Requested
<1> QED BY <1>2, <1>3

\* The inductive invariant holds.
THEOREM WritersAreSound ==
  ASSUME OneWriterAssumption
  PROVE  Spec => []AllInv
<1>1. Init => AllInv
  BY InitTypes, InitOperations, InitOwnership, InitWriter DEF AllInv
<1>2. AllInv /\ [Next]_vars => AllInv'
  BY StepAll
<1> QED BY <1>1, <1>2, PTL DEF Spec

\* At any time at most one operation can still change the remote document: an
\* operation of uncertain outcome blocks every other one.
THEOREM WriterIsUnique ==
  ASSUME OneWriterAssumption
  PROVE  Spec => []OneRemoteWriter
<1>1. AllInv => OneRemoteWriter
  BY DEF AllInv, WriterInv
<1> QED BY <1>1, WritersAreSound, PTL

-----------------------------------------------------------------------------
(* The refinement.                                                         *)

\* Operations open and settle one at a time.
LEMMA OpenMoves ==
  ASSUME AllInv, Next
  PROVE  \/ Open' = Open
         \/ \E o \in Hash \X Replay : \/ Open = {} /\ Open' = {o}
                                      \/ Open = {o} /\ Open' = {}
<1>1. /\ OneRemoteWriter /\ OneRemoteWriter'
      /\ Open \subseteq Hash \X Replay /\ Open' \subseteq Hash \X Replay
  BY StepOneWriter DEF AllInv, WriterInv, Open
<1>2. ASSUME NEW o \in Open, NEW p \in Open'
      PROVE  o = p
  <2>1. PICK h \in Hash, r \in Replay : p = <<h, r>>
    BY DEF Open
  <2>2. p \in Open \/ Sending(h, r)
    BY <2>1, BankMoves DEF RemoteMoves
  <2>3. CASE p \in Open
    BY <1>1, <2>3 DEF OneRemoteWriter
  <2>4. CASE Sending(h, r)
    BY <2>1, <2>4, SendingIsRecorded, EngagedOpen
  <2> QED BY <2>2, <2>3, <2>4
<1>3. CASE Open = {} /\ Open' = {}
  BY <1>3
<1>4. ASSUME NEW p \in Open', Open = {}
      PROVE  Open' = {p}
  BY <1>1, <1>4 DEF OneRemoteWriter
<1>5. ASSUME NEW o \in Open
      PROVE  Open = {o} /\ Open' \subseteq {o}
  BY <1>1, <1>2, <1>5 DEF OneRemoteWriter
<1> QED BY <1>1, <1>3, <1>4, <1>5

\* An operation that completes was the only one that was open.
LEMMA CompletionSettles ==
  ASSUME AllInv, Next, NEW x \in Hash, NEW q \in Replay, RemoteComplete(x, q)
  PROVE  Open = {<<x, q>>} /\ Open' = {}
<1>1. <<x, q>> \in Open
  BY CompletionLands
<1>2. remote'[x][q] = "completed"
  BY SetRemoteEffect DEF RemoteComplete, AllInv, RemoteStatus
<1>3. <<x, q>> \notin Open'
  BY <1>2 DEF Open, Unfinished
<1> QED BY <1>1, <1>3, OpenMoves

\* When a poll finds the operation completed, nothing is open and the document
\* is the content that is acknowledged.
LEMMA AcknowledgesDocument ==
  ASSUME AllInv, NEW h \in Hash, PollCompleted(h)
  PROVE  Open = {} /\ document = h /\ session'.ack = h
<1> USE DEF AllInv, TypeInv
<1> DEFINE r == generation[h].replay
<1>1. Engaged(h) /\ Retaining /\ generation[h].state \in Active
  BY DEF PollCompleted, Engaged, OwnershipInv, OwnerAt, Retaining
<1>2. task[h].gen.replay = r /\ operation[h][r] \in {"submitting", "pending"}
  BY DEF PollCompleted, OperationInv, OperationAt, RowAt, IdentityAt, Persisted
<1>3. remote[h][r] = "completed"
  BY <1>2 DEF PollCompleted, Polled
<1>4. document = h
  BY <1>1, <1>2, <1>3 DEF WriterInv, LandedAt
<1>5. <<h, r>> \notin Open
  BY <1>3 DEF Open, Unfinished
<1>6. session'.ack = h
  BY DEF PollCompleted, Acknowledge, TypeOK, DbTypeOK, Session
<1> QED BY <1>1, <1>4, <1>5, <1>6, EngagedOpen

\* Every step of the system is a step of the register, or none.
LEMMA RegisterStep ==
  ASSUME AllInv, [Next]_vars
  PROVE  [Register!RegisterNext]_(Register!registerVars)
<1> USE DEF Register!RegisterNext, Register!registerVars
<1>1. CASE UNCHANGED vars
  BY <1>1 DEF vars, remoteVars, dbVars, Open, Unfinished
<1>2. CASE Next /\ UNCHANGED <<document, session>>
  <2>1. UNCHANGED session.ack
    BY <1>2
  <2> QED BY <1>2, <2>1, OpenMoves DEF Register!Write, Register!Lose
<1>3. CASE Next /\ ~BankStep
  <2>1. UNCHANGED <<remote, wire, document>>
    BY <1>3, QuietStep
  <2>2. UNCHANGED <<Open, document>>
    BY <2>1 DEF Open, Unfinished
  <2>3. CASE session'.ack # session.ack
    <3>1. PICK h \in Hash : PollCompleted(h)
      BY <1>3, <2>3, AcknowledgedHashMoves DEF AllInv
    <3>2. document # None
      BY <3>1, AcknowledgesDocument, HindsightAssumption
    <3> QED BY <2>2, <3>1, <3>2, AcknowledgesDocument DEF Register!Know
  <2> QED BY <2>2, <2>3
<1>4. ASSUME Next, NEW x \in Hash, NEW q \in Replay, RemoteComplete(x, q), UNCHANGED session
      PROVE  [Register!RegisterNext]_(Register!registerVars)
  <2>1. UNCHANGED session.ack
    BY <1>4
  <2> QED BY <1>4, <2>1, CompletionLands, CompletionSettles DEF Register!Land
<1>5. ASSUME Next, NEW x \in Hash, Erase(x), UNCHANGED session
      PROVE  [Register!RegisterNext]_(Register!registerVars)
  <2>1. Engaged(x) /\ Persisted(x) = "prepared" /\ task[x].gen.replay = generation[x].replay
        /\ Retaining
    BY <1>5 DEF Erase, Engaged, AllInv, OperationInv, OperationAt, RowAt, IdentityAt,
                OwnershipInv, OwnerAt, Retaining
  <2>2. Open = {}
    BY <2>1, EngagedOpen, OpenIsActive DEF Persisted
  <2>3. UNCHANGED <<Open, session.ack>> /\ document' = None
    BY <1>5 DEF Erase, Open, Unfinished
  <2> QED BY <2>2, <2>3 DEF Register!EraseStored
<1>6. CASE Next /\ BankStep
  <2>1. UNCHANGED session
    BY <1>6, BankStepRows
  <2> QED BY <1>2, <1>4, <1>5, <1>6, <2>1
          DEF BankStep, PostAccepted, PostAttemptLost, Work, BankFault, RemoteStart, RemoteFail, Prune,
              Transit, Deliver, Drop, Crash
<1> QED BY <1>1, <1>3, <1>6

\* The importer implements the register with one writer: the bank sees one write
\* of the document at a time, and the acknowledged hash is always taken from
\* what the document holds at that moment.
THEOREM ImplementsRegister ==
  ASSUME OneWriterAssumption
  PROVE  Spec => OneWriterRegister
<1>1. Init => Register!RegisterInit
  <2>1. Init => Open = {}
    BY DEF Init, Open, Unfinished
  <2>2. Init => document = session.ack /\ session.ack \in Hash \cup {None}
    BY DEF Init, Fresh, Legacy, NoSession
  <2> QED BY <2>1, <2>2 DEF Register!RegisterInit
<1>2. AllInv /\ [Next]_vars => [Register!RegisterNext]_(Register!registerVars)
  BY RegisterStep
<1> QED BY <1>1, <1>2, WritersAreSound, PTL DEF Spec, OneWriterRegister, Register!RegisterSpec
=============================================================================
