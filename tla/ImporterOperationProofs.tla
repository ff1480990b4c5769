---------------------- MODULE ImporterOperationProofs ----------------------
(***************************************************************************)
(* The operation rows: content that may have to be sent again is on disk,  *)
(* a failed identity stays failed, and the acknowledged hash moves only    *)
(* with a completed operation; and, resting on it, the ownership of the    *)
(* session: a running task holds the only active generation.               *)
(*                                                                         *)
(* The invariant speaks of one generation at a time.  A step about         *)
(* generation h leaves the rows of the others alone, but for the states    *)
(* that scans and exclusions move; so the induction has one frame lemma    *)
(* for the others, and one case per step for h.                            *)
(***************************************************************************)
EXTENDS ImporterTypeProofs

-----------------------------------------------------------------------------
(* The frame.                                                              *)

\* A row may leave the states that are waiting or worked on, not enter them.
StateLeft(g) ==
  /\ generation'[g].replay = generation[g].replay
  /\ generation'[g].state \in {"queued", "failed"} => generation[g].state \in {"queued", "failed"}
  /\ generation'[g].state \in Active => generation[g].state \in Active

\* Nothing happened to generation g, or its task ended with the process.
Untouched(g) ==
  /\ operation'[g] = operation[g]
  /\ payload'[g] = payload[g]
  /\ task'[g] = task[g] \/ task'[g].pc \in {"idle", "waiting"}
  /\ StateLeft(g)

\* What is true of a generation stays true while nothing happens to it.
LEMMA Frame ==
  ASSUME NEW g \in Hash, OperationAt(g), Untouched(g)
  PROVE  OperationAt(g)'
<1>1. RecoverableAt(g)'
  BY DEF OperationAt, RecoverableAt, Untouched
<1>2. CASE task'[g] = task[g]
  BY <1>1, <1>2 DEF OperationAt, RowAt, IdentityAt, FilesAt, WaitingAt, Persisted, Untouched,
                    StateLeft
<1>3. CASE task'[g].pc \in {"idle", "waiting"}
  BY <1>1, <1>3 DEF OperationAt, RowAt, IdentityAt, FilesAt, WaitingAt, Persisted, Untouched,
                    StateLeft
<1> QED BY <1>2, <1>3 DEF Untouched

\* Conditional updates of states only let rows leave.
LEMMA MovedLeaves ==
  ASSUME TypeOK, NEW g \in Hash, NEW H, NEW from,
         NEW to \in {"superseded", "cleanup_pending"}, generation' = Moved(H, from, to)
  PROVE  StateLeft(g)
<1>1. generation[g] \in Generation
  BY DEF TypeOK, DbTypeOK
<1>2. generation'[g] \in {generation[g], [generation[g] EXCEPT !.state = to]}
  BY DEF Moved
<1> QED BY <1>1, <1>2 DEF StateLeft, Generation, Active

\* A state written to one row leaves every row, or lets it leave.
LEMMA SetStateLeaves ==
  ASSUME TypeOK, NEW g \in Hash, NEW h \in Hash, NEW s \in GenerationState,
         generation' = SetGenerationState(h, s),
         g # h \/ s \notin {"queued", "failed"} \cup Active
  PROVE  StateLeft(g)
<1>1. generation[g] \in Generation
  BY DEF TypeOK, DbTypeOK
<1>2. generation'[g] = IF g = h THEN [generation[g] EXCEPT !.state = s] ELSE generation[g]
  BY DEF SetGenerationState, TypeOK, DbTypeOK
<1> QED BY <1>1, <1>2 DEF StateLeft, Generation

\* An exclusion lets rows leave, and touches no operation and no payload file.
LEMMA ExcludeLeaves ==
  ASSUME TypeOK, NEW g \in Hash, NEW h \in Hash, NEW torn \in BOOLEAN, Exclude(h, torn)
  PROVE  StateLeft(g) /\ UNCHANGED <<operation, payload>>
<1>1. \/ generation' = generation
      \/ generation' = SetGenerationState(h, "superseded")
      \/ generation' = MarkSessionGenerationsCleanupPending
  BY DEF Exclude
<1>2. StateLeft(g)
  <2>1. CASE generation' = generation
    BY <2>1 DEF StateLeft
  <2>2. CASE generation' = SetGenerationState(h, "superseded")
    BY <2>2, SetStateLeaves DEF GenerationState, Active
  <2>3. CASE generation' = MarkSessionGenerationsCleanupPending
    BY <2>3, MovedLeaves DEF MarkSessionGenerationsCleanupPending
  <2> QED BY <1>1, <2>1, <2>2, <2>3
<1> QED BY <1>2 DEF Exclude

-----------------------------------------------------------------------------
(* What a step of a task does to the rows of its own generation.           *)

\* The identity a task works on.
LEMMA TaskTypes ==
  ASSUME TypeOK, NEW h \in Hash
  PROVE  /\ task[h] \in Task /\ task[h].gen \in Generation /\ task[h].gen.replay \in Replay
         /\ generation[h] \in Generation /\ generation[h].replay \in Replay
BY DEF TypeOK, DbTypeOK, WorkerTypeOK, Task, Generation

\* A task that goes on keeps its copy of the row and of the content.
LEMMA GotoEffect ==
  ASSUME TypeOK, NEW h \in Hash, NEW pc \in PC, Goto(h, pc)
  PROVE  /\ \A g \in Hash \ {h} : task'[g] = task[g]
         /\ task'[h].pc = pc /\ task'[h].gen = task[h].gen /\ task'[h].op = task[h].op
         /\ task'[h].doc = task[h].doc /\ task'[h].old = task[h].old
BY TaskTypes DEF TypeOK, WorkerTypeOK, Goto, Task

\* A task that ends leaves the others alone.
LEMMA FinishEffect ==
  ASSUME TypeOK, NEW h \in Hash, Finish(h)
  PROVE  /\ \A g \in Hash \ {h} : task'[g] = task[g]
         /\ task'[h].pc = "idle"
BY DEF TypeOK, WorkerTypeOK, Finish, NoTask

\* One row is written: that of the identity the task works on.
LEMMA SetOperationEffect ==
  ASSUME TypeOK, NEW h \in Hash, NEW s \in OperationStatus, SetOperation(h, s)
  PROVE  /\ \A g \in Hash \ {h} : operation'[g] = operation[g]
         /\ \A r \in Replay : operation'[h][r] = IF r = task[h].gen.replay THEN s
                                                 ELSE operation[h][r]
BY TaskTypes DEF TypeOK, DbTypeOK, SetOperation

\* One generation is written, and keeps its identity.
LEMMA SetGenerationStateEffect ==
  ASSUME TypeOK, NEW h \in Hash, NEW s \in GenerationState, generation' = SetGenerationState(h, s)
  PROVE  /\ \A g \in Hash \ {h} : generation'[g] = generation[g]
         /\ generation'[h].state = s /\ generation'[h].replay = generation[h].replay
BY TaskTypes DEF TypeOK, DbTypeOK, SetGenerationState, Generation

\* The catch block leaves an operation that may be in flight to a later poll,
\* and a generation without one to a retry.
LEMMA CatchOperation ==
  ASSUME TypeOK, NEW h \in Hash, OperationAt(h), Catch(h), UNCHANGED <<operation, payload>>,
         task[h].pc \notin {"idle", "waiting", "cleanup"}
  PROVE  OperationAt(h)'
<1>1. task'[h].pc = "idle"
  BY FinishEffect DEF Catch
<1>2. /\ generation'[h].replay = generation[h].replay
      /\ generation'[h].state = IF Persisted(h) # "none" THEN "submitted" ELSE "failed"
  BY SetGenerationStateEffect DEF Catch, GenerationState, Active
<1>3. WaitingAt(h)'
  <2>1. operation[h][generation[h].replay] \notin Retired
    BY DEF OperationAt, WaitingAt
  <2>2. Persisted(h) = "none" =>
          operation[h][generation[h].replay] \in TerminalFailures \cup {"none"}
    BY DEF OperationAt, IdentityAt, Persisted
  <2> QED BY <1>1, <1>2, <2>1, <2>2 DEF WaitingAt, Active
<1> QED BY <1>1, <1>3 DEF OperationAt, RowAt, IdentityAt, FilesAt, RecoverableAt

\* The catch block records an operation that is known to have failed.
LEMMA CatchTerminalOperation ==
  ASSUME TypeOK, NEW h \in Hash, OperationAt(h), NEW s \in TerminalFailures,
         CatchTerminal(h, s), UNCHANGED payload, task[h].pc \in {"poll", "wait", "post"}
  PROVE  OperationAt(h)'
<1>1. task'[h].pc = "idle"
  BY FinishEffect DEF CatchTerminal
<1>2. generation'[h].replay = generation[h].replay /\ generation'[h].state = "failed"
  BY SetGenerationStateEffect DEF CatchTerminal, GenerationState
<1>3. task[h].gen.replay = generation[h].replay
  BY DEF OperationAt, IdentityAt
<1>4. \A r \in Replay : operation'[h][r] = IF r = task[h].gen.replay THEN s ELSE operation[h][r]
  BY SetOperationEffect DEF CatchTerminal, OperationStatus
<1>5. WaitingAt(h)'
  BY <1>1, <1>2, <1>3, <1>4, TaskTypes DEF WaitingAt, TerminalFailures, Active
<1>6. RecoverableAt(h)'
  BY <1>4 DEF OperationAt, RecoverableAt, TerminalFailures, Unsent
<1> QED BY <1>1, <1>5, <1>6 DEF OperationAt, RowAt, IdentityAt, FilesAt

\* A step that moves the row of the operation on, and the task with it.
LEMMA AdvanceOperation ==
  ASSUME TypeOK, NEW h \in Hash, OperationAt(h), NEW s \in OperationStatus, NEW pc \in PC,
         SetOperation(h, s), Goto(h, pc), UNCHANGED payload,
         task[h].pc \notin {"idle", "waiting", "cleanup", "reload", "classify", "load", "preflight",
                            "save", "record"},
         generation' \in {generation, SetGenerationState(h, "submitted"),
                          SetGenerationState(h, "completed")},
         \/ pc = "ready" /\ s = "ready"
         \/ pc = "post" /\ s = "submitting"
         \/ pc = "wait" /\ s = "pending"
         \/ pc = "cleanup" /\ s = "completed" /\ generation' = SetGenerationState(h, "completed")
  PROVE  OperationAt(h)'
<1>1. task[h].gen.replay = generation[h].replay /\ task[h].gen.state \in Active
  BY DEF OperationAt, IdentityAt
<1>2. Persisted(h) \in {"prepared", "ready", "submitting", "pending"}
  BY TaskTypes DEF OperationAt, RowAt, Task, PC
<1>3. task'[h].pc = pc /\ task'[h].gen = task[h].gen
  BY GotoEffect
<1>4. \A r \in Replay : operation'[h][r] = IF r = task[h].gen.replay THEN s ELSE operation[h][r]
  BY SetOperationEffect
<1>5. generation'[h].replay = generation[h].replay
  BY SetGenerationStateEffect DEF GenerationState, Active
<1>6. Persisted(h)' = s
  BY <1>3, <1>4, TaskTypes DEF Persisted
<1>7. payload[h][task[h].gen.replay] = h
  BY <1>2, TaskTypes DEF OperationAt, RecoverableAt, Persisted, Unsent
<1>8. RowAt(h)'
  BY <1>3, <1>6 DEF RowAt
<1>9. IdentityAt(h)' /\ FilesAt(h)'
  BY <1>1, <1>3, <1>5 DEF IdentityAt, FilesAt
<1>10. WaitingAt(h)'
  <2>1. operation'[h][generation'[h].replay] = s
    BY <1>1, <1>4, <1>5, TaskTypes
  <2>2. generation[h].state \notin {"queued", "failed"}
    BY <1>1, <1>2 DEF OperationAt, WaitingAt, Persisted, TerminalFailures
  <2>3. generation'[h].state \notin {"queued", "failed"}
    BY <2>2, SetGenerationStateEffect DEF GenerationState, Active
  <2>4. s = "completed" => generation'[h].state = "completed"
    BY SetGenerationStateEffect DEF GenerationState
  <2> QED BY <1>3, <2>1, <2>3, <2>4 DEF WaitingAt, Active, Retired
<1>11. RecoverableAt(h)'
  BY <1>4, <1>7 DEF OperationAt, RecoverableAt, Unsent
<1> QED BY <1>8, <1>9, <1>10, <1>11 DEF OperationAt

-----------------------------------------------------------------------------
(* Steps of a task, for its own generation.                                *)

\* Every step of processGeneration preserves the invariant of its generation.
LEMMA StepOperation ==
  ASSUME TypeInv, NEW h \in Hash, OperationAt(h), TaskStep(h)
  PROVE  OperationAt(h)'
<1> USE DEF TypeInv, dbVars, remoteVars
<1>1. CASE BeginRefused(h)
  BY <1>1, Frame, FinishEffect DEF BeginRefused, Untouched, StateLeft
<1>2. CASE Begin(h)
  <2>1. UNCHANGED <<operation, payload>>
    BY <1>2 DEF Begin
  <2>2. PICK row \in Generation, t \in Task :
           /\ row.replay = generation[h].replay
           /\ row.state \in Active
           /\ generation' = [generation EXCEPT ![h] = row]
           /\ task' = [task EXCEPT ![h] = t]
           /\ t.gen = row /\ t.op = operation[h][row.replay] /\ t.old = None
           /\ \/ t.pc = "reload" /\ t.op \in TerminalFailures
              \/ t.pc = "classify" /\ t.op \in Unsent \cup {"none"}
              \/ t.pc = "poll" /\ t.op \notin Unsent \cup TerminalFailures \cup {"none"}
    BY <1>2, BeginTask
  <2>3. generation'[h] = row /\ task'[h] = t
    BY <2>2 DEF TypeOK, DbTypeOK, WorkerTypeOK
  <2>4. operation[h][row.replay] \in OperationStatus \ Retired
    <3>1. generation[h].state \in {"queued", "failed"} \cup Active
      BY <1>2 DEF Begin, Claimable, Active
    <3>2. operation[h][generation[h].replay] \notin Retired
      BY <3>1 DEF OperationAt, WaitingAt, TerminalFailures, Retired
    <3> QED BY <2>2, <3>2, TaskTypes DEF TypeOK, DbTypeOK
  <2>5. RowAt(h)'
    BY <2>1, <2>2, <2>3, <2>4
       DEF RowAt, Persisted, OperationStatus, Unsent, TerminalFailures, Retired
  <2>6. IdentityAt(h)' /\ FilesAt(h)'
    BY <2>1, <2>2, <2>3 DEF IdentityAt, FilesAt, Persisted
  <2>7. WaitingAt(h)'
    BY <2>1, <2>2, <2>3, <2>4 DEF WaitingAt, Active
  <2>8. RecoverableAt(h)'
    BY <2>1 DEF OperationAt, RecoverableAt
  <2> QED BY <2>5, <2>6, <2>7, <2>8 DEF OperationAt
<1>2a. CASE Reload(h)
  <2>1. PICK t \in Task :
           /\ task' = [task EXCEPT ![h] = t]
           /\ t.pc = "classify" /\ t.op = "none"
           /\ t.gen.state = task[h].gen.state
           /\ operation[h][t.gen.replay] = "none"
           /\ t.old \in {None, task[h].gen.replay}
    BY <1>2a, ReloadTask
  <2>2. task'[h] = t /\ UNCHANGED <<operation, payload, generation>> /\ task[h].pc = "reload"
    BY <1>2a, <2>1 DEF Reload, TypeOK, WorkerTypeOK
  <2>3. /\ task[h].gen.state \in Active /\ task[h].gen.replay = generation[h].replay
        /\ operation[h][generation[h].replay] \in TerminalFailures
    BY <2>2 DEF OperationAt, RowAt, IdentityAt, Persisted
  <2>4. RowAt(h)' /\ IdentityAt(h)' /\ FilesAt(h)'
    BY <2>1, <2>2, <2>3 DEF RowAt, IdentityAt, FilesAt, Persisted, TerminalFailures, Retired
  <2>5. WaitingAt(h)' /\ RecoverableAt(h)'
    BY <2>2, <2>3 DEF OperationAt, WaitingAt, RecoverableAt, TerminalFailures
  <2> QED BY <2>4, <2>5 DEF OperationAt
<1>3. CASE PollCompleted(h)
  BY <1>3, AdvanceOperation DEF PollCompleted, OperationStatus, PC
<1>4. CASE PollFailed(h)
  BY <1>4, CatchTerminalOperation DEF PollFailed, TerminalFailures
<1>5. CASE PollTimeout(h)
  BY <1>5, CatchOperation DEF PollTimeout
<1>6. CASE PollNotFound(h)
  <2>1. CASE Goto(h, "classify") /\ task[h].pc = "poll" /\ UNCHANGED generation
    <3>1. task'[h].pc = "classify" /\ task'[h].gen = task[h].gen /\ task'[h].op = task[h].op
          /\ task'[h].old = task[h].old
      BY <2>1, GotoEffect DEF PC
    <3> QED BY <1>6, <2>1, <3>1 DEF PollNotFound, OperationAt, RowAt, IdentityAt, FilesAt, WaitingAt,
                 RecoverableAt, Persisted, TerminalFailures
  <2> QED BY <1>6, <2>1, CatchOperation DEF PollNotFound
<1>7. CASE ClassifyPrimary(h)
  <2>1. /\ task'[h].pc \in {"load", "preflight"} /\ task'[h].gen = task[h].gen
        /\ task'[h].op = task[h].op /\ task'[h].old = task[h].old
    BY <1>7, TaskTypes DEF ClassifyPrimary, TypeOK, WorkerTypeOK, Task
  <2> QED BY <1>7, <2>1 DEF ClassifyPrimary, OperationAt, RowAt, IdentityAt, FilesAt, WaitingAt,
               RecoverableAt, Persisted
<1>8. CASE ClassifyGone(h)
  BY <1>8, CatchOperation DEF ClassifyGone
<1>9. CASE ClassifyExcluded(h)
  BY <1>9, Frame, FinishEffect, ExcludeLeaves DEF ClassifyExcluded, Untouched
<1>10. CASE Load(h)
  <2>1. CASE generation' = SetGenerationState(h, "superseded") /\ Finish(h)
    BY <1>10, <2>1, Frame, FinishEffect, SetStateLeaves
       DEF Load, Untouched, GenerationState, Active
  <2>2. CASE task' = [task EXCEPT ![h].doc = source, ![h].pc = "preflight"]
             /\ UNCHANGED generation
    <3>1. /\ task'[h].pc = "preflight" /\ task'[h].gen = task[h].gen
          /\ task'[h].op = task[h].op /\ task'[h].old = task[h].old
      BY <2>2, TaskTypes DEF TypeOK, WorkerTypeOK, Task
    <3> QED BY <1>10, <2>2, <3>1 DEF Load, OperationAt, RowAt, IdentityAt, FilesAt, WaitingAt,
                 RecoverableAt, Persisted
  <2> QED BY <1>10, <2>1, <2>2, CatchOperation DEF Load
<1>11. CASE Preflight(h)
  <2> DEFINE next == CASE task[h].op = "none"     -> "save"
                       [] task[h].op = "prepared" -> "prepared"
                       [] OTHER                   -> "ready"
  <2>1. CASE Goto(h, next) /\ UNCHANGED generation
    <3>1. task'[h].pc = next /\ task'[h].gen = task[h].gen /\ task'[h].old = task[h].old
      BY <2>1, GotoEffect DEF PC
    <3>2. Persisted(h) = task[h].op /\ Persisted(h) \in OperationStatus
          /\ Persisted(h) \notin TerminalFailures \cup Retired
      BY <1>11, TaskTypes DEF Preflight, OperationAt, RowAt, Persisted, TypeOK, DbTypeOK
    <3>3. UNCHANGED <<operation, payload>> /\ task[h].pc = "preflight"
      BY <1>11 DEF Preflight
    <3>4. RowAt(h)'
      BY <3>1, <3>2, <3>3 DEF RowAt, Persisted, OperationStatus, Unsent, TerminalFailures, Retired
    <3> QED BY <2>1, <3>1, <3>2, <3>3, <3>4
            DEF OperationAt, IdentityAt, FilesAt, WaitingAt, RecoverableAt, Persisted,
                TerminalFailures
  <2> QED BY <1>11, <2>1, CatchOperation DEF Preflight
<1>12. CASE SavePayload(h)
  <2>1. /\ task'[h].pc = "record" /\ task'[h].gen = task[h].gen /\ task'[h].old = task[h].old
    BY <1>12, GotoEffect DEF SavePayload, PC
  <2>2. \A r \in Replay : payload'[h][r] = IF r = task[h].gen.replay THEN h ELSE payload[h][r]
    BY <1>12, TaskTypes DEF SavePayload, OwnContent, OwnTasks, Carrying, TypeOK, DbTypeOK
  <2> QED BY <1>12, <2>1, <2>2, TaskTypes
          DEF SavePayload, OperationAt, RowAt, IdentityAt, FilesAt, WaitingAt, RecoverableAt,
              Persisted
<1>13. CASE Record(h)
  <2>1. /\ task'[h].gen = task[h].gen /\ task'[h].old = task[h].old
        /\ task'[h].pc = IF task[h].old = None THEN "prepared" ELSE "swap"
    BY <1>13, TaskTypes DEF Record, TypeOK, WorkerTypeOK, Task
  <2>2. generation'[h] = task[h].gen
    BY <1>13 DEF Record, TypeOK, DbTypeOK
  <2>3. \A r \in Replay : operation'[h][r] = IF r = task[h].gen.replay THEN "prepared"
                                             ELSE operation[h][r]
    BY <1>13, SetOperationEffect DEF Record, OperationStatus, Unsent
  <2>4. UNCHANGED payload /\ task[h].pc = "record"
    BY <1>13 DEF Record
  <2>5. RowAt(h)'
    BY <2>1, <2>3, TaskTypes DEF RowAt, Persisted
  <2>6. task[h].gen.state \in Active
    BY <2>4 DEF OperationAt, IdentityAt
  <2>7. IdentityAt(h)' /\ WaitingAt(h)'
    BY <2>1, <2>2, <2>3, <2>6, TaskTypes DEF IdentityAt, WaitingAt, Active, Retired
  <2>8. operation[h][task[h].gen.replay] = "none" /\ payload[h][task[h].gen.replay] = h
    BY <2>4 DEF OperationAt, RowAt, FilesAt, Persisted
  <2>9. FilesAt(h)'
    <3>1. task[h].old # None => task[h].old \in Replay
      BY TaskTypes DEF Task
    <3> QED BY <2>1, <2>3, <2>4, <2>8, <3>1 DEF OperationAt, FilesAt, TerminalFailures
  <2>10. RecoverableAt(h)'
    BY <2>3, <2>4, <2>8 DEF OperationAt, RecoverableAt
  <2> QED BY <2>5, <2>7, <2>9, <2>10 DEF OperationAt
<1>14. CASE Swap(h)
  <2>1. /\ task'[h].pc = "prepared" /\ task'[h].gen = task[h].gen
    BY <1>14, GotoEffect DEF Swap, PC
  <2>2. \A r \in Replay : payload'[h][r] = payload[h][r] \/ r = task[h].old
    BY <1>14 DEF Swap, CleanupPayload, TypeOK, DbTypeOK
  <2>3. operation[h][task[h].old] \in TerminalFailures
    BY <1>14 DEF Swap, OperationAt, FilesAt
  <2>4. RecoverableAt(h)'
    BY <1>14, <2>2, <2>3 DEF Swap, OperationAt, RecoverableAt, TerminalFailures, Unsent
  <2> QED BY <1>14, <2>1, <2>4
          DEF Swap, OperationAt, RowAt, IdentityAt, FilesAt, WaitingAt, Persisted
<1>15. CASE Inspect(h)
  <2>1. CASE Goto(h, IF document = None THEN "erase" ELSE "inspect") /\ UNCHANGED generation
    <3>1. task'[h].pc \in {"erase", "inspect"} /\ task'[h].gen = task[h].gen
      BY <2>1, GotoEffect DEF PC
    <3> QED BY <1>15, <2>1, <3>1 DEF Inspect, OperationAt, RowAt, IdentityAt, FilesAt, WaitingAt,
                 RecoverableAt, Persisted
  <2> QED BY <1>15, <2>1, CatchOperation DEF Inspect
<1>16. CASE Erase(h)
  <2>1. task'[h].pc = "erase" /\ task'[h].gen = task[h].gen
    BY <1>16, GotoEffect DEF Erase, PC
  <2> QED BY <1>16, <2>1 DEF Erase, OperationAt, RowAt, IdentityAt, FilesAt, WaitingAt,
               RecoverableAt, Persisted
<1>17. CASE MarkReady(h)
  BY <1>17, AdvanceOperation DEF MarkReady, OperationStatus, Unsent, PC
<1>18. CASE Submit(h)
  BY <1>18, AdvanceOperation DEF Submit, OperationStatus, PC
<1>19. CASE PostAccepted(h)
  <2>1. task'[h].pc = "posted" /\ task'[h].gen = task[h].gen
    BY <1>19, GotoEffect DEF PostAccepted, PC
  <2> QED BY <1>19, <2>1 DEF PostAccepted, OperationAt, RowAt, IdentityAt, FilesAt, WaitingAt,
               RecoverableAt, Persisted
<1>20. CASE MarkPending(h)
  BY <1>20, AdvanceOperation DEF MarkPending, OperationStatus, PC
<1>21. CASE Cleanup(h)
  <2>1. task'[h].pc = "idle"
    BY <1>21, FinishEffect DEF Cleanup
  <2>2. \A r \in Replay : payload'[h][r] = payload[h][r] \/ r = task[h].gen.replay
    BY <1>21 DEF Cleanup, CleanupPayload, TypeOK, DbTypeOK
  <2>3. operation[h][task[h].gen.replay] = "completed"
    BY <1>21 DEF Cleanup, OperationAt, RowAt, Persisted
  <2>4. RecoverableAt(h)'
    BY <1>21, <2>2, <2>3 DEF Cleanup, OperationAt, RecoverableAt, Unsent
  <2> QED BY <1>21, <2>1, <2>4
          DEF Cleanup, OperationAt, RowAt, IdentityAt, FilesAt, WaitingAt
<1> QED
  BY <1>1, <1>2, <1>2a, <1>3, <1>4, <1>5, <1>6, <1>7, <1>8, <1>9, <1>10, <1>11, <1>12, <1>13, <1>14,
     <1>15, <1>16, <1>17, <1>18, <1>19, <1>20, <1>21 DEF TaskStep

\* No step of a task touches another generation, but to exclude it.
LEMMA StepOthers ==
  ASSUME TypeInv, NEW h \in Hash, NEW g \in Hash \ {h}, TaskStep(h)
  PROVE  Untouched(g)
<1> USE DEF TypeInv, dbVars
<1>1. CASE BeginRefused(h)
  BY <1>1, FinishEffect DEF BeginRefused, Untouched, StateLeft
<1>2. CASE Begin(h)
  BY <1>2, BeginTask DEF Begin, Untouched, StateLeft, TypeOK, DbTypeOK, WorkerTypeOK
<1>2a. CASE Reload(h)
  BY <1>2a, ReloadTask DEF Reload, Untouched, StateLeft, TypeOK, WorkerTypeOK
<1>3. CASE ClassifyPrimary(h) \/ Record(h)
  BY <1>3, SetOperationEffect DEF ClassifyPrimary, Record, Untouched, StateLeft, OperationStatus,
       Unsent, TypeOK, DbTypeOK, WorkerTypeOK
<1>4. CASE ClassifyExcluded(h)
  BY <1>4, FinishEffect, ExcludeLeaves DEF ClassifyExcluded, Untouched
<1>5. CASE PollCompleted(h) \/ MarkReady(h) \/ Submit(h) \/ MarkPending(h)
  <2>1. \E s \in OperationStatus : SetOperation(h, s)
    BY <1>5 DEF PollCompleted, MarkReady, Submit, MarkPending, OperationStatus, Unsent
  <2>2. \E pc \in PC : Goto(h, pc)
    BY <1>5 DEF PollCompleted, MarkReady, Submit, MarkPending, PC
  <2>3. generation' \in {generation, SetGenerationState(h, "submitted"),
                         SetGenerationState(h, "completed")}
        /\ UNCHANGED payload
    BY <1>5 DEF PollCompleted, MarkReady, Submit, MarkPending
  <2>4. StateLeft(g)
    BY <2>3, SetStateLeaves DEF StateLeft, GenerationState, Active
  <2> QED BY <2>1, <2>2, <2>3, <2>4, SetOperationEffect, GotoEffect DEF Untouched
<1>6. CASE PollFailed(h)
  <2>1. StateLeft(g)
    BY <1>6, SetStateLeaves DEF PollFailed, CatchTerminal, GenerationState
  <2> QED BY <1>6, <2>1, SetOperationEffect, FinishEffect
          DEF PollFailed, CatchTerminal, Untouched, OperationStatus, TerminalFailures
<1>7. CASE PollTimeout(h) \/ PollNotFound(h) \/ ClassifyGone(h) \/ Load(h) \/ Preflight(h)
           \/ Inspect(h) \/ Erase(h) \/ PostAccepted(h)
  <2>1. UNCHANGED <<operation, payload>>
    BY <1>7 DEF PollTimeout, PollNotFound, ClassifyGone, Load, Preflight, Inspect, Erase,
                PostAccepted
  <2>2. \A f \in Hash \ {h} : task'[f] = task[f]
    BY <1>7, FinishEffect, GotoEffect
       DEF PollTimeout, PollNotFound, ClassifyGone, Load, Preflight, Inspect, Erase,
           PostAccepted, Catch, PC, TypeOK, WorkerTypeOK
  <2>3. \/ UNCHANGED generation
        \/ \E s \in GenerationState : generation' = SetGenerationState(h, s)
    BY <1>7
       DEF PollTimeout, PollNotFound, ClassifyGone, Load, Preflight, Inspect, Erase,
           PostAccepted, Catch, GenerationState, Active
  <2>4. StateLeft(g)
    BY <2>3, SetStateLeaves DEF StateLeft
  <2> QED BY <2>1, <2>2, <2>4 DEF Untouched
<1>8. CASE SavePayload(h) \/ Swap(h) \/ Cleanup(h)
  <2>1. \A f \in Hash \ {h} : task'[f] = task[f]
    BY <1>8, FinishEffect, GotoEffect DEF SavePayload, Swap, Cleanup, PC
  <2>2. payload'[g] = payload[g]
    BY <1>8 DEF SavePayload, Swap, Cleanup, CleanupPayload, TypeOK, DbTypeOK
  <2> QED BY <1>8, <2>1, <2>2 DEF SavePayload, Swap, Cleanup, Untouched, StateLeft
<1> QED
  BY <1>1, <1>2, <1>2a, <1>3, <1>4, <1>5, <1>6, <1>7, <1>8 DEF TaskStep

\* Faults of a task, and the crash in the middle of an exclusion.
LEMMA FaultOperation ==
  ASSUME TypeInv, OperationInv, NEW h \in Hash, WorkerFault(h), NEW g \in Hash
  PROVE  OperationAt(g)'
<1> USE DEF TypeInv, dbVars
<1>1. OperationAt(g)
  BY DEF OperationInv
<1>2. CASE PostAttemptLost(h)
  BY <1>1, <1>2, Frame DEF PostAttemptLost, Untouched, StateLeft
<1>3. CASE PostRejected(h)
  <2>1. CASE g = h
    BY <1>1, <1>3, <2>1, CatchTerminalOperation DEF PostRejected, TerminalFailures
  <2>2. CASE g # h
    <3>1. StateLeft(g)
      BY <1>3, <2>2, SetStateLeaves DEF PostRejected, CatchTerminal, GenerationState
    <3> QED BY <1>1, <1>3, <2>2, <3>1, Frame, SetOperationEffect, FinishEffect
            DEF PostRejected, CatchTerminal, Untouched, OperationStatus, TerminalFailures
  <2> QED BY <2>1, <2>2
<1>4. CASE TaskError(h)
  <2>1. CASE g = h
    BY <1>1, <1>4, <2>1, CatchOperation DEF TaskError, Awaiting
  <2>2. CASE g # h
    <3>1. StateLeft(g)
      BY <1>4, <2>2, SetStateLeaves DEF TaskError, Catch, GenerationState, Active
    <3> QED BY <1>1, <1>4, <2>2, <3>1, Frame, FinishEffect DEF TaskError, Catch, Untouched
  <2> QED BY <2>1, <2>2
<1>5. CASE CrashInExclusion(h)
  <2>1. task'[g].pc = "idle"
    BY <1>5 DEF CrashInExclusion, NoTask
  <2> QED BY <1>1, <1>5, <2>1, Frame, ExcludeLeaves DEF CrashInExclusion, Untouched
<1> QED BY <1>2, <1>3, <1>4, <1>5 DEF WorkerFault, TaskFault

-----------------------------------------------------------------------------
(* Scans, the process and the environment.                                 *)

\* Scans, crashes, the operator and the bank preserve what is true of each
\* generation: only a scan writes a new identity, and it is a fresh one.
LEMMA OtherOperation ==
  ASSUME TypeInv, OperationInv, Next, NEW g \in Hash,
         ~\E h \in Hash : TaskStep(h) \/ WorkerFault(h)
  PROVE  OperationAt(g)'
<1> USE DEF TypeInv, dbVars, workerVars, localVars
<1>1. OperationAt(g)
  BY DEF OperationInv
<1>2. CASE UNCHANGED <<operation, payload, task, generation>>
  BY <1>1, <1>2, Frame DEF Untouched, StateLeft
<1>3. CASE Environment \/ \E h \in Hash, r \in Replay : Work(h, r)
  BY <1>2, <1>3 DEF Environment, Edit, Reclassify, CompleteHeader, Transit, Deliver, Drop, BankFault, RemoteFail,
                    Prune, Work, RemoteStart, RemoteComplete
<1>4. CASE ScanMissing \/ ScanUnchanged \/ ScanEmpty
  BY <1>2, <1>4 DEF ScanMissing, ScanUnchanged, ScanEmpty
<1>5. ASSUME NEW torn \in BOOLEAN, ScanExcluded(torn)
      PROVE  OperationAt(g)'
  <2>1. StateLeft(g)
    BY <1>5, MovedLeaves DEF ScanExcluded, MarkSessionGenerationsCleanupPending, StateLeft
  <2> QED BY <1>1, <1>5, <2>1, Frame DEF ScanExcluded, Untouched
<1>6. CASE ScanTorn
  <2>1. StateLeft(g)
    BY <1>6, MovedLeaves DEF ScanTorn, SupersedeOlder, StateLeft
  <2> QED BY <1>1, <1>6, <2>1, Frame DEF ScanTorn, Untouched
<1>7. CASE ScanLoaded
  <2>1. CASE generation' = SupersedeOlder(source)
    <3>1. StateLeft(g)
      BY <2>1, MovedLeaves DEF SupersedeOlder
    <3> QED BY <1>1, <1>7, <3>1, Frame DEF ScanLoaded, Untouched
  <2>2. ASSUME NEW r \in Replay, NextOperationId(source, Previous(source), r), source \in Hash,
               generation' = [SupersedeOlder(source) EXCEPT ![source] = Queued(source, r)]
        PROVE  OperationAt(g)'
    <3>1. UNCHANGED <<operation, payload, task>>
      BY <1>7 DEF ScanLoaded
    <3>2. CASE g # source
      <4>1. generation'[g] = SupersedeOlder(source)[g]
        BY <2>2, <3>2 DEF SupersedeOlder, Moved
      <4>2. StateLeft(g)
        BY <4>1, TaskTypes DEF SupersedeOlder, Moved, StateLeft, Generation, Active
      <4> QED BY <1>1, <3>1, <4>2, Frame DEF Untouched
    <3>3. CASE g = source
      <4>1. generation'[g] = Queued(g, r)
        BY <2>2, <3>3 DEF SupersedeOlder, Moved
      <4>2. operation[g][r] = "none" /\ task[g].pc = "idle"
        BY <1>7, <2>2, <3>3 DEF NextOperationId, OperationInv, TasksInBatch, ScanLoaded, CanScan
      <4> QED BY <1>1, <3>1, <4>1, <4>2
              DEF OperationAt, RowAt, IdentityAt, FilesAt, WaitingAt, RecoverableAt, Queued,
                  Active
    <3> QED BY <3>2, <3>3
  <2> QED BY <1>7, <2>1, <2>2 DEF ScanLoaded
<1>8. CASE Startup
  <2>1. RecoverableAt(g)'
    BY <1>1, <1>8 DEF Startup, OperationAt, RecoverableAt, Unsent
  <2>2. task[g].pc = "idle"
    BY <1>8 DEF OperationInv, TasksInBatch, Startup
  <2> QED BY <1>1, <1>8, <2>1, <2>2
          DEF Startup, OperationAt, RowAt, IdentityAt, FilesAt, WaitingAt
<1>9. CASE StartBatch
  <2>1. UNCHANGED <<generation, operation, payload>> /\ task'[g].pc \in {"idle", "waiting"}
    <3>1. PICK H \in SUBSET Hash, repair \in BOOLEAN : RunOnce(H, repair)
      BY <1>9 DEF StartBatch
    <3> QED BY <3>1 DEF RunOnce, NoTask
  <2> QED BY <1>1, <2>1, Frame DEF Untouched, StateLeft
<1>10. CASE BatchDone
  BY <1>2, <1>10 DEF BatchDone
<1>11. CASE Crash
  BY <1>1, <1>11, Frame DEF Crash, Untouched, StateLeft, NoTask
<1>12. CASE RetryFailed
  <2>1. /\ generation'[g].replay = generation[g].replay
        /\ \/ generation'[g].state = generation[g].state
           \/ /\ generation[g].state = "failed"
              /\ generation'[g].state = "queued"
    <3>1. generation[g] \in Generation
      BY TaskTypes
    <3>2. \/ generation'[g] = generation[g]
          \/ /\ generation[g].state = "failed"
             /\ generation'[g] = [generation[g] EXCEPT !.state = "queued", !.attempts = 0]
      BY <1>12 DEF RetryFailed, ResetFailed
    <3>3. ASSUME NEW row \in Generation
          PROVE  /\ [row EXCEPT !.state = "queued", !.attempts = 0].state = "queued"
                 /\ [row EXCEPT !.state = "queued", !.attempts = 0].replay = row.replay
      BY DEF Generation
    <3> QED BY <3>1, <3>2, <3>3
  <2> QED BY <1>1, <1>12, <2>1, Frame DEF RetryFailed, Untouched, StateLeft, Active
<1>13. CASE CancelQueuedWork
  <2>1. StateLeft(g)
    BY <1>13, MovedLeaves DEF CancelQueuedWork, CancelQueued
  <2> QED BY <1>1, <1>13, <2>1, Frame DEF CancelQueuedWork, Untouched
<1> QED
  BY <1>3, <1>4, <1>5, <1>6, <1>7, <1>8, <1>9, <1>10, <1>11, <1>12, <1>13
     DEF Next, WorkerStep, Scan, ScanFault

\* A batch owns the tasks: they start with it and are gone when it is over.
LEMMA BatchTasks ==
  ASSUME TypeInv, TasksInBatch, [Next]_vars
  PROVE  TasksInBatch'
<1> USE DEF TypeInv, dbVars, workerVars, localVars
<1>1. CASE UNCHANGED <<phase, task>>
  BY <1>1 DEF TasksInBatch
<1>2. ASSUME NEW h \in Hash, WorkerStep(h)
      PROVE  TasksInBatch'
  <2>1. task[h].pc # "idle"
    BY <1>2 DEF WorkerStep, TaskStep, BeginRefused, Begin, Reload, Starts, PollCompleted,
                PollFailed, PollTimeout, PollNotFound, ClassifyPrimary, ClassifyGone, ClassifyExcluded,
                Exclude, Load, Preflight, SavePayload, Record, Swap, Inspect, Erase, MarkReady, Submit,
                PostAccepted, MarkPending, Cleanup
  <2> QED BY <1>2, <2>1 DEF WorkerStep, TasksInBatch
<1>3. ASSUME NEW h \in Hash, WorkerFault(h)
      PROVE  TasksInBatch'
  <2>1. CASE CrashInExclusion(h)
    BY <2>1 DEF CrashInExclusion, TasksInBatch, NoTask
  <2>2. CASE TaskFault(h) /\ UNCHANGED <<phase, edits>>
    <3>1. task[h].pc # "idle"
      BY <2>2 DEF TaskFault, PostAttemptLost, PostRejected, TaskError, Awaiting
    <3> QED BY <2>2, <3>1 DEF TasksInBatch
  <2> QED BY <1>3, <2>1, <2>2 DEF WorkerFault
<1>4. CASE Environment \/ \E h \in Hash, r \in Replay : Work(h, r)
  BY <1>1, <1>4 DEF Environment, Edit, Reclassify, CompleteHeader, Transit, BankFault, Work
<1>5. CASE Scan \/ ScanFault
  BY <1>5 DEF Scan, ScanFault, ScanMissing, ScanExcluded, ScanUnchanged, ScanEmpty, ScanLoaded,
              ScanTorn, CanScan, TasksInBatch
<1>6. CASE StartBatch
  BY <1>6 DEF StartBatch, RunOnce, TasksInBatch
<1>7. CASE BatchDone
  BY <1>7 DEF BatchDone, TasksInBatch
<1>8. CASE Startup \/ RetryFailed \/ CancelQueuedWork
  BY <1>8 DEF Startup, RetryFailed, CancelQueuedWork, TasksInBatch
<1>9. CASE Crash
  BY <1>9 DEF Crash, TasksInBatch, NoTask
<1> QED BY <1>1, <1>2, <1>3, <1>4, <1>5, <1>6, <1>7, <1>8, <1>9 DEF Next, vars

-----------------------------------------------------------------------------
(* The induction and what follows from it.                                 *)

\* In a new database there is nothing to be wrong, and in one from an older
\* policy the one operation is completed.
LEMMA InitOperations ==
  ASSUME Init
  PROVE  OperationInv
<1>1. ASSUME NEW h \in Hash
      PROVE  OperationAt(h)
  <2>1. task[h].pc = "idle"
    BY DEF Init, NoTask
  <2>2. \A r \in Replay : operation[h][r] \in {"none", "completed"}
    BY DEF Init, Fresh, Legacy
  <2>3. generation[h].state \in {"none", "completed"}
    <3>1. CASE Fresh
      BY <3>1 DEF Fresh, NoGeneration
    <3>2. ASSUME NEW g \in Hash, Legacy(g)
          PROVE  generation[h].state \in {"none", "completed"}
      <4>1. CASE h = g
        BY <3>2, <4>1 DEF Legacy, NoGeneration
      <4>2. CASE h # g
        BY <3>2, <4>2 DEF Legacy, NoGeneration
      <4> QED BY <4>1, <4>2
    <3> QED BY <3>1, <3>2 DEF Init
  <2> QED BY <2>1, <2>2, <2>3
          DEF OperationAt, RowAt, IdentityAt, FilesAt, WaitingAt, RecoverableAt, Active, Unsent
<1> QED BY <1>1 DEF OperationInv, TasksInBatch, Init, NoTask

\* Every step of the system preserves what is true of every generation.
LEMMA StepOperations ==
  ASSUME TypeInv, OperationInv, [Next]_vars
  PROVE  OperationInv'
<1>1. TasksInBatch'
  BY BatchTasks DEF OperationInv
<1>2. ASSUME NEW g \in Hash
      PROVE  OperationAt(g)'
  <2>1. OperationAt(g)
    BY DEF OperationInv
  <2>2. CASE UNCHANGED vars
    BY <2>1, <2>2, Frame DEF vars, dbVars, workerVars, Untouched, StateLeft
  <2>3. ASSUME NEW h \in Hash, TaskStep(h)
        PROVE  OperationAt(g)'
    BY <2>1, <2>3, StepOperation, StepOthers, Frame
  <2>4. ASSUME NEW h \in Hash, WorkerFault(h)
        PROVE  OperationAt(g)'
    BY <2>4, FaultOperation
  <2> QED BY <2>2, <2>3, <2>4, OtherOperation
<1> QED BY <1>1, <1>2 DEF OperationInv

\* The inductive invariant holds.
THEOREM OperationsAreSound == Spec => [](TypeInv /\ OperationInv)
BY InitTypes, StepTypes, InitOperations, StepOperations, PTL DEF Spec

\* Content of an operation that may have to be sent again is on disk.
THEOREM PayloadsAreRecoverable == Spec => []Recoverable
<1>1. OperationInv => Recoverable
  BY DEF OperationInv, OperationAt, RecoverableAt, Recoverable
<1> QED BY <1>1, OperationsAreSound, PTL

-----------------------------------------------------------------------------
(* Action properties.                                                      *)

\* An operation row is written by the task that works on it, and by no task
\* once it says that the operation has failed.
LEMMA OperationWrites ==
  ASSUME TypeInv, OperationInv, Next
  PROVE  \/ UNCHANGED operation
         \/ \E h \in Hash, s \in OperationStatus :
              SetOperation(h, s) /\ Persisted(h) \notin TerminalFailures
<1> USE DEF TypeInv, dbVars, workerVars, localVars
<1>1. ASSUME NEW h \in Hash, TaskStep(h)
      PROVE  \/ UNCHANGED operation
             \/ \E s \in OperationStatus :
                  SetOperation(h, s) /\ Persisted(h) \notin TerminalFailures
  <2>1. RowAt(h)
    BY DEF OperationInv, OperationAt
  <2>2. CASE BeginRefused(h) \/ Begin(h) \/ Reload(h) \/ PollTimeout(h) \/ PollNotFound(h)
             \/ ClassifyPrimary(h) \/ ClassifyGone(h) \/ ClassifyExcluded(h) \/ Load(h)
             \/ Preflight(h) \/ SavePayload(h) \/ Swap(h) \/ Inspect(h) \/ Erase(h)
             \/ PostAccepted(h) \/ Cleanup(h)
    BY <2>2 DEF BeginRefused, Begin, Reload, PollTimeout, PollNotFound, ClassifyPrimary, ClassifyGone,
                ClassifyExcluded, Exclude, Load, Preflight, SavePayload, Swap, Inspect, Erase,
                PostAccepted, Cleanup
  <2>3. CASE PollCompleted(h) \/ PollFailed(h)
    BY <2>1, <2>3 DEF PollCompleted, PollFailed, CatchTerminal, RowAt, TerminalFailures,
                      OperationStatus
  <2>4. CASE Record(h) \/ MarkReady(h)
    BY <2>1, <2>4 DEF Record, MarkReady, RowAt, TerminalFailures, OperationStatus, Unsent
  <2>5. CASE Submit(h) \/ MarkPending(h)
    BY <2>1, <2>5 DEF Submit, MarkPending, RowAt, TerminalFailures, OperationStatus
  <2> QED BY <1>1, <2>2, <2>3, <2>4, <2>5 DEF TaskStep
<1>2. ASSUME NEW h \in Hash, WorkerFault(h)
      PROVE  \/ UNCHANGED operation
             \/ \E s \in OperationStatus :
                  SetOperation(h, s) /\ Persisted(h) \notin TerminalFailures
  <2>1. RowAt(h)
    BY DEF OperationInv, OperationAt
  <2> QED BY <1>2, <2>1 DEF WorkerFault, TaskFault, PostAttemptLost, PostRejected, TaskError,
               CrashInExclusion, Exclude, CatchTerminal, RowAt, TerminalFailures, OperationStatus
<1>3. ASSUME ~\E h \in Hash : TaskStep(h) \/ WorkerFault(h)
      PROVE  UNCHANGED operation
  BY <1>3 DEF Next, WorkerStep, Environment, Edit, Reclassify, CompleteHeader, Transit, BankFault, Work,
              StartBatch, RunOnce, BatchDone, Scan, ScanMissing, ScanExcluded, ScanUnchanged,
              ScanEmpty, ScanLoaded, ScanFault, ScanTorn, Startup, Crash, RetryFailed,
              CancelQueuedWork
<1> QED BY <1>1, <1>2, <1>3

\* A failed identity is never used again.
THEOREM FailuresAreFinal == Spec => FailedIsFinal
<1>1. ASSUME TypeInv, OperationInv, [Next]_vars
      PROVE  [\A h \in Hash, r \in Replay :
                operation[h][r] \in TerminalFailures => operation'[h][r] = operation[h][r]]_vars
  <2>1. CASE Next
    BY <1>1, <2>1, OperationWrites, SetOperationEffect DEF TypeInv, Persisted
  <2> QED BY <1>1, <2>1
<1> QED BY <1>1, OperationsAreSound, PTL DEF Spec, FailedIsFinal

\* The acknowledged hash moves only in the step that completes an operation.
LEMMA AcknowledgedHashMoves ==
  ASSUME TypeInv, Next, session'.ack # session.ack
  PROVE  \E h \in Hash : PollCompleted(h)
<1> USE DEF TypeInv, dbVars, workerVars, localVars
<1>1. session \in Session
  BY DEF TypeOK, DbTypeOK
<1>2. ASSUME NEW h \in Hash, TaskStep(h), ~PollCompleted(h)
      PROVE  session'.ack = session.ack
  BY <1>1, <1>2
     DEF TaskStep, BeginRefused, Begin, Reload, PollFailed, PollTimeout, PollNotFound,
         ClassifyPrimary, ClassifyGone, ClassifyExcluded, Exclude, Load, Preflight, SavePayload,
         Record, Swap, Inspect, Erase, MarkReady, Submit, PostAccepted, MarkPending, Cleanup,
         SetSessionClassification, Session
<1>3. ASSUME NEW h \in Hash, WorkerFault(h)
      PROVE  session'.ack = session.ack
  BY <1>1, <1>3 DEF WorkerFault, TaskFault, PostAttemptLost, PostRejected, TaskError,
                    CrashInExclusion, Exclude, SetSessionClassification, Session
<1>4. CASE Scan \/ ScanFault
  <2>1. \/ UNCHANGED session
        \/ \E s \in SessionStatus : session' = [session EXCEPT !.status = s] \/ session' = Scanned(s)
        \/ \E k, s : session' = SetSessionClassification(k, s)
    BY <1>4 DEF Scan, ScanFault, ScanMissing, ScanExcluded, ScanUnchanged, ScanEmpty, ScanLoaded,
                ScanTorn, SessionStatus, Protected
  <2> QED BY <1>1, <2>1 DEF Scanned, SetSessionClassification, Session
<1>5. ASSUME ~(Scan \/ ScanFault), ~\E h \in Hash : TaskStep(h) \/ WorkerFault(h)
      PROVE  UNCHANGED session
  BY <1>5 DEF Next, WorkerStep, Environment, Edit, Reclassify, CompleteHeader, Transit, BankFault, Work,
              StartBatch, RunOnce, BatchDone, Startup, Crash, RetryFailed, CancelQueuedWork
<1> QED BY <1>2, <1>3, <1>4, <1>5

\* The acknowledged hash moves only to content that the bank reports as
\* retained, with the operation row that records it.
THEOREM AcknowledgementsAreBacked == Spec => AcknowledgedOnCompletion
<1>1. ASSUME TypeInv, OperationInv, [Next]_vars
      PROVE  [session'.ack # session.ack =>
                \E r \in Replay : /\ remote[session'.ack][r] = "completed"
                                  /\ operation'[session'.ack][r] = "completed"
                                  /\ operation[session'.ack][r] # "completed"]_vars
  <2>1. ASSUME Next, session'.ack # session.ack
        PROVE  \E r \in Replay : /\ remote[session'.ack][r] = "completed"
                                 /\ operation'[session'.ack][r] = "completed"
                                 /\ operation[session'.ack][r] # "completed"
    <3>1. PICK h \in Hash : PollCompleted(h)
      BY <1>1, <2>1, AcknowledgedHashMoves
    <3>2. session'.ack = h
      BY <1>1, <3>1 DEF PollCompleted, Acknowledge, TypeInv, TypeOK, DbTypeOK, Session
    <3>3. remote[h][task[h].gen.replay] = "completed" /\ Persisted(h) # "completed"
      BY <1>1, <3>1 DEF PollCompleted, Polled, OperationInv, OperationAt, RowAt
    <3>4. operation'[h][task[h].gen.replay] = "completed"
      BY <1>1, <3>1, SetOperationEffect, TaskTypes DEF PollCompleted, TypeInv, OperationStatus
    <3> QED BY <1>1, <3>2, <3>3, <3>4, TaskTypes DEF Persisted, TypeInv
  <2> QED BY <1>1, <2>1
<1> QED BY <1>1, OperationsAreSound, PTL DEF Spec, AcknowledgedOnCompletion

-----------------------------------------------------------------------------
(* Ownership: one generation of a session at a time.  A running task holds *)
(* the only active one, however claims, faults, scans and commands         *)
(* interleave.                                                             *)

\* A task that has started and has not yet recorded its completion.
Engaged(h) == task[h].pc \notin {"idle", "waiting", "cleanup"}

\* Ending a task, on whatever ground.
LEMMA EndedStep ==
  ASSUME TypeOK, NEW h \in Hash, Finish(h) \/ Catch(h)
  PROVE  ~Engaged(h)'
BY FinishEffect DEF Catch, Engaged

\* A step of a task that goes on, short of its claim, keeps what the claim
\* checked.
LEMMA EngagedStep ==
  ASSUME TypeInv, NEW h \in Hash, OperationAt(h), TaskStep(h), ~Begin(h), Engaged(h)'
  PROVE  /\ Engaged(h)
         /\ UNCHANGED session
         /\ \A g \in Hash \ {h} : generation'[g] = generation[g]
         /\ generation'[h].state \in Active \/ UNCHANGED generation
<1> USE DEF TypeInv, dbVars
<1>1. CASE BeginRefused(h) \/ PollFailed(h) \/ PollTimeout(h) \/ ClassifyGone(h)
           \/ ClassifyExcluded(h) \/ Cleanup(h)
  BY <1>1, EndedStep, FinishEffect
     DEF BeginRefused, PollFailed, CatchTerminal, PollTimeout, ClassifyGone, ClassifyExcluded,
         Cleanup, Engaged
<1>2. CASE PollCompleted(h)
  BY <1>2, GotoEffect DEF PollCompleted, PC, Engaged
<1>3. CASE PollNotFound(h) \/ ClassifyPrimary(h) \/ Load(h) \/ Preflight(h) \/ SavePayload(h)
           \/ Swap(h) \/ Inspect(h) \/ Erase(h) \/ MarkReady(h) \/ PostAccepted(h)
           \/ MarkPending(h) \/ Reload(h)
  <2>1. Engaged(h) /\ UNCHANGED session
    BY <1>3 DEF Reload, PollNotFound, ClassifyPrimary, Load, Preflight, SavePayload, Swap, Inspect,
                Erase, MarkReady, PostAccepted, MarkPending, Engaged
  <2>2. UNCHANGED generation
    BY <1>3, EndedStep, FinishEffect
       DEF Reload, PollNotFound, ClassifyPrimary, Load, Preflight, SavePayload, Swap, Inspect,
           Erase, MarkReady, PostAccepted, MarkPending, Engaged
  <2> QED BY <2>1, <2>2
<1>4. CASE Record(h)
  <2>1. generation' = [generation EXCEPT ![h] = task[h].gen] /\ task[h].pc = "record"
        /\ UNCHANGED session
    BY <1>4 DEF Record
  <2>2. task[h].gen.state \in Active
    BY <2>1 DEF OperationAt, IdentityAt
  <2> QED BY <2>1, <2>2 DEF TypeOK, DbTypeOK, Engaged
<1>5. CASE Submit(h)
  BY <1>5, SetGenerationStateEffect DEF Submit, Engaged, GenerationState, Active
<1> QED BY <1>1, <1>2, <1>3, <1>4, <1>5 DEF TaskStep

\* While a task is engaged, the others are waiting, done, or removing a file.
LEMMA OnlyOneEngaged ==
  ASSUME OwnershipInv, NEW g \in Hash, NEW h \in Hash, Engaged(g), Engaged(h)
  PROVE  g = h
BY DEF OwnershipInv, OwnerAt, Engaged

\* Steps of another task that an engaged one can see.
LEMMA OtherTaskStep ==
  ASSUME TypeInv, OwnershipInv, NEW g \in Hash, NEW h \in Hash \ {g}, Engaged(g), TaskStep(h)
  PROVE  BeginRefused(h) \/ Cleanup(h)
<1>1. ~Engaged(h)
  BY OnlyOneEngaged
<1>2. ~Begin(h)
  <2>1. generation[g].state \in Active
    BY DEF OwnershipInv, OwnerAt, Engaged
  <2> QED BY <2>1 DEF Begin, Claimable, OtherActive
<1> QED BY <1>1, <1>2 DEF TaskStep, Reload, PollCompleted, PollFailed, PollTimeout, PollNotFound,
             ClassifyPrimary, ClassifyGone, ClassifyExcluded, Exclude, Load, Preflight,
             SavePayload, Record, Swap, Inspect, Erase, MarkReady, Submit, PostAccepted,
             MarkPending, Engaged

\* Steps of tasks keep what the claim of an engaged task checked.
LEMMA TaskOwnership ==
  ASSUME TypeInv, OperationInv, OwnershipInv, NEW h \in Hash, TaskStep(h), NEW g \in Hash
  PROVE  OwnerAt(g)'
<1> USE DEF TypeInv, dbVars
<1> SUFFICES ASSUME Engaged(g)'
             PROVE  OwnerAt(g)'
  BY DEF OwnerAt, Engaged
<1>1. CASE g = h /\ Begin(h)
  <2>1. Claimable(h, task[h].gen.replay) /\ UNCHANGED session
    BY <1>1 DEF Begin
  <2>2. \A f \in Hash \ {h} : generation[f].state \notin Active
    BY <2>1 DEF Claimable, OtherActive
  <2>3. PICK row \in Generation : row.state \in Active
                                  /\ generation' = [generation EXCEPT ![h] = row]
    BY <1>1, BeginTask
  <2> QED BY <1>1, <2>1, <2>2, <2>3 DEF OwnerAt, Claimable, TypeOK, DbTypeOK
<1>2. CASE g = h /\ ~Begin(h)
  <2>1. OperationAt(h) /\ OwnerAt(h)
    BY DEF OperationInv, OwnershipInv
  <2> QED BY <1>2, <2>1, EngagedStep DEF OwnerAt, Engaged
<1>3. CASE g # h
  <2>1. task'[g] = task[g]
    BY <1>3, StepOthers DEF Untouched, Engaged
  <2>2. Engaged(g) /\ OwnerAt(g)
    BY <2>1 DEF Engaged, OwnershipInv
  <2>3. UNCHANGED <<session, generation>>
    BY <1>3, <2>2, OtherTaskStep DEF BeginRefused, Cleanup
  <2> QED BY <2>1, <2>2, <2>3 DEF OwnerAt
<1> QED BY <1>1, <1>2, <1>3

\* Faults end a task, or lose a request and change nothing else.
LEMMA FaultOwnership ==
  ASSUME TypeInv, OwnershipInv, NEW h \in Hash, WorkerFault(h), NEW g \in Hash
  PROVE  OwnerAt(g)'
<1> USE DEF TypeInv, dbVars
<1> SUFFICES ASSUME Engaged(g)'
             PROVE  OwnerAt(g)'
  BY DEF OwnerAt, Engaged
<1>1. CASE PostAttemptLost(h)
  BY <1>1 DEF PostAttemptLost, OwnershipInv, OwnerAt
<1>2. CASE PostRejected(h) \/ TaskError(h)
  <2>1. Finish(h) /\ Engaged(h)
    BY <1>2 DEF PostRejected, CatchTerminal, TaskError, Catch, Awaiting, Engaged
  <2>2. g # h /\ task'[g] = task[g]
    BY <2>1, FinishEffect DEF Engaged
  <2> QED BY <2>1, <2>2, OnlyOneEngaged DEF Engaged
<1>3. CASE CrashInExclusion(h)
  BY <1>3 DEF CrashInExclusion, NoTask, Engaged
<1> QED BY <1>1, <1>2, <1>3 DEF WorkerFault, TaskFault

\* No other step happens under an engaged task but those of the source, the
\* network and the bank.
LEMMA OtherOwnership ==
  ASSUME TypeInv, OperationInv, OwnershipInv, Next, NEW g \in Hash,
         ~\E h \in Hash : TaskStep(h) \/ WorkerFault(h)
  PROVE  OwnerAt(g)'
<1> USE DEF TypeInv, dbVars, workerVars, localVars
<1> SUFFICES ASSUME Engaged(g)'
             PROVE  OwnerAt(g)'
  BY DEF OwnerAt, Engaged
<1>1. CASE Environment \/ \E h \in Hash, r \in Replay : Work(h, r)
  <2>1. UNCHANGED <<session, generation, task>>
    BY <1>1 DEF Environment, Edit, Reclassify, CompleteHeader, Transit, BankFault, Work
  <2> QED BY <2>1 DEF OwnershipInv, OwnerAt
<1>2. CASE Scan \/ ScanFault \/ Startup \/ RetryFailed \/ CancelQueuedWork
  <2>1. phase # "batch" /\ UNCHANGED task
    BY <1>2 DEF Scan, ScanFault, ScanMissing, ScanExcluded, ScanUnchanged, ScanEmpty, ScanLoaded,
                ScanTorn, CanScan, Startup, RetryFailed, CancelQueuedWork
  <2> QED BY <2>1 DEF OperationInv, TasksInBatch, Engaged
<1>3. CASE StartBatch \/ BatchDone \/ Crash
  <2>1. task'[g].pc \in {"idle", "waiting"}
    <3>1. CASE StartBatch
      <4>1. PICK H \in SUBSET Hash, repair \in BOOLEAN : RunOnce(H, repair)
        BY <3>1 DEF StartBatch
      <4> QED BY <4>1 DEF RunOnce, NoTask
    <3> QED BY <1>3, <3>1 DEF BatchDone, Crash, NoTask
  <2> QED BY <2>1 DEF Engaged
<1> QED BY <1>1, <1>2, <1>3 DEF Next, WorkerStep

\* A generation becomes active by a claim only.
LEMMA BecomesActive ==
  ASSUME TypeInv, OperationInv, OwnershipInv, Next, NEW g \in Hash,
         generation'[g].state \in Active, generation[g].state \notin Active
  PROVE  Begin(g)
<1> USE DEF TypeInv, dbVars, workerVars, localVars
<1>1. ~Engaged(g)
  BY DEF OwnershipInv, OwnerAt, Engaged
<1>2. ~StateLeft(g)
  BY DEF StateLeft
<1>3. ASSUME NEW h \in Hash, TaskStep(h)
      PROVE  Begin(g)
  <2>1. h = g
    BY <1>2, <1>3, StepOthers DEF Untouched
  <2>2. BeginRefused(g) \/ Begin(g) \/ Cleanup(g)
    BY <1>1, <1>3, <2>1
       DEF TaskStep, Reload, PollCompleted, PollFailed, PollTimeout, PollNotFound,
           ClassifyPrimary, ClassifyGone, ClassifyExcluded, Exclude, Load, Preflight,
           SavePayload, Record, Swap, Inspect, Erase, MarkReady, Submit, PostAccepted,
           MarkPending, Engaged
  <2> QED BY <2>2 DEF BeginRefused, Cleanup
<1>4. ASSUME NEW h \in Hash, WorkerFault(h)
      PROVE  FALSE
  <2>1. CASE PostAttemptLost(h)
    BY <2>1 DEF PostAttemptLost
  <2>2. CASE PostRejected(h) \/ TaskError(h)
    <3>1. Engaged(h)
      BY <2>2 DEF PostRejected, TaskError, Awaiting, Engaged
    <3>2. g # h
      BY <1>1, <3>1
    <3>3. StateLeft(g)
      BY <2>2, <3>2, SetStateLeaves
         DEF PostRejected, CatchTerminal, TaskError, Catch, GenerationState, Active
    <3> QED BY <1>2, <3>3
  <2>3. CASE CrashInExclusion(h)
    BY <1>2, <2>3, ExcludeLeaves DEF CrashInExclusion
  <2> QED BY <1>4, <2>1, <2>2, <2>3 DEF WorkerFault, TaskFault
<1>5. CASE Scan \/ ScanFault
  <2>1. CASE UNCHANGED generation
    BY <2>1
  <2>2. ASSUME NEW H, NEW from, NEW to \in {"superseded", "cleanup_pending"},
               generation' = Moved(H, from, to)
        PROVE  FALSE
    BY <1>2, <2>2, MovedLeaves
  <2>3. ASSUME NEW r \in Replay, source \in Hash,
               generation' = [SupersedeOlder(source) EXCEPT ![source] = Queued(source, r)]
        PROVE  FALSE
    <3>1. CASE g = source
      BY <2>3, <3>1 DEF SupersedeOlder, Moved, Queued, Active
    <3>2. CASE g # source
      <4>1. generation'[g] = SupersedeOlder(source)[g]
        BY <2>3, <3>2 DEF SupersedeOlder, Moved
      <4> QED BY <4>1, TaskTypes DEF SupersedeOlder, Moved, Generation, Active
    <3> QED BY <3>1, <3>2
  <2> QED BY <1>5, <2>1, <2>2, <2>3
          DEF Scan, ScanFault, ScanMissing, ScanExcluded, ScanUnchanged, ScanEmpty, ScanLoaded,
              ScanTorn, SupersedeOlder, MarkSessionGenerationsCleanupPending
<1>6. CASE RetryFailed
  BY <1>6, TaskTypes DEF RetryFailed, ResetFailed, Generation, Active
<1>7. CASE CancelQueuedWork
  BY <1>2, <1>7, MovedLeaves DEF CancelQueuedWork, CancelQueued
<1>8. CASE Environment \/ (\E h \in Hash, r \in Replay : Work(h, r)) \/ StartBatch \/ BatchDone
           \/ Startup \/ Crash
  BY <1>8 DEF Environment, Edit, Reclassify, CompleteHeader, Transit, BankFault, Work, StartBatch, RunOnce,
              BatchDone, Startup, Crash
<1> QED BY <1>3, <1>4, <1>5, <1>6, <1>7, <1>8 DEF Next, WorkerStep

\* Every step of the system preserves the ownership of the session.
LEMMA StepOwnership ==
  ASSUME TypeInv, OperationInv, OwnershipInv, [Next]_vars
  PROVE  OwnershipInv'
<1>1. CASE UNCHANGED vars
  BY <1>1 DEF vars, dbVars, workerVars, OwnershipInv, SingleActive, OwnerAt
<1>2. CASE Next
  <2>1. ASSUME NEW g \in Hash
        PROVE  OwnerAt(g)'
    <3>1. ASSUME NEW h \in Hash, TaskStep(h)
          PROVE  OwnerAt(g)'
      BY <3>1, TaskOwnership
    <3>2. ASSUME NEW h \in Hash, WorkerFault(h)
          PROVE  OwnerAt(g)'
      BY <3>2, FaultOwnership
    <3> QED BY <1>2, <3>1, <3>2, OtherOwnership
  <2>2. ASSUME NEW g \in Hash, NEW h \in Hash, g # h,
               generation'[g].state \in Active, generation'[h].state \in Active
        PROVE  FALSE
    <3>1. ASSUME NEW e \in Hash, NEW f \in Hash \ {e}, Begin(e)
          PROVE  generation'[f].state \notin Active
      <4>1. generation[f].state \notin Active
        BY <3>1 DEF Begin, Claimable, OtherActive
      <4>2. generation'[f] = generation[f]
        BY <3>1, BeginTask DEF TypeInv, TypeOK, DbTypeOK
      <4> QED BY <4>1, <4>2
    <3>2. generation[g].state \in Active /\ generation[h].state \in Active
      BY <1>2, <2>2, <3>1, BecomesActive
    <3> QED BY <2>2, <3>2 DEF OwnershipInv, SingleActive
  <2> QED BY <2>1, <2>2 DEF OwnershipInv, SingleActive
<1> QED BY <1>1, <1>2

\* No task runs and no generation is active to begin with.
LEMMA InitOwnership ==
  ASSUME Init
  PROVE  OwnershipInv
<1>1. \A h \in Hash : task[h].pc = "idle"
  BY DEF Init, NoTask
<1>2. ASSUME NEW h \in Hash
      PROVE  generation[h].state \notin Active
  <2>1. CASE Fresh
    BY <2>1 DEF Fresh, NoGeneration, Active
  <2>2. ASSUME NEW g \in Hash, Legacy(g)
        PROVE  generation[h].state \notin Active
    <3>1. CASE h = g
      BY <2>2, <3>1 DEF Legacy, NoGeneration, Active
    <3>2. CASE h # g
      BY <2>2, <3>2 DEF Legacy, NoGeneration, Active
    <3> QED BY <3>1, <3>2
  <2> QED BY <2>1, <2>2 DEF Init
<1> QED BY <1>1, <1>2 DEF OwnershipInv, SingleActive, OwnerAt

\* The inductive invariant holds.
THEOREM OwnershipIsSound == Spec => [](TypeInv /\ OperationInv /\ OwnershipInv)
BY InitTypes, StepTypes, InitOperations, StepOperations, InitOwnership, StepOwnership,
   PTL DEF Spec

\* A running task holds the only active generation of a primary session, and
\* sends what its generation row names.
THEOREM TasksOwnGenerations == Spec => []TaskOwnsGeneration
<1>1. ASSUME TypeInv, OperationInv, OwnershipInv
      PROVE  TaskOwnsGeneration
  <2>1. \A h \in Hash : OwnerAt(h) /\ IdentityAt(h)
    BY <1>1 DEF OwnershipInv, OperationInv, OperationAt
  <2> QED BY <2>1 DEF TaskOwnsGeneration, Running, OwnerAt, IdentityAt
<1> QED BY <1>1, OwnershipIsSound, PTL
=============================================================================
