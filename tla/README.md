# Verification of the pi-hindsight-memory importer

pi-hindsight-memory keeps the sessions of coding agents (Pi, Codex, Claude Code,
OpenCode) in a remote Hindsight memory bank. An importer scans the agents'
history files, normalizes every session to one canonical document, and retains
each document with replace semantics. The documents must survive lost answers,
late requests, crashes, sessions that grow while they are sent, sessions that
are excluded or reclassified, and a repair command that deletes documents in
order to write them again.

The TLA+ modules here model the path of one session from its source file to its
remote document (adapters, scan, queue, worker, durable state, transport, bank,
repair, cleanup, verification), the daemon and the lock around it, and the Pi
extension that reads beside it. TLC checks them on small instances; the `*Proofs`
modules prove the main safety properties for every value of the constants.

All source paths below are relative to `src/` of the checkout (`src/importer/worker.ts`
is `src/src/importer/worker.ts` from the project's root).

## 1. Inventory

### Importer

| Component | State it keeps | Operations | What is hard | What makes it correct |
|---|---|---|---|---|
| Worker, `importer/worker.ts` | one task per claimed generation: its copy of the row, the loaded session, a deadline | claim, poll, reload of a failed payload, classify, load, preflight, payload file, operation row, swap of the old payload, repair deletion, submit, wait, clean up | tasks of a batch interleave at every await; a crash can fall between any two durable writes; an error after the request leaves the outcome open | one open operation per document; what is sent under an identity never changes; what may have to be sent again is on disk |
| State database, `importer/state-db.ts` | SQLite tables `sessions`, `generations`, `operations`, budget, aliases, cleanup jobs | `claimGeneration`, `listWorkCandidates`, `acknowledgeGeneration`, `supersedeOlder`, `nextOperationId`, `resetFailed`, ... | conditions over several rows; statements outside a transaction | at most one active generation per session; a failed identity stays failed |
| Scanner and queue, `importer/scanner.ts`, `importer/queue.ts` | none of its own | discovery, classification, fingerprint test, load, `queueGeneration`, sweep of missing sources | a scan sees the source at another moment than the worker; rows written one after the other | exclusion by name and preservation are final; nothing is queued beside an operation in flight |
| Daemon and CLI, `importer/daemon.ts`, `importer/cli.ts` | phase, last error, next scan and retry, shutdown; the row `daemon_status`; the pause marker | start-up clean-up, the loop with its scans, batches and verifications, heartbeat, signals, `retry-failed`, `cancel-queued`, pause | restart at any point, operator commands between restarts; the marker, the bank and time change between the test and the work; two daemons write one row | every session that settles is retained in the end; a failed cycle is repeated; a pause holds; the row names the daemon that runs |
| Historical repair, `importer/repair.ts` | plan and report files | batches in repair mode until every target is acknowledged under the current policy | the document is deleted before its replacement is sent | deleted content is on disk until the replacement has landed |
| Payload files, `importer/pending-payload.ts` | one file per operation | atomic save, read with hash test, removal, removal of completed ones | removal may fail; a file may be missing | see worker |
| State lock, `importer/lock.ts` | `daemon.lock` | acquire, removal of a stale lock, release | two processes find the same stale lock; a lock file not written yet; process numbers are used again | one holder; nobody removes the holder's file; a stale file goes |
| Task limiter, `importer/scheduler.ts` | active count, waiters | `run` | hand-over from a finished task to a waiter | never more than the limit, nobody waits forever |
| Subagent cleanup, `importer/subagent-cleanup.ts`, `importer/cleanup-plan.ts` | cleanup jobs with a phase | write a job per generation, settle its operation, delete the document, exclude the generation | the plan is older than the state it is applied to; the bank begins an operation that is being cancelled; the command dies between deletion, phase and exclusion | only reviewed documents of excluded sessions are deleted; nothing can write an excluded document again; nothing is skipped |
| Historical import and pilot, `importer/historical.ts`, `pilot*.ts` | cohort reports | drive scans and batches over cohorts | stopping in time | see scanner and worker |
| Verification, health, inventory, `importer/verify.ts`, `health.ts`, `inventory.ts` | none | compare the database with the bank after a cycle without work | what is expected is read from rows that many operations write; a false alarm fails every cycle | with nothing to do there is nothing to report |
| Local evidence, `importer/evidence.ts` | index rows | replace, remove and search the passages of a session | a database of its own, written before the session row | it holds what the rows say, and nothing of an excluded session |
| Exclusion policy, `importer/exclusions.ts` | tombstones (in the database) | effective kind of a session | label removed again | a tombstone wins over the structural kind |

### Bank and transport

`hindsight/client.ts` sends a retain request with an operation identifier chosen
by the caller (`common/hashing.ts`: a UUIDv5 over bank, document, hash and, for a
replay, a number). `sendJson` repeats a request after a transport error or a
retryable status, so an attempt it gave up can reach the bank after the retry.
The bank carries operations out later; its rows of finished operations are
pruned after a while. What is correct here is that a known identity is never
carried out twice with different contents.

### The other parts

* **Source adapters** (`adapters/*`) read four formats record by record while the
  agent goes on writing them, and carry from record to record whether a memory
  search precedes it; **canonical rendering and redaction** (`canonical/*`) write
  the turns to a spool. What matters: a document is a whole prefix of a transcript,
  the marks of memory-derived prose follow the branches, a session keeps its identity
  while its header is still being written, and no spool is left behind.
* **Approval and budget** (`common/approval.ts`, budget tables) decide whether a
  submission is allowed.
* **Pi extension** (`extension/*`): a search that reads the state database, the
  evidence index, the reviewed facts and the bank one after the other while a session
  is being excluded; a status request that joins the collection in flight, whose two
  halves have deadlines; a provider that is registered and removed with every session
  of Pi. What matters: nothing of an excluded session is found, no status is older
  than its request, and everybody is answered.
* **Desktop feed publisher** (`scripts/publish-desktop-history.py`): capture,
  verify, promote and prune generations of a feed directory.
* **Configuration, logging, telemetry, command line; deployment and backup
  scripts**: input, output and glue.

### How they interact

```
 source file --discover/load--> Scanner --queueGeneration--> sessions, generations
      |                                                            |
      +--load (only without an operation row)--+      listWorkCandidates, claim
                                               v                   v
 payload files <--save/read/remove-------- Worker task --operations row-->
                                               | POST retain, GET operation, DELETE document
                                               v
                          network (lost, late requests) --> bank --> document
```

The database is the only state that the scan, the worker, and the operator's
commands share, and one process at a time is to hold the state lock, so a scan, a
batch and a command do not overlap (section 5 has the two races in which they can). The
evidence index is a second database that the scan writes; the extension reads both,
without the lock. Within a batch, tasks run concurrently in one thread and interleave at
awaits. The source files, the bank and the network move
by themselves all the time. `PROJECT.json` lists the hazards this leaves, each at
its line.

## 2. The modules

| Module | What it is |
|---|---|
| `Hindsight` | the bank and the network, external: operations of the document, requests in transit |
| `StateDb` | rows and payload files of one session; the SQL statements as operators on them |
| `ImportWorker` | `processGeneration`, one action between two awaits or durable writes |
| `Importer` | scan, batches, start-up, crash, operator commands, the changing source; the specification and its properties |
| `DocumentRegister` | abstract specification: a document is a register with one writer |
| `ImporterInvariants`, `SubagentCleanupInvariants` | the inductive invariants of `Importer` and of `SubagentCleanup` |
| `Verification` | the comparison of rows and bank after a cycle, on the state of `Importer` |
| `SubagentCleanup` | the cleanup command beside the importer |
| `Transcript` | records of the four agents, the state their adapters carry, the canonical document; the reference for the marks |
| `SessionScan` | the scan of one source that is being written: identity, settling, load, spool, index, rows |
| `StateLock` | processes that compete for `daemon.lock`, system call by system call |
| `Daemon` | the daemon's loop under the lock |
| `Extension` | searches and status requests of the Pi extension |
| `MCImporter`, `MCSubagentCleanup`, `MCSessionScan`, `MCStateLock`, `MCDaemon`, `MCExtension` | instances for TLC |
| `ImporterTypeProofs`, `ImporterOperationProofs`, `ImporterRegisterProofs`, `ImporterDocumentProofs` | the proofs about `Importer`, each on top of the one before |
| `SubagentCleanupProofs`, `SessionScanProofs`, `DaemonProofs` (with the lock), `ExtensionProofs` | the other proofs |

The modules fall into four groups that meet at a narrow place each:

* `Importer` (with `SubagentCleanup` and `Verification`) takes the content of the
  source as one value that a scan or a load sees; `SessionScan` shows how that value
  is put together from a file that grows.
* `Daemon` extends `StateLock`: every step of it is a step of the lock or leaves the
  lock alone (`DaemonImplementsLock`). It takes a cycle as a scan, a batch and a
  verification that may leave work or fail; `Importer` is what they do. Its variable
  `sound` is the outcome of `Verification`.
* `Extension` takes the exclusion of a session as the steps in which `SessionScan` and
  `SubagentCleanup` carry it out: index, row, document, job.

`Importer` extends `ImportWorker`, which extends `StateDb`, which extends
`Hindsight`. They model **one session**. Every statement the modelled code
executes selects rows by source and native session identifier, or by an operation
identifier derived from the document; sessions meet only in the order and the
size of a batch, in the semaphore, and in the budget. Two generations of the one
session already compete for the batch and the semaphore.

**Contents.** A content is the canonical hash of a session: a model value of
`Hash`, or `Empty` for a session with nothing to retain, or `Gone` for a source
that does not exist. A generation is identified by its content, as the primary
key of the table does. An operation identity is a pair of a content and a replay
number; `operationIdFor` is replay 0, `replayOperationIdFor` the others.

**Where a session comes from.** `origin` is `"file"`, `"database"` (a row of OpenCode)
or `"aliased"`: a file whose header was completed after the session was stored
(`CompleteHeader`), so that discovery reports another identity than the row has and an
alias gives the row's (`scanner.ts:59`). It matters in two places. A file that is gone is
an error to the worker, a row that is gone makes the session ambiguous, unless a payload
was loaded (`StructuralKind`, `Unreadable`; `opencode.ts:112`, `worker.ts:140-146`). And an
exclusion tombstone is a row with two keys beside the source, a session identifier and a
document identifier: `tombstone` is a set of pairs of `Identity`. The worker and a plan of
the cleanup look up `StoredKey`; the scan looks up `ScanKey` and records `ScanRecord`; the
cleanup command records `ScanKey`. The three keys are one as long as there is no alias.

**Rows.** `session`, `generation[h]` and `operation[h][r]` are the columns that
later steps read. `queued_at` is the order `before` between generations.
`attempts` saturates at `MaxAttempts`, because the code only compares it with
that limit. `payload[h][r]` is the content of a payload file, or `None`.

**Tasks.** `task[h].pc` names the await or the transaction the task has reached:

| `pc` | `worker.ts` |
|---|---|
| `waiting` | the semaphore, then `claimGeneration` |
| `reload` | reading the payload of a failed operation |
| `poll` | `waitForOperation` on an operation already known |
| `classify` | the adapter's classification; the exclusion branches |
| `load` | payload file, or `adapter.load` and the comparison of hashes |
| `preflight` | bank, approval and budget checks |
| `save`, `record`, `swap` | payload file, operation row with `prepared`, removal of the replaced payload |
| `prepared`, `inspect`, `erase`, `ready` | repair: read, compare and delete the document; then `ready` |
| `post`, `posted`, `wait` | `submitting` is recorded, the request, `pending`, the poll |
| `cleanup` | removal of the payload of a completed operation |

`TaskError` is the catch block for an error at any await, `PollTimeout` the end
of the poll slice, `PostRejected` a 4xx answer. The client's repetition of a
request is abstracted to `PostAttemptLost`: an attempt given up is put on `wire`,
from where the network delivers or drops it at any later time.

**Process.** `phase` is `down`, `idle` or `batch`. `Crash` can fall anywhere,
also inside a scan (`ScanTorn`, `ScanExcluded(TRUE)`) and inside an exclusion
(`CrashInExclusion`), where the code writes several rows outside a transaction.
An operator runs `retry-failed` and `cancel-queued` while the daemon is stopped.
A batch of the repair command is `RunOnce(H, TRUE)`.

**Cleanup.** `SubagentCleanup` adds the operator's command `cleanup-subagents`:
the rows `job[k][h]` of `cleanup_jobs` for a target kind and a content, and the
command `run` that is being carried out, whose `pc` names the place in
`cleanupSubagents`:

| `pc` | `subagent-cleanup.ts` |
|---|---|
| `classify` | `classifyLiveSources`, then a job for every generation that is a target |
| `list` | `listDocumentIds`, once for all jobs |
| `next` | the head of the loop; a status that is known decides whether the bank is asked |
| `settle`, `cancel`, `recheck`, `wait` | the awaits of `settleOperation` |
| `delete`, `mark` | the deletion of a listed document; phase `remote_deleted` |
| `finalize`, `close` | `finalizeExcluded`; phase `state_finalized` |

The command holds the state lock, so while it runs only the bank, the network and
the sources move; between commands the whole importer does. `CleanupStops` ends it
at any of these places, with the request it made carried out or not, and jobs of
a stopped command are found by the next one. The model differs from the code in
four ways. The loop takes the jobs in any order (the code's order is the one they
were written in). The plan file is a plan of the present state, because the
command compares hashes before it does anything, and it has at least one job.
Jobs that requeue a primary session (`primary_replay`) are left out: nothing plans
one. So are the rule for Claude side chains and the release of budget.

**Verification.** `Verification` reads the state of `Importer` as `verifyFullImport`
reads the database and the bank: `Expected` and `Excluded` are its two queries,
`Missing`, `ExcludedPresent`, `Unexpected` and `HashMismatch` the four differences it
reports for a document.

**Scan.** `SessionScan` has the agent append to `file` through `tail`, an incomplete
last line, and the scan read it one record at a time:

| `scan.pc` | code |
|---|---|
| `judge` | `scanner.ts`: exclusion, the test for an unchanged source, `observeScanCandidate` |
| `load` | the callback of the adapter for each complete line, or message; `CanonicalSpool` |
| `check` | the fingerprint once more; a second attempt, or an error |
| `index`, `store`, `alias` | `indexEvidence`, `upsertSession`, `storeAlias`: two databases, three transactions |

A record has a kind and a parent instead of a text. A turn has the record it comes
from, its role, and the mark of prose that follows a memory search. OpenCode is read
in one transaction, the others as far as the file reaches at that moment. A
fingerprint is what the four fingerprints tell apart. Files only grow: a source that
is rewritten in place is not modelled.

**Lock.** `StateLock` has one action per system call of `DaemonLock.acquire`: create,
write, read, probe, remove. `lock` is the file with its creator, so that a process that
writes to a file which was removed meanwhile writes to nothing. Process numbers are
used again, by the importer's processes and by strangers. Any number of processes acquire
at the same time. Two history variables, which no action reads, classify what goes wrong
then: `judging` is who has read the file that is there now, and `raced` collects how the
file of a process at work (one that writes it or holds the lock) came to be taken for a
stale one: `"unwritten"`, it was read between its creation and its writing; `"replaced"`,
another file had been read, which was removed meanwhile; `"named"`, it named its creator.

**Daemon.** `at[p]` is the place in `runLockedDaemon`, `mem[p]` its local variables:

| `at` | `daemon.ts` |
|---|---|
| `look`, `decide` | `isPaused`; the conditions for a cycle; the sleep |
| `preflight`, `scan`, `batch`, `verify` | the four awaits of `runCycle` |
| `stopped` | the `finally` block has written the last row, the lock is still held |

Time is what has passed: `due` for the scan interval, `waiting` for the retry delay,
`fresh` for the age of the heartbeat. The timer of the heartbeat fires at any await.

**Extension.** `search` is one search with its place, what it found and what had been
recorded when it began. `collection[s]` is the collection in flight of the provider of
session `s`; its two halves are the worker thread, with two queries, and the three
requests to the bank. A closure whose session is over still ends its collection.
`excluding` is how far the exclusion is, and beside it an operation may be open at the bank
that writes the document (`OperationEnds`). The cleanup lists the documents once per
command (`ListDocuments`), removes the document for a job of an earlier generation
(`DeleteEarlier`), settles the operation, and deletes the document only if its list still
names it (`DeleteExcluded`); the job goes on in either case. The history variable `missed`
says that the document was written while the list did not name it.

**Faulty variants.** A definition whose comment begins with "Faulty" is not part
of the specification. It is the definition before or after it with a plausible
mistake; replacing the original by it makes a property fail, which shows that the
property depends on that part of the code.

## 3. What TLC checks

The instances of `MCImporter` and `MCSubagentCleanup` have two contents and replay
numbers up to 3 (`repair`: 4). Those of `MCImporter` allow two attempts, those of
`MCSubagentCleanup` one, with batches of one.

| Run | Instance | Checks |
|---|---|---|
| `core` | two edits, two faults, batches of two, a bank that forgets operations | `TypeOK`, `OneRemoteWriter`, `ImmutablePayload`, `Recoverable`, `AcknowledgedIsRemote`, `TaskOwnsGeneration`, `FailedIsFinal`, `AcknowledgedOnCompletion`, refinement of the register |
| `repair` | a session, of a file or of OpenCode's database, imported under an older policy that is renamed, reclassified, emptied, deleted and restored: two edits, one fault, the repair command, the bank forgets | `ErasedIsOnDisk`, `NoWorkIsVerified`, `FrozenStaysFrozen`, register |
| `live` | a session that may be renamed and whose header may be completed: two edits, one fault, batches and limiter of one, fairness, no symmetry | `EventuallyRetained`, `TombstoneStopsRetain` |
| `cleanup` | a session that is renamed, becomes ambiguous, is deleted and restored: two edits, two faults, any number of cleanup commands | `CleanupTypeOK`, `SettledBeforeExcluded`, `FinalizedIsExcluded`, `DeletionIsReviewed`, `DeletedIsExcluded` |
| `sessions` | all transcripts of three records of every agent and shape; transcripts that grow, lose their name and get it back while they are scanned, with one crash or index error | `TypeOK`, `StoredIsWhole`, `BranchIsMarked`, `OneIdentity`, `SpoolsAreRemoved`, `EvidenceFollows`, `QuietIsStored` |
| `lock` | a daemon and `daemon --once`, also at the same time, two process numbers and a stranger, one crash, one signal, one change of the bank, the documents or the pause marker; until a removal by mistake | `TypeOK`, `ExclusiveUnlessRaced`, `HoldersFileStays`, `RunningIsShown`, `PauseHolds`, `ErrorClears`, `ScanIsRepeated`, `StaleLockGoes` |
| `extension` | two searches, or three requests of two requesters, over three sessions of Pi, beside an exclusion and its cleanup | `TypeOK`, `ExcludedIsNotFound`, `SessionIsServed`, `NothingIsCached`, `EveryoneIsAnswered` |
| `reverted`, `undeleted`, `unsettled`, `provenance`, `locked` | see section 5 | one documented promise each, which fails |

The properties in words:

* **OneRemoteWriter.** At most one operation can still change the remote
  document: accepted and unfinished, or asked for by a request in transit.
* **ImmutablePayload.** An identity stands for one content.
* **Recoverable.** What may have to be sent again is on disk, whatever became of
  the source.
* **AcknowledgedIsRemote.** When nothing is being sent or cleaned up, the
  acknowledged hash is that of the remote document. Two named cases are left: a
  repair whose generation was cancelled after the deletion, and an operation that
  the bank carried out and forgot, and that failed when it was sent again
  (`Overwritten`).
* **TaskOwnsGeneration.** The task that runs holds the only active generation,
  in a session that is still primary.
* **FailedIsFinal**, **AcknowledgedOnCompletion.** A failed identity is never
  revived; the acknowledged hash moves only in the step that records the
  completion of an operation the bank reports as completed.
* **OneWriterRegister.** The whole importer implements `DocumentRegister`:
  `stored` is the remote document, `writing` the set of open operations, `known`
  the acknowledged hash. A step of the importer is a write, its landing, its
  loss, an acknowledgement of what the register holds, a deletion, or a stutter.
* **TombstoneStopsRetain.** After an exclusion by name is recorded under the identity the
  session is stored under, nothing of it is submitted, also when the name is taken back
  and whatever identity discovery reports. Section 5 says what happens to an exclusion that
  is recorded under another key.
* **FrozenStaysFrozen.** Preservation ends only by an exclusion by name.
* **ErasedIsOnDisk.** What a repair deleted is on disk until a version has landed.
* **EventuallyRetained.** The content a session settles on is acknowledged, and
  stays the remote document.
* **SettledBeforeExcluded.** No operation of an excluded generation can still write
  the document.
* **FinalizedIsExcluded.** A closed job stands for an excluded generation, so a
  command that was interrupted leaves nothing the next one would skip.
* **DeletionIsReviewed**, **DeletedIsExcluded.** A cleanup deletes only for a job of
  the plan that was reviewed, and only the document of a session that is, at that
  moment, one that is not to be kept.
* **NoWorkIsVerified.** A cycle that finds no work finds nothing to report either,
  whatever was edited, lost, retried and cancelled before, but for three cases that
  section 5 names.
* **StoredIsWhole.** A stored row is made of all of the content its fingerprint stands
  for and nothing else, although the agent wrote while it was read.
* **BranchIsMarked.** Prose is marked when, and only when, a memory search is newer on
  its branch than the last message of the user.
* **OneIdentity**, **SpoolsAreRemoved**, **EvidenceFollows.** Without a crash a session
  has one identity; each crash leaves one spool at most; without faults the index
  says what the rows say.
* **QuietIsStored.** A source that stops changing is stored as it is, and indexed.
* **ExclusiveUnlessRaced.** `Exclusive`, one process at most holds the lock, is what the
  documents promise, and `locked` refutes it. What the code does keep: a file that names a
  live process is never removed because of what was read in it, a removal by mistake is
  one of two races (`raced`, above), and as long as neither has happened one process holds the
  lock.
* **HoldersFileStays**, **StaleLockGoes.** The holder's file stays until it releases it or
  crashes, the two races apart; a file of a process that is gone does not stand in the way
  for good.
* **RunningIsShown.** A daemon that runs is the one the status shows: the last words of
  its predecessor never replace its heartbeat.
* **PauseHolds.** After the pause marker is set at most the cycle that was decided on
  begins. Both are about daemons that follow each other; two at a time, after one of the
  races, are excepted.
* **ErrorClears**, **ScanIsRepeated.** When the cause of an error is gone the error goes,
  and a scan that was due and failed is not put off to the next interval.
* **ExcludedIsNotFound.** A search that begins after an exclusion was recorded returns
  nothing of the session, however far the cleanup and the operations get while it runs,
  except a document that was written while the cleanup's list did not name it. That one
  stays in the bank and is found: `undeleted` shows it in the cleanup itself.
* **SessionIsServed**, **NothingIsCached**, **EveryoneIsAnswered.** The provider belongs
  to the session that runs; nobody is given a status that was collected before the
  request; searches and requests end although the bank and the worker thread hang.

### Bounds

* *Two contents*: a newer and an older version; the interactions the code guards
  against (a claim beside an active generation, a version overtaking another)
  are between two generations. A source can also return to an earlier content.
* *MaxReplay = 3 or 4*: enough for the bounds on faults and edits: in the passing
  runs a scan and a task always find the fresh identity they need, so the bound
  never blocks a step. (A session that was imported before uses one identity more.)
* *MaxAttempts = 2*: a first failure that is retried and a second that is not. In
  the cleanup runs 1, because a cleanup never looks at attempts; the operator's
  `retry-failed` still brings a failed generation back.
* *MaxFaults = 1 or 2*: a fault is a lost attempt, a rejection, an error, a crash,
  a failed or forgotten operation, or an undeletable file. Two of them make the
  compound cases: a crash after a lost attempt, a failure of the replay of a
  failure. Polls that end without an answer, late deliveries and operator
  commands are not counted and happen without bound.
* *MaxEdits = 1 to 3*: enough for a session to change, change again and return.
* *MaxInflight, WorkBatchSize = 1 or 2*: two tasks at once; for liveness one, so
  that a generation can be crowded out of its batch.
* *MaxRecords = 3*: a branch with a search, a message beside it and prose below one of
  them. *MaxTurns = 5*: three records reach the size limit in some transcripts and
  not in others. *MaxChanges = 4* (`sessions`): the header, a record that is complete
  and one that is not, and a change of name; while scans run the kinds `search` and
  `broken` are written (`Growing`), one that has two turns and one that fails the load.
* *Two processes, two numbers*: with a stranger, a number is used again while the
  file that names it is still there. Two processes that start again and again find each
  other's files at every place of `acquire`. One crash leaves a stale lock or an unwritten
  one; one signal and one change of the surroundings fall between any two awaits.
* *UntilRaced* (`lock`): states after a removal by mistake are reached and checked, but not
  explored further. `ExclusiveUnlessRaced`, `RunningIsShown` and `PauseHolds` promise nothing
  there but that the mistake is one of the two; the theorems cover those states too.
* *Origins*: `"file"` in `core`, `reverted` and the cleanup runs; `"file"` and `"database"` in
  `repair`, where sources disappear; `"file"` and `"aliased"` in `live`, where names are taken
  back.
* *Three sessions of Pi, three requests*: a collection of an earlier session is still in
  flight when the next one begins, and a request joins it or begins another.
  *Two searches*: searches are independent, the second one finds an exclusion that is
  further on.

`Permutations(Hash)` is a symmetry of everything but `live`: no definition names a
particular content. Deadlock is checked, except in `repair`, `reverted` and the
cleanup runs, where a session that is excluded for good and has no edits left
really has nothing more to do and the daemon's scans of it change nothing, and in
`extension`, which ends when its searches and requests are used up.

### Fairness

`FairSpec` adds weak fairness, each for a reason in the code:

* `Work(h, r)`: the bank carries out what it accepted.
* `WorkerStep(h)`: an await ends, with an answer or with the deadline that
  `processGeneration` sets; the branch taken is not chosen.
* `RunOnce(H, FALSE)`, `BatchDone`, `DueScan`: the loop of `runLockedDaemon`
  (`daemon.ts:72-98`) runs cycle after cycle. `DueScan` leaves out a scan that
  changes nothing but is always possible.
* `Startup`: the service manager restarts the daemon.

There is none for edits, faults, the network, or the operator. In particular a
request in transit need never arrive.

`SessionScan`: the daemon scans again and again (`ScanStep`); nothing is assumed of the
agent. `Daemon`: one of the processes is started again (`Restart=on-failure`,
`scripts/install-importer-service.sh:67`), acquires or is refused, makes its steps, and
releases; the delay of a retry passes. A scan interval may be as long as it likes and
signals need not come. `Extension`: the timers of `retrieve.ts` and `status.ts` fire, so
a search step happens and a half of a collection fails in the end; the worker thread
and the bank may hang for ever.

### Assumptions of the model

* `RejectAfterLoss = FALSE`: the bank does not answer 4xx to the repetition of a
  request it accepted.
* `Reverting = {}` or `{"configured"}` (except in `reverted`): a session that
  stopped being primary structurally does not become primary again.
* The bank prunes an operation only after every request for it has arrived or
  got lost (`Prune` in `Hindsight`).
* The deletion of a document reaches the bank or fails; a delayed deletion is not
  modelled (hazard at `worker.ts:201`).
* `Reverting = {}` where `"aliased"` is one of the `Origins` (except in `live`, which checks
  neither `OneRemoteWriter` nor the register): otherwise an aliased session that lost its
  name is primary again, which is what `reverted` shows for other kinds.
* `Importer` and `SubagentCleanup` rely on one process holding the state lock, which the
  two races of `StateLock` can break.
* Exclusions of a session that is not stored yet are recorded under the identity it is
  stored under later: that a scan excludes it by name while its header is incomplete, under
  a provisional identity nothing is stored for, is not modelled.
* The cleanup's theorems and runs are about sessions that are files (`FilesOnly`). A row of
  OpenCode that disappeared counts as ambiguous, and the session is kept again when the
  row is restored, so its exclusion is not final, which the cleanup's invariant rests on.

The first two and the one about `"aliased"` are `OneWriterAssumption` in
`ImporterRegisterProofs`, `FilesOnly` is in `SubagentCleanupProofs`; each is stated in the
theorems that need it. The theorems about the lock and the daemon need none.

## 4. What is proved

The theorems hold for any set of contents, any bounds, any number of faults,
edits, tasks and replays.

| Theorem | States | Needs |
|---|---|---|
| `TypeCorrect`, `PayloadsAreImmutable` | `[]TypeOK`, `[]ImmutablePayload` | the module's assumptions |
| `PayloadsAreRecoverable`, `FailuresAreFinal`, `AcknowledgementsAreBacked` | `[]Recoverable`, `FailedIsFinal`, `AcknowledgedOnCompletion` | " |
| `TasksOwnGenerations` | `[]TaskOwnsGeneration` | " |
| `WriterIsUnique`, `ImplementsRegister` | `[]OneRemoteWriter`, `OneWriterRegister` | `OneWriterAssumption` |
| `TombstonesStopRetain`, `PreservedStaysPreserved` | `TombstoneStopsRetain`, `FrozenStaysFrozen` | the module's assumptions, with any `Origins` and `Reverting` |
| `AcknowledgedDocumentsAreRemote`, `ErasedDocumentsAreKept`, `FinishedWorkIsVerified` | `[]AcknowledgedIsRemote`, `[]ErasedIsOnDisk`, `[]NoWorkIsVerified` | `OneWriterAssumption` |
| `CleanupTypesAreCorrect`, `ExcludedIsSettled`, `ClosedJobsAreDone`, `CleanupKeepsOneWriter` | `[]CleanupTypeOK`, `[]SettledBeforeExcluded`, `[]FinalizedIsExcluded`, `[]OneRemoteWriter` of `CleanupSpec` | `OneWriterAssumption`, `FilesOnly` |
| `DeletionsAreReviewed`, `DeletionsAreExclusions` | `DeletionIsReviewed`, `DeletedIsExcluded` | `OneWriterAssumption`, `FilesOnly` |
| `ScanTypes`, `SessionsAreOne`, `SpoolsDoNotPileUp`, `IndexFollowsSessions` | `[]TypeOK`, `[]OneIdentity`, `[]SpoolsAreRemoved`, `[]EvidenceFollows` of `SessionScan` | the module's assumptions |
| `DocumentsAreWhole`, `BranchesAreMarked` | `[]StoredIsWhole`, `[]BranchIsMarked` | the module's assumptions |
| `LockExcludes`, `HoldersFileIsSafe` | `[]ExclusiveUnlessRaced`, `HoldersFileStays` of `StateLock` | the module's assumptions |
| `DaemonImplementsLock` | `Spec => LockSpec` | the module's assumptions |
| `DaemonExcludes`, `DaemonTypes`, `DaemonIsShown`, `PauseIsKept` | `[]ExclusiveUnlessRaced`, `[]TypeOK`, `[]RunningIsShown`, `[]PauseHolds` of `Daemon` | the module's assumptions |
| `ExtensionTypes`, `ExcludedStaysHidden`, `ProviderIsCurrent`, `StatusIsFresh` | `[]TypeOK`, `[]ExcludedIsNotFound`, `[]SessionIsServed`, `NothingIsCached` of `Extension` | the module's assumptions |

For `Importer` the argument is a tower of inductive invariants; TLC confirmed
each on the instances `core` and `repair`, on one with all `Origins` and `Reverting = {}`, and
the cleanup's on `cleanup`, before it was proved.

1. `TypeOK /\ OwnContent` (`TypesAndContents`). Files, requests, received bodies
   and tasks carry the content their identity is made for. `ImmutablePayload` is
   not inductive: a task that has loaded something else would break it later,
   so the invariant speaks of the tasks that carry a content (`Carrying`) too.
2. `OperationInv` (`OperationsAreSound`): what the operation row says at each
   await (`RowAt`), which identity the task works on (`IdentityAt`), which files
   exist (`FilesAt`), and that a generation that waits has nothing in flight
   (`WaitingAt`). `Recoverable` needs it, because a removal of a payload is
   justified only by the row of the operation it belongs to.
3. `OwnershipInv` (`OwnershipIsSound`): two generations are never both active,
   and a running task owns the active one of a primary session. It is what
   `claimGeneration` establishes and every other statement has to preserve.
4. `WriterInv` (`WritersAreSound`): an open operation is submitted or pending in
   the database and, in a primary session, belongs to the active generation
   (`RemoteAt`); a completed one that is not acknowledged yet is the document
   (`LandedAt`); a session that is not retained has left (`Left`: it has a kind that does
   not revert, or the name it was excluded by is found) and so does not come back
   (`LeftForGood`). A row of a database that disappeared is the exception: it comes back,
   but it left before anything was sent, because what was sent has a payload that the
   worker classifies instead (`SentIsHeld`). This ties the bank to the rows, from which
   `OneRemoteWriter` and the refinement follow. It needs the three assumptions:
   `NameStays` and `Left` are where the second and third one come in.

5. `DocumentInv` (`DocumentsAreAccounted`), on top of all four: the document is the
   acknowledged content, or was written by an operation whose row is still open
   (`Unacknowledged`), or is one of the named exceptions (`AccountedInv`); a deleted
   document has its replacement on disk, under an operation that is not completed
   (`ErasedInv`); only a state from before the current policy has repairs
   (`RepairsAreUpgrades`); a row's state says whether its session is known,
   acknowledged and retained (`RowsInv`). `AcknowledgedIsRemote` alone is not
   inductive: it says nothing of the time while an operation is open, which is when
   the document changes. `NoWorkIsVerified` follows without another induction.
   `NotCleanedInv` keeps the command `cleanup-subagents` out: these three theorems are
   about `Spec`, not `CleanupSpec`, where documents are deleted for good.
6. `NothingToSend` (`ExclusionsEndSending`): behind a tombstone of the stored identity no task
   stands between its classification and its request, which is why `TombstoneStopsRetain`
   holds although the name can be taken back in between.

`SubagentCleanup` is proved with items 1 to 4 carried along, because its steps rely
on them and could break them: `CleanupInv` (`CleanupIsSound`) says that no daemon runs
beside the command (`CommandAlone`); that a job's generation waits for the cleanup or
is excluded, in a session that is not retained, and that the job names the operation
the row names (`JobAt`: without it a job could settle one operation while another is
open); that nothing is open under an excluded generation (`ExcludedAt`); and what is true
of the current job at each await (`CurrentInv`). `LeftForGood` of item 4 then makes a
plan that was reviewed remain right: the session cannot have become one to keep.

`ImporterRegisterProofs` shows that the initial states map to `RegisterInit` and
that every action maps to a step of the register or to a stutter.

The other modules have one inductive invariant each.

* `LockInv` (`DaemonProofs`): the file of a process at work names it or is not written yet
  (`FileNamesWorker`); who has read the very file that is there, and is about to remove it
  with a number in hand, knows that nobody is at work behind it (`ReadingHolds`): numbers are
  given out again, but not the number of a process that lives, and the probe came after the
  reading. So a removal by mistake is one of the two races (`OnlyRaces`). Until there was
  one, every process that writes or holds has its file, which only one can (`FileIsOwn`);
  exclusion alone is not inductive, because it says nothing of what others have read.
  `DaemonInv` (`DaemonProofs`) adds that a daemon which is anywhere in its loop holds the lock, so the row is its
  own, and how many cycles may have begun since the marker was set. The daemon
  implements the lock, so the lock's theorems hold of it without another proof.
* `ScanningInv` (`SessionScanProofs`): the memory of an adapter keeps its shape for any
  record (`StepType`); a load in progress has its spool, and every crash can have left
  one (`SpoolInv`); a row is known by the alias or by the scan that wrote it
  (`IdentityInv`); the index is ahead of the row between its two writes and agrees with
  it at every other place (`EvidenceInv`); what a load remembers is what the adapter makes
  of the records of the file before the place it has reached, and of all of those its
  fingerprint stands for when it ends (`LoadInv`), and a row is made of the beginning of
  the file (`RowsInv`). Both survive a file that grows because what an adapter remembers
  depends on nothing that follows (`MemoriesOfStart`). The document and the reference of
  the marks are functions that are recursive over the records. That they satisfy their
  equations (`MemoriesStep`, `SearchedStep`) and agree on the marks (`MemoriesAreRight`)
  is shown by induction; the induction theorems of the library cannot be used, because
  their parameter is an operator, so `NatSetInduction` derives one for a set of numbers
  from the well-foundedness of `<`.
* `ExtensionInv` (`ExtensionProofs`): a search that began after the exclusion was recorded
  passes the check only when the cleanup is over (`SearchInv`), and then the operation is
  settled and a document that is left was written while the list did not name it; a collection in flight has a number of its own that has not ended
  (`StatusInv`), so who joins it gets a result of later than the request.

**Only model-checked:** the liveness properties (`EventuallyRetained`, `QuietIsStored`,
`ErrorClears`, `ScanIsRepeated`, `StaleLockGoes`, `EveryoneIsAnswered`: liveness under
fairness is outside what the proof system handles). Every invariant and every
action property that a passing run checks is also a theorem. The promises that section
5 refutes are refuted on small instances, which is enough.

**What the proofs found.** Attempts that failed for a good reason changed the models:

* `AcknowledgedIsRemote` and `NoWorkIsVerified` did not know the case `Overwritten`. A bank
  that has pruned a completed operation is asked for it, answers that there is none,
  and the worker sends it again (`worker.ts:128`); when that fails, the row says failed
  and the document is there. TLC had missed it because no run had a forgetting bank and
  enough faults; now `core` forgets, and the case is named.
* The status `not_submitted`, which the cleanup writes, was missing among the statuses
  of a row: the type invariant had been checked without the cleanup.
* The head of the cleanup's loop was a `CASE` whose guards overlap, where the code tests
  the phase first (`subagent-cleanup.ts:174`). TLC takes the first guard that holds and
  hid the difference; it is an `IF` now.
* `MaxTurns = 0`, a limit that the line which names a document does not fit, was allowed;
  the code rejects every load then (and `config-validation.ts:40` a limit that is not
  positive), and the model stored a document that is too long.
* `None` was not required to differ from replay numbers, which the cleanup's jobs compare.

## 5. Where the code and its documents differ

Each of these is a run that TLC ends with a counterexample.

1. `reverted`. `docs/ARCHITECTURE.md:94`: an uncertain remote outcome blocks newer
   versions. An exclusion moves a submitted generation to `cleanup_pending`, which
   blocks nothing once the session is primary again (`scanner.ts:183`).
2. `undeleted`. `extension/retrieve.ts:32`: retrieval is blocked until the cleanup is
   complete. The documents are listed before operations are settled, so a document
   that an operation writes in between is not deleted; the job is closed and
   retrieval is unblocked (`subagent-cleanup.ts:184`).
3. `unsettled`. `test/integration/cleanup-plan.test.ts:85`: a payload that was only
   prepared was not submitted. The status `not_submitted`, which the command writes
   itself, is not among those it knows; after a failed deletion the next command
   asks the bank for an operation that never existed and stops
   (`subagent-cleanup.ts:181`).
4. `provenance`. `docs/CANONICAL-FORMAT.md:29` promises that provenance follows the branch.
   A Claude record that the adapter skips is not recorded (`claude.ts:124`), so prose
   below it loses the mark of the memory search above it.
5. `locked`. `docs/OPERATIONS.md:38` speaks of an exclusive lock. A process that finds the
   lock file created and not written yet takes it for stale and removes it
   (`lock.ts:30`), and both hold the lock. Two processes that found one stale file
   do the same.

The models show some more behaviour that is worth knowing and contradicts no document
as plainly:

* The exclusion of an aliased session by name ends with the name. The scan records it under
  the stored session identifier with the document of the discovered one
  (`scanner.ts:146`), which no lookup asks for (`scanner.ts:142`, `worker.ts:147`,
  `state-db.ts:459`). When the label is removed the session is primary again and is
  retained, also beside an operation that is still open, as in `reverted`. A cleanup
  that is planned from tombstones misses such a session, too
  (`subagent-cleanup.ts:97`). The test `audit-regressions.test.ts:337` keeps an exclusion
  after the label is gone, for a session without an alias. With `"aliased"` and
  `Reverting = {"configured"}`, the property `TombstoneStopsRetain` stated for any tombstone
  instead of `StoredKey` fails after 17 states.
* A row of OpenCode that disappears makes the session ambiguous, not missing: it is excluded,
  or preserved if it was acknowledged (`opencode.ts:112`, `worker.ts:149-160`), and a scan
  finds it primary again when the row is restored. Preservation stays, exclusion does not.
* A repeated POST answered with 4xx is taken for a rejection although the first attempt
  may have been accepted (`worker.ts:225`); `RejectAfterLoss` switches it on.
* An older failed generation is retried after the newest one was retained and replaces
  it (`state-db.ts:678`). The next scan notices, which is why `EventuallyRetained`
  holds.
* A session is preserved by its latest completed generation while another one is in
  flight, which then replaces the frozen document (`scanner.ts:180`).
* A repair generation that failed, and is retried after a newer one succeeded, deletes
  a document that needs no repair (`worker.ts:199`).
* Verification can report a document that is right, cycle after cycle: a content that
  was completed, queued again, and then cancelled or superseded is still what the bank
  holds, but no completed row expects it (`verify.ts:17`; `Requeued`). A repair whose
  generation is cancelled after the deletion leaves a document that is missed (`Erased`).
  And an operation that the bank completed, forgot, and rejected when it was sent again
  leaves a document that the rows say failed (`Overwritten`).
* A crash between the index and the row of a new session, followed by its exclusion,
  leaves the passages in the index; and a cleanup without a scan leaves them until the
  next scan, although retrieval is unblocked (`docs/MEMORY-RETRIEVAL.md:26`).

## 6. What is not modelled, and the plan

| Next | Content and properties |
|---|---|
| 1 | the task limiter's hand-over (`scheduler.ts:14`): limit and absence of starvation |
| 2 | transport: repetition of requests and polls with their deadlines, delayed deletions (`worker.ts:201`) |
| 3 | reservations of the import budget under identities and replays (`worker.ts:180`) |
| 4 | several sessions in one batch whose limit is filled by operations that never end (`state-db.ts:682`) |
| 5 | the feed publisher: capture, promotion and pruning by two publishers (`publish-desktop-history.py:218`) |

Known dead ends that no property covers yet are listed as hazards: a repair that finds
neither the document nor the reviewed state (`repair.ts:75`), cleanup jobs that are
never written a second time and operations that never reached the bank
(`subagent-cleanup.ts:132`, `:153`), and errors of reading the lock file, which count as
stale.

`Importer` and its companions model one session; `SessionScan` models one source that only
grows. `--no-scan`, `drain` and the pilot commands run the same scan and worker in
another order and are left out, as are discovery errors of a whole source.

Left out for good: parsers, redaction and the wording of turns, titles and labels, and the
conversions of configuration (pure text in, text out; the properties here tell
contents apart only by their hashes, and turns by their record, role and mark);
logging, telemetry and reports; deployment and backup scripts.
