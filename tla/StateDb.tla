------------------------------ MODULE StateDb ------------------------------
(***************************************************************************)
(* The importer's durable state for one session: its row of the SQLite     *)
(* tables sessions, generations and operations, and the pending payload    *)
(* files of the spool directory.  Every statement of state-db.ts selects   *)
(* rows by source and native session identifier, so the rows of one        *)
(* session are all that a step about it reads or writes.                   *)
(*                                                                         *)
(* Statements are operators that yield the new row or table; the actions   *)
(* that execute them are in ImportWorker and Importer.                     *)
(***************************************************************************)
EXTENDS Hindsight

CONSTANTS
  Empty,        \* canonical hash of a session with nothing left to retain
  MaxAttempts   \* config.importer.maxAttempts

ASSUME StateDbAssumption ==
  /\ Empty \notin Hash \cup {None}
  /\ MaxAttempts \in Nat \ {0}

VARIABLES
  session,      \* the row of table sessions
  generation,   \* generation[h]: the row of table generations for content h
  operation,    \* operation[h][r]: hindsight_status of the operations row
  before,       \* <<g, h>>: generation g has an earlier queued_at than h
  payload       \* payload[h][r]: content of the pending payload file

dbVars == <<session, generation, before, operation, payload>>

Kind == {"primary", "subagent", "ambiguous", "configured"}

Policy == {"old", "current"}

ExcludedStatus == {"excluded_subagent", "excluded_ambiguous", "excluded_configured"}

\* Statuses that later scans and the worker leave alone.
Protected == ExcludedStatus \cup {"ambiguous_preserved", "cleanup_pending"}

SessionStatus ==
  {"absent", "discovered", "imported", "empty_after_normalization", "source_missing"}
    \cup Protected

Session == [status : SessionStatus,
            kind   : Kind,
            hash   : Hash \cup {Empty, None},   \* canonical_hash
            ack    : Hash \cup {None},          \* acknowledged_hash
            policy : Policy]                    \* acknowledged_policy

GenerationState ==
  {"none", "queued", "processing", "submitted", "completed", "failed",
   "superseded", "cleanup_pending", "excluded"}

Active == {"processing", "submitted"}

Generation == [state    : GenerationState,
               replay   : Replay,               \* names operation_id
               attempts : 0 .. MaxAttempts,
               policy   : Policy,               \* retain_policy_version
               repair   : BOOLEAN]

\* Recorded before anything was sent, and by the worker's failure handler.
Unsent == {"prepared", "ready"}

TerminalFailures == {"failed", "rejected"}

\* "not_submitted" is written by cleanup-subagents only.
OperationStatus ==
  {"none", "submitting", "pending", "completed", "not_submitted"} \cup Unsent \cup TerminalFailures

NoGeneration == [state |-> "none", replay |-> 0, attempts |-> 0,
                 policy |-> "current", repair |-> FALSE]

NoSession == [status |-> "absent", kind |-> "primary", hash |-> None,
              ack |-> None, policy |-> "current"]

DbTypeOK ==
  /\ session \in Session
  /\ generation \in [Hash -> Generation]
  /\ before \in SUBSET (Hash \X Hash)
  /\ operation \in [Hash -> [Replay -> OperationStatus]]
  /\ payload \in [Hash -> [Replay -> Hash \cup {None}]]

-----------------------------------------------------------------------------
(* Statements on the generations table.                                    *)

\* UPDATE generations SET state=to WHERE state IN from, for the rows in H.
Moved(H, from, to) ==
  [h \in Hash |-> IF h \in H /\ generation[h].state \in from
                  THEN [generation[h] EXCEPT !.state = to]
                  ELSE generation[h]]

SetGenerationState(h, state) == [generation EXCEPT ![h].state = state]

SupersedeOlder(keep) == Moved(Hash \ {keep}, {"queued", "failed"}, "superseded")

MarkSessionGenerationsCleanupPending ==
  Moved(Hash, {"queued", "submitted", "processing", "completed", "failed"},
        "cleanup_pending")

\* queued_at of the row for h becomes the latest.
QueuedLast(h) ==
  {p \in before : h \notin {p[1], p[2]}}
    \cup {<<g, h>> : g \in {g \in Hash \ {h} : generation[g].state # "none"}}

\* getLatestGeneration.
Latest == {h \in Hash : /\ generation[h].state # "none"
                        /\ \A g \in Hash : <<h, g>> \notin before}

\* Faulty: a failed generation is not listed again.
EligibleOnce(h) == generation[h].state \in {"queued", "submitted", "processing"}

\* listWorkCandidates: an exhausted failure is not retried, and the rows are
\* ordered by state, then by queued_at, before the limit applies.
Eligible(h) ==
  \/ generation[h].state \in {"queued", "submitted", "processing"}
  \/ generation[h].state = "failed" /\ generation[h].attempts < MaxAttempts

Rank(state) == CASE state \in Active -> 0 [] state = "queued" -> 1 [] OTHER -> 2

Ahead(g, gState, h, hState) ==
  \/ Rank(gState) < Rank(hState)
  \/ Rank(gState) = Rank(hState) /\ <<g, h>> \in before

\* Another generation of the session that is being sent.
OtherActive(h, r) ==
  \E g \in Hash : /\ generation[g].state \in Active
                  /\ <<g, generation[g].replay>> # <<h, r>>

\* Faulty: an operation that was submitted does not block another generation.
ClaimableBesideSubmitted(h, r) ==
  /\ generation[h].state \in {"queued", "failed", "submitted", "processing"}
  /\ session.kind = "primary"
  /\ session.status \notin Protected
  /\ \A g \in Hash \ {h} : generation[g].state # "processing"

\* The conditions of claimGeneration for the candidate h that the worker
\* read with operation identity r.
Claimable(h, r) ==
  /\ generation[h].state \in {"queued", "failed", "submitted", "processing"}
  /\ session.kind = "primary"
  /\ session.status \notin Protected
  /\ ~OtherActive(h, r)

\* The row claimGeneration leaves.  Attempts are only ever compared with
\* MaxAttempts, so they saturate there.
Claimed(h) ==
  IF generation[h].state \in {"queued", "failed"}
  THEN [generation[h] EXCEPT !.state = "processing",
                             !.attempts = IF @ < MaxAttempts THEN @ + 1 ELSE @]
  ELSE generation[h]

ResetFailed ==
  [h \in Hash |-> IF generation[h].state = "failed" /\ session.kind = "primary"
                  THEN [generation[h] EXCEPT !.state = "queued", !.attempts = 0]
                  ELSE generation[h]]

\* Faulty: what was sent already is cancelled as well.
CancelQueuedAll == Moved(Hash, {"queued", "failed", "submitted"}, "superseded")

CancelQueued == Moved(Hash, {"queued", "failed"}, "superseded")

-----------------------------------------------------------------------------
(* Statements on the sessions table.                                       *)

\* Faulty: the latest scanned content is acknowledged, not the one retained.
AcknowledgeScanned(h, policy) ==
  [session EXCEPT !.ack = session.hash, !.policy = policy, !.status = "imported"]

\* acknowledgeGeneration: content h was retained under the given policy.
Acknowledge(h, policy) ==
  [session EXCEPT !.ack = h,
                  !.policy = policy,
                  !.status = IF session.hash = h /\ @ \in {"discovered", "imported"}
                             THEN "imported" ELSE @]

SetSessionClassification(kind, status) ==
  [session EXCEPT !.kind = kind, !.status = status]

-----------------------------------------------------------------------------
\* Faulty: only the previous identity is avoided.
NextOperationIdReused(h, previous, r) ==
  /\ r \in Replay \ {previous}
  /\ \A q \in Replay : q < r => q = previous

\* nextOperationId: the first identity for h that is not the previous one and
\* has no row in table operations (previous is None without a previous row).
NextOperationId(h, previous, r) ==
  LET fresh(q) == q # previous /\ operation[h][q] = "none"
  IN  /\ r \in Replay
      /\ fresh(r)
      /\ \A q \in Replay : q < r => ~fresh(q)
=============================================================================
