---------------------------- MODULE Verification ----------------------------
(***************************************************************************)
(* verifyFullImport: what the importer expects of the bank and what the    *)
(* bank holds, compared when a batch leaves no work.  A cycle that finds a *)
(* difference fails, and so does every cycle after it until an operator    *)
(* acts.                                                                   *)
(*                                                                         *)
(* The comparison is read from the rows of one session; the bank's own     *)
(* idleness and its configuration are not part of it.                      *)
(***************************************************************************)
EXTENDS Importer

\* The session's document belongs in the bank: some content was completed.
Expected == Known /\ \E h \in Hash : generation[h].state = "completed"

\* It does not: the session is not primary, or was cleaned up.
Excluded ==
  \/ /\ Known /\ session.status # "ambiguous_preserved"
     /\ session.kind # "primary" \/ session.status \in ExcludedStatus
  \/ \E h \in Hash : generation[h].state = "excluded"

Missing == Expected /\ document = None

ExcludedPresent == Excluded /\ document # None

Unexpected == document # None /\ ~Expected

HashMismatch == document # None /\ document # session.ack

PendingWork == \E h \in Hash : Eligible(h)

FailedWork == \E h \in Hash : generation[h].state = "failed"

DocumentAccountingReady ==
  /\ ~PendingWork /\ ~FailedWork
  /\ ~Missing /\ ~ExcludedPresent /\ ~Unexpected /\ ~HashMismatch

-----------------------------------------------------------------------------
\* The session is not one that waits for a cleanup, or for an operator.
Undisturbed ==
  /\ session.kind = "primary" /\ session.status # "cleanup_pending"
  /\ \A h \in Hash : generation[h].state # "cleanup_pending"
  /\ ~FailedWork

\* The acknowledged content was queued again, and that generation was
\* cancelled or superseded: the document is expected by no row.
Requeued == session.ack # None /\ generation[session.ack].state = "superseded"

\* A repair deleted the document, and its generation was cancelled; what it was
\* to be replaced with is on disk.
Erased ==
  Upgraded /\ document = None /\ \E h \in Hash, r \in Replay : payload[h][r] = h

\* docs/ARCHITECTURE.md: "Idle import cycles verify remote document accounting
\* and hashes".  A cycle that has no work left finds nothing to report, whatever
\* was edited, lost, retried and cancelled before, so that the daemon does not
\* fail cycle after cycle: except in these three cases, where the document is
\* what was acknowledged and is reported, was deleted and is missed, or was
\* written by an operation that is recorded as failed.
NoWorkIsVerified ==
  phase = "idle" /\ ~PendingWork /\ Undisturbed =>
    DocumentAccountingReady \/ Requeued \/ Erased \/ Overwritten

=============================================================================
