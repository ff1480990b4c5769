------------------------- MODULE ImporterInvariants -------------------------
(***************************************************************************)
(* The inductive invariants behind the safety properties of Importer: what *)
(* is true of rows, payload files and tasks at every await, under every    *)
(* interleaving, fault and crash.                                          *)
(***************************************************************************)
EXTENDS Importer

\* Where a task carries the content it is going to send.
Carrying == {"preflight", "save", "record", "swap", "prepared", "inspect", "erase",
             "ready", "post"}

\* Everything kept, received, in transit, or carried by a task under an identity
\* is the content the identity is made for.
OwnPayloads == \A h \in Hash, r \in Replay : payload[h][r] \in {h, None}
OwnBodies   == \A h \in Hash, r \in Replay : body[h][r] \in {h, None}
OwnRequests == \A m \in wire : m.content = m.hash
OwnTasks    == \A h \in Hash : /\ task[h].doc \in {h, None}
                               /\ task[h].pc \in Carrying => task[h].doc = h

OwnContent == OwnPayloads /\ OwnBodies /\ OwnRequests /\ OwnTasks

\* Tasks exist only while a batch runs.
TasksInBatch == phase # "batch" => \A h \in Hash : task[h].pc = "idle"

\* Rows no task takes up again.
Retired == {"completed", "not_submitted"}

\* What the operation row of a running task says, by the await it has reached.
RowAt(h) ==
  LET row == Persisted(h)
      pc  == task[h].pc
  IN  /\ pc = "reload" => row \in TerminalFailures
      /\ pc = "poll" => row \in {"submitting", "pending"}
      /\ pc \in {"classify", "load", "preflight"} =>
           row \notin TerminalFailures \cup Retired
      /\ pc \in {"poll", "classify", "load", "preflight"} => task[h].op = row
      /\ pc \in {"save", "record"} => row = "none"
      /\ pc \in {"swap", "prepared", "inspect", "erase"} => row = "prepared"
      /\ pc = "ready" => row \in {"ready", "submitting", "pending"}
      /\ pc \in {"post", "posted"} => row = "submitting"
      /\ pc = "wait" => row = "pending"
      /\ pc = "cleanup" => row = "completed"

\* A task works on the identity its generation row names, or on a fresh one
\* that is to replace a failed one.
IdentityAt(h) ==
  task[h].pc \notin {"idle", "waiting", "cleanup"} =>
    /\ task[h].gen.state \in Active
    /\ \/ task[h].gen.replay = generation[h].replay
       \/ /\ task[h].pc \in {"classify", "load", "preflight", "save", "record"}
          /\ Persisted(h) = "none"
          /\ operation[h][generation[h].replay] \in TerminalFailures

\* The payload file a task saved is there; one it replaces is of a failed identity.
FilesAt(h) ==
  /\ task[h].pc = "record" => payload[h][task[h].gen.replay] = h
  /\ task[h].pc = "swap" => task[h].old # None
  /\ task[h].pc \in {"poll", "classify", "load", "preflight", "save", "record", "swap"}
     /\ task[h].old # None => operation[h][task[h].old] \in TerminalFailures

\* A generation that waits for its turn, or for a retry, has nothing in flight,
\* and one that is worked on was not completed before.
WaitingAt(h) ==
  /\ generation[h].state \in {"queued", "failed"} =>
       operation[h][generation[h].replay] \in TerminalFailures \cup {"none"}
  /\ generation[h].state \in Active \/ task[h].pc \notin {"idle", "waiting", "cleanup"} =>
       operation[h][generation[h].replay] \notin Retired

RecoverableAt(h) ==
  \A r \in Replay :
    operation[h][r] \in Unsent \cup {"submitting", "pending"} => payload[h][r] = h

OperationAt(h) ==
  RowAt(h) /\ IdentityAt(h) /\ FilesAt(h) /\ WaitingAt(h) /\ RecoverableAt(h)

OperationInv == TasksInBatch /\ \A h \in Hash : OperationAt(h)

-----------------------------------------------------------------------------
(* Who may write the remote document.                                      *)

\* A running task holds the only active generation of a primary session.
OwnerAt(h) ==
  task[h].pc \notin {"idle", "waiting", "cleanup"} =>
    /\ generation[h].state \in Active
    /\ \A g \in Hash \ {h} : generation[g].state \notin Active
    /\ session.kind = "primary" /\ session.status \notin Protected

SingleActive ==
  \A g, h \in Hash : generation[g].state \in Active /\ generation[h].state \in Active => g = h

OwnershipInv == SingleActive /\ \A h \in Hash : OwnerAt(h)

\* The session is one whose generations the worker may claim.
Retaining == session.kind = "primary" /\ session.status \notin Protected

Requested(h, r) == \E m \in wire : m.hash = h /\ m.replay = r

\* Generation h is the one to settle operation r: it is being sent, or waits for
\* a cleanup of a session that is not retained any more.
Holds(h, r) ==
  /\ generation[h].replay = r
  /\ generation[h].state \in Active \cup {"cleanup_pending"}
  /\ Retaining => generation[h].state \in Active

\* The operation was sent, and is not recorded as settled.
Sent(h, r) == Holds(h, r) /\ operation[h][r] \in {"submitting", "pending"}

\* A name that cannot be taken back is still there when it was recorded.
NameStays == tombstone # {} => kind = "configured" \/ "configured" \in Reverting

\* The session keeps a kind that is not to be retained, or the name it was
\* excluded by is found under the only identity it has.
Left == kind \notin Reverting \cup {"primary"} \/ (StoredKey \in tombstone /\ "aliased" \notin Origins)

\* A session that is not retained has left, and does not come back; only one that
\* disappeared from a database can, which left before anything was sent.
LeftForGood ==
  ~Retaining => Left \/ (origin = "database" /\ \A h \in Hash, r \in Replay : ~Sent(h, r))

\* What was sent for a session of a database is still to be settled.
SentIsHeld ==
  origin = "database" =>
    \A h \in Hash : operation[h][generation[h].replay] \in {"submitting", "pending"} =>
      Holds(h, generation[h].replay)

\* What the bank, the network and the rows say of one operation.
RemoteAt(h, r) ==
  /\ remote[h][r] # "absent" => body[h][r] # None
  /\ body[h][r] # None \/ Requested(h, r) => operation[h][r] \notin Unsent \cup {"none"}
  /\ <<h, r>> \in Open =>
       /\ operation[h][r] \in {"submitting", "pending"}
       /\ Holds(h, r)

\* A completed operation that was not acknowledged yet is the document.
LandedAt(h) ==
  LET r == generation[h].replay IN
  (/\ Retaining
   /\ generation[h].state \in Active
   /\ operation[h][r] \in {"submitting", "pending"}
   /\ remote[h][r] = "completed") => document = h

WriterInv ==
  /\ NameStays
  /\ LeftForGood
  /\ SentIsHeld
  /\ \A h \in Hash, r \in Replay : RemoteAt(h, r)
  /\ \A h \in Hash : LandedAt(h)
  /\ OneRemoteWriter

-----------------------------------------------------------------------------
(* What rows and document say of each other, and of a session that is over. *)

\* Where a task was found primary and has not recorded its intent to send.
Cleared == {"load", "preflight", "save", "record", "swap", "prepared", "inspect", "erase", "ready"}

\* No task goes on to send a session whose exclusion by name is recorded.
NothingToSend == StoredKey \in tombstone => \A h \in Hash : task[h].pc \notin Cleared

\* Only a state that comes from before the current retain policy has repairs.
RepairsAreUpgrades ==
  ~Upgraded =>
    /\ session.policy = "current"
    /\ \A h \in Hash : /\ generation[h].policy = "current" /\ ~generation[h].repair
                       /\ task[h].gen.policy = "current" /\ ~task[h].gen.repair
                       /\ task[h].pc # "inspect"

\* A document that a repair deleted is one whose replacement is on disk.
ErasedAt(h, r) == payload[h][r] = h /\ operation[h][r] # "completed"

ErasedInv ==
  document = None /\ session.ack # None => Upgraded /\ \E h \in Hash, r \in Replay : ErasedAt(h, r)

\* The document was written by an operation that is not recorded as completed.
Unacknowledged(h) ==
  LET r == generation[h].replay IN
  /\ document = h
  /\ Sent(h, r)
  /\ body[h][r] # None
  /\ remote[h][r] = "completed" \/ Forgets

AccountedInv ==
  document \in {session.ack, None} \/ Overwritten \/ \E h \in Hash : Unacknowledged(h)

\* Rows of a session that is acknowledged, unknown or excluded.
RowsInv ==
  /\ session.ack # None => generation[session.ack].state # "none"
  /\ \A h \in Hash : /\ generation[h].state # "none" => Known
                     /\ generation[h].state = "completed" => session.ack # None
                     /\ generation[h].state = "cleanup_pending" => ~Retaining \/ origin = "database"

DocumentInv == RepairsAreUpgrades /\ ErasedInv /\ AccountedInv /\ RowsInv

\* Before any cleanup command.
NotCleanedInv ==
  /\ session.status \in Protected => session.kind # "primary"
  /\ \A h \in Hash : generation[h].state # "excluded"
=============================================================================
