----------------------------- MODULE Hindsight -----------------------------
(***************************************************************************)
(* The remote Hindsight bank as one document of the importer sees it.      *)
(* Hindsight is not part of the repository: this module states what        *)
(* src/hindsight/client.ts and the importer rely on.  A retain request     *)
(* names its operation itself, is answered at once and is carried out      *)
(* later; an operation already known is not created a second time; a       *)
(* completed operation has replaced the content of the document.           *)
(*                                                                         *)
(* The operations of one document are numbered by the content they are     *)
(* made for and a replay number, as operationIdFor and                     *)
(* replayOperationIdFor derive their identifiers.                          *)
(***************************************************************************)
EXTENDS Naturals

CONSTANTS
  Hash,        \* canonical hashes of the non-empty contents of the session
  None,        \* no content, no value
  MaxReplay    \* bound on replay numbers

ASSUME HindsightAssumption == None \notin Hash \cup Nat /\ MaxReplay \in Nat

Replay == 0 .. MaxReplay

VARIABLES
  remote,      \* remote[h][r]: status of operation h, r in the bank
  body,        \* body[h][r]: content the bank received with that operation
  wire,        \* retain requests given up by the client but still in transit
  document     \* content of the remote document

remoteVars == <<remote, body, wire, document>>

RemoteStatus == {"absent", "pending", "processing", "completed", "failed"}

\* A retain request: the identity it asks for and the content it carries.
Request == [hash : Hash, replay : Replay, content : Hash]

RemoteTypeOK ==
  /\ remote \in [Hash -> [Replay -> RemoteStatus]]
  /\ body \in [Hash -> [Replay -> Hash \cup {None}]]
  /\ wire \subseteq Request
  /\ document \in Hash \cup {None}

Unfinished(h, r) == remote[h][r] \in {"pending", "processing"}

SetRemote(h, r, status) == remote' = [remote EXCEPT ![h][r] = status]

-----------------------------------------------------------------------------
\* A retain request reaches the bank: a known identity is kept as it is.
Receive(m) ==
  IF remote[m.hash][m.replay] = "absent"
  THEN /\ SetRemote(m.hash, m.replay, "pending")
       /\ body' = [body EXCEPT ![m.hash][m.replay] = m.content]
  ELSE UNCHANGED <<remote, body>>

\* A request the client gave up arrives after all ...
Deliver(m) ==
  /\ m \in wire
  /\ wire' = wire \ {m}
  /\ Receive(m)
  /\ UNCHANGED document

\* ... or never does.
Drop(m) ==
  /\ m \in wire
  /\ wire' = wire \ {m}
  /\ UNCHANGED <<remote, body, document>>

RemoteStart(h, r) ==
  /\ remote[h][r] = "pending"
  /\ SetRemote(h, r, "processing")
  /\ UNCHANGED <<body, wire, document>>

\* update_mode "replace": the content takes the place of the document.
RemoteComplete(h, r) ==
  /\ remote[h][r] = "processing"
  /\ SetRemote(h, r, "completed")
  /\ document' = body[h][r]
  /\ UNCHANGED <<body, wire>>

RemoteFail(h, r) ==
  /\ Unfinished(h, r)
  /\ SetRemote(h, r, "failed")
  /\ UNCHANGED <<body, wire, document>>

\* Terminal operation rows are pruned after a retention period far longer
\* than any request stays in transit.
Prune(h, r) ==
  /\ remote[h][r] \in {"completed", "failed"}
  /\ \A m \in wire : ~(m.hash = h /\ m.replay = r)
  /\ SetRemote(h, r, "absent")
  /\ UNCHANGED <<body, wire, document>>
=============================================================================
