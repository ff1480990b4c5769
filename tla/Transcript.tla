----------------------------- MODULE Transcript -----------------------------
(***************************************************************************)
(* A coding agent's transcript and the canonical document the importer     *)
(* renders from it.  A transcript is the sequence of records the agent     *)
(* appended; a record is known by its place in it, and may name an earlier *)
(* record as its parent.  The four adapters read one record at a time and  *)
(* keep, for the records they have seen, whether a memory search precedes  *)
(* them: the mark a turn of the assistant gets depends on it.              *)
(*                                                                         *)
(* Texts are not modelled; a record's kind says what the adapters tell     *)
(* apart.                                                                  *)
(***************************************************************************)
EXTENDS Integers, Sequences

CONSTANT MaxRecords     \* bound on the length of a transcript

ASSUME TranscriptAssumption == MaxRecords \in Nat \ {0}

Agent == {"pi", "codex", "claude", "opencode"}

Entry == 1 .. MaxRecords

NoParent == 0

(***************************************************************************)
(* The kinds of records.                                                   *)
(*   user    a message of the user with text left after normalisation      *)
(*   quiet   a message with no visible text: a tool's result, or only      *)
(*           context that the harness injected                             *)
(*   answer  prose of the assistant                                        *)
(*   search  prose of the assistant and a memory search (Codex: the        *)
(*           function_call record of a memory search)                      *)
(*   tool    a call of another tool (Codex: its function_call record)      *)
(*   note    a record the adapter does not render: a derived entry of Pi,  *)
(*           a sidechain, meta, system, progress or summary record of      *)
(*           Claude, other roles of Codex and OpenCode                     *)
(*   broken  a complete line that is not a JSON record                     *)
(*   echo    a message of Codex with the role, content and time of an      *)
(*           earlier one                                                   *)
(***************************************************************************)
RecordKind(agent) ==
  {"user", "quiet", "answer", "search", "tool", "note", "broken"}
    \cup (IF agent = "codex" THEN {"echo"} ELSE {})

Record(agent) == [kind : RecordKind(agent), parent : Entry \cup {NoParent}]

\* A record that can follow transcript: linear ones name no parent, tree
\* ones name an earlier record, except the first.
Follows(transcript, record, shape) ==
  IF shape = "linear" \/ transcript = <<>>
  THEN record.parent = NoParent
  ELSE record.parent \in 1 .. Len(transcript)

Shape == {"linear", "tree"}

-----------------------------------------------------------------------------
(* What a message becomes, and what it leaves for the messages after it.   *)

Turn(entry, role, assisted) == [entry |-> entry, role |-> role, assisted |-> assisted]

\* addTextTurn and CanonicalSpool.add: the turns of one message, in order.
Rendered(entry, kind, pending) ==
  CASE kind = "user"   -> <<Turn(entry, "user", FALSE)>>
    [] kind = "answer" -> <<Turn(entry, "assistant", pending)>>
    [] kind = "search" -> <<Turn(entry, "assistant", pending), Turn(entry, "action", FALSE)>>
    [] kind = "tool"   -> <<Turn(entry, "action", FALSE)>>
    [] OTHER           -> <<>>

\* A search is pending after its call, and no longer after the user spoke.
PendingAfter(kind, pending) == kind = "search" \/ (pending /\ kind # "user")

(***************************************************************************)
(* What an adapter remembers while it reads: the entries after which a     *)
(* search is pending (entries that were not recorded read as not pending), *)
(* the same for the last record it recorded, and the turns so far.         *)
(***************************************************************************)
NothingRead == [pending |-> {}, sequential |-> FALSE, turns |-> <<>>]

Inherited(memory, parent) ==
  IF parent = NoParent THEN memory.sequential ELSE parent \in memory.pending

Remember(memory, entry, pending, turns) ==
  [pending    |-> IF pending THEN memory.pending \cup {entry} ELSE memory.pending,
   sequential |-> pending,
   turns      |-> memory.turns \o turns]

Message(memory, entry, record, before) ==
  Remember(memory, entry, PendingAfter(record.kind, before),
           Rendered(entry, record.kind, before))

\* Faulty: entries that are not rendered are not recorded.
PiMessage(memory, entry, record) ==
  IF record.kind = "note" THEN memory
  ELSE Message(memory, entry, record, Inherited(memory, record.parent))

\* Pi passes the state through every entry, rendered or not.
PiEntry(memory, entry, record) ==
  Message(memory, entry, record, Inherited(memory, record.parent))

\* Claude returns before it records an entry that it skips.
ClaudeRecord(memory, entry, record) ==
  IF record.kind = "note" THEN memory
  ELSE Message(memory, entry, record, Inherited(memory, record.parent))

\* OpenCode reads messages in the order of their creation.
OpenCodeMessage(memory, entry, record) ==
  IF record.kind = "note" THEN memory
  ELSE Message(memory, entry, record, Inherited(memory, record.parent))

\* Codex drops repeated messages; a call has no prose, and takes the state
\* of the last record, not of its parent.
CodexRecord(memory, entry, record) ==
  CASE record.kind \in {"note", "echo"} -> memory
    [] record.kind \in {"search", "tool"} ->
         Remember(memory, entry, PendingAfter(record.kind, memory.sequential),
                  <<Turn(entry, "action", FALSE)>>)
    [] OTHER -> Message(memory, entry, record, Inherited(memory, record.parent))

Step(agent, memory, entry, record) ==
  CASE agent = "pi"       -> PiEntry(memory, entry, record)
    [] agent = "claude"   -> ClaudeRecord(memory, entry, record)
    [] agent = "opencode" -> OpenCodeMessage(memory, entry, record)
    [] agent = "codex"    -> CodexRecord(memory, entry, record)

\* What an adapter remembers after each record of a transcript.
Memories(agent, transcript) ==
  LET read[n \in 0 .. Len(transcript)] ==
        IF n = 0 THEN NothingRead ELSE Step(agent, read[n - 1], n, transcript[n])
  IN read

\* The document of a whole transcript.
Canonical(agent, transcript) == Memories(agent, transcript)[Len(transcript)].turns

-----------------------------------------------------------------------------
(* The reference: the branch of a record is its parent's and the parent,   *)
(* or, where the format has no parents, everything before it.              *)

Before(transcript, entry) ==
  IF transcript[entry].parent = NoParent THEN entry - 1 ELSE transcript[entry].parent

\* Is the last search on the branch that ends with an entry newer than the
\* last message of the user on it?
Searched(transcript) ==
  LET searched[n \in 0 .. Len(transcript)] ==
        /\ n # 0
        /\ \/ transcript[n].kind = "search"
           \/ transcript[n].kind # "user" /\ searched[Before(transcript, n)]
  IN searched

\* Does turn carry the mark of its branch?
Marked(transcript, turn) ==
  turn.assisted <=> Searched(transcript)[Before(transcript, turn.entry)]

=============================================================================
