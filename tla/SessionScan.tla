---------------------------- MODULE SessionScan -----------------------------
(***************************************************************************)
(* The scan of one session's source while its agent writes it: discovery   *)
(* and identity, fingerprint and settling, the adapter's streaming load    *)
(* into a spool, the second fingerprint, and what the scan leaves in the   *)
(* evidence index and in the state database.  What is queued from there is *)
(* Importer's subject.                                                     *)
(*                                                                         *)
(* The index and the state database are two SQLite files: a crash can fall *)
(* between the writes to them.  Scans run under the importer's lock, one   *)
(* at a time.                                                              *)
(***************************************************************************)
EXTENDS Transcript, FiniteSets, SequencesExt

CONSTANTS
  Agents,        \* the agents to consider
  Shapes,        \* the shapes of transcripts to consider
  Resting,       \* longest transcript that was written before the first scan
  Growing,       \* kinds of records that are written while scans run
  MaxChanges,    \* bound on what the agent and its user do meanwhile
  MaxFaults,     \* bound on crashes and index errors
  MaxTurns,      \* maxCanonicalBytes, counted in turns; the line that names the
                 \* document fits
  None

ASSUME SessionScanAssumption ==
  /\ Agents \subseteq Agent /\ Shapes \subseteq Shape
  /\ \A a \in Agents : Growing \subseteq RecordKind(a)
  /\ Resting \in 0 .. MaxRecords
  /\ MaxChanges \in Nat /\ MaxFaults \in Nat /\ MaxTurns \in Nat \ {0}

Attempts == 2      \* SOURCE_READ_ATTEMPTS

VARIABLES
  agent, shape,  \* of the session; they never change
  header,        \* is the first line of the file complete?
  file,          \* the complete records of the source
  tail,          \* the record that is being written after them, or None
  primary,       \* what discovery makes of the session: primary, or excluded
  changes,       \* what the agent and its user did so far
  alias,         \* session_aliases: the identity of the locator, or None
  session,       \* sessions, by identity
  candidate,     \* scan_candidates, by identity: a fingerprint, or None
  index,         \* the evidence index, by identity: indexed turns, or None
  spools,        \* files left in the spool directory
  scan,          \* the scan in progress
  faults

sourceVars == <<agent, shape, header, file, tail, primary, changes>>
stateVars == <<alias, session, candidate>>
vars == <<sourceVars, stateVars, index, spools, scan, faults>>

-----------------------------------------------------------------------------
(* Identity, fingerprint, rows.                                            *)

Identity == {"provisional", "native"}

\* A first line that is not terminated is not read yet.
HeaderRead == header

\* Until its header is read a session has a provisional identity; OpenCode
\* names its sessions itself.
FileIdentity == IF HeaderRead THEN "native" ELSE "provisional"

DatabaseIdentity == "native"

NativeIdentity == IF agent = "opencode" THEN DatabaseIdentity ELSE FileIdentity

\* What a fingerprint tells apart: of a file, the complete records and the
\* unfinished one, and of Codex the label of the session the header names;
\* of OpenCode, the rows and the title.
FileFingerprint ==
  [header |-> header, size |-> Len(file), partial |-> tail # None, label |-> TRUE]

CodexFingerprint == [FileFingerprint EXCEPT !.label = HeaderRead => primary]

DatabaseFingerprint ==
  [header |-> TRUE, size |-> Len(file), partial |-> FALSE, label |-> primary]

Fingerprint ==
  CASE agent = "codex"    -> CodexFingerprint
    [] agent = "opencode" -> DatabaseFingerprint
    [] OTHER              -> FileFingerprint

Fingerprints ==
  [header : BOOLEAN, size : 0 .. MaxRecords, partial : BOOLEAN, label : BOOLEAN]

Turns == Seq([entry : Entry, role : {"user", "assistant", "action"}, assisted : BOOLEAN])

\* A session row: where its content comes from, and what it is.
SessionRow ==
  [fingerprint : Fingerprints, turns : Turns, status : {"empty", "current", "excluded"}]

ASSUME NoneAssumption == None \notin SessionRow \cup Identity

Row(fingerprint, turns) ==
  [fingerprint |-> fingerprint, turns |-> turns,
   status |-> IF turns = <<>> THEN "empty" ELSE "current"]

NoScan ==
  [pc |-> "idle", identity |-> "native", primary |-> TRUE, before |-> None,
   attempt |-> 0, view |-> <<>>, at |-> 0, memory |-> NothingRead]

\* OpenCode is read in one transaction, the others as far as their file
\* reaches at the moment it is read.
Content == IF agent = "opencode" THEN scan.view ELSE file

-----------------------------------------------------------------------------
Transcripts(a, s, n) ==
  {t \in [1 .. n -> Record(a)] : \A i \in 1 .. n : Follows(SubSeq(t, 1, i - 1), t[i], s)}

\* A transcript that is complete, or one the agent is about to write.
AtRest ==
  /\ header = TRUE
  /\ \E n \in 0 .. Resting : file \in Transcripts(agent, shape, n)
  /\ changes = MaxChanges

BeingWritten ==
  /\ shape = "linear"
  /\ header = (agent = "opencode")
  /\ file = <<>>
  /\ changes = 0

Init ==
  /\ agent \in Agents /\ shape \in Shapes
  /\ AtRest \/ BeingWritten
  /\ tail = None
  /\ primary = TRUE
  /\ alias = None
  /\ session = [id \in Identity |-> None]
  /\ candidate = [id \in Identity |-> None]
  /\ index = [id \in Identity |-> None]
  /\ spools = 0
  /\ scan = NoScan
  /\ faults = 0

-----------------------------------------------------------------------------
(* The agent writes line by line, OpenCode row by row; its user renames or *)
(* restores the session.                                                   *)

Changing == changes < MaxChanges /\ changes' = changes + 1

CompleteHeader ==
  /\ ~header
  /\ Changing
  /\ header' = TRUE
  /\ UNCHANGED <<agent, shape, file, tail, primary, stateVars, index, spools, scan, faults>>

BeginRecord(record) ==
  /\ agent # "opencode"
  /\ header /\ tail = None /\ Len(file) < MaxRecords
  /\ Follows(file, record, shape)
  /\ Changing
  /\ tail' = record
  /\ UNCHANGED <<agent, shape, header, file, primary, stateVars, index, spools, scan, faults>>

EndRecord ==
  /\ tail # None
  /\ file' = Append(file, tail)
  /\ tail' = None
  /\ UNCHANGED <<agent, shape, header, primary, changes, stateVars, index, spools, scan, faults>>

CommitMessage(record) ==
  /\ agent = "opencode"
  /\ Len(file) < MaxRecords
  /\ Follows(file, record, shape)
  /\ Changing
  /\ file' = Append(file, record)
  /\ UNCHANGED <<agent, shape, header, tail, primary, stateVars, index, spools, scan, faults>>

Reclassify ==
  /\ Changing
  /\ primary' = ~primary
  /\ UNCHANGED <<agent, shape, header, file, tail, stateVars, index, spools, scan, faults>>

AgentStep ==
  \/ CompleteHeader
  \/ EndRecord
  \/ Reclassify
  \/ \E record \in [kind : Growing, parent : Entry \cup {NoParent}] :
       BeginRecord(record) \/ CommitMessage(record)

-----------------------------------------------------------------------------
(* Discovery, and what the scan makes of the session before it reads it.   *)

\* effectiveReference: an identity that was stored once stays.
\* Faulty: the alias is not consulted.
DiscoverAnew ==
  /\ scan.pc = "idle"
  /\ scan' = [NoScan EXCEPT
       !.pc = "judge",
       !.identity = NativeIdentity,
       !.primary = primary]
  /\ UNCHANGED <<sourceVars, stateVars, index, spools, faults>>

Discover ==
  /\ scan.pc = "idle"
  /\ scan' = [NoScan EXCEPT
       !.pc = "judge",
       !.identity = IF alias # None THEN alias ELSE NativeIdentity,
       !.primary = primary]
  /\ UNCHANGED <<sourceVars, stateVars, index, spools, faults>>

\* Faulty: the evidence stays.
ExcludeRow ==
  /\ scan.pc = "judge" /\ ~scan.primary
  /\ LET id == scan.identity IN
       /\ candidate' = [candidate EXCEPT ![id] = None]
       /\ session' = IF session[id] = None THEN session
                     ELSE [session EXCEPT ![id].status = "excluded"]
  /\ scan' = NoScan
  /\ UNCHANGED <<sourceVars, alias, index, spools, faults>>

\* A session that is not primary: its evidence goes before its row changes.
Exclude ==
  /\ scan.pc = "judge" /\ ~scan.primary
  /\ LET id == scan.identity IN
       /\ candidate' = [candidate EXCEPT ![id] = None]
       /\ IF session[id] = None THEN UNCHANGED <<session, index>>
          ELSE /\ index' = [index EXCEPT ![id] = None]
               /\ session' = [session EXCEPT ![id].status = "excluded"]
  /\ scan' = NoScan
  /\ UNCHANGED <<sourceVars, alias, spools, faults>>

\* Faulty: the index is not compared.
UnchangedSource(id) ==
  /\ session[id] # None
  /\ session[id].fingerprint = Fingerprint

\* The content the row was made from is the source's, and is indexed.
Unchanged(id) ==
  /\ session[id] # None
  /\ session[id].status = "empty" \/ index[id] = session[id].turns
  /\ session[id].fingerprint = Fingerprint

SkipUnchanged ==
  /\ scan.pc = "judge" /\ scan.primary
  /\ Unchanged(scan.identity)
  /\ candidate' = [candidate EXCEPT ![scan.identity] = None]
  /\ scan' = NoScan
  /\ UNCHANGED <<sourceVars, alias, session, index, spools, faults>>

\* A changed source waits until a later scan finds it as it is now.  A scan
\* that comes before the settling time is over changes nothing.
Defer ==
  /\ scan.pc = "judge" /\ scan.primary
  /\ ~Unchanged(scan.identity)
  /\ candidate[scan.identity] # Fingerprint
  /\ candidate' = [candidate EXCEPT ![scan.identity] = Fingerprint]
  /\ scan' = NoScan
  /\ UNCHANGED <<sourceVars, alias, session, index, spools, faults>>

\* The load begins with a new spool.
Loading(attempt) ==
  [scan EXCEPT !.pc = "load", !.attempt = attempt, !.before = Fingerprint,
               !.view = IF agent = "opencode" THEN file ELSE <<>>,
               !.at = 0, !.memory = NothingRead]

StartLoad ==
  /\ scan.pc = "judge" /\ scan.primary
  /\ ~Unchanged(scan.identity)
  /\ candidate[scan.identity] = Fingerprint
  /\ candidate' = [candidate EXCEPT ![scan.identity] = None]
  /\ scan' = Loading(1)
  /\ spools' = spools + 1
  /\ UNCHANGED <<sourceVars, alias, session, index, faults>>

-----------------------------------------------------------------------------
(* The load: one complete line, or one message, at a time.                 *)

Unread == scan.pc = "load" /\ scan.at < Len(Content)

Reading == Step(agent, scan.memory, scan.at + 1, Content[scan.at + 1])

\* The first line of a document names it; the rest are turns.
Fits(memory) == Len(memory.turns) < MaxTurns

\* Faulty: a line is counted twice.
ReadRecordTwice ==
  /\ Unread
  /\ Content[scan.at + 1].kind # "broken"
  /\ Fits(Reading)
  /\ scan' = [scan EXCEPT !.at = @ + 2, !.memory = Reading]
  /\ UNCHANGED <<sourceVars, stateVars, index, spools, faults>>

ReadRecord ==
  /\ Unread
  /\ Content[scan.at + 1].kind # "broken"
  /\ Fits(Reading)
  /\ scan' = [scan EXCEPT !.at = @ + 1, !.memory = Reading]
  /\ UNCHANGED <<sourceVars, stateVars, index, spools, faults>>

\* Faulty: the error leaves the spool.
LoadFailsOpen ==
  /\ Unread
  /\ Content[scan.at + 1].kind = "broken" \/ ~Fits(Reading)
  /\ scan' = NoScan
  /\ UNCHANGED <<sourceVars, stateVars, index, spools, faults>>

\* A malformed line, or one turn too many: the error is recorded, and the
\* spool is removed.
LoadFails ==
  /\ Unread
  /\ Content[scan.at + 1].kind = "broken" \/ ~Fits(Reading)
  /\ scan' = NoScan
  /\ spools' = spools - 1
  /\ UNCHANGED <<sourceVars, stateVars, index, faults>>

\* What follows the last newline is left to the next scan.
EndOfSource ==
  /\ scan.pc = "load" /\ scan.at = Len(Content)
  /\ scan' = [scan EXCEPT !.pc = "check"]
  /\ UNCHANGED <<sourceVars, stateVars, index, spools, faults>>

\* The source changed under the load: once more, with what it is now.
Reload ==
  /\ scan.pc = "check" /\ Fingerprint # scan.before
  /\ scan.attempt < Attempts
  /\ scan' = Loading(scan.attempt + 1)
  /\ UNCHANGED <<sourceVars, stateVars, index, spools, faults>>

GiveUp ==
  /\ scan.pc = "check" /\ Fingerprint # scan.before
  /\ scan.attempt = Attempts
  /\ scan' = NoScan
  /\ spools' = spools - 1
  /\ UNCHANGED <<sourceVars, stateVars, index, faults>>

\* Faulty: the fingerprint is not read again.
AcceptUnseen ==
  /\ scan.pc = "check"
  /\ scan' = [scan EXCEPT !.pc = "index"]
  /\ UNCHANGED <<sourceVars, stateVars, index, spools, faults>>

Accept ==
  /\ scan.pc = "check" /\ Fingerprint = scan.before
  /\ scan' = [scan EXCEPT !.pc = "index"]
  /\ UNCHANGED <<sourceVars, stateVars, index, spools, faults>>

-----------------------------------------------------------------------------
(* What the scan leaves behind.                                            *)

\* indexEvidence replaces the passages in one transaction.
WriteIndex ==
  /\ scan.pc = "index"
  /\ index' = [index EXCEPT ![scan.identity] =
                 IF scan.memory.turns = <<>> THEN None ELSE scan.memory.turns]
  /\ scan' = [scan EXCEPT !.pc = "store"]
  /\ UNCHANGED <<sourceVars, stateVars, spools, faults>>

StoreSession ==
  /\ scan.pc = "store"
  /\ session' = [session EXCEPT ![scan.identity] = Row(scan.before, scan.memory.turns)]
  /\ scan' = [scan EXCEPT !.pc = "alias"]
  /\ UNCHANGED <<sourceVars, alias, candidate, index, spools, faults>>

StoreAlias ==
  /\ scan.pc = "alias"
  /\ alias' = scan.identity
  /\ scan' = NoScan
  /\ spools' = spools - 1
  /\ UNCHANGED <<sourceVars, session, candidate, index, faults>>

-----------------------------------------------------------------------------
(* Faults.                                                                 *)

Fault == faults < MaxFaults /\ faults' = faults + 1

Crash ==
  /\ scan.pc # "idle"
  /\ Fault
  /\ scan' = NoScan
  /\ UNCHANGED <<sourceVars, stateVars, index, spools>>

\* Between the removal of the evidence and the change of the row.
CrashInExclusion ==
  /\ scan.pc = "judge" /\ ~scan.primary
  /\ session[scan.identity] # None
  /\ Fault
  /\ candidate' = [candidate EXCEPT ![scan.identity] = None]
  /\ index' = [index EXCEPT ![scan.identity] = None]
  /\ scan' = NoScan
  /\ UNCHANGED <<sourceVars, alias, session, spools>>

\* The index is locked or full: the transaction is rolled back.
IndexFails ==
  /\ scan.pc = "index"
  /\ Fault
  /\ scan' = NoScan
  /\ spools' = spools - 1
  /\ UNCHANGED <<sourceVars, stateVars, index>>

-----------------------------------------------------------------------------
ScanStep ==
  \/ Discover \/ Exclude \/ SkipUnchanged \/ Defer \/ StartLoad
  \/ ReadRecord \/ LoadFails \/ EndOfSource \/ Reload \/ GiveUp \/ Accept
  \/ WriteIndex \/ StoreSession \/ StoreAlias

FaultStep == Crash \/ CrashInExclusion \/ IndexFails

Next == AgentStep \/ ScanStep \/ FaultStep

Spec == Init /\ [][Next]_vars

\* The daemon scans again and again, whatever the outcome of a scan.
Fairness == WF_vars(ScanStep)

FairSpec == Spec /\ Fairness

-----------------------------------------------------------------------------
(* Properties.                                                             *)

TypeOK ==
  /\ agent \in Agent /\ shape \in Shape
  /\ header \in BOOLEAN /\ primary \in BOOLEAN
  /\ Len(file) <= MaxRecords /\ file \in Seq(Record(agent))
  /\ tail \in Record(agent) \cup {None}
  /\ changes \in 0 .. MaxChanges /\ faults \in 0 .. MaxFaults
  /\ alias \in Identity \cup {None}
  /\ candidate \in [Identity -> Fingerprints \cup {None}]
  /\ spools \in Nat
  /\ scan.pc \in {"idle", "judge", "load", "check", "index", "store", "alias"}
  /\ scan.at \in 0 .. MaxRecords /\ scan.attempt \in 0 .. Attempts
  /\ scan.memory.pending \subseteq Entry
  /\ scan.memory.turns \in Turns
  /\ session \in [Identity -> SessionRow \cup {None}]
  /\ index \in [Identity -> Turns \cup {None}]

\* A stored row describes the content its fingerprint stands for, all of it
\* and nothing else, although the agent wrote while it was read: a document
\* is never cut off, and never made from a transcript with a malformed line.
StoredIsWhole ==
  \A id \in Identity : session[id] # None =>
    LET content == SubSeq(file, 1, session[id].fingerprint.size) IN
    /\ \A i \in DOMAIN content : content[i].kind # "broken"
    /\ session[id].turns = Canonical(agent, content)
    /\ Len(session[id].turns) < MaxTurns

\* Prose of the assistant is marked when, and only when, a memory search is
\* newer on its branch than the last message of the user: for every format
\* of Pi, and for transcripts without branches of every agent.
BranchIsMarked ==
  agent = "pi" \/ shape = "linear" =>
    \A i \in DOMAIN scan.memory.turns :
      scan.memory.turns[i].role = "assistant" => Marked(Content, scan.memory.turns[i])

\* Without a crash a session has one identity, although its first line was
\* incomplete when it was seen first.
OneIdentity ==
  faults = 0 => Cardinality({id \in Identity : session[id] # None}) <= 1

\* Between scans no spool is left of a load that ended, however it ended.
SpoolsAreRemoved == scan.pc = "idle" => spools <= faults

\* Without faults the index holds, between scans, the stored content of a
\* current session and nothing of an excluded one.
EvidenceFollows ==
  scan.pc = "idle" /\ faults = 0 =>
    \A id \in Identity :
      index[id] = IF session[id] # None /\ session[id].status = "current"
                  THEN session[id].turns ELSE None

\* Of claude's marks too: the reference of docs/CANONICAL-FORMAT.md.
EveryBranchIsMarked ==
  \A i \in DOMAIN scan.memory.turns :
    scan.memory.turns[i].role = "assistant" => Marked(Content, scan.memory.turns[i])

Readable ==
  /\ \A i \in DOMAIN file : file[i].kind # "broken"
  /\ Len(Canonical(agent, file)) < MaxTurns

\* A source that stops changing is stored as it is, and indexed.
QuietIsStored ==
  <>[](primary /\ Readable =>
         \E id \in Identity :
           /\ session[id] # None
           /\ session[id].fingerprint = Fingerprint
           /\ session[id].status = "empty" \/ index[id] = session[id].turns)

=============================================================================
