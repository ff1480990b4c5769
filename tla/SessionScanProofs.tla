------------------------- MODULE SessionScanProofs --------------------------
(***************************************************************************)
(* What a scan of a session leaves behind, for transcripts of any length,  *)
(* any number of changes under the scan and any number of faults: spools,  *)
(* identities, documents with their marks, and the evidence index beside   *)
(* the session rows.                                                       *)
(***************************************************************************)
EXTENDS SessionScan, SequenceTheorems, FiniteSetTheorems, NaturalsInduction,
        WellFoundedInduction, TLAPS

Memory == [pending : SUBSET Entry, sequential : BOOLEAN, turns : Turns]

PC == {"idle", "judge", "load", "check", "index", "store", "alias"}

ScanRecord ==
  [pc : PC, identity : Identity, primary : BOOLEAN, before : Fingerprints \cup {None},
   attempt : 0 .. Attempts, view : Seq(Record(agent)), at : 0 .. MaxRecords,
   memory : Memory]

\* The spool of the scan is there.
HasSpool == scan.pc \in {"load", "check", "index", "store", "alias"}

SourceInv ==
  /\ agent \in Agents /\ agent \in Agent /\ shape \in Shape
  /\ header \in BOOLEAN /\ primary \in BOOLEAN
  /\ file \in Seq(Record(agent)) /\ Len(file) <= MaxRecords
  /\ tail \in Record(agent) \cup {None}
  /\ tail # None => Len(file) < MaxRecords
  /\ agent = "opencode" => tail = None
  /\ changes \in 0 .. MaxChanges

ScanInv ==
  /\ scan \in ScanRecord
  /\ Len(scan.view) <= MaxRecords
  /\ HasSpool => scan.before \in Fingerprints
  /\ faults \in 0 .. MaxFaults

StateInv ==
  /\ alias \in Identity \cup {None}
  /\ session \in [Identity -> SessionRow \cup {None}]
  /\ candidate \in [Identity -> Fingerprints \cup {None}]
  /\ index \in [Identity -> Turns \cup {None}]

\* A crash leaves one spool at most.
SpoolInv ==
  /\ spools \in Nat
  /\ HasSpool => spools >= 1
  /\ spools <= faults + 1
  /\ ~HasSpool => spools <= faults

\* A row is known by the alias, or the scan that wrote it is about to say so.
IdentityInv ==
  faults = 0 =>
    /\ \A id \in Identity : session[id] # None =>
         \/ alias # None /\ alias = id
         \/ scan.pc = "alias" /\ scan.identity = id
    /\ alias # None /\ scan.pc # "idle" => scan.identity = alias

\* What the index ought to hold for a row.
Indexed(id) ==
  IF session[id] # None /\ session[id].status = "current" THEN session[id].turns ELSE None

Passages == IF scan.memory.turns = <<>> THEN None ELSE scan.memory.turns

\* Between its two writes, the index is ahead of the row.
EvidenceInv ==
  faults = 0 =>
    \A id \in Identity :
      index[id] = IF scan.pc = "store" /\ scan.identity = id THEN Passages ELSE Indexed(id)

\* Two transcripts begin with the same k records.
SameStart(t, u, k) ==
  /\ k \in Nat /\ k <= Len(t) /\ k <= Len(u)
  /\ \A i \in 1 .. k : t[i] = u[i]

\* A record names an earlier one as its parent; without branches it names none.
ParentsInv ==
  /\ \A i \in 1 .. Len(file) :
       file[i].parent \in 0 .. i - 1 /\ (shape = "linear" => file[i].parent = NoParent)
  /\ tail # None => tail.parent \in 0 .. Len(file) /\ (shape = "linear" => tail.parent = NoParent)

\* What a scan remembers is what the adapter makes of the first records of the
\* file, all of them readable; at the end of a load it is all of what its
\* fingerprint stands for.
LoadInv ==
  /\ agent = "opencode" => SameStart(scan.view, file, Len(scan.view))
  /\ scan.at <= Len(Content)
  /\ scan.memory = Memories(agent, file)[scan.at]
  /\ \A i \in 1 .. scan.at : file[i].kind # "broken"
  /\ Len(scan.memory.turns) < MaxTurns
  /\ HasSpool => scan.before.size <= Len(Content)
  /\ scan.pc = "check" => scan.at >= scan.before.size
  /\ scan.pc \in {"index", "store", "alias"} => scan.at = scan.before.size

\* A row is made of the first records of the file.
WholeRow(row) ==
  LET size == row.fingerprint.size IN
  /\ size <= Len(file)
  /\ \A i \in 1 .. size : file[i].kind # "broken"
  /\ row.turns = Memories(agent, file)[size].turns
  /\ Len(row.turns) < MaxTurns

RowsInv == \A id \in Identity : session[id] # None => WholeRow(session[id])

TypeInv == SourceInv /\ ScanInv /\ StateInv

DocumentInv == ParentsInv /\ LoadInv /\ RowsInv

ScanningInv == TypeInv /\ SpoolInv /\ IdentityInv /\ EvidenceInv /\ DocumentInv

-----------------------------------------------------------------------------
(* The adapters.                                                           *)

TurnRecord == [entry : Entry, role : {"user", "assistant", "action"}, assisted : BOOLEAN]

LEMMA ShortSeq ==
  ASSUME NEW S, NEW x \in S, NEW y \in S
  PROVE  <<x>> \in Seq(S) /\ <<x, y>> \in Seq(S) /\ <<>> \in Seq(S)
OBVIOUS

LEMMA RenderedType ==
  ASSUME NEW entry \in Entry, NEW kind, NEW pending \in BOOLEAN
  PROVE  Rendered(entry, kind, pending) \in Turns
<1>1. /\ Turn(entry, "user", FALSE) \in TurnRecord
      /\ Turn(entry, "assistant", pending) \in TurnRecord
      /\ Turn(entry, "action", FALSE) \in TurnRecord
  BY DEF Turn, TurnRecord
<1>2. Turns = Seq(TurnRecord)
  BY DEF Turns, TurnRecord
<1>3. <<Turn(entry, "user", FALSE)>> \in Turns
  BY <1>1, <1>2, ShortSeq
<1>4. <<Turn(entry, "assistant", pending)>> \in Turns
  BY <1>1, <1>2, ShortSeq
<1>5. <<Turn(entry, "assistant", pending), Turn(entry, "action", FALSE)>> \in Turns
  BY <1>1, <1>2, ShortSeq
<1>6. <<Turn(entry, "action", FALSE)>> \in Turns
  BY <1>1, <1>2, ShortSeq
<1>7. <<>> \in Turns
  BY <1>1, <1>2, ShortSeq
<1> QED BY <1>3, <1>4, <1>5, <1>6, <1>7 DEF Rendered

LEMMA RememberType ==
  ASSUME NEW memory \in Memory, NEW entry \in Entry, NEW pending \in BOOLEAN,
         NEW turns \in Turns
  PROVE  Remember(memory, entry, pending, turns) \in Memory
<1>1. memory.turns \o turns \in Turns
  BY ConcatProperties DEF Memory, Turns
<1>2. (IF pending THEN memory.pending \cup {entry} ELSE memory.pending) \in SUBSET Entry
  BY DEF Memory
<1> QED BY <1>1, <1>2 DEF Remember, Memory

LEMMA MessageType ==
  ASSUME NEW memory \in Memory, NEW entry \in Entry, NEW record, NEW before \in BOOLEAN
  PROVE  Message(memory, entry, record, before) \in Memory
<1>1. PendingAfter(record.kind, before) \in BOOLEAN
  BY DEF PendingAfter
<1> QED BY <1>1, RenderedType, RememberType DEF Message

\* Whatever the record, an adapter's memory keeps its shape.
LEMMA StepType ==
  ASSUME NEW memory \in Memory, NEW entry \in Entry, NEW record, NEW a \in Agent
  PROVE  Step(a, memory, entry, record) \in Memory
<1>1. Inherited(memory, record.parent) \in BOOLEAN
  <2>1. (record.parent \in memory.pending) \in BOOLEAN
    OBVIOUS
  <2>2. memory.sequential \in BOOLEAN
    BY DEF Memory
  <2> QED BY <2>1, <2>2 DEF Inherited
<1>2. Message(memory, entry, record, Inherited(memory, record.parent)) \in Memory
  BY <1>1, MessageType
<1>3. PendingAfter(record.kind, memory.sequential) \in BOOLEAN
  BY DEF PendingAfter, Memory
<1>4. <<Turn(entry, "action", FALSE)>> \in Turns
  BY DEF Turn, Turns
<1>5. Remember(memory, entry, PendingAfter(record.kind, memory.sequential),
               <<Turn(entry, "action", FALSE)>>) \in Memory
  BY <1>3, <1>4, RememberType
<1> QED
  BY <1>2, <1>5 DEF Step, PiEntry, ClaudeRecord, OpenCodeMessage, CodexRecord, Agent

LEMMA NothingReadType == NothingRead \in Memory
BY DEF NothingRead, Memory, Turns

-----------------------------------------------------------------------------
(* Recursion over the records of a transcript.                             *)

\* Induction for a set of numbers: the induction theorems of the library have an
\* operator as their parameter, the one on minimal elements has a set.
LEMMA NatSetInduction ==
  ASSUME NEW S, 0 \in S, \A n \in Nat : n \in S => n + 1 \in S
  PROVE  Nat \subseteq S
<1> DEFINE rest == Nat \ S
<1>1. SUFFICES ASSUME rest # {}
               PROVE  FALSE
  OBVIOUS
<1>2. PICK x \in rest : \A y \in rest : ~ (<<y, x>> \in OpToRel(<, Nat))
  BY <1>1, NatLessThanWellFounded, WFMin
<1>3. x \in Nat /\ x # 0
  BY <1>2
<1>4. x - 1 \in Nat /\ x - 1 < x
  BY <1>3
<1>5. <<x - 1, x>> \in OpToRel(<, Nat)
  BY <1>3, <1>4 DEF OpToRel
<1>6. x - 1 \in S
  BY <1>2, <1>4, <1>5
<1>7. PICK n \in Nat : n = x - 1
  BY <1>4
<1>8. n + 1 = x /\ n \in S
  BY <1>3, <1>6, <1>7
<1> QED BY <1>2, <1>8

\* What an adapter remembers after each of the first n records, as a function
\* that satisfies the equation of Memories.
Reads(a, t, f, n) ==
  /\ f \in [0 .. n -> Memory]
  /\ f[0] = NothingRead
  /\ \A m \in 1 .. n : f[m] = Step(a, f[m - 1], m, t[m])

\* There is one: each record adds its own.
LEMMA ReadsExist ==
  ASSUME NEW a \in Agent, NEW t, Len(t) \in 0 .. MaxRecords
  PROVE  \E f : Reads(a, t, f, Len(t))
<1> USE TranscriptAssumption
<1> DEFINE S == {n \in Nat : n <= Len(t) => \E f : Reads(a, t, f, n)}
<1>1. 0 \in S
  <2>1. Reads(a, t, [m \in 0 .. 0 |-> NothingRead], 0)
    BY NothingReadType DEF Reads
  <2> QED BY <2>1
<1>2. ASSUME NEW n \in Nat, n \in S
      PROVE  n + 1 \in S
  <2>1. SUFFICES ASSUME n + 1 <= Len(t)
                 PROVE  \E f : Reads(a, t, f, n + 1)
    OBVIOUS
  <2>2. PICK f : Reads(a, t, f, n)
    BY <1>2, <2>1
  <2>3. f \in [0 .. n -> Memory] /\ f[0] = NothingRead
        /\ \A m \in 1 .. n : f[m] = Step(a, f[m - 1], m, t[m])
    BY <2>2 DEF Reads
  <2> DEFINE last == Step(a, f[n], n + 1, t[n + 1])
             g == [m \in 0 .. n + 1 |-> IF m = n + 1 THEN last ELSE f[m]]
  <2>4. last \in Memory
    BY <2>1, <2>3, StepType DEF Entry
  <2>5. g[n + 1] = last /\ \A m \in 0 .. n : g[m] = f[m]
    OBVIOUS
  <2>6. g \in [0 .. n + 1 -> Memory]
    BY <2>3, <2>4
  <2>7. ASSUME NEW m \in 1 .. n + 1
        PROVE  g[m] = Step(a, g[m - 1], m, t[m])
    <3>1. CASE m = n + 1
      BY <2>5, <3>1
    <3>2. CASE m # n + 1
      <4>1. m \in 1 .. n /\ m - 1 \in 0 .. n /\ m \in 0 .. n
        BY <3>2
      <4> QED BY <2>3, <2>5, <4>1
    <3> QED BY <3>1, <3>2
  <2> HIDE DEF g
  <2> QED BY <2>3, <2>5, <2>6, <2>7 DEF Reads
<1> HIDE DEF S
<1>3. Nat \subseteq S
  BY <1>1, <1>2, NatSetInduction
<1> QED BY <1>3 DEF S

\* So Memories does satisfy its equation.
LEMMA MemoriesStep ==
  ASSUME NEW a \in Agent, NEW t, Len(t) \in 0 .. MaxRecords
  PROVE  /\ Memories(a, t)[0] = NothingRead
         /\ \A n \in 1 .. Len(t) : Memories(a, t)[n] = Step(a, Memories(a, t)[n - 1], n, t[n])
<1> DEFINE IsRead(f) == f = [n \in 0 .. Len(t) |->
                          IF n = 0 THEN NothingRead ELSE Step(a, f[n - 1], n, t[n])]
<1>1. Memories(a, t) = CHOOSE f : IsRead(f)
  BY DEF Memories
<1>2. PICK f : Reads(a, t, f, Len(t))
  BY ReadsExist
<1>3. IsRead(f)
  <2>1. f = [n \in 0 .. Len(t) |-> f[n]]
    BY <1>2 DEF Reads
  <2>2. ASSUME NEW n \in 0 .. Len(t)
        PROVE  f[n] = IF n = 0 THEN NothingRead ELSE Step(a, f[n - 1], n, t[n])
    BY <1>2, TranscriptAssumption DEF Reads
  <2> HIDE DEF IsRead
  <2>3. [n \in 0 .. Len(t) |-> f[n]] = [n \in 0 .. Len(t) |->
           IF n = 0 THEN NothingRead ELSE Step(a, f[n - 1], n, t[n])]
    BY <2>2
  <2> QED BY <2>1, <2>3 DEF IsRead
<1> HIDE DEF IsRead
<1>4. IsRead(Memories(a, t))
  BY <1>1, <1>3
<1> DEFINE g == Memories(a, t)
<1>5. g = [n \in 0 .. Len(t) |-> IF n = 0 THEN NothingRead ELSE Step(a, g[n - 1], n, t[n])]
  BY <1>4 DEF IsRead
<1> HIDE DEF g
<1>6. /\ g[0] = NothingRead
      /\ \A n \in 1 .. Len(t) : g[n] = Step(a, g[n - 1], n, t[n])
  BY <1>5, TranscriptAssumption
<1> QED BY <1>6 DEF g

\* What an adapter remembers after some records depends on nothing after them.
LEMMA MemoriesOfStart ==
  ASSUME NEW a \in Agent, NEW t, NEW u, Len(t) \in 0 .. MaxRecords, Len(u) \in 0 .. MaxRecords,
         NEW k, SameStart(t, u, k)
  PROVE  \A n \in 0 .. k : Memories(a, t)[n] = Memories(a, u)[n]
<1> USE TranscriptAssumption DEF SameStart
<1> DEFINE S == {n \in Nat : n <= k => Memories(a, t)[n] = Memories(a, u)[n]}
<1>1. 0 \in S
  BY MemoriesStep
<1>2. ASSUME NEW n \in Nat, n \in S
      PROVE  n + 1 \in S
  <2>1. SUFFICES ASSUME n + 1 <= k
                 PROVE  Memories(a, t)[n + 1] = Memories(a, u)[n + 1]
    OBVIOUS
  <2>2. n + 1 \in 1 .. Len(t) /\ n + 1 \in 1 .. Len(u) /\ t[n + 1] = u[n + 1] /\ (n + 1) - 1 = n
    BY <2>1
  <2>3. Memories(a, t)[n + 1] = Step(a, Memories(a, t)[n], n + 1, t[n + 1])
    BY <2>2, MemoriesStep
  <2>4. Memories(a, u)[n + 1] = Step(a, Memories(a, u)[n], n + 1, u[n + 1])
    BY <2>2, MemoriesStep
  <2>5. Memories(a, t)[n] = Memories(a, u)[n]
    BY <1>2, <2>1
  <2> QED BY <2>2, <2>3, <2>4, <2>5
<1> HIDE DEF S
<1>3. Nat \subseteq S
  BY <1>1, <1>2, NatSetInduction
<1> QED BY <1>3 DEF S

\* A record has no parent, or an earlier one.
Rooted(t) == Len(t) \in Nat /\ \A i \in 1 .. Len(t) : t[i].parent \in 0 .. i - 1

LEMMA BeforeIsEarlier ==
  ASSUME NEW t, Rooted(t), NEW n \in 1 .. Len(t)
  PROVE  Before(t, n) \in 0 .. n - 1
BY DEF Rooted, Before, NoParent

\* The same for the reference, whose equation goes back to the record before on
\* the branch.
SearchedAt(t, s, n) ==
  \/ t[n].kind = "search"
  \/ t[n].kind # "user" /\ s[Before(t, n)]

Searches(t, s, n) ==
  /\ s \in [0 .. n -> BOOLEAN]
  /\ s[0] = FALSE
  /\ \A m \in 1 .. n : s[m] = SearchedAt(t, s, m)

LEMMA SearchesExist ==
  ASSUME NEW t, Rooted(t)
  PROVE  \E s : Searches(t, s, Len(t))
<1> USE DEF Rooted
<1> DEFINE S == {n \in Nat : n <= Len(t) => \E s : Searches(t, s, n)}
<1>1. 0 \in S
  <2>1. Searches(t, [m \in 0 .. 0 |-> FALSE], 0)
    BY DEF Searches
  <2> QED BY <2>1
<1>2. ASSUME NEW n \in Nat, n \in S
      PROVE  n + 1 \in S
  <2>1. SUFFICES ASSUME n + 1 <= Len(t)
                 PROVE  \E s : Searches(t, s, n + 1)
    OBVIOUS
  <2>2. PICK s : Searches(t, s, n)
    BY <1>2, <2>1
  <2>3. s \in [0 .. n -> BOOLEAN] /\ s[0] = FALSE
        /\ \A m \in 1 .. n : s[m] = SearchedAt(t, s, m)
    BY <2>2 DEF Searches
  <2> DEFINE last == SearchedAt(t, s, n + 1)
             g == [m \in 0 .. n + 1 |-> IF m = n + 1 THEN last ELSE s[m]]
  <2>4. last \in BOOLEAN
    BY DEF SearchedAt
  <2>5. g[n + 1] = last /\ \A m \in 0 .. n : g[m] = s[m]
    OBVIOUS
  <2>6. g \in [0 .. n + 1 -> BOOLEAN]
    BY <2>3, <2>4
  <2>7. ASSUME NEW m \in 1 .. n + 1
        PROVE  g[m] = SearchedAt(t, g, m)
    <3>1. Before(t, m) \in 0 .. m - 1
      BY <2>1, BeforeIsEarlier
    <3>2. g[Before(t, m)] = s[Before(t, m)]
      BY <2>5, <3>1
    <3>3. SearchedAt(t, g, m) = SearchedAt(t, s, m)
      BY <3>2 DEF SearchedAt
    <3>4. CASE m = n + 1
      BY <2>5, <3>3, <3>4
    <3>5. CASE m # n + 1
      <4>1. m \in 1 .. n /\ m \in 0 .. n
        BY <3>5
      <4> QED BY <2>3, <2>5, <3>3, <4>1
    <3> QED BY <3>4, <3>5
  <2> HIDE DEF g
  <2>8. g[0] = FALSE
    BY <2>3, <2>5
  <2> QED BY <2>6, <2>7, <2>8 DEF Searches
<1> HIDE DEF S
<1>3. Nat \subseteq S
  BY <1>1, <1>2, NatSetInduction
<1> QED BY <1>3 DEF S

LEMMA SearchedStep ==
  ASSUME NEW t, Rooted(t)
  PROVE  /\ Searched(t)[0] = FALSE
         /\ \A n \in 1 .. Len(t) : Searched(t)[n] = SearchedAt(t, Searched(t), n)
<1> DEFINE Value(s, n) == /\ n # 0
                          /\ \/ t[n].kind = "search"
                             \/ t[n].kind # "user" /\ s[Before(t, n)]
           IsSearched(s) == s = [n \in 0 .. Len(t) |-> Value(s, n)]
<1>1. Searched(t) = CHOOSE s : IsSearched(s)
  BY DEF Searched
<1>2. PICK s : Searches(t, s, Len(t))
  BY SearchesExist
<1>3. IsSearched(s)
  <2>1. s = [n \in 0 .. Len(t) |-> s[n]]
    BY <1>2 DEF Searches
  <2>2. ASSUME NEW n \in 0 .. Len(t)
        PROVE  s[n] = Value(s, n)
    <3>1. CASE n = 0
      BY <1>2, <3>1 DEF Searches
    <3>2. CASE n # 0
      <4>1. n \in 1 .. Len(t)
        BY <3>2 DEF Rooted
      <4> QED BY <1>2, <4>1 DEF Searches, SearchedAt
    <3> QED BY <3>1, <3>2
  <2> HIDE DEF Value
  <2>3. [n \in 0 .. Len(t) |-> s[n]] = [n \in 0 .. Len(t) |-> Value(s, n)]
    BY <2>2
  <2> QED BY <2>1, <2>3
<1> HIDE DEF IsSearched
<1>4. IsSearched(Searched(t))
  BY <1>1, <1>3
<1> HIDE DEF Value
<1>5. PICK g : g = Searched(t)
  OBVIOUS
<1>6. g = [n \in 0 .. Len(t) |-> Value(g, n)]
  BY <1>4, <1>5 DEF IsSearched
<1>7. \A n \in 0 .. Len(t) : g[n] = Value(g, n)
  BY <1>6
<1>8. g[0] = FALSE
  <2>1. 0 \in 0 .. Len(t)
    BY DEF Rooted
  <2>2. Value(g, 0) = FALSE
    BY DEF Value
  <2> QED BY <1>7, <2>1, <2>2, Zenon
<1>9. ASSUME NEW n \in 1 .. Len(t)
      PROVE  g[n] = SearchedAt(t, g, n)
  <2>1. n \in 0 .. Len(t) /\ n # 0
    BY DEF Rooted
  <2> QED BY <1>7, <2>1, Zenon DEF Value, SearchedAt
<1> QED BY <1>5, <1>8, <1>9, Zenon

LEMMA SearchedOfStart ==
  ASSUME NEW t, NEW u, Rooted(t), Rooted(u), NEW k, SameStart(t, u, k)
  PROVE  \A n \in 0 .. k : Searched(t)[n] = Searched(u)[n]
<1> USE DEF SameStart
<1> DEFINE S == {n \in Nat : n <= k => \A m \in 0 .. n : Searched(t)[m] = Searched(u)[m]}
<1>1. 0 \in S
  <2>1. Searched(t)[0] = Searched(u)[0]
    BY SearchedStep, Zenon
  <2>2. \A m \in 0 .. 0 : m = 0
    OBVIOUS
  <2> QED BY <2>1, <2>2
<1>2. ASSUME NEW n \in Nat, n \in S
      PROVE  n + 1 \in S
  <2>1. SUFFICES ASSUME n + 1 <= k
                 PROVE  \A m \in 0 .. n + 1 : Searched(t)[m] = Searched(u)[m]
    OBVIOUS
  <2>2. n + 1 \in 1 .. Len(t) /\ n + 1 \in 1 .. Len(u) /\ t[n + 1] = u[n + 1]
    BY <2>1 DEF Rooted
  <2>3. Before(t, n + 1) = Before(u, n + 1) /\ Before(t, n + 1) \in 0 .. n
    BY <2>2, BeforeIsEarlier DEF Before
  <2>4. \A m \in 0 .. n : Searched(t)[m] = Searched(u)[m]
    BY <1>2, <2>1
  <2>5. Searched(t)[n + 1] = Searched(u)[n + 1]
    <3>1. Searched(t)[n + 1] = SearchedAt(t, Searched(t), n + 1)
      BY <2>2, SearchedStep, Zenon
    <3>2. Searched(u)[n + 1] = SearchedAt(u, Searched(u), n + 1)
      BY <2>2, SearchedStep, Zenon
    <3>3. Searched(t)[Before(t, n + 1)] = Searched(u)[Before(u, n + 1)]
      BY <2>3, <2>4
    <3>4. SearchedAt(t, Searched(t), n + 1) = SearchedAt(u, Searched(u), n + 1)
      BY <2>2, <3>3, Zenon DEF SearchedAt
    <3> QED BY <3>1, <3>2, <3>4, Zenon
  <2> QED BY <2>4, <2>5
<1> HIDE DEF S
<1>3. Nat \subseteq S
  BY <1>1, <1>2, NatSetInduction
<1> QED BY <1>3 DEF S

-----------------------------------------------------------------------------
(* Marks and branches.                                                     *)

\* A transcript with parents of an agent whose marks follow them, or one
\* without branches.
Grown(a, s, t) ==
  /\ Rooted(t)
  /\ a = "pi" \/ s = "linear"
  /\ s = "linear" => \A i \in 1 .. Len(t) : t[i].parent = NoParent

\* A turn of one of the first n records that carries the mark of its branch.
Right(t, n, turn) ==
  /\ turn.entry \in 1 .. n
  /\ turn.role = "assistant" => Marked(t, turn)

\* What an adapter remembers after n records is what the branches say.
RightMemory(s, t, n, memory) ==
  /\ memory.pending \subseteq 1 .. n
  /\ memory.sequential <=> Searched(t)[n]
  /\ s # "linear" => \A i \in 1 .. n : i \in memory.pending <=> Searched(t)[i]
  /\ \A i \in 1 .. Len(memory.turns) : Right(t, n, memory.turns[i])

LEMMA RightLater ==
  ASSUME NEW t, NEW n \in Nat, NEW turn, Right(t, n, turn)
  PROVE  Right(t, n + 1, turn)
BY DEF Right

LEMMA ConcatRight ==
  ASSUME NEW t, NEW n, NEW x \in Turns, NEW y \in Turns,
         \A i \in 1 .. Len(x) : Right(t, n, x[i]),
         \A i \in 1 .. Len(y) : Right(t, n, y[i])
  PROVE  \A i \in 1 .. Len(x \o y) : Right(t, n, (x \o y)[i])
<1> TAKE i \in 1 .. Len(x \o y)
<1>1. /\ Len(x) \in Nat /\ Len(y) \in Nat /\ Len(x \o y) = Len(x) + Len(y)
      /\ (x \o y)[i] = IF i <= Len(x) THEN x[i] ELSE y[i - Len(x)]
  BY DEF Turns
<1>2. CASE i <= Len(x)
  BY <1>1, <1>2
<1>3. CASE ~(i <= Len(x))
  <2>1. i - Len(x) \in 1 .. Len(y)
    BY <1>1, <1>3
  <2> QED BY <1>1, <1>3, <2>1
<1> QED BY <1>2, <1>3

\* The turns of one message.
LEMMA RenderedRight ==
  ASSUME NEW t, NEW e \in Nat \ {0}, NEW kind, NEW q \in BOOLEAN,
         q <=> Searched(t)[Before(t, e)]
  PROVE  \A i \in 1 .. Len(Rendered(e, kind, q)) : Right(t, e, Rendered(e, kind, q)[i])
<1>1. Right(t, e, Turn(e, "user", FALSE)) /\ Right(t, e, Turn(e, "action", FALSE))
  BY DEF Right, Turn
<1>2. Right(t, e, Turn(e, "assistant", q))
  <2>1. Turn(e, "assistant", q).entry = e /\ Turn(e, "assistant", q).assisted = q
    BY DEF Turn
  <2>2. Marked(t, Turn(e, "assistant", q))
    BY <2>1, Zenon DEF Marked
  <2>3. e \in 1 .. e
    OBVIOUS
  <2> QED BY <2>1, <2>2, <2>3 DEF Right
<1>3. ASSUME NEW one, Right(t, e, one), Rendered(e, kind, q) = <<one>>
      PROVE  \A i \in 1 .. Len(Rendered(e, kind, q)) : Right(t, e, Rendered(e, kind, q)[i])
  BY <1>3
<1>4. CASE kind \in {"user", "answer", "tool"}
  <2>1. \/ Rendered(e, kind, q) = <<Turn(e, "user", FALSE)>>
        \/ Rendered(e, kind, q) = <<Turn(e, "assistant", q)>>
        \/ Rendered(e, kind, q) = <<Turn(e, "action", FALSE)>>
    BY <1>4 DEF Rendered
  <2> QED BY <1>1, <1>2, <1>3, <2>1
<1>5. CASE kind = "search"
  <2> DEFINE one == Turn(e, "assistant", q)
             two == Turn(e, "action", FALSE)
  <2> HIDE DEF one, two
  <2>1. Rendered(e, kind, q) = <<one, two>>
    BY <1>5 DEF Rendered, one, two
  <2>2. Len(<<one, two>>) = 2 /\ <<one, two>>[1] = one /\ <<one, two>>[2] = two
    OBVIOUS
  <2>3. \A i \in 1 .. 2 : i = 1 \/ i = 2
    OBVIOUS
  <2> QED BY <1>1, <1>2, <2>1, <2>2, <2>3 DEF one, two
<1>6. CASE kind \notin {"user", "answer", "search", "tool"}
  <2>1. Rendered(e, kind, q) = <<>>
    BY <1>6 DEF Rendered
  <2>2. Len(Rendered(e, kind, q)) = 0
    BY <2>1
  <2> QED BY <2>2
<1> QED BY <1>4, <1>5, <1>6

\* A message, or a record that renders other turns, recorded with what its
\* branch says.
LEMMA RememberRight ==
  ASSUME NEW s, NEW t, NEW n \in Nat, NEW memory \in Memory, RightMemory(s, t, n, memory),
         NEW after \in BOOLEAN, after <=> Searched(t)[n + 1],
         n + 1 \in Entry,
         NEW turns \in Turns, \A i \in 1 .. Len(turns) : Right(t, n + 1, turns[i])
  PROVE  RightMemory(s, t, n + 1, Remember(memory, n + 1, after, turns))
<1> DEFINE m == Remember(memory, n + 1, after, turns)
<1>1. /\ m.sequential = after
      /\ m.pending = IF after THEN memory.pending \cup {n + 1} ELSE memory.pending
      /\ m.turns = memory.turns \o turns
  BY DEF Remember
<1>2. \A i \in 1 .. Len(m.turns) : Right(t, n + 1, m.turns[i])
  <2>1. \A i \in 1 .. Len(memory.turns) : Right(t, n + 1, memory.turns[i])
    BY RightLater DEF RightMemory
  <2>2. memory.turns \in Turns
    BY DEF Memory
  <2> QED BY <1>1, <2>1, <2>2, ConcatRight
<1>2a. m.pending \subseteq 1 .. n + 1
  BY <1>1 DEF RightMemory
<1>3. m.sequential <=> Searched(t)[n + 1]
  BY <1>1
<1> HIDE DEF m
<1>4. ASSUME s # "linear", NEW i \in 1 .. n + 1
      PROVE  i \in m.pending <=> Searched(t)[i]
  <2>1. memory.pending \subseteq 1 .. n
    BY DEF RightMemory
  <2>2. CASE i = n + 1
    BY <1>1, <2>1, <2>2
  <2>3. CASE i # n + 1
    <3>1. i \in 1 .. n
      BY <2>3
    <3> QED BY <1>1, <1>4, <2>3, <3>1 DEF RightMemory
  <2> QED BY <2>2, <2>3
<1> QED BY <1>2, <1>2a, <1>3, <1>4 DEF RightMemory, m

\* A record is given the mark of its branch, whichever adapter reads it: one that
\* skips it leaves what precedes it, which without branches is the same.
LEMMA StepRight ==
  ASSUME NEW a \in Agent, NEW s, NEW t, Grown(a, s, t), Len(t) <= MaxRecords,
         NEW n \in Nat, n + 1 <= Len(t), NEW memory \in Memory, RightMemory(s, t, n, memory)
  PROVE  RightMemory(s, t, n + 1, Step(a, memory, n + 1, t[n + 1]))
<1> DEFINE e == n + 1
           r == t[e]
           q == Inherited(memory, r.parent)
<1>1. e \in Entry /\ e \in 1 .. Len(t) /\ Rooted(t) /\ e \in Nat \ {0} /\ e - 1 = n
  BY TranscriptAssumption DEF Grown, Rooted, Entry
<1>2. q \in BOOLEAN
  <2>1. (r.parent \in memory.pending) \in BOOLEAN
    OBVIOUS
  <2>2. memory.sequential \in BOOLEAN
    BY DEF Memory
  <2> QED BY <2>1, <2>2 DEF Inherited
<1>3. r.parent \in 0 .. n /\ Before(t, e) = IF r.parent = NoParent THEN n ELSE r.parent
  BY <1>1 DEF Rooted, Before
<1> HIDE DEF e
<1>4. q <=> Searched(t)[Before(t, e)]
  <2>1. CASE r.parent = NoParent
    BY <1>3, <2>1, Zenon DEF Inherited, RightMemory
  <2>2. CASE r.parent # NoParent
    <3>1. s # "linear" /\ r.parent \in 1 .. n
      BY <1>1, <1>3, <2>2 DEF Grown, NoParent
    <3> QED BY <1>3, <2>2, <3>1, Zenon DEF Inherited, RightMemory
  <2> QED BY <2>1, <2>2
<1>5. Searched(t)[e] <=> r.kind = "search" \/ (r.kind # "user" /\ Searched(t)[Before(t, e)])
  <2>1. Searched(t)[e] = SearchedAt(t, Searched(t), e)
    BY <1>1, SearchedStep, Zenon
  <2> QED BY <2>1, Zenon DEF SearchedAt
<1>6. PendingAfter(r.kind, q) \in BOOLEAN /\ (PendingAfter(r.kind, q) <=> Searched(t)[e])
  BY <1>4, <1>5, Zenon DEF PendingAfter
<1> HIDE DEF r, q
<1>7. RightMemory(s, t, e, Message(memory, e, r, q))
  <2>1. Rendered(e, r.kind, q) \in Turns
    BY <1>1, <1>2, RenderedType
  <2>2. \A i \in 1 .. Len(Rendered(e, r.kind, q)) : Right(t, e, Rendered(e, r.kind, q)[i])
    BY <1>1, <1>2, <1>4, RenderedRight
  <2>3. RightMemory(s, t, e, Remember(memory, e, PendingAfter(r.kind, q), Rendered(e, r.kind, q)))
    BY <1>1, <1>6, <2>1, <2>2, RememberRight DEF e
  <2> QED BY <2>3 DEF Message
<1>8. ASSUME a # "pi"
      PROVE  s = "linear" /\ q = memory.sequential /\ Before(t, e) = n
  BY <1>1, <1>3, <1>8 DEF Grown, Inherited, q, r
<1>9. ASSUME a # "pi", r.kind \in {"note", "echo"}
      PROVE  RightMemory(s, t, e, memory)
  <2>1. memory.sequential <=> Searched(t)[e]
    BY <1>4, <1>5, <1>8, <1>9, Zenon
  <2>2. memory.pending \subseteq 1 .. e /\ s = "linear"
    BY <1>8, <1>9 DEF RightMemory, e
  <2>3. \A i \in 1 .. Len(memory.turns) : Right(t, e, memory.turns[i])
    BY RightLater DEF RightMemory, e
  <2> QED BY <2>1, <2>2, <2>3 DEF RightMemory
<1>10. ASSUME a # "pi"
       PROVE  RightMemory(s, t, e, Remember(memory, e, PendingAfter(r.kind, memory.sequential),
                                           <<Turn(e, "action", FALSE)>>))
  <2> DEFINE turns == <<Turn(e, "action", FALSE)>>
  <2>1. Turn(e, "action", FALSE) \in TurnRecord /\ Right(t, e, Turn(e, "action", FALSE))
    BY <1>1 DEF Turn, TurnRecord, Right
  <2>2. turns \in Turns /\ Len(turns) = 1 /\ turns[1] = Turn(e, "action", FALSE)
    BY <2>1, ShortSeq DEF Turns, TurnRecord
  <2> HIDE DEF turns
  <2>3. \A i \in 1 .. Len(turns) : Right(t, e, turns[i])
    <3>1. \A i \in 1 .. 1 : i = 1
      OBVIOUS
    <3> QED BY <2>1, <2>2, <3>1, Zenon
  <2>4. PendingAfter(r.kind, memory.sequential) \in BOOLEAN
        /\ (PendingAfter(r.kind, memory.sequential) <=> Searched(t)[e])
    BY <1>6, <1>8, <1>10
  <2>5. RightMemory(s, t, e, Remember(memory, e, PendingAfter(r.kind, memory.sequential), turns))
    BY <1>1, <2>2, <2>3, <2>4, RememberRight DEF e
  <2> QED BY <2>5 DEF turns
<1>11. CASE a = "pi"
  BY <1>7, <1>11 DEF Step, PiEntry, e, r, q
<1>12. CASE a = "claude" \/ a = "opencode"
  BY <1>7, <1>9, <1>12 DEF Step, ClaudeRecord, OpenCodeMessage, e, r, q
<1>13. CASE a = "codex"
  BY <1>7, <1>9, <1>10, <1>13 DEF Step, CodexRecord, e, r, q
<1> QED BY <1>11, <1>12, <1>13 DEF Agent

\* Whatever agent wrote a transcript that has no branches, and for Pi whatever
\* its branches: an adapter marks it as the reference does.
LEMMA MemoriesAreRight ==
  ASSUME NEW a \in Agent, NEW s, NEW t, Grown(a, s, t), Len(t) <= MaxRecords
  PROVE  \A n \in 0 .. Len(t) :
           Memories(a, t)[n] \in Memory /\ RightMemory(s, t, n, Memories(a, t)[n])
<1>1. Len(t) \in 0 .. MaxRecords /\ Rooted(t) /\ Len(t) \in Nat
  BY TranscriptAssumption DEF Grown, Rooted
<1> DEFINE m == Memories(a, t)
           S == {n \in Nat : n <= Len(t) => m[n] \in Memory /\ RightMemory(s, t, n, m[n])}
<1>2. m[0] = NothingRead /\ \A n \in 1 .. Len(t) : m[n] = Step(a, m[n - 1], n, t[n])
  BY <1>1, MemoriesStep
<1> HIDE DEF m
<1>3. 0 \in S
  <2>1. ~ Searched(t)[0]
    BY <1>1, SearchedStep, Zenon
  <2>2. RightMemory(s, t, 0, NothingRead)
    <3>1. \A i \in 1 .. 0 : FALSE
      OBVIOUS
    <3>2. NothingRead.pending = {} /\ NothingRead.sequential = FALSE /\ NothingRead.turns = <<>>
      BY DEF NothingRead
    <3>3. Len(NothingRead.turns) = 0
      BY <3>2
    <3> QED BY <2>1, <3>1, <3>2, <3>3, Zenon DEF RightMemory
  <2> QED BY <1>2, <2>2, NothingReadType
<1>4. ASSUME NEW n \in Nat, n \in S
      PROVE  n + 1 \in S
  <2>1. SUFFICES ASSUME n + 1 <= Len(t)
                 PROVE  m[n + 1] \in Memory /\ RightMemory(s, t, n + 1, m[n + 1])
    OBVIOUS
  <2>2. m[n] \in Memory /\ RightMemory(s, t, n, m[n])
    BY <1>1, <1>4, <2>1
  <2>3. n + 1 \in 1 .. Len(t) /\ (n + 1) - 1 = n /\ n + 1 \in Entry
    BY <1>1, <2>1, TranscriptAssumption DEF Entry
  <2>4. m[n + 1] = Step(a, m[n], n + 1, t[n + 1])
    BY <1>2, <2>3
  <2> QED BY <2>1, <2>2, <2>3, <2>4, StepRight, StepType
<1> HIDE DEF S
<1>5. Nat \subseteq S
  BY <1>3, <1>4, NatSetInduction
<1> QED BY <1>5 DEF S, m

-----------------------------------------------------------------------------
(* Fingerprints, and the first state.                                      *)

LEMMA FingerprintType == SourceInv => Fingerprint \in Fingerprints
<1> SUFFICES ASSUME SourceInv PROVE Fingerprint \in Fingerprints
  OBVIOUS
<1>1. Len(file) \in 0 .. MaxRecords
  BY LenProperties, TranscriptAssumption DEF SourceInv
<1>2. (HeaderRead => primary) \in BOOLEAN
  BY DEF SourceInv, HeaderRead
<1> QED
  BY <1>1, <1>2
  DEF SourceInv, Fingerprint, FileFingerprint, CodexFingerprint, DatabaseFingerprint,
      Fingerprints

\* What a scan reads is the beginning of the file, for OpenCode as it was when
\* the load began.
LEMMA ContentIsStart ==
  ASSUME TypeInv, LoadInv
  PROVE  /\ Len(file) \in 0 .. MaxRecords /\ Len(Content) \in 0 .. MaxRecords
         /\ SameStart(Content, file, Len(Content))
<1>1. Len(file) \in 0 .. MaxRecords
  BY LenProperties, TranscriptAssumption DEF TypeInv, SourceInv
<1>2. CASE agent = "opencode"
  <2>1. scan.view \in Seq(Record(agent)) /\ Len(scan.view) \in Nat /\ Len(scan.view) <= MaxRecords
    BY LenProperties DEF TypeInv, ScanInv, ScanRecord
  <2> QED BY <1>1, <1>2, <2>1, TranscriptAssumption DEF Content, LoadInv
<1>3. CASE agent # "opencode"
  BY <1>1, <1>3 DEF Content, SameStart
<1> QED BY <1>2, <1>3

LEMMA NothingReadIsStart ==
  ASSUME SourceInv
  PROVE  /\ Memories(agent, file)[0] = NothingRead
         /\ Len(NothingRead.turns) < MaxTurns
<1>1. Len(file) \in 0 .. MaxRecords /\ agent \in Agent
  BY LenProperties, TranscriptAssumption DEF SourceInv
<1>2. Len(NothingRead.turns) = 0
  BY DEF NothingRead
<1> QED BY <1>1, <1>2, MemoriesStep, SessionScanAssumption

\* A transcript that was written before the first scan.
LEMMA ParentsInit == Init => ParentsInv
<1> SUFFICES ASSUME Init PROVE ParentsInv
  OBVIOUS
<1>1. tail = None /\ (AtRest \/ BeingWritten) /\ shape \in Shape
  BY SessionScanAssumption DEF Init
<1>2. CASE AtRest
  <2>1. PICK n \in 0 .. Resting : file \in Transcripts(agent, shape, n)
    BY <1>2 DEF AtRest
  <2>2. file \in [1 .. n -> Record(agent)] /\ n \in Nat
        /\ \A i \in 1 .. n : Follows(SubSeq(file, 1, i - 1), file[i], shape)
    BY <2>1 DEF Transcripts
  <2>3. file \in Seq(Record(agent)) /\ Len(file) = n
    BY <2>2
  <2>4. ASSUME NEW i \in 1 .. n
        PROVE  file[i].parent \in 0 .. i - 1 /\ (shape = "linear" => file[i].parent = NoParent)
    <3>1. PICK x : x = SubSeq(file, 1, i - 1)
      OBVIOUS
    <3>2. Len(x) = i - 1 /\ Follows(x, file[i], shape) /\ i \in Nat \ {0}
      BY <2>2, <2>3, <3>1
    <3> QED BY <3>2 DEF Follows, NoParent
  <2> QED BY <1>1, <2>3, <2>4 DEF ParentsInv
<1>3. CASE BeingWritten
  <2>1. Len(file) = 0
    BY <1>3 DEF BeingWritten
  <2> QED BY <1>1, <2>1 DEF ParentsInv
<1> QED BY <1>1, <1>2, <1>3

LEMMA LoadInit == Init /\ SourceInv => LoadInv /\ RowsInv
<1> SUFFICES ASSUME Init, SourceInv PROVE LoadInv /\ RowsInv
  OBVIOUS
<1>1. /\ scan.pc = "idle" /\ scan.at = 0 /\ scan.memory = NothingRead /\ scan.view = <<>>
      /\ \A id \in Identity : session[id] = None
  BY DEF Init, NoScan
<1>2. Len(file) \in Nat
  BY LenProperties DEF SourceInv
<1>3. Len(Content) \in Nat
  BY <1>1, <1>2 DEF Content
<1> QED BY <1>1, <1>2, <1>3, NothingReadIsStart DEF LoadInv, RowsInv, HasSpool, SameStart

LEMMA ScanningInvInit == Init => ScanningInv
<1> SUFFICES ASSUME Init
             PROVE  ScanningInv
  OBVIOUS
<1> USE SessionScanAssumption, TranscriptAssumption
<1>1. SourceInv
  <2>1. agent \in Agents /\ agent \in Agent /\ shape \in Shape /\ primary = TRUE /\ tail = None
    BY DEF Init
  <2>2. CASE AtRest
    <3>1. PICK n \in 0 .. Resting : file \in Transcripts(agent, shape, n)
      BY <2>2 DEF AtRest
    <3>2. file \in [1 .. n -> Record(agent)] /\ n \in Nat /\ n <= MaxRecords
      BY <3>1 DEF Transcripts
    <3>3. file \in Seq(Record(agent)) /\ Len(file) = n
      BY <3>2
    <3> QED BY <2>1, <2>2, <3>2, <3>3 DEF SourceInv, AtRest
  <2>3. CASE BeingWritten
    <3>1. file = <<>> /\ header \in BOOLEAN /\ changes = 0
      BY <2>3 DEF BeingWritten
    <3>2. file \in Seq(Record(agent)) /\ Len(file) = 0
      BY <3>1
    <3> QED BY <2>1, <3>1, <3>2 DEF SourceInv
  <2> QED BY <2>2, <2>3 DEF Init
<1>2. ScanInv
  BY NothingReadType DEF Init, NoScan, ScanInv, ScanRecord, PC, Identity, HasSpool, Attempts
<1>3. StateInv
  BY DEF Init, StateInv
<1>4. SpoolInv
  BY DEF Init, SpoolInv, HasSpool, NoScan
<1>5. IdentityInv
  BY DEF Init, IdentityInv, NoScan
<1>6. EvidenceInv
  BY DEF Init, EvidenceInv, Indexed, NoScan
<1>7. DocumentInv
  BY <1>1, ParentsInit, LoadInit DEF DocumentInv
<1> QED BY <1>1, <1>2, <1>3, <1>4, <1>5, <1>6, <1>7 DEF ScanningInv, TypeInv

-----------------------------------------------------------------------------
(* The source: only the agent and its user change it.                      *)

LEMMA SourceKeeps ==
  ASSUME SourceInv, AgentStep
  PROVE  SourceInv'
<1> USE SessionScanAssumption, TranscriptAssumption DEF SourceInv, Changing
<1>1. CASE CompleteHeader
  BY <1>1 DEF CompleteHeader
<1>2. CASE EndRecord
  <2>1. tail \in Record(agent) /\ Len(file) < MaxRecords /\ Len(file) \in Nat
    BY <1>2 DEF EndRecord
  <2>2. file' = Append(file, tail) /\ tail' = None /\ UNCHANGED <<agent, shape, header, primary, changes>>
    BY <1>2 DEF EndRecord
  <2>3. file' \in Seq(Record(agent)) /\ Len(file') = Len(file) + 1
    BY <2>1, <2>2
  <2> QED BY <2>1, <2>2, <2>3
<1>3. CASE Reclassify
  BY <1>3 DEF Reclassify
<1>4. ASSUME NEW record \in [kind : Growing, parent : Entry \cup {NoParent}],
             BeginRecord(record) \/ CommitMessage(record)
      PROVE  SourceInv'
  <2>1. record \in Record(agent)
    BY SessionScanAssumption DEF Record, RecordKind
  <2>2. CASE BeginRecord(record)
    BY <2>1, <2>2 DEF BeginRecord
  <2>3. CASE CommitMessage(record)
    <3>1. /\ Len(file) < MaxRecords /\ file' = Append(file, record)
          /\ UNCHANGED <<agent, shape, header, tail, primary>>
          /\ agent = "opencode" /\ changes' \in 0 .. MaxChanges
      BY <2>3 DEF CommitMessage
    <3>2. file' \in Seq(Record(agent)) /\ Len(file') = Len(file) + 1 /\ Len(file) \in Nat
      BY <2>1, <3>1
    <3> QED BY <3>1, <3>2
  <2> QED BY <1>4, <2>2, <2>3
<1> QED BY <1>1, <1>2, <1>3, <1>4 DEF AgentStep

-----------------------------------------------------------------------------
(* The scan.                                                               *)

\* The agent of a session never changes, and nobody but the agent writes.
LEMMA ScanReads ==
  ASSUME ScanStep \/ FaultStep
  PROVE  UNCHANGED sourceVars
BY DEF ScanStep, FaultStep, Discover, Exclude, SkipUnchanged, Defer, StartLoad, ReadRecord,
       LoadFails, EndOfSource, Reload, GiveUp, Accept, WriteIndex, StoreSession, StoreAlias,
       Crash, CrashInExclusion, IndexFails

LEMMA AgentWrites ==
  ASSUME AgentStep
  PROVE  /\ agent' = agent
         /\ UNCHANGED <<stateVars, index, spools, scan, faults>>
BY DEF AgentStep, CompleteHeader, EndRecord, Reclassify, BeginRecord, CommitMessage

\* A scan that ends leaves nothing in memory.
Ends ==
  Exclude \/ SkipUnchanged \/ Defer \/ LoadFails \/ GiveUp \/ StoreAlias \/ FaultStep

LEMMA EndsWithNoScan == Ends => scan' = NoScan
BY DEF Ends, FaultStep, Exclude, SkipUnchanged, Defer, LoadFails, GiveUp, StoreAlias, Crash,
       CrashInExclusion, IndexFails

LEMMA FaultsCounted ==
  ASSUME ScanInv, ScanStep \/ FaultStep
  PROVE  /\ faults' \in 0 .. MaxFaults
         /\ faults' >= faults
         /\ FaultStep => faults' = faults + 1
         /\ ScanStep => faults' = faults
<1>1. CASE FaultStep
  <2>1. faults < MaxFaults /\ faults' = faults + 1
    BY <1>1 DEF FaultStep, Crash, CrashInExclusion, IndexFails, Fault
  <2>2. ~ScanStep \/ faults' = faults
    BY DEF ScanStep, Discover, Exclude, SkipUnchanged, Defer, StartLoad, ReadRecord,
           LoadFails, EndOfSource, Reload, GiveUp, Accept, WriteIndex, StoreSession, StoreAlias
  <2> QED BY <2>1, <2>2, SessionScanAssumption DEF ScanInv
<1>2. CASE ScanStep
  <2>1. faults' = faults
    BY <1>2
    DEF ScanStep, Discover, Exclude, SkipUnchanged, Defer, StartLoad, ReadRecord,
        LoadFails, EndOfSource, Reload, GiveUp, Accept, WriteIndex, StoreSession, StoreAlias
  <2>2. ~FaultStep
    BY <2>1 DEF FaultStep, Crash, CrashInExclusion, IndexFails, Fault, ScanInv
  <2> QED BY <2>1, <2>2 DEF ScanInv
<1> QED BY <1>1, <1>2

LEMMA ReadingType ==
  ASSUME TypeInv, Unread
  PROVE  scan.at + 1 \in 1 .. MaxRecords /\ Reading \in Memory
<1>1. scan \in ScanRecord /\ Len(scan.view) <= MaxRecords
  BY DEF TypeInv, ScanInv
<1>2. scan.view \in Seq(Record(agent)) /\ scan.at \in 0 .. MaxRecords /\ scan.memory \in Memory
  BY <1>1 DEF ScanRecord
<1>3. Len(Content) \in Nat /\ Len(Content) <= MaxRecords
  <2>1. CASE agent = "opencode"
    BY <1>1, <1>2, <2>1, LenProperties DEF Content
  <2>2. CASE agent # "opencode"
    BY <2>2, LenProperties DEF Content, TypeInv, SourceInv
  <2> QED BY <2>1, <2>2
<1>4. scan.at + 1 \in 1 .. MaxRecords
  BY <1>2, <1>3, TranscriptAssumption DEF Unread
<1> QED BY <1>2, <1>4, StepType DEF Reading, Entry, TypeInv, SourceInv

LEMMA ScanKeeps ==
  ASSUME TypeInv, ScanStep \/ FaultStep
  PROVE  ScanInv'
<1> USE DEF HasSpool
<1>1. agent' = agent
  BY ScanReads DEF sourceVars
<1>2. faults' \in 0 .. MaxFaults
  BY FaultsCounted DEF TypeInv
<1>3. SUFFICES /\ scan' \in ScanRecord
               /\ Len(scan'.view) <= MaxRecords
               /\ HasSpool' => scan'.before \in Fingerprints
  BY <1>1, <1>2 DEF ScanInv, ScanRecord
<1>4. scan \in ScanRecord /\ Len(scan.view) <= MaxRecords
      /\ (HasSpool => scan.before \in Fingerprints)
  BY DEF TypeInv, ScanInv
<1>5. NoScan \in ScanRecord /\ NoScan.view = <<>> /\ NoScan.pc = "idle"
  BY NothingReadType, TranscriptAssumption DEF NoScan, ScanRecord, PC, Identity, Attempts
<1>6. CASE Ends
  BY <1>5, <1>6, EndsWithNoScan, TranscriptAssumption
<1>7. CASE Discover
  <2>1. (IF alias # None THEN alias ELSE NativeIdentity) \in Identity
    BY DEF TypeInv, StateInv, NativeIdentity, DatabaseIdentity, FileIdentity, Identity
  <2>2. primary \in BOOLEAN
    BY DEF TypeInv, SourceInv
  <2>3. scan' = [NoScan EXCEPT !.pc = "judge",
                   !.identity = IF alias # None THEN alias ELSE NativeIdentity,
                   !.primary = primary]
    BY <1>7 DEF Discover
  <2>4. scan' \in ScanRecord /\ scan'.view = <<>> /\ scan'.pc = "judge"
    BY <1>5, <2>1, <2>2, <2>3 DEF ScanRecord, PC
  <2> QED BY <2>4, TranscriptAssumption
<1>8. ASSUME NEW attempt \in 1 .. Attempts, scan' = Loading(attempt)
      PROVE  /\ scan' \in ScanRecord
             /\ Len(scan'.view) <= MaxRecords
             /\ HasSpool' => scan'.before \in Fingerprints
  <2>1. Fingerprint \in Fingerprints /\ file \in Seq(Record(agent)) /\ Len(file) <= MaxRecords
    BY FingerprintType DEF TypeInv, SourceInv
  <2> DEFINE view == IF agent = "opencode" THEN file ELSE <<>>
  <2>3. view \in Seq(Record(agent)) /\ Len(view) <= MaxRecords
    BY <2>1, TranscriptAssumption
  <2>4. scan' = [scan EXCEPT !.pc = "load", !.attempt = attempt, !.before = Fingerprint,
                             !.view = view, !.at = 0, !.memory = NothingRead]
    BY <1>8 DEF Loading
  <2>5. 0 \in 0 .. MaxRecords /\ attempt \in 0 .. Attempts
    BY TranscriptAssumption DEF Attempts
  <2> HIDE DEF view
  <2>6. scan' \in ScanRecord /\ scan'.view = view /\ scan'.before = Fingerprint
    BY <1>4, <2>1, <2>3, <2>4, <2>5, NothingReadType DEF ScanRecord, PC
  <2> QED BY <2>1, <2>3, <2>6
<1>9. CASE StartLoad
  BY <1>8, <1>9 DEF StartLoad, Attempts
<1>10. CASE Reload
  <2>1. scan.attempt + 1 \in 1 .. Attempts
    BY <1>4, <1>10 DEF Reload, ScanRecord, Attempts
  <2> QED BY <1>8, <1>10, <2>1 DEF Reload
<1>11. CASE ReadRecord
  <2>1. scan' = [scan EXCEPT !.at = scan.at + 1, !.memory = Reading] /\ scan.pc = "load"
    BY <1>11 DEF ReadRecord, Unread
  <2>2. scan.at + 1 \in 0 .. MaxRecords /\ Reading \in Memory
    BY <1>11, ReadingType DEF ReadRecord
  <2>3. /\ scan' \in ScanRecord /\ scan'.pc = scan.pc
        /\ scan'.view = scan.view /\ scan'.before = scan.before
    BY <1>4, <2>1, <2>2 DEF ScanRecord
  <2> QED BY <1>4, <2>1, <2>3
<1>12. CASE EndOfSource \/ Accept \/ WriteIndex \/ StoreSession
  <2>1. PICK pc \in {"check", "index", "store", "alias"} : scan' = [scan EXCEPT !.pc = pc]
    BY <1>12 DEF EndOfSource, Accept, WriteIndex, StoreSession
  <2>2. HasSpool
    BY <1>12 DEF EndOfSource, Accept, WriteIndex, StoreSession
  <2>3. /\ scan' \in ScanRecord
        /\ scan'.view = scan.view /\ scan'.before = scan.before
    BY <1>4, <2>1 DEF ScanRecord, PC
  <2> QED BY <1>4, <2>2, <2>3
<1> QED BY <1>6, <1>7, <1>9, <1>10, <1>11, <1>12 DEF ScanStep, Ends

-----------------------------------------------------------------------------
(* What scans write.                                                       *)

LEMMA StateKeeps ==
  ASSUME TypeInv, ScanStep \/ FaultStep
  PROVE  StateInv'
<1>1. scan \in ScanRecord /\ scan.identity \in Identity /\ scan.memory.turns \in Turns
      /\ (HasSpool => scan.before \in Fingerprints)
  BY DEF TypeInv, ScanInv, ScanRecord, Memory
<1>2. Fingerprint \in Fingerprints
  BY FingerprintType DEF TypeInv
<1> USE DEF TypeInv, StateInv, stateVars
<1>3. CASE Discover \/ ReadRecord \/ LoadFails \/ EndOfSource \/ Reload \/ GiveUp \/ Accept
             \/ Crash \/ IndexFails
  BY <1>3 DEF Discover, ReadRecord, LoadFails, EndOfSource, Reload, GiveUp, Accept, Crash,
              IndexFails
<1>4. CASE Exclude
  <2>1. candidate' = [candidate EXCEPT ![scan.identity] = None] /\ alias' = alias
    BY <1>4 DEF Exclude
  <2>2. CASE session[scan.identity] = None
    BY <1>1, <1>4, <2>1, <2>2 DEF Exclude
  <2>3. CASE session[scan.identity] # None
    <3>1. session[scan.identity] \in SessionRow
      BY <1>1, <2>3
    <3>2. [session[scan.identity] EXCEPT !.status = "excluded"] \in SessionRow
      BY <3>1 DEF SessionRow
    <3>3. /\ index' = [index EXCEPT ![scan.identity] = None]
          /\ session' = [session EXCEPT ![scan.identity] =
                           [session[scan.identity] EXCEPT !.status = "excluded"]]
      BY <1>4, <2>3 DEF Exclude
    <3> QED BY <1>1, <2>1, <3>2, <3>3
  <2> QED BY <2>2, <2>3
<1>5. CASE SkipUnchanged \/ Defer \/ StartLoad
  <2>1. PICK value \in {None, Fingerprint} :
          candidate' = [candidate EXCEPT ![scan.identity] = value]
    BY <1>5 DEF SkipUnchanged, Defer, StartLoad
  <2>2. UNCHANGED <<alias, session, index>>
    BY <1>5 DEF SkipUnchanged, Defer, StartLoad
  <2> QED BY <1>1, <1>2, <2>1, <2>2
<1>6. CASE WriteIndex
  <2>1. PICK passages \in Turns \cup {None} :
          index' = [index EXCEPT ![scan.identity] = passages]
    BY <1>1, <1>6 DEF WriteIndex
  <2> QED BY <1>1, <1>6, <2>1 DEF WriteIndex
<1>7. CASE StoreSession
  <2>1. Row(scan.before, scan.memory.turns) \in SessionRow
    BY <1>1, <1>7 DEF StoreSession, HasSpool, Row, SessionRow
  <2> QED BY <1>1, <1>7, <2>1 DEF StoreSession
<1>8. CASE StoreAlias
  BY <1>1, <1>8 DEF StoreAlias
<1>9. CASE CrashInExclusion
  BY <1>1, <1>9 DEF CrashInExclusion
<1> QED BY <1>3, <1>4, <1>5, <1>6, <1>7, <1>8, <1>9 DEF ScanStep, FaultStep

LEMMA OneMore ==
  ASSUME NEW a \in Nat, NEW b \in Nat, NEW c \in Nat, b <= c, a <= b \/ a <= b + 1 \/ a <= c
  PROVE  a <= c + 1
OBVIOUS

\* Every end of a load removes its spool; a crash leaves it.
LEMMA SpoolKeeps ==
  ASSUME TypeInv, SpoolInv, ScanStep \/ FaultStep
  PROVE  SpoolInv'
<1>1. faults \in Nat /\ faults' \in Nat /\ faults <= faults'
  BY FaultsCounted, SessionScanAssumption DEF TypeInv, ScanInv
<1>2. scan \in ScanRecord
  BY DEF TypeInv, ScanInv
<1>3. spools \in Nat /\ spools <= faults + 1 /\ (HasSpool => spools >= 1)
      /\ (~HasSpool => spools <= faults)
  BY DEF SpoolInv
<1>4. ASSUME ~HasSpool', spools' \in Nat, spools' <= faults'
      PROVE  SpoolInv'
  <2>1. spools' <= faults' + 1
    BY <1>1, <1>4, OneMore
  <2> QED BY <1>4, <2>1 DEF SpoolInv
<1>5. ASSUME HasSpool', spools' \in Nat, spools' >= 1, spools' <= faults + 1
      PROVE  SpoolInv'
  <2>1. spools' <= faults' + 1
    BY <1>1, <1>5, OneMore
  <2> QED BY <1>5, <2>1 DEF SpoolInv
<1>6. CASE Exclude \/ SkipUnchanged \/ Defer
  <2>1. ~HasSpool /\ ~HasSpool' /\ spools' = spools
    BY <1>6 DEF Exclude, SkipUnchanged, Defer, NoScan, HasSpool
  <2> QED BY <1>1, <1>3, <1>4, <2>1
<1>7. CASE Discover
  <2>1. ~HasSpool /\ ~HasSpool' /\ spools' = spools
    BY <1>7 DEF Discover, NoScan, HasSpool
  <2> QED BY <1>1, <1>3, <1>4, <2>1
<1>8. CASE StartLoad
  <2>1. ~HasSpool /\ HasSpool' /\ spools' = spools + 1
    BY <1>2, <1>8 DEF StartLoad, Loading, ScanRecord, HasSpool
  <2> QED BY <1>1, <1>3, <1>5, <2>1
<1>9. CASE LoadFails \/ GiveUp \/ StoreAlias \/ IndexFails
  <2>1. HasSpool /\ ~HasSpool' /\ spools' = spools - 1
    BY <1>9 DEF LoadFails, Unread, GiveUp, StoreAlias, IndexFails, NoScan, HasSpool
  <2> QED BY <1>1, <1>3, <1>4, <2>1
<1>10. CASE ReadRecord \/ EndOfSource \/ Reload \/ Accept \/ WriteIndex \/ StoreSession
  <2>1. spools' = spools /\ HasSpool
    BY <1>10
    DEF ReadRecord, Unread, EndOfSource, Reload, Accept, WriteIndex, StoreSession, HasSpool
  <2>2. HasSpool'
    BY <1>2, <1>10
    DEF ReadRecord, Unread, EndOfSource, Reload, Loading, Accept, WriteIndex, StoreSession,
        ScanRecord, HasSpool
  <2> QED BY <1>3, <1>5, <2>1, <2>2
<1>11. CASE Crash \/ CrashInExclusion
  <2>1. ~HasSpool' /\ spools' = spools
    BY <1>11 DEF Crash, CrashInExclusion, NoScan, HasSpool
  <2>2. faults' = faults + 1
    BY <1>11 DEF Crash, CrashInExclusion, Fault
  <2> QED BY <1>1, <1>3, <1>4, <2>1, <2>2
<1> QED BY <1>6, <1>7, <1>8, <1>9, <1>10, <1>11 DEF ScanStep, FaultStep

\* The first scan that stores a row gives the session its identity; every
\* later one takes it from the alias.
LEMMA IdentityKeeps ==
  ASSUME TypeInv, IdentityInv, ScanStep \/ FaultStep
  PROVE  IdentityInv'
<1>1. SUFFICES ASSUME faults' = 0
               PROVE  IdentityInv'
  BY DEF IdentityInv
<1>2. ScanStep /\ faults = 0
  BY <1>1, FaultsCounted, SessionScanAssumption DEF TypeInv, ScanInv
<1>3. scan \in ScanRecord /\ session \in [Identity -> SessionRow \cup {None}]
  BY DEF TypeInv, ScanInv, StateInv
<1>4. /\ \A id \in Identity : session[id] # None =>
           \/ alias # None /\ alias = id
           \/ scan.pc = "alias" /\ scan.identity = id
      /\ alias # None /\ scan.pc # "idle" => scan.identity = alias
  BY <1>2 DEF IdentityInv
<1> USE DEF IdentityInv, stateVars
<1>5. CASE Discover
  <2>1. /\ scan.pc = "idle" /\ scan'.pc = "judge" /\ UNCHANGED <<alias, session>>
        /\ alias # None => scan'.identity = alias
    BY <1>5 DEF Discover, NoScan
  <2> QED BY <1>4, <2>1
<1>6. CASE SkipUnchanged \/ Defer \/ LoadFails \/ GiveUp
  <2>1. scan.pc # "alias" /\ scan'.pc = "idle" /\ UNCHANGED <<alias, session>>
    BY <1>6 DEF SkipUnchanged, Defer, LoadFails, Unread, GiveUp, NoScan
  <2> QED BY <1>4, <2>1
<1>7. CASE Exclude
  <2>1. scan.pc = "judge" /\ scan'.pc = "idle" /\ alias' = alias
    BY <1>7 DEF Exclude, NoScan
  <2>2. \A id \in Identity : session'[id] # None => session[id] # None
    BY <1>3, <1>7 DEF Exclude
  <2> QED BY <1>4, <2>1, <2>2
<1>8. CASE StartLoad \/ ReadRecord \/ EndOfSource \/ Reload \/ Accept \/ WriteIndex
  <2>1. UNCHANGED <<alias, session>> /\ scan.pc \notin {"idle", "alias"}
    BY <1>8 DEF StartLoad, ReadRecord, Unread, EndOfSource, Reload, Accept, WriteIndex
  <2>2. scan'.identity = scan.identity
    BY <1>3, <1>8
    DEF StartLoad, ReadRecord, EndOfSource, Reload, Loading, Accept, WriteIndex, ScanRecord
  <2> QED BY <1>4, <2>1, <2>2
<1>9. CASE StoreSession
  <2>1. /\ scan.pc = "store" /\ scan'.pc = "alias" /\ scan'.identity = scan.identity
        /\ alias' = alias
    BY <1>3, <1>9 DEF StoreSession, ScanRecord
  <2>2. \A id \in Identity : id # scan.identity => session'[id] = session[id]
    BY <1>3, <1>9 DEF StoreSession
  <2> QED BY <1>4, <2>1, <2>2
<1>10. CASE StoreAlias
  <2>1. /\ scan.pc = "alias" /\ scan'.pc = "idle" /\ session' = session
        /\ alias' = scan.identity
    BY <1>10 DEF StoreAlias, NoScan
  <2>2. ASSUME NEW id \in Identity, session'[id] # None
        PROVE  alias' # None /\ alias' = id
    BY <1>4, <2>1, <2>2, NoneAssumption
  <2> QED BY <2>1, <2>2
<1> QED BY <1>2, <1>5, <1>6, <1>7, <1>8, <1>9, <1>10 DEF ScanStep

\* The index is written before the row, and they agree when both are.
LEMMA EvidenceKeeps ==
  ASSUME TypeInv, EvidenceInv, ScanStep \/ FaultStep
  PROVE  EvidenceInv'
<1>1. SUFFICES ASSUME faults' = 0
               PROVE  EvidenceInv'
  BY DEF EvidenceInv
<1>2. ScanStep /\ faults = 0
  BY <1>1, FaultsCounted, SessionScanAssumption DEF TypeInv, ScanInv
<1>3. /\ scan \in ScanRecord /\ scan.identity \in Identity /\ scan.memory.turns \in Turns
      /\ session \in [Identity -> SessionRow \cup {None}]
      /\ index \in [Identity -> Turns \cup {None}]
      /\ HasSpool => scan.before \in Fingerprints
  BY DEF TypeInv, ScanInv, ScanRecord, Memory, StateInv
<1>4. \A id \in Identity :
        index[id] = IF scan.pc = "store" /\ scan.identity = id THEN Passages ELSE Indexed(id)
  BY <1>2 DEF EvidenceInv
<1> USE DEF stateVars
<1>5. ASSUME UNCHANGED <<session, index>>, scan.pc # "store", scan'.pc # "store"
      PROVE  EvidenceInv'
  BY <1>4, <1>5 DEF EvidenceInv, Indexed
<1>11. CASE Discover
  <2>1. scan.pc = "idle" /\ scan'.pc = "judge" /\ UNCHANGED <<session, index>>
    BY <1>11 DEF Discover, NoScan
  <2> QED BY <1>5, <2>1
<1>6. CASE SkipUnchanged \/ Defer \/ LoadFails \/ GiveUp \/ StoreAlias
  <2>1. UNCHANGED <<session, index>>
    BY <1>6 DEF SkipUnchanged, Defer, LoadFails, GiveUp, StoreAlias
  <2>2. scan.pc # "store"
    BY <1>6 DEF SkipUnchanged, Defer, LoadFails, Unread, GiveUp, StoreAlias
  <2>3. scan'.pc = "idle"
    BY <1>6 DEF SkipUnchanged, Defer, LoadFails, GiveUp, StoreAlias, NoScan
  <2> QED BY <1>5, <2>1, <2>2, <2>3
<1>7. CASE StartLoad \/ ReadRecord \/ EndOfSource \/ Reload \/ Accept
  <2>1. UNCHANGED <<session, index>>
    BY <1>7 DEF StartLoad, ReadRecord, EndOfSource, Reload, Accept
  <2>2. scan.pc # "store"
    BY <1>7 DEF StartLoad, ReadRecord, Unread, EndOfSource, Reload, Accept
  <2>3. scan'.pc \in {"load", "check", "index"}
    BY <1>3, <1>7
    DEF StartLoad, ReadRecord, Unread, EndOfSource, Reload, Loading, Accept, ScanRecord
  <2> QED BY <1>5, <2>1, <2>2, <2>3
<1>8. CASE Exclude
  <2>1. scan.pc = "judge" /\ scan'.pc = "idle"
    BY <1>8 DEF Exclude, NoScan
  <2>2. CASE session[scan.identity] = None
    BY <1>5, <1>8, <2>1, <2>2 DEF Exclude
  <2>3. CASE session[scan.identity] # None
    <3>1. /\ index' = [index EXCEPT ![scan.identity] = None]
          /\ session' = [session EXCEPT ![scan.identity] =
                           [session[scan.identity] EXCEPT !.status = "excluded"]]
      BY <1>8, <2>3 DEF Exclude
    <3>2. session[scan.identity] \in SessionRow
      BY <1>3, <2>3
    <3>3. session'[scan.identity].status = "excluded" /\ index'[scan.identity] = None
      BY <1>3, <3>1, <3>2 DEF SessionRow
    <3>4. \A id \in Identity \ {scan.identity} :
            session'[id] = session[id] /\ index'[id] = index[id]
      BY <1>3, <3>1
    <3> QED BY <1>4, <2>1, <3>3, <3>4 DEF EvidenceInv, Indexed
  <2> QED BY <2>2, <2>3
<1>9. CASE WriteIndex
  <2>1. /\ scan.pc = "index" /\ scan'.pc = "store" /\ scan'.identity = scan.identity
        /\ scan'.memory = scan.memory /\ session' = session
        /\ index' = [index EXCEPT ![scan.identity] = Passages]
    BY <1>3, <1>9 DEF WriteIndex, Passages, ScanRecord
  <2>2. Passages' = Passages
    BY <2>1 DEF Passages
  <2>3. index'[scan.identity] = Passages /\ \A id \in Identity \ {scan.identity} : index'[id] = index[id]
    BY <1>3, <2>1
  <2> QED BY <1>4, <2>1, <2>2, <2>3 DEF EvidenceInv, Indexed
<1>10. CASE StoreSession
  <2> DEFINE row == Row(scan.before, scan.memory.turns)
  <2>1. /\ scan.pc = "store" /\ scan'.pc = "alias" /\ index' = index
        /\ session' = [session EXCEPT ![scan.identity] = row]
    BY <1>3, <1>10 DEF StoreSession, ScanRecord
  <2>2. row \in SessionRow /\ row # None
    BY <1>3, <2>1, NoneAssumption DEF HasSpool, Row, SessionRow
  <2>3. row.turns = scan.memory.turns
        /\ row.status = IF scan.memory.turns = <<>> THEN "empty" ELSE "current"
    BY DEF Row
  <2> HIDE DEF row
  <2>4. session'[scan.identity] = row
        /\ \A id \in Identity \ {scan.identity} : session'[id] = session[id]
    BY <1>3, <2>1
  <2>5. index[scan.identity] = Passages
    BY <1>3, <1>4, <2>1
  <2>6. Passages = IF row # None /\ row.status = "current" THEN row.turns ELSE None
    BY <2>2, <2>3 DEF Passages
  <2>7. ASSUME NEW id \in Identity
        PROVE  index'[id] = IF session'[id] # None /\ session'[id].status = "current"
                            THEN session'[id].turns ELSE None
    <3>1. CASE id = scan.identity
      BY <2>1, <2>4, <2>5, <2>6, <3>1
    <3>2. CASE id # scan.identity
      BY <1>4, <2>1, <2>4, <3>2 DEF Indexed
    <3> QED BY <3>1, <3>2
  <2> QED BY <2>1, <2>7 DEF EvidenceInv, Indexed
<1> QED BY <1>2, <1>6, <1>7, <1>8, <1>9, <1>10, <1>11 DEF ScanStep

-----------------------------------------------------------------------------
(* The document: what is read, and what is stored.                         *)

\* The agent only appends, so what was read stays what it was.
LEMMA FileGrows ==
  ASSUME SourceInv, AgentStep
  PROVE  /\ SameStart(file, file', Len(file))
         /\ Len(file') \in 0 .. MaxRecords /\ Len(file) \in 0 .. MaxRecords
<1>1. file \in Seq(Record(agent)) /\ Len(file) \in 0 .. MaxRecords
  BY LenProperties, TranscriptAssumption DEF SourceInv
<1>2. file' \in Seq(Record(agent')) /\ Len(file') \in 0 .. MaxRecords
  BY SourceKeeps, LenProperties, TranscriptAssumption DEF SourceInv
<1>3. file' = file \/ \E record : file' = Append(file, record)
  BY DEF AgentStep, CompleteHeader, EndRecord, Reclassify, BeginRecord, CommitMessage
<1>4. CASE file' = file
  BY <1>1, <1>2, <1>4 DEF SameStart
<1>5. ASSUME NEW record, file' = Append(file, record)
      PROVE  SameStart(file, file', Len(file))
  BY <1>1, <1>5 DEF SameStart
<1> QED BY <1>1, <1>2, <1>3, <1>4, <1>5

LEMMA GrowthKeeps ==
  ASSUME TypeInv, LoadInv, RowsInv, AgentStep
  PROVE  LoadInv' /\ RowsInv'
<1>1. /\ SameStart(file, file', Len(file))
      /\ Len(file') \in 0 .. MaxRecords /\ Len(file) \in 0 .. MaxRecords
  BY FileGrows DEF TypeInv
<1>2. agent' = agent /\ scan' = scan /\ session' = session /\ agent \in Agent
  BY AgentWrites DEF stateVars, TypeInv, SourceInv
<1>3. \A n \in 0 .. Len(file) : Memories(agent', file')[n] = Memories(agent, file)[n]
  <2>1. PICK k \in Nat : k = Len(file)
    BY <1>1
  <2>2. PICK t : t = file
    OBVIOUS
  <2>3. PICK u : u = file'
    OBVIOUS
  <2>4. \A n \in 0 .. k : Memories(agent, t)[n] = Memories(agent, u)[n]
    BY <1>1, <1>2, <2>1, <2>2, <2>3, MemoriesOfStart
  <2> QED BY <1>2, <2>1, <2>2, <2>3, <2>4
<1>4. \A i \in 1 .. Len(file) : file'[i] = file[i]
  BY <1>1 DEF SameStart
<1>5. Len(file) <= Len(file')
  BY <1>1 DEF SameStart
<1>6. LoadInv'
  <2>1. /\ Len(Content) \in 0 .. MaxRecords /\ SameStart(Content, file, Len(Content))
    BY ContentIsStart
  <2>2. Len(Content') \in Nat /\ Len(Content) <= Len(Content') /\ Len(Content) <= Len(file)
    BY <1>1, <1>2, <1>5, <2>1 DEF Content, SameStart
  <2>3. scan.at \in Nat /\ scan.at <= Len(Content) /\ (HasSpool => scan.before.size \in Nat)
    BY TranscriptAssumption DEF LoadInv, TypeInv, ScanInv, ScanRecord, Fingerprints
  <2>4. agent = "opencode" => SameStart(scan.view, file', Len(scan.view))
    <3>1. ASSUME agent = "opencode"
          PROVE  Len(scan.view) \in Nat /\ Len(scan.view) <= Len(file)
      BY <2>1, <2>2, <3>1 DEF Content
    <3> QED BY <1>1, <1>4, <1>5, <3>1 DEF SameStart, LoadInv
  <2>5. scan.memory = Memories(agent', file')[scan.at]
    BY <1>1, <1>3, <2>1, <2>2, <2>3 DEF LoadInv
  <2>6. \A i \in 1 .. scan.at : file'[i].kind # "broken"
    BY <1>1, <1>4, <2>1, <2>2, <2>3 DEF LoadInv
  <2>7. HasSpool' <=> HasSpool
    BY <1>2 DEF HasSpool
  <2>8. scan.at <= Len(Content') /\ (HasSpool => scan.before.size <= Len(Content'))
    BY <2>1, <2>2, <2>3 DEF LoadInv
  <2> QED BY <1>2, <2>4, <2>5, <2>6, <2>7, <2>8 DEF LoadInv
<1>7. ASSUME NEW id \in Identity, session[id] # None
      PROVE  WholeRow(session[id])'
  <2>1. session[id] \in SessionRow /\ WholeRow(session[id])
    BY <1>7 DEF TypeInv, StateInv, RowsInv
  <2>2. session[id].fingerprint.size \in Nat
    BY <2>1, TranscriptAssumption DEF SessionRow, Fingerprints
  <2>3. session'[id] = session[id]
    BY <1>2
  <2> DEFINE size == session[id].fingerprint.size
  <2>4. size <= Len(file) /\ size <= Len(file') /\ size \in 0 .. Len(file)
    BY <1>1, <1>5, <2>1, <2>2 DEF WholeRow
  <2>5. \A i \in 1 .. size : file'[i].kind # "broken"
    BY <1>1, <1>4, <2>1, <2>4 DEF WholeRow
  <2>6. session[id].turns = Memories(agent', file')[size].turns
    BY <1>3, <2>1, <2>4 DEF WholeRow
  <2> QED BY <1>2, <2>1, <2>4, <2>5, <2>6 DEF WholeRow
<1> QED BY <1>2, <1>6, <1>7 DEF RowsInv

LEMMA ParentsKeep ==
  ASSUME SourceInv, ParentsInv, AgentStep
  PROVE  ParentsInv'
<1>1. file \in Seq(Record(agent)) /\ Len(file) \in Nat /\ shape \in Shape
  BY LenProperties DEF SourceInv
<1>2. shape' = shape
  BY DEF AgentStep, CompleteHeader, EndRecord, Reclassify, BeginRecord, CommitMessage
<1>3. ASSUME NEW record, Follows(file, record, shape)
      PROVE  record.parent \in 0 .. Len(file) /\ (shape = "linear" => record.parent = NoParent)
  BY <1>1, <1>3 DEF Follows, NoParent
<1>4. ASSUME NEW record, file' = Append(file, record),
             record.parent \in 0 .. Len(file) /\ (shape = "linear" => record.parent = NoParent)
      PROVE  \A i \in 1 .. Len(file') :
               file'[i].parent \in 0 .. i - 1 /\ (shape = "linear" => file'[i].parent = NoParent)
  <2> TAKE i \in 1 .. Len(file')
  <2>1. Len(file') = Len(file) + 1 /\ file'[i] = IF i = Len(file) + 1 THEN record ELSE file[i]
    BY <1>1, <1>4
  <2>2. CASE i = Len(file) + 1
    BY <1>1, <1>4, <2>1, <2>2
  <2>3. CASE i # Len(file) + 1
    <3>1. i \in 1 .. Len(file)
      BY <1>1, <2>1, <2>3
    <3> QED BY <2>1, <2>3, <3>1 DEF ParentsInv
  <2> QED BY <2>2, <2>3
<1>5. CASE CompleteHeader \/ Reclassify
  BY <1>5 DEF CompleteHeader, Reclassify, ParentsInv
<1>6. CASE EndRecord
  BY <1>2, <1>4, <1>6 DEF EndRecord, ParentsInv
<1>7. ASSUME NEW record, BeginRecord(record)
      PROVE  ParentsInv'
  BY <1>2, <1>3, <1>7 DEF BeginRecord, ParentsInv
<1>8. ASSUME NEW record, CommitMessage(record)
      PROVE  ParentsInv'
  <2>1. tail' = tail /\ tail = None
    BY <1>8 DEF CommitMessage, SourceInv
  <2> QED BY <1>2, <1>3, <1>4, <1>8, <2>1 DEF CommitMessage, ParentsInv
<1> QED BY <1>5, <1>6, <1>7, <1>8 DEF AgentStep

\* A step of the scan leaves the source, so what it has read stays the same.
LEMMA LoadKeeps ==
  ASSUME TypeInv, LoadInv, ScanStep \/ FaultStep
  PROVE  LoadInv'
<1>1. agent' = agent /\ file' = file
  BY ScanReads DEF sourceVars
<1>2. /\ Len(file) \in 0 .. MaxRecords /\ Len(Content) \in 0 .. MaxRecords
      /\ SameStart(Content, file, Len(Content)) /\ Len(Content) <= Len(file)
  BY ContentIsStart DEF SameStart
<1>3. /\ scan \in ScanRecord /\ agent \in Agent /\ file \in Seq(Record(agent))
      /\ scan.at \in Nat /\ (HasSpool => scan.before \in Fingerprints /\ scan.before.size \in Nat)
  BY TranscriptAssumption DEF TypeInv, ScanInv, SourceInv, ScanRecord, Fingerprints
<1>4. Memories(agent, file)[0] = NothingRead /\ Len(NothingRead.turns) < MaxTurns
  BY NothingReadIsStart DEF TypeInv
<1>5. ASSUME scan'.pc \in {"idle", "judge"}, scan'.at = 0, scan'.memory = NothingRead,
             scan'.view = <<>>
      PROVE  LoadInv'
  <2>1. Len(Content') \in Nat
    BY <1>1, <1>2, <1>5 DEF Content
  <2> QED BY <1>1, <1>2, <1>4, <1>5, <2>1 DEF LoadInv, HasSpool, SameStart
<1>6. CASE Ends \/ Discover
  <2>1. \/ scan' = NoScan
        \/ \E id : scan' = [NoScan EXCEPT !.pc = "judge", !.identity = id, !.primary = primary]
    BY <1>6, EndsWithNoScan DEF Discover
  <2>2. /\ scan'.pc \in {"idle", "judge"} /\ scan'.at = 0 /\ scan'.memory = NothingRead
        /\ scan'.view = <<>>
    <3>1. /\ NoScan \in ScanRecord /\ NoScan.pc = "idle" /\ NoScan.at = 0
          /\ NoScan.memory = NothingRead /\ NoScan.view = <<>>
      BY NothingReadType, TranscriptAssumption DEF NoScan, ScanRecord, PC, Identity, Attempts
    <3> QED BY <2>1, <3>1 DEF ScanRecord
  <2> QED BY <1>5, <2>2
<1>7. CASE StartLoad \/ Reload
  <2>1. PICK attempt : scan' = Loading(attempt)
    BY <1>7 DEF StartLoad, Reload
  <2> DEFINE view == IF agent = "opencode" THEN file ELSE <<>>
  <2>2. scan' = [scan EXCEPT !.pc = "load", !.attempt = attempt, !.before = Fingerprint,
                             !.view = view, !.at = 0, !.memory = NothingRead]
    BY <2>1 DEF Loading
  <2> HIDE DEF view
  <2>3. /\ scan'.pc = "load" /\ scan'.before = Fingerprint /\ scan'.view = view
        /\ scan'.at = 0 /\ scan'.memory = NothingRead
    BY <1>3, <2>2 DEF ScanRecord
  <2>4. Fingerprint.size = Len(file)
    BY <1>3 DEF Fingerprint, FileFingerprint, CodexFingerprint, DatabaseFingerprint, Agent
  <2>5. Content' = file /\ (agent = "opencode" => view = file)
    BY <1>1, <2>3 DEF Content, view
  <2>6. SameStart(file, file, Len(file))
    BY <1>2 DEF SameStart
  <2> QED BY <1>1, <1>2, <1>4, <2>3, <2>4, <2>5, <2>6 DEF LoadInv
<1>8. CASE ReadRecord
  <2>1. /\ scan' = [scan EXCEPT !.at = scan.at + 1, !.memory = Reading]
        /\ scan.pc = "load" /\ scan.at < Len(Content) /\ Fits(Reading)
        /\ Content[scan.at + 1].kind # "broken"
    BY <1>8 DEF ReadRecord, Unread
  <2>2. /\ scan'.pc = "load" /\ scan'.at = scan.at + 1 /\ scan'.memory = Reading
        /\ scan'.view = scan.view /\ scan'.before = scan.before
    BY <1>3, <2>1 DEF ScanRecord
  <2>3. Content' = Content
    BY <1>1, <2>2 DEF Content
  <2>4. scan.at + 1 \in 1 .. Len(Content) /\ scan.at + 1 \in 1 .. Len(file)
        /\ (scan.at + 1) - 1 = scan.at
    BY <1>2, <1>3, <2>1
  <2>5. Content[scan.at + 1] = file[scan.at + 1]
    BY <1>2, <2>4 DEF SameStart
  <2>6. scan.memory = Memories(agent, file)[scan.at]
    BY DEF LoadInv
  <2>7. Memories(agent, file)[scan.at + 1] =
          Step(agent, Memories(agent, file)[scan.at], scan.at + 1, file[scan.at + 1])
    <3>1. PICK n : n = scan.at + 1
      OBVIOUS
    <3>2. PICK t : t = file
      OBVIOUS
    <3>3. n - 1 = scan.at /\ n \in 1 .. Len(t)
      BY <2>4, <3>1, <3>2
    <3>4. Memories(agent, t)[n] = Step(agent, Memories(agent, t)[n - 1], n, t[n])
      BY <1>2, <1>3, <3>2, <3>3, MemoriesStep
    <3> QED BY <3>1, <3>2, <3>3, <3>4
  <2>8. Reading = Memories(agent, file)[scan.at + 1]
    BY <2>5, <2>6, <2>7 DEF Reading
  <2>9. \A i \in 1 .. scan.at + 1 : file[i].kind # "broken"
    <3> TAKE i \in 1 .. scan.at + 1
    <3>1. i \in 1 .. scan.at \/ i = scan.at + 1
      BY <1>3
    <3> QED BY <2>1, <2>5, <3>1 DEF LoadInv
  <2>10. HasSpool /\ scan.before.size <= Len(Content)
    BY <2>1 DEF LoadInv, HasSpool
  <2> QED
    BY <1>1, <2>1, <2>2, <2>3, <2>4, <2>8, <2>9, <2>10 DEF LoadInv, Fits
<1>9. ASSUME NEW pc \in {"check", "index", "store", "alias"}, scan' = [scan EXCEPT !.pc = pc],
             HasSpool, pc = "check" => scan.at >= scan.before.size,
             pc # "check" => scan.at = scan.before.size
      PROVE  LoadInv'
  <2>1. /\ scan'.pc = pc /\ scan'.at = scan.at /\ scan'.memory = scan.memory
        /\ scan'.view = scan.view /\ scan'.before = scan.before
    BY <1>3, <1>9 DEF ScanRecord
  <2>2. Content' = Content
    BY <1>1, <2>1 DEF Content
  <2> QED BY <1>1, <1>9, <2>1, <2>2 DEF LoadInv
<1>10. CASE EndOfSource
  <2>1. scan.pc = "load" /\ scan.at = Len(Content) /\ scan' = [scan EXCEPT !.pc = "check"]
    BY <1>10 DEF EndOfSource
  <2>2. HasSpool /\ scan.before.size <= Len(Content)
    BY <2>1 DEF LoadInv, HasSpool
  <2> QED BY <1>2, <1>3, <1>9, <2>1, <2>2
<1>11. CASE Accept
  <2>1. scan.pc = "check" /\ Fingerprint = scan.before /\ scan' = [scan EXCEPT !.pc = "index"]
    BY <1>11 DEF Accept
  <2>2. Fingerprint.size = Len(file)
    BY <1>3 DEF Fingerprint, FileFingerprint, CodexFingerprint, DatabaseFingerprint, Agent
  <2>3. HasSpool /\ scan.at >= scan.before.size /\ scan.at <= Len(Content)
    BY <2>1 DEF LoadInv, HasSpool
  <2>4. scan.at = scan.before.size
    BY <1>2, <1>3, <2>1, <2>2, <2>3
  <2> QED BY <1>9, <2>1, <2>3, <2>4
<1>12. CASE WriteIndex \/ StoreSession
  <2>1. PICK pc \in {"store", "alias"} : scan' = [scan EXCEPT !.pc = pc]
    BY <1>12 DEF WriteIndex, StoreSession
  <2>2. HasSpool /\ scan.at = scan.before.size
    BY <1>12 DEF WriteIndex, StoreSession, HasSpool, LoadInv
  <2> QED BY <1>9, <2>1, <2>2
<1> QED BY <1>6, <1>7, <1>8, <1>10, <1>11, <1>12 DEF ScanStep, FaultStep, Ends

\* A row is written when its scan has read what the fingerprint stands for.
LEMMA RowsKeep ==
  ASSUME TypeInv, LoadInv, RowsInv, ScanStep \/ FaultStep
  PROVE  RowsInv'
<1>1. agent' = agent /\ file' = file
  BY ScanReads DEF sourceVars
<1>2. session \in [Identity -> SessionRow \cup {None}] /\ scan \in ScanRecord
      /\ scan.identity \in Identity
  BY DEF TypeInv, StateInv, ScanInv, ScanRecord
<1>3. ASSUME NEW row, WholeRow(row)
      PROVE  WholeRow(row)'
  BY <1>1, <1>3 DEF WholeRow
<1>4. CASE session' = session
  BY <1>1, <1>4 DEF RowsInv, WholeRow
<1>5. ASSUME NEW row, WholeRow(row), session' = [session EXCEPT ![scan.identity] = row]
      PROVE  RowsInv'
  <2>1. ASSUME NEW id \in Identity, session'[id] # None
        PROVE  WholeRow(session'[id])
    <3>1. CASE id = scan.identity
      BY <1>2, <1>5, <3>1
    <3>2. CASE id # scan.identity
      BY <1>2, <1>5, <2>1, <3>2 DEF RowsInv
    <3> QED BY <3>1, <3>2
  <2> QED BY <1>1, <2>1 DEF RowsInv, WholeRow
<1>6. CASE Exclude /\ session[scan.identity] # None
  <2>1. session' = [session EXCEPT ![scan.identity] =
                      [session[scan.identity] EXCEPT !.status = "excluded"]]
    BY <1>6 DEF Exclude
  <2>2. session[scan.identity] \in SessionRow /\ WholeRow(session[scan.identity])
    BY <1>2, <1>6 DEF RowsInv
  <2> DEFINE row == [session[scan.identity] EXCEPT !.status = "excluded"]
  <2>3. row.fingerprint = session[scan.identity].fingerprint
        /\ row.turns = session[scan.identity].turns
    BY <2>2 DEF SessionRow
  <2> HIDE DEF row
  <2>4. WholeRow(row)
    BY <2>2, <2>3 DEF WholeRow
  <2>5. session' = [session EXCEPT ![scan.identity] = row]
    BY <2>1 DEF row
  <2> QED BY <1>5, <2>4, <2>5
<1>7. CASE StoreSession
  <2>1. /\ scan.pc = "store"
        /\ session' = [session EXCEPT ![scan.identity] = Row(scan.before, scan.memory.turns)]
    BY <1>7 DEF StoreSession
  <2>2. scan.at = scan.before.size /\ scan.at <= Len(Content) /\ scan.at \in Nat
    BY <1>2, <2>1, TranscriptAssumption DEF LoadInv, ScanRecord
  <2>3. Len(Content) <= Len(file) /\ Len(Content) \in Nat /\ Len(file) \in Nat
    BY ContentIsStart DEF SameStart
  <2>4. scan.before.size <= Len(file)
    BY <2>2, <2>3
  <2>5. WholeRow(Row(scan.before, scan.memory.turns))
    BY <2>2, <2>4 DEF WholeRow, Row, LoadInv
  <2> QED BY <1>5, <2>1, <2>5
<1>8. CASE ~StoreSession /\ ~(Exclude /\ session[scan.identity] # None)
  <2>1. session' = session
    BY <1>8
    DEF ScanStep, FaultStep, stateVars, Discover, Exclude, SkipUnchanged, Defer, StartLoad,
        ReadRecord, LoadFails, EndOfSource, Reload, GiveUp, Accept, WriteIndex, StoreAlias,
        Crash, CrashInExclusion, IndexFails
  <2> QED BY <1>4, <2>1
<1> QED BY <1>6, <1>7, <1>8

-----------------------------------------------------------------------------
LEMMA ScanningInvNext == ScanningInv /\ [Next]_vars => ScanningInv'
<1> SUFFICES ASSUME ScanningInv, [Next]_vars
             PROVE  ScanningInv'
  OBVIOUS
<1> USE DEF ScanningInv, TypeInv
<1>1. ASSUME UNCHANGED <<stateVars, index, spools, scan, faults>>, agent' = agent
      PROVE  ScanInv' /\ StateInv' /\ SpoolInv' /\ IdentityInv' /\ EvidenceInv'
  BY <1>1
  DEF stateVars, ScanInv, ScanRecord, HasSpool, StateInv, SpoolInv, IdentityInv, EvidenceInv,
      Indexed, Passages
<1>2. ASSUME UNCHANGED sourceVars
      PROVE  SourceInv'
  BY <1>2 DEF sourceVars, SourceInv
<1>3. CASE AgentStep
  <2>1. ScanInv' /\ StateInv' /\ SpoolInv' /\ IdentityInv' /\ EvidenceInv' /\ SourceInv'
    BY <1>1, <1>3, AgentWrites, SourceKeeps
  <2>2. DocumentInv'
    BY <1>3, GrowthKeeps, ParentsKeep DEF DocumentInv
  <2> QED BY <2>1, <2>2
<1>4. CASE ScanStep \/ FaultStep
  <2>1. ScanInv' /\ StateInv' /\ SpoolInv' /\ IdentityInv' /\ EvidenceInv' /\ SourceInv'
    BY <1>2, <1>4, ScanReads, ScanKeeps, StateKeeps, SpoolKeeps, IdentityKeeps, EvidenceKeeps
  <2>2. LoadInv' /\ RowsInv'
    BY <1>4, LoadKeeps, RowsKeep DEF DocumentInv
  <2>3. ParentsInv'
    BY <1>4, ScanReads DEF DocumentInv, ParentsInv, sourceVars
  <2> QED BY <2>1, <2>2, <2>3 DEF DocumentInv
<1>5. CASE UNCHANGED vars
  <2>1. ScanInv' /\ StateInv' /\ SpoolInv' /\ IdentityInv' /\ EvidenceInv' /\ SourceInv'
    BY <1>1, <1>2, <1>5 DEF vars, sourceVars
  <2>2. DocumentInv'
    BY <1>5 DEF vars, sourceVars, stateVars, DocumentInv, ParentsInv, LoadInv, RowsInv, WholeRow,
                HasSpool, Content, SameStart
  <2> QED BY <2>1, <2>2
<1> QED BY <1>3, <1>4, <1>5 DEF Next

LEMMA ScanningInvHolds == Spec => []ScanningInv
BY ScanningInvInit, ScanningInvNext, PTL DEF Spec

-----------------------------------------------------------------------------
\* The content of a row's fingerprint is the beginning of the file.
LEMMA RowsExplain ==
  ASSUME TypeInv, RowsInv
  PROVE  StoredIsWhole
<1>1. Len(file) \in 0 .. MaxRecords /\ agent \in Agent /\ file \in Seq(Record(agent))
  BY LenProperties, TranscriptAssumption DEF TypeInv, SourceInv
<1>2. ASSUME NEW id \in Identity, session[id] # None
      PROVE  LET content == SubSeq(file, 1, session[id].fingerprint.size) IN
             /\ \A i \in DOMAIN content : content[i].kind # "broken"
             /\ session[id].turns = Canonical(agent, content)
             /\ Len(session[id].turns) < MaxTurns
  <2>1. WholeRow(session[id]) /\ session[id] \in SessionRow
    BY <1>2 DEF RowsInv, TypeInv, StateInv
  <2>2. PICK size \in 0 .. MaxRecords : size = session[id].fingerprint.size
    BY <2>1 DEF SessionRow, Fingerprints
  <2>3. /\ size \in Nat /\ size <= Len(file) /\ \A i \in 1 .. size : file[i].kind # "broken"
        /\ session[id].turns = Memories(agent, file)[size].turns
        /\ Len(session[id].turns) < MaxTurns
    BY <2>1, <2>2, TranscriptAssumption DEF WholeRow
  <2>4. PICK content : content = SubSeq(file, 1, size)
    OBVIOUS
  <2>5. Len(content) = size /\ DOMAIN content = 1 .. size
        /\ \A i \in 1 .. size : content[i] = file[i]
    BY <1>1, <2>3, <2>4
  <2>6. Memories(agent, content)[size] = Memories(agent, file)[size]
    <3>1. PICK t : t = file
      OBVIOUS
    <3>2. SameStart(content, t, size)
      BY <1>1, <2>3, <2>5, <3>1 DEF SameStart
    <3>3. size \in 0 .. size
      BY <2>3
    <3> QED BY <1>1, <2>2, <2>5, <3>1, <3>2, <3>3, MemoriesOfStart
  <2>7. session[id].turns = Canonical(agent, content)
    BY <2>3, <2>5, <2>6 DEF Canonical
  <2>8. \A i \in DOMAIN content : content[i].kind # "broken"
    BY <2>3, <2>5
  <2> QED BY <2>2, <2>3, <2>4, <2>7, <2>8
<1> QED BY <1>2 DEF StoredIsWhole

\* The turns of a load are those of the records it has read.
LEMMA MarksExplain ==
  ASSUME TypeInv, ParentsInv, LoadInv
  PROVE  BranchIsMarked
<1>1. SUFFICES ASSUME agent = "pi" \/ shape = "linear"
               PROVE  \A i \in DOMAIN scan.memory.turns :
                        scan.memory.turns[i].role = "assistant" =>
                          Marked(Content, scan.memory.turns[i])
  BY DEF BranchIsMarked
<1>2. /\ Len(file) \in 0 .. MaxRecords /\ Len(Content) \in 0 .. MaxRecords
      /\ SameStart(Content, file, Len(Content)) /\ agent \in Agent
      /\ scan.at \in Nat /\ scan.at <= Len(Content)
  BY ContentIsStart, TranscriptAssumption DEF TypeInv, SourceInv, ScanInv, ScanRecord, LoadInv
<1>3. PICK t : t = Content
  OBVIOUS
<1>4. PICK u : u = file
  OBVIOUS
<1>5. PICK n : n = scan.at
  OBVIOUS
<1>6. n \in 0 .. Len(t) /\ Len(t) <= Len(u) /\ Len(t) \in Nat /\ \A i \in 1 .. Len(t) : t[i] = u[i]
  BY <1>2, <1>3, <1>4, <1>5 DEF SameStart
<1>7. Rooted(t) /\ (shape = "linear" => \A i \in 1 .. Len(t) : t[i].parent = NoParent)
  <2>1. \A i \in 1 .. Len(u) : u[i].parent \in 0 .. i - 1
                              /\ (shape = "linear" => u[i].parent = NoParent)
    BY <1>4 DEF ParentsInv
  <2>2. \A i \in 1 .. Len(t) : i \in 1 .. Len(u)
    BY <1>2, <1>4, <1>6
  <2> QED BY <1>6, <2>1, <2>2 DEF Rooted
<1>8. Memories(agent, t)[n] = Memories(agent, u)[n]
  <2>1. PICK k : k = Len(t)
    OBVIOUS
  <2> QED BY <1>2, <1>3, <1>4, <1>6, <2>1, MemoriesOfStart
<1>9. RightMemory(shape, t, n, scan.memory)
  <2>1. PICK s : s = shape
    OBVIOUS
  <2>2. PICK a \in Agent : a = agent
    BY <1>2
  <2>3. Grown(a, s, t) /\ Len(t) <= MaxRecords
    BY <1>1, <1>2, <1>3, <1>7, <2>1, <2>2, TranscriptAssumption DEF Grown
  <2>4. RightMemory(s, t, n, Memories(a, t)[n])
    BY <1>6, <2>3, MemoriesAreRight
  <2>5. scan.memory = Memories(a, t)[n]
    BY <1>4, <1>5, <1>8, <2>2 DEF LoadInv
  <2> QED BY <2>1, <2>4, <2>5
<1>10. DOMAIN scan.memory.turns = 1 .. Len(scan.memory.turns)
  BY LenProperties DEF TypeInv, ScanInv, ScanRecord, Memory, Turns
<1> QED BY <1>3, <1>9, <1>10 DEF RightMemory, Right

LEMMA ScanningInvExplains ==
  ASSUME ScanningInv
  PROVE  /\ TypeOK /\ OneIdentity /\ SpoolsAreRemoved /\ EvidenceFollows
         /\ StoredIsWhole /\ BranchIsMarked
<1> USE DEF ScanningInv, TypeInv
<1>1. TypeOK
  <2>1. /\ scan.pc \in PC /\ scan.at \in 0 .. MaxRecords /\ scan.attempt \in 0 .. Attempts
        /\ scan.memory.pending \subseteq Entry /\ scan.memory.turns \in Turns
    BY DEF ScanInv, ScanRecord, Memory
  <2> QED BY <2>1 DEF TypeOK, SourceInv, ScanInv, StateInv, SpoolInv, PC
<1>2. OneIdentity
  <2> DEFINE rows == {id \in Identity : session[id] # None}
  <2>1. SUFFICES ASSUME faults = 0
                 PROVE  Cardinality(rows) <= 1
    BY DEF OneIdentity
  <2>2. PICK one : rows \subseteq {one}
    <3>1. CASE scan.pc = "alias"
      BY <2>1, <3>1 DEF IdentityInv
    <3>2. CASE scan.pc # "alias"
      BY <2>1, <3>2 DEF IdentityInv
    <3> QED BY <3>1, <3>2
  <2>3. IsFiniteSet({one}) /\ Cardinality({one}) = 1
    BY FS_Singleton
  <2>4. Cardinality(rows) <= Cardinality({one})
    BY <2>2, <2>3, FS_Subset
  <2> QED BY <2>3, <2>4
<1>3. SpoolsAreRemoved
  BY DEF SpoolsAreRemoved, SpoolInv, HasSpool
<1>4. EvidenceFollows
  BY DEF EvidenceFollows, EvidenceInv, Indexed
<1>5. StoredIsWhole /\ BranchIsMarked
  BY RowsExplain, MarksExplain DEF DocumentInv
<1> QED BY <1>1, <1>2, <1>3, <1>4, <1>5

\* Every variable of the scan keeps its type: the adapters' memory and the
\* rows of sessions hold turns of the transcript, whatever it is.
THEOREM ScanTypes == Spec => []TypeOK
BY ScanningInvHolds, ScanningInvExplains, PTL

\* adapters/identity.ts, importer/scanner.ts: a session that was seen before
\* its header was complete keeps the identity it was stored under.
THEOREM SessionsAreOne == Spec => []OneIdentity
BY ScanningInvHolds, ScanningInvExplains, PTL

\* adapters/canonical-spool.ts: every way a load can end removes its spool;
\* each crash leaves one at most.
THEOREM SpoolsDoNotPileUp == Spec => []SpoolsAreRemoved
BY ScanningInvHolds, ScanningInvExplains, PTL

\* importer/evidence-index.ts beside importer/scanner.ts: without faults the
\* index is the sessions' between scans, two databases though they are.
THEOREM IndexFollowsSessions == Spec => []EvidenceFollows
BY ScanningInvHolds, ScanningInvExplains, PTL

\* importer/scanner.ts, adapters/*: a stored document is made of all the content
\* its fingerprint stands for and of nothing else, for transcripts of any length
\* and whatever is written while they are read.
THEOREM DocumentsAreWhole == Spec => []StoredIsWhole
BY ScanningInvHolds, ScanningInvExplains, PTL

\* adapters/*: prose is marked as memory-assisted when, and only when, a search is
\* newer on its branch than the last message of the user, for every branching of
\* Pi and every transcript without branches.
THEOREM BranchesAreMarked == Spec => []BranchIsMarked
BY ScanningInvHolds, ScanningInvExplains, PTL
=============================================================================
