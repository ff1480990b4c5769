-------------------------- MODULE ExtensionProofs ---------------------------
(***************************************************************************)
(* What the Pi extension promises its users, for any number of requesters, *)
(* sessions, searches and requests: nothing of an excluded session is      *)
(* found but what the cleanup's list missed, the provider is the running   *)
(* session's, and no status is older than the request for it.              *)
(***************************************************************************)
EXTENDS Extension, TLAPS

Search ==
  [pc : SearchPC, recorded : BOOLEAN, cleared : BOOLEAN, aborted : BOOLEAN,
   hits : BOOLEAN, facts : BOOLEAN, answered : BOOLEAN \cup {None}, match : BOOLEAN]

Collection ==
  [number : 1 .. MaxRequests, importer : {"begin", "counted", "read", "failed"},
   service : {"asked", "answered", "failed"}]

\* The search passed the check for pending cleanups.
Passed == search.pc \in {"evidence", "facts", "ask", "wait", "received", "done"}

\* The cleanup has done what it does in the bank.
Over == excluding \in {"deleted", "excluded"}

\* A search that began after the exclusion was recorded passes the check only
\* when the cleanup is over; the operation is settled then, and a document that
\* is still to be found is one that the list of the cleanup missed.
SearchInv ==
  /\ search \in Search
  /\ excluding \in Stage /\ evidence \in BOOLEAN /\ stored \in BOOLEAN /\ open \in BOOLEAN
  /\ listed \in BOOLEAN \cup {None} /\ missed \in BOOLEAN
  /\ search.pc = "received" => search.answered \in BOOLEAN
  /\ listed # None => Recorded
  /\ excluding = "cleanup_pending" /\ listed = FALSE => ~stored \/ missed
  /\ Over => ~open /\ (stored => missed)
  /\ search.recorded =>
       /\ Recorded
       /\ Passed => excluding = "excluded"
       /\ search.answered = TRUE \/ search.match => Over /\ missed
  /\ search.cleared => ~evidence /\ ~search.hits

\* The function to unregister is set while a session runs, and only then.
LifeInv ==
  /\ session \in [number : 0 .. MaxSessions, runs : BOOLEAN]
  /\ unregister = session.runs
  /\ provider = IF session.runs THEN session.number ELSE None
  /\ session.runs => session.number # 0

\* A collection in flight has a number of its own, and has not ended.
StatusInv ==
  /\ requests \in 0 .. MaxRequests
  /\ collection \in [1 .. MaxSessions -> Collection \cup {None}]
  /\ waiting \in [Requester -> 1 .. MaxRequests \cup {None}]
  /\ finished \subseteq 1 .. requests
  /\ \A s \in 1 .. MaxSessions : collection[s] # None =>
       /\ collection[s].number <= requests
       /\ collection[s].number \notin finished
       /\ \A t \in 1 .. MaxSessions \ {s} :
            collection[t] # None => collection[t].number # collection[s].number

ExtensionInv == SearchInv /\ LifeInv /\ StatusInv

-----------------------------------------------------------------------------
LEMMA ExtensionInvInit == ExtensionInit => ExtensionInv
<1> SUFFICES ASSUME ExtensionInit
             PROVE  ExtensionInv
  OBVIOUS
<1> USE ExtensionAssumption DEF ExtensionInit
<1>1. SearchInv
  BY DEF SearchInv, Search, SearchPC, NoSearch, Stage, Passed, Over
<1>2. LifeInv
  <2>1. 0 \in 0 .. MaxSessions
    OBVIOUS
  <2>2. session \in [number : 0 .. MaxSessions, runs : BOOLEAN]
    BY <2>1
  <2> QED BY <2>2 DEF LifeInv
<1>3. StatusInv
  BY DEF StatusInv, OneUse
<1> QED BY <1>1, <1>2, <1>3 DEF ExtensionInv

LEMMA ExtensionInvExplains == ExtensionInv => TypeOK /\ ExcludedIsNotFound /\ SessionIsServed
<1> SUFFICES ASSUME ExtensionInv
             PROVE  TypeOK /\ ExcludedIsNotFound /\ SessionIsServed
  OBVIOUS
<1> USE ExtensionAssumption DEF ExtensionInv
<1>1. search.pc \in SearchPC /\ search.match \in BOOLEAN /\ search.answered \in BOOLEAN \cup {None}
  BY DEF SearchInv, Search
<1>2. provider \in 1 .. MaxSessions \cup {None} /\ unregister \in BOOLEAN
  BY DEF LifeInv
<1>3. finished \subseteq 1 .. MaxRequests
  BY DEF StatusInv
<1>4. TypeOK
  BY <1>1, <1>2, <1>3 DEF TypeOK, SearchInv, LifeInv, StatusInv
<1>5. ExcludedIsNotFound
  BY DEF ExcludedIsNotFound, SearchInv
<1>6. SessionIsServed
  BY DEF SessionIsServed, LifeInv
<1> QED BY <1>4, <1>5, <1>6

-----------------------------------------------------------------------------
(* The importer's steps, and the search beside them.                       *)

LEMMA ImporterKeeps ==
  ASSUME SearchInv, ImporterStep
  PROVE  SearchInv'
<1> USE DEF SearchInv, Stage, Recorded, Pending, Passed, Over, searchVars, cleanupVars
<1>1. UNCHANGED search
  BY DEF ImporterStep
<1>2. CASE ClearEvidence
  BY <1>1, <1>2 DEF ClearEvidence
<1>3. CASE ReclassifySession
  BY <1>1, <1>3 DEF ReclassifySession
<1>4. CASE RecordExclusion
  BY <1>1, <1>4, ExtensionAssumption DEF RecordExclusion
<1>5. CASE DeleteExcluded
  BY <1>1, <1>5 DEF DeleteExcluded
<1>6. CASE FinishCleanup
  BY <1>1, <1>6 DEF FinishCleanup
<1>7. CASE OperationEnds
  <2>1. open = TRUE /\ open' = FALSE /\ UNCHANGED <<excluding, evidence, listed>>
    BY <1>7 DEF OperationEnds
  <2>2. CASE /\ stored' = TRUE
             /\ missed' = IF excluding = "cleanup_pending" /\ listed = FALSE THEN TRUE
                          ELSE missed
    <3>1. CASE excluding = "cleanup_pending" /\ listed = FALSE
      BY <1>1, <2>1, <2>2, <3>1
    <3>2. CASE ~(excluding = "cleanup_pending" /\ listed = FALSE)
      BY <1>1, <2>1, <2>2, <3>2
    <3> QED BY <3>1, <3>2
  <2>3. CASE UNCHANGED <<stored, missed>>
    BY <1>1, <2>1, <2>3
  <2> QED BY <1>7, <2>2, <2>3 DEF OperationEnds
<1>8. CASE ListDocuments
  BY <1>1, <1>8, ExtensionAssumption DEF ListDocuments
<1>9. CASE DeleteEarlier
  BY <1>1, <1>9, ExtensionAssumption DEF DeleteEarlier
<1> QED BY <1>2, <1>3, <1>4, <1>5, <1>6, <1>7, <1>8, <1>9 DEF ImporterStep

LEMMA SearchKeeps ==
  ASSUME SearchInv, BeginSearch \/ AbortSearch \/ BankRecalls \/ SearchStep
  PROVE  SearchInv'
<1> USE DEF SearchInv, Search, SearchPC, Passed, Over, SearchAt, importerVars, cleanupVars
<1>1. CASE BeginSearch
  <2> DEFINE recorded == Recorded
             cleared == excluding \in Stage \ {"primary"} /\ ~evidence
  <2>1. /\ recorded \in BOOLEAN /\ cleared \in BOOLEAN
        /\ recorded => Recorded
        /\ cleared => ~evidence
    BY DEF Recorded, Pending
  <2>2. /\ search' = [NoSearch EXCEPT !.pc = "check", !.recorded = recorded, !.cleared = cleared]
        /\ UNCHANGED importerVars
    BY <1>1 DEF BeginSearch
  <2> HIDE DEF recorded, cleared
  <2>3. /\ search' \in Search /\ search'.pc = "check" /\ search'.answered = None
        /\ ~search'.match /\ ~search'.hits
        /\ search'.recorded = recorded /\ search'.cleared = cleared
    BY <2>1, <2>2 DEF NoSearch
  <2> QED BY <2>1, <2>2, <2>3, ExtensionAssumption DEF Recorded, Pending
<1>2. CASE AbortSearch
  BY <1>2 DEF AbortSearch, Recorded, Pending
<1>3. CASE BankRecalls
  BY <1>3, ExtensionAssumption DEF BankRecalls, Recorded, Pending
<1>4. CASE Blocked \/ CheckFails
  <2>1. /\ search.pc = "check" /\ search' = [search EXCEPT !.pc = "failed"]
        /\ UNCHANGED importerVars
    BY <1>4 DEF Blocked, CheckFails
  <2> QED BY <2>1 DEF Recorded, Pending
<1>5. CASE Check
  BY <1>5 DEF Check, Recorded, Pending
<1>6. CASE SearchEvidence
  <2>1. PICK readable \in BOOLEAN :
          /\ search.pc = "evidence"
          /\ search' = [search EXCEPT !.hits = readable /\ evidence, !.pc = "facts"]
          /\ UNCHANGED importerVars
    BY <1>6 DEF SearchEvidence
  <2>2. (readable /\ evidence) \in BOOLEAN /\ (search.cleared => ~(readable /\ evidence))
    BY <2>1
  <2>3. /\ search' \in [pc : SearchPC, recorded : BOOLEAN, cleared : BOOLEAN,
                       aborted : BOOLEAN, hits : BOOLEAN, facts : BOOLEAN,
                       answered : BOOLEAN \cup {None}, match : BOOLEAN]
        /\ search'.pc = "facts" /\ search'.hits = (readable /\ evidence)
        /\ search'.recorded = search.recorded /\ search'.cleared = search.cleared
        /\ search'.answered = search.answered /\ search'.match = search.match
    BY <2>1, <2>2
  <2> QED BY <2>1, <2>2, <2>3 DEF Recorded, Pending
<1>7. CASE ReviewedFacts
  <2>1. PICK found \in BOOLEAN :
          /\ search.pc = "facts"
          /\ search' = [search EXCEPT !.facts = found, !.pc = "ask"]
          /\ UNCHANGED importerVars
    BY <1>7 DEF ReviewedFacts
  <2> QED BY <2>1 DEF Recorded, Pending
<1>10. CASE Recall
  BY <1>10 DEF Recall, Recorded, Pending
<1>8. CASE RecallReceived
  BY <1>8 DEF RecallReceived, Recorded, Pending
<1>9. CASE RecallFails
  BY <1>9, ExtensionAssumption DEF RecallFails, Recorded, Pending
<1> QED BY <1>1, <1>2, <1>3, <1>4, <1>5, <1>6, <1>7, <1>8, <1>9, <1>10 DEF SearchStep

-----------------------------------------------------------------------------
(* Sessions of Pi.                                                         *)

LEMMA LifeKeeps ==
  ASSUME LifeInv, SessionStart \/ SessionShutdown
  PROVE  LifeInv'
<1> USE ExtensionAssumption DEF LifeInv
<1>1. CASE SessionStart
  BY <1>1 DEF SessionStart
<1>2. CASE SessionShutdown
  BY <1>2 DEF SessionShutdown
<1> QED BY <1>1, <1>2

-----------------------------------------------------------------------------
(* The status provider.                                                    *)

\* A request joins a collection that has not ended.
LEMMA RequestKeeps ==
  ASSUME LifeInv, StatusInv, NEW r \in Requester, Request(r)
  PROVE  StatusInv' /\ waiting'[r] \notin finished
<1> DEFINE number == collection'[provider].number
<1>1. provider \in 1 .. MaxSessions
  BY DEF Request, LifeInv
<1>2. requests' = requests + 1 /\ requests' \in 1 .. MaxRequests /\ finished' = finished
  BY ExtensionAssumption DEF Request, StatusInv
<1>3. CASE collection[provider] # None
  <2>1. collection' = collection /\ number \in 1 .. MaxRequests /\ number \notin finished
    BY <1>1, <1>3 DEF Request, StatusInv, Collection
  <2>2. waiting' = [waiting EXCEPT ![r] = number]
    BY DEF Request
  <2> QED BY <1>2, <2>1, <2>2 DEF StatusInv, Collection
<1>4. CASE collection[provider] = None
  <2>1. collection' = [collection EXCEPT ![provider] = NewCollection(requests')]
    BY <1>4 DEF Request
  <2>2. NewCollection(requests') \in Collection /\ number = requests'
    BY <1>1, <1>2, <2>1 DEF NewCollection, Collection, StatusInv
  <2>3. waiting' = [waiting EXCEPT ![r] = requests']
    BY <2>2 DEF Request
  <2>4. requests' \notin finished
    BY <1>2 DEF StatusInv
  <2>5. collection' \in [1 .. MaxSessions -> Collection \cup {None}]
    BY <2>1, <2>2 DEF StatusInv
  <2>6. \A s \in 1 .. MaxSessions \ {provider} :
          collection'[s] = collection[s]
    BY <2>1 DEF StatusInv
  <2>7. ASSUME NEW s \in 1 .. MaxSessions, collection'[s] # None
        PROVE  /\ collection'[s].number <= requests'
               /\ collection'[s].number \notin finished
               /\ \A t \in 1 .. MaxSessions \ {s} :
                    collection'[t] # None => collection'[t].number # collection'[s].number
    BY <1>1, <1>2, <2>2, <2>4, <2>5, <2>6, <2>7 DEF StatusInv, Collection
  <2>8. waiting' \in [Requester -> 1 .. MaxRequests \cup {None}] /\ waiting'[r] = requests'
    BY <1>2, <2>3 DEF StatusInv
  <2>9. finished' \subseteq 1 .. requests'
    BY <1>2 DEF StatusInv
  <2> QED BY <1>2, <2>4, <2>5, <2>7, <2>8, <2>9 DEF StatusInv
<1> QED BY <1>3, <1>4

\* A collection that goes on keeps its number.
LEMMA CollectingKeeps ==
  ASSUME StatusInv, NEW s \in 1 .. MaxSessions, NEW next \in Collection,
         Collecting(s, next), next.number = collection[s].number
  PROVE  StatusInv'
<1>1. /\ collection' = [collection EXCEPT ![s] = next] /\ collection[s] # None
      /\ UNCHANGED <<finished, waiting, requests>>
  BY DEF Collecting
<1>2. collection' \in [1 .. MaxSessions -> Collection \cup {None}]
  BY <1>1 DEF StatusInv
<1>3. \A t \in 1 .. MaxSessions : collection'[t] # None =>
        collection[t] # None /\ collection'[t].number = collection[t].number
  BY <1>1 DEF StatusInv
<1> QED BY <1>1, <1>2, <1>3 DEF StatusInv

LEMMA CollectionKeeps ==
  ASSUME StatusInv, NEW s \in 1 .. MaxSessions, CollectionGoesOn(s) \/ CollectionEnds(s)
  PROVE  StatusInv'
<1>1. collection[s] # None /\ collection[s] \in Collection
  BY DEF CollectionGoesOn, CollectionEnds, CountGenerations, ReadHealth, ServiceAnswers,
         WorkerFails, ServiceFails, Settle, Settled, StatusInv
<1>2. ASSUME NEW value \in {"counted", "read", "failed"},
             Collecting(s, [collection[s] EXCEPT !.importer = value])
      PROVE  StatusInv'
  <2>1. /\ [collection[s] EXCEPT !.importer = value] \in Collection
        /\ [collection[s] EXCEPT !.importer = value].number = collection[s].number
    BY <1>1 DEF Collection
  <2> QED BY <1>2, <2>1, CollectingKeeps
<1>3. ASSUME NEW value \in {"answered", "failed"},
             Collecting(s, [collection[s] EXCEPT !.service = value])
      PROVE  StatusInv'
  <2>1. /\ [collection[s] EXCEPT !.service = value] \in Collection
        /\ [collection[s] EXCEPT !.service = value].number = collection[s].number
    BY <1>1 DEF Collection
  <2> QED BY <1>3, <2>1, CollectingKeeps
<1>4. CASE Settle(s)
  <2>1. /\ finished' = finished \cup {collection[s].number}
        /\ collection' = [collection EXCEPT ![s] = None]
        /\ waiting' = [r \in Requester |-> IF r \in Answered(s) THEN None ELSE waiting[r]]
        /\ requests' = requests
    BY <1>4 DEF Settle
  <2>2. collection' \in [1 .. MaxSessions -> Collection \cup {None}]
    BY <2>1 DEF StatusInv
  <2>3. \A t \in 1 .. MaxSessions : collection'[t] # None =>
          t # s /\ collection'[t] = collection[t]
    BY <2>1 DEF StatusInv
  <2>4. waiting' \in [Requester -> 1 .. MaxRequests \cup {None}]
    BY <2>1 DEF StatusInv
  <2>5. finished' \subseteq 1 .. requests'
    <3>1. collection[s].number \in 1 .. MaxRequests /\ collection[s].number <= requests
      BY <1>1 DEF StatusInv, Collection
    <3>2. requests \in 0 .. MaxRequests
      BY DEF StatusInv
    <3>3. collection[s].number \in 1 .. requests
      BY <3>1, <3>2, ExtensionAssumption
    <3> QED BY <2>1, <3>3 DEF StatusInv
  <2>6. ASSUME NEW t \in 1 .. MaxSessions, collection'[t] # None
        PROVE  /\ collection'[t].number <= requests'
               /\ collection'[t].number \notin finished'
               /\ \A u \in 1 .. MaxSessions \ {t} :
                    collection'[u] # None => collection'[u].number # collection'[t].number
    BY <1>1, <2>1, <2>3, <2>6 DEF StatusInv
  <2> QED BY <2>1, <2>2, <2>4, <2>5, <2>6 DEF StatusInv
<1> QED
  BY <1>2, <1>3, <1>4
  DEF CollectionGoesOn, CollectionEnds, CountGenerations, ReadHealth, WorkerFails,
      ServiceAnswers, ServiceFails

-----------------------------------------------------------------------------
LEMMA ExtensionInvNext == ExtensionInv /\ [Next]_vars => ExtensionInv'
<1> SUFFICES ASSUME ExtensionInv, [Next]_vars
             PROVE  ExtensionInv'
  OBVIOUS
<1>1. ASSUME UNCHANGED <<importerVars, searchVars>> PROVE SearchInv'
  <2>1. UNCHANGED <<excluding, evidence, stored, open, listed, missed, search>>
    BY <1>1 DEF importerVars, cleanupVars, searchVars
  <2>2. Recorded' = Recorded /\ Passed' = Passed /\ Over' = Over
    BY <2>1 DEF Recorded, Pending, Passed, Over
  <2> QED BY <2>1, <2>2 DEF ExtensionInv, SearchInv
<1>2. UNCHANGED lifeVars => LifeInv'
  BY DEF ExtensionInv, LifeInv, lifeVars
<1>3. UNCHANGED statusVars => StatusInv'
  BY DEF ExtensionInv, StatusInv, statusVars
<1>4. CASE UNCHANGED vars
  BY <1>1, <1>2, <1>3, <1>4 DEF vars, ExtensionInv
<1>5. CASE ImporterStep
  BY <1>2, <1>3, <1>5, ImporterKeeps DEF ExtensionInv, ImporterStep
<1>6. CASE BeginSearch \/ AbortSearch \/ BankRecalls \/ SearchStep
  <2>1. UNCHANGED <<lifeVars, statusVars>>
    BY <1>6
    DEF BeginSearch, AbortSearch, BankRecalls, SearchStep, SearchAt, Blocked, Check, CheckFails,
        SearchEvidence, ReviewedFacts, Recall, RecallReceived, RecallFails
  <2> QED BY <1>2, <1>3, <1>6, <2>1, SearchKeeps DEF ExtensionInv
<1>7. CASE SessionStart \/ SessionShutdown
  <2>1. UNCHANGED <<importerVars, searchVars, statusVars>>
    BY <1>7 DEF SessionStart, SessionShutdown
  <2> QED BY <1>1, <1>3, <1>7, <2>1, LifeKeeps DEF ExtensionInv
<1>8. ASSUME NEW r \in Requester, Request(r)
      PROVE  ExtensionInv'
  <2>1. UNCHANGED <<importerVars, searchVars, lifeVars>>
    BY <1>8 DEF Request
  <2> QED BY <1>1, <1>2, <1>8, <2>1, RequestKeeps DEF ExtensionInv
<1>9. ASSUME NEW s \in 1 .. MaxSessions, CollectionGoesOn(s) \/ CollectionEnds(s)
      PROVE  ExtensionInv'
  <2>1. UNCHANGED <<importerVars, searchVars, lifeVars>>
    BY <1>9
    DEF CollectionGoesOn, CollectionEnds, CountGenerations, ReadHealth, WorkerFails,
        ServiceAnswers, ServiceFails, Collecting, Settle
  <2> QED BY <1>1, <1>2, <1>9, <2>1, CollectionKeeps DEF ExtensionInv
<1> QED BY <1>4, <1>5, <1>6, <1>7, <1>8, <1>9 DEF Next

LEMMA ExtensionInvHolds == Spec => []ExtensionInv
BY ExtensionInvInit, ExtensionInvNext, PTL DEF Spec

\* Every variable the type invariant names keeps its type.
THEOREM ExtensionTypes == Spec => []TypeOK
BY ExtensionInvHolds, ExtensionInvExplains, PTL

\* extension/retrieve.ts: whatever the importer, the cleanup and the bank do
\* while a search runs, one that began after an exclusion was recorded returns
\* nothing of the excluded session but a document that the cleanup's list missed.
THEOREM ExcludedStaysHidden == Spec => []ExcludedIsNotFound
BY ExtensionInvHolds, ExtensionInvExplains, PTL

\* extension/index.ts: the provider that is called belongs to the session that
\* runs.
THEOREM ProviderIsCurrent == Spec => []SessionIsServed
BY ExtensionInvHolds, ExtensionInvExplains, PTL

\* Only a request makes somebody wait.
LEMMA JoinsOpenCollection ==
  ASSUME ExtensionInv, [Next]_vars, NEW r \in Requester, ~Asking(r), waiting'[r] # None
  PROVE  waiting'[r] \notin finished
<1>1. waiting[r] = None
  BY DEF Asking
<1>2. ASSUME UNCHANGED waiting PROVE FALSE
  BY <1>1, <1>2
<1>3. ASSUME NEW q \in Requester, Request(q) PROVE waiting'[r] \notin finished
  <2>1. CASE q = r
    BY <1>3, <2>1, RequestKeeps DEF ExtensionInv
  <2>2. CASE q # r
    <3>1. waiting'[r] = waiting[r]
      BY <1>3, <2>2 DEF Request, ExtensionInv, StatusInv
    <3> QED BY <1>1, <3>1
  <2> QED BY <2>1, <2>2
<1>4. ASSUME NEW s \in 1 .. MaxSessions, Settle(s) PROVE FALSE
  BY <1>1, <1>4 DEF Settle
<1>5. ASSUME NEW s \in 1 .. MaxSessions,
             CollectionGoesOn(s) \/ WorkerFails(s) \/ ServiceFails(s)
      PROVE  FALSE
  BY <1>2, <1>5
  DEF CollectionGoesOn, CountGenerations, ReadHealth, WorkerFails, ServiceAnswers, ServiceFails,
      Collecting
<1>6. CASE UNCHANGED vars
  BY <1>2, <1>6 DEF vars, statusVars
<1>7. CASE ImporterStep \/ BeginSearch \/ AbortSearch \/ BankRecalls \/ SearchStep
  BY <1>2, <1>7
  DEF ImporterStep, BeginSearch, AbortSearch, BankRecalls, SearchStep, SearchAt, Blocked, Check,
      CheckFails, SearchEvidence, ReviewedFacts, Recall, RecallReceived, RecallFails, statusVars
<1>8. CASE SessionStart \/ SessionShutdown
  BY <1>2, <1>8 DEF SessionStart, SessionShutdown, statusVars
<1> QED BY <1>3, <1>4, <1>5, <1>6, <1>7, <1>8 DEF Next, CollectionEnds

\* docs/STATUS-INTEGRATION.md: "the provider does not cache completed
\* snapshots".
THEOREM StatusIsFresh == Spec => NothingIsCached
<1>1. ExtensionInv /\ [Next]_vars =>
        [\A r \in Requester :
           ~Asking(r) /\ waiting'[r] # None => waiting'[r] \notin finished]_vars
  BY JoinsOpenCollection
<1> QED BY <1>1, ExtensionInvHolds, PTL DEF Spec, NothingIsCached
=============================================================================
