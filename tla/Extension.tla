----------------------------- MODULE Extension ------------------------------
(***************************************************************************)
(* The Pi extension beside the importer: memory searches and status        *)
(* requests, which read the importer's databases and ask the bank while    *)
(* sessions are excluded and operations are recorded.                      *)
(*                                                                         *)
(* One session matches the searches.  A search reads in turn the state     *)
(* database, the evidence index, the reviewed facts and the bank.  A       *)
(* status request joins the collection in progress, or begins one; a       *)
(* collection reads the state database in a worker thread and asks the     *)
(* bank.                                                                   *)
(***************************************************************************)
EXTENDS Integers

CONSTANTS
  Requester,     \* extensions that ask for the status
  MaxSessions,   \* bound on the sessions of Pi
  MaxRequests,   \* bound on status requests
  MaxSearches,   \* bound on searches
  None

ASSUME ExtensionAssumption ==
  /\ None \notin Nat \cup BOOLEAN
  /\ MaxSessions \in Nat \ {0} /\ MaxRequests \in Nat /\ MaxSearches \in Nat

VARIABLES
  \* what the importer and the operator do
  excluding,     \* how far the exclusion of the session is
  evidence,      \* are its passages in the evidence index?
  stored,        \* is its document in the bank?
  open,          \* is an operation that writes its document under way there?
  listed,        \* does the list the cleanup took name the document? or None
  missed,        \* history: the document was written while the list did not name it
  \* a search
  search,
  searches,
  \* the status provider
  session,       \* the session of Pi: its number and whether it runs
  provider,      \* the closure that is called, by its session; or None
  unregister,    \* is unregisterStatusProvider set?
  collection,    \* by session, the collection in flight; or None
  finished,      \* collections that have ended
  waiting,       \* by requester: the collection it waits for; or None
  requests

cleanupVars == <<open, listed, missed>>
importerVars == <<excluding, evidence, stored, cleanupVars>>
searchVars == <<search, searches>>
lifeVars == <<session, provider, unregister>>
statusVars == <<collection, finished, waiting, requests>>
vars == <<importerVars, searchVars, lifeVars, statusVars>>

-----------------------------------------------------------------------------
(* State.                                                                  *)

\* The session's generations are completed, sent, or nowhere yet, until the
\* exclusion is recorded in them; retrieval looks for cleanup_pending.
Stage == {"primary", "cleared", "reclassified", "cleanup_pending", "deleted", "excluded"}

Pending == excluding \in {"cleanup_pending", "deleted"}

Recorded == Pending \/ excluding = "excluded"

SearchPC == {"idle", "check", "evidence", "facts", "ask", "wait", "received",
             "done", "failed"}

\* begun: was the exclusion recorded before the search began?  cleared: were
\* its passages removed before?  answered: the bank's answer, or None.
NoSearch ==
  [pc |-> "idle", recorded |-> FALSE, cleared |-> FALSE, aborted |-> FALSE,
   hits |-> FALSE, facts |-> FALSE, answered |-> None, match |-> FALSE]

\* A collection: its number, and how far its two halves are.
NewCollection(number) == [number |-> number, importer |-> "begin", service |-> "asked"]

\* A behaviour has searches or status requests: they share nothing but what
\* the importer writes, which they only read.
OneUse ==
  \/ searches = 0 /\ requests = MaxRequests
  \/ searches = MaxSearches /\ requests = 0

ExtensionInit ==
  /\ excluding = "primary" /\ evidence = TRUE
  /\ stored \in BOOLEAN /\ open \in BOOLEAN
  /\ listed = None /\ missed = FALSE
  /\ search = NoSearch
  /\ session = [number |-> 0, runs |-> FALSE]
  /\ provider = None /\ unregister = FALSE
  /\ collection = [s \in 1 .. MaxSessions |-> None]
  /\ finished = {}
  /\ waiting = [r \in Requester |-> None]
  /\ OneUse

-----------------------------------------------------------------------------
(* The importer: a scan or the worker excludes the session step by step,   *)
(* or the cleanup command records the exclusion of a session that was not  *)
(* scanned since; the cleanup lists the documents of the bank, settles the *)
(* operation, deletes the document if its list has it, and closes the job. *)

ClearEvidence ==
  /\ excluding = "primary"
  /\ excluding' = "cleared" /\ evidence' = FALSE
  /\ UNCHANGED <<stored, cleanupVars>>

ReclassifySession ==
  /\ excluding = "cleared"
  /\ excluding' = "reclassified"
  /\ UNCHANGED <<evidence, stored, cleanupVars>>

\* A cleanup without a scan leaves the evidence where it is.
RecordExclusion ==
  /\ excluding \in {"primary", "reclassified"}
  /\ excluding' = "cleanup_pending"
  /\ UNCHANGED <<evidence, stored, cleanupVars>>

\* The operation writes the document; or it fails, or is cancelled.
OperationEnds ==
  /\ open /\ open' = FALSE
  /\ \/ /\ stored' = TRUE
        /\ missed' = IF excluding = "cleanup_pending" /\ listed = FALSE THEN TRUE ELSE missed
     \/ UNCHANGED <<stored, missed>>
  /\ UNCHANGED <<excluding, evidence, listed>>

\* One list for all jobs of a command.  A command that fails before the deletion
\* is followed by another one, with a list of its own.
ListDocuments ==
  /\ excluding = "cleanup_pending"
  /\ listed' = stored /\ missed' = FALSE
  /\ UNCHANGED <<excluding, evidence, stored, open>>

\* The job of an earlier generation, whose operation has ended, comes first: it
\* takes the document out of the bank and out of the list.
DeleteEarlier ==
  /\ excluding = "cleanup_pending" /\ listed = TRUE
  /\ listed' = FALSE /\ stored' = FALSE
  /\ UNCHANGED <<excluding, evidence, open, missed>>

\* Faulty: the operation is not settled before.
DeleteExcludedUnsettled ==
  /\ excluding = "cleanup_pending" /\ listed # None
  /\ excluding' = "deleted"
  /\ stored' = IF listed THEN FALSE ELSE stored
  /\ UNCHANGED <<evidence, cleanupVars>>

\* settleOperation waits for the operation; what the list does not have is not
\* deleted, and the job goes on all the same.
DeleteExcluded ==
  /\ excluding = "cleanup_pending" /\ listed # None /\ ~open
  /\ excluding' = "deleted"
  /\ stored' = IF listed THEN FALSE ELSE stored
  /\ UNCHANGED <<evidence, cleanupVars>>

FinishCleanup ==
  /\ excluding = "deleted"
  /\ excluding' = "excluded"
  /\ UNCHANGED <<evidence, stored, cleanupVars>>

ImporterStep ==
  /\ \/ ClearEvidence \/ ReclassifySession \/ RecordExclusion \/ OperationEnds
     \/ ListDocuments \/ DeleteEarlier \/ DeleteExcluded \/ FinishCleanup
  /\ UNCHANGED <<searchVars, lifeVars, statusVars>>

-----------------------------------------------------------------------------
(* A search.                                                               *)

SearchAt(from, to, next) ==
  /\ search.pc = from
  /\ search' = [next EXCEPT !.pc = to]
  /\ UNCHANGED <<importerVars, searches, lifeVars, statusVars>>

BeginSearch ==
  /\ search.pc \in {"idle", "done", "failed"}
  /\ searches < MaxSearches /\ searches' = searches + 1
  /\ search' = [NoSearch EXCEPT !.pc = "check", !.recorded = Recorded,
                                !.cleared = excluding \in Stage \ {"primary"} /\ ~evidence]
  /\ UNCHANGED <<importerVars, lifeVars, statusVars>>

\* A pending cleanup, or a state database that cannot be read, fails it.
Blocked == Pending /\ SearchAt("check", "failed", search)

Check ==
  /\ ~Pending
  /\ SearchAt("check", "evidence", search)

CheckFails == SearchAt("check", "failed", search)

\* The index is missing or cannot be read: a warning.
SearchEvidence ==
  \E readable \in BOOLEAN :
    SearchAt("evidence", "facts",
             [search EXCEPT !.hits = readable /\ evidence])

\* Facts that cannot be read are a warning, too.
ReviewedFacts ==
  \E found \in BOOLEAN : SearchAt("facts", "ask", [search EXCEPT !.facts = found])

\* Faulty: the answer is not awaited.
RecallUnawaited == SearchAt("ask", "received", search)

Recall == SearchAt("ask", "wait", search)

\* The bank searches, and its answer is on the way.
BankRecalls == SearchAt("wait", "received", [search EXCEPT !.answered = stored])

RecallReceived ==
  SearchAt("received", "done", [search EXCEPT !.match = search.answered])

\* The caller gives up; the request is aborted.
AbortSearch ==
  /\ search.pc \in {"ask", "wait", "received"} /\ ~search.aborted
  /\ search' = [search EXCEPT !.aborted = TRUE]
  /\ UNCHANGED <<importerVars, searches, lifeVars, statusVars>>

\* The bank fails, or does not answer in time: what was found here is shown
\* with a warning, and nothing found is an error.
RecallFails ==
  /\ search.pc \in {"ask", "wait", "received"}
  /\ search' = [search EXCEPT
       !.pc = IF search.aborted \/ ~(search.hits \/ search.facts) THEN "failed" ELSE "done",
       !.answered = None]
  /\ UNCHANGED <<importerVars, searches, lifeVars, statusVars>>

SearchStep ==
  \/ Blocked \/ Check \/ CheckFails \/ SearchEvidence \/ ReviewedFacts \/ Recall
  \/ RecallReceived \/ RecallFails

-----------------------------------------------------------------------------
(* Sessions of Pi.                                                         *)

\* Another extension may have registered memory_search: the handler throws,
\* after it has registered the provider.
SessionStart ==
  /\ ~session.runs /\ session.number < MaxSessions
  /\ session' = [number |-> session.number + 1, runs |-> TRUE]
  /\ provider' = IF unregister THEN provider ELSE session'.number
  /\ unregister' = TRUE
  /\ UNCHANGED <<importerVars, searchVars, statusVars>>

\* Faulty: the old function is kept.
SessionShutdownForgetful ==
  /\ session.runs
  /\ session' = [session EXCEPT !.runs = FALSE]
  /\ provider' = None
  /\ UNCHANGED <<unregister, importerVars, searchVars, statusVars>>

SessionShutdown ==
  /\ session.runs
  /\ session' = [session EXCEPT !.runs = FALSE]
  /\ provider' = None /\ unregister' = FALSE
  /\ UNCHANGED <<importerVars, searchVars, statusVars>>

-----------------------------------------------------------------------------
(* The status provider.  A closure has one collection in flight at most;   *)
(* collections of closures that are no longer called go on to their end.   *)

Asking(r) == waiting[r] # None

Request(r) ==
  /\ provider # None /\ ~Asking(r)
  /\ requests < MaxRequests /\ requests' = requests + 1
  /\ IF collection[provider] = None
     THEN collection' = [collection EXCEPT ![provider] = NewCollection(requests')]
     ELSE UNCHANGED collection
  /\ waiting' = [waiting EXCEPT ![r] = collection'[provider].number]
  /\ UNCHANGED <<importerVars, searchVars, lifeVars, finished>>

Collecting(s, next) ==
  /\ collection[s] # None
  /\ collection' = [collection EXCEPT ![s] = next]
  /\ UNCHANGED <<importerVars, searchVars, lifeVars, finished, waiting, requests>>

\* The worker reads in one transaction, in two queries.
CountGenerations(s) ==
  /\ collection[s] # None /\ collection[s].importer = "begin"
  /\ Collecting(s, [collection[s] EXCEPT !.importer = "counted"])

ReadHealth(s) ==
  /\ collection[s] # None /\ collection[s].importer = "counted"
  /\ Collecting(s, [collection[s] EXCEPT !.importer = "read"])

\* Faulty: a worker that says nothing is waited for.
WorkerFailsUntimed(s) ==
  /\ collection[s] # None /\ collection[s].importer = "counted"
  /\ Collecting(s, [collection[s] EXCEPT !.importer = "failed"])

\* The worker fails, or its time is over: what it says later is not heard.
WorkerFails(s) ==
  /\ collection[s] # None /\ collection[s].importer \in {"begin", "counted"}
  /\ Collecting(s, [collection[s] EXCEPT !.importer = "failed"])

ServiceAnswers(s) ==
  /\ collection[s] # None /\ collection[s].service = "asked"
  /\ Collecting(s, [collection[s] EXCEPT !.service = "answered"])

\* One of the three requests fails, or the time is over.
ServiceFails(s) ==
  /\ collection[s] # None /\ collection[s].service = "asked"
  /\ Collecting(s, [collection[s] EXCEPT !.service = "failed"])

Settled(s) ==
  /\ collection[s] # None
  /\ collection[s].importer \in {"read", "failed"}
  /\ collection[s].service # "asked"

Answered(s) == {r \in Requester : waiting[r] = collection[s].number}

\* Faulty: a collection that ended stays the one in flight.
SettleCached(s) ==
  /\ Settled(s) /\ collection[s].number \notin finished
  /\ finished' = finished \cup {collection[s].number}
  /\ waiting' = [r \in Requester |-> IF r \in Answered(s) THEN None ELSE waiting[r]]
  /\ UNCHANGED <<collection, importerVars, searchVars, lifeVars, requests>>

\* Everyone who shares the collection gets its result; it is forgotten before.
Settle(s) ==
  /\ Settled(s)
  /\ finished' = finished \cup {collection[s].number}
  /\ waiting' = [r \in Requester |-> IF r \in Answered(s) THEN None ELSE waiting[r]]
  /\ collection' = [collection EXCEPT ![s] = None]
  /\ UNCHANGED <<importerVars, searchVars, lifeVars, requests>>

\* What the worker thread and the bank may never do, and what timers and the
\* end of both halves bring about.
CollectionGoesOn(s) == CountGenerations(s) \/ ReadHealth(s) \/ ServiceAnswers(s)

CollectionEnds(s) == WorkerFails(s) \/ ServiceFails(s) \/ Settle(s)

-----------------------------------------------------------------------------
Next ==
  \/ ImporterStep
  \/ BeginSearch \/ AbortSearch \/ BankRecalls \/ SearchStep
  \/ SessionStart \/ SessionShutdown
  \/ \E r \in Requester : Request(r)
  \/ \E s \in 1 .. MaxSessions : CollectionGoesOn(s) \/ CollectionEnds(s)

Spec == ExtensionInit /\ [][Next]_vars

\* Timers fire: a search goes on or fails, and a half of a collection that is
\* waited for fails in the end.  The worker thread and the bank may hang.
Fairness ==
  /\ WF_vars(SearchStep)
  /\ \A s \in 1 .. MaxSessions : WF_vars(CollectionEnds(s))

FairSpec == Spec /\ Fairness

-----------------------------------------------------------------------------
(* Properties.                                                             *)

TypeOK ==
  /\ excluding \in Stage
  /\ evidence \in BOOLEAN /\ stored \in BOOLEAN /\ open \in BOOLEAN
  /\ listed \in BOOLEAN \cup {None} /\ missed \in BOOLEAN
  /\ search.pc \in SearchPC /\ search.match \in BOOLEAN
  /\ search.answered \in BOOLEAN \cup {None}
  /\ session \in [number : 0 .. MaxSessions, runs : BOOLEAN]
  /\ provider \in 1 .. MaxSessions \cup {None} /\ unregister \in BOOLEAN
  /\ waiting \in [Requester -> 1 .. MaxRequests \cup {None}]
  /\ finished \subseteq 1 .. MaxRequests

\* extension/retrieve.ts: "Memory retrieval is blocked until excluded-session
\* cleanup is complete".  A search that begins after an exclusion was recorded
\* returns nothing of the session from the bank, whatever the cleanup and the
\* operations do while the search runs, except a document that was written while
\* the cleanup's list did not name it, which the cleanup then leaves there; and
\* nothing from the index once a scan cleared it.
ExcludedIsNotFound ==
  search.pc = "done" =>
    /\ search.recorded /\ ~missed => ~search.match
    /\ search.cleared => ~search.hits

\* docs/STATUS-INTEGRATION.md: "the provider does not cache completed
\* snapshots".  Nobody is given a collection that ended before the request.
NothingIsCached ==
  [][\A r \in Requester :
       ~Asking(r) /\ waiting'[r] # None => waiting'[r] \notin finished]_vars

\* While a session of Pi runs its provider is called, whatever sessions were
\* started and ended before.
SessionIsServed == session.runs <=> provider = session.number

\* Searches and status requests end although the bank, the worker thread or
\* the session hang, or the session is over meanwhile: their number being
\* bounded, nobody waits in the end.
EveryoneIsAnswered ==
  <>[](search.pc \in {"idle", "done", "failed"} /\ \A r \in Requester : ~Asking(r))

=============================================================================
