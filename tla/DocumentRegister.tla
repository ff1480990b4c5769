-------------------------- MODULE DocumentRegister --------------------------
(***************************************************************************)
(* What the importer promises about one remote document, without queue,    *)
(* tasks, retries or crashes: the document is a register with one writer   *)
(* at a time, and the importer acknowledges only what the register holds.  *)
(*                                                                         *)
(* docs/ARCHITECTURE.md promises "replace, never append" for a document    *)
(* and that an uncertain remote outcome blocks newer versions.             *)
(***************************************************************************)
EXTENDS Naturals

CONSTANTS
  Content,      \* contents a document can have
  Attempt,      \* identities of the operations of one content
  Nothing       \* no document, nothing acknowledged

VARIABLES
  stored,       \* content of the document
  writing,      \* operations whose outcome is open
  known         \* content the importer believes to be stored

registerVars == <<stored, writing, known>>

RegisterTypeOK ==
  /\ stored \in Content \cup {Nothing}
  /\ writing \subseteq Content \X Attempt
  /\ known \in Content \cup {Nothing}

RegisterInit ==
  /\ stored = known
  /\ known \in Content \cup {Nothing}
  /\ writing = {}

\* A new operation is sent only after the previous one is settled.
Write(o) ==
  /\ writing = {}
  /\ writing' = {o}
  /\ UNCHANGED <<stored, known>>

\* The operation replaces the document ...
Land(o) ==
  /\ writing = {o}
  /\ writing' = {}
  /\ stored' = o[1]
  /\ UNCHANGED known

\* ... or never will.
Lose(o) ==
  /\ writing = {o}
  /\ writing' = {}
  /\ UNCHANGED <<stored, known>>

\* Only the content the document holds is acknowledged.
Know ==
  /\ writing = {}
  /\ stored # Nothing
  /\ known' = stored
  /\ UNCHANGED <<stored, writing>>

\* A repair deletes the document while nothing is being written.
EraseStored ==
  /\ writing = {}
  /\ stored' = Nothing
  /\ UNCHANGED <<writing, known>>

RegisterNext ==
  \/ \E o \in Content \X Attempt : Write(o) \/ Land(o) \/ Lose(o)
  \/ Know
  \/ EraseStored

RegisterSpec == RegisterInit /\ [][RegisterNext]_registerVars
=============================================================================
