--------------------------- MODULE VersionHistory ---------------------------
(***************************************************************************)
(* What a document promises to who reads it later: a history of versions   *)
(* that is only ever continued, under the next number, and an archive that *)
(* keeps the content of each uploaded version: the one that its entry      *)
(* states, unless whoever uploaded it had replaced it by then.             *)
(* DocumentIngest implements it as long as its requests come one at a      *)
(* time, whatever fails in between; the numbering, always.                 *)
(***************************************************************************)
EXTENDS Integers

CONSTANTS
  Intents,   \* the uploads
  NoIntent,  \* the upload of a version that has none
  Bytes      \* contents, named by their SHA-256

VARIABLES
  versions,  \* what is known of each version: its number, its content, whether
             \* it seals the document, and the upload it comes from
  archive,   \* the number and the archived content of each uploaded version
  replaced   \* the uploads whose content was replaced after it had been stated

vars == <<versions, archive, replaced>>

\* Version d has the next number.
Follows(d) ==
  /\ \A e \in versions : e.version < d.version
  /\ \A v \in 1..d.version - 1 : \E e \in versions : e.version = v

Continue(d) ==
  /\ Follows(d)
  /\ versions' = versions \cup {d}

\* A version whose content is kept elsewhere.
Register(d) ==
  /\ d.intent = NoIntent
  /\ Continue(d)
  /\ UNCHANGED <<archive, replaced>>

\* Each upload makes one version, of a content that is new to the document, and
\* none after a version that seals it.
Upload(d) ==
  /\ d.intent # NoIntent
  /\ \A e \in versions :
       e.intent # d.intent /\ e.sha256 # d.sha256 /\ ~e.isImmutable
  /\ Continue(d)
  /\ \E sha256 \in Bytes :
       /\ d.intent \notin replaced => sha256 = d.sha256
       /\ archive' = archive \cup {<<d.version, sha256>>}
  /\ UNCHANGED replaced

\* The content of an upload that is not yet a version is replaced.
Replace(i) ==
  /\ \A e \in versions : e.intent # i
  /\ replaced' = replaced \cup {i}
  /\ UNCHANGED <<versions, archive>>

Init == versions = {} /\ archive = {} /\ replaced = {}

Next ==
  \/ \E d \in versions' \ versions : Register(d) \/ Upload(d)
  \/ \E i \in Intents : Replace(i)

Spec == Init /\ [][Next]_vars

\* The numbering alone.
Numbering ==
  versions = {} /\ [][\E d \in versions' \ versions : Continue(d)]_versions
=============================================================================
