----------------------------- MODULE Resources -----------------------------
(***************************************************************************)
(* Published trees (src/src/resources.ts): the blob of a tree in a file    *)
(* named by its hash, and the record of the tenant who published it in the *)
(* journal.  Publishers of the same tree, of one tenant or of several, run *)
(* side by side; any call of the file system may fail; the process may     *)
(* stop, and the machine may lose what was not flushed.                    *)
(***************************************************************************)
EXTENDS Naturals, FiniteSets

CONSTANTS
  Publishers,      \* the calls of publish
  TenantOf, TreeOf,\* Publishers -> its tenant, and the hash of what it publishes
  Tenants, Trees,
  Nobody,
  MaxOutages       \* bound: how often the process or the machine stops

ASSUME ResourcesAssumption ==
  /\ TenantOf \in [Publishers -> Tenants] /\ TreeOf \in [Publishers -> Trees]
  /\ Nobody \notin Publishers /\ MaxOutages \in Nat

VARIABLES
  pc,       \* Publishers -> how far publish is
  file,     \* Publishers -> its temporary file, by whatever name it has now
  blob,     \* Trees -> the publisher whose file has the name of the tree
  flushed,  \* Trees -> the same, as it is on disk
  records,  \* the rows of the table resource
  outages

publishVars == <<pc, file, blob, flushed, records, outages>>

PutSteps == {"new", "open", "written", "synced", "renamed", "stored"}
Steps == PutSteps \cup {"published", "failed"}
\* A file that is not whole fails the check of its hash.
File == [whole : BOOLEAN, safe : BOOLEAN]
NoFile == [whole |-> FALSE, safe |-> FALSE]

PublishTypeOK ==
  /\ pc \in [Publishers -> Steps]
  /\ file \in [Publishers -> File]
  /\ blob \in [Trees -> Publishers \cup {Nobody}]
  /\ flushed \in [Trees -> Publishers \cup {Nobody}]
  /\ records \subseteq Tenants \X Trees
  /\ outages \in 0..MaxOutages

PublishInit ==
  /\ pc = [w \in Publishers |-> "new"] /\ file = [w \in Publishers |-> NoFile]
  /\ blob = [k \in Trees |-> Nobody] /\ flushed = [k \in Trees |-> Nobody]
  /\ records = {} /\ outages = 0

Step(w, from, to) == pc[w] = from /\ pc' = [pc EXCEPT ![w] = to]

\* put, call by call.
OpenTemporary(w) ==
  /\ Step(w, "new", "open")
  /\ UNCHANGED <<file, blob, flushed, records, outages>>

Write(w) ==
  /\ Step(w, "open", "written")
  /\ file' = [file EXCEPT ![w] = [whole |-> TRUE, safe |-> @.safe]]
  /\ UNCHANGED <<blob, flushed, records, outages>>

Sync(w) ==
  /\ Step(w, "written", "synced")
  /\ file' = [file EXCEPT ![w] = [whole |-> TRUE, safe |-> TRUE]]
  /\ UNCHANGED <<blob, flushed, records, outages>>

Rename(w) ==
  /\ Step(w, "synced", "renamed")
  /\ blob' = [blob EXCEPT ![TreeOf[w]] = w]
  /\ UNCHANGED <<file, flushed, records, outages>>

\* Mutant: the directory is left to the system to flush.
SyncNothing(w) ==
  /\ Step(w, "renamed", "stored")
  /\ UNCHANGED <<file, blob, flushed, records, outages>>
SyncDirectory(w) ==
  /\ Step(w, "renamed", "stored")
  /\ flushed' = blob
  /\ UNCHANGED <<file, blob, records, outages>>

\* The transaction that records it, whose answer may be lost.
Record(w) ==
  /\ \/ Step(w, "stored", "published") \/ Step(w, "stored", "failed")
  /\ records' = records \cup {<<TenantOf[w], TreeOf[w]>>}
  /\ UNCHANGED <<file, blob, flushed, outages>>

\* A call fails: the temporary file is removed, if it is still called that.
Fail(w) ==
  /\ pc[w] \in PutSteps
  /\ pc' = [pc EXCEPT ![w] = "failed"]
  /\ UNCHANGED <<file, blob, flushed, records, outages>>

\* The process stops.  The next publish of the tree is another publisher.
Crash ==
  /\ outages < MaxOutages /\ outages' = outages + 1
  /\ pc' = [w \in Publishers |-> IF pc[w] \in {"new", "published"} THEN pc[w] ELSE "failed"]
  /\ UNCHANGED <<file, blob, flushed, records>>

\* The machine stops: of what was not flushed, some is on disk and some is not.
PowerFails ==
  /\ outages < MaxOutages /\ outages' = outages + 1
  /\ pc' = [w \in Publishers |-> IF pc[w] \in {"new", "published"} THEN pc[w] ELSE "failed"]
  /\ \E kept \in [Trees -> Publishers \cup {Nobody}] :
       /\ \A k \in Trees : kept[k] \in {blob[k], flushed[k]}
       /\ blob' = kept /\ flushed' = kept
  /\ \E lost \in SUBSET {w \in Publishers : ~file[w].safe} :
       file' = [w \in Publishers |-> IF w \in lost THEN NoFile ELSE file[w]]
  /\ UNCHANGED records

PublishNext ==
  \/ \E w \in Publishers :
       \/ OpenTemporary(w) \/ Write(w) \/ Sync(w) \/ Rename(w) \/ SyncDirectory(w)
       \/ Record(w) \/ Fail(w)
  \/ Crash \/ PowerFails

PublishSpec == PublishInit /\ [][PublishNext]_publishVars

-----------------------------------------------------------------------------

\* read: what a tenant is given for the id of a tree.
Read(tenant, k) ==
  IF <<tenant, k>> \notin records THEN "RESOURCE_NOT_FOUND"
  ELSE IF blob[k] = Nobody THEN "ENOENT"
  ELSE IF ~file[blob[k]].whole THEN "RESOURCE_CORRUPT"
  ELSE "files"

\* What a tenant was told is published it can read from then on, whoever else
\* publishes the same tree, fails at it, or stops with the machine; and it never
\* reads a part of a tree (79-80, 97-112).
PublishedIsReadable ==
  /\ \A w \in Publishers :
       pc[w] = "published" => Read(TenantOf[w], TreeOf[w]) = "files"
  /\ \A r \in records : Read(r[1], r[2]) = "files"
=============================================================================
