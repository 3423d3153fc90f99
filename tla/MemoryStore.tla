------------------------------ MODULE MemoryStore ------------------------------
(***************************************************************************)
(* The encrypted virtual tree of one scope as postgres/store.py keeps it:  *)
(* the object rows, the version rows of every object, the quota row and    *)
(* the idempotency rows.  Every mutation takes the scope's transaction     *)
(* level advisory lock before it reads anything and commits or rolls back  *)
(* as a whole, so a committed mutation is one action here; the janitor's   *)
(* transaction only removes rows no mutation can use and is one action     *)
(* too.  Clocks, sizes and versions are natural numbers; encryption,       *)
(* provenance and audit rows are left out.                                 *)
(*                                                                         *)
(* An object's identifier is its place in the order of insertion, so that  *)
(* identifiers are never reused; a hard-deleted row stays in the sequence  *)
(* with lifecycle "purged" and stands for no row at all.                   *)
(***************************************************************************)
EXTENDS Integers, Sequences, FiniteSets, SequencesExt, FiniteSetsExt

CONSTANTS
  Names,               \* path segments
  Paths,               \* normalized document paths: non-empty sequences of names
  Chunks,              \* units of text, one byte each
  Inputs,              \* the texts a caller may send
  Keys,                \* idempotency keys
  Retention,           \* retention_window
  Ttl,                 \* idempotency_ttl
  MaxDocumentBytes, MaxScopeBytes, MaxDocuments, MaxPhysicalObjects,
  MaxVersions,         \* max_versions_per_object
  BatchLimit,          \* the janitor's limit
  ObjectBound,         \* bound of the model: rows ever inserted
  VersionBound,        \* bound of the model: versions of one document
  TimeBound            \* bound of the model: the last clock value

Positive == Nat \ {0}

ASSUME PathsAssumption ==
  /\ Paths \subseteq Seq(Names) \ {<<>>}
  /\ Inputs \subseteq Seq(Chunks)

ASSUME ConfigAssumption ==
  /\ Retention \in Positive /\ Ttl \in Positive
  /\ MaxDocumentBytes \in Positive /\ MaxScopeBytes \in Positive
  /\ MaxDocumentBytes <= MaxScopeBytes
  /\ MaxDocuments \in Positive /\ MaxPhysicalObjects \in Positive
  /\ MaxVersions \in Positive /\ BatchLimit \in Positive

ASSUME BoundAssumption ==
  ObjectBound \in Nat /\ VersionBound \in Nat /\ TimeBound \in Nat

VARIABLES
  objects,     \* sequence of object rows
  versions,    \* versions[i]: the version rows of object i, by version number
  quota,       \* the scope's quota row
  expiry,      \* expires_at of the idempotency row of each key, NULL without one
  appliedAt,   \* history: when a mutation under the key last committed
  now          \* the clock of the hosts

vars == <<objects, versions, quota, expiry, appliedAt, now>>

NULL == 0      \* SQL NULL in a timestamp column, and the identifier of no object

Kinds == {"root", "directory", "document"}
Object == [kind: Kinds, version: Positive, bytes: Nat,
           lifecycle: {"active", "deleted", "purged"}, purgeAfter: Nat]

---------------------------------------------------------------------------
(* Reading the tree.                                                       *)

Ids == 1..Len(objects)
HasRow(i) == objects[i].lifecycle # "purged"
Active(i) == objects[i].lifecycle = "active"
IsDocument(i) == objects[i].kind = "document"
Rows == {i \in Ids : HasRow(i)}
Documents == {i \in Ids : IsDocument(i) /\ Active(i)}
Directories == {i \in Ids : ~IsDocument(i) /\ Active(i)}

\* The current text of a document; the current entries of a directory: the
\* child's identifier under each name, or NULL.
Body(i) == versions[i][objects[i].version].body
Manifest(i) == Body(i)
EmptyManifest == [name \in Names |-> NULL]

\* What a lookup finds is a set: one identifier, or none.
Root == {i \in Directories : objects[i].kind = "root"}
Children(found, name) == {Manifest(i)[name] : i \in found} \ {NULL}

\* The containers met on the way to a path: the root, then a directory for
\* each segment but the last.
Containers(path) ==
  LET met[n \in 0..(Len(path) - 1)] ==
        IF n = 0 THEN Root ELSE Directories \cap Children(met[n - 1], path[n])
  IN  met

\* The directory that holds a path's entry, and the document it names.
ParentOf(path) == Directories \cap Containers(path)[Len(path) - 1]
DocumentOf(path) == Documents \cap Children(ParentOf(path), Last(path))

\* Mutant: an entry under the next name is not looked for and is overwritten.
ExtendableOverwriting(path, depth, parent) ==
  Containers(path)[depth - 1] = {parent}

\* parent is the deepest container of the path that exists, the depth-th of
\* them, and it has no entry under the next name.
Extendable(path, depth, parent) ==
  /\ Containers(path)[depth - 1] = {parent}
  /\ Manifest(parent)[path[depth]] = NULL

---------------------------------------------------------------------------
(* Version rows.                                                           *)

\* Mutant: the ceiling is off by one.
InsertVersionKeepingOneMore(rows, v, body) ==
  [u \in (DOMAIN rows \cup {v}) \ {v - MaxVersions - 1} |->
     IF u = v THEN [body |-> body, purgeAfter |-> NULL] ELSE rows[u]]

\* Adds a version row and prunes the one that falls over the ceiling.
InsertVersion(rows, v, body) ==
  [u \in (DOMAIN rows \cup {v}) \ {v - MaxVersions} |->
     IF u = v THEN [body |-> body, purgeAfter |-> NULL] ELSE rows[u]]

\* Mutant: every earlier version gets a new deadline, not only the current one.
SupersedeAll(rows, v) ==
  [u \in DOMAIN rows |->
     IF u <= v THEN [body |-> rows[u].body, purgeAfter |-> now + Retention] ELSE rows[u]]

\* Starts the retention window of the version that was just superseded.
Supersede(rows, v) ==
  [u \in DOMAIN rows |->
     IF u = v /\ rows[u].purgeAfter = NULL
     THEN [body |-> rows[u].body, purgeAfter |-> now + Retention] ELSE rows[u]]

\* The version rows after one more version of an object.
Advance(rows, v, body) == Supersede(InsertVersion(rows, v + 1, body), v)

---------------------------------------------------------------------------
(* Object rows.                                                            *)

NewContainer(kind) == [kind |-> kind, version |-> 2, bytes |-> 0,
                       lifecycle |-> "active", purgeAfter |-> NULL]
NewDocument(body) == [kind |-> "document", version |-> 1, bytes |-> Len(body),
                      lifecycle |-> "active", purgeAfter |-> NULL]
\* Mutant: the row's byte count stays that of the first version.
RevisedStaleBytes(row, bytes) == [row EXCEPT !.version = @ + 1]
Revised(row, bytes) == [row EXCEPT !.version = @ + 1, !.bytes = bytes]
Tombstone(row) == [row EXCEPT !.lifecycle = "deleted", !.purgeAfter = now + Retention]
Purged(row) == [row EXCEPT !.lifecycle = "purged"]

---------------------------------------------------------------------------
(* Idempotency and quota.                                                  *)

\* Mutant: a record in its last unit of time no longer answers.
KeyFreeEarly(key) == expiry[key] <= now + 1
KeyFree(key) == expiry[key] <= now
StoreIdempotency(key) ==
  /\ expiry' = [expiry EXCEPT ![key] = now + Ttl]
  /\ appliedAt' = [appliedAt EXCEPT ![key] = now]

\* Mutant: the byte limit of the scope is not checked.
ChangeQuotaUnlimited(bytes, documents, physical) ==
  LET new == [bytes |-> quota.bytes + bytes, documents |-> quota.documents + documents,
              physical |-> quota.physical + physical]
  IN  /\ new.documents \in 0..MaxDocuments
      /\ new.physical \in 0..MaxPhysicalObjects
      /\ quota' = new

ChangeQuota(bytes, documents, physical) ==
  LET new == [bytes |-> quota.bytes + bytes, documents |-> quota.documents + documents,
              physical |-> quota.physical + physical]
  IN  /\ new.bytes \in 0..MaxScopeBytes
      /\ new.documents \in 0..MaxDocuments
      /\ new.physical \in 0..MaxPhysicalObjects
      /\ quota' = new

---------------------------------------------------------------------------
(* Mutations.                                                              *)

\* A created container starts with an empty manifest that its only child
\* replaces in the same transaction.
ContainerVersions(name, child) ==
  Advance(InsertVersion(<<>>, 1, EmptyManifest), 1, [EmptyManifest EXCEPT ![name] = child])

\* The missing containers are inserted one under the other, the document
\* last, and the deepest container that was there, if one was, gets one more
\* manifest version for the first of them.
Insert(path, depth, parents, body) ==
  LET n == Len(objects)
      missing == Len(path) - depth
  IN
  /\ n + missing < ObjectBound
  /\ Len(body) \in 0..MaxDocumentBytes
  /\ ChangeQuota(Len(body), 1, missing + 1)
  /\ objects' = [i \in 1..(n + missing + 1) |->
       IF i <= n
       THEN IF i \in parents THEN Revised(objects[i], objects[i].bytes) ELSE objects[i]
       ELSE IF i <= n + missing
       THEN NewContainer(IF depth = 0 /\ i = n + 1 THEN "root" ELSE "directory")
       ELSE NewDocument(body)]
  /\ versions' = [i \in 1..(n + missing + 1) |->
       IF i <= n
       THEN IF i \in parents
            THEN Advance(versions[i], objects[i].version,
                         [Manifest(i) EXCEPT ![path[depth]] = n + 1])
            ELSE versions[i]
       ELSE IF i <= n + missing THEN ContainerVersions(path[depth + i - n], i + 1)
       ELSE InsertVersion(<<>>, 1, body)]

\* write of a path no entry names, in a scope that has a root or has none yet.
Create(path, body, key) ==
  /\ KeyFree(key)
  /\ \/ Root = {} /\ Insert(path, 0, {}, body)
     \/ \E depth \in 1..Len(path), parent \in Directories :
          Extendable(path, depth, parent) /\ Insert(path, depth, {parent}, body)
  /\ StoreIdempotency(key)
  /\ UNCHANGED now

\* The document's next version and the bytes it accounts for.
ReplaceDocument(i, body) ==
  /\ objects[i].version < VersionBound
  /\ Len(body) \in 0..MaxDocumentBytes
  /\ ChangeQuota(Len(body) - objects[i].bytes, 0, 0)
  /\ objects' = [objects EXCEPT ![i] = Revised(@, Len(body))]
  /\ versions' = [versions EXCEPT ![i] = Advance(@, objects[i].version, body)]

\* write of an existing document.
Replace(i, body) == ReplaceDocument(i, body)

AppendText(i, text) == ReplaceDocument(i, Body(i) \o text)

\* replace_text: every occurrence of one chunk is replaced; more than one
\* occurrence needs replace_all.
ReplaceText(body, old, new) ==
  FlattenSeq([n \in 1..Len(body) |-> IF body[n] = old THEN new ELSE <<body[n]>>])
Occurrences(body, old) == Cardinality({n \in 1..Len(body) : body[n] = old})

Edit(i, old, new, replaceAll) ==
  /\ Occurrences(Body(i), old) > 0
  /\ Occurrences(Body(i), old) > 1 => replaceAll
  /\ new # <<old>>
  /\ ReplaceDocument(i, ReplaceText(Body(i), old, new))

\* Mutant: the delete gives back the physical slot that the tombstone still takes.
DeleteFreesSlot(i, parent, name) ==
  /\ objects' = [objects EXCEPT ![i] = Tombstone(@), ![parent] = Revised(@, @.bytes)]
  /\ versions' = [versions EXCEPT ![parent] =
       Advance(@, objects[parent].version, [Manifest(parent) EXCEPT ![name] = NULL])]
  /\ ChangeQuota(-objects[i].bytes, -1, -1)

\* Mutant: the manifest is written without the entries beside the deleted one.
DeleteLosesSiblings(i, parent, name) ==
  /\ objects' = [objects EXCEPT ![i] = Tombstone(@), ![parent] = Revised(@, @.bytes)]
  /\ versions' = [versions EXCEPT ![parent] =
       Advance(@, objects[parent].version, EmptyManifest)]
  /\ ChangeQuota(-objects[i].bytes, -1, 0)

\* The row stays, inaccessible, until the janitor removes it.
Delete(i, parent, name) ==
  /\ objects' = [objects EXCEPT ![i] = Tombstone(@), ![parent] = Revised(@, @.bytes)]
  /\ versions' = [versions EXCEPT ![parent] =
       Advance(@, objects[parent].version, [Manifest(parent) EXCEPT ![name] = NULL])]
  /\ ChangeQuota(-objects[i].bytes, -1, 0)

\* A mutation of an existing document: the path resolves, the caller expects
\* the version that is current, and the key's record is written with it.
Mutate(path, expected, key) ==
  /\ KeyFree(key)
  /\ \E i \in DocumentOf(path) :
       /\ objects[i].version = expected
       /\ \/ \E body \in Inputs : Replace(i, body)
          \/ \E text \in Inputs : AppendText(i, text)
          \/ \E old \in Chunks, new \in Inputs \cup {<<>>}, replaceAll \in BOOLEAN :
               Edit(i, old, new, replaceAll)
          \/ \E parent \in ParentOf(path) : Delete(i, parent, Last(path))
  /\ StoreIdempotency(key)
  /\ UNCHANGED now

\* A live record answers a retry, whatever became of the document since, and
\* refuses any other request under its key: nothing changes in either case.
Replay(key) == ~KeyFree(key) /\ UNCHANGED vars

\* NotFoundOrDenied or VersionConflict: the transaction rolls back.
Refuse(path, expected) ==
  /\ \A i \in DocumentOf(path) : objects[i].version # expected
  /\ UNCHANGED vars

---------------------------------------------------------------------------
(* The janitor's transaction.  Rows other sessions have locked are         *)
(* skipped, so any selection of at most BatchLimit due rows of each table  *)
(* can be the batch.                                                       *)

Due(at) == at # NULL /\ at <= now

DueObjects == {i \in Ids : objects[i].lifecycle = "deleted" /\ Due(objects[i].purgeAfter)}
\* Mutant: the deadline of a superseded version is not looked at.
DueVersionsAtOnce(i) == DOMAIN versions[i] \ {objects[i].version}
DueVersions(i) ==
  {v \in DOMAIN versions[i] : v # objects[i].version /\ Due(versions[i][v].purgeAfter)}
\* Mutant: a record is removed one unit of time early.
DueKeysEarly == {key \in Keys : expiry[key] # NULL /\ expiry[key] <= now + 1}
DueKeys == {key \in Keys : Due(expiry[key])}

Batches(S) == {B \in SUBSET S : Cardinality(B) <= BatchLimit}

PurgeDue(batch, rows, keys) ==
  /\ batch \in Batches(DueObjects)
  /\ rows \in Batches(UNION {{i} \X DueVersions(i) : i \in Ids \ batch})
  /\ keys \in Batches(DueKeys)
  /\ quota.physical >= Cardinality(batch)
  /\ objects' = [i \in Ids |->
       IF i \in batch THEN Purged(objects[i]) ELSE objects[i]]
  /\ versions' = [i \in Ids |->
       [v \in {u \in DOMAIN versions[i] : i \notin batch /\ <<i, u>> \notin rows} |->
          versions[i][v]]]
  /\ quota' = [quota EXCEPT !.physical = @ - Cardinality(batch)]
  /\ expiry' = [key \in Keys |-> IF key \in keys THEN NULL ELSE expiry[key]]
  /\ UNCHANGED <<appliedAt, now>>

Tick ==
  /\ now < TimeBound
  /\ now' = now + 1
  /\ UNCHANGED <<objects, versions, quota, expiry, appliedAt>>

---------------------------------------------------------------------------
Init ==
  /\ objects = <<>>
  /\ versions = <<>>
  /\ quota = [bytes |-> 0, documents |-> 0, physical |-> 0]
  /\ expiry = [key \in Keys |-> NULL]
  /\ appliedAt = [key \in Keys |-> NULL]
  /\ now = 1

Next ==
  \/ \E path \in Paths, body \in Inputs, key \in Keys : Create(path, body, key)
  \/ \E path \in Paths, expected \in 1..VersionBound, key \in Keys :
       Mutate(path, expected, key)
  \/ \E key \in Keys : Replay(key)
  \/ \E path \in Paths, expected \in 1..VersionBound : Refuse(path, expected)
  \/ \E batch \in Batches(DueObjects), keys \in Batches(DueKeys) :
       \E rows \in Batches(UNION {{i} \X DueVersions(i) : i \in Ids \ batch}) :
         PurgeDue(batch, rows, keys)
  \/ Tick

Spec == Init /\ [][Next]_vars

---------------------------------------------------------------------------
(* Properties.                                                             *)

TypedRows(rows) == \A v \in DOMAIN rows : v \in Positive /\ rows[v].purgeAfter \in Nat

TypeOK ==
  /\ objects \in Seq(Object)
  /\ DOMAIN versions = Ids
  /\ \A i \in Ids : TypedRows(versions[i])
  /\ quota \in [bytes: 0..MaxScopeBytes, documents: 0..MaxDocuments,
                physical: 0..MaxPhysicalObjects]
  /\ expiry \in [Keys -> Nat]
  /\ appliedAt \in [Keys -> Nat]
  /\ now \in Positive

\* The quota row counts the active documents and every object row still there,
\* tombstones included: the janitor gives a physical slot back, a delete a document.
QuotaCounts ==
  /\ quota.documents = Cardinality(Documents)
  /\ quota.physical = Cardinality(Rows)

\* The quota row's bytes are those of the active documents' current texts.
QuotaBytes == quota.bytes = MapThenSumSet(LAMBDA i : Len(Body(i)), Documents)

\* The manifests form one tree: an entry names an active object inserted after
\* its directory, and every active object but the root has exactly one entry,
\* so that nothing charged to the quota is out of reach.
TreeShape ==
  /\ \A d \in Directories, name \in Names :
       Manifest(d)[name] = NULL \/ (Manifest(d)[name] \in Documents \cup Directories
                                    /\ Manifest(d)[name] > d)
  /\ \A i \in (Documents \cup Directories) \ Root :
       Cardinality({e \in Directories \X Names : Manifest(e[1])[e[2]] = i}) = 1

\* An object's current version row is there and is the only one without a
\* retention deadline, and no row is more than MaxVersions behind it.
WellShaped(current, rows) ==
  /\ current \in DOMAIN rows
  /\ \A v \in DOMAIN rows :
       /\ v \in (current - MaxVersions + 1)..current
       /\ rows[v].purgeAfter = NULL <=> v = current
HistoryShape == \A i \in Rows : WellShaped(objects[i].version, versions[i])

\* What memory_history_read may return.
Available(i, v) ==
  /\ Active(i) /\ v \in DOMAIN versions[i]
  /\ v = objects[i].version \/ versions[i][v].purgeAfter > now

\* A version that has become unavailable stays unavailable: no later write,
\* delete, purge or tick brings it back.
HistoryNeverReturns ==
  [][\A i \in Ids : \A v \in 1..objects[i].version :
       ~Available(i, v) => ~Available(i, v)']_vars

\* A version row is lost only to the ceiling, to its own deadline once it is
\* superseded, or to the deadline of its deleted object.
NothingLostEarly ==
  [][\A i \in Ids : \A v \in DOMAIN versions[i] \ DOMAIN versions'[i] :
       \/ v <= objects'[i].version - MaxVersions
       \/ v # objects[i].version /\ versions[i][v].purgeAfter \in 1..now
       \/ objects[i].lifecycle = "deleted" /\ objects[i].purgeAfter \in 1..now]_vars

\* While a key has a record, the record ends Ttl after the key's last commit;
\* when it has none any more, that time is past.
KeyRecord(expiresAt, applied, time) ==
  /\ expiresAt # NULL => applied # NULL /\ expiresAt = applied + Ttl
  /\ applied # NULL /\ expiresAt = NULL => applied + Ttl <= time
KeyRecords == \A key \in Keys : KeyRecord(expiry[key], appliedAt[key], now)

\* Two mutations commit under one idempotency key only Ttl or more apart,
\* however the janitor's and the writers' removals of its record fall.
KeyAppliesOncePerTtl ==
  [][\A key \in Keys : appliedAt'[key] # appliedAt[key] =>
       appliedAt[key] = NULL \/ appliedAt[key] + Ttl <= now]_vars

\* The tree implements a map from paths to versioned documents.
Docs == [path \in Paths |-> {[version |-> objects[i].version, body |-> Body(i)] :
                              i \in DocumentOf(path)}]
Map == INSTANCE DocumentMap WITH docs <- Docs
ImplementsDocumentMap == Map!Spec
=============================================================================
