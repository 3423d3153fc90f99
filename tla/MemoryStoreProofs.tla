---------------------------- MODULE MemoryStoreProofs ----------------------------
(***************************************************************************)
(* The store's invariants and action properties for any paths, texts,      *)
(* limits and bounds.                                                      *)
(*                                                                         *)
(* IInv is inductive.  HistoryShape alone is not: that a new version's     *)
(* number is free and that a purged row's history is empty need the types, *)
(* and the quota's counters stay in range only because each of them is the *)
(* size of a set.  Whatever an action does, each object row that was there *)
(* before takes one of four steps (RowStep): it advances by a version,     *)
(* becomes a tombstone, is emptied, or at most loses due version rows.     *)
(* InsertStep, ReplaceStep, DeleteStep and PurgeStep show this of the      *)
(* actions; the invariant's preservation and both properties of the        *)
(* history then follow from the four cases alone.                          *)
(***************************************************************************)
EXTENDS MemoryStore, FiniteSetTheorems, SequenceTheorems, TLAPS

\* The record of a key's last commit only moves Ttl after it.

KeyStep(key) ==
  appliedAt'[key] # appliedAt[key] =>
    appliedAt[key] = NULL \/ appliedAt[key] + Ttl <= now

\* The inductive invariant.
IInv == TypeOK /\ HistoryShape /\ QuotaCounts /\ KeyRecords

---------------------------------------------------------------------------
(* Version rows.                                                           *)

\* One more version of an object: its rows stay typed and well shaped around the new number.
LEMMA AdvanceRows ==
  ASSUME NEW rows, NEW v \in Positive, NEW body, now \in Positive,
         TypedRows(rows), WellShaped(v, rows)
  PROVE  /\ TypedRows(Advance(rows, v, body))
         /\ WellShaped(v + 1, Advance(rows, v, body))
  BY ConfigAssumption
  DEF Advance, Supersede, InsertVersion, TypedRows, WellShaped, Positive, NULL

\* The single version row of a new document is well shaped.
LEMMA FirstRow ==
  ASSUME NEW body
  PROVE  /\ TypedRows(InsertVersion(<<>>, 1, body))
         /\ WellShaped(1, InsertVersion(<<>>, 1, body))
  BY ConfigAssumption DEF InsertVersion, TypedRows, WellShaped, Positive, NULL

\* So are the rows of a new container, whose empty first manifest has been replaced.
LEMMA ContainerRows ==
  ASSUME NEW name, NEW child, now \in Positive
  PROVE  /\ TypedRows(ContainerVersions(name, child))
         /\ WellShaped(2, ContainerVersions(name, child))
  BY FirstRow, AdvanceRows DEF ContainerVersions, Positive

---------------------------------------------------------------------------
(* Object rows.                                                            *)

\* What each change of an object row does to its version, lifecycle and deadline.
LEMMA RowChanges ==
  ASSUME NEW row \in Object, NEW bytes \in Nat, now \in Positive
  PROVE  /\ Revised(row, bytes) \in Object
         /\ Revised(row, bytes).version = row.version + 1
         /\ Revised(row, bytes).kind = row.kind
         /\ Revised(row, bytes).lifecycle = row.lifecycle
         /\ Tombstone(row) \in Object
         /\ Tombstone(row).version = row.version
         /\ Tombstone(row).kind = row.kind
         /\ Tombstone(row).lifecycle = "deleted"
         /\ Purged(row) \in Object
         /\ Purged(row).version = row.version
         /\ Purged(row).kind = row.kind
         /\ Purged(row).lifecycle = "purged"
  <1>1. /\ row.version \in Positive /\ row.version + 1 \in Positive
        /\ now + Retention \in Nat
    BY ConfigAssumption DEF Object, Positive
  <1>2. /\ Revised(row, bytes) \in Object
        /\ Revised(row, bytes).version = row.version + 1
        /\ Revised(row, bytes).kind = row.kind
        /\ Revised(row, bytes).lifecycle = row.lifecycle
    BY <1>1 DEF Revised, Object
  <1>3. /\ Tombstone(row) \in Object
        /\ Tombstone(row).version = row.version
        /\ Tombstone(row).kind = row.kind
        /\ Tombstone(row).lifecycle = "deleted"
    BY <1>1 DEF Tombstone, Object
  <1>4. /\ Purged(row) \in Object
        /\ Purged(row).version = row.version
        /\ Purged(row).kind = row.kind
        /\ Purged(row).lifecycle = "purged"
    BY DEF Purged, Object
  <1>5. QED
    BY <1>2, <1>3, <1>4

\* The rows a write inserts are active and at the version their history has.
LEMMA NewRows ==
  ASSUME NEW kind \in {"root", "directory"}, NEW body, Len(body) \in Nat
  PROVE  /\ NewContainer(kind) \in Object
         /\ NewContainer(kind).version = 2
         /\ NewContainer(kind).kind = kind
         /\ NewContainer(kind).lifecycle = "active"
         /\ NewDocument(body) \in Object
         /\ NewDocument(body).version = 1
         /\ NewDocument(body).kind = "document"
         /\ NewDocument(body).lifecycle = "active"
  BY DEF NewContainer, NewDocument, Object, Kinds, Positive, NULL

---------------------------------------------------------------------------
(* Counting.                                                               *)

\* Rows and documents are finite sets, so that they can be counted.
LEMMA FiniteRows ==
  ASSUME TypeOK
  PROVE  /\ Len(objects) \in Nat
         /\ IsFiniteSet(Ids) /\ IsFiniteSet(Rows) /\ IsFiniteSet(Documents)
  <1>1. Len(objects) \in Nat /\ IsFiniteSet(Ids)
    BY FS_Interval DEF TypeOK, Ids
  <1>2. Rows \subseteq Ids /\ Documents \subseteq Ids
    BY DEF Rows, Documents
  <1>3. QED
    BY <1>1, <1>2, FS_Subset

\* A change of the quota row keeps its type and adds the differences.
LEMMA QuotaStep ==
  ASSUME TypeOK, NEW bytes \in Int, NEW documents \in Int, NEW physical \in Int,
         ChangeQuota(bytes, documents, physical)
  PROVE  /\ quota' \in [bytes: 0..MaxScopeBytes, documents: 0..MaxDocuments,
                        physical: 0..MaxPhysicalObjects]
         /\ quota'.documents = quota.documents + documents
         /\ quota'.physical = quota.physical + physical
  BY DEF ChangeQuota, TypeOK

---------------------------------------------------------------------------
(* What any action does to one object that was there: nothing, one more    *)
(* version, a tombstone, the removal of the row, or of due version rows.   *)

Advanced(i) ==
  /\ Active(i)
  /\ \E bytes \in Nat : objects'[i] = Revised(objects[i], bytes)
  /\ \E body : versions'[i] = Advance(versions[i], objects[i].version, body)
Tombstoned(i) ==
  Active(i) /\ objects'[i] = Tombstone(objects[i]) /\ versions'[i] = versions[i]
Removed(i) == i \in DueObjects /\ objects'[i] = Purged(objects[i])
Trimmed(i) ==
  /\ objects'[i] = objects[i]
  /\ DOMAIN versions'[i] \subseteq DOMAIN versions[i]
  /\ DOMAIN versions[i] \ DOMAIN versions'[i] \subseteq DueVersions(i)
  /\ \A v \in DOMAIN versions'[i] : versions'[i][v] = versions[i][v]
Emptied(i) == Removed(i) /\ DOMAIN versions'[i] = {}
RowStep(i) == Advanced(i) \/ Tombstoned(i) \/ Emptied(i) \/ Trimmed(i)

---------------------------------------------------------------------------
(* One lemma per way in which an action changes the tables.                *)

\* The object rows after an insertion: those there were, the missing
\* containers, and the document last.
Inserted(path, depth, parents, body, n, missing) ==
  /\ n = Len(objects) /\ n \in Nat /\ missing \in Nat /\ missing = Len(path) - depth
  /\ Ids = 1..n /\ Ids' = 1..(n + missing + 1)
  /\ objects' \in Seq(Object) /\ DOMAIN versions' = Ids'
  /\ \A i \in 1..n : i <= n /\ i \in Ids' /\ objects'[i] =
       IF i \in parents THEN Revised(objects[i], objects[i].bytes) ELSE objects[i]
  /\ \A i \in (n + 1)..(n + missing) : i \in Ids' /\ objects'[i] =
       NewContainer(IF depth = 0 /\ i = n + 1 THEN "root" ELSE "directory")
  /\ n + missing + 1 \in Ids' /\ objects'[n + missing + 1] = NewDocument(body)
  /\ Ids' = (1..n) \cup ((n + 1)..(n + missing)) \cup {n + missing + 1}
  /\ \A i \in 1..n : versions'[i] =
       IF i \in parents
       THEN Advance(versions[i], objects[i].version,
                    [Manifest(i) EXCEPT ![path[depth]] = n + 1])
       ELSE versions[i]
  /\ \A i \in (n + 1)..(n + missing) :
       versions'[i] = ContainerVersions(path[depth + i - n], i + 1)
  /\ versions'[n + missing + 1] = InsertVersion(<<>>, 1, body)

\* What an insertion does to the rows there are, and to its own.
LEMMA InsertRows ==
  ASSUME IInv, NEW path \in Paths, NEW depth \in 0..Len(path),
         NEW parents \in SUBSET Directories, NEW body \in Inputs,
         Insert(path, depth, parents, body)
  PROVE  Inserted(path, depth, parents, body, Len(objects), Len(path) - depth)
  <1> DEFINE n == Len(objects)
             missing == Len(path) - depth
             top == n + missing + 1
  <1>1. /\ n \in Nat /\ missing \in Nat /\ top \in Nat
        /\ Ids = 1..n /\ now \in Positive /\ Len(body) \in Nat
    BY PathsAssumption, FiniteRows DEF IInv, TypeOK, Ids
  <1>2. \A i \in Ids : objects[i] \in Object
    BY DEF IInv, TypeOK, Ids
  <1>3. /\ Len(objects') = top /\ Ids' = 1..top
        /\ objects' \in Seq(Object) /\ DOMAIN versions' = Ids'
        /\ \A i \in 1..top : objects'[i] =
             IF i <= n
             THEN IF i \in parents THEN Revised(objects[i], objects[i].bytes) ELSE objects[i]
             ELSE IF i <= n + missing
             THEN NewContainer(IF depth = 0 /\ i = n + 1 THEN "root" ELSE "directory")
             ELSE NewDocument(body)
    <2>1. \A i \in 1..top : objects'[i] \in Object
      <3>1. \A i \in 1..n : Revised(objects[i], objects[i].bytes) \in Object
        BY <1>1, <1>2, RowChanges DEF Object
      <3>2. QED
        BY <1>1, <1>2, <3>1, NewRows DEF Insert
    <2>2. objects' \in [1..top -> Object]
      BY <1>1, <2>1 DEF Insert
    <2>3. objects' \in Seq(Object) /\ Len(objects') = top
      BY <1>1, <2>2, SeqDef, LenProperties
    <2>4. QED
      BY <1>1, <2>3 DEF Insert, Ids
  <1>4. \A i \in 1..top : versions'[i] =
          IF i <= n
          THEN IF i \in parents
               THEN Advance(versions[i], objects[i].version,
                            [Manifest(i) EXCEPT ![path[depth]] = n + 1])
               ELSE versions[i]
          ELSE IF i <= n + missing THEN ContainerVersions(path[depth + i - n], i + 1)
          ELSE InsertVersion(<<>>, 1, body)
    BY <1>1 DEF Insert
  <1>5. /\ \A i \in 1..n : i \in 1..top /\ i <= n
        /\ \A i \in (n + 1)..(n + missing) : i \in 1..top /\ ~(i <= n) /\ i <= n + missing
        /\ top \in 1..top /\ ~(top <= n) /\ ~(top <= n + missing)
        /\ 1..top = (1..n) \cup ((n + 1)..(n + missing)) \cup {top}
    BY <1>1
  <1>6. QED
    <2> HIDE DEF n, missing, top
    <2>1. top = n + missing + 1 /\ n = Len(objects) /\ missing = Len(path) - depth
      BY DEF n, missing, top
    <2>2. QED
      BY <1>1, <1>3, <1>4, <1>5, <2>1 DEF Inserted

\* A created document with its missing directories: types, shapes and counts.
LEMMA InsertStep ==
  ASSUME IInv, NEW path \in Paths, NEW depth \in 0..Len(path),
         NEW parents \in SUBSET Directories, NEW body \in Inputs,
         Insert(path, depth, parents, body), UNCHANGED now
  PROVE  /\ Ids \subseteq Ids' /\ \A i \in Ids : RowStep(i)
         /\ objects' \in Seq(Object) /\ DOMAIN versions' = Ids'
         /\ \A i \in Ids' : TypedRows(versions'[i])
         /\ quota' \in [bytes: 0..MaxScopeBytes, documents: 0..MaxDocuments,
                        physical: 0..MaxPhysicalObjects]
         /\ HistoryShape' /\ QuotaCounts'
  <1> DEFINE n == Len(objects)
             missing == Len(path) - depth
             top == n + missing + 1
  <1>1. /\ n \in Nat /\ missing \in Nat /\ top \in Nat
        /\ Ids = 1..n /\ now \in Positive /\ Len(body) \in Nat
    BY PathsAssumption, FiniteRows DEF IInv, TypeOK, Ids
  <1>2. \A i \in Ids : objects[i] \in Object
    BY DEF IInv, TypeOK, Ids
  <1>3. /\ Ids' = 1..top /\ objects' \in Seq(Object) /\ DOMAIN versions' = Ids'
        /\ \A i \in 1..top : objects'[i] =
             IF i <= n
             THEN IF i \in parents THEN Revised(objects[i], objects[i].bytes) ELSE objects[i]
             ELSE IF i <= n + missing
             THEN NewContainer(IF depth = 0 /\ i = n + 1 THEN "root" ELSE "directory")
             ELSE NewDocument(body)
    <2>1. Inserted(path, depth, parents, body, n, missing)
      BY InsertRows
    <2>2. Ids' = 1..top /\ objects' \in Seq(Object) /\ DOMAIN versions' = Ids'
      BY <2>1 DEF Inserted
    <2>3. QED
      BY <1>1, <2>2 DEF Insert
  <1>4. \A i \in parents : i \in Rows /\ i \in 1..n
    BY <1>1 DEF Directories, Rows, HasRow, Active, Ids
  <1>5. ASSUME NEW i \in 1..top
        PROVE  /\ TypedRows(versions'[i])
               /\ i \in Rows' => WellShaped(objects'[i].version, versions'[i])
    <2>1. CASE i <= n /\ i \in parents
      <3>1. /\ objects'[i].version = objects[i].version + 1
            /\ versions'[i] = Advance(versions[i], objects[i].version,
                                [Manifest(i) EXCEPT ![path[depth]] = n + 1])
        <4>1. objects[i] \in Object /\ objects[i].bytes \in Nat
          BY <1>1, <1>2, <2>1 DEF Object
        <4>2. objects'[i] = Revised(objects[i], objects[i].bytes)
          BY <1>3, <2>1
        <4>3. objects'[i].version = objects[i].version + 1
          BY <1>1, <4>1, <4>2, RowChanges
        <4>4. QED
          BY <1>1, <2>1, <4>3 DEF Insert
      <3>2. TypedRows(versions[i]) /\ WellShaped(objects[i].version, versions[i])
        BY <1>1, <1>4, <2>1 DEF IInv, TypeOK, HistoryShape
      <3>3. objects[i].version \in Positive
        BY <1>1, <1>2, <2>1 DEF Object
      <3>4. QED
        BY <1>1, <3>1, <3>2, <3>3, AdvanceRows
    <2>2. CASE i <= n /\ i \notin parents
      <3>1. objects'[i] = objects[i] /\ versions'[i] = versions[i]
        BY <1>1, <1>3, <2>2 DEF Insert
      <3>2. i \in Ids /\ (i \in Rows' => i \in Rows)
        BY <1>1, <2>2, <3>1 DEF Rows, HasRow
      <3>3. QED
        BY <3>1, <3>2 DEF IInv, TypeOK, HistoryShape
    <2>3. CASE i > n /\ i <= n + missing
      <3>1. objects'[i].version = 2 /\ versions'[i] = ContainerVersions(path[depth + i - n], i + 1)
        BY <1>1, <1>3, <2>3 DEF Insert, NewContainer
      <3>2. now \in Positive
        BY <1>1
      <3>3. QED
        BY <3>1, <3>2, ContainerRows
    <2>4. CASE i > n + missing
      <3>1. objects'[i].version = 1 /\ versions'[i] = InsertVersion(<<>>, 1, body)
        BY <1>1, <1>3, <2>4 DEF Insert, NewDocument
      <3>2. QED
        BY <3>1, FirstRow
    <2>5. QED
      BY <1>1, <2>1, <2>2, <2>3, <2>4
  <1>6. HistoryShape'
    BY <1>3, <1>5 DEF HistoryShape, Rows
  <1>7. /\ quota' \in [bytes: 0..MaxScopeBytes, documents: 0..MaxDocuments,
                       physical: 0..MaxPhysicalObjects]
        /\ quota'.documents = quota.documents + 1
        /\ quota'.physical = quota.physical + missing + 1
    <2>1. ChangeQuota(Len(body), 1, missing + 1) /\ TypeOK
      BY DEF Insert, IInv
    <2>2. /\ quota' \in [bytes: 0..MaxScopeBytes, documents: 0..MaxDocuments,
                         physical: 0..MaxPhysicalObjects]
          /\ quota'.documents = quota.documents + 1
          /\ quota'.physical = quota.physical + (missing + 1)
      <3> HIDE DEF missing
      <3> QED BY <1>1, <2>1, QuotaStep
    <2>3. quota.physical \in Nat
      BY <2>1 DEF TypeOK
    <2>4. QED
      BY <1>1, <2>2, <2>3
  <1>8. ASSUME NEW i \in 1..n
        PROVE  /\ objects'[i].kind = objects[i].kind
               /\ objects'[i].lifecycle = objects[i].lifecycle
    <2>1. objects[i] \in Object /\ objects[i].bytes \in Nat /\ i \in 1..top /\ i <= n
      BY <1>1, <1>2 DEF Object
    <2>2. objects'[i] = IF i \in parents
                        THEN Revised(objects[i], objects[i].bytes) ELSE objects[i]
      BY <1>3, <2>1
    <2>3. /\ Revised(objects[i], objects[i].bytes).kind = objects[i].kind
          /\ Revised(objects[i], objects[i].bytes).lifecycle = objects[i].lifecycle
      BY <1>1, <2>1, RowChanges
    <2>4. QED
      BY <2>2, <2>3
  <1>9. ASSUME NEW i \in (n + 1)..top
        PROVE  /\ objects'[i].lifecycle = "active"
               /\ objects'[i].kind = "document" <=> i = top
    <2>1. i \in 1..top /\ ~(i <= n)
      BY <1>1
    <2>2. CASE i = top
      <3>1. ~(i <= n + missing)
        BY <1>1, <2>2
      <3>2. objects'[i] = NewDocument(body)
        BY <1>3, <2>1, <3>1
      <3>3. QED
        BY <2>2, <3>2 DEF NewDocument
    <2>3. CASE i # top
      <3>1. i <= n + missing
        BY <1>1, <2>1, <2>3
      <3>2. objects'[i] = NewContainer(IF depth = 0 /\ i = n + 1 THEN "root" ELSE "directory")
        BY <1>3, <2>1, <3>1
      <3>3. QED
        BY <2>3, <3>2 DEF NewContainer
    <2>4. QED
      BY <2>2, <2>3
  <1>10. Documents' = Documents \cup {top} /\ top \notin Documents
    <2>1. /\ top \in (n + 1)..top /\ top \notin 1..n
          /\ 1..top = (1..n) \cup ((n + 1)..top) /\ (1..n) \cap ((n + 1)..top) = {}
      BY <1>1
    <2> HIDE DEF n, top
    <2>2. top \notin Documents /\ Ids = 1..n /\ Ids' = 1..top /\ Documents \subseteq Ids
      BY <1>1, <1>3, <2>1 DEF Documents
    <2>3. ASSUME NEW i PROVE i \in Documents' <=> i \in Documents \/ i = top
      <3>1. CASE i \in 1..n
        BY <1>8, <2>1, <2>2, <3>1 DEF Documents, Active, IsDocument
      <3>2. CASE i \in (n + 1)..top
        <4>1. i \notin Documents /\ i \in Ids'
          BY <2>1, <2>2, <3>2
        <4>2. Active(i)' /\ (IsDocument(i)' <=> i = top)
          BY <1>9, <3>2 DEF Active, IsDocument
        <4>3. QED
          BY <4>1, <4>2 DEF Documents
      <3>3. CASE i \notin 1..top
        BY <2>1, <2>2, <3>3 DEF Documents
      <3>4. QED
        BY <2>1, <3>1, <3>2, <3>3
    <2>4. QED
      BY <2>2, <2>3
  <1>11. Rows' = Rows \cup ((n + 1)..top) /\ Rows \cap ((n + 1)..top) = {}
    <2>1. (1..n) \cap ((n + 1)..top) = {} /\ 1..top = (1..n) \cup ((n + 1)..top)
      BY <1>1
    <2> HIDE DEF n, top
    <2>2. QED
      BY <1>1, <1>3, <1>8, <1>9, <2>1 DEF Rows, HasRow
  <1>12. QuotaCounts'
    <2>1. Cardinality(Documents') = Cardinality(Documents) + 1
      BY <1>10, FiniteRows, FS_AddElement DEF IInv
    <2>2. Cardinality(Rows') = Cardinality(Rows) + missing + 1
      <3>1. IsFiniteSet((n + 1)..top) /\ Cardinality((n + 1)..top) = missing + 1
        <4>1. (n + 1) \in Int /\ top \in Int /\ ~((n + 1) > top)
          BY <1>1
        <4>2. IsFiniteSet((n + 1)..top) /\ Cardinality((n + 1)..top) = top - (n + 1) + 1
          <5> HIDE DEF n, top
          <5> QED BY <4>1, FS_Interval
        <4>3. QED
          BY <1>1, <4>2
      <3>2. Cardinality(Rows) \in Nat
        BY FiniteRows, FS_CardinalityType DEF IInv
      <3>3. Cardinality(Rows \cap ((n + 1)..top)) = 0
        BY <1>11, FS_EmptySet
      <3>4. Cardinality(Rows \cup ((n + 1)..top)) =
              Cardinality(Rows) + (missing + 1) - Cardinality(Rows \cap ((n + 1)..top))
        <4> HIDE DEF n, top, missing
        <4> QED BY <3>1, FiniteRows, FS_Union DEF IInv
      <3>5. QED
        BY <1>1, <1>11, <3>2, <3>3, <3>4
    <2>3. QED
      BY <1>7, <2>1, <2>2 DEF IInv, QuotaCounts
  <1>13. Ids \subseteq Ids'
    BY <1>1, <1>3
  <1>14. ASSUME NEW i \in Ids PROVE RowStep(i)
    <2>1. i \in 1..top /\ i <= n /\ i \in 1..n
      BY <1>1
    <2>2. CASE i \in parents
      <3>1. objects[i].bytes \in Nat /\ Active(i)
        BY <1>2, <2>2 DEF Object, Directories
      <3>2. objects'[i] = Revised(objects[i], objects[i].bytes)
        BY <1>3, <2>1, <2>2
      <3>3. versions'[i] = Advance(versions[i], objects[i].version,
                                   [Manifest(i) EXCEPT ![path[depth]] = n + 1])
        BY <1>1, <2>1, <2>2 DEF Insert
      <3>4. QED
        BY <3>1, <3>2, <3>3 DEF RowStep, Advanced
    <2>3. CASE i \notin parents
      <3>1. objects'[i] = objects[i] /\ versions'[i] = versions[i]
        BY <1>1, <1>3, <2>1, <2>3 DEF Insert
      <3>2. QED
        BY <3>1 DEF RowStep, Trimmed
    <2>4. QED
      BY <2>2, <2>3
  <1>15. QED
    BY <1>3, <1>5, <1>6, <1>7, <1>12, <1>13, <1>14

---------------------------------------------------------------------------
\* Each of them keeps the row and its versions well shaped.
LEMMA RowStepKeepsShape ==
  ASSUME IInv, NEW i \in Ids, RowStep(i)
  PROVE  /\ objects'[i] \in Object
         /\ objects'[i].kind = objects[i].kind
         /\ objects'[i].lifecycle = "active" => Active(i)
         /\ TypedRows(versions'[i])
         /\ objects'[i].lifecycle # "purged" => WellShaped(objects'[i].version, versions'[i])
  <1>1. /\ objects[i] \in Object /\ now \in Positive /\ TypedRows(versions[i])
        /\ objects[i].version \in Positive
        /\ HasRow(i) => WellShaped(objects[i].version, versions[i])
    <2>1. objects[i] \in Object /\ now \in Positive /\ TypedRows(versions[i])
      BY DEF IInv, TypeOK, Ids
    <2>2. HasRow(i) => WellShaped(objects[i].version, versions[i])
      BY DEF IInv, HistoryShape, Rows
    <2>3. QED
      BY <2>1, <2>2 DEF Object
  <1>2. CASE Advanced(i)
    <2>1. PICK bytes \in Nat : objects'[i] = Revised(objects[i], bytes)
      BY <1>2 DEF Advanced
    <2>2. PICK body : versions'[i] = Advance(versions[i], objects[i].version, body)
      BY <1>2 DEF Advanced
    <2>3. HasRow(i)
      BY <1>2 DEF Advanced, Active, HasRow
    <2>4. /\ objects'[i] \in Object /\ objects'[i].version = objects[i].version + 1
          /\ objects'[i].kind = objects[i].kind
          /\ objects'[i].lifecycle = objects[i].lifecycle
      BY <1>1, <2>1, RowChanges
    <2>5. QED
      BY <1>1, <2>2, <2>3, <2>4, AdvanceRows DEF Active
  <1>3. CASE Tombstoned(i)
    <2>1. Active(i) /\ HasRow(i)
      BY <1>3 DEF Tombstoned, Active, HasRow
    <2>2. /\ objects'[i] \in Object /\ objects'[i].version = objects[i].version
          /\ objects'[i].kind = objects[i].kind /\ objects'[i].lifecycle = "deleted"
      BY <1>1, <1>3, RowChanges, 0 \in Nat DEF Tombstoned
    <2>3. QED
      BY <1>1, <1>3, <2>1, <2>2 DEF Tombstoned
  <1>4. CASE Emptied(i)
    <2>1. /\ objects'[i] \in Object /\ objects'[i].kind = objects[i].kind
          /\ objects'[i].lifecycle = "purged"
      BY <1>1, <1>4, RowChanges, 0 \in Nat DEF Emptied, Removed
    <2>2. TypedRows(versions'[i])
      BY <1>4 DEF Emptied, TypedRows
    <2>3. QED
      BY <2>1, <2>2
  <1>5. CASE Trimmed(i)
    <2>1. TypedRows(versions'[i])
      BY <1>1, <1>5 DEF Trimmed, TypedRows
    <2>2. ASSUME HasRow(i) PROVE WellShaped(objects[i].version, versions'[i])
      BY <1>1, <1>5, <2>2 DEF Trimmed, WellShaped, DueVersions
    <2>3. QED
      BY <1>1, <1>5, <2>1, <2>2 DEF Trimmed, HasRow, Active
  <1>6. QED
    BY <1>2, <1>3, <1>4, <1>5 DEF RowStep

\* So the tables stay well shaped when every row takes such a step and no row is added.
LEMMA StepKeepsShape ==
  ASSUME IInv, DOMAIN objects' = Ids, DOMAIN versions' = Ids,
         objects' = [i \in Ids |-> objects'[i]],
         \A i \in Ids : RowStep(i)
  PROVE  /\ objects' \in Seq(Object) /\ Ids' = Ids
         /\ \A i \in Ids' : TypedRows(versions'[i])
         /\ HistoryShape'
  <1>1. Len(objects) \in Nat /\ Ids = 1..Len(objects)
    BY FiniteRows DEF IInv, Ids
  <1>2. objects' \in [Ids -> Object]
    BY RowStepKeepsShape
  <1>3. objects' \in Seq(Object) /\ Len(objects') = Len(objects)
    BY <1>1, <1>2, SeqDef, LenProperties
  <1>4. Ids' = Ids
    BY <1>1, <1>3 DEF Ids
  <1>5. QED
    BY <1>3, <1>4, RowStepKeepsShape DEF HistoryShape, Rows, HasRow

\* A new version of a document: every row steps, the counts stay.
LEMMA ReplaceStep ==
  ASSUME IInv, NEW i \in Documents, NEW body, ReplaceDocument(i, body), UNCHANGED now
  PROVE  /\ Ids \subseteq Ids' /\ \A j \in Ids : RowStep(j)
         /\ objects' \in Seq(Object) /\ DOMAIN versions' = Ids'
         /\ \A j \in Ids' : TypedRows(versions'[j])
         /\ quota' \in [bytes: 0..MaxScopeBytes, documents: 0..MaxDocuments,
                        physical: 0..MaxPhysicalObjects]
         /\ HistoryShape' /\ QuotaCounts'
  <1>1. /\ DOMAIN objects = Ids /\ DOMAIN versions = Ids /\ i \in Ids
        /\ Active(i) /\ IsDocument(i) /\ objects[i] \in Object /\ Len(body) \in Nat
        /\ now \in Positive
    BY ConfigAssumption DEF IInv, TypeOK, Ids, Documents, ReplaceDocument, Positive
  <1>2. /\ objects' = [objects EXCEPT ![i] = Revised(objects[i], Len(body))]
        /\ versions' = [versions EXCEPT ![i] = Advance(versions[i], objects[i].version, body)]
    BY DEF ReplaceDocument
  <1>3. ASSUME NEW j \in Ids PROVE RowStep(j)
    <2>1. CASE j = i
      <3>1. Advanced(j)
        BY <1>1, <1>2, <2>1 DEF Advanced
      <3>2. QED
        BY <3>1 DEF RowStep
    <2>2. CASE j # i
      BY <1>1, <1>2, <2>2 DEF RowStep, Trimmed
    <2>3. QED
      BY <2>1, <2>2
  <1>4. DOMAIN objects' = Ids /\ DOMAIN versions' = Ids /\ objects' = [j \in Ids |-> objects'[j]]
    BY <1>1, <1>2
  <1>5. /\ objects' \in Seq(Object) /\ Ids' = Ids /\ HistoryShape'
        /\ \A j \in Ids' : TypedRows(versions'[j])
    BY <1>3, <1>4, StepKeepsShape
  <1>6. /\ quota' \in [bytes: 0..MaxScopeBytes, documents: 0..MaxDocuments,
                       physical: 0..MaxPhysicalObjects]
        /\ quota'.documents = quota.documents /\ quota'.physical = quota.physical
    <2>1. ChangeQuota(Len(body) - objects[i].bytes, 0, 0) /\ TypeOK
      BY DEF ReplaceDocument, IInv
    <2>2. Len(body) - objects[i].bytes \in Int
      BY <1>1 DEF Object
    <2>3. quota.documents \in Nat /\ quota.physical \in Nat
      BY <2>1 DEF TypeOK
    <2>4. QED
      BY <2>1, <2>2, <2>3, QuotaStep
  <1>7. \A j \in Ids : /\ objects'[j].lifecycle = objects[j].lifecycle
                       /\ objects'[j].kind = objects[j].kind
    <2>1. /\ Revised(objects[i], Len(body)).lifecycle = objects[i].lifecycle
          /\ Revised(objects[i], Len(body)).kind = objects[i].kind
      BY <1>1, RowChanges
    <2>2. QED
      BY <1>1, <1>2, <2>1
  <1>8. Documents' = Documents /\ Rows' = Rows
    BY <1>5, <1>7 DEF Documents, Rows, HasRow, Active, IsDocument
  <1>9. QuotaCounts'
    BY <1>6, <1>8 DEF IInv, QuotaCounts
  <1>10. QED
    BY <1>3, <1>4, <1>5, <1>6, <1>9

\* A delete: one document less to count, as many rows as before.
LEMMA DeleteStep ==
  ASSUME IInv, NEW i \in Documents, NEW parent \in Directories, NEW name \in Names,
         Delete(i, parent, name), UNCHANGED now
  PROVE  /\ Ids \subseteq Ids' /\ \A j \in Ids : RowStep(j)
         /\ objects' \in Seq(Object) /\ DOMAIN versions' = Ids'
         /\ \A j \in Ids' : TypedRows(versions'[j])
         /\ quota' \in [bytes: 0..MaxScopeBytes, documents: 0..MaxDocuments,
                        physical: 0..MaxPhysicalObjects]
         /\ HistoryShape' /\ QuotaCounts'
  <1>1. /\ DOMAIN objects = Ids /\ DOMAIN versions = Ids /\ i \in Ids /\ parent \in Ids
        /\ Active(i) /\ IsDocument(i) /\ Active(parent) /\ ~IsDocument(parent)
        /\ i # parent /\ now \in Positive
        /\ objects[i] \in Object /\ objects[parent] \in Object
    BY DEF IInv, TypeOK, Ids, Documents, Directories
  <1>2. /\ objects'[i] = Tombstone(objects[i])
        /\ objects'[parent] = Revised(objects[parent], objects[parent].bytes)
        /\ \A j \in Ids \ {i, parent} : objects'[j] = objects[j]
        /\ DOMAIN objects' = Ids /\ objects' = [j \in Ids |-> objects'[j]]
        /\ versions'[parent] = Advance(versions[parent], objects[parent].version,
                                       [Manifest(parent) EXCEPT ![name] = NULL])
        /\ \A j \in Ids \ {parent} : versions'[j] = versions[j]
        /\ DOMAIN versions' = Ids
    BY <1>1 DEF Delete
  <1>3. ASSUME NEW j \in Ids PROVE RowStep(j)
    <2>1. CASE j = parent
      <3>1. objects[parent].bytes \in Nat
        BY <1>1 DEF Object
      <3>2. Advanced(j)
        BY <1>1, <1>2, <2>1, <3>1 DEF Advanced
      <3>3. QED
        BY <3>2 DEF RowStep
    <2>2. CASE j = i
      <3>1. Tombstoned(j)
        BY <1>1, <1>2, <2>2 DEF Tombstoned
      <3>2. QED
        BY <3>1 DEF RowStep
    <2>3. CASE j \notin {i, parent}
      BY <1>1, <1>2, <2>3 DEF RowStep, Trimmed
    <2>4. QED
      BY <2>1, <2>2, <2>3
  <1>4. /\ objects' \in Seq(Object) /\ Ids' = Ids /\ HistoryShape'
        /\ \A j \in Ids' : TypedRows(versions'[j])
    BY <1>2, <1>3, StepKeepsShape
  <1>5. /\ quota' \in [bytes: 0..MaxScopeBytes, documents: 0..MaxDocuments,
                       physical: 0..MaxPhysicalObjects]
        /\ quota'.documents = quota.documents - 1 /\ quota'.physical = quota.physical
    <2>1. ChangeQuota(-objects[i].bytes, -1, 0) /\ TypeOK
      BY DEF Delete, IInv
    <2>2. -objects[i].bytes \in Int /\ -1 \in Int
      BY <1>1 DEF Object
    <2>3. quota.documents \in Nat /\ quota.physical \in Nat
      BY <2>1 DEF TypeOK
    <2>4. /\ quota' \in [bytes: 0..MaxScopeBytes, documents: 0..MaxDocuments,
                         physical: 0..MaxPhysicalObjects]
          /\ quota'.documents = quota.documents + (-1)
          /\ quota'.physical = quota.physical + 0
      BY <2>1, <2>2, QuotaStep
    <2>5. QED
      BY <2>3, <2>4
  <1>6. /\ objects'[i].lifecycle = "deleted" /\ objects'[i].kind = "document"
        /\ \A j \in Ids \ {i} : /\ objects'[j].lifecycle = objects[j].lifecycle
                                /\ objects'[j].kind = objects[j].kind
    <2>1. /\ Tombstone(objects[i]).lifecycle = "deleted"
          /\ Tombstone(objects[i]).kind = objects[i].kind
      BY <1>1, RowChanges, 0 \in Nat
    <2>2. /\ Revised(objects[parent], objects[parent].bytes).lifecycle = objects[parent].lifecycle
          /\ Revised(objects[parent], objects[parent].bytes).kind = objects[parent].kind
      <3>1. objects[parent].bytes \in Nat
        BY <1>1 DEF Object
      <3>2. QED
        BY <1>1, <3>1, RowChanges
    <2>3. QED
      BY <1>1, <1>2, <2>1, <2>2 DEF IsDocument
  <1>7. Documents' = Documents \ {i} /\ Rows' = Rows
    BY <1>1, <1>4, <1>6 DEF Documents, Rows, HasRow, Active, IsDocument
  <1>8. Cardinality(Documents') = Cardinality(Documents) - 1
    BY <1>7, FiniteRows, FS_RemoveElement DEF IInv
  <1>9. QuotaCounts'
    BY <1>5, <1>7, <1>8 DEF IInv, QuotaCounts
  <1>10. QED
    BY <1>2, <1>3, <1>4, <1>5, <1>9

\* A janitor batch: as many physical slots given back as rows removed.
LEMMA PurgeStep ==
  ASSUME IInv, NEW batch, NEW rows, NEW keys, PurgeDue(batch, rows, keys)
  PROVE  /\ Ids \subseteq Ids' /\ \A j \in Ids : RowStep(j)
         /\ objects' \in Seq(Object) /\ DOMAIN versions' = Ids'
         /\ \A j \in Ids' : TypedRows(versions'[j])
         /\ quota' \in [bytes: 0..MaxScopeBytes, documents: 0..MaxDocuments,
                        physical: 0..MaxPhysicalObjects]
         /\ HistoryShape' /\ QuotaCounts'
  <1>1. /\ batch \subseteq DueObjects /\ batch \subseteq Ids
        /\ rows \subseteq UNION {{i} \X DueVersions(i) : i \in Ids \ batch}
    BY DEF PurgeDue, Batches, DueObjects
  <1>2. /\ objects' = [i \in Ids |-> IF i \in batch THEN Purged(objects[i]) ELSE objects[i]]
        /\ versions' = [i \in Ids |->
             [v \in {u \in DOMAIN versions[i] : i \notin batch /\ <<i, u>> \notin rows} |->
                versions[i][v]]]
    BY DEF PurgeDue
  <1>3. ASSUME NEW j \in Ids PROVE RowStep(j)
    <2>1. CASE j \in batch
      <3>1. Emptied(j)
        BY <1>1, <1>2, <2>1 DEF Emptied, Removed
      <3>2. QED
        BY <3>1 DEF RowStep
    <2>2. CASE j \notin batch
      <3>1. \A v : <<j, v>> \in rows => v \in DueVersions(j)
        BY <1>1
      <3>2. Trimmed(j)
        BY <1>2, <2>2, <3>1 DEF Trimmed
      <3>3. QED
        BY <3>2 DEF RowStep
    <2>3. QED
      BY <2>1, <2>2
  <1>4. DOMAIN objects' = Ids /\ DOMAIN versions' = Ids /\ objects' = [j \in Ids |-> objects'[j]]
    BY <1>2
  <1>5. /\ objects' \in Seq(Object) /\ Ids' = Ids /\ HistoryShape'
        /\ \A j \in Ids' : TypedRows(versions'[j])
    BY <1>3, <1>4, StepKeepsShape
  <1>6. IsFiniteSet(batch) /\ Cardinality(batch) \in Nat
    BY <1>1, FiniteRows, FS_Subset, FS_CardinalityType DEF IInv
  <1>7. /\ quota' \in [bytes: 0..MaxScopeBytes, documents: 0..MaxDocuments,
                       physical: 0..MaxPhysicalObjects]
        /\ quota'.documents = quota.documents
        /\ quota'.physical = quota.physical - Cardinality(batch)
    <2>1. /\ quota' = [quota EXCEPT !.physical = quota.physical - Cardinality(batch)]
          /\ quota.physical >= Cardinality(batch)
          /\ quota \in [bytes: 0..MaxScopeBytes, documents: 0..MaxDocuments,
                        physical: 0..MaxPhysicalObjects]
          /\ MaxPhysicalObjects \in Nat
      BY ConfigAssumption DEF PurgeDue, IInv, TypeOK, Positive
    <2>2. quota.physical - Cardinality(batch) \in 0..MaxPhysicalObjects
      BY <1>6, <2>1
    <2>3. QED
      BY <2>1, <2>2
  <1>8. \A j \in batch : /\ objects[j].lifecycle = "deleted"
                         /\ objects'[j].lifecycle = "purged"
    <2>1. \A j \in batch : objects[j] \in Object /\ now \in Positive
      BY <1>1 DEF IInv, TypeOK, Ids
    <2>2. \A j \in batch : Purged(objects[j]).lifecycle = "purged"
      BY <2>1, RowChanges, 0 \in Nat
    <2>3. QED
      BY <1>1, <1>2, <2>2 DEF DueObjects
  <1>9. \A j \in Ids \ batch : objects'[j] = objects[j]
    BY <1>2
  <1>10. Documents' = Documents /\ Rows' = Rows \ batch /\ batch \subseteq Rows
    BY <1>1, <1>5, <1>8, <1>9 DEF Documents, Rows, HasRow, Active, IsDocument
  <1>11. Cardinality(Rows \ batch) = Cardinality(Rows) - Cardinality(batch)
    <2>1. Rows \cap batch = batch
      BY <1>10
    <2>2. QED
      BY <1>6, <2>1, FiniteRows, FS_Difference DEF IInv
  <1>12. QuotaCounts'
    BY <1>7, <1>10, <1>11 DEF IInv, QuotaCounts
  <1>13. QED
    BY <1>3, <1>4, <1>5, <1>7, <1>12

---------------------------------------------------------------------------
(* Idempotency records.                                                    *)

\* A commit under a free key leaves every key's record exact.
LEMMA KeysApplied ==
  ASSUME TypeOK, KeyRecords, NEW key \in Keys, KeyFree(key), StoreIdempotency(key),
         UNCHANGED now
  PROVE  /\ expiry' \in [Keys -> Nat] /\ appliedAt' \in [Keys -> Nat] /\ KeyRecords'
         /\ \A k \in Keys : KeyStep(k)
  <1>1. /\ expiry \in [Keys -> Nat] /\ appliedAt \in [Keys -> Nat]
        /\ now \in Nat /\ now # 0 /\ Ttl \in Nat
    BY ConfigAssumption DEF TypeOK, Positive
  <1>2. /\ expiry' = [expiry EXCEPT ![key] = now + Ttl]
        /\ appliedAt' = [appliedAt EXCEPT ![key] = now]
    BY DEF StoreIdempotency
  <1>3. ASSUME NEW k \in Keys
        PROVE KeyStep(k) /\ KeyRecord(expiry'[k], appliedAt'[k], now')
    <2>1. KeyRecord(expiry[k], appliedAt[k], now)
      BY DEF KeyRecords
    <2>2. CASE k = key
      BY <1>1, <1>2, <2>1, <2>2 DEF KeyRecord, KeyStep, KeyFree, NULL
    <2>3. CASE k # key
      BY <1>1, <1>2, <2>1, <2>3 DEF KeyStep
    <2>4. QED
      BY <2>2, <2>3
  <1>4. QED
    BY <1>1, <1>2, <1>3 DEF KeyRecords

\* So do the removal of expired records and the passing of time.
LEMMA KeysRemoved ==
  ASSUME TypeOK, KeyRecords, NEW keys \in SUBSET DueKeys, UNCHANGED <<appliedAt, now>>,
         expiry' = [key \in Keys |-> IF key \in keys THEN NULL ELSE expiry[key]]
  PROVE  /\ expiry' \in [Keys -> Nat] /\ appliedAt' \in [Keys -> Nat] /\ KeyRecords'
         /\ \A k \in Keys : KeyStep(k)
  <1>1. /\ expiry \in [Keys -> Nat] /\ appliedAt \in [Keys -> Nat]
        /\ now \in Nat /\ Ttl \in Nat
    BY ConfigAssumption DEF TypeOK, Positive
  <1>2. expiry' \in [Keys -> Nat]
    BY <1>1 DEF NULL
  <1>3. ASSUME NEW k \in Keys PROVE KeyRecord(expiry'[k], appliedAt'[k], now')
    <2>1. KeyRecord(expiry[k], appliedAt[k], now)
      BY DEF KeyRecords
    <2>2. CASE k \in keys
      <3>1. expiry[k] # NULL /\ expiry[k] <= now
        BY <2>2 DEF DueKeys, Due
      <3>2. QED
        BY <1>1, <2>1, <2>2, <3>1 DEF KeyRecord, NULL
    <2>3. CASE k \notin keys
      BY <2>1, <2>3
    <2>4. QED
      BY <2>2, <2>3
  <1>4. QED
    BY <1>1, <1>2, <1>3 DEF KeyRecords, KeyStep

---------------------------------------------------------------------------
(* The inductive invariant and what every step does.                       *)

\* The empty scope satisfies the inductive invariant.
LEMMA InitInv == ASSUME Init PROVE IInv
  <1>1. objects = <<>> /\ versions = <<>> /\ Ids = {}
    BY DEF Init, Ids
  <1>2. TypeOK
    <2>1. DOMAIN versions = {} /\ objects \in Seq(Object)
      BY <1>1
    <2>2. /\ quota \in [bytes: 0..MaxScopeBytes, documents: 0..MaxDocuments,
                        physical: 0..MaxPhysicalObjects]
          /\ expiry \in [Keys -> Nat] /\ appliedAt \in [Keys -> Nat] /\ now \in Positive
      BY ConfigAssumption DEF Init, Positive, NULL
    <2>3. QED
      BY <1>1, <2>1, <2>2 DEF TypeOK
  <1>3. HistoryShape
    BY <1>1 DEF HistoryShape, Rows
  <1>4. QuotaCounts
    <2>1. Documents = {} /\ Rows = {}
      BY <1>1 DEF Documents, Rows
    <2>2. QED
      BY <2>1, FS_EmptySet DEF Init, QuotaCounts
  <1>5. KeyRecords
    BY DEF Init, KeyRecords, KeyRecord, NULL
  <1>6. QED
    BY <1>2, <1>3, <1>4, <1>5 DEF IInv

\* Every step keeps the inductive invariant and changes each old row in one of four ways.
LEMMA NextStep ==
  ASSUME IInv, [Next]_vars
  PROVE  /\ IInv' /\ now <= now' /\ Ids \subseteq Ids'
         /\ \A i \in Ids : RowStep(i)
         /\ \A key \in Keys : KeyStep(key)
  <1>1. TypeOK /\ KeyRecords /\ now \in Nat /\ now \in Positive
    BY DEF IInv, TypeOK, Positive
  <1>2. ASSUME NEW path \in Paths, NEW body \in Inputs, NEW key \in Keys,
               Create(path, body, key)
        PROVE  IInv' /\ Ids \subseteq Ids' /\ (\A i \in Ids : RowStep(i))
               /\ \A k \in Keys : KeyStep(k)
    <2>1. PICK depth \in 0..Len(path), parents \in SUBSET Directories :
            Insert(path, depth, parents, body)
      <3>1. Len(path) \in Nat
        BY PathsAssumption
      <3>2. CASE Root = {} /\ Insert(path, 0, {}, body)
        BY <3>1, <3>2
      <3>3. CASE \E depth \in 1..Len(path), parent \in Directories :
                   Extendable(path, depth, parent) /\ Insert(path, depth, {parent}, body)
        <4>1. PICK depth \in 1..Len(path), parent \in Directories :
                Insert(path, depth, {parent}, body)
          BY <3>3
        <4>2. depth \in 0..Len(path) /\ {parent} \in SUBSET Directories
          BY <3>1
        <4>3. QED
          BY <4>1, <4>2
      <3>4. QED
        BY <1>2, <3>2, <3>3 DEF Create
    <2>2. KeyFree(key) /\ StoreIdempotency(key) /\ UNCHANGED now
      BY <1>2 DEF Create
    <2>3. QED
      BY <1>1, <2>1, <2>2, InsertStep, KeysApplied DEF IInv, TypeOK
  <1>3. ASSUME NEW path \in Paths, NEW expected \in 1..VersionBound, NEW key \in Keys,
               Mutate(path, expected, key)
        PROVE  IInv' /\ Ids \subseteq Ids' /\ (\A i \in Ids : RowStep(i))
               /\ \A k \in Keys : KeyStep(k)
    <2>1. KeyFree(key) /\ StoreIdempotency(key) /\ UNCHANGED now
      BY <1>3 DEF Mutate
    <2>2. PICK i \in DocumentOf(path) :
            \/ \E body : ReplaceDocument(i, body)
            \/ \E parent \in ParentOf(path) : Delete(i, parent, Last(path))
      BY <1>3 DEF Mutate, Replace, AppendText, Edit
    <2>3. i \in Documents /\ ParentOf(path) \subseteq Directories
      BY DEF DocumentOf, ParentOf
    <2>4. Last(path) \in Names
      BY PathsAssumption DEF Last
    <2>5. QED
      BY <1>1, <2>1, <2>2, <2>3, <2>4, ReplaceStep, DeleteStep, KeysApplied DEF IInv, TypeOK
  <1>4. ASSUME NEW batch, NEW rows, NEW keys, PurgeDue(batch, rows, keys)
        PROVE  IInv' /\ Ids \subseteq Ids' /\ (\A i \in Ids : RowStep(i))
               /\ \A k \in Keys : KeyStep(k)
    <2>1. /\ keys \in SUBSET DueKeys /\ UNCHANGED <<appliedAt, now>>
          /\ expiry' = [key \in Keys |-> IF key \in keys THEN NULL ELSE expiry[key]]
      BY <1>4 DEF PurgeDue, Batches
    <2>2. QED
      BY <1>1, <1>4, <2>1, PurgeStep, KeysRemoved DEF IInv, TypeOK
  <1>5. ASSUME UNCHANGED <<objects, versions, quota, expiry, appliedAt>>,
               now' \in Positive, now <= now'
        PROVE  IInv' /\ Ids \subseteq Ids' /\ (\A i \in Ids : RowStep(i))
               /\ \A k \in Keys : KeyStep(k)
    <2>1. \A i \in Ids : RowStep(i)
      BY <1>5 DEF RowStep, Trimmed
    <2>2. Ids' = Ids /\ Rows' = Rows /\ Documents' = Documents
      BY <1>5 DEF Ids, Rows, HasRow, Documents, Active, IsDocument
    <2>3. TypeOK'
      BY <1>1, <1>5, <2>2 DEF TypeOK
    <2>4. HistoryShape' /\ QuotaCounts'
      BY <1>5, <2>2 DEF IInv, HistoryShape, QuotaCounts
    <2>5. KeyRecords'
      BY <1>1, <1>5, ConfigAssumption DEF TypeOK, KeyRecords, KeyRecord, Positive
    <2>6. QED
      BY <1>5, <2>1, <2>2, <2>3, <2>4, <2>5 DEF IInv, KeyStep
  <1>6. CASE UNCHANGED vars
    BY <1>1, <1>5, <1>6 DEF vars
  <1>7. CASE Tick
    <2>1. now' = now + 1 /\ UNCHANGED <<objects, versions, quota, expiry, appliedAt>>
      BY <1>7 DEF Tick
    <2>2. now' \in Positive /\ now <= now'
      BY <1>1, <2>1 DEF Positive
    <2>3. QED
      BY <1>5, <2>1, <2>2
  <1>8. now <= now'
    <2>1. \A path, body, key : Create(path, body, key) => now' = now
      BY DEF Create
    <2>2. \A path, expected, key : Mutate(path, expected, key) => now' = now
      BY DEF Mutate
    <2>3. \A batch, rows, keys : PurgeDue(batch, rows, keys) => now' = now
      BY DEF PurgeDue
    <2>4. UNCHANGED vars => now' = now
      BY DEF vars
    <2>5. Tick => now' = now + 1
      BY DEF Tick
    <2>6. now' = now \/ now' = now + 1
      BY <2>1, <2>2, <2>3, <2>4, <2>5 DEF Next, Replay, Refuse
    <2>7. QED
      BY <1>1, <2>6
  <1>9. QED
    BY <1>2, <1>3, <1>4, <1>6, <1>7, <1>8 DEF Next, Replay, Refuse

---------------------------------------------------------------------------
(* History.                                                                *)

\* None of the four ways makes an unavailable version available.
LEMMA NeverReturnsStep ==
  ASSUME IInv, now <= now', NEW i \in Ids, RowStep(i),
         NEW v \in 1..objects[i].version, ~Available(i, v), now' \in Positive
  PROVE  ~Available(i, v)'
  <1>1. /\ objects[i] \in Object /\ objects[i].version \in Positive
        /\ TypedRows(versions[i]) /\ now \in Positive
    <2>1. objects[i] \in Object /\ TypedRows(versions[i]) /\ now \in Positive
      BY DEF IInv, TypeOK, Ids
    <2>2. QED
      BY <2>1 DEF Object
  <1>2. HasRow(i) => WellShaped(objects[i].version, versions[i])
    BY DEF IInv, HistoryShape, Rows
  <1>3. objects'[i].lifecycle = "active" => Active(i)
    BY RowStepKeepsShape
  <1>4. CASE Advanced(i)
    <2>1. PICK body : versions'[i] = Advance(versions[i], objects[i].version, body)
      BY <1>4 DEF Advanced
    <2>2. PICK bytes \in Nat : objects'[i] = Revised(objects[i], bytes)
      BY <1>4 DEF Advanced
    <2>3. objects'[i].version = objects[i].version + 1
      BY <1>1, <2>2, RowChanges
    <2>4. Active(i) /\ WellShaped(objects[i].version, versions[i])
      BY <1>2, <1>4 DEF Advanced, Active, HasRow
    <2>5. v # objects[i].version
      BY <1>1, <2>4 DEF Available, WellShaped
    <2>6. CASE v \notin DOMAIN versions[i]
      <3>1. v \notin DOMAIN versions'[i]
        <4>1. DOMAIN versions'[i] \subseteq DOMAIN versions[i] \cup {objects[i].version + 1}
          BY <2>1 DEF Advance, Supersede, InsertVersion
        <4>2. v # objects[i].version + 1
          BY <1>1 DEF Positive
        <4>3. QED
          BY <2>6, <4>1, <4>2
      <3>2. QED
        BY <3>1 DEF Available
    <2>7. CASE v \in DOMAIN versions[i]
      <3>1. ~(versions[i][v].purgeAfter > now) /\ versions[i][v].purgeAfter \in Nat
        BY <1>1, <2>4, <2>7 DEF Available, TypedRows
      <3>2. v \in DOMAIN versions'[i] => versions'[i][v] = versions[i][v]
        <4>1. v # objects[i].version + 1
          BY <1>1 DEF Positive
        <4>2. PICK rows : rows = InsertVersion(versions[i], objects[i].version + 1, body)
          OBVIOUS
        <4>3. v \in DOMAIN rows => rows[v] = versions[i][v]
          BY <4>1, <4>2 DEF InsertVersion
        <4>4. versions'[i] = Supersede(rows, objects[i].version)
          BY <2>1, <4>2 DEF Advance
        <4>5. QED
          BY <2>5, <4>3, <4>4 DEF Supersede
      <3>3. QED
        BY <1>1, <2>3, <3>1, <3>2 DEF Available, Positive
    <2>8. QED
      BY <2>6, <2>7
  <1>5. CASE Tombstoned(i)
    <2>1. objects'[i].lifecycle = "deleted"
      BY <1>1, <1>5, RowChanges, 0 \in Nat DEF Tombstoned
    <2>2. QED
      BY <2>1 DEF Available, Active
  <1>6. CASE Emptied(i)
    BY <1>6 DEF Emptied, Available
  <1>7. CASE Trimmed(i)
    <2>1. /\ objects'[i] = objects[i] /\ DOMAIN versions'[i] \subseteq DOMAIN versions[i]
          /\ \A u \in DOMAIN versions'[i] : versions'[i][u] = versions[i][u]
      BY <1>7 DEF Trimmed
    <2>2. QED
      BY <1>1, <2>1 DEF Available, Active, TypedRows, Positive
  <1>8. QED
    BY <1>4, <1>5, <1>6, <1>7 DEF RowStep

\* None of them drops a version row before its time.
LEMMA LossStep ==
  ASSUME IInv, NEW i \in Ids, RowStep(i), NEW v \in DOMAIN versions[i] \ DOMAIN versions'[i]
  PROVE  \/ v <= objects'[i].version - MaxVersions
         \/ v # objects[i].version /\ versions[i][v].purgeAfter \in 1..now
         \/ objects[i].lifecycle = "deleted" /\ objects[i].purgeAfter \in 1..now
  <1>1. objects[i] \in Object /\ objects[i].version \in Positive /\ now \in Positive
    <2>1. objects[i] \in Object /\ now \in Positive
      BY DEF IInv, TypeOK, Ids
    <2>2. QED
      BY <2>1 DEF Object
  <1>2. CASE Advanced(i)
    <2>1. PICK body : versions'[i] = Advance(versions[i], objects[i].version, body)
      BY <1>2 DEF Advanced
    <2>2. PICK bytes \in Nat : objects'[i] = Revised(objects[i], bytes)
      BY <1>2 DEF Advanced
    <2>3. objects'[i].version = objects[i].version + 1
      BY <1>1, <2>2, RowChanges
    <2>4. v = (objects[i].version + 1) - MaxVersions
      <3>1. DOMAIN versions'[i] = (DOMAIN versions[i] \cup {objects[i].version + 1})
                                    \ {(objects[i].version + 1) - MaxVersions}
        BY <2>1 DEF Advance, Supersede, InsertVersion
      <3>2. v \in DOMAIN versions[i] /\ v \notin DOMAIN versions'[i]
        OBVIOUS
      <3>3. v \in {(objects[i].version + 1) - MaxVersions}
        BY <3>1, <3>2
      <3>4. QED
        BY <3>3
    <2>5. QED
      BY <1>1, <2>3, <2>4, ConfigAssumption DEF Positive
  <1>3. CASE v \in DueVersions(i)
    <2>1. versions[i][v].purgeAfter \in Nat /\ now \in Nat
      BY DEF IInv, TypeOK, TypedRows, Positive
    <2>2. QED
      BY <1>3, <2>1 DEF DueVersions, Due, NULL
  <1>4. CASE i \in DueObjects
    BY <1>1, <1>4 DEF DueObjects, Due, Object, Positive, NULL
  <1>5. QED
    BY <1>2, <1>3, <1>4 DEF RowStep, Tombstoned, Emptied, Removed, Trimmed

---------------------------------------------------------------------------
(* Theorems.                                                               *)

\* The inductive invariant holds of every reachable state of the store.
THEOREM Inductive == Spec => []IInv
  BY InitInv, NextStep, PTL DEF Spec

\* The tables, the quota row and the clocks keep their types under every
\* sequence of mutations, janitor batches and ticks.
THEOREM TypeCorrect == Spec => []TypeOK
  <1>1. IInv => TypeOK
    BY DEF IInv
  <1>2. QED
    BY <1>1, Inductive, PTL

\* The current version row of an object is never pruned nor purged, and it is
\* the only one without a retention deadline.
THEOREM HistoryWellShaped == Spec => []HistoryShape
  <1>1. IInv => HistoryShape
    BY DEF IInv
  <1>2. QED
    BY <1>1, Inductive, PTL

\* The quota row's counters are the numbers of documents and of object rows.
THEOREM QuotaExact == Spec => []QuotaCounts
  <1>1. IInv => QuotaCounts
    BY DEF IInv
  <1>2. QED
    BY <1>1, Inductive, PTL

\* An idempotency record ends exactly Ttl after the commit it stands for.
THEOREM KeyRecordsExact == Spec => []KeyRecords
  <1>1. IInv => KeyRecords
    BY DEF IInv
  <1>2. QED
    BY <1>1, Inductive, PTL

\* Under one idempotency key two mutations commit at least Ttl apart.
THEOREM KeysApplyOnce == Spec => KeyAppliesOncePerTtl
  <1>1. IInv /\ [Next]_vars =>
          [\A key \in Keys : appliedAt'[key] # appliedAt[key] =>
             appliedAt[key] = NULL \/ appliedAt[key] + Ttl <= now]_vars
    BY NextStep DEF KeyStep
  <1>2. QED
    BY <1>1, Inductive, PTL DEF Spec, KeyAppliesOncePerTtl

\* A version that a reader can no longer get never comes back.
THEOREM HistoryMonotone == Spec => HistoryNeverReturns
  <1>1. IInv /\ [Next]_vars =>
          [\A i \in Ids : \A v \in 1..objects[i].version :
             ~Available(i, v) => ~Available(i, v)']_vars
    <2> SUFFICES ASSUME IInv, [Next]_vars, NEW i \in Ids, NEW v \in 1..objects[i].version,
                        ~Available(i, v)
                 PROVE  ~Available(i, v)'
      OBVIOUS
    <2>1. RowStep(i) /\ now <= now' /\ now' \in Positive
      BY NextStep DEF IInv, TypeOK
    <2>2. QED
      BY <2>1, NeverReturnsStep
  <1>2. QED
    BY <1>1, Inductive, PTL DEF Spec, HistoryNeverReturns

\* A version row is only lost to the ceiling or to a deadline that has passed.
THEOREM NothingIsLostEarly == Spec => NothingLostEarly
  <1>1. IInv /\ [Next]_vars =>
          [\A i \in Ids : \A v \in DOMAIN versions[i] \ DOMAIN versions'[i] :
             \/ v <= objects'[i].version - MaxVersions
             \/ v # objects[i].version /\ versions[i][v].purgeAfter \in 1..now
             \/ objects[i].lifecycle = "deleted" /\ objects[i].purgeAfter \in 1..now]_vars
    BY NextStep, LossStep
  <1>2. QED
    BY <1>1, Inductive, PTL DEF Spec, NothingLostEarly
=============================================================================
