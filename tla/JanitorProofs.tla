----------------------------- MODULE JanitorProofs -----------------------------
(***************************************************************************)
(* No slot is given back twice and none is lost, for any number of jobs,   *)
(* scopes and objects.  What carries it is that a selected row is locked   *)
(* by the one job that has it in its transaction and stays "deleted" until *)
(* that job commits.                                                       *)
(***************************************************************************)
EXTENDS Janitor, FiniteSetTheorems, TLAPS

IInv == TypeOK /\ SlotsAreExact /\ RowsHeldOnce

\* Before the first mutation every slot count is zero and nothing is locked.
LEMMA InitInv == ASSUME Init PROVE IInv
  <1>1. TypeOK
    BY JanitorAssumption DEF Init, TypeOK, States, Rested
  <1>2. SlotsAreExact
    <2>1. \A s \in Scopes : Counted(s) = {}
      BY DEF Init, Counted
    <2>2. QED
      BY <2>1, FS_EmptySet DEF Init, SlotsAreExact
  <1>3. \A j \in Jobs : Held(j)
    BY DEF Init, Held, Taken, Rested
  <1>4. QED
    BY <1>1, <1>2, <1>3 DEF IInv, RowsHeldOnce

\* The rows charged to a scope can be counted.
LEMMA CountedFinite ==
  ASSUME NEW s \in Scopes
  PROVE  IsFiniteSet(Counted(s)) /\ Cardinality(Counted(s)) \in Nat
  <1>1. Counted(s) \subseteq Objects
    BY DEF Counted
  <1>2. QED
    BY <1>1, JanitorAssumption, FS_Subset, FS_CardinalityType

\* Rows that stay counted or uncounted keep the slots exact.
LEMMA SameCount ==
  ASSUME SlotsAreExact, UNCHANGED physical,
         \A o \in Objects :
           row'[o] \in {"active", "deleted"} <=> row[o] \in {"active", "deleted"}
  PROVE  SlotsAreExact'
  <1>1. \A s \in Scopes : Counted(s)' = Counted(s)
    BY DEF Counted
  <1>2. QED
    BY <1>1 DEF SlotsAreExact

\* The end of a transaction frees only what it had locked.
LEMMA ReleaseStep ==
  ASSUME TypeOK, NEW j \in Jobs, Release(j)
  PROVE  /\ rowLock' \in [Objects -> Jobs \cup {Nobody}]
         /\ quotaLock' \in [Scopes -> Jobs \cup Scopes \cup {Nobody}]
         /\ job' \in [Jobs -> [at: {"idle", "purging"}, batch: SUBSET Objects,
                               removed: SUBSET Objects]]
         /\ job'[j].batch = {} /\ job'[j].removed = {}
         /\ \A k \in Jobs \ {j} : job'[k] = job[k]
         /\ \A o \in Objects : rowLock[o] # j => rowLock'[o] = rowLock[o]
  BY DEF TypeOK, Release, Rested

\* What the other jobs hold is untouched when one ends its transaction.
LEMMA HeldAfterRelease ==
  ASSUME TypeOK, NEW j \in Jobs, Release(j), \A k \in Jobs : Held(k),
         \A o \in Objects : rowLock[o] # j => row'[o] = row[o]
  PROVE  \A k \in Jobs : Held(k)'
  <1> SUFFICES ASSUME NEW k \in Jobs PROVE Held(k)'
    OBVIOUS
  <1>1. CASE k = j
    BY <1>1, ReleaseStep DEF Held, Taken
  <1>2. CASE k # j
    <2>1. job'[k] = job[k]
      BY <1>2, ReleaseStep
    <2>2. job[k].batch \subseteq Objects /\ job[k].removed \subseteq Objects
      BY DEF TypeOK
    <2>3. \A o \in Taken(k) : rowLock[o] # j /\ o \in Objects
      BY <1>2, <2>2 DEF Held, Taken
    <2>4. QED
      BY <2>1, <2>3, ReleaseStep DEF Held, Taken
  <1>3. QED
    BY <1>1, <1>2

\* A mutation changes no row that a job holds and moves the count with the row.
LEMMA MutationStep ==
  ASSUME IInv, NEW s \in Scopes, Mutation(s) PROVE IInv'
  <1>1. TypeOK /\ SlotsAreExact /\ quotaLock' \in [Scopes -> Jobs \cup Scopes \cup {Nobody}]
    BY DEF IInv, RowsHeldOnce, TypeOK, Mutation
  <1>2. ASSUME NEW o \in Objects, ScopeOf[o] = s, row[o] = "unused",
               row' = [row EXCEPT ![o] = "active"], physical' = [physical EXCEPT ![s] = @ + 1]
        PROVE  row' \in [Objects -> States] /\ physical' \in [Scopes -> Nat] /\ SlotsAreExact'
    <2>1. row' \in [Objects -> States] /\ physical' \in [Scopes -> Nat]
      BY <1>1, <1>2 DEF TypeOK, States
    <2>2. Counted(s)' = Counted(s) \cup {o} /\ o \notin Counted(s)
      BY <1>1, <1>2 DEF TypeOK, Counted
    <2>3. \A t \in Scopes \ {s} : Counted(t)' = Counted(t)
      BY <1>1, <1>2 DEF TypeOK, Counted
    <2>4. Cardinality(Counted(s)') = Cardinality(Counted(s)) + 1
      BY <2>2, CountedFinite, FS_AddElement
    <2>5. physical'[s] = physical[s] + 1 /\ \A t \in Scopes \ {s} : physical'[t] = physical[t]
      BY <1>1, <1>2 DEF TypeOK
    <2>6. QED
      BY <1>1, <2>1, <2>3, <2>4, <2>5 DEF SlotsAreExact
  <1>3. ASSUME NEW o \in Objects, row[o] = "active",
               row' = [row EXCEPT ![o] = "deleted"], UNCHANGED physical
        PROVE  row' \in [Objects -> States] /\ physical' \in [Scopes -> Nat] /\ SlotsAreExact'
    <2>1. row' \in [Objects -> States] /\ physical' \in [Scopes -> Nat]
      BY <1>1, <1>3 DEF TypeOK, States
    <2>2. \A p \in Objects :
            row'[p] \in {"active", "deleted"} <=> row[p] \in {"active", "deleted"}
      BY <1>1, <1>3 DEF TypeOK
    <2>3. QED
      BY <1>1, <1>3, <2>1, <2>2, SameCount
  <1>4. ASSUME UNCHANGED <<row, physical>>
        PROVE  row' \in [Objects -> States] /\ physical' \in [Scopes -> Nat] /\ SlotsAreExact'
    BY <1>1, <1>4, SameCount DEF TypeOK
  <1>5. row' \in [Objects -> States] /\ physical' \in [Scopes -> Nat] /\ SlotsAreExact'
    BY <1>2, <1>3, <1>4 DEF Mutation
  <1>6. \A o \in Objects : row[o] = "deleted" => row'[o] = "deleted"
    BY <1>1 DEF TypeOK, Mutation
  <1>7. \A j \in Jobs : Held(j)'
    <2>1. \A j \in Jobs : job'[j] = job[j] /\ Taken(j) \subseteq Objects
      BY <1>1 DEF TypeOK, Mutation, Taken
    <2>2. UNCHANGED rowLock
      BY DEF Mutation
    <2>3. QED
      BY <1>6, <2>1, <2>2 DEF IInv, RowsHeldOnce, Held, Taken
  <1>8. TypeOK'
    BY <1>1, <1>5 DEF TypeOK, Mutation
  <1>9. QED
    BY <1>5, <1>7, <1>8 DEF IInv, RowsHeldOnce

\* A selection takes rows that nobody holds.
LEMMA SelectStep ==
  ASSUME IInv, NEW j \in Jobs, Select(j) PROVE IInv'
  <1>1. TypeOK /\ FirstRows \subseteq Selectable /\ Selectable \subseteq Objects
    BY DEF IInv, RowsHeldOnce, FirstRows, Selectable
  <1>2. TypeOK'
    <2>1. job' \in [Jobs -> [at: {"idle", "purging"}, batch: SUBSET Objects,
                             removed: SUBSET Objects]]
      BY <1>1 DEF TypeOK, Select
    <2>2. rowLock' \in [Objects -> Jobs \cup {Nobody}]
      BY <1>1 DEF TypeOK, Select
    <2>3. QED
      BY <1>1, <2>1, <2>2 DEF TypeOK, Select
  <1>3. SlotsAreExact'
    BY SameCount DEF IInv, RowsHeldOnce, Select
  <1>4. ASSUME NEW k \in Jobs PROVE Held(k)'
    <2>1. CASE k = j
      <3>1. job'[k].batch = FirstRows /\ job'[k].removed = {}
        BY <1>1, <2>1 DEF TypeOK, Select
      <3>2. \A o \in FirstRows : rowLock'[o] = j /\ row'[o] = "deleted"
        BY <1>1 DEF Select, Selectable
      <3>3. QED
        BY <2>1, <3>1, <3>2 DEF Held, Taken
    <2>2. CASE k # j
      <3>1. job'[k] = job[k] /\ Taken(k) \subseteq Objects
        BY <1>1, <2>2 DEF TypeOK, Select, Taken
      <3>2. \A o \in Taken(k) : rowLock[o] = k /\ row[o] = "deleted"
        BY DEF IInv, RowsHeldOnce, Held
      <3>3. \A o \in Taken(k) : o \notin FirstRows
        BY <1>1, <3>2, JanitorAssumption DEF Selectable
      <3>4. \A o \in Taken(k) : rowLock'[o] = k /\ row'[o] = "deleted"
        BY <3>1, <3>2, <3>3 DEF Select
      <3>5. QED
        BY <3>1, <3>4 DEF IInv, RowsHeldOnce, Held, Taken
    <2>3. QED
      BY <2>1, <2>2
  <1>5. QED
    BY <1>2, <1>3, <1>4 DEF IInv, RowsHeldOnce

\* A removal moves a row from the batch to the removed rows of the same job.
LEMMA RemoveStep ==
  ASSUME IInv, NEW j \in Jobs, NEW o \in Objects, Remove(j, o) PROVE IInv'
  <1>1. /\ TypeOK /\ o \in job[j].batch /\ job[j].batch \subseteq Objects
        /\ job[j].removed \subseteq Objects
    BY DEF IInv, RowsHeldOnce, TypeOK, Remove, Turn
  <1>2. /\ job'[j].batch = job[j].batch \ {o} /\ job'[j].removed = job[j].removed \cup {o}
        /\ \A k \in Jobs \ {j} : job'[k] = job[k]
    BY <1>1 DEF TypeOK, Remove
  <1>3. TypeOK'
    <2>1. job' \in [Jobs -> [at: {"idle", "purging"}, batch: SUBSET Objects,
                             removed: SUBSET Objects]]
      BY <1>1 DEF TypeOK, Remove
    <2>2. quotaLock' \in [Scopes -> Jobs \cup Scopes \cup {Nobody}]
      BY <1>1 DEF TypeOK, Remove
    <2>3. QED
      BY <1>1, <2>1, <2>2 DEF TypeOK, Remove
  <1>4. SlotsAreExact'
    BY SameCount DEF IInv, RowsHeldOnce, Remove
  <1>5. ASSUME NEW k \in Jobs PROVE Held(k)'
    <2>1. Held(k) /\ UNCHANGED <<rowLock, row>>
      BY DEF IInv, RowsHeldOnce, Remove
    <2>2. CASE k = j
      BY <1>1, <1>2, <2>1, <2>2 DEF Held, Taken
    <2>3. CASE k # j
      BY <1>2, <2>1, <2>3 DEF Held, Taken
    <2>4. QED
      BY <2>2, <2>3
  <1>6. QED
    BY <1>3, <1>4, <1>5 DEF IInv, RowsHeldOnce

\* A commit takes as many slots as the job removed rows of the scope.
LEMMA CommitStep ==
  ASSUME IInv, NEW j \in Jobs, Commit(j) PROVE IInv'
  <1>1. /\ TypeOK /\ SlotsAreExact /\ Release(j) /\ job[j].removed \subseteq Objects
        /\ \A o \in job[j].removed : rowLock[o] = j /\ row[o] = "deleted"
    BY DEF IInv, RowsHeldOnce, TypeOK, Commit, Held, Taken
  <1>2. /\ row' = [o \in Objects |-> IF o \in job[j].removed THEN "gone" ELSE row[o]]
        /\ physical' = [s \in Scopes |-> physical[s] - Cardinality(Removed(j, s))]
        /\ UNCHANGED failures
    BY DEF Commit
  <1>3. ASSUME NEW s \in Scopes
        PROVE  physical'[s] \in Nat /\ physical'[s] = Cardinality(Counted(s)')
    <2>1. Removed(j, s) \subseteq Counted(s)
      BY <1>1 DEF Removed, Counted
    <2>2. Counted(s)' = Counted(s) \ Removed(j, s)
      BY <1>1, <1>2 DEF Removed, Counted
    <2>3. Counted(s) \cap Removed(j, s) = Removed(j, s)
      BY <2>1
    <2>4. Cardinality(Counted(s) \ Removed(j, s)) =
            Cardinality(Counted(s)) - Cardinality(Removed(j, s))
      BY <2>3, CountedFinite, FS_Difference
    <2>5. Cardinality(Counted(s) \ Removed(j, s)) \in Nat
      BY CountedFinite, FS_Difference, FS_CardinalityType
    <2>6. QED
      BY <1>1, <1>2, <2>2, <2>4, <2>5 DEF SlotsAreExact
  <1>4. row' \in [Objects -> States] /\ physical' \in [Scopes -> Nat]
    BY <1>1, <1>2, <1>3 DEF TypeOK, States
  <1>5. TypeOK'
    BY <1>1, <1>2, <1>4, ReleaseStep DEF TypeOK
  <1>6. \A o \in Objects : rowLock[o] # j => row'[o] = row[o]
    BY <1>1, <1>2
  <1>7. \A k \in Jobs : Held(k)'
    BY <1>1, <1>6, HeldAfterRelease DEF IInv, RowsHeldOnce
  <1>8. QED
    BY <1>3, <1>5, <1>7 DEF IInv, RowsHeldOnce, SlotsAreExact

\* Every step keeps the inductive invariant.
LEMMA NextInv == ASSUME IInv, [Next]_vars PROVE IInv'
  <1>1. ASSUME NEW s \in Scopes, LockQuota(s) PROVE IInv'
    <2>1. TypeOK'
      BY <1>1 DEF IInv, RowsHeldOnce, TypeOK, LockQuota
    <2>2. SlotsAreExact'
      BY <1>1, SameCount DEF IInv, RowsHeldOnce, LockQuota
    <2>3. QED
      BY <1>1, <2>1, <2>2 DEF IInv, RowsHeldOnce, LockQuota, Held, Taken
  <1>2. ASSUME NEW j \in Jobs, Release(j), UNCHANGED <<row, physical>>,
               failures' \in 0..MaxFailures
        PROVE  IInv'
    <2>1. TypeOK'
      BY <1>2, ReleaseStep DEF IInv, RowsHeldOnce, TypeOK
    <2>2. SlotsAreExact'
      BY <1>2, SameCount DEF IInv, RowsHeldOnce
    <2>3. \A k \in Jobs : Held(k)'
      BY <1>2, HeldAfterRelease DEF IInv, RowsHeldOnce
    <2>4. QED
      BY <2>1, <2>2, <2>3 DEF IInv, RowsHeldOnce
  <1>3. ASSUME NEW j \in Jobs, DeadlockAbort(j) PROVE IInv'
    BY <1>2, <1>3 DEF DeadlockAbort, IInv, TypeOK
  <1>4. ASSUME NEW j \in Jobs, Fail(j) PROVE IInv'
    <2>1. failures' \in 0..MaxFailures
      BY <1>4, JanitorAssumption DEF Fail, IInv, TypeOK
    <2>2. QED
      BY <1>2, <1>4, <2>1 DEF Fail
  <1>5. CASE UNCHANGED vars
    <2>1. TypeOK'
      BY <1>5 DEF IInv, RowsHeldOnce, TypeOK, vars
    <2>2. SlotsAreExact'
      BY <1>5, SameCount DEF IInv, RowsHeldOnce, vars
    <2>3. QED
      BY <1>5, <2>1, <2>2 DEF IInv, RowsHeldOnce, vars, Held, Taken
  <1>6. QED
    BY <1>1, <1>3, <1>4, <1>5, MutationStep, SelectStep, RemoveStep, CommitStep DEF Next

\* The inductive invariant holds of every reachable state of the janitor's jobs.
THEOREM Inductive == Spec => []IInv
  BY InitInv, NextInv, PTL DEF Spec

\* Rows, locks and the jobs' transactions keep their types.
THEOREM TypeCorrect == Spec => []TypeOK
  <1>1. IInv => TypeOK
    BY DEF IInv
  <1>2. QED
    BY <1>1, Inductive, PTL

\* A scope's physical_object_count is the number of its object rows, tombstones
\* included, whatever jobs overlap, deadlock, fail or commit.
THEOREM SlotsExact == Spec => []SlotsAreExact
  <1>1. IInv => SlotsAreExact
    BY DEF IInv
  <1>2. QED
    BY <1>1, Inductive, PTL

\* A selected row is in one job's transaction, locked and still deleted.
THEOREM SelectedRowsHeldOnce == Spec => []RowsHeldOnce
  <1>1. IInv => RowsHeldOnce
    BY DEF IInv
  <1>2. QED
    BY <1>1, Inductive, PTL
================================================================================
