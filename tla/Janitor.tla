-------------------------------- MODULE Janitor --------------------------------
(***************************************************************************)
(* Several host jobs running PostgresJanitor.purge_due (postgres/          *)
(* janitor.py) at once, row by row: MemoryStore takes the transaction as   *)
(* one step, here are its locks.  A job selects deleted objects FOR UPDATE *)
(* SKIP LOCKED, then for each of them deletes the row and takes one slot   *)
(* off the quota row of its scope, waiting for whoever has that row        *)
(* locked: another job, or the scope's one mutation under way.  The        *)
(* versions, records and buckets it removes afterwards are skipped when    *)
(* locked: from then on a job waits for nobody.                            *)
(*                                                                         *)
(* Objects are numbered in the order of purge_after; all have passed it    *)
(* once they are deleted.                                                  *)
(***************************************************************************)
EXTENDS Integers, FiniteSets

CONSTANTS
  Objects,      \* object rows, numbered in the order the janitor selects them
  Scopes,
  ScopeOf,      \* the scope of each object
  Jobs,         \* janitor invocations running side by side
  BatchLimit,
  MaxFailures,  \* bound of the model: transactions cut off by a lost connection
  Nobody

ASSUME JanitorAssumption ==
  /\ Objects \subseteq Nat /\ IsFiniteSet(Objects)
  /\ ScopeOf \in [Objects -> Scopes]
  /\ BatchLimit \in Nat \ {0} /\ MaxFailures \in Nat
  /\ Nobody \notin Jobs \cup Scopes /\ Jobs \cap Scopes = {}

VARIABLES
  row,          \* committed state of each object row
  physical,     \* committed physical_object_count of each scope
  rowLock,      \* the job that has selected the row
  quotaLock,    \* who has the scope's quota row locked: a job, or the scope's mutation
  job,          \* each job's transaction: rows selected and not handled, rows deleted
  failures

vars == <<row, physical, rowLock, quotaLock, job, failures>>

States == {"unused", "active", "deleted", "gone"}
Rested == [at |-> "idle", batch |-> {}, removed |-> {}]
Counted(s) == {o \in Objects : ScopeOf[o] = s /\ row[o] \in {"active", "deleted"}}

---------------------------------------------------------------------------
(* Mutations of a scope, one at a time under its advisory lock.            *)

\* _change_quota: SELECT ... FOR UPDATE of the quota row.
LockQuota(s) ==
  /\ quotaLock[s] = Nobody
  /\ quotaLock' = [quotaLock EXCEPT ![s] = s]
  /\ UNCHANGED <<row, physical, rowLock, job, failures>>

\* The mutation commits: it inserted an object, deleted one, or did neither.
Mutation(s) ==
  /\ quotaLock[s] = s
  /\ quotaLock' = [quotaLock EXCEPT ![s] = Nobody]
  /\ \/ \E o \in Objects : /\ ScopeOf[o] = s /\ row[o] = "unused"
                           /\ row' = [row EXCEPT ![o] = "active"]
                           /\ physical' = [physical EXCEPT ![s] = @ + 1]
     \/ \E o \in Objects : /\ ScopeOf[o] = s /\ row[o] = "active"
                           /\ row' = [row EXCEPT ![o] = "deleted"]
                           /\ UNCHANGED physical
     \/ UNCHANGED <<row, physical>>
  /\ UNCHANGED <<rowLock, job, failures>>

---------------------------------------------------------------------------
(* A job.                                                                  *)

\* Mutant: rows that another job has locked are not skipped.
SelectableIgnoringLocks == {o \in Objects : row[o] = "deleted"}

Selectable == {o \in Objects : row[o] = "deleted" /\ rowLock[o] = Nobody}

\* The first BatchLimit of the rows that are due and nobody has locked.
FirstRows == {o \in Selectable : Cardinality({p \in Selectable : p < o}) < BatchLimit}

\* Mutant: the limit is taken for a number of rows to wait for.
SelectFullBatch(j) ==
  /\ job[j].at = "idle" /\ Cardinality(Selectable) >= BatchLimit
  /\ job' = [job EXCEPT ![j] = [at |-> "purging", batch |-> FirstRows, removed |-> {}]]
  /\ rowLock' = [o \in Objects |-> IF o \in FirstRows THEN j ELSE rowLock[o]]
  /\ UNCHANGED <<row, physical, quotaLock, failures>>

Select(j) ==
  /\ job[j].at = "idle" /\ Selectable # {}
  /\ job' = [job EXCEPT ![j] = [at |-> "purging", batch |-> FirstRows, removed |-> {}]]
  /\ rowLock' = [o \in Objects |-> IF o \in FirstRows THEN j ELSE rowLock[o]]
  /\ UNCHANGED <<row, physical, quotaLock, failures>>

\* The row that j handles next, if one is left.
Turn(j) == {o \in job[j].batch : \A other \in job[j].batch : o <= other}

\* DELETE of the object row, then UPDATE of the scope's quota row, which needs its
\* lock.  That either statement finds no row, which raises IntegrityFailure, is
\* what RowsHeldOnce and SlotsAreExact exclude.
Remove(j, o) ==
  /\ job[j].at = "purging" /\ o \in Turn(j)
  /\ quotaLock[ScopeOf[o]] \in {Nobody, j}
  /\ job' = [job EXCEPT ![j] = [at |-> "purging", batch |-> @.batch \ {o},
                                removed |-> @.removed \cup {o}]]
  /\ quotaLock' = [quotaLock EXCEPT ![ScopeOf[o]] = j]
  /\ UNCHANGED <<row, physical, rowLock, failures>>

\* The end of j's transaction gives its locks back.
Release(j) ==
  /\ job' = [job EXCEPT ![j] = Rested]
  /\ rowLock' = [o \in Objects |-> IF rowLock[o] = j THEN Nobody ELSE rowLock[o]]
  /\ quotaLock' = [s \in Scopes |-> IF quotaLock[s] = j THEN Nobody ELSE quotaLock[s]]

Removed(j, s) == {o \in job[j].removed : ScopeOf[o] = s}

\* Mutant: one slot per scope is given back instead of one per row.
CommitOneSlotPerScope(j) ==
  /\ job[j].at = "purging" /\ job[j].batch = {}
  /\ row' = [o \in Objects |-> IF o \in job[j].removed THEN "gone" ELSE row[o]]
  /\ physical' = [s \in Scopes |-> physical[s] - (IF Removed(j, s) = {} THEN 0 ELSE 1)]
  /\ Release(j)
  /\ UNCHANGED failures

Commit(j) ==
  /\ job[j].at = "purging" /\ job[j].batch = {}
  /\ row' = [o \in Objects |-> IF o \in job[j].removed THEN "gone" ELSE row[o]]
  /\ physical' = [s \in Scopes |-> physical[s] - Cardinality(Removed(j, s))]
  /\ Release(j)
  /\ UNCHANGED failures

---------------------------------------------------------------------------
(* The database.                                                           *)

\* Jobs that wait for a quota row another of them has locked.
Circle(S) ==
  S # {} /\ \A j \in S : \E o \in Turn(j) : quotaLock[ScopeOf[o]] \in S \ {j}

\* The database breaks a circle of waits by aborting one of its transactions.
DeadlockAbort(j) ==
  /\ \E S \in SUBSET Jobs : j \in S /\ Circle(S)
  /\ Release(j)
  /\ UNCHANGED <<row, physical, failures>>

\* The job dies or loses its connection: its transaction is rolled back.
Fail(j) ==
  /\ job[j].at = "purging" /\ failures < MaxFailures
  /\ failures' = failures + 1
  /\ Release(j)
  /\ UNCHANGED <<row, physical>>

---------------------------------------------------------------------------
Init ==
  /\ row = [o \in Objects |-> "unused"]
  /\ physical = [s \in Scopes |-> 0]
  /\ rowLock = [o \in Objects |-> Nobody]
  /\ quotaLock = [s \in Scopes |-> Nobody]
  /\ job = [j \in Jobs |-> Rested]
  /\ failures = 0

Next ==
  \/ \E s \in Scopes : LockQuota(s) \/ Mutation(s)
  \/ \E j \in Jobs : \/ Select(j) \/ Commit(j) \/ DeadlockAbort(j) \/ Fail(j)
                     \/ \E o \in Objects : Remove(j, o)

\* The host scheduler starts each job again and again, a transaction goes on
\* and a circle is broken.  A lock is granted in the order of the requests, so
\* that a job waiting for a quota row is not passed over for ever: strong
\* fairness, for each row that it waits with.
Fairness ==
  /\ \A s \in Scopes : WF_vars(Mutation(s))
  /\ \A j \in Jobs : /\ WF_vars(Select(j)) /\ WF_vars(Commit(j)) /\ WF_vars(DeadlockAbort(j))
                     /\ \A o \in Objects : SF_vars(Remove(j, o))

Spec == Init /\ [][Next]_vars
FairSpec == Spec /\ Fairness

---------------------------------------------------------------------------
(* Properties.                                                             *)

TypeOK ==
  /\ row \in [Objects -> States]
  /\ physical \in [Scopes -> Nat]
  /\ rowLock \in [Objects -> Jobs \cup {Nobody}]
  /\ quotaLock \in [Scopes -> Jobs \cup Scopes \cup {Nobody}]
  /\ job \in [Jobs -> [at: {"idle", "purging"}, batch: SUBSET Objects,
                       removed: SUBSET Objects]]
  /\ failures \in 0..MaxFailures

\* Every physical slot of a scope belongs to a row, however the jobs overlap,
\* deadlock or die: none is given back twice and none is lost.
SlotsAreExact == \A s \in Scopes : physical[s] = Cardinality(Counted(s))

\* A row that a job has selected is locked by that job alone and stays deleted
\* until the job commits, so that the counts of rows its statements check hold.
Taken(j) == job[j].batch \cup job[j].removed
Held(j) ==
  /\ job[j].batch \cap job[j].removed = {}
  /\ \A o \in Taken(j) : rowLock[o] = j /\ row[o] = "deleted"
RowsHeldOnce == \A j \in Jobs : Held(j)

\* Every deleted object is removed in the end: the backlog drains.
BacklogDrains == \A o \in Objects : row[o] = "deleted" ~> row[o] = "gone"

================================================================================
