------------------------------ MODULE MemoryImport ------------------------------
(***************************************************************************)
(* MemoryService.import_markdown_tree over the store's rate limiter.  An   *)
(* import writes its documents one transaction after the other, each under *)
(* a key that its namespace and path give, and stops at the first that     *)
(* fails; its client runs it again, and an attempt whose client has gone   *)
(* may still be under way.  Every operation of the scope, those of others  *)
(* too, first increments the bucket of its window in a transaction of its  *)
(* own, by a clock it has read before.  The janitor removes what expired.  *)
(*                                                                         *)
(* Documents are numbered in the order of their paths; time is counted in  *)
(* ticks, Second of them to a second.                                      *)
(***************************************************************************)
EXTENDS Integers, Sequences

CONSTANTS Documents, Attempts, Others, \* an operation each
          Limit, Window, Second, Ttl,
          MaxDelay, \* from reading the clock to the increment
          None,
          MaxTime   \* bound of the model

VARIABLES
  now,
  bucket,   \* operation_count by bucket_started_at; 0 where there is no row
  admitted, \* operations let through, by the window of their clock
  op,       \* the operation of each caller: its stage and the clock it read
  next,     \* the document each attempt is at
  docs,     \* who created the document that stands at a path
  key,      \* expires_at of the idempotency records of the import's namespace
  created   \* when the import has created each document

vars == <<now, bucket, admitted, op, next, docs, key, created>>

ASSUME TimeAssumption ==
  /\ {Documents, Limit, Window, Second, Ttl, MaxTime} \subseteq Nat \ {0}
  /\ MaxDelay \in Nat /\ Second + MaxDelay <= Window
  /\ None \notin Nat

Callers == Attempts \cup Others
Paths == 1 .. Documents
Clock == 0 .. MaxTime
WindowOf(t) == t \div Window

\* _increment_rate: the start of the window, in whole seconds.
Bucket(t) == ((WindowOf(t) * Window) \div Second) * Second

\* Mutant: a bucket lasts as long as its window.
ExpiryOneWindow(start) == start + Window

Expiry(start) == start + 2 * Window

Stages == {"idle", "clock", "count", "act", "done", "failed"}

\* Type invariant.
TypeOK ==
  /\ now \in Clock
  /\ bucket \in [Clock -> Nat] /\ admitted \in [Clock -> Nat]
  /\ op \in [Callers -> [stage : Stages, read : Clock]]
  /\ next \in [Attempts -> 1 .. Documents + 1]
  /\ docs \in [Paths -> {None, "import", "other"}]
  /\ key \in [Paths -> {None} \cup Nat]
  /\ created \in [Paths -> Seq(Clock)]

Init ==
  /\ now = 0
  /\ bucket = [s \in Clock |-> 0] /\ admitted = [w \in Clock |-> 0]
  /\ op = [c \in Callers |-> [stage |-> "idle", read |-> 0]]
  /\ next = [a \in Attempts |-> 1]
  /\ docs \in [Paths -> {None, "other"}]
  /\ key = [i \in Paths |-> None]
  /\ created = [i \in Paths |-> <<>>]

-----------------------------------------------------------------------------
(* Every operation. *)

Goes(c, from, to) ==
  /\ op[c].stage = from
  /\ op' = [op EXCEPT ![c] = [stage |-> to, read |-> 0]]

Begin(c) ==
  /\ Goes(c, "idle", "clock")
  /\ UNCHANGED <<now, bucket, admitted, next, docs, key, created>>

ReadClock(c) ==
  /\ op[c].stage = "clock"
  /\ op' = [op EXCEPT ![c] = [stage |-> "count", read |-> now]]
  /\ UNCHANGED <<now, bucket, admitted, next, docs, key, created>>

\* Rejected operations have counted, too.
Count(c) ==
  LET start == Bucket(op[c].read)
      window == WindowOf(op[c].read)
      count == bucket[start] + 1
  IN
  /\ bucket' = [bucket EXCEPT ![start] = count]
  /\ \/ /\ count <= Limit
        /\ Goes(c, "count", "act")
        /\ admitted' = [admitted EXCEPT ![window] = @ + 1]
     \/ /\ count > Limit
        /\ Goes(c, "count", "failed")
        /\ UNCHANGED admitted
  /\ UNCHANGED <<now, next, docs, key, created>>

\* A process dies, or what it does fails otherwise, with its transaction rolled back.
Fail(c) ==
  /\ op[c].stage \notin {"idle", "done", "failed"}
  /\ op' = [op EXCEPT ![c] = [stage |-> "failed", read |-> 0]]
  /\ UNCHANGED <<now, bucket, admitted, next, docs, key, created>>

-----------------------------------------------------------------------------
(* The import. *)

\* Mutant: the key of each attempt is its own.
ReplaysNever(i) == FALSE

Replays(i) == key[i] # None /\ now < key[i]

\* The document is done with: the next one, or the end.
Onward(a) ==
  /\ next' = [next EXCEPT ![a] = @ + 1]
  /\ Goes(a, "act", IF next[a] = Documents THEN "done" ELSE "clock")

Replay(a) ==
  /\ op[a].stage = "act" /\ Replays(next[a])
  /\ Onward(a)
  /\ UNCHANGED <<now, bucket, admitted, docs, key, created>>

Create(a) ==
  LET i == next[a] IN
  /\ op[a].stage = "act" /\ ~Replays(i) /\ docs[i] = None
  /\ docs' = [docs EXCEPT ![i] = "import"]
  /\ key' = [key EXCEPT ![i] = now + Ttl]
  /\ created' = [created EXCEPT ![i] = Append(@, now)]
  /\ Onward(a)
  /\ UNCHANGED <<now, bucket, admitted>>

\* Mutant: a document that is there already is left and passed over.
ConflictIgnored(a) ==
  /\ op[a].stage = "act" /\ ~Replays(next[a]) /\ docs[next[a]] # None
  /\ Onward(a)
  /\ UNCHANGED <<now, bucket, admitted, docs, key, created>>

\* expected_version is None: a document that is there stops the import.
Conflict(a) ==
  /\ op[a].stage = "act" /\ ~Replays(next[a]) /\ docs[next[a]] # None
  /\ Goes(a, "act", "failed")
  /\ UNCHANGED <<now, bucket, admitted, next, docs, key, created>>

-----------------------------------------------------------------------------
(* Others, the janitor and time. *)

\* An operation of others: a creation or a deletion, or one that changes no document.
OtherActs(o) ==
  /\ Goes(o, "act", "done")
  /\ \/ \E i \in Paths :
          docs' = [docs EXCEPT ![i] = IF docs[i] = None THEN "other" ELSE None]
     \/ UNCHANGED docs
  /\ UNCHANGED <<now, bucket, admitted, next, key, created>>

SweepBucket(start) ==
  /\ bucket[start] > 0 /\ Expiry(start) <= now
  /\ bucket' = [bucket EXCEPT ![start] = 0]
  /\ UNCHANGED <<now, admitted, op, next, docs, key, created>>

SweepKey(i) ==
  /\ key[i] # None /\ key[i] <= now
  /\ key' = [key EXCEPT ![i] = None]
  /\ UNCHANGED <<now, bucket, admitted, op, next, docs, created>>

Tick ==
  /\ now < MaxTime
  /\ \A c \in Callers : op[c].stage = "count" => now < op[c].read + MaxDelay
  /\ now' = now + 1
  /\ UNCHANGED <<bucket, admitted, op, next, docs, key, created>>

Next ==
  \/ \E c \in Callers : Begin(c) \/ ReadClock(c) \/ Count(c) \/ Fail(c)
  \/ \E a \in Attempts : Replay(a) \/ Create(a) \/ Conflict(a)
  \/ \E o \in Others : OtherActs(o)
  \/ \E start \in Clock : SweepBucket(start)
  \/ \E i \in Paths : SweepKey(i)
  \/ Tick

Spec == Init /\ [][Next]_vars

-----------------------------------------------------------------------------
\* In no window more operations are let through than the limit, however they overlap and
\* whatever the janitor removes in between.
RateIsBounded == \A w \in Clock : admitted[w] <= Limit

\* An import that is run again, or twice at once, creates no document twice while its
\* records last, be it deleted in between.
ImportedOnce ==
  \A i \in Paths : \A j \in 1 .. Len(created[i]) - 1 :
    created[i][j + 1] >= created[i][j] + Ttl

\* What an interrupted import leaves are its first documents, and an import that succeeds
\* has created all of them itself: none is another's that was there.
ImportedInOrder ==
  /\ \A a \in Attempts, i \in Paths : i < next[a] => created[i] # <<>>
  /\ \A i, j \in Paths : j < i /\ created[i] # <<>> => created[j] # <<>>

=============================================================================
