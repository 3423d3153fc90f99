--------------------------- MODULE MemoryImportProofs ---------------------------
(* The limit of operations and the import, for every limit, window and number of callers. *)
EXTENDS MemoryImport, SequenceTheorems, TLAPS

\* The bucket of a window by the window's number.
Start(w) == ((w * Window) \div Second) * Second

\* An operation increments soon after it has read the clock.
DelayInv ==
  \A c \in Callers :
    op[c].stage = "count" => op[c].read <= now /\ now <= op[c].read + MaxDelay

\* A bucket counts what its window has let through, until nobody counts in it any more.
BucketInv ==
  \A w \in Clock :
    w * Window <= MaxTime /\ now < Expiry(Start(w)) => admitted[w] <= bucket[Start(w)]

Last(s) == s[Len(s)]

\* A record stands for the last creation of its document.
KeyInv ==
  \A i \in Paths :
    /\ key[i] # None => created[i] # <<>>
    /\ created[i] # <<>> =>
         /\ Last(created[i]) <= now
         /\ now < Last(created[i]) + Ttl => key[i] = Last(created[i]) + Ttl

\* An attempt that goes on has a document to go on with.
AttemptInv ==
  \A a \in Attempts : op[a].stage \notin {"done", "failed"} => next[a] \in Paths

IInv ==
  /\ TypeOK /\ DelayInv /\ AttemptInv
  /\ BucketInv /\ RateIsBounded /\ KeyInv /\ ImportedOnce /\ ImportedInOrder

-----------------------------------------------------------------------------
\* The assumptions on the constants, as the steps need them.
LEMMA Constants ==
  /\ Documents \in Nat \ {0} /\ Limit \in Nat \ {0} /\ Window \in Nat \ {0}
  /\ Second \in Nat \ {0} /\ Ttl \in Nat \ {0} /\ MaxTime \in Nat \ {0}
  /\ MaxDelay \in Nat /\ Second + MaxDelay <= Window /\ None \notin Nat
BY TimeAssumption

\* The quotient is the greatest number whose product with the divisor is not above.
LEMMA DivBounds ==
  ASSUME NEW x \in Nat, NEW d \in Nat \ {0}
  PROVE  x \div d \in Nat /\ (x \div d) * d <= x /\ x < (x \div d) * d + d
OBVIOUS

\* The start of a window's bucket is less than a second before the window.
LEMMA StartBounds ==
  ASSUME NEW w \in Nat
  PROVE  /\ w * Window \in Nat /\ Start(w) \in Nat
         /\ Start(w) <= w * Window /\ w * Window < Start(w) + Second
<1>1. w * Window \in Nat /\ Second \in Nat \ {0}
  BY Constants
<1>2. (w * Window) \div Second \in Nat
  BY <1>1, DivBounds
<1> QED
  BY <1>1, <1>2, DivBounds DEF Start

\* Windows have buckets of their own.
LEMMA StartsDiffer ==
  ASSUME NEW v \in Nat, NEW w \in Nat, v < w
  PROVE  Start(v) < Start(w)
<1>1. v * Window + Window <= w * Window
  <2>1. PICK k \in Nat : w = v + 1 + k
    <3>1. w - v - 1 \in Nat /\ w = v + 1 + (w - v - 1)
      OBVIOUS
    <3> QED
      BY <3>1
  <2>2. w * Window = v * Window + Window + k * Window
    BY <2>1, Constants
  <2>3. k * Window \in Nat /\ v * Window \in Nat
    BY Constants
  <2> QED
    BY <2>2, <2>3, Constants
<1>2. /\ Start(v) \in Nat /\ Start(w) \in Nat /\ v * Window \in Nat /\ w * Window \in Nat
      /\ Start(v) <= v * Window /\ w * Window < Start(w) + Second
  BY StartBounds
<1> QED
  BY <1>1, <1>2, Constants

\* The clock an operation has read lies in its window, and its bucket has not expired
\* when it increments.
LEMMA BucketLives ==
  ASSUME NEW read \in Clock, NEW t \in Nat, t <= read + MaxDelay
  PROVE  /\ WindowOf(read) \in Clock /\ WindowOf(read) * Window <= MaxTime
         /\ Bucket(read) = Start(WindowOf(read)) /\ Bucket(read) \in Clock
         /\ t < Expiry(Bucket(read))
<1> DEFINE w == WindowOf(read)
<1>1. /\ read \in Nat /\ read <= MaxTime /\ w \in Nat
      /\ w * Window <= read /\ read < w * Window + Window
  BY Constants, DivBounds DEF Clock, WindowOf
<1>2. /\ Start(w) \in Nat /\ w * Window \in Nat
      /\ Start(w) <= w * Window /\ w * Window < Start(w) + Second
  BY <1>1, StartBounds
<1>3. w <= w * Window
  BY <1>1, Constants
<1>4. Bucket(read) = Start(w)
  BY DEF Bucket, Start
<1> HIDE DEF w
<1>5. w \in Clock /\ Start(w) \in Clock
  BY <1>1, <1>2, <1>3, Constants DEF Clock
<1>6. t < Start(w) + 2 * Window
  BY <1>1, <1>2, Constants
<1>7. t < Expiry(Bucket(read)) /\ Bucket(read) \in Clock
  BY <1>4, <1>5, <1>6 DEF Expiry
<1>8. w * Window <= MaxTime
  BY <1>1, Constants
<1> QED
  BY <1>4, <1>5, <1>7, <1>8 DEF w

-----------------------------------------------------------------------------
\* Without buckets, records and attempts the invariant holds.
LEMMA InitInvariant == Init => IInv
<1> SUFFICES ASSUME Init PROVE IInv
  OBVIOUS
<1>1. TypeOK
  BY Constants DEF Init, TypeOK, Clock, Stages
<1>2. DelayInv /\ KeyInv /\ ImportedOnce /\ ImportedInOrder
  BY Constants DEF Init, DelayInv, KeyInv, ImportedOnce, ImportedInOrder, Paths
<1>3. RateIsBounded
  BY Constants DEF Init, RateIsBounded
<1>4. BucketInv
  <2> SUFFICES ASSUME NEW w \in Clock, w * Window <= MaxTime PROVE 0 <= bucket[Start(w)]
    BY DEF Init, BucketInv
  <2>1. w \in Nat
    BY DEF Clock
  <2>2. Start(w) \in Clock
    BY <2>1, StartBounds, Constants DEF Clock
  <2> QED
    BY <2>2 DEF Init
<1>5. AttemptInv
  BY Constants DEF Init, AttemptInv, Paths
<1> QED
  BY <1>1, <1>2, <1>3, <1>4, <1>5 DEF IInv

\* A step of a caller that counts nothing and changes no document.
LEMMA OpStep ==
  ASSUME IInv, op' \in [Callers -> [stage : Stages, read : Clock]], DelayInv', AttemptInv',
         next' \in [Attempts -> 1 .. Documents + 1],
         \A a \in Attempts, i \in Paths : i < next'[a] => created[i] # <<>>,
         docs' \in [Paths -> {None, "import", "other"}],
         UNCHANGED <<now, bucket, admitted, key, created>>
  PROVE  IInv'
<1>1. TypeOK'
  BY DEF IInv, TypeOK
<1>2. KeyInv' /\ ImportedOnce'
  BY DEF IInv, KeyInv, ImportedOnce
<1>3. ImportedInOrder'
  BY DEF IInv, ImportedInOrder
<1>4. BucketInv' /\ RateIsBounded'
  BY DEF IInv, BucketInv, RateIsBounded
<1> QED
  BY <1>1, <1>2, <1>3, <1>4 DEF IInv

\* Leaving a stage for one that does not count.
LEMMA GoesStep ==
  ASSUME IInv, NEW c \in Callers, NEW from, NEW to \in Stages \ {"count"}, Goes(c, from, to),
         UNCHANGED now
  PROVE  op' \in [Callers -> [stage : Stages, read : Clock]] /\ DelayInv'
<1>1. 0 \in Clock
  BY Constants DEF Clock
<1>2. op' \in [Callers -> [stage : Stages, read : Clock]]
  BY <1>1 DEF IInv, TypeOK, Goes
<1>3. DelayInv'
  BY DEF IInv, TypeOK, DelayInv, Goes
<1> QED
  BY <1>2, <1>3

\* A caller that begins, reads its clock or fails keeps the invariant.
LEMMA CallerStep ==
  ASSUME IInv, NEW c \in Callers, Begin(c) \/ ReadClock(c) \/ Fail(c)
  PROVE  IInv'
<1>1. /\ next' \in [Attempts -> 1 .. Documents + 1]
      /\ \A a \in Attempts, i \in Paths : i < next'[a] => created[i] # <<>>
      /\ docs' \in [Paths -> {None, "import", "other"}]
      /\ UNCHANGED <<now, bucket, admitted, key, created>>
  BY DEF IInv, TypeOK, ImportedInOrder, Begin, ReadClock, Fail
<1>2. op' \in [Callers -> [stage : Stages, read : Clock]] /\ DelayInv'
  <2>1. CASE Begin(c)
    BY <2>1, GoesStep DEF Begin, Stages
  <2>2. CASE Fail(c)
    <3>1. Goes(c, op[c].stage, "failed") /\ UNCHANGED now
      BY <2>2 DEF Fail, Goes
    <3> QED
      BY <3>1, GoesStep DEF Stages
  <2>3. CASE ReadClock(c)
    <3>1. now \in Clock /\ now' = now /\ op \in [Callers -> [stage : Stages, read : Clock]]
      BY <2>3 DEF IInv, TypeOK, ReadClock
    <3>2. op' = [op EXCEPT ![c] = [stage |-> "count", read |-> now]]
      BY <2>3 DEF ReadClock
    <3>3. now <= now /\ now <= now + MaxDelay
      BY <3>1, Constants DEF Clock
    <3>4. DelayInv'
      BY <3>1, <3>2, <3>3 DEF IInv, DelayInv
    <3> QED
      BY <3>1, <3>2, <3>4 DEF Stages
  <2> QED
    BY <2>1, <2>2, <2>3
<1>3. AttemptInv'
  <2>1. next' = next /\ \A a \in Attempts : op'[a].stage \in {"done", "failed"} \/ op[a].stage \notin {"done", "failed"}
    BY DEF IInv, TypeOK, Callers, Begin, ReadClock, Fail, Goes
  <2> QED
    BY <2>1 DEF IInv, AttemptInv
<1> QED
  BY <1>1, <1>2, <1>3, OpStep

\* An attempt that has dealt with its document goes on to the next.
LEMMA OnwardStep ==
  ASSUME IInv, NEW a \in Attempts, Onward(a), UNCHANGED now
  PROVE  /\ op' \in [Callers -> [stage : Stages, read : Clock]] /\ DelayInv' /\ AttemptInv'
         /\ next[a] \in Paths /\ next' \in [Attempts -> 1 .. Documents + 1]
         /\ next' = [next EXCEPT ![a] = next[a] + 1]
<1> DEFINE to == IF next[a] = Documents THEN "done" ELSE "clock"
<1>1. a \in Callers /\ Attempts \subseteq Callers
  BY DEF Callers
<1>2. to \in Stages \ {"count"} /\ Goes(a, "act", to)
  BY DEF Onward, Stages
<1>3. op' \in [Callers -> [stage : Stages, read : Clock]] /\ DelayInv'
  <2> HIDE DEF to
  <2> QED
    BY <1>1, <1>2, GoesStep
<1>4. next[a] \in Paths /\ next' = [next EXCEPT ![a] = next[a] + 1]
  BY <1>2 DEF IInv, AttemptInv, Goes, Onward
<1>5. next' \in [Attempts -> 1 .. Documents + 1]
  BY <1>4, Constants DEF IInv, TypeOK, Paths
<1>6. AttemptInv'
  <2> SUFFICES ASSUME NEW b \in Attempts, op'[b].stage \notin {"done", "failed"}
               PROVE  next'[b] \in Paths
    BY DEF AttemptInv
  <2>1. CASE b = a
    <3>1. op'[a].stage = to
      BY <1>1, <1>2 DEF IInv, TypeOK, Goes
    <3>2. next[a] # Documents /\ next'[a] = next[a] + 1
      BY <1>4, <2>1, <3>1 DEF IInv, TypeOK
    <3> HIDE DEF to
    <3> QED
      BY <1>4, <2>1, <3>2, Constants DEF Paths
  <2>2. CASE b # a
    BY <1>1, <1>2, <1>4, <2>2 DEF IInv, TypeOK, AttemptInv, Goes
  <2> QED
    BY <2>1, <2>2
<1> QED
  BY <1>3, <1>4, <1>5, <1>6

\* A request that is counted keeps the invariant.
LEMMA CountStep == ASSUME IInv, NEW c \in Callers, Count(c) PROVE IInv'
<1> DEFINE read == op[c].read
           window == WindowOf(read)
           start == Bucket(read)
           n == bucket[start] + 1
<1>1. /\ read \in Clock /\ now \in Nat /\ now <= read + MaxDelay /\ op[c].stage = "count"
      /\ bucket \in [Clock -> Nat] /\ admitted \in [Clock -> Nat]
  BY DEF IInv, TypeOK, DelayInv, Count, Goes, Clock
<1>2. /\ window \in Clock /\ window * Window <= MaxTime /\ start = Start(window)
      /\ start \in Clock /\ now < Expiry(start)
  BY <1>1, BucketLives
<1>3. /\ bucket' = [bucket EXCEPT ![start] = n]
      /\ \/ n <= Limit /\ admitted' = [admitted EXCEPT ![window] = admitted[window] + 1]
         \/ admitted' = admitted
      /\ UNCHANGED <<now, next, docs, key, created>>
  BY DEF Count
<1> HIDE DEF read, window, start
<1>4. admitted[window] <= bucket[start] /\ bucket[start] \in Nat /\ admitted[window] \in Nat
  BY <1>1, <1>2 DEF IInv, BucketInv
<1>5. bucket' \in [Clock -> Nat] /\ admitted' \in [Clock -> Nat]
  BY <1>1, <1>2, <1>3, <1>4
<1>6. RateIsBounded'
  BY <1>1, <1>2, <1>3, <1>4, Constants DEF IInv, RateIsBounded
<1>7. BucketInv'
  <2> SUFFICES ASSUME NEW w \in Clock, w * Window <= MaxTime, now < Expiry(Start(w))
               PROVE  admitted'[w] <= bucket'[Start(w)]
    BY <1>3 DEF BucketInv
  <2>1. w \in Nat /\ window \in Nat
    BY <1>2 DEF Clock
  <2>2. admitted[w] <= bucket[Start(w)] /\ Start(w) \in Clock
    <3>1. Start(w) \in Nat /\ Start(w) <= w * Window /\ w * Window \in Nat
      BY <2>1, StartBounds
    <3> QED
      BY <3>1, Constants DEF IInv, BucketInv, Clock
  <2>3. CASE w = window
    BY <1>1, <1>2, <1>3, <1>4, <2>3
  <2>4. CASE w # window
    <3>1. Start(w) # start
      <4>1. Start(w) \in Nat /\ Start(window) \in Nat
        BY <2>1, StartBounds
      <4>2. w < window \/ window < w
        BY <2>1, <2>4
      <4> QED
        BY <1>2, <2>1, <4>1, <4>2, StartsDiffer
    <3> QED
      BY <1>1, <1>2, <1>3, <2>2, <2>4, <3>1
  <2> QED
    BY <2>3, <2>4
<1>8. op' \in [Callers -> [stage : Stages, read : Clock]] /\ DelayInv'
  <2>1. PICK to \in Stages \ {"count"} : Goes(c, "count", to)
    BY DEF Count, Stages
  <2> QED
    BY <1>3, <2>1, GoesStep
<1>9. AttemptInv'
  BY <1>1, <1>3 DEF IInv, TypeOK, AttemptInv, Callers, Count, Goes
<1> QED
  BY <1>3, <1>5, <1>6, <1>7, <1>8, <1>9
     DEF IInv, TypeOK, KeyInv, ImportedOnce, ImportedInOrder

\* A replay moves the import on without creating anything.
LEMMA ReplayStep == ASSUME IInv, NEW a \in Attempts, Replay(a) PROVE IInv'
<1>1. Onward(a) /\ UNCHANGED <<now, bucket, admitted, docs, key, created>>
  BY DEF Replay
<1>2. /\ op' \in [Callers -> [stage : Stages, read : Clock]] /\ DelayInv' /\ AttemptInv'
      /\ next[a] \in Paths /\ next' \in [Attempts -> 1 .. Documents + 1]
      /\ next' = [next EXCEPT ![a] = next[a] + 1]
  BY <1>1, OnwardStep
<1>3. created[next[a]] # <<>>
  BY <1>2 DEF IInv, KeyInv, Replay, Replays
<1>4. ASSUME NEW b \in Attempts, NEW i \in Paths, i < next'[b] PROVE created[i] # <<>>
  <2>1. CASE b = a /\ i = next[a]
    BY <1>3, <2>1
  <2>2. CASE ~(b = a /\ i = next[a])
    <3>1. i < next[b]
      BY <1>2, <1>4, <2>2 DEF IInv, TypeOK, Paths
    <3> QED
      BY <3>1 DEF IInv, ImportedInOrder
  <2> QED
    BY <2>1, <2>2
<1>5. docs' \in [Paths -> {None, "import", "other"}]
  BY <1>1 DEF IInv, TypeOK
<1> QED
  BY <1>1, <1>2, <1>4, <1>5, OpStep

\* Conflicts and the acts of other callers keep the invariant.
LEMMA OtherSteps ==
  ASSUME IInv, (\E a \in Attempts : Conflict(a)) \/ (\E o \in Others : OtherActs(o))
  PROVE  IInv'
<1>1. PICK c \in Callers : \E to \in {"done", "failed"} : Goes(c, "act", to)
  BY DEF Conflict, OtherActs, Callers
<1>2. UNCHANGED <<now, bucket, admitted, next, key, created>>
  BY DEF Conflict, OtherActs
<1>3. op' \in [Callers -> [stage : Stages, read : Clock]] /\ DelayInv'
  BY <1>1, <1>2, GoesStep DEF Stages
<1>4. AttemptInv'
  BY <1>1, <1>2 DEF IInv, TypeOK, AttemptInv, Callers, Goes
<1>5. docs' \in [Paths -> {None, "import", "other"}]
  <2>1. docs \in [Paths -> {None, "import", "other"}]
    BY DEF IInv, TypeOK
  <2>2. UNCHANGED docs \/ \E i \in Paths :
          docs' = [docs EXCEPT ![i] = IF docs[i] = None THEN "other" ELSE None]
    BY DEF Conflict, OtherActs
  <2> QED
    BY <2>1, <2>2
<1>6. /\ next' \in [Attempts -> 1 .. Documents + 1]
      /\ \A a \in Attempts, i \in Paths : i < next'[a] => created[i] # <<>>
  BY <1>2 DEF IInv, TypeOK, ImportedInOrder
<1> QED
  BY <1>2, <1>3, <1>4, <1>5, <1>6, OpStep

\* A creation leaves its record and keeps the invariant.
LEMMA CreateStep == ASSUME IInv, NEW a \in Attempts, Create(a) PROVE IInv'
<1> DEFINE i == next[a]
           s == created[i]
<1>1. Onward(a) /\ UNCHANGED <<now, bucket, admitted>>
  BY DEF Create
<1>2. /\ op' \in [Callers -> [stage : Stages, read : Clock]] /\ DelayInv' /\ AttemptInv'
      /\ i \in Paths /\ next' \in [Attempts -> 1 .. Documents + 1]
      /\ next' = [next EXCEPT ![a] = i + 1]
  BY <1>1, OnwardStep
<1>3. /\ ~Replays(i)
      /\ docs' = [docs EXCEPT ![i] = "import"] /\ key' = [key EXCEPT ![i] = now + Ttl]
      /\ created' = [created EXCEPT ![i] = Append(s, now)]
  BY DEF Create
<1>4. /\ now \in Clock /\ now \in Nat /\ s \in Seq(Clock)
      /\ created \in [Paths -> Seq(Clock)] /\ key \in [Paths -> {None} \cup Nat]
      /\ docs \in [Paths -> {None, "import", "other"}]
  BY <1>2 DEF IInv, TypeOK, Clock
<1>5. /\ Append(s, now) \in Seq(Clock) /\ Len(Append(s, now)) = Len(s) + 1
      /\ Append(s, now)[Len(s) + 1] = now /\ Append(s, now) # <<>>
      /\ \A j \in 1 .. Len(s) : Append(s, now)[j] = s[j]
  <2> HIDE DEF s
  <2>1. Append(s, now) \in Seq(Clock) /\ Len(Append(s, now)) = Len(s) + 1 /\ Len(s) \in Nat
    BY <1>4
  <2>2. Append(s, now)[Len(s) + 1] = now /\ \A j \in 1 .. Len(s) : Append(s, now)[j] = s[j]
    BY <1>4
  <2> QED
    BY <2>1, <2>2
<1> HIDE DEF i, s
<1>6. TypeOK'
  BY <1>1, <1>2, <1>3, <1>4, <1>5, Constants DEF IInv, TypeOK
<1>7. KeyInv'
  <2> SUFFICES ASSUME NEW j \in Paths
               PROVE  /\ key'[j] # None => created'[j] # <<>>
                      /\ created'[j] # <<>> =>
                           /\ Last(created'[j]) <= now
                           /\ now < Last(created'[j]) + Ttl =>
                                key'[j] = Last(created'[j]) + Ttl
    BY <1>1 DEF KeyInv, Last
  <2>1. CASE j = i
    <3>1. created'[j] = Append(s, now) /\ key'[j] = now + Ttl
      BY <1>2, <1>3, <1>4, <2>1
    <3>2. Last(created'[j]) = now
      BY <1>5, <3>1 DEF Last
    <3> QED
      BY <1>4, <1>5, <3>1, <3>2
  <2>2. CASE j # i
    <3>1. created'[j] = created[j] /\ key'[j] = key[j]
      BY <1>3, <1>4, <2>2
    <3> QED
      BY <3>1 DEF IInv, KeyInv
  <2> QED
    BY <2>1, <2>2
<1>8. ImportedOnce'
  <2> SUFFICES ASSUME NEW j \in Paths, NEW k \in 1 .. Len(created'[j]) - 1
               PROVE  created'[j][k + 1] >= created'[j][k] + Ttl
    BY DEF ImportedOnce
  <2>1. CASE j # i
    BY <1>3, <1>4, <2>1 DEF IInv, ImportedOnce
  <2>2. CASE j = i
    <3>1. created'[j] = Append(s, now) /\ Len(s) \in Nat
      BY <1>2, <1>3, <1>4, <2>2
    <3>2. k \in 1 .. Len(s)
      BY <1>5, <3>1
    <3>3. CASE k < Len(s)
      <4>1. k \in 1 .. Len(s) - 1 /\ k + 1 \in 1 .. Len(s)
        BY <3>1, <3>2, <3>3
      <4>2. s[k + 1] >= s[k] + Ttl
        BY <1>2, <4>1 DEF IInv, ImportedOnce, s
      <4> QED
        BY <1>5, <3>1, <3>2, <4>1, <4>2
    <3>4. CASE k = Len(s)
      <4>1. s # <<>> /\ s[k] = Last(s) /\ Last(s) \in Nat
        <5>1. s[k] \in Clock
          BY <1>4, <3>2
        <5> QED
          BY <1>4, <3>2, <3>4, <5>1 DEF Last, Clock
      <4>2. now >= Last(s) + Ttl
        <5>1. now < Last(s) + Ttl => key[i] = Last(s) + Ttl
          BY <1>2, <4>1 DEF IInv, KeyInv, s
        <5>2. key[i] = None \/ now >= key[i]
          BY <1>2, <1>3, <1>4 DEF Replays
        <5> QED
          BY <1>4, <4>1, <5>1, <5>2, Constants
      <4> QED
        BY <1>5, <3>1, <3>2, <3>4, <4>1, <4>2
    <3> QED
      BY <3>1, <3>2, <3>3, <3>4
  <2> QED
    BY <2>1, <2>2
<1>9. ImportedInOrder'
  <2>1. \A j \in Paths : created[j] # <<>> => created'[j] # <<>>
    BY <1>2, <1>3, <1>4, <1>5
  <2>2. \A j \in Paths : j <= i => created'[j] # <<>>
    <3> SUFFICES ASSUME NEW j \in Paths, j <= i PROVE created'[j] # <<>>
      OBVIOUS
    <3>1. CASE j = i
      BY <1>2, <1>3, <1>4, <1>5, <3>1
    <3>2. CASE j # i
      <4>1. j < i
        BY <1>2, <3>2 DEF Paths
      <4> QED
        BY <2>1, <4>1 DEF IInv, ImportedInOrder, i
    <3> QED
      BY <3>1, <3>2
  <2>3. ASSUME NEW b \in Attempts, NEW j \in Paths, j < next'[b] PROVE created'[j] # <<>>
    <3>1. CASE b = a
      <4>1. j <= i
        BY <1>2, <2>3, <3>1 DEF IInv, TypeOK, Paths
      <4> QED
        BY <2>2, <4>1
    <3>2. CASE b # a
      <4>1. j < next[b]
        BY <1>2, <2>3, <3>2 DEF IInv, TypeOK
      <4> QED
        BY <2>1, <4>1 DEF IInv, ImportedInOrder
    <3> QED
      BY <3>1, <3>2
  <2>4. ASSUME NEW j \in Paths, NEW k \in Paths, k < j, created'[j] # <<>>
        PROVE  created'[k] # <<>>
    <3>1. CASE j = i
      BY <1>2, <2>2, <2>4, <3>1 DEF Paths
    <3>2. CASE j # i
      <4>1. created[j] # <<>>
        BY <1>3, <1>4, <2>4, <3>2
      <4> QED
        BY <2>1, <2>4, <4>1 DEF IInv, ImportedInOrder
    <3> QED
      BY <3>1, <3>2
  <2> QED
    BY <2>3, <2>4 DEF ImportedInOrder
<1>10. BucketInv' /\ RateIsBounded'
  BY <1>1 DEF IInv, BucketInv, RateIsBounded
<1> QED
  BY <1>2, <1>6, <1>7, <1>8, <1>9, <1>10 DEF IInv

\* The janitor removes only buckets in which nobody counts and records that have expired.
LEMMA SweepStep ==
  ASSUME IInv, (\E start \in Clock : SweepBucket(start)) \/ (\E i \in Paths : SweepKey(i))
  PROVE  IInv'
<1>1. UNCHANGED <<now, admitted, op, next, docs, created>>
  BY DEF SweepBucket, SweepKey
<1>2. TypeOK'
  <2>1. bucket' \in [Clock -> Nat] /\ key' \in [Paths -> {None} \cup Nat]
    <3>1. bucket \in [Clock -> Nat] /\ key \in [Paths -> {None} \cup Nat]
      BY DEF IInv, TypeOK
    <3>2. ASSUME NEW start \in Clock, SweepBucket(start)
          PROVE  bucket' = [bucket EXCEPT ![start] = 0] /\ key' = key
      BY <3>2 DEF SweepBucket
    <3>3. ASSUME NEW i \in Paths, SweepKey(i)
          PROVE  bucket' = bucket /\ key' = [key EXCEPT ![i] = None]
      BY <3>3 DEF SweepKey
    <3> QED
      BY <3>1, <3>2, <3>3
  <2> QED
    BY <1>1, <2>1 DEF IInv, TypeOK
<1>3. DelayInv' /\ AttemptInv' /\ RateIsBounded' /\ ImportedOnce' /\ ImportedInOrder'
  BY <1>1 DEF IInv, DelayInv, AttemptInv, RateIsBounded, ImportedOnce, ImportedInOrder
<1>4. BucketInv'
  <2> SUFFICES ASSUME NEW w \in Clock, w * Window <= MaxTime, now < Expiry(Start(w))
               PROVE  admitted[w] <= bucket'[Start(w)]
    BY <1>1 DEF BucketInv
  <2>1. bucket'[Start(w)] = bucket[Start(w)]
    <3>1. ASSUME NEW start \in Clock, SweepBucket(start)
          PROVE  bucket'[Start(w)] = bucket[Start(w)]
      <4>1. Start(w) # start
        <5>1. Expiry(start) <= now /\ now \in Nat /\ start \in Nat
          BY <3>1 DEF SweepBucket, IInv, TypeOK, Clock
        <5>2. Expiry(start) \in Nat
          BY <5>1, Constants DEF Expiry
        <5> QED
          BY <5>1, <5>2
      <4>2. bucket' = [bucket EXCEPT ![start] = 0] /\ bucket \in [Clock -> Nat]
        BY <3>1 DEF SweepBucket, IInv, TypeOK
      <4> QED
        BY <4>1, <4>2
    <3>2. (\E i \in Paths : SweepKey(i)) => bucket' = bucket
      BY DEF SweepKey
    <3> QED
      BY <3>1, <3>2
  <2> QED
    BY <2>1 DEF IInv, BucketInv
<1>5. KeyInv'
  <2>1. CASE UNCHANGED key
    BY <1>1, <2>1 DEF IInv, KeyInv
  <2>2. ASSUME NEW i \in Paths, SweepKey(i) PROVE KeyInv'
    <3> SUFFICES ASSUME NEW j \in Paths
                 PROVE  /\ key'[j] # None => created[j] # <<>>
                        /\ created[j] # <<>> =>
                             /\ Last(created[j]) <= now
                             /\ now < Last(created[j]) + Ttl => key'[j] = Last(created[j]) + Ttl
      BY <1>1 DEF KeyInv, Last
    <3>1. key' = [key EXCEPT ![i] = None] /\ key[i] # None /\ key[i] <= now
      BY <2>2 DEF SweepKey
    <3>2. CASE j = i
      <4>1. created[j] # <<>> /\ Last(created[j]) <= now
            /\ (now < Last(created[j]) + Ttl => key[i] = Last(created[j]) + Ttl)
        BY <3>1, <3>2 DEF IInv, KeyInv
      <4>2. now \in Nat /\ key[i] \in Nat /\ key'[j] = None
        BY <3>1, <3>2 DEF IInv, TypeOK, Clock
      <4>3. ~(now < Last(created[j]) + Ttl)
        BY <3>1, <4>1, <4>2
      <4> QED
        BY <4>1, <4>2, <4>3
    <3>3. CASE j # i
      BY <3>1, <3>3 DEF IInv, TypeOK, KeyInv
    <3> QED
      BY <3>2, <3>3
  <2> QED
    BY <2>1, <2>2 DEF SweepBucket
<1> QED
  BY <1>2, <1>3, <1>4, <1>5 DEF IInv

\* Time passes only as far as the slowest counter allows, which keeps the invariant.
LEMMA TickStep == ASSUME IInv, Tick PROVE IInv'
<1>1. /\ now' = now + 1 /\ now \in Nat /\ now' \in Clock
      /\ UNCHANGED <<bucket, admitted, op, next, docs, key, created>>
  BY Constants DEF Tick, IInv, TypeOK, Clock
<1>2. TypeOK' /\ AttemptInv' /\ RateIsBounded' /\ ImportedOnce' /\ ImportedInOrder'
  BY <1>1 DEF IInv, TypeOK, AttemptInv, RateIsBounded, ImportedOnce, ImportedInOrder
<1>3. DelayInv'
  <2> SUFFICES ASSUME NEW c \in Callers, op[c].stage = "count"
               PROVE  op[c].read <= now + 1 /\ now + 1 <= op[c].read + MaxDelay
    BY <1>1 DEF DelayInv
  <2>1. op[c].read \in Nat /\ op[c].read <= now /\ now < op[c].read + MaxDelay
    BY DEF IInv, TypeOK, DelayInv, Tick, Clock
  <2> QED
    BY <1>1, <2>1, Constants
<1>4. BucketInv'
  <2> SUFFICES ASSUME NEW w \in Clock, w * Window <= MaxTime, now + 1 < Expiry(Start(w))
               PROVE  admitted[w] <= bucket[Start(w)]
    BY <1>1 DEF BucketInv
  <2>1. Start(w) \in Nat
    BY StartBounds DEF Clock
  <2>2. now < Expiry(Start(w))
    BY <1>1, <2>1, Constants DEF Expiry
  <2> QED
    BY <2>2 DEF IInv, BucketInv
<1>5. KeyInv'
  <2> SUFFICES ASSUME NEW i \in Paths, created[i] # <<>>
               PROVE  /\ Last(created[i]) <= now + 1
                      /\ now + 1 < Last(created[i]) + Ttl => key[i] = Last(created[i]) + Ttl
    BY <1>1 DEF IInv, KeyInv, Last
  <2>1. Last(created[i]) \in Nat
    <3>1. created[i] \in Seq(Clock)
      BY DEF IInv, TypeOK
    <3>2. Last(created[i]) \in Clock
      BY <3>1 DEF Last
    <3> QED
      BY <3>2 DEF Clock
  <2> QED
    BY <1>1, <2>1, Constants DEF IInv, KeyInv
<1> QED
  BY <1>2, <1>3, <1>4, <1>5 DEF IInv

\* Every step keeps the invariant.
LEMMA StepInvariant == IInv /\ [Next]_vars => IInv'
<1> SUFFICES ASSUME IInv, [Next]_vars PROVE IInv'
  OBVIOUS
<1>1. CASE Next
  BY <1>1, CallerStep, CountStep, ReplayStep, CreateStep, OtherSteps, SweepStep, TickStep
     DEF Next
<1>2. CASE UNCHANGED vars
  BY <1>2 DEF vars, IInv, TypeOK, DelayInv, AttemptInv, BucketInv, RateIsBounded, KeyInv,
              ImportedOnce, ImportedInOrder
<1> QED
  BY <1>1, <1>2

\* In every reachable state the counts of a window's buckets are of requests admitted
\* in it, and an import has created each document once and in order.
THEOREM Invariance == Spec => []IInv
BY InitInvariant, StepInvariant, PTL DEF Spec

-----------------------------------------------------------------------------
\* The clock, the rows and the callers keep their types.
THEOREM TypeCorrect == Spec => []TypeOK
<1>1. IInv => TypeOK
  BY DEF IInv
<1> QED
  BY <1>1, Invariance, PTL

\* No window lets through more than the limit, for every limit and every window of at
\* least a second and the longest delay of an increment.
THEOREM RateBounded == Spec => []RateIsBounded
<1>1. IInv => RateIsBounded
  BY DEF IInv
<1> QED
  BY <1>1, Invariance, PTL

\* Attempts of one import, one after the other or at once, create no document twice
\* within the lifetime of its record.
THEOREM OnceCreated == Spec => []ImportedOnce
<1>1. IInv => ImportedOnce
  BY DEF IInv
<1> QED
  BY <1>1, Invariance, PTL

\* An import leaves its first documents, and all of them when it succeeds.
THEOREM InOrder == Spec => []ImportedInOrder
<1>1. IInv => ImportedInOrder
  BY DEF IInv
<1> QED
  BY <1>1, Invariance, PTL

=============================================================================
