------------------------ MODULE MemoryStoreTreeProofs ------------------------
(***************************************************************************)
(* The tree of manifests for any paths, texts, limits and bounds. TreeInv  *)
(* says that every live object but the root is named by exactly one entry, *)
(* that every entry names a live object made after its directory, and that *)
(* the sum of the bytes is kept. A step leaves the tree alone, grows it by *)
(* one branch or prunes one document from it (Kept, Grown, Pruned), and    *)
(* each keeps the tree a tree. The walks of the code, and the sums of      *)
(* bytes, are recursive functions, and facts about them are proved by      *)
(* induction over sets.                                                    *)
(***************************************************************************)
EXTENDS MemoryStoreProofs, WellFoundedInduction

---------------------------------------------------------------------------
(* Induction.  The library's induction theorems are about operators; these *)
(* are the same principle about sets.                                      *)

\* A non-empty set of natural numbers has a least element.
LEMMA LeastNat ==
  ASSUME NEW T, T \subseteq Nat, T # {}
  PROVE  \E x \in T : \A y \in T : x <= y
  <1> DEFINE R == OpToRel(<, Nat)
  <1>1. IsWellFoundedOn(R, Nat)
    BY NatLessThanWellFounded
  <1>2. \E x \in T : \A y \in T : <<y, x>> \notin R
    <2> HIDE DEF R
    <2> QED BY <1>1, WFMin
  <1>3. ASSUME NEW x \in Nat, NEW y \in Nat, y < x PROVE <<y, x>> \in R
    BY <1>3 DEF OpToRel
  <1>4. \A x, y \in T : x <= y \/ y < x
    OBVIOUS
  <1>5. QED
    <2> HIDE DEF R
    <2> QED BY <1>2, <1>3, <1>4

\* A set that holds 0 and the successor of each of its numbers holds them all.
LEMMA NatSet ==
  ASSUME NEW S, 0 \in S, \A n \in Nat : n \in S => n + 1 \in S
  PROVE  \A n \in Nat : n \in S
  <1> DEFINE T == {n \in Nat : n \notin S}
  <1>1. SUFFICES ASSUME T # {} PROVE FALSE
    OBVIOUS
  <1>2. PICK x \in T : \A y \in T : x <= y
    <2> T \subseteq Nat OBVIOUS
    <2> HIDE DEF T
    <2> QED BY <1>1, LeastNat
  <1>3. x \in Nat /\ x # 0 /\ x - 1 \in Nat /\ ~(x <= x - 1)
    OBVIOUS
  <1>4. x - 1 \in S
    BY <1>2, <1>3
  <1>5. (x - 1) + 1 \in S
    BY <1>3, <1>4
  <1>6. QED
    BY <1>3, <1>5

---------------------------------------------------------------------------
(* Sums over finite sets.                                                  *)

\* The elements are taken one by one, as the fold of the community modules takes them.
Taken(s) == CHOOSE x \in s : TRUE
IsSum(S, f, g) ==
  g = [s \in SUBSET S |-> IF s = {} THEN 0 ELSE f[Taken(s)] + g[s \ {Taken(s)}]]

\* The sums of the sets of at most k elements.
SmallSum(S, f, k, g) ==
  g = [s \in {r \in SUBSET S : Cardinality(r) <= k} |->
         IF s = {} THEN 0 ELSE f[Taken(s)] + g[s \ {Taken(s)}]]

\* Taking an element out of a finite set leaves one less.
LEMMA TakenOut ==
  ASSUME NEW S, IsFiniteSet(S), NEW s, s \subseteq S
  PROVE  /\ IsFiniteSet(s) /\ Cardinality(s) \in Nat /\ Cardinality(s) <= Cardinality(S)
         /\ Cardinality(s) = 0 <=> s = {}
         /\ s # {} => Taken(s) \in s
         /\ \A x \in s : /\ s \ {x} \subseteq S
                         /\ Cardinality(s \ {x}) = Cardinality(s) - 1
  <1>1. IsFiniteSet(s) /\ Cardinality(s) <= Cardinality(S)
    BY FS_Subset
  <1>2. Cardinality(s) \in Nat /\ (Cardinality(s) = 0 <=> s = {})
    BY <1>1, FS_CardinalityType, FS_EmptySet
  <1>3. s # {} => Taken(s) \in s
    BY DEF Taken
  <1>4. \A x \in s : Cardinality(s \ {x}) = Cardinality(s) - 1
    BY <1>1, FS_RemoveElement
  <1>5. QED
    BY <1>1, <1>2, <1>3, <1>4

\* The sums exist.
LEMMA SumExists ==
  ASSUME NEW S, IsFiniteSet(S), NEW f
  PROVE  \E g : IsSum(S, f, g)
  <1> DEFINE T == {k \in Nat : \E g : SmallSum(S, f, k, g)}
  <1>1. 0 \in T
    <2> DEFINE g == [s \in {r \in SUBSET S : Cardinality(r) <= 0} |-> 0]
    <2>1. \A s \in SUBSET S : Cardinality(s) <= 0 => s = {}
      BY TakenOut
    <2>2. SmallSum(S, f, 0, g)
      BY <2>1 DEF SmallSum
    <2>3. QED
      BY <2>2
  <1>2. ASSUME NEW k \in Nat, k \in T PROVE k + 1 \in T
    <2>1. PICK g : SmallSum(S, f, k, g)
      BY <1>2
    <2> DEFINE Small(n) == {r \in SUBSET S : Cardinality(r) <= n}
               Value(s, h) == IF s = {} THEN 0 ELSE f[Taken(s)] + h[s \ {Taken(s)}]
               more == [s \in Small(k + 1) |->
                          IF Cardinality(s) <= k THEN g[s] ELSE Value(s, g)]
    <2>2. g = [s \in Small(k) |-> Value(s, g)]
      BY <2>1 DEF SmallSum
    <2>3. ASSUME NEW s \in Small(k + 1)
          PROVE  s # {} => s \ {Taken(s)} \in Small(k) /\ s \ {Taken(s)} \in Small(k + 1)
      <3>1. s \subseteq S /\ Cardinality(s) <= k + 1
        OBVIOUS
      <3>2. s # {} => /\ s \ {Taken(s)} \subseteq S
                      /\ Cardinality(s \ {Taken(s)}) = Cardinality(s) - 1
                      /\ Cardinality(s) \in Nat
        BY <3>1, TakenOut
      <3>3. QED
        BY <3>1, <3>2
    <2>4. ASSUME NEW s \in Small(k) PROVE s \in Small(k + 1) /\ Cardinality(s) <= k
      <3>1. s \subseteq S /\ Cardinality(s) <= k /\ Cardinality(s) \in Nat
        BY TakenOut
      <3>2. QED
        BY <3>1
    <2>5. \A s \in Small(k + 1) : Cardinality(s) <= k => s \in Small(k)
      OBVIOUS
    <2>6. \A s \in Small(k) : more[s] = g[s]
      BY <2>4
    <2> HIDE DEF Small
    <2>7. \A s \in Small(k + 1) : Value(s, more) = Value(s, g)
      <3> HIDE DEF more
      <3> QED BY <2>3, <2>6
    <2>8. \A s \in Small(k + 1) : more[s] = Value(s, g)
      <3>1. \A s \in Small(k) : g[s] = Value(s, g)
        <4> HIDE DEF Value
        <4> QED BY <2>2
      <3> HIDE DEF Value
      <3>2. QED
        BY <2>5, <3>1
    <2>9. more = [s \in Small(k + 1) |-> Value(s, more)]
      <3>1. more = [s \in Small(k + 1) |-> more[s]]
        OBVIOUS
      <3> HIDE DEF more, Value
      <3>2. QED
        BY <2>7, <2>8, <3>1
    <2>10. SmallSum(S, f, k + 1, more)
      <3> HIDE DEF more
      <3> QED BY <2>9 DEF SmallSum, Small
    <2> HIDE DEF more
    <2>11. QED
      BY <2>10
  <1>3. Cardinality(S) \in Nat
    BY FS_CardinalityType
  <1>4. Cardinality(S) \in T
    <2> HIDE DEF T
    <2> QED BY <1>1, <1>2, <1>3, NatSet
  <1>5. PICK g : SmallSum(S, f, Cardinality(S), g)
    BY <1>4
  <1>6. {r \in SUBSET S : Cardinality(r) <= Cardinality(S)} = SUBSET S
    BY TakenOut
  <1>7. IsSum(S, f, g)
    BY <1>5, <1>6 DEF IsSum, SmallSum
  <1>8. QED
    BY <1>7

\* A sum does not depend on the order: any element can be taken out.
LEMMA SumTake ==
  ASSUME NEW S, IsFiniteSet(S), NEW f \in [S -> Nat], NEW g, IsSum(S, f, g)
  PROVE  /\ \A s \in SUBSET S : g[s] \in Nat
         /\ \A s \in SUBSET S, x \in S : x \in s => g[s] = f[x] + g[s \ {x}]
  <1> DEFINE Takes(s) == g[s] \in Nat /\ \A x \in S : x \in s => g[s] = f[x] + g[s \ {x}]
             T == {k \in Nat : \A s \in SUBSET S : Cardinality(s) <= k => Takes(s)}
  <1>1. /\ g[{}] = 0
        /\ \A s \in SUBSET S : s # {} => g[s] = f[Taken(s)] + g[s \ {Taken(s)}]
    BY DEF IsSum
  <1>2. 0 \in T
    <2>1. \A s \in SUBSET S : Cardinality(s) <= 0 => s = {}
      BY TakenOut
    <2>2. Takes({})
      BY <1>1
    <2> HIDE DEF Takes
    <2>3. QED
      BY <2>1, <2>2
  <1>3. ASSUME NEW k \in Nat, k \in T PROVE k + 1 \in T
    <2> SUFFICES ASSUME NEW s \in SUBSET S, Cardinality(s) <= k + 1, s # {} PROVE Takes(s)
      <3>1. Takes({})
        BY <1>1
      <3> HIDE DEF Takes
      <3>2. QED
        BY <3>1
    <2> DEFINE c == Taken(s)
    <2>1. /\ c \in s /\ c \in S
          /\ \A x \in s : s \ {x} \in SUBSET S /\ Cardinality(s \ {x}) <= k
      BY TakenOut
    <2>2. \A x \in s : Takes(s \ {x})
      BY <1>3, <2>1
    <2>3. g[s] = f[c] + g[s \ {c}] /\ g[s \ {c}] \in Nat /\ f[c] \in Nat
      BY <1>1, <2>1, <2>2
    <2> HIDE DEF c, T
    <2>4. ASSUME NEW x \in S, x \in s PROVE g[s] = f[x] + g[s \ {x}]
      <3>1. CASE x = c
        BY <2>3, <3>1
      <3>2. CASE x # c
        <4>1. g[s \ {c}] = f[x] + g[(s \ {c}) \ {x}] /\ g[s \ {x}] = f[c] + g[(s \ {x}) \ {c}]
          BY <2>1, <2>2, <2>4, <3>2
        <4>2. (s \ {c}) \ {x} = (s \ {x}) \ {c}
          OBVIOUS
        <4>3. g[(s \ {x}) \ {c}] \in Nat
          <5>1. (s \ {x}) \ {c} \in SUBSET S /\ Cardinality((s \ {x}) \ {c}) <= k
            <6>1. s \ {x} \in SUBSET S /\ c \in s \ {x} /\ Cardinality(s \ {x}) <= k
              BY <2>1, <2>4, <3>2
            <6>2. PICK r : r = s \ {x}
              OBVIOUS
            <6>3. r \subseteq S /\ c \in r
              BY <6>1, <6>2
            <6>4. Cardinality(r) \in Nat /\ \A y \in r : Cardinality(r \ {y}) = Cardinality(r) - 1
              BY ONLY <6>3, IsFiniteSet(S), TakenOut
            <6>5. QED
              BY <6>1, <6>2, <6>3, <6>4
          <5>2. Takes((s \ {x}) \ {c})
            <6> HIDE DEF Takes
            <6> QED BY <1>3, <5>1 DEF T
          <5>3. QED
            BY <5>2
        <4>4. f[x] \in Nat
          OBVIOUS
        <4>5. PICK r : r = g[(s \ {x}) \ {c}]
          OBVIOUS
        <4>6. g[s \ {c}] = f[x] + r /\ g[s \ {x}] = f[c] + r /\ r \in Nat
          BY <4>1, <4>2, <4>3, <4>5
        <4>7. g[s] = f[c] + (f[x] + r)
          BY <2>3, <4>6
        <4>8. f[c] + (f[x] + r) = f[x] + (f[c] + r)
          BY <2>3, <4>4, <4>6
        <4>9. QED
          BY <4>6, <4>7, <4>8
      <3>3. QED
        BY <3>1, <3>2
    <2>5. g[s] \in Nat
      BY <2>3
    <2>6. QED
      BY <2>4, <2>5
  <1>4. ASSUME NEW s \in SUBSET S PROVE Takes(s)
    <2>1. Cardinality(S) \in Nat /\ Cardinality(s) <= Cardinality(S)
      BY FS_CardinalityType, TakenOut
    <2>2. Cardinality(S) \in T
      <3> HIDE DEF T
      <3> QED BY <1>2, <1>3, <2>1, NatSet
    <2> HIDE DEF Takes
    <2>3. QED
      BY <2>1, <2>2
  <1>5. QED
    BY <1>4

\* Two sums agree on a set on which what they add agrees.
LEMMA SumAgree ==
  ASSUME NEW S, IsFiniteSet(S), NEW f, NEW g, IsSum(S, f, g),
         NEW T, IsFiniteSet(T), NEW h, NEW k, IsSum(T, h, k),
         NEW A, A \subseteq S, A \subseteq T, \A x \in A : f[x] = h[x]
  PROVE  g[A] = k[A]
  <1> DEFINE N == {n \in Nat : \A s \in SUBSET A : Cardinality(s) <= n => g[s] = k[s]}
  <1>1. /\ g[{}] = 0 /\ k[{}] = 0
        /\ \A s \in SUBSET A : s # {} => /\ g[s] = f[Taken(s)] + g[s \ {Taken(s)}]
                                         /\ k[s] = h[Taken(s)] + k[s \ {Taken(s)}]
    BY DEF IsSum
  <1>2. IsFiniteSet(A) /\ Cardinality(A) \in Nat
    BY FS_Subset, FS_CardinalityType
  <1>3. 0 \in N
    <2>1. \A s \in SUBSET A : Cardinality(s) <= 0 => s = {}
      BY <1>2, TakenOut
    <2>2. QED
      BY <1>1, <2>1
  <1>4. ASSUME NEW n \in Nat, n \in N PROVE n + 1 \in N
    <2> SUFFICES ASSUME NEW s \in SUBSET A, Cardinality(s) <= n + 1, s # {} PROVE g[s] = k[s]
      BY <1>1
    <2>1. /\ Taken(s) \in A /\ s \ {Taken(s)} \in SUBSET A
          /\ Cardinality(s \ {Taken(s)}) = Cardinality(s) - 1 /\ Cardinality(s) \in Nat
      BY <1>2, TakenOut
    <2>2. Cardinality(s \ {Taken(s)}) <= n
      BY <2>1
    <2>3. g[s \ {Taken(s)}] = k[s \ {Taken(s)}] /\ f[Taken(s)] = h[Taken(s)]
      BY <1>4, <2>1, <2>2
    <2>4. QED
      BY <1>1, <2>3
  <1>5. Cardinality(A) \in N
    <2> HIDE DEF N
    <2> QED BY <1>2, <1>3, <1>4, NatSet
  <1>6. QED
    BY <1>2, <1>5

\* One more element adds its own weight.
LEMMA SumGrows ==
  ASSUME NEW D, IsFiniteSet(D), NEW f \in [D -> Nat], NEW g, IsSum(D, f, g),
         NEW E, NEW x \in E, D = E \ {x}, NEW h \in [E -> Nat], NEW k, IsSum(E, h, k),
         \A d \in D : h[d] = f[d]
  PROVE  k[E] = g[D] + h[x] /\ g[D] \in Nat /\ h[x] \in Nat
  <1>1. IsFiniteSet(E) /\ E \in SUBSET E /\ D \in SUBSET D /\ D \subseteq E
    <2>1. E = D \cup {x}
      OBVIOUS
    <2>2. QED
      BY <2>1, FS_AddElement
  <1>2. k[E] = h[x] + k[E \ {x}]
    <2>1. \A s \in SUBSET E, y \in E : y \in s => k[s] = h[y] + k[s \ {y}]
      BY <1>1, SumTake
    <2>2. QED
      BY <1>1, <2>1
  <1>3. k[D] = g[D]
    BY <1>1, SumAgree
  <1>4. g[D] \in Nat
    BY <1>1, SumTake
  <1>5. h[x] \in Nat
    OBVIOUS
  <1>6. QED
    BY <1>2, <1>3, <1>4, <1>5

\* A set of the same weights has the same sum.
LEMMA SumSame ==
  ASSUME NEW D, IsFiniteSet(D), NEW f, NEW g, IsSum(D, f, g),
         NEW h, NEW k, IsSum(D, h, k), \A d \in D : h[d] = f[d]
  PROVE  k[D] = g[D]
  BY SumAgree

---------------------------------------------------------------------------
(* The tree without its tables: the root, the directories, the documents   *)
(* and the manifest of every directory.                                    *)

Tree == [root |-> Root, dirs |-> Directories, docs |-> Documents,
         man |-> [d \in Directories |-> Manifest(d)]]

WellTree(t) ==
  /\ t.root \subseteq t.dirs /\ \A i, j \in t.root : i = j
  /\ t.root = {} => t.dirs = {} /\ t.docs = {}
  /\ t.dirs \subseteq Positive /\ t.docs \subseteq Positive /\ t.dirs \cap t.docs = {}
  /\ t.man \in [t.dirs -> [Names -> Nat]]
  /\ \A d \in t.dirs, name \in Names :
       \/ t.man[d][name] = NULL
       \/ t.man[d][name] \in (t.dirs \cup t.docs) \ t.root /\ t.man[d][name] > d
  /\ \A d, e \in t.dirs : \A one, other \in Names :
       t.man[d][one] = t.man[e][other] /\ t.man[d][one] # NULL => d = e /\ one = other
  /\ \A i \in (t.dirs \cup t.docs) \ t.root : \E d \in t.dirs, name \in Names : t.man[d][name] = i

\* The containers met on the way to a path, and the document found there.
EntriesOf(t, found, name) == {t.man[d][name] : d \in found}
Walk(t, path, met) ==
  /\ met[0] = t.root
  /\ \A n \in 1..(Len(path) - 1) :
       met[n] = t.dirs \cap EntriesOf(t, met[n - 1], path[n])
Found(t, path, met) == t.docs \cap EntriesOf(t, met[Len(path) - 1], path[Len(path)])

\* A path is a sequence of at least one name.
LEMMA PathLength ==
  ASSUME NEW path \in Paths
  PROVE  /\ Len(path) \in Positive /\ Len(path) - 1 \in Nat
         /\ \A n \in 1..Len(path) : path[n] \in Names
         /\ Last(path) = path[Len(path)] /\ path \in Seq(Names)
  BY PathsAssumption DEF Positive, Last

\* Every container met is a directory; the next ones are its entries that are directories.
Steps(t, path, met) ==
  /\ \A n \in 0..(Len(path) - 1) : met[n] \subseteq t.dirs
  /\ \A n \in Nat : n + 1 <= Len(path) - 1 =>
       \A x : x \in met[n + 1] <=>
         /\ x \in t.dirs
         /\ \E d \in met[n] : d \in t.dirs /\ x = t.man[d][path[n + 1]]
LEMMA WalkStep ==
  ASSUME NEW t, WellTree(t), NEW path \in Paths, NEW met, Walk(t, path, met)
  PROVE  Steps(t, path, met)
  <1>1. Len(path) \in Nat
    BY PathLength DEF Positive
  <1>2. ASSUME NEW n \in 0..(Len(path) - 1) PROVE met[n] \subseteq t.dirs
    <2>1. CASE n = 0
      BY <2>1 DEF Walk, WellTree
    <2>2. CASE n # 0
      <3>1. n \in 1..(Len(path) - 1)
        BY <1>1, <2>2
      <3>2. QED
        BY <3>1 DEF Walk
    <2>3. QED
      BY <2>1, <2>2
  <1>3. ASSUME NEW n \in Nat, n + 1 <= Len(path) - 1, NEW x
        PROVE  x \in met[n + 1] <=>
                 /\ x \in t.dirs
                 /\ \E d \in met[n] : d \in t.dirs /\ x = t.man[d][path[n + 1]]
    <2>1. n + 1 \in 1..(Len(path) - 1) /\ (n + 1) - 1 = n /\ n \in 0..(Len(path) - 1)
      BY <1>1, <1>3
    <2>2. met[n + 1] = t.dirs \cap EntriesOf(t, met[n], path[n + 1])
      <3>1. met[n + 1] = t.dirs \cap EntriesOf(t, met[(n + 1) - 1], path[n + 1])
        BY <2>1 DEF Walk
      <3>2. QED
        BY <2>1, <3>1
    <2>3. QED
      BY <1>2, <2>1, <2>2 DEF EntriesOf
  <1>4. QED
    BY <1>2, <1>3 DEF Steps

\* No two entries name one object.
LEMMA OneEntry ==
  ASSUME NEW t, WellTree(t), NEW d \in t.dirs, NEW e \in t.dirs,
         NEW one \in Names, NEW other \in Names,
         t.man[d][one] = t.man[e][other], t.man[d][one] # NULL
  PROVE  d = e /\ one = other
  BY DEF WellTree

\* Two walks meet in one container only where their paths have agreed so far.
LEMMA WalksMeet ==
  ASSUME NEW t, WellTree(t), NEW p \in Paths, NEW q \in Paths,
         NEW mp, Walk(t, p, mp), NEW mq, Walk(t, q, mq),
         NEW m \in 0..(Len(p) - 1), NEW k \in 0..(Len(q) - 1), NEW x \in mp[m], x \in mq[k]
  PROVE  m = k /\ \A n \in 1..m : p[n] = q[n]
  <1> DEFINE Agree(a, b) == a = b /\ \A n \in 1..a : p[n] = q[n]
             S == {a \in Nat : a <= Len(p) - 1 =>
                     \A b \in 0..(Len(q) - 1) : \A y \in mp[a] : y \in mq[b] => Agree(a, b)}
  <1>1. /\ Len(p) \in Nat /\ Len(q) \in Nat
        /\ \A n \in 1..Len(p) : p[n] \in Names
        /\ \A n \in 1..Len(q) : q[n] \in Names
    BY PathLength DEF Positive
  <1>2. \A n \in Nat : n + 1 <= Len(q) - 1 =>
          \A y : y \in mq[n + 1] <=>
            y \in t.dirs /\ \E d \in mq[n] : d \in t.dirs /\ y = t.man[d][q[n + 1]]
    <2>1. Steps(t, q, mq)
      BY WalkStep
    <2>2. QED
      BY <2>1 DEF Steps
  <1>3. /\ \A n \in 0..(Len(p) - 1) : mp[n] \subseteq t.dirs
        /\ \A n \in 0..(Len(q) - 1) : mq[n] \subseteq t.dirs
    <2>1. Steps(t, p, mp) /\ Steps(t, q, mq)
      BY WalkStep
    <2>2. QED
      BY <2>1 DEF Steps
  <1>4. ASSUME NEW b \in Nat, b + 1 <= Len(q) - 1, NEW y \in mq[b + 1]
        PROVE  /\ y \notin t.root
               /\ \E d \in mq[b] : d \in t.dirs /\ q[b + 1] \in Names /\ y = t.man[d][q[b + 1]]
    <2>1. PICK d \in mq[b] : y = t.man[d][q[b + 1]] /\ y \in t.dirs /\ d \in t.dirs
      BY <1>2, <1>4
    <2>2. d \in t.dirs /\ q[b + 1] \in Names
      BY <1>1, <1>4, <2>1
    <2>3. QED
      BY <2>1, <2>2 DEF WellTree, Positive, NULL
  <1>5. 0 \in S
    <2> SUFFICES ASSUME NEW b \in 0..(Len(q) - 1), NEW y \in mp[0], y \in mq[b]
                 PROVE  b = 0
      OBVIOUS
    <2>1. y \in t.root
      BY DEF Walk
    <2>2. CASE b # 0
      <3>1. b - 1 \in Nat /\ (b - 1) + 1 = b
        BY <2>2
      <3>2. b - 1 \in Nat /\ (b - 1) + 1 <= Len(q) - 1 /\ y \in mq[(b - 1) + 1]
        BY <3>1
      <3>3. y \notin t.root
        BY <1>4, <3>2
      <3>4. QED
        BY <2>1, <3>3
    <2>3. QED
      BY <2>2
  <1>6. ASSUME NEW a \in Nat, a \in S PROVE a + 1 \in S
    <2>0. a + 1 \in Nat
      OBVIOUS
    <2> SUFFICES ASSUME a + 1 <= Len(p) - 1, NEW b \in 0..(Len(q) - 1), NEW y \in mp[a + 1],
                        y \in mq[b]
                 PROVE  Agree(a + 1, b)
      <3> HIDE DEF Agree
      <3> QED BY <2>0
    <2>1. PICK d \in mp[a] : d \in t.dirs /\ y = t.man[d][p[a + 1]] /\ y \in t.dirs
      <3>1. Steps(t, p, mp)
        BY WalkStep
      <3>2. QED
        BY <3>1 DEF Steps
    <2>2. p[a + 1] \in Names /\ y \notin t.root /\ y # NULL
      <3>1. p[a + 1] \in Names
        BY <1>1
      <3>2. QED
        BY <2>1, <3>1 DEF WellTree, Positive, NULL
    <2>3. b # 0
      BY <2>2 DEF Walk
    <2>4. b - 1 \in Nat /\ (b - 1) + 1 = b /\ b - 1 \in 0..(Len(q) - 1)
      BY <1>1, <2>3
    <2>5. PICK e \in mq[b - 1] : e \in t.dirs /\ q[b] \in Names /\ y = t.man[e][q[b]]
      <3>1. b - 1 \in Nat /\ (b - 1) + 1 <= Len(q) - 1 /\ y \in mq[(b - 1) + 1]
        BY <2>4
      <3>2. \E e \in mq[b - 1] : e \in t.dirs /\ q[(b - 1) + 1] \in Names
                                   /\ y = t.man[e][q[(b - 1) + 1]]
        BY <1>4, <3>1
      <3>3. QED
        BY <2>4, <3>2
    <2>6. d = e /\ p[a + 1] = q[b]
      <3>1. /\ d \in t.dirs /\ e \in t.dirs /\ p[a + 1] \in Names /\ q[b] \in Names
            /\ t.man[d][p[a + 1]] = t.man[e][q[b]] /\ t.man[d][p[a + 1]] # NULL
        BY <2>1, <2>2, <2>5
      <3> HIDE DEF S
      <3>2. QED
        BY <3>1, OneEntry
    <2>7. Agree(a, b - 1)
      <3>1. a <= Len(p) - 1
        BY <1>1
      <3>2. \A c \in 0..(Len(q) - 1) : \A z \in mp[a] : z \in mq[c] => Agree(a, c)
        BY <1>6, <3>1
      <3> HIDE DEF Agree
      <3>3. QED
        BY <2>1, <2>4, <2>5, <2>6, <3>2
    <2>8. QED
      BY <2>4, <2>6, <2>7
  <1>7. m \in S
    <2> HIDE DEF S
    <2> QED BY <1>5, <1>6, NatSet
  <1>8. QED
    BY <1>1, <1>7

\* At most one container is met at each segment.
LEMMA WalkOne ==
  ASSUME NEW t, WellTree(t), NEW path \in Paths, NEW met, Walk(t, path, met),
         NEW m \in 0..(Len(path) - 1), NEW x \in met[m], NEW y \in met[m]
  PROVE  x = y
  <1> DEFINE S == {a \in Nat : a <= Len(path) - 1 => \A u, v \in met[a] : u = v}
  <1>1. Len(path) \in Nat /\ Steps(t, path, met)
    BY PathLength, WalkStep DEF Positive
  <1>2. 0 \in S
    BY DEF Walk, WellTree
  <1>3. ASSUME NEW a \in Nat, a \in S PROVE a + 1 \in S
    <2> SUFFICES ASSUME a + 1 <= Len(path) - 1, NEW u \in met[a + 1], NEW v \in met[a + 1]
                 PROVE  u = v
      OBVIOUS
    <2>1. PICK d \in met[a] : u = t.man[d][path[a + 1]]
      BY <1>1 DEF Steps
    <2>2. PICK e \in met[a] : v = t.man[e][path[a + 1]]
      BY <1>1 DEF Steps
    <2>3. a <= Len(path) - 1
      BY <1>1
    <2>4. QED
      BY <1>3, <2>1, <2>2, <2>3
  <1>4. m \in S
    <2> HIDE DEF S
    <2> QED BY <1>2, <1>3, NatSet
  <1>5. QED
    BY <1>1, <1>4

\* Where a container is met, one is met at every segment before.
LEMMA WalkBack ==
  ASSUME NEW t, WellTree(t), NEW path \in Paths, NEW met, Walk(t, path, met),
         NEW k \in 0..(Len(path) - 1), met[k] # {}, NEW m \in 0..k
  PROVE  met[m] # {}
  <1> DEFINE S == {a \in Nat : a <= Len(path) - 1 /\ met[a] # {} =>
                     \A b \in 0..a : met[b] # {}}
  <1>1. Len(path) \in Nat /\ Steps(t, path, met)
    BY PathLength, WalkStep DEF Positive
  <1>2. 0 \in S
    OBVIOUS
  <1>3. ASSUME NEW a \in Nat, a \in S PROVE a + 1 \in S
    <2> SUFFICES ASSUME a + 1 <= Len(path) - 1, met[a + 1] # {}, NEW b \in 0..(a + 1)
                 PROVE  met[b] # {}
      OBVIOUS
    <2>1. met[a] # {}
      BY <1>1 DEF Steps
    <2>2. a <= Len(path) - 1
      BY <1>1
    <2>3. CASE b = a + 1
      BY <2>3
    <2>4. CASE b # a + 1
      <3>1. b \in 0..a
        BY <2>4
      <3>2. QED
        BY <1>3, <2>1, <2>2, <3>1
    <2>5. QED
      BY <2>3, <2>4
  <1>4. k \in S
    <2> HIDE DEF S
    <2> QED BY <1>2, <1>3, NatSet
  <1>5. QED
    BY <1>1, <1>4

\* Walks to paths that begin alike begin alike.
LEMMA WalkAlike ==
  ASSUME NEW t, WellTree(t), NEW p \in Paths, NEW q \in Paths,
         NEW mp, Walk(t, p, mp), NEW mq, Walk(t, q, mq),
         NEW m \in Nat, m <= Len(p) - 1, m <= Len(q) - 1, \A n \in 1..m : p[n] = q[n]
  PROVE  mp[m] = mq[m]
  <1> DEFINE S == {a \in Nat : a <= m => mp[a] = mq[a]}
  <1>1. /\ Len(p) \in Nat /\ Len(q) \in Nat
        /\ Steps(t, p, mp) /\ Steps(t, q, mq)
    BY PathLength, WalkStep DEF Positive
  <1>2. 0 \in S
    BY DEF Walk
  <1>3. ASSUME NEW a \in Nat, a \in S PROVE a + 1 \in S
    <2> SUFFICES ASSUME a + 1 <= m PROVE mp[a + 1] = mq[a + 1]
      OBVIOUS
    <2>1. /\ mp[a] = mq[a] /\ p[a + 1] = q[a + 1]
          /\ a + 1 <= Len(p) - 1 /\ a + 1 <= Len(q) - 1
      BY <1>1, <1>3
    <2>2. mp[a + 1] = mq[a + 1]
      <3>1. mp[a + 1] = t.dirs \cap EntriesOf(t, mp[a], p[a + 1])
        <4>1. a + 1 \in 1..(Len(p) - 1) /\ (a + 1) - 1 = a
          BY <1>1, <2>1
        <4>2. mp[a + 1] = t.dirs \cap EntriesOf(t, mp[(a + 1) - 1], p[a + 1])
          BY <4>1 DEF Walk
        <4>3. QED BY <4>1, <4>2
      <3>2. mq[a + 1] = t.dirs \cap EntriesOf(t, mq[a], q[a + 1])
        <4>1. a + 1 \in 1..(Len(q) - 1) /\ (a + 1) - 1 = a
          BY <1>1, <2>1
        <4>2. mq[a + 1] = t.dirs \cap EntriesOf(t, mq[(a + 1) - 1], q[a + 1])
          BY <4>1 DEF Walk
        <4>3. QED BY <4>1, <4>2
      <3>3. QED
        BY <2>1, <3>1, <3>2
    <2>3. QED
      BY <2>2
  <1>4. m \in S
    <2> HIDE DEF S
    <2> QED BY <1>2, <1>3, NatSet
  <1>5. QED
    BY <1>4

\* What a path names is an entry under its last name in the last container met.
LEMMA FoundEntry ==
  ASSUME NEW t, WellTree(t), NEW path \in Paths, NEW met, Walk(t, path, met), NEW i
  PROVE  i \in Found(t, path, met) <=>
           /\ i \in t.docs
           /\ \E d \in met[Len(path) - 1] : d \in t.dirs /\ i = t.man[d][path[Len(path)]]
  <1>1. Len(path) - 1 \in 0..(Len(path) - 1) /\ Steps(t, path, met)
    BY PathLength, WalkStep DEF Positive
  <1>2. QED
    BY <1>1 DEF Found, EntriesOf, Steps

\* A path names at most one document, and a document has at most one path.
LEMMA FoundOne ==
  ASSUME NEW t, WellTree(t), NEW p \in Paths, NEW q \in Paths,
         NEW mp, Walk(t, p, mp), NEW mq, Walk(t, q, mq),
         NEW x \in Found(t, p, mp)
  PROVE  /\ \A y \in Found(t, p, mp) : y = x
         /\ x \in Found(t, q, mq) => p = q
  <1>1. /\ Len(p) \in Nat /\ Len(p) - 1 \in 0..(Len(p) - 1) /\ p[Len(p)] \in Names
        /\ Len(q) \in Nat /\ Len(q) - 1 \in 0..(Len(q) - 1) /\ q[Len(q)] \in Names
        /\ p \in Seq(Names) /\ q \in Seq(Names)
    BY PathLength DEF Positive
  <1>2. PICK d \in mp[Len(p) - 1] : d \in t.dirs /\ x = t.man[d][p[Len(p)]] /\ x \in t.docs
    BY FoundEntry
  <1>3. ASSUME NEW y \in Found(t, p, mp) PROVE y = x
    <2>1. PICK e \in mp[Len(p) - 1] : e \in t.dirs /\ y = t.man[e][p[Len(p)]]
      BY FoundEntry
    <2>2. d = e
      BY <1>1, <1>2, <2>1, WalkOne
    <2>3. QED
      BY <1>2, <2>1, <2>2
  <1>4. ASSUME x \in Found(t, q, mq) PROVE p = q
    <2>1. PICK e \in mq[Len(q) - 1] : e \in t.dirs /\ x = t.man[e][q[Len(q)]]
      BY <1>4, FoundEntry
    <2>2. x # NULL
      BY <1>2 DEF WellTree, Positive, NULL
    <2>3. d = e /\ p[Len(p)] = q[Len(q)]
      <3>1. /\ d \in t.dirs /\ e \in t.dirs /\ p[Len(p)] \in Names /\ q[Len(q)] \in Names
            /\ t.man[d][p[Len(p)]] = t.man[e][q[Len(q)]] /\ t.man[d][p[Len(p)]] # NULL
        BY <1>1, <1>2, <2>1, <2>2
      <3>2. QED
        BY <3>1, OneEntry
    <2>4. Len(p) - 1 = Len(q) - 1 /\ \A n \in 1..(Len(p) - 1) : p[n] = q[n]
      BY <1>1, <1>2, <2>1, <2>3, WalksMeet
    <2>5. Len(p) = Len(q) /\ \A n \in 1..Len(p) : p[n] = q[n]
      BY <1>1, <2>3, <2>4
    <2>6. QED
      BY <1>1, <2>5, SeqEqual
  <1>5. QED
    BY <1>3, <1>4

\* A document on the way is where the walk to any longer path ends.
LEMMA DocumentBlocks ==
  ASSUME NEW t, WellTree(t), NEW p \in Paths, NEW q \in Paths,
         NEW mp, Walk(t, p, mp), NEW mq, Walk(t, q, mq),
         Len(q) <= Len(p), \A n \in 1..Len(q) : p[n] = q[n],
         NEW i \in Found(t, q, mq)
  PROVE  /\ \E d \in mp[Len(q) - 1] : i = t.man[d][p[Len(q)]]
         /\ i \in t.docs
         /\ Len(q) <= Len(p) - 1 => mp[Len(q)] = {}
  <1> DEFINE m == Len(q)
  <1>1. /\ Len(p) \in Nat /\ m \in Nat /\ m - 1 \in Nat /\ m >= 1
        /\ m - 1 \in 0..(Len(q) - 1) /\ m - 1 \in 0..(Len(p) - 1)
    BY PathLength DEF Positive
  <1>2. mp[m - 1] = mq[m - 1]
    <2>1. m - 1 <= Len(p) - 1 /\ m - 1 <= Len(q) - 1 /\ \A n \in 1..(m - 1) : p[n] = q[n]
      BY <1>1
    <2>2. QED
      BY <1>1, <2>1, WalkAlike
  <1>3. PICK d \in mp[m - 1] : i = t.man[d][p[m]] /\ i \in t.docs
    <2>1. PICK d \in mq[m - 1] : i = t.man[d][q[m]] /\ i \in t.docs
      BY FoundEntry
    <2>2. QED
      BY <1>1, <1>2, <2>1
  <1>4. ASSUME m <= Len(p) - 1, NEW x \in mp[m] PROVE FALSE
    <2>1. (m - 1) + 1 = m
      BY <1>1
    <2>2. \A y : y \in mp[(m - 1) + 1] <=>
            y \in t.dirs /\ \E e \in mp[m - 1] : e \in t.dirs /\ y = t.man[e][p[(m - 1) + 1]]
      BY <1>1, <1>4, WalkStep DEF Steps
    <2>3. PICK e \in mp[m - 1] : x \in t.dirs /\ x = t.man[e][p[m]]
      BY <1>4, <2>1, <2>2
    <2>4. e = d
      BY <1>1, <1>3, WalkOne
    <2>5. QED
      BY <1>3, <2>3, <2>4 DEF WellTree
  <1>5. QED
    BY <1>3, <1>4

\* No document has a name that a longer path uses for a directory.
LEMMA PrefixEmpty ==
  ASSUME NEW t, WellTree(t), NEW p \in Paths, NEW q \in Paths,
         NEW mp, Walk(t, p, mp), NEW mq, Walk(t, q, mq),
         IsStrictPrefix(q, p), Found(t, p, mp) # {}
  PROVE  Found(t, q, mq) = {}
  <1>1. /\ Len(p) \in Nat /\ Len(q) \in Nat /\ Len(p) - 1 \in 0..(Len(p) - 1)
        /\ Len(q) \in 0..(Len(p) - 1) /\ \A n \in 1..Len(q) : p[n] = q[n]
    <2>1. p \in Seq(Names) /\ q \in Seq(Names) /\ Len(p) \in Positive /\ Len(q) \in Positive
      BY PathLength
    <2>2. Len(q) <= Len(p) /\ \A n \in 1..Len(q) : p[n] = q[n]
      BY <2>1 DEF IsStrictPrefix, IsPrefix, Positive
    <2>3. Len(q) # Len(p)
      BY <2>1, <2>2, SeqEqual DEF IsStrictPrefix
    <2>4. QED
      BY <2>1, <2>2, <2>3 DEF Positive
  <1>2. mp[Len(p) - 1] # {}
    BY FoundEntry
  <1>3. mp[Len(q)] # {}
    BY <1>1, <1>2, WalkBack
  <1>4. ASSUME NEW i \in Found(t, q, mq) PROVE FALSE
    <2>1. Len(q) <= Len(p) /\ Len(q) <= Len(p) - 1
      BY <1>1
    <2>2. QED
      BY <1>1, <1>3, <2>1, DocumentBlocks
  <1>5. QED
    BY <1>4

\* Where a directory lacks the next entry of a path, neither the path nor a
\* path it begins with names a document.
LEMMA GapEmpty ==
  ASSUME NEW t, WellTree(t), NEW p \in Paths, NEW q \in Paths,
         NEW mp, Walk(t, p, mp), NEW mq, Walk(t, q, mq),
         NEW k \in 1..Len(p), NEW parent \in mp[k - 1], t.man[parent][p[k]] = NULL,
         Len(q) <= Len(p), \A n \in 1..Len(q) : p[n] = q[n]
  PROVE  Found(t, q, mq) = {}
  <1> SUFFICES ASSUME NEW i \in Found(t, q, mq) PROVE FALSE
    OBVIOUS
  <1>1. /\ Len(p) \in Nat /\ Len(q) \in Nat /\ Len(q) >= 1
        /\ k - 1 \in 0..(Len(p) - 1) /\ Len(q) - 1 \in 0..(Len(p) - 1)
    BY PathLength DEF Positive
  <1>2. PICK d \in mp[Len(q) - 1] : i = t.man[d][p[Len(q)]] /\ i \in t.docs
    BY DocumentBlocks
  <1>3. i # NULL
    BY <1>2 DEF WellTree, Positive, NULL
  <1>4. CASE Len(q) = k
    <2>1. d = parent
      BY <1>1, <1>2, <1>4, WalkOne
    <2>2. QED
      BY <1>2, <1>3, <1>4, <2>1
  <1>5. CASE Len(q) < k
    <2>1. Len(q) \in 0..(k - 1) /\ Len(q) <= Len(p) - 1
      BY <1>1, <1>5
    <2>2. mp[Len(q)] # {}
      BY <1>1, <2>1, WalkBack
    <2>3. QED
      BY <2>1, <2>2, DocumentBlocks
  <1>6. CASE Len(q) > k
    <2>1. k \in 0..(Len(q) - 1) /\ k \in 0..(Len(p) - 1) /\ k - 1 \in Nat /\ (k - 1) + 1 = k
      BY <1>1, <1>6
    <2>2. mp[k] # {}
      BY <1>1, <1>2, <2>1, WalkBack
    <2>3. \A y : y \in mp[(k - 1) + 1] <=>
            y \in t.dirs /\ \E e \in mp[k - 1] : e \in t.dirs /\ y = t.man[e][p[(k - 1) + 1]]
      BY <1>1, <2>1, WalkStep DEF Steps
    <2>4. PICK y \in t.dirs : \E e \in mp[k - 1] : y = t.man[e][p[k]]
      <3>1. PICK y : y \in mp[(k - 1) + 1]
        BY <2>1, <2>2
      <3>2. y \in t.dirs /\ \E e \in mp[k - 1] : e \in t.dirs /\ y = t.man[e][p[(k - 1) + 1]]
        BY <2>3, <3>1
      <3>3. QED
        BY <2>1, <3>2
    <2>5. PICK e \in mp[k - 1] : y = t.man[e][p[k]]
      BY <2>4
    <2>6. e = parent
      BY <1>1, WalkOne
    <2>7. QED
      BY <2>4, <2>5, <2>6 DEF WellTree, Positive, NULL
  <1>7. QED
    BY <1>1, <1>4, <1>5, <1>6

---------------------------------------------------------------------------
(* Changes of the tree.                                                    *)

\* Everything that is in both trees is entered under the same names in both.
Kept(t, u) ==
  /\ t.dirs \subseteq u.dirs /\ u.root \cap t.dirs = t.root
  /\ \A d \in u.dirs, name \in Names, x \in t.dirs \cup (t.docs \cap u.docs) :
       u.man[d][name] = x <=> d \in t.dirs /\ t.man[d][name] = x

\* The directories of the smaller tree are met as before.
LEMMA KeptWalk ==
  ASSUME NEW t, WellTree(t), NEW u, WellTree(u), Kept(t, u),
         NEW path \in Paths, NEW mt, Walk(t, path, mt), NEW mu, Walk(u, path, mu),
         NEW m \in 0..(Len(path) - 1)
  PROVE  mu[m] \cap t.dirs = mt[m]
  <1> DEFINE S == {a \in Nat : a <= Len(path) - 1 => mu[a] \cap t.dirs = mt[a]}
  <1>1. /\ Len(path) \in Nat /\ Steps(t, path, mt) /\ Steps(u, path, mu)
        /\ \A n \in 1..Len(path) : path[n] \in Names
    BY PathLength, WalkStep DEF Positive
  <1>2. 0 \in S
    BY DEF Walk, Kept
  <1>3. ASSUME NEW a \in Nat, a \in S PROVE a + 1 \in S
    <2> SUFFICES ASSUME a + 1 <= Len(path) - 1 PROVE mu[a + 1] \cap t.dirs = mt[a + 1]
      OBVIOUS
    <2>1. /\ mu[a] \cap t.dirs = mt[a] /\ path[a + 1] \in Names
          /\ mt[a + 1] \subseteq t.dirs /\ mt[a] \subseteq t.dirs
      BY <1>1, <1>3 DEF Steps
    <2>2. \A x : x \in mt[a + 1] <=>
            x \in t.dirs /\ \E d \in mt[a] : d \in t.dirs /\ x = t.man[d][path[a + 1]]
      BY <1>1 DEF Steps
    <2>3. \A x : x \in mu[a + 1] <=>
            x \in u.dirs /\ \E d \in mu[a] : d \in u.dirs /\ x = u.man[d][path[a + 1]]
      BY <1>1 DEF Steps
    <2>4. ASSUME NEW x \in t.dirs PROVE x \in mu[a + 1] <=> x \in mt[a + 1]
      <3>1. x \in u.dirs
        BY DEF Kept
      <3>2. \A d \in u.dirs : u.man[d][path[a + 1]] = x <=>
              d \in t.dirs /\ t.man[d][path[a + 1]] = x
        BY <2>1 DEF Kept
      <3>3. t.dirs \subseteq u.dirs
        BY DEF Kept
      <3>4. QED
        BY <2>1, <2>2, <2>3, <3>1, <3>2, <3>3
    <2>5. QED
      BY <2>1, <2>4
  <1>4. m \in S
    <2> HIDE DEF S
    <2> QED BY <1>2, <1>3, NatSet
  <1>5. QED
    BY <1>1, <1>4

\* So are the documents of both trees found.
LEMMA KeptFound ==
  ASSUME NEW t, WellTree(t), NEW u, WellTree(u), Kept(t, u),
         NEW path \in Paths, NEW mt, Walk(t, path, mt), NEW mu, Walk(u, path, mu),
         NEW i \in t.docs \cap u.docs
  PROVE  i \in Found(u, path, mu) <=> i \in Found(t, path, mt)
  <1> DEFINE last == Len(path) - 1
             name == path[Len(path)]
  <1>1. last \in 0..(Len(path) - 1) /\ name \in Names /\ Steps(t, path, mt) /\ Steps(u, path, mu)
    BY PathLength, WalkStep DEF Positive
  <1>2. /\ mu[last] \cap t.dirs = mt[last]
        /\ mu[last] \subseteq u.dirs /\ mt[last] \subseteq t.dirs
    BY <1>1, KeptWalk DEF Steps
  <1>3. \A d \in u.dirs : u.man[d][name] = i <=> d \in t.dirs /\ t.man[d][name] = i
    BY <1>1 DEF Kept
  <1>4. t.dirs \subseteq u.dirs
    BY DEF Kept
  <1>5. /\ i \in Found(t, path, mt) <=>
             \E d \in mt[last] : d \in t.dirs /\ i = t.man[d][name]
        /\ i \in Found(u, path, mu) <=>
             \E d \in mu[last] : d \in u.dirs /\ i = u.man[d][name]
    BY FoundEntry
  <1>6. QED
    <2> HIDE DEF last, name
    <2> QED BY <1>2, <1>3, <1>4, <1>5

\* A delete: the document and its entry go.
Pruned(t, i, parent, name) ==
  [root |-> t.root, dirs |-> t.dirs, docs |-> t.docs \ {i},
   man |-> [d \in t.dirs |->
              IF d = parent THEN [t.man[d] EXCEPT ![name] = NULL] ELSE t.man[d]]]

\* A tree without one of its documents and the entry of it is a tree.
LEMMA PrunedTree ==
  ASSUME NEW t, WellTree(t), NEW i \in t.docs, NEW parent \in t.dirs, NEW name \in Names,
         t.man[parent][name] = i
  PROVE  /\ WellTree(Pruned(t, i, parent, name))
         /\ Kept(t, Pruned(t, i, parent, name))
  <1> DEFINE u == Pruned(t, i, parent, name)
  <1>1. /\ u.root = t.root /\ u.dirs = t.dirs /\ u.docs = t.docs \ {i}
        /\ u.man = [d \in t.dirs |->
              IF d = parent THEN [t.man[d] EXCEPT ![name] = NULL] ELSE t.man[d]]
    BY DEF Pruned
  <1>2. i \in Positive /\ i # NULL /\ i \notin t.dirs /\ NULL \in Nat
    BY DEF WellTree, Positive, NULL
  <1>3. ASSUME NEW d \in t.dirs, NEW nm \in Names
        PROVE  /\ u.man[d][nm] = IF d = parent /\ nm = name THEN NULL ELSE t.man[d][nm]
               /\ u.man[d] \in [Names -> Nat]
               /\ t.man[d][nm] = i => d = parent /\ nm = name
    <2>1. t.man[d] \in [Names -> Nat]
      BY DEF WellTree
    <2>2. t.man[d][nm] = i => d = parent /\ nm = name
      BY <1>2, OneEntry
    <2>3. QED
      BY <1>1, <1>2, <2>1, <2>2
  <1>4. u.man \in [u.dirs -> [Names -> Nat]]
    <2>1. \A d \in t.dirs : u.man[d] \in [Names -> Nat]
      BY <1>3
    <2>2. QED
      <3>1. u.man = [d \in t.dirs |-> u.man[d]]
        BY <1>1
      <3> HIDE DEF u
      <3>2. QED
        BY <1>1, <2>1, <3>1
  <1> HIDE DEF u
  <1>5. WellTree(u)
    <2>1. /\ u.root \subseteq u.dirs /\ \A j, k \in u.root : j = k
          /\ u.root = {} => u.dirs = {} /\ u.docs = {}
          /\ u.dirs \subseteq Positive /\ u.docs \subseteq Positive /\ u.dirs \cap u.docs = {}
      BY <1>1 DEF WellTree
    <2>2. ASSUME NEW d \in u.dirs, NEW nm \in Names
          PROVE  \/ u.man[d][nm] = NULL
                 \/ u.man[d][nm] \in (u.dirs \cup u.docs) \ u.root /\ u.man[d][nm] > d
      <3>1. \/ t.man[d][nm] = NULL
            \/ t.man[d][nm] \in (t.dirs \cup t.docs) \ t.root /\ t.man[d][nm] > d
        BY <1>1 DEF WellTree
      <3>2. CASE d = parent /\ nm = name
        BY <1>1, <1>3, <3>2
      <3>3. CASE ~(d = parent /\ nm = name)
        <4>1. u.man[d][nm] = t.man[d][nm] /\ t.man[d][nm] # i
          BY <1>1, <1>3, <3>3
        <4>2. QED
          BY <1>1, <3>1, <4>1
      <3>4. QED
        BY <3>2, <3>3
    <2>3. ASSUME NEW d \in u.dirs, NEW e \in u.dirs, NEW one \in Names, NEW other \in Names,
                 u.man[d][one] = u.man[e][other], u.man[d][one] # NULL
          PROVE  d = e /\ one = other
      <3>1. t.man[d][one] = t.man[e][other] /\ t.man[d][one] # NULL
        BY <1>1, <1>3, <2>3
      <3>2. QED
        BY <1>1, <3>1, OneEntry
    <2>4. ASSUME NEW j \in (u.dirs \cup u.docs) \ u.root
          PROVE  \E d \in u.dirs, nm \in Names : u.man[d][nm] = j
      <3>1. j # i
        BY <1>1, <1>2
      <3>2. PICK d \in t.dirs, nm \in Names : t.man[d][nm] = j
        BY <1>1 DEF WellTree
      <3>3. u.man[d][nm] = j
        BY <1>3, <3>1, <3>2
      <3>4. QED
        BY <1>1, <3>2, <3>3
    <2>5. QED
      BY <1>4, <2>1, <2>2, <2>3, <2>4 DEF WellTree
  <1>6. Kept(t, u)
    <2>1. ASSUME NEW d \in u.dirs, NEW nm \in Names, NEW x \in t.dirs \cup (t.docs \cap u.docs)
          PROVE  u.man[d][nm] = x <=> d \in t.dirs /\ t.man[d][nm] = x
      <3>1. x # NULL /\ x # i
        BY <1>1, <1>2 DEF WellTree, Positive, NULL
      <3>2. QED
        BY <1>1, <1>3, <3>1
    <2>2. QED
      BY <1>1, <2>1 DEF Kept, WellTree
  <1>7. QED
    BY <1>5, <1>6 DEF u

\* A create: the missing containers one under the other, the document below the
\* last, and an entry for the first of them where the path branches off.
Planted(t, n, path, depth, parents) ==
  LET new == (n + 1)..(n + (Len(path) - depth))
  IN  [root |-> IF depth = 0 THEN {n + 1} ELSE t.root,
       dirs |-> t.dirs \cup new,
       docs |-> t.docs \cup {n + (Len(path) - depth) + 1},
       man |-> [d \in t.dirs \cup new |->
                  IF d \in new THEN [EmptyManifest EXCEPT ![path[depth + (d - n)]] = d + 1]
                  ELSE IF d \in parents THEN [t.man[d] EXCEPT ![path[depth]] = n + 1]
                  ELSE t.man[d]]]

\* Where a path may branch off: at a directory without its next entry, or
\* before there is a root.
Branches(t, n, path, depth, parents) ==
  /\ n \in Nat /\ \A i \in t.dirs \cup t.docs : i <= n
  /\ \/ depth = 0 /\ parents = {} /\ t.root = {}
     \/ /\ depth \in 1..Len(path)
        /\ \E parent \in t.dirs : parents = {parent} /\ t.man[parent][path[depth]] = NULL

\* The entries of the larger tree: the old ones, one where the path branches
\* off, and one in each new container.
Grown(t, u, n, path, depth, parents, missing) ==
  /\ n \in Nat /\ depth \in Nat /\ missing \in Nat /\ Len(path) = depth + missing
  /\ u.root = IF depth = 0 THEN {n + 1} ELSE t.root
  /\ u.dirs = t.dirs \cup ((n + 1)..(n + missing))
  /\ u.docs = t.docs \cup {n + missing + 1}
  /\ u.man \in [u.dirs -> [Names -> Nat]]
  /\ \A d \in (n + 1)..(n + missing) : d \notin t.dirs /\ path[depth + (d - n)] \in Names
  /\ \A d \in t.dirs, name \in Names : u.man[d][name] =
       IF d \in parents /\ name = path[depth] THEN n + 1 ELSE t.man[d][name]
  /\ \A d \in (n + 1)..(n + missing), name \in Names : u.man[d][name] =
       IF name = path[depth + (d - n)] THEN d + 1 ELSE NULL

\* What an insertion makes of the tree is the tree grown.
LEMMA PlantedGrown ==
  ASSUME NEW t, WellTree(t), NEW path \in Paths, NEW n, NEW depth, NEW parents,
         Branches(t, n, path, depth, parents)
  PROVE  Grown(t, Planted(t, n, path, depth, parents), n, path, depth, parents,
               Len(path) - depth)
  <1> SUFFICES ASSUME NEW u, u = Planted(t, n, path, depth, parents),
                      NEW missing, missing = Len(path) - depth
               PROVE  Grown(t, u, n, path, depth, parents, missing)
    OBVIOUS
  <1>1. /\ n \in Nat /\ depth \in Nat /\ Len(path) \in Nat /\ depth <= Len(path)
        /\ \A k \in 1..Len(path) : path[k] \in Names
    BY PathLength DEF Branches, Positive
  <1>2. missing \in Nat /\ Len(path) = depth + missing
    BY <1>1
  <1> DEFINE new == (n + 1)..(n + missing)
  <1>3. /\ u.root = IF depth = 0 THEN {n + 1} ELSE t.root
        /\ u.dirs = t.dirs \cup new
        /\ u.docs = t.docs \cup {n + missing + 1}
        /\ u.man = [d \in t.dirs \cup new |->
                  IF d \in new THEN [EmptyManifest EXCEPT ![path[depth + (d - n)]] = d + 1]
                  ELSE IF d \in parents THEN [t.man[d] EXCEPT ![path[depth]] = n + 1]
                  ELSE t.man[d]]
    BY DEF Planted
  <1>4. ASSUME NEW d \in new
        PROVE  d \notin t.dirs /\ path[depth + (d - n)] \in Names /\ d + 1 \in Nat
    <2>1. depth + (d - n) \in 1..Len(path) /\ ~(d <= n) /\ d + 1 \in Nat
      BY <1>1, <1>2
    <2>2. QED
      BY <1>1, <2>1 DEF Branches
  <1> HIDE DEF new
  <1>5. ASSUME NEW d \in t.dirs
        PROVE  /\ u.man[d] \in [Names -> Nat]
               /\ \A name \in Names : u.man[d][name] =
                    IF d \in parents /\ name = path[depth] THEN n + 1 ELSE t.man[d][name]
    <2>1. t.man[d] \in [Names -> Nat] /\ d \notin new
      BY <1>4 DEF WellTree
    <2>2. u.man[d] = IF d \in parents THEN [t.man[d] EXCEPT ![path[depth]] = n + 1] ELSE t.man[d]
      BY <1>3, <2>1
    <2>3. n + 1 \in Nat
      BY <1>1
    <2>4. QED
      BY <2>1, <2>2, <2>3
  <1>6. ASSUME NEW d \in new
        PROVE  /\ u.man[d] \in [Names -> Nat]
               /\ \A name \in Names : u.man[d][name] =
                    IF name = path[depth + (d - n)] THEN d + 1 ELSE NULL
    <2>1. u.man[d] = [EmptyManifest EXCEPT ![path[depth + (d - n)]] = d + 1]
      BY <1>3
    <2>2. QED
      BY <1>4, <2>1 DEF EmptyManifest, NULL
  <1>7. u.man \in [u.dirs -> [Names -> Nat]]
    <2>1. \A d \in u.dirs : u.man[d] \in [Names -> Nat]
      BY <1>3, <1>5, <1>6
    <2>2. u.man = [d \in u.dirs |-> u.man[d]]
      BY <1>3
    <2>3. QED
      BY <2>1, <2>2
  <1>8. QED
    BY <1>1, <1>2, <1>3, <1>4, <1>5, <1>6, <1>7 DEF new, Grown

\* The larger tree is a tree again and keeps every entry.
LEMMA GrownTree ==
  ASSUME NEW t, WellTree(t), NEW path \in Paths, NEW n, NEW depth, NEW parents,
         Branches(t, n, path, depth, parents), NEW u, NEW missing,
         Grown(t, u, n, path, depth, parents, missing)
  PROVE  WellTree(u) /\ Kept(t, u)
  <1> DEFINE new == (n + 1)..(n + missing)
  <1>1. /\ n \in Nat /\ depth \in Nat /\ missing \in Nat /\ Len(path) = depth + missing
        /\ u.root = IF depth = 0 THEN {n + 1} ELSE t.root
        /\ u.dirs = t.dirs \cup new
        /\ u.docs = t.docs \cup {n + missing + 1}
        /\ u.man \in [u.dirs -> [Names -> Nat]]
        /\ \A d \in new : d \notin t.dirs /\ path[depth + (d - n)] \in Names
        /\ \A d \in t.dirs, name \in Names : u.man[d][name] =
              IF d \in parents /\ name = path[depth] THEN n + 1 ELSE t.man[d][name]
        /\ \A d \in new, name \in Names : u.man[d][name] =
              IF name = path[depth + (d - n)] THEN d + 1 ELSE NULL
    BY DEF Grown
  <1>2. \A i \in t.dirs \cup t.docs : i \in Nat /\ i # 0 /\ i <= n
    BY DEF Branches, WellTree, Positive
  <1>3. \A d \in t.dirs, name \in Names :
          \/ t.man[d][name] = NULL
          \/ t.man[d][name] \in (t.dirs \cup t.docs) \ t.root /\ t.man[d][name] > d
    BY DEF WellTree
  <1>4. Len(path) \in Nat /\ Len(path) >= 1 /\ (depth = 0 => missing >= 1)
    BY <1>1, PathLength DEF Positive
  <1>5. depth # 0 => /\ path[depth] \in Names
                     /\ \E parent \in t.dirs : parents = {parent} /\ t.man[parent][path[depth]] = NULL
    <2>1. depth # 0 => depth \in 1..Len(path)
      BY <1>1
    <2>2. QED
      BY <2>1, PathLength DEF Branches
  <1>6. depth = 0 => parents = {} /\ t.root = {} /\ t.dirs = {} /\ t.docs = {}
    BY <1>4 DEF Branches, WellTree
  <1>7. \A d \in new : d \in Nat /\ d > n /\ d <= n + missing
    BY <1>1
  <1>8. depth # 0 => t.root # {}
    BY <1>5 DEF WellTree
  <1>9. WellTree(u)
    <2>1. /\ u.root \subseteq u.dirs /\ \A j, k \in u.root : j = k
          /\ u.root = {} => u.dirs = {} /\ u.docs = {}
          /\ u.dirs \subseteq Positive /\ u.docs \subseteq Positive /\ u.dirs \cap u.docs = {}
      <3>1. u.root \subseteq u.dirs /\ (\A j, k \in u.root : j = k) /\ u.root # {}
        <4>1. CASE depth = 0
          <5>1. n + 1 \in new
            BY <1>1, <1>4, <4>1
          <5>2. QED
            BY <1>1, <4>1, <5>1
        <4>2. CASE depth # 0
          BY <1>1, <1>8, <4>2 DEF WellTree
        <4>3. QED
          BY <4>1, <4>2
      <3>2. u.dirs \subseteq Positive /\ u.docs \subseteq Positive /\ u.dirs \cap u.docs = {}
        <4>1. n + missing + 1 \in Positive /\ new \subseteq Positive /\ n + missing + 1 \notin new
          BY <1>1 DEF Positive
        <4>2. \A i \in t.docs : i \notin new
          <5> HIDE DEF new
          <5> QED BY <1>1, <1>2, <1>7
        <4>3. n + missing + 1 \notin t.dirs
          <5>1. ~(n + missing + 1 <= n)
            BY <1>1
          <5>2. QED
            BY <1>2, <5>1
        <4>4. t.dirs \subseteq Positive /\ t.docs \subseteq Positive /\ t.dirs \cap t.docs = {}
          BY DEF WellTree
        <4>5. u.dirs = t.dirs \cup new /\ u.docs = t.docs \cup {n + missing + 1}
          BY <1>1
        <4> HIDE DEF new
        <4>6. QED
          BY <4>1, <4>2, <4>3, <4>4, <4>5
      <3>3. QED
        BY <3>1, <3>2
    <2>2. ASSUME NEW d \in u.dirs, NEW name \in Names
          PROVE  \/ u.man[d][name] = NULL
                 \/ u.man[d][name] \in (u.dirs \cup u.docs) \ u.root /\ u.man[d][name] > d
      <3>1. CASE d \in t.dirs /\ d \in parents /\ name = path[depth]
        <4>1. u.man[d][name] = n + 1 /\ depth # 0 /\ d <= n /\ d \in Nat
          BY <1>1, <1>2, <1>6, <3>1
        <4>2. n + 1 \in new \/ n + 1 = n + missing + 1
          BY <1>1
        <4>3. n + 1 \notin t.root
          BY <1>1, <1>2 DEF WellTree
        <4>4. QED
          BY <1>1, <4>1, <4>2, <4>3
      <3>2. CASE d \in t.dirs /\ ~(d \in parents /\ name = path[depth])
        <4>1. u.man[d][name] = t.man[d][name] /\ depth # 0
          BY <1>1, <1>6, <3>2
        <4>2. QED
          BY <1>1, <1>3, <3>2, <4>1
      <3>3. CASE d \in new
        <4>1. d + 1 \in new \/ d + 1 = n + missing + 1
          <5>1. d \in Nat /\ d >= n + 1 /\ d <= n + missing
            BY <1>1, <3>3
          <5>2. QED
            BY <1>1, <5>1
        <4>2. d + 1 \notin u.root /\ d + 1 > d
          <5>1. d \in Nat /\ d > n
            BY <1>7, <3>3
          <5>2. d + 1 # n + 1 /\ ~(d + 1 <= n) /\ d + 1 > d
            BY <1>1, <5>1
          <5>3. t.root \subseteq t.dirs /\ u.root \subseteq t.root \cup {n + 1}
            BY <1>1 DEF WellTree
          <5>4. QED
            BY <1>2, <5>2, <5>3
        <4>3. u.man[d][name] = d + 1 \/ u.man[d][name] = NULL
          BY <1>1, <3>3
        <4>4. d + 1 \in (u.dirs \cup u.docs) \ u.root
          BY <1>1, <4>1, <4>2
        <4>5. QED
          BY <4>2, <4>3, <4>4
      <3>4. QED
        BY <1>1, <3>1, <3>2, <3>3
    <2>3. ASSUME NEW d \in u.dirs, NEW e \in u.dirs, NEW one \in Names, NEW other \in Names,
                 u.man[d][one] = u.man[e][other], u.man[d][one] # NULL
          PROVE  d = e /\ one = other
      <3> DEFINE Old(f, name) == /\ f \in t.dirs /\ u.man[f][name] = t.man[f][name]
                                 /\ t.man[f][name] <= n
                 Branch(f, name) == f \in t.dirs /\ f \in parents /\ name = path[depth]
                                    /\ u.man[f][name] = n + 1
                 Link(f, name) == f \in new /\ name = path[depth + (f - n)]
                                  /\ u.man[f][name] = f + 1
      <3>1. ASSUME NEW f \in u.dirs, NEW name \in Names, u.man[f][name] # NULL
            PROVE  Old(f, name) \/ Branch(f, name) \/ Link(f, name)
        <4>1. CASE f \in t.dirs /\ f \in parents /\ name = path[depth]
          BY <1>1, <4>1
        <4>2. CASE f \in t.dirs /\ ~(f \in parents /\ name = path[depth])
          <5>1. u.man[f][name] = t.man[f][name]
            BY <1>1, <4>2
          <5>2. t.man[f][name] <= n
            BY <1>2, <1>3, <3>1, <4>2, <5>1
          <5>3. QED
            BY <4>2, <5>1, <5>2
        <4>3. CASE f \in new
          BY <1>1, <3>1, <4>3
        <4>4. QED
          BY <1>1, <4>1, <4>2, <4>3
      <3>2. CASE Old(d, one)
        <4>1. ~(n + 1 <= n) /\ \A f \in new : ~(f + 1 <= n)
          BY <1>1, <1>7
        <4>2. Old(e, other)
          <5>1. u.man[e][other] <= n
            BY <2>3, <3>2
          <5>2. ~Branch(e, other) /\ ~Link(e, other)
            <6> HIDE DEF new
            <6> QED BY <4>1, <5>1
          <5>3. QED
            <6> HIDE DEF Old, Branch, Link
            <6> QED BY <2>3, <3>1, <5>2
        <4>3. QED
          <5>1. /\ d \in t.dirs /\ e \in t.dirs /\ t.man[d][one] = t.man[e][other]
                /\ t.man[d][one] # NULL
            BY <2>3, <3>2, <4>2
          <5>2. QED
            BY <5>1, OneEntry
      <3>3. CASE Branch(d, one)
        <4>1. ~(n + 1 <= n) /\ \A f \in new : f + 1 # n + 1
          BY <1>1, <1>7
        <4>2. Branch(e, other)
          <5> HIDE DEF new
          <5> QED BY <2>3, <3>1, <3>3, <4>1
        <4>3. QED
          BY <1>5, <1>6, <3>3, <4>2
      <3>4. CASE Link(d, one)
        <4>1. ~(d + 1 <= n) /\ d + 1 # n + 1
          BY <1>1, <1>7, <3>4
        <4>2. Link(e, other)
          <5> HIDE DEF new
          <5> QED BY <2>3, <3>1, <3>4, <4>1
        <4>3. d = e
          <5>1. d \in Nat /\ e \in Nat /\ d + 1 = e + 1
            BY <1>7, <2>3, <3>4, <4>2
          <5>2. QED BY <5>1
        <4>4. QED
          BY <3>4, <4>2, <4>3
      <3>5. QED
        <4>1. Old(d, one) \/ Branch(d, one) \/ Link(d, one)
          <5> HIDE DEF Old, Branch, Link
          <5> QED BY <2>3, <3>1
        <4>2. QED
          BY <3>2, <3>3, <3>4, <4>1
    <2>4. ASSUME NEW j \in (u.dirs \cup u.docs) \ u.root
          PROVE  \E d \in u.dirs, name \in Names : u.man[d][name] = j
      <3>1. CASE j \in t.dirs \cup t.docs
        <4>1. depth # 0
          BY <1>6, <3>1
        <4>2. PICK d \in t.dirs, name \in Names : t.man[d][name] = j
          BY <1>1, <3>1, <4>1 DEF WellTree
        <4>3. ~(d \in parents /\ name = path[depth])
          <5>1. j # NULL
            BY <1>2, <3>1 DEF NULL
          <5>2. QED
            BY <1>5, <4>1, <4>2, <5>1
        <4>4. d \in u.dirs /\ u.man[d][name] = j
          BY <1>1, <4>2, <4>3
        <4>5. QED
          BY <4>4
      <3>2. CASE j = n + 1
        <4>1. depth # 0
          BY <1>1, <3>2
        <4>2. PICK parent \in t.dirs : parents = {parent} /\ path[depth] \in Names
          BY <1>5, <4>1
        <4>3. QED
          BY <1>1, <3>2, <4>2
      <3>3. CASE j \notin t.dirs \cup t.docs /\ j # n + 1
        <4>1. j - 1 \in new /\ (j - 1) + 1 = j
          <5>1. j \in (n + 1)..(n + missing + 1)
            BY <1>1, <1>7, <3>3
          <5>2. QED
            BY <1>1, <3>3, <5>1
        <4>2. path[depth + ((j - 1) - n)] \in Names
          BY <1>1, <4>1
        <4>3. u.man[j - 1][path[depth + ((j - 1) - n)]] = (j - 1) + 1
          BY <1>1, <4>1, <4>2
        <4>4. QED
          BY <1>1, <4>1, <4>2, <4>3
      <3>4. QED
        BY <3>1, <3>2, <3>3
    <2>5. QED
      <3>1. /\ \A d \in u.dirs, name \in Names :
                  \/ u.man[d][name] = NULL
                  \/ u.man[d][name] \in (u.dirs \cup u.docs) \ u.root /\ u.man[d][name] > d
            /\ u.man \in [u.dirs -> [Names -> Nat]]
        BY <1>1, <2>2
      <3>2. \A d, e \in u.dirs : \A one, other \in Names :
              u.man[d][one] = u.man[e][other] /\ u.man[d][one] # NULL => d = e /\ one = other
        BY <2>3
      <3>3. \A i \in (u.dirs \cup u.docs) \ u.root :
              \E d \in u.dirs, name \in Names : u.man[d][name] = i
        BY <2>4
      <3>4. QED
        BY <2>1, <3>1, <3>2, <3>3 DEF WellTree
  <1>10. Kept(t, u)
    <2>1. ASSUME NEW d \in u.dirs, NEW name \in Names, NEW x \in t.dirs \cup (t.docs \cap u.docs)
          PROVE  u.man[d][name] = x <=> d \in t.dirs /\ t.man[d][name] = x
      <3>1. x \in Nat /\ x # NULL /\ x <= n
        BY <1>2 DEF NULL
      <3>2. CASE d \in t.dirs /\ d \in parents /\ name = path[depth]
        <4>1. u.man[d][name] = n + 1 /\ t.man[d][name] = NULL
          BY <1>1, <1>5, <1>6, <3>2
        <4>2. QED
          BY <1>1, <3>1, <4>1
      <3>3. CASE d \in t.dirs /\ ~(d \in parents /\ name = path[depth])
        BY <1>1, <3>3
      <3>4. CASE d \in new
        <4>1. u.man[d][name] \in {d + 1, NULL} /\ d + 1 # x /\ d \notin t.dirs
          BY <1>1, <1>7, <3>1, <3>4
        <4>2. QED
          BY <3>1, <4>1
      <3>5. QED
        BY <1>1, <3>2, <3>3, <3>4
    <2>2. u.root \cap t.dirs = t.root
      BY <1>1, <1>6 DEF WellTree
    <2>3. QED
      BY <1>1, <2>1, <2>2 DEF Kept
  <1>11. QED
    BY <1>9, <1>10

\* The new document is what its path names.
LEMMA GrownNames ==
  ASSUME NEW t, WellTree(t), NEW path \in Paths, NEW n, NEW depth, NEW parents,
         Branches(t, n, path, depth, parents), NEW u, NEW missing,
         Grown(t, u, n, path, depth, parents, missing),
         NEW mt, Walk(t, path, mt), NEW mu, Walk(u, path, mu),
         depth # 0 => parents \subseteq mt[depth - 1]
  PROVE  n + missing + 1 \in Found(u, path, mu)
  <1>1. /\ n \in Nat /\ depth \in Nat /\ missing \in Nat /\ Len(path) = depth + missing
        /\ u.root = IF depth = 0 THEN {n + 1} ELSE t.root
        /\ u.dirs = t.dirs \cup ((n + 1)..(n + missing))
        /\ u.docs = t.docs \cup {n + missing + 1}
        /\ \A d \in (n + 1)..(n + missing) : path[depth + (d - n)] \in Names
        /\ \A d \in t.dirs, name \in Names : u.man[d][name] =
             IF d \in parents /\ name = path[depth] THEN n + 1 ELSE t.man[d][name]
        /\ \A d \in (n + 1)..(n + missing), name \in Names : u.man[d][name] =
             IF name = path[depth + (d - n)] THEN d + 1 ELSE NULL
    BY DEF Grown
  <1>2. WellTree(u) /\ Kept(t, u)
    BY GrownTree
  <1>3. Steps(t, path, mt) /\ Steps(u, path, mu)
    BY <1>2, WalkStep
  <1>4. Len(path) \in Nat /\ Len(path) >= 1
    BY PathLength DEF Positive
  <1>5. ASSUME depth # 0
        PROVE  \E d \in mu[depth - 1] : d \in u.dirs /\ u.man[d][path[depth]] = n + 1
    <2>1. PICK parent \in t.dirs : parents = {parent} /\ depth \in 1..Len(path)
      BY <1>5 DEF Branches
    <2>2. parent \in mt[depth - 1] /\ depth - 1 \in 0..(Len(path) - 1)
      BY <1>1, <1>4, <1>5, <2>1
    <2>3. parent \in mu[depth - 1]
      BY <1>2, <2>2, KeptWalk
    <2>4. path[depth] \in Names
      BY <2>1, PathLength
    <2>5. u.man[parent][path[depth]] = n + 1
      BY <1>1, <2>1, <2>4
    <2>6. QED
      BY <1>1, <2>1, <2>3, <2>5
  <1> DEFINE S == {k \in Nat : k + 1 <= missing => n + k + 1 \in mu[depth + k]}
  <1>6. 0 \in S
    <2> SUFFICES ASSUME 1 <= missing PROVE n + 1 \in mu[depth]
      BY <1>1
    <2>1. n + 1 \in u.dirs
      <3>1. n + 1 \in (n + 1)..(n + missing)
        BY <1>1
      <3>2. QED
        BY <1>1, <3>1
    <2>2. CASE depth = 0
      BY <1>1, <2>2 DEF Walk
    <2>3. CASE depth # 0
      <3>1. depth - 1 \in Nat /\ (depth - 1) + 1 = depth /\ depth <= Len(path) - 1
        BY <1>1, <2>3
      <3>2. \A x : x \in mu[(depth - 1) + 1] <=>
              x \in u.dirs /\ \E d \in mu[depth - 1] : d \in u.dirs
                                                    /\ x = u.man[d][path[(depth - 1) + 1]]
        BY <1>3, <3>1 DEF Steps
      <3>3. QED
        BY <1>5, <2>1, <2>3, <3>1, <3>2
    <2>4. QED
      BY <2>2, <2>3
  <1>7. ASSUME NEW k \in Nat, k \in S PROVE k + 1 \in S
    <2> SUFFICES ASSUME (k + 1) + 1 <= missing PROVE n + (k + 1) + 1 \in mu[depth + (k + 1)]
      BY <1>1
    <2> DEFINE d == n + k + 1
               a == depth + k
    <2>1. d \in mu[a]
      BY <1>1, <1>7
    <2>2. /\ d \in (n + 1)..(n + missing) /\ d + 1 \in (n + 1)..(n + missing)
          /\ a \in Nat /\ a + 1 <= Len(path) - 1 /\ depth + (d - n) = a + 1
          /\ d + 1 = n + (k + 1) + 1 /\ a + 1 = depth + (k + 1)
      BY <1>1
    <2> HIDE DEF d, a
    <2>3. path[a + 1] \in Names /\ u.man[d][path[a + 1]] = d + 1
      <3>1. /\ path[depth + (d - n)] \in Names
            /\ u.man[d][path[depth + (d - n)]] = d + 1
        BY <1>1, <2>2
      <3>2. QED
        BY <2>2, <3>1
    <2>4. d \in u.dirs /\ d + 1 \in u.dirs
      BY <1>1, <2>2
    <2>5. d + 1 \in mu[a + 1]
      BY <1>3, <2>1, <2>2, <2>3, <2>4 DEF Steps
    <2>6. QED
      BY <2>2, <2>5
  <1>8. \A k \in Nat : k \in S
    <2> HIDE DEF S
    <2> QED BY <1>6, <1>7, NatSet
  <1>9. \E d \in mu[Len(path) - 1] : d \in u.dirs /\ n + missing + 1 = u.man[d][path[Len(path)]]
    <2>1. CASE missing = 0
      <3>1. depth = Len(path) /\ depth # 0 /\ n + missing + 1 = n + 1
        BY <1>1, <1>4, <2>1
      <3>2. QED
        BY <1>5, <3>1
    <2>2. CASE missing # 0
      <3> DEFINE k == missing - 1
                 d == n + missing
      <3>1. /\ k \in Nat /\ k + 1 <= missing /\ n + k + 1 = d /\ depth + k = Len(path) - 1
            /\ d \in (n + 1)..(n + missing) /\ depth + (d - n) = Len(path)
            /\ d + 1 = n + missing + 1
        BY <1>1, <2>2
      <3>2. d \in mu[Len(path) - 1]
        <4> HIDE DEF k, d
        <4> QED BY <1>8, <3>1
      <3> HIDE DEF d
      <3>3. path[Len(path)] \in Names
        BY <1>1, <3>1
      <3>4. d \in u.dirs /\ u.man[d][path[Len(path)]] = d + 1
        BY <1>1, <3>1, <3>3
      <3>5. QED
        BY <3>1, <3>2, <3>4
    <2>3. QED
      BY <2>1, <2>2
  <1>10. QED
    BY <1>1, <1>2, <1>9, FoundEntry

---------------------------------------------------------------------------
(* The tree of the tables.                                                 *)

\* The walks of the lookups are the tree's, and so is the document they end in.
WalksExact ==
  TypeOK => \A path \in Paths : /\ Walk(Tree, path, Containers(path))
                               /\ DocumentOf(path) = Found(Tree, path, Containers(path))
                               /\ ParentOf(path) = Containers(path)[Len(path) - 1]

Met(path, k, met) ==
  met = [n \in 0..k |->
           IF n = 0 THEN Root ELSE Directories \cap Children(met[n - 1], path[n])]

\* The recursive definition of the containers met defines a function.
LEMMA MetExists ==
  ASSUME NEW path, NEW last \in Nat
  PROVE  \E met : Met(path, last, met)
  <1> DEFINE S == {k \in Nat : \E met : Met(path, k, met)}
  <1>1. 0 \in S
    <2>1. Met(path, 0, [n \in 0..0 |-> Root])
      BY DEF Met
    <2>2. QED
      BY <2>1
  <1>2. ASSUME NEW k \in Nat, k \in S PROVE k + 1 \in S
    <2>1. PICK met : Met(path, k, met)
      BY <1>2
    <2> DEFINE more == [n \in 0..(k + 1) |-> IF n <= k THEN met[n]
                          ELSE Directories \cap Children(met[k], path[k + 1])]
    <2>2. Met(path, k + 1, more)
      <3>1. ASSUME NEW n \in 0..(k + 1)
            PROVE  more[n] = IF n = 0 THEN Root
                             ELSE Directories \cap Children(more[n - 1], path[n])
        <4>1. n # 0 => n - 1 \in 0..(k + 1) /\ n - 1 <= k
          OBVIOUS
        <4>2. CASE n <= k
          <5>1. n \in 0..k
            BY <4>2
          <5>2. met[n] = IF n = 0 THEN Root ELSE Directories \cap Children(met[n - 1], path[n])
            <6>1. met = [a \in 0..k |-> IF a = 0 THEN Root
                           ELSE Directories \cap Children(met[a - 1], path[a])]
              BY <2>1 DEF Met
            <6> DEFINE F(a) == IF a = 0 THEN Root
                               ELSE Directories \cap Children(met[a - 1], path[a])
            <6>2. met = [a \in 0..k |-> F(a)]
              BY <6>1
            <6> HIDE DEF F
            <6>3. met[n] = F(n)
              BY <5>1, <6>2
            <6>4. QED
              BY <6>3 DEF F
          <5>3. more[n] = met[n] /\ (n # 0 => more[n - 1] = met[n - 1])
            BY <4>1, <4>2
          <5> HIDE DEF more
          <5>4. QED
            BY <5>2, <5>3
        <4>3. CASE n = k + 1
          <5>1. more[n] = Directories \cap Children(met[k], path[k + 1])
            BY <4>3
          <5>2. n # 0 /\ n - 1 = k /\ more[k] = met[k]
            BY <4>3
          <5> HIDE DEF more
          <5>3. QED
            BY <4>3, <5>1, <5>2
        <4>4. QED
          BY <4>2, <4>3
      <3>2. more = [n \in 0..(k + 1) |-> more[n]]
        OBVIOUS
      <3> HIDE DEF more
      <3>3. QED
        BY <3>1, <3>2 DEF Met
    <2> HIDE DEF more
    <2>3. QED
      BY <2>2
  <1>3. \A k \in Nat : k \in S
    <2> HIDE DEF S
    <2> QED BY <1>1, <1>2, NatSet
  <1>4. QED
    BY <1>3

\* Containers and DocumentOf follow the walk.
LEMMA WalksAreExact == WalksExact
  <1> SUFFICES ASSUME TypeOK, NEW path \in Paths
               PROVE  /\ Walk(Tree, path, Containers(path))
                      /\ DocumentOf(path) = Found(Tree, path, Containers(path))
                      /\ ParentOf(path) = Containers(path)[Len(path) - 1]
    BY DEF WalksExact
  <1> DEFINE met == Containers(path)
             last == Len(path) - 1
  <1>1. /\ last \in Nat /\ last \in 0..last /\ Len(path) = last + 1
        /\ Last(path) = path[Len(path)]
    BY PathLength DEF Positive
  <1>2. Met(path, last, met)
    <2>1. PICK g : Met(path, last, g)
      BY <1>1, MetExists
    <2>2. QED
      BY <2>1 DEF Met, Containers
  <1>3. Root \subseteq Directories /\ 0 \notin Directories /\ 0 \notin Documents
    <2>1. Len(objects) \in Nat
      BY DEF TypeOK
    <2>2. QED
      BY <2>1 DEF Root, Directories, Documents, Ids
  <1> HIDE DEF met, last
  <1>4. /\ met[0] = Root
        /\ \A n \in 1..last : met[n] = Directories \cap Children(met[n - 1], path[n])
    <2> DEFINE F(a) == IF a = 0 THEN Root ELSE Directories \cap Children(met[a - 1], path[a])
    <2>1. met = [a \in 0..last |-> F(a)]
      BY <1>2 DEF Met
    <2>2. \A n \in 1..last : n \in 0..last /\ n # 0
      BY <1>1
    <2>3. 0 \in 0..last
      BY <1>1
    <2> HIDE DEF F
    <2>4. met[0] = F(0) /\ \A n \in 1..last : met[n] = F(n)
      BY <2>1, <2>2, <2>3
    <2>5. QED
      BY <2>2, <2>4 DEF F
  <1>5. \A n \in 0..last : met[n] \subseteq Directories
    <2>1. \A n \in 0..last : n = 0 \/ n \in 1..last
      BY <1>1
    <2>2. QED
      BY <1>3, <1>4, <2>1
  <1>6. ASSUME NEW X, 0 \notin X, NEW found, found \subseteq Directories, NEW name
        PROVE  X \cap Children(found, name) = X \cap EntriesOf(Tree, found, name)
    BY <1>6 DEF Children, EntriesOf, Tree, NULL
  <1>7. Tree.root = Root /\ Tree.dirs = Directories /\ Tree.docs = Documents
    BY DEF Tree
  <1>8. Walk(Tree, path, met)
    <2>1. \A n \in 1..last : n - 1 \in 0..last
      BY <1>1
    <2>2. \A n \in 1..last : met[n] = Directories \cap EntriesOf(Tree, met[n - 1], path[n])
      BY <1>3, <1>4, <1>5, <1>6, <2>1
    <2>3. QED
      BY <1>4, <1>7, <2>2 DEF Walk, last
  <1>9. ParentOf(path) = met[last]
    BY <1>1, <1>5 DEF ParentOf, met, last
  <1>10. DocumentOf(path) = Found(Tree, path, met)
    <2>1. DocumentOf(path) = Documents \cap Children(met[last], path[Len(path)])
      BY <1>1, <1>9 DEF DocumentOf
    <2>2. QED
      BY <1>1, <1>3, <1>5, <1>6, <1>7, <2>1 DEF Found, last
  <1>11. QED
    BY <1>8, <1>9, <1>10 DEF met, last

\* The same before and after a step.
LEMMA WalksNext == WalksExact /\ WalksExact'
  BY WalksAreExact, PTL

---------------------------------------------------------------------------
(* What the actions do to the tree of the tables.                          *)

\* The text, or the entries, that one more version brings.
LEMMA AdvanceBody ==
  ASSUME NEW rows, NEW v \in Positive, NEW body
  PROVE  Advance(rows, v, body)[v + 1].body = body
  BY ConfigAssumption DEF Advance, Supersede, InsertVersion, Positive

\* The entries of a new container, the text of a new document.
LEMMA FirstBody ==
  ASSUME NEW name, NEW child, NEW body
  PROVE  /\ ContainerVersions(name, child)[2].body = [EmptyManifest EXCEPT ![name] = child]
         /\ InsertVersion(<<>>, 1, body)[1].body = body
  <1>1. ContainerVersions(name, child)[1 + 1].body = [EmptyManifest EXCEPT ![name] = child]
    BY AdvanceBody DEF ContainerVersions, Positive
  <1>2. InsertVersion(<<>>, 1, body)[1].body = body
    BY ConfigAssumption DEF InsertVersion, Positive
  <1>3. QED
    BY <1>1, <1>2

\* A row that advances has the new version's body, and one that is trimmed keeps its own.
LEMMA BodySteps ==
  ASSUME IInv, NEW i \in Ids, Active(i)
  PROVE  /\ \A bytes \in Nat : \A body :
              objects'[i] = Revised(objects[i], bytes)
                /\ versions'[i] = Advance(versions[i], objects[i].version, body) =>
              Body(i)' = body /\ objects'[i].bytes = bytes
         /\ Trimmed(i) => Body(i)' = Body(i) /\ objects'[i] = objects[i]
  <1>1. objects[i] \in Object /\ objects[i].version \in Positive /\ now \in Positive
    <2>1. objects[i] \in Object /\ now \in Positive
      BY DEF IInv, TypeOK, Ids
    <2>2. QED
      BY <2>1 DEF Object
  <1>2. ASSUME NEW bytes \in Nat, NEW body, objects'[i] = Revised(objects[i], bytes),
               versions'[i] = Advance(versions[i], objects[i].version, body)
        PROVE  Body(i)' = body /\ objects'[i].bytes = bytes
    <2>1. objects'[i].version = objects[i].version + 1
      BY <1>1, <1>2, RowChanges
    <2>2. objects'[i].bytes = bytes
      BY <1>1, <1>2 DEF Revised, Object
    <2>3. QED
      BY <1>1, <1>2, <2>1, <2>2, AdvanceBody DEF Body
  <1>3. ASSUME Trimmed(i) PROVE Body(i)' = Body(i) /\ objects'[i] = objects[i]
    <2>1. WellShaped(objects[i].version, versions[i])
      BY DEF IInv, HistoryShape, Rows, HasRow, Active
    <2>2. objects[i].version \in DOMAIN versions'[i]
      BY <1>3, <2>1 DEF Trimmed, DueVersions, WellShaped
    <2>3. QED
      BY <1>3, <2>2 DEF Trimmed, Body
  <1>4. QED
    BY <1>2, <1>3

\* When the same objects are active and every manifest is kept, the tree is.
LEMMA SameTree ==
  ASSUME Directories' = Directories, Documents' = Documents, Root' = Root,
         \A d \in Directories : Body(d)' = Body(d)
  PROVE  Tree' = Tree
  BY DEF Tree, Manifest

\* A row's bytes are those of its current text.
BytesExact == \A i \in Documents : objects[i].bytes = Len(Body(i))

TreeInv == IInv /\ WellTree(Tree) /\ BytesExact

\* A write of a document changes one text and no entry.
LEMMA ReplaceTree ==
  ASSUME TreeInv, NEW i \in Documents, NEW body, ReplaceDocument(i, body)
  PROVE  /\ Tree' = Tree /\ BytesExact'
         /\ objects'[i].version = objects[i].version + 1
         /\ Body(i)' = body
         /\ \A j \in Documents \ {i} : objects'[j] = objects[j] /\ Body(j)' = Body(j)
  <1>1. /\ IInv /\ DOMAIN objects = Ids /\ DOMAIN versions = Ids /\ i \in Ids
        /\ Active(i) /\ IsDocument(i) /\ objects[i] \in Object /\ Len(body) \in Nat
        /\ now \in Positive /\ Len(objects) \in Nat
    BY FiniteRows, ConfigAssumption
       DEF TreeInv, IInv, TypeOK, Ids, Documents, ReplaceDocument, Positive
  <1>2. /\ objects' = [objects EXCEPT ![i] = Revised(objects[i], Len(body))]
        /\ versions' = [versions EXCEPT ![i] = Advance(versions[i], objects[i].version, body)]
    BY DEF ReplaceDocument
  <1>3. Ids' = Ids
    BY <1>1, <1>2 DEF Ids, IInv, TypeOK
  <1>4. /\ objects'[i] = Revised(objects[i], Len(body))
        /\ versions'[i] = Advance(versions[i], objects[i].version, body)
        /\ objects'[i].kind = objects[i].kind /\ objects'[i].lifecycle = objects[i].lifecycle
        /\ objects'[i].version = objects[i].version + 1
    <2>1. /\ objects'[i] = Revised(objects[i], Len(body))
          /\ versions'[i] = Advance(versions[i], objects[i].version, body)
      BY <1>1, <1>2
    <2>2. QED
      BY <1>1, <2>1, RowChanges
  <1>5. \A j \in Ids \ {i} : /\ objects'[j] = objects[j] /\ versions'[j] = versions[j]
                             /\ Body(j)' = Body(j)
    BY <1>1, <1>2 DEF Body
  <1>6. Directories' = Directories /\ Documents' = Documents /\ Root' = Root
    BY <1>3, <1>4, <1>5 DEF Directories, Documents, Root, Active, IsDocument
  <1>7. Tree' = Tree
    <2>1. \A d \in Directories : d \in Ids \ {i}
      BY DEF Directories, Documents
    <2>2. QED
      BY <1>5, <1>6, <2>1, SameTree
  <1>8. Body(i)' = body /\ objects'[i].bytes = Len(body)
    BY <1>1, <1>4, BodySteps
  <1>9. \A j \in Documents : j \in Ids
    BY DEF Documents
  <1>10. BytesExact'
    <2>1. ASSUME NEW j \in Documents
          PROVE  objects'[j].bytes = Len(Body(j)')
      BY <1>5, <1>8, <1>9 DEF TreeInv, BytesExact
    <2>2. QED
      BY <1>6, <2>1 DEF BytesExact
  <1>11. QED
    BY <1>4, <1>5, <1>7, <1>8, <1>9, <1>10

\* A delete takes one document and its entry out of the tree.
LEMMA DeleteTree ==
  ASSUME TreeInv, NEW i \in Documents, NEW parent \in Directories, NEW name \in Names,
         Delete(i, parent, name)
  PROVE  /\ Tree' = Pruned(Tree, i, parent, name) /\ BytesExact'
         /\ \A j \in Documents \ {i} : objects'[j] = objects[j] /\ Body(j)' = Body(j)
  <1>1. /\ IInv /\ DOMAIN objects = Ids /\ DOMAIN versions = Ids /\ i \in Ids /\ parent \in Ids
        /\ Active(i) /\ IsDocument(i) /\ Active(parent) /\ ~IsDocument(parent) /\ i # parent
        /\ objects[i] \in Object /\ objects[parent] \in Object
        /\ now \in Positive /\ Len(objects) \in Nat
    BY FiniteRows DEF TreeInv, IInv, TypeOK, Ids, Documents, Directories
  <1>2. /\ objects'[i] = Tombstone(objects[i])
        /\ objects'[parent] = Revised(objects[parent], objects[parent].bytes)
        /\ \A j \in Ids \ {i, parent} : objects'[j] = objects[j]
        /\ versions'[parent] = Advance(versions[parent], objects[parent].version,
                                       [Manifest(parent) EXCEPT ![name] = NULL])
        /\ \A j \in Ids \ {parent} : versions'[j] = versions[j]
        /\ Ids' = Ids
    <2>1. /\ objects' = [objects EXCEPT ![i] = Tombstone(objects[i]),
                                       ![parent] = Revised(objects[parent], objects[parent].bytes)]
          /\ versions' = [versions EXCEPT ![parent] =
               Advance(versions[parent], objects[parent].version,
                       [Manifest(parent) EXCEPT ![name] = NULL])]
      BY <1>1 DEF Delete
    <2>2. Ids' = Ids
      BY <1>1, <2>1 DEF Ids, IInv, TypeOK
    <2>3. QED
      BY <1>1, <2>1, <2>2
  <1>3. objects[parent].bytes \in Nat
    BY <1>1 DEF Object
  <1>4. /\ objects'[i].lifecycle = "deleted"
        /\ objects'[parent].kind = objects[parent].kind
        /\ objects'[parent].lifecycle = objects[parent].lifecycle
    <2>1. objects'[i].lifecycle = "deleted"
      BY <1>1, <1>2, RowChanges, 0 \in Nat
    <2>2. QED
      BY <1>1, <1>2, <1>3, <2>1, RowChanges
  <1>5. \A j \in Ids \ {i, parent} : objects'[j] = objects[j] /\ Body(j)' = Body(j)
    BY <1>2 DEF Body
  <1>6. Body(parent)' = [Manifest(parent) EXCEPT ![name] = NULL]
    <2> DEFINE m == [Manifest(parent) EXCEPT ![name] = NULL]
    <2>1. /\ objects'[parent] = Revised(objects[parent], objects[parent].bytes)
          /\ versions'[parent] = Advance(versions[parent], objects[parent].version, m)
      BY <1>2
    <2> HIDE DEF m
    <2>2. Body(parent)' = m
      BY <1>1, <1>3, <2>1, BodySteps
    <2>3. QED
      BY <2>2 DEF m
  <1>7. Directories' = Directories /\ Documents' = Documents \ {i} /\ Root' = Root
    <2>1. /\ Ids' = Ids /\ ~(objects'[i].lifecycle = "active")
          /\ \A j \in Ids \ {i} : /\ objects'[j].kind = objects[j].kind
                                /\ objects'[j].lifecycle = objects[j].lifecycle
      BY <1>2, <1>4, <1>5
    <2>2. Documents' = Documents \ {i}
      BY <1>1, <2>1 DEF Documents, Active, IsDocument
    <2>3. Directories' = Directories
      BY <1>1, <2>1 DEF Directories, Active, IsDocument
    <2>4. \A d \in Directories : d \in Ids \ {i}
      BY <1>1 DEF Directories
    <2>5. QED
      BY <2>1, <2>2, <2>3, <2>4 DEF Root
  <1>8. \A d \in Directories : d \in Ids /\ d # i
    BY DEF Directories, Documents
  <1>9. Tree' = Pruned(Tree, i, parent, name)
    <2>1. \A d \in Directories : Manifest(d)' =
            IF d = parent THEN [Manifest(d) EXCEPT ![name] = NULL] ELSE Manifest(d)
      BY <1>5, <1>6, <1>8 DEF Manifest
    <2>2. [d \in Directories |-> Manifest(d)]' =
            [d \in Directories |->
               IF d = parent THEN [Tree.man[d] EXCEPT ![name] = NULL] ELSE Tree.man[d]]
      BY <1>7, <2>1 DEF Tree
    <2>3. Tree.root = Root /\ Tree.dirs = Directories /\ Tree.docs = Documents
      BY DEF Tree
    <2>4. QED
      BY <1>7, <2>2, <2>3 DEF Tree, Pruned
  <1>10. \A j \in Documents \ {i} : objects'[j] = objects[j] /\ Body(j)' = Body(j)
    <2>1. \A j \in Documents \ {i} : j \in Ids \ {i, parent}
      BY <1>1 DEF Documents
    <2>2. QED
      BY <1>5, <2>1
  <1>11. BytesExact'
    BY <1>7, <1>10 DEF TreeInv, BytesExact
  <1>12. QED
    BY <1>9, <1>10, <1>11

\* The janitor and the clock change neither the tree nor any document in it.
LEMMA PurgeTree ==
  ASSUME TreeInv, NEW batch, NEW rows, NEW keys, PurgeDue(batch, rows, keys)
  PROVE  /\ Tree' = Tree /\ BytesExact'
         /\ \A j \in Documents : objects'[j] = objects[j] /\ Body(j)' = Body(j)
  <1>1. IInv
    BY DEF TreeInv
  <1>2. /\ batch \subseteq DueObjects
        /\ rows \subseteq UNION {{i} \X DueVersions(i) : i \in Ids \ batch}
        /\ objects' = [i \in Ids |-> IF i \in batch THEN Purged(objects[i]) ELSE objects[i]]
        /\ versions' = [i \in Ids |->
             [v \in {u \in DOMAIN versions[i] : i \notin batch /\ <<i, u>> \notin rows} |->
                versions[i][v]]]
    BY DEF PurgeDue, Batches
  <1>3. Ids' = Ids
    <2>1. Len(objects) \in Nat /\ objects' \in Seq(Object) /\ DOMAIN objects' = Ids
      BY <1>1, <1>2, PurgeStep, FiniteRows DEF IInv
    <2>2. QED
      BY <2>1 DEF Ids
  <1>4. \A i \in batch : i \in Ids /\ ~Active(i) /\ objects'[i].lifecycle # "active"
    <2>1. \A i \in batch : i \in Ids /\ ~Active(i) /\ objects[i] \in Object /\ now \in Positive
      BY <1>1, <1>2 DEF DueObjects, Active, IInv, TypeOK, Ids
    <2>2. \A i \in batch : Purged(objects[i]).lifecycle = "purged"
      BY <2>1, RowChanges, 0 \in Nat
    <2>3. QED
      BY <1>2, <2>1, <2>2
  <1>5. \A i \in Ids \ batch : objects'[i] = objects[i]
    BY <1>2
  <1>6. ASSUME NEW i \in Ids, Active(i) PROVE Body(i)' = Body(i) /\ objects'[i] = objects[i]
    <2>1. i \notin batch
      BY <1>4, <1>6
    <2>2. \A v : <<i, v>> \in rows => v \in DueVersions(i)
      BY <1>2
    <2>3. Trimmed(i)
      BY <1>2, <2>1, <2>2 DEF Trimmed
    <2>4. QED
      BY <1>1, <1>6, <2>3, BodySteps
  <1>7. Directories' = Directories /\ Documents' = Documents /\ Root' = Root
    BY <1>3, <1>4, <1>5 DEF Directories, Documents, Root, Active, IsDocument
  <1>8. \A d \in Directories : Body(d)' = Body(d)
    BY <1>6 DEF Directories
  <1>9. \A j \in Documents : objects'[j] = objects[j] /\ Body(j)' = Body(j)
    BY <1>6 DEF Documents
  <1>10. BytesExact'
    BY <1>7, <1>9 DEF TreeInv, BytesExact
  <1>11. QED
    BY <1>7, <1>8, <1>9, <1>10, SameTree

\* A create plants the document, with the directories it lacks, in the tree.
InsertEffect(path, depth, parents, body, n, top) ==
  /\ Tree' = Planted(Tree, n, path, depth, parents) /\ BytesExact'
  /\ top \notin Documents /\ objects'[top].version = 1
  /\ versions'[top][objects'[top].version].body = body
  /\ \A j \in Documents : objects'[j] = objects[j] /\ Body(j)' = Body(j)

\* What an insertion does to the tree, the texts and the bytes.
LEMMA InsertTree ==
  ASSUME TreeInv, NEW path \in Paths, NEW depth \in 0..Len(path),
         NEW parents \in SUBSET Directories, NEW body \in Inputs,
         Insert(path, depth, parents, body),
         Branches(Tree, Len(objects), path, depth, parents)
  PROVE  InsertEffect(path, depth, parents, body, Len(objects),
                      Len(objects) + (Len(path) - depth) + 1)
  <1> SUFFICES ASSUME NEW n, NEW missing, Inserted(path, depth, parents, body, n, missing),
                      Branches(Tree, n, path, depth, parents), missing = Len(path) - depth,
                      NEW top, top = n + missing + 1
               PROVE  InsertEffect(path, depth, parents, body, n, top)
    BY InsertRows DEF TreeInv
  <1> DEFINE new == (n + 1)..(n + missing)
  <1>1. /\ n \in Nat /\ missing \in Nat
        /\ Ids = 1..n /\ Ids' = (1..n) \cup new \cup {top}
        /\ \A i \in 1..n : objects'[i] =
             IF i \in parents THEN Revised(objects[i], objects[i].bytes) ELSE objects[i]
        /\ \A i \in new : objects'[i] =
             NewContainer(IF depth = 0 /\ i = n + 1 THEN "root" ELSE "directory")
        /\ objects'[top] = NewDocument(body)
        /\ \A i \in 1..n : versions'[i] =
             IF i \in parents
             THEN Advance(versions[i], objects[i].version,
                          [Manifest(i) EXCEPT ![path[depth]] = n + 1])
             ELSE versions[i]
        /\ \A i \in new : versions'[i] = ContainerVersions(path[depth + i - n], i + 1)
        /\ versions'[top] = InsertVersion(<<>>, 1, body)
    BY DEF Inserted
  <1>2. /\ IInv /\ now \in Positive /\ \A i \in Ids : objects[i] \in Object
        /\ body \in Seq(Chunks) /\ Len(body) \in Nat
    BY PathsAssumption DEF TreeInv, IInv, TypeOK, Ids
  <1>3. \A i \in new : i \notin 1..n /\ i # top
    BY <1>1
  <1>4. top \notin 1..n /\ top \notin new
    BY <1>1
  <1> HIDE DEF new
  <1>5. \A i \in parents : i \in 1..n /\ Active(i) /\ ~IsDocument(i)
    BY <1>1 DEF Directories
  <1>6. ASSUME NEW i \in 1..n
        PROVE  /\ objects'[i].kind = objects[i].kind
               /\ objects'[i].lifecycle = objects[i].lifecycle
    <2>1. objects[i] \in Object /\ objects[i].bytes \in Nat
      BY <1>1, <1>2 DEF Object
    <2>2. /\ Revised(objects[i], objects[i].bytes).kind = objects[i].kind
          /\ Revised(objects[i], objects[i].bytes).lifecycle = objects[i].lifecycle
      BY <1>2, <2>1, RowChanges
    <2>3. QED
      BY <1>1, <2>2
  <1>7. ASSUME NEW i \in new
        PROVE  /\ objects'[i].lifecycle = "active" /\ objects'[i].kind # "document"
               /\ objects'[i].version = 2
               /\ objects'[i].kind = "root" <=> depth = 0 /\ i = n + 1
    <2> DEFINE kind == IF depth = 0 /\ i = n + 1 THEN "root" ELSE "directory"
    <2>1. objects'[i] = NewContainer(kind)
      BY <1>1
    <2>2. kind # "document" /\ (kind = "root" <=> depth = 0 /\ i = n + 1)
      OBVIOUS
    <2> HIDE DEF kind
    <2>3. QED
      BY <2>1, <2>2 DEF NewContainer
  <1>8. /\ objects'[top].lifecycle = "active" /\ objects'[top].kind = "document"
        /\ objects'[top].version = 1 /\ objects'[top].bytes = Len(body)
    BY <1>1 DEF NewDocument
  <1>9. /\ Directories' = Directories \cup new
        /\ Documents' = Documents \cup {top} /\ top \notin Documents
    <2>1. \A i \in Ids : /\ Active(i)' <=> Active(i)
                         /\ IsDocument(i)' <=> IsDocument(i)
                         /\ i \notin new /\ i # top
      BY <1>1, <1>3, <1>4, <1>6 DEF Active, IsDocument
    <2>2. \A i \in new : Active(i)' /\ ~IsDocument(i)'
      BY <1>7 DEF Active, IsDocument
    <2>3. Active(top)' /\ IsDocument(top)'
      BY <1>8 DEF Active, IsDocument
    <2>4. Ids' = Ids \cup new \cup {top}
      BY <1>1
    <2>5. ASSUME NEW i
          PROVE  /\ i \in Directories' <=> i \in Directories \cup new
                 /\ i \in Documents' <=> i \in Documents \cup {top}
      <3>1. /\ i \in Directories <=> i \in Ids /\ ~IsDocument(i) /\ Active(i)
            /\ i \in Documents <=> i \in Ids /\ IsDocument(i) /\ Active(i)
        BY DEF Directories, Documents
      <3>2. /\ i \in Directories' <=> i \in Ids' /\ ~IsDocument(i)' /\ Active(i)'
            /\ i \in Documents' <=> i \in Ids' /\ IsDocument(i)' /\ Active(i)'
        BY DEF Directories, Documents
      <3>3. CASE i \in Ids
        <4>1. /\ Active(i)' <=> Active(i)
              /\ IsDocument(i)' <=> IsDocument(i)
              /\ i \notin new /\ i # top /\ i \in Ids'
          BY <2>1, <2>4, <3>3
        <4>2. QED
          BY <3>1, <3>2, <3>3, <4>1
      <3>4. CASE i \in new
        <4>1. /\ Active(i)' /\ ~IsDocument(i)' /\ i \in Ids' /\ i # top /\ i \notin Ids
          BY <1>1, <1>3, <2>2, <2>4, <3>4
        <4>2. QED
          BY <3>1, <3>2, <3>4, <4>1
      <3>5. CASE i = top
        <4>1. /\ Active(top)' /\ IsDocument(top)' /\ top \in Ids'
              /\ top \notin new /\ top \notin Ids
          BY <1>1, <1>4, <2>3, <2>4
        <4>2. i \in Documents' /\ i \notin Directories' /\ i \notin Directories
          BY <3>5, <4>1 DEF Directories, Documents
        <4>3. QED
          BY <3>5, <4>1, <4>2
      <3>6. CASE i \notin Ids /\ i \notin new /\ i # top
        <4>1. i \notin Ids'
          BY <2>4, <3>6
        <4>2. QED
          BY <3>1, <3>2, <3>6, <4>1
      <3>7. QED
        BY <3>3, <3>4, <3>5, <3>6
    <2>6. top \notin Documents
      BY <2>1 DEF Documents
    <2>7. QED
      BY <2>5, <2>6
  <1>10. Root' = IF depth = 0 THEN {n + 1} ELSE Root
    <2>1. depth = 0 => Root = {} /\ n + 1 \in new
      <3>1. depth = 0 => missing >= 1
        BY PathLength DEF Positive
      <3>2. depth = 0 => n + 1 \in new
        BY <1>1, <3>1 DEF new
      <3>3. depth = 0 => Root = {}
        BY DEF Branches, Tree
      <3>4. QED
        BY <3>2, <3>3
    <2>2. \A i \in Directories : i \in 1..n /\ i \notin new
      BY <1>1, <1>3 DEF Directories
    <2>3. ASSUME NEW i \in Directories PROVE i \in Root' <=> i \in Root
      BY <1>6, <1>9, <2>2 DEF Root
    <2>4. \A i \in new : objects'[i].kind = "root" <=> depth = 0 /\ i = n + 1
      BY <1>7
    <2>5. Directories' = Directories \cup new /\ Root \subseteq Directories
      BY <1>9 DEF Root
    <2>6. \A i : i \in Root' <=> i \in Root \/ (i \in new /\ depth = 0 /\ i = n + 1)
      BY <2>2, <2>3, <2>4, <2>5 DEF Root
    <2>7. QED
      BY <2>1, <2>6
  <1>11. \A j \in Ids \ parents : objects'[j] = objects[j] /\ Body(j)' = Body(j)
    BY <1>1 DEF Body
  <1>12. \A j \in Documents : objects'[j] = objects[j] /\ Body(j)' = Body(j)
    <2>1. \A j \in Documents : j \in Ids \ parents
      BY <1>5 DEF Documents
    <2>2. QED
      BY <1>11, <2>1
  <1>13. Body(top)' = body
    BY <1>1, <1>8, FirstBody DEF Body
  <1>14. BytesExact'
    <2>1. \A j \in Documents \cup {top} :
            objects'[j].bytes = Len(Body(j)')
      BY <1>2, <1>8, <1>12, <1>13 DEF TreeInv, BytesExact
    <2>2. QED
      BY <1>9, <2>1 DEF BytesExact
  <1>15. \A d \in new : Manifest(d)' = [EmptyManifest EXCEPT ![path[depth + d - n]] = d + 1]
    <2> SUFFICES ASSUME NEW d \in new
                 PROVE  Manifest(d)' = [EmptyManifest EXCEPT ![path[depth + d - n]] = d + 1]
      OBVIOUS
    <2>1. versions'[d] = ContainerVersions(path[depth + d - n], d + 1) /\ objects'[d].version = 2
      BY <1>1, <1>7
    <2>2. Manifest(d)' = ContainerVersions(path[depth + d - n], d + 1)[2].body
      BY <2>1 DEF Manifest, Body
    <2>3. QED
      BY <2>2, FirstBody
  <1>16. ASSUME NEW d \in Directories
         PROVE  Manifest(d)' = IF d \in parents THEN [Manifest(d) EXCEPT ![path[depth]] = n + 1]
                               ELSE Manifest(d)
    <2>1. d \in Ids /\ d \in 1..n /\ Active(d)
      BY <1>1 DEF Directories
    <2>2. CASE d \notin parents
      BY <1>11, <2>1, <2>2 DEF Manifest
    <2>3. CASE d \in parents
      <3>1. objects[d].bytes \in Nat
        BY <1>2, <2>1 DEF Object
      <3>2. /\ objects'[d] = Revised(objects[d], objects[d].bytes)
            /\ versions'[d] = Advance(versions[d], objects[d].version,
                                      [Manifest(d) EXCEPT ![path[depth]] = n + 1])
        BY <1>1, <2>1, <2>3
      <3>3. Body(d)' = [Manifest(d) EXCEPT ![path[depth]] = n + 1]
        BY <1>2, <2>1, <3>1, <3>2, BodySteps
      <3>4. QED
        BY <2>3, <3>3 DEF Manifest
    <2>4. QED
      BY <2>2, <2>3
  <1>17. Tree' = Planted(Tree, n, path, depth, parents)
    <2>1. \A d \in Directories : d \notin new
      BY <1>1, <1>3 DEF Directories
    <2>2. \A d \in new : depth + d - n = depth + (d - n)
      BY <1>1 DEF new
    <2>3. [d \in Directories |-> Manifest(d)]' =
            [d \in Directories \cup new |->
               IF d \in new THEN [EmptyManifest EXCEPT ![path[depth + (d - n)]] = d + 1]
               ELSE IF d \in parents THEN [Tree.man[d] EXCEPT ![path[depth]] = n + 1]
               ELSE Tree.man[d]]
      BY <1>9, <1>15, <1>16, <2>1, <2>2 DEF Tree
    <2>4. Tree.root = Root /\ Tree.dirs = Directories /\ Tree.docs = Documents
      BY DEF Tree
    <2>5. QED
      BY <1>9, <1>10, <2>3, <2>4 DEF Tree, Planted, new
  <1>18. versions'[top][objects'[top].version].body = body
    BY <1>13 DEF Body
  <1>19. QED
    BY <1>8, <1>9, <1>12, <1>14, <1>17, <1>18 DEF InsertEffect

---------------------------------------------------------------------------
(* What the actions do to the map of documents.                            *)

\* A path whose document is found as before, and unchanged, keeps its value.
LEMMA SameDocs ==
  ASSUME NEW path \in Paths, DocumentOf(path)' = DocumentOf(path),
         \A i \in DocumentOf(path) : objects'[i] = objects[i] /\ Body(i)' = Body(i)
  PROVE  Docs'[path] = Docs[path]
  <1>1. /\ Docs[path] = {[version |-> objects[i].version, body |-> Body(i)] : i \in DocumentOf(path)}
        /\ Docs'[path] = {[version |-> objects'[i].version, body |-> Body(i)'] :
                            i \in DocumentOf(path)'}
    BY DEF Docs
  <1>2. QED
    BY <1>1

\* The value of a path that names one document, and of one that names none.
LEMMA DocsOne ==
  ASSUME NEW path \in Paths
  PROVE  /\ \A i : DocumentOf(path) = {i} =>
              Docs[path] = {[version |-> objects[i].version, body |-> Body(i)]}
         /\ DocumentOf(path) = {} <=> Docs[path] = {}
  BY DEF Docs

\* Where a create inserts, and the document it adds to the tree.
CreateEffect(path, body, depth, parents, n, missing, top) ==
  /\ n = Len(objects) /\ missing = Len(path) - depth /\ top = n + missing + 1
  /\ Branches(Tree, n, path, depth, parents)
  /\ depth = 0 => Root = {}
  /\ depth # 0 => /\ depth \in 1..Len(path)
                  /\ \E parent \in Directories :
                       parents = {parent} /\ Extendable(path, depth, parent)
  /\ Insert(path, depth, parents, body) /\ InsertEffect(path, depth, parents, body, n, top)
  /\ Grown(Tree, Tree', n, path, depth, parents, missing)
  /\ Documents' = Documents \cup {top}

\* A create is an insertion below the deepest container found.
LEMMA CreateTree ==
  ASSUME TreeInv, NEW path \in Paths, NEW body \in Inputs, NEW key \in Keys,
         Create(path, body, key)
  PROVE  \E depth \in 0..Len(path), parents \in SUBSET Directories :
           \E n, missing, top : CreateEffect(path, body, depth, parents, n, missing, top)
  <1>1. /\ WellTree(Tree) /\ Len(objects) \in Nat
        /\ Tree.root = Root /\ Tree.dirs = Directories /\ Tree.docs = Documents
        /\ \A d \in Directories : Tree.man[d] = Manifest(d)
        /\ Len(path) \in Nat
    BY FiniteRows, PathLength DEF TreeInv, IInv, Tree, Positive
  <1>2. PICK depth \in 0..Len(path), parents \in SUBSET Directories :
          /\ Insert(path, depth, parents, body)
          /\ \/ depth = 0 /\ parents = {} /\ Root = {}
             \/ depth \in 1..Len(path) /\ \E parent \in Directories :
                  parents = {parent} /\ Extendable(path, depth, parent)
    <2>1. CASE Root = {} /\ Insert(path, 0, {}, body)
      BY <1>1, <2>1
    <2>2. CASE \E depth \in 1..Len(path), parent \in Directories :
                 Extendable(path, depth, parent) /\ Insert(path, depth, {parent}, body)
      <3>1. PICK depth \in 1..Len(path), parent \in Directories :
              Extendable(path, depth, parent) /\ Insert(path, depth, {parent}, body)
        BY <2>2
      <3>2. depth \in 0..Len(path) /\ {parent} \in SUBSET Directories
        BY <1>1
      <3>3. QED
        BY <3>1, <3>2
    <2>3. QED
      BY <2>1, <2>2 DEF Create
  <1>3. PICK n, missing, top :
          n = Len(objects) /\ missing = Len(path) - depth /\ top = n + missing + 1
    OBVIOUS
  <1>4. Branches(Tree, n, path, depth, parents)
    <2>1. \A i \in Directories \cup Documents : i <= n
      BY <1>1, <1>3 DEF Directories, Documents, Ids
    <2>2. n \in Nat
      BY <1>1, <1>3
    <2>3. QED
      BY <1>1, <1>2, <2>1, <2>2 DEF Branches, Extendable
  <1>5. InsertEffect(path, depth, parents, body, n, top)
    BY <1>2, <1>3, <1>4, InsertTree
  <1>6. Grown(Tree, Tree', n, path, depth, parents, missing)
    <2>1. Tree' = Planted(Tree, n, path, depth, parents)
      BY <1>5 DEF InsertEffect
    <2>2. QED
      BY <1>1, <1>3, <1>4, <2>1, PlantedGrown
  <1>7. Documents' = Documents \cup {top}
    BY <1>1, <1>3, <1>6 DEF Grown, Tree
  <1>8. CreateEffect(path, body, depth, parents, n, missing, top)
    BY <1>1, <1>2, <1>3, <1>4, <1>5, <1>6, <1>7 DEF CreateEffect
  <1>9. QED
    BY <1>8

\* Nothing there before the create, and the new document alone after it.
LEMMA CreateMap ==
  ASSUME TreeInv, TypeOK', NEW path \in Paths, NEW body \in Inputs, NEW key \in Keys,
         Create(path, body, key)
  PROVE  WellTree(Tree)' /\ BytesExact' /\ Map!Put(path)
  <1>1. /\ TypeOK /\ WellTree(Tree) /\ Len(objects) \in Nat
        /\ Tree.root = Root /\ Tree.dirs = Directories /\ Tree.docs = Documents
        /\ \A d \in Directories : Tree.man[d] = Manifest(d)
        /\ Len(path) \in Nat
    BY FiniteRows, PathLength DEF TreeInv, IInv, Tree, Positive
  <1>2. /\ \A p \in Paths : /\ Walk(Tree, p, Containers(p))
                            /\ DocumentOf(p) = Found(Tree, p, Containers(p))
        /\ \A p \in Paths : /\ Walk(Tree', p, Containers(p)')
                            /\ DocumentOf(p)' = Found(Tree', p, Containers(p)')
    BY <1>1, WalksNext DEF WalksExact
  <1>3. PICK depth, parents, n, missing, top :
          /\ depth \in 0..Len(path) /\ parents \in SUBSET Directories
          /\ CreateEffect(path, body, depth, parents, n, missing, top)
    BY CreateTree
  <1>4. n = Len(objects) /\ missing = Len(path) - depth /\ top = n + missing + 1
    BY <1>3 DEF CreateEffect
  <1>5. Branches(Tree, n, path, depth, parents)
    BY <1>3 DEF CreateEffect
  <1>6. depth # 0 => parents \subseteq Containers(path)[depth - 1]
    BY <1>3 DEF CreateEffect, Extendable
  <1>7. /\ BytesExact'
        /\ top \notin Documents /\ objects'[top].version = 1 /\ Body(top)' = body
        /\ \A j \in Documents : objects'[j] = objects[j] /\ Body(j)' = Body(j)
    BY <1>3 DEF CreateEffect, InsertEffect, Body
  <1>8. Grown(Tree, Tree', n, path, depth, parents, missing)
    BY <1>3 DEF CreateEffect
  <1>9. WellTree(Tree') /\ Kept(Tree, Tree')
    BY <1>1, <1>5, <1>8, GrownTree
  <1>10. Documents' = Documents \cup {top} /\ Tree.docs = Documents /\ (Tree').docs = Documents'
    BY <1>3 DEF CreateEffect, Tree
  <1>11. top \in DocumentOf(path)'
    <2>1. Walk(Tree, path, Containers(path)) /\ Walk(Tree', path, Containers(path)')
      BY <1>2
    <2>2. top \in Found(Tree', path, Containers(path)')
      BY <1>1, <1>5, <1>6, <1>8, <1>4, <2>1, GrownNames
    <2>3. QED
      BY <1>2, <2>2
  <1>12. ASSUME NEW p \in Paths
         PROVE  /\ \A i \in DocumentOf(p)' : i = top => p = path
                /\ p = path => \A i \in DocumentOf(p)' : i = top
                /\ \A i \in Documents : i \in DocumentOf(p)' <=> i \in DocumentOf(p)
                /\ DocumentOf(p) \subseteq Documents /\ DocumentOf(p)' \subseteq Documents'
    <2>1. /\ Walk(Tree', path, Containers(path)') /\ DocumentOf(path)' = Found(Tree', path, Containers(path)')
          /\ Walk(Tree', p, Containers(p)') /\ DocumentOf(p)' = Found(Tree', p, Containers(p)')
          /\ Walk(Tree, p, Containers(p)) /\ DocumentOf(p) = Found(Tree, p, Containers(p))
      BY <1>2
    <2>2. /\ \A y \in Found(Tree', path, Containers(path)') : y = top
          /\ top \in Found(Tree', p, Containers(p)') => path = p
      BY <1>9, <1>11, <2>1, FoundOne
    <2>3. \A i \in Tree.docs \cap (Tree').docs :
            i \in Found(Tree', p, Containers(p)') <=> i \in Found(Tree, p, Containers(p))
      BY <1>1, <1>9, <2>1, KeptFound
    <2>4. DocumentOf(p) \subseteq Documents /\ DocumentOf(p)' \subseteq Documents'
      BY DEF DocumentOf
    <2>5. QED
      BY <1>10, <2>1, <2>2, <2>3, <2>4
  <1>13. ASSUME NEW p \in Paths, p # path PROVE Docs'[p] = Docs[p]
    <2>1. DocumentOf(p)' = DocumentOf(p)
      BY <1>10, <1>12, <1>13
    <2>2. \A i \in DocumentOf(p) : objects'[i] = objects[i] /\ Body(i)' = Body(i)
      BY <1>7, <1>12
    <2>3. QED
      BY <2>1, <2>2, SameDocs
  <1>14. ASSUME NEW p \in Paths, Len(p) <= Len(path), \A k \in 1..Len(p) : path[k] = p[k]
         PROVE  Docs[p] = {}
    <2>1. /\ Walk(Tree, path, Containers(path))
          /\ Walk(Tree, p, Containers(p)) /\ DocumentOf(p) = Found(Tree, p, Containers(p))
      BY <1>2
    <2>2. CASE Root = {}
      <3>1. Documents = {}
        BY <1>1, <2>2 DEF WellTree
      <3>2. DocumentOf(p) = {}
        BY <1>12, <3>1
      <3>3. QED
        BY <3>2, DocsOne
    <2>3. CASE Root # {}
      <3>1. PICK parent \in Directories : Extendable(path, depth, parent) /\ depth \in 1..Len(path)
        BY <1>3, <2>3 DEF CreateEffect
      <3>2. parent \in Containers(path)[depth - 1] /\ Tree.man[parent][path[depth]] = NULL
        BY <1>1, <3>1 DEF Extendable
      <3>3. Found(Tree, p, Containers(p)) = {}
        BY <1>1, <1>14, <2>1, <3>1, <3>2, GapEmpty
      <3>4. QED
        BY <2>1, <3>3, DocsOne
    <2>4. QED
      BY <2>2, <2>3
  <1>15. Map!Put(path)
    <2>1. Docs[path] = {}
      BY <1>1, <1>14
    <2>2. Docs'[path] = {[version |-> 1, body |-> body]}
      <3>1. DocumentOf(path)' = {top}
        BY <1>11, <1>12
      <3>2. Docs'[path] = {[version |-> objects'[i].version, body |-> Body(i)'] :
                            i \in DocumentOf(path)'}
        BY DEF Docs
      <3>3. \A i \in {top} : objects'[i].version = 1 /\ Body(i)' = body
        BY <1>7
      <3>4. {[version |-> objects'[i].version, body |-> Body(i)'] : i \in {top}} =
              {[version |-> 1, body |-> body]}
        BY <3>3
      <3>5. QED
        BY <3>1, <3>2, <3>4
    <2>3. ASSUME NEW other \in Paths, IsStrictPrefix(other, path) PROVE Docs[other] = {}
      <3>1. other \in Seq(Names) /\ path \in Seq(Names)
        BY PathLength
      <3>2. Len(other) <= Len(path) /\ \A k \in 1..Len(other) : path[k] = other[k]
        BY <2>3, <3>1 DEF IsStrictPrefix, IsPrefix
      <3>3. QED
        BY <1>14, <3>2
    <2>4. {new.version : new \in Docs'[path]} = {1}
      BY <2>2
    <2>5. {new.version : new \in Docs'[path]} = Map!NextVersions(path)
      BY <2>1, <2>4 DEF Map!NextVersions, Map!Present
    <2>6. \A other \in Paths : Map!IsStrictPrefix(other, path) => ~Map!Present(other)
      <3>1. \A other \in Paths : Map!IsStrictPrefix(other, path) => IsStrictPrefix(other, path)
        BY DEF Map!IsStrictPrefix, Map!IsPrefix, IsStrictPrefix, IsPrefix
      <3>2. QED
        BY <2>3, <3>1 DEF Map!Present
    <2>7. Map!Others(path)
      BY <1>13 DEF Map!Others
    <2>8. QED
      BY ONLY <2>5, <2>6, <2>7 DEF Map!Put
  <1>16. QED
    BY <1>7, <1>9, <1>15

\* A tree keeps itself.
LEMMA KeptSelf ==
  ASSUME NEW t, WellTree(t)
  PROVE  Kept(t, t)
  BY DEF WellTree, Kept

\* A path other than the one changed finds its document as before, unchanged.
LEMMA OthersKeep ==
  ASSUME TypeOK, WellTree(Tree), TypeOK', WellTree(Tree'), Kept(Tree, Tree'),
         NEW path \in Paths, NEW x \in DocumentOf(path),
         Documents' \subseteq Documents, Documents \ {x} \subseteq Documents',
         \A j \in Documents \ {x} : objects'[j] = objects[j] /\ Body(j)' = Body(j),
         NEW p \in Paths, p # path
  PROVE  Docs'[p] = Docs[p]
  <1>1. /\ Walk(Tree, path, Containers(path))
        /\ DocumentOf(path) = Found(Tree, path, Containers(path))
        /\ Walk(Tree, p, Containers(p)) /\ DocumentOf(p) = Found(Tree, p, Containers(p))
        /\ Walk(Tree', path, Containers(path)')
        /\ DocumentOf(path)' = Found(Tree', path, Containers(path)')
        /\ Walk(Tree', p, Containers(p)') /\ DocumentOf(p)' = Found(Tree', p, Containers(p)')
    BY WalksNext DEF WalksExact
  <1>2. Tree.docs = Documents /\ (Tree').docs = Documents'
    BY DEF Tree
  <1>3. DocumentOf(p) \subseteq Documents /\ DocumentOf(p)' \subseteq Documents'
    BY DEF DocumentOf
  <1>4. \A j \in Documents \cap Documents' : j \in DocumentOf(p)' <=> j \in DocumentOf(p)
    <2>1. \A j \in Tree.docs \cap (Tree').docs :
            j \in Found(Tree', p, Containers(p)') <=> j \in Found(Tree, p, Containers(p))
      BY <1>1, KeptFound
    <2>2. QED
      BY <1>1, <1>2, <2>1
  <1>5. x \notin DocumentOf(p)
    BY <1>1, FoundOne
  <1>6. x \notin DocumentOf(p)'
    <2>1. x \in Documents
      BY DEF DocumentOf
    <2>2. QED
      BY <1>3, <1>4, <1>5, <2>1
  <1>7. DocumentOf(p)' = DocumentOf(p)
    BY <1>3, <1>4, <1>5, <1>6
  <1>8. \A j \in DocumentOf(p) : objects'[j] = objects[j] /\ Body(j)' = Body(j)
    BY <1>3, <1>5
  <1>9. QED
    BY <1>7, <1>8, SameDocs

\* A write of an existing document gives its path the next version.
LEMMA ReplaceMap ==
  ASSUME TreeInv, TypeOK', NEW path \in Paths, NEW i \in DocumentOf(path), NEW body,
         ReplaceDocument(i, body)
  PROVE  WellTree(Tree)' /\ BytesExact' /\ Map!Put(path)
  <1>1. /\ TypeOK /\ WellTree(Tree) /\ i \in Documents
        /\ Tree.docs = Documents /\ (Tree').docs = Documents'
    BY DEF TreeInv, IInv, Tree, DocumentOf
  <1>2. /\ Tree' = Tree /\ BytesExact'
        /\ objects'[i].version = objects[i].version + 1
        /\ \A j \in Documents \ {i} : objects'[j] = objects[j] /\ Body(j)' = Body(j)
    BY <1>1, ReplaceTree
  <1>3. WellTree(Tree') /\ Kept(Tree, Tree') /\ Documents' = Documents
    BY <1>1, <1>2, KeptSelf
  <1>4. \A p \in Paths : p # path => Docs'[p] = Docs[p]
    BY <1>1, <1>2, <1>3, OthersKeep
  <1>5. /\ \A p \in Paths : /\ Walk(Tree, p, Containers(p))
                            /\ DocumentOf(p) = Found(Tree, p, Containers(p))
        /\ \A p \in Paths : /\ Walk(Tree', p, Containers(p)')
                            /\ DocumentOf(p)' = Found(Tree', p, Containers(p)')
    BY <1>1, WalksNext DEF WalksExact
  <1>6. DocumentOf(path) = {i}
    BY <1>1, <1>5, FoundOne
  <1>7. DocumentOf(path)' = {i}
    <2>1. \A j \in Tree.docs \cap (Tree').docs :
            j \in Found(Tree', path, Containers(path)') <=> j \in Found(Tree, path, Containers(path))
      BY <1>1, <1>3, <1>5, KeptFound
    <2>2. DocumentOf(path)' \subseteq Documents'
      BY DEF DocumentOf
    <2>3. QED
      BY <1>1, <1>3, <1>5, <1>6, <2>1, <2>2
  <1>8. {new.version : new \in Docs'[path]} = Map!NextVersions(path)
    <2>1. Docs[path] = {[version |-> objects[i].version, body |-> Body(i)]}
      BY <1>6, DocsOne
    <2>2. {old.version + 1 : old \in Docs[path]} = {objects[i].version + 1}
      BY <2>1
    <2>3. {new.version : new \in Docs'[path]} = {objects'[i].version}
      <3>1. Docs'[path] = {[version |-> objects'[j].version, body |-> Body(j)'] :
                            j \in DocumentOf(path)'}
        BY DEF Docs
      <3>2. {[version |-> objects'[j].version, body |-> Body(j)'] : j \in {i}} =
              {[version |-> objects'[i].version, body |-> Body(i)']}
        OBVIOUS
      <3>3. Docs'[path] = {[version |-> objects'[i].version, body |-> Body(i)']}
        BY <1>7, <3>1, <3>2
      <3>4. QED
        BY <3>3
    <2>4. QED
      BY <1>2, <2>1, <2>2, <2>3 DEF Map!NextVersions, Map!Present
  <1>9. \A other \in Paths : Map!IsStrictPrefix(other, path) => ~Map!Present(other)
    <2>1. \A other \in Paths : Map!IsStrictPrefix(other, path) => IsStrictPrefix(other, path)
      BY DEF Map!IsStrictPrefix, Map!IsPrefix, IsStrictPrefix, IsPrefix
    <2>2. ASSUME NEW other \in Paths, IsStrictPrefix(other, path) PROVE Docs[other] = {}
      <3>1. Found(Tree, path, Containers(path)) # {}
        BY <1>5, <1>6
      <3>2. Found(Tree, other, Containers(other)) = {}
        BY <1>1, <1>5, <2>2, <3>1, PrefixEmpty
      <3>3. QED
        BY <1>5, <3>2, DocsOne
    <2>3. QED
      BY <2>1, <2>2 DEF Map!Present
  <1>10. Map!Others(path)
    BY <1>4 DEF Map!Others
  <1>11. Map!Put(path)
    BY ONLY <1>8, <1>9, <1>10 DEF Map!Put
  <1>12. QED
    BY <1>2, <1>3, <1>11

\* A delete makes the path absent.
LEMMA DeleteMap ==
  ASSUME TreeInv, TypeOK', NEW path \in Paths, NEW i \in DocumentOf(path),
         NEW parent \in ParentOf(path), Delete(i, parent, Last(path))
  PROVE  WellTree(Tree)' /\ BytesExact' /\ Map!Erase(path)
  <1> DEFINE name == path[Len(path)]
  <1>1. /\ TypeOK /\ WellTree(Tree) /\ i \in Documents /\ parent \in Directories
        /\ Tree.docs = Documents /\ (Tree').docs = Documents' /\ Tree.dirs = Directories
        /\ name \in Names /\ Delete(i, parent, name)
        /\ Len(path) - 1 \in 0..(Len(path) - 1)
    BY PathLength DEF TreeInv, IInv, Tree, DocumentOf, ParentOf, Positive
  <1> HIDE DEF name
  <1>2. /\ \A p \in Paths : /\ Walk(Tree, p, Containers(p))
                            /\ DocumentOf(p) = Found(Tree, p, Containers(p))
                            /\ ParentOf(p) = Containers(p)[Len(p) - 1]
        /\ \A p \in Paths : /\ Walk(Tree', p, Containers(p)')
                            /\ DocumentOf(p)' = Found(Tree', p, Containers(p)')
    BY <1>1, WalksNext DEF WalksExact
  <1>3. Tree.man[parent][name] = i
    <2>1. PICK d \in Containers(path)[Len(path) - 1] : i = Tree.man[d][path[Len(path)]]
      BY <1>1, <1>2, FoundEntry
    <2>2. d = parent
      BY <1>1, <1>2, WalkOne
    <2>3. QED
      BY <2>1, <2>2 DEF name
  <1>4. /\ Tree' = Pruned(Tree, i, parent, name) /\ BytesExact'
        /\ \A j \in Documents \ {i} : objects'[j] = objects[j] /\ Body(j)' = Body(j)
    BY <1>1, DeleteTree
  <1>5. WellTree(Tree') /\ Kept(Tree, Tree')
    BY <1>1, <1>3, <1>4, PrunedTree
  <1>6. Documents' = Documents \ {i}
    BY <1>1, <1>4 DEF Pruned
  <1>7. \A p \in Paths : p # path => Docs'[p] = Docs[p]
    BY <1>1, <1>4, <1>5, <1>6, OthersKeep
  <1>8. DocumentOf(path)' = {}
    <2>1. DocumentOf(path) = {i}
      BY <1>1, <1>2, FoundOne
    <2>2. \A j \in Tree.docs \cap (Tree').docs :
            j \in Found(Tree', path, Containers(path)') <=> j \in Found(Tree, path, Containers(path))
      BY <1>1, <1>2, <1>5, KeptFound
    <2>3. DocumentOf(path)' \subseteq Documents'
      BY DEF DocumentOf
    <2>4. QED
      BY <1>1, <1>2, <1>6, <2>1, <2>2, <2>3
  <1>9. Docs'[path] = {}
    BY <1>8 DEF Docs
  <1>10. Map!Present(path)
    BY DocsOne DEF Map!Present
  <1>11. Map!Others(path)
    BY <1>7 DEF Map!Others
  <1>12. Map!Erase(path)
    BY ONLY <1>9, <1>10, <1>11 DEF Map!Erase
  <1>13. QED
    BY <1>4, <1>5, <1>12

\* The janitor, the clock, a replay and a refusal change no document.
LEMMA QuietMap ==
  ASSUME TreeInv, TypeOK', Tree' = Tree,
         \A j \in Documents : objects'[j] = objects[j] /\ Body(j)' = Body(j)
  PROVE  WellTree(Tree)' /\ Docs' = Docs
  <1>1. TypeOK /\ WellTree(Tree) /\ Tree.docs = Documents /\ (Tree').docs = Documents'
    BY DEF TreeInv, IInv, Tree
  <1>2. WellTree(Tree') /\ Kept(Tree, Tree')
    BY <1>1, KeptSelf
  <1>3. ASSUME NEW p \in Paths PROVE Docs'[p] = Docs[p]
    <2>1. /\ Walk(Tree, p, Containers(p)) /\ DocumentOf(p) = Found(Tree, p, Containers(p))
          /\ Walk(Tree', p, Containers(p)') /\ DocumentOf(p)' = Found(Tree', p, Containers(p)')
      BY <1>1, WalksNext DEF WalksExact
    <2>2. DocumentOf(p) \subseteq Documents /\ DocumentOf(p)' \subseteq Documents'
      BY DEF DocumentOf
    <2>3. \A j \in Tree.docs \cap (Tree').docs :
            j \in Found(Tree', p, Containers(p)') <=> j \in Found(Tree, p, Containers(p))
      BY <1>1, <1>2, <2>1, KeptFound
    <2>4. DocumentOf(p)' = DocumentOf(p)
      BY <1>1, <2>1, <2>2, <2>3
    <2>5. QED
      BY <2>2, <2>4, SameDocs
  <1>4. Docs' = Docs
    BY <1>3 DEF Docs
  <1>5. QED
    BY <1>2, <1>4

\* Every step keeps the tree, and is a step of the map of documents or none.
LEMMA TreeStep ==
  ASSUME TreeInv, [Next]_vars
  PROVE  TreeInv' /\ [Map!Next]_Docs
  <1>1. IInv' /\ TypeOK'
    BY NextStep DEF TreeInv, IInv
  <1>2. ASSUME NEW path \in Paths, NEW body \in Inputs, NEW key \in Keys,
               Create(path, body, key)
        PROVE  WellTree(Tree)' /\ BytesExact' /\ Map!Next
    BY <1>1, <1>2, CreateMap DEF Map!Next
  <1>3. ASSUME NEW path \in Paths, NEW expected \in 1..VersionBound, NEW key \in Keys,
               Mutate(path, expected, key)
        PROVE  WellTree(Tree)' /\ BytesExact' /\ Map!Next
    <2>1. PICK i \in DocumentOf(path) :
            \/ \E body : ReplaceDocument(i, body)
            \/ \E parent \in ParentOf(path) : Delete(i, parent, Last(path))
      BY <1>3 DEF Mutate, Replace, AppendText, Edit
    <2>2. QED
      BY <1>1, <2>1, ReplaceMap, DeleteMap DEF Map!Next
  <1>4. ASSUME NEW batch, NEW rows, NEW keys, PurgeDue(batch, rows, keys)
        PROVE  WellTree(Tree)' /\ BytesExact' /\ Docs' = Docs
    <2>1. /\ Tree' = Tree /\ BytesExact'
          /\ \A j \in Documents : objects'[j] = objects[j] /\ Body(j)' = Body(j)
      BY <1>4, PurgeTree
    <2>2. QED
      BY <1>1, <2>1, QuietMap
  <1>5. CASE UNCHANGED <<objects, versions>>
    <2>1. Tree' = Tree /\ \A j : objects'[j] = objects[j] /\ Body(j)' = Body(j)
      BY <1>5 DEF Tree, Manifest, Body, Directories, Documents, Root, Active, IsDocument, Ids
    <2>2. BytesExact'
      BY <1>5 DEF TreeInv, BytesExact, Body, Documents, Active, IsDocument, Ids
    <2>3. WellTree(Tree)' /\ Docs' = Docs
      BY <1>1, <2>1, QuietMap
    <2>4. QED
      BY <1>1, <2>2, <2>3 DEF TreeInv
  <1>6. Tick \/ UNCHANGED vars => UNCHANGED <<objects, versions>>
    BY DEF Tick, vars
  <1>7. QED
    BY <1>1, <1>2, <1>3, <1>4, <1>5, <1>6 DEF TreeInv, Next, Replay, Refuse

\* The empty scope has the empty tree.
LEMMA InitTree ==
  ASSUME Init
  PROVE  TreeInv /\ Map!Init
  <1>1. IInv
    BY InitInv
  <1>2. Directories = {} /\ Documents = {} /\ Root = {}
    BY DEF Init, Directories, Documents, Root, Ids
  <1>3. WellTree(Tree)
    <2>1. Tree = [root |-> {}, dirs |-> {}, docs |-> {}, man |-> [d \in {} |-> Manifest(d)]]
      BY <1>2 DEF Tree
    <2>2. QED
      BY <2>1 DEF WellTree
  <1>4. BytesExact
    BY <1>2 DEF BytesExact
  <1>5. Docs = [path \in Paths |-> {}]
    BY <1>2 DEF Docs, DocumentOf
  <1>6. QED
    BY <1>1, <1>3, <1>4, <1>5 DEF TreeInv, Map!Init

\* In a well-formed tree every object but the root has exactly one entry.
LEMMA ShapeOfTree ==
  ASSUME TreeInv
  PROVE  TreeShape
  <1>1. WellTree(Tree) /\ Tree.dirs = Directories /\ Tree.docs = Documents /\ Tree.root = Root
        /\ \A d \in Directories : Tree.man[d] = Manifest(d)
    BY DEF TreeInv, Tree
  <1>2. ASSUME NEW i \in (Documents \cup Directories) \ Root
        PROVE  Cardinality({e \in Directories \X Names : Manifest(e[1])[e[2]] = i}) = 1
    <2>1. PICK d \in Directories, name \in Names : Manifest(d)[name] = i
      BY <1>1 DEF WellTree
    <2>2. i # NULL
      BY <1>1 DEF WellTree, Positive, NULL
    <2>3. ASSUME NEW e \in Directories, NEW other \in Names, Manifest(e)[other] = i
          PROVE  e = d /\ other = name
      BY <1>1, <2>1, <2>2, <2>3, OneEntry
    <2>4. {e \in Directories \X Names : Manifest(e[1])[e[2]] = i} = {<<d, name>>}
      BY <2>1, <2>3
    <2>5. QED
      BY <2>4, FS_Singleton
  <1>3. \A d \in Directories, name \in Names :
          Manifest(d)[name] = NULL \/ (Manifest(d)[name] \in Documents \cup Directories
                                       /\ Manifest(d)[name] > d)
    BY <1>1 DEF WellTree
  <1>4. QED
    BY <1>2, <1>3 DEF TreeShape

---------------------------------------------------------------------------
(* The quota row's bytes.                                                  *)

Lengths == [i \in Documents |-> Len(Body(i))]
BytesSummed == MapThenSumSet(LAMBDA i : Len(Body(i)), Documents)
BytesAreSum ==
  IsFiniteSet(Documents) => \E g : IsSum(Documents, Lengths, g) /\ BytesSummed = g[Documents]

\* What the model sums over the documents is the sum of their lengths.
LEMMA SumIsBytes == BytesAreSum
  <1> SUFFICES ASSUME IsFiniteSet(Documents)
               PROVE  \E g : IsSum(Documents, Lengths, g) /\ BytesSummed = g[Documents]
    BY DEF BytesAreSum
  <1> DEFINE Sums(g) == g = [s \in SUBSET Documents |->
                IF s = {} THEN 0
                ELSE Len(Body(CHOOSE x \in s : TRUE)) + g[s \ {CHOOSE x \in s : TRUE}]]
  <1>1. \A g : IsSum(Documents, Lengths, g) <=> Sums(g)
    <2>1. \A s \in SUBSET Documents : s # {} =>
            Lengths[Taken(s)] = Len(Body(CHOOSE x \in s : TRUE))
      <3>1. \A s \in SUBSET Documents : s # {} => Taken(s) \in Documents
        BY TakenOut
      <3>2. QED
        BY <3>1 DEF Lengths, Taken
    <2>2. QED
      BY <2>1 DEF IsSum, Taken
  <1>2. PICK g : Sums(g)
    <2>1. \E g : IsSum(Documents, Lengths, g)
      BY SumExists
    <2> HIDE DEF Sums
    <2>2. QED
      BY <1>1, <2>1
  <1> DEFINE total == CHOOSE h : Sums(h)
  <1>3. Sums(total)
    BY <1>2
  <1>4. BytesSummed = total[Documents]
    BY DEF BytesSummed, MapThenSumSet, MapThenFoldSet
  <1> HIDE DEF Sums, total
  <1>5. QED
    BY <1>1, <1>3, <1>4

\* It is so before and after any step.
LEMMA SumsNext == BytesAreSum /\ BytesAreSum'
  BY SumIsBytes, PTL

\* The documents are finitely many, before and after a step.
FiniteDocuments == TypeOK => IsFiniteSet(Documents)
LEMMA DocumentsFinite == FiniteDocuments
  BY FiniteRows DEF FiniteDocuments

\* The same before and after a step.
LEMMA FiniteNext == FiniteDocuments /\ FiniteDocuments'
  BY DocumentsFinite, PTL

\* The quota row's bytes before and after a step, as sums.
Summed(g, h) ==
  /\ IsFiniteSet(Documents) /\ IsSum(Documents, Lengths, g)
  /\ Lengths \in [Documents -> Nat] /\ \A i \in Documents : Lengths[i] = Len(Body(i))
  /\ BytesSummed = g[Documents] /\ g[Documents] \in Nat
  /\ IsFiniteSet(Documents') /\ IsSum(Documents', Lengths', h)
  /\ Lengths' \in [Documents' -> Nat] /\ \A i \in Documents' : Lengths'[i] = Len(Body(i)')
  /\ BytesSummed' = h[Documents']

\* There are sums of the bytes over the documents before a step and after it.
LEMMA SumsOfStep ==
  ASSUME TreeInv, TreeInv'
  PROVE  \E g, h : Summed(g, h)
  <1>1. IsFiniteSet(Documents) /\ IsFiniteSet(Documents)'
    BY FiniteNext DEF TreeInv, IInv, FiniteDocuments
  <1>2. /\ \A i \in Documents : Len(Body(i)) \in Nat
        /\ \A i \in Documents' : Len(Body(i)') \in Nat
    <2>1. /\ \A i \in Documents : objects[i] \in Object
          /\ \A i \in Documents' : objects'[i] \in Object
      BY DEF TreeInv, IInv, TypeOK, Documents, Ids
    <2>2. \A row \in Object : row.bytes \in Nat
      BY DEF Object
    <2>3. QED
      BY <2>1, <2>2 DEF TreeInv, BytesExact
  <1>3. /\ Lengths = [i \in Documents |-> Len(Body(i))]
        /\ Lengths' = [i \in Documents' |-> Len(Body(i)')]
    BY DEF Lengths
  <1>4. PICK g : IsSum(Documents, Lengths, g) /\ BytesSummed = g[Documents]
    BY <1>1, SumsNext DEF BytesAreSum
  <1>5. PICK h : IsSum(Documents', Lengths', h) /\ BytesSummed' = h[Documents']
    BY <1>1, SumsNext DEF BytesAreSum
  <1>6. g[Documents] \in Nat
    <2>1. Lengths \in [Documents -> Nat] /\ Documents \in SUBSET Documents
      BY <1>2, <1>3
    <2>2. QED
      BY <1>1, <1>4, <2>1, SumTake
  <1>7. Summed(g, h)
    BY <1>1, <1>2, <1>3, <1>4, <1>5, <1>6 DEF Summed
  <1>8. QED
    BY <1>7

\* A step that keeps every document's text keeps the sum.
LEMMA BytesKept ==
  ASSUME TreeInv, TreeInv', QuotaBytes, Documents' = Documents, quota'.bytes = quota.bytes,
         \A j \in Documents : Body(j)' = Body(j)
  PROVE  QuotaBytes'
  <1>1. PICK g, h : Summed(g, h)
    BY SumsOfStep
  <1>2. \A j \in Documents : Lengths'[j] = Lengths[j]
    BY <1>1 DEF Summed
  <1>3. h[Documents] = g[Documents]
    BY <1>1, <1>2, SumSame DEF Summed
  <1>4. QED
    BY <1>1, <1>3 DEF Summed, QuotaBytes, BytesSummed

\* One document more: its text is charged.
LEMMA BytesAdded ==
  ASSUME TreeInv, TreeInv', QuotaBytes, NEW x, x \notin Documents,
         Documents' = Documents \cup {x}, quota'.bytes = quota.bytes + Len(Body(x)'),
         \A j \in Documents : Body(j)' = Body(j)
  PROVE  QuotaBytes'
  <1>1. PICK g, h : Summed(g, h)
    BY SumsOfStep
  <1>2. /\ \A j \in Documents : Lengths'[j] = Lengths[j]
        /\ Lengths'[x] = Len(Body(x)')
    BY <1>1 DEF Summed
  <1>3. h[Documents'] = g[Documents] + Lengths'[x]
    <2>1. /\ IsFiniteSet(Documents) /\ Lengths \in [Documents -> Nat]
          /\ IsSum(Documents, Lengths, g) /\ x \in Documents' /\ Documents = Documents' \ {x}
          /\ Lengths' \in [Documents' -> Nat] /\ IsSum(Documents', Lengths', h)
      BY <1>1 DEF Summed
    <2>2. QED
      BY <1>2, <2>1, SumGrows
  <1>4. QED
    BY <1>1, <1>2, <1>3 DEF Summed, QuotaBytes, BytesSummed

\* One document less: the bytes of its row are given back.
LEMMA BytesRemoved ==
  ASSUME TreeInv, TreeInv', QuotaBytes, NEW x \in Documents,
         Documents' = Documents \ {x}, quota'.bytes = quota.bytes - Len(Body(x)),
         \A j \in Documents \ {x} : Body(j)' = Body(j)
  PROVE  QuotaBytes'
  <1>1. PICK g, h : Summed(g, h)
    BY SumsOfStep
  <1>2. /\ \A j \in Documents' : Lengths[j] = Lengths'[j]
        /\ Lengths[x] = Len(Body(x))
    BY <1>1 DEF Summed
  <1>3. /\ g[Documents] = h[Documents'] + Lengths[x]
        /\ h[Documents'] \in Nat /\ Lengths[x] \in Nat
    <2>1. /\ IsFiniteSet(Documents') /\ Lengths' \in [Documents' -> Nat]
          /\ IsSum(Documents', Lengths', h) /\ Documents' = Documents \ {x}
          /\ Lengths \in [Documents -> Nat] /\ IsSum(Documents, Lengths, g)
      BY <1>1 DEF Summed
    <2>2. QED
      BY <1>2, <2>1, SumGrows
  <1>4. QED
    <2>1. quota.bytes = g[Documents] /\ BytesSummed' = h[Documents']
      BY <1>1 DEF Summed, QuotaBytes, BytesSummed
    <2>2. quota'.bytes = h[Documents']
      BY <1>2, <1>3, <2>1
    <2>3. QED
      BY <2>1, <2>2 DEF QuotaBytes, BytesSummed

\* A document's text replaced: the difference is charged.
LEMMA BytesReplaced ==
  ASSUME TreeInv, TreeInv', QuotaBytes, NEW x \in Documents,
         Documents' = Documents, quota'.bytes = quota.bytes + (Len(Body(x)') - Len(Body(x))),
         \A j \in Documents \ {x} : Body(j)' = Body(j)
  PROVE  QuotaBytes'
  <1>1. PICK g, h : Summed(g, h)
    BY SumsOfStep
  <1>2. PICK rest : rest = Documents \ {x}
    OBVIOUS
  <1>3. IsFiniteSet(rest) /\ IsFiniteSet(Documents)
    BY <1>1, <1>2, FS_Subset DEF Summed
  <1>4. PICK f : f = [j \in rest |-> Lengths[j]]
    OBVIOUS
  <1>5. /\ f \in [rest -> Nat]
        /\ \A j \in rest : Lengths[j] = f[j]
        /\ \A j \in rest : Lengths'[j] = f[j]
        /\ Lengths[x] = Len(Body(x)) /\ Lengths'[x] = Len(Body(x)')
    BY <1>1, <1>2, <1>4 DEF Summed
  <1>6. PICK k : IsSum(rest, f, k)
    BY <1>3, SumExists
  <1>7. /\ g[Documents] = k[rest] + Lengths[x] /\ k[rest] \in Nat /\ Lengths[x] \in Nat
    <2>1. /\ IsFiniteSet(rest) /\ f \in [rest -> Nat] /\ IsSum(rest, f, k)
          /\ x \in Documents /\ rest = Documents \ {x}
          /\ Lengths \in [Documents -> Nat] /\ IsSum(Documents, Lengths, g)
          /\ \A j \in rest : Lengths[j] = f[j]
      BY <1>1, <1>2, <1>3, <1>5, <1>6 DEF Summed
    <2>2. QED
      BY <2>1, SumGrows
  <1>8. h[Documents] = k[rest] + Lengths'[x] /\ Lengths'[x] \in Nat
    <2>1. /\ IsFiniteSet(rest) /\ f \in [rest -> Nat] /\ IsSum(rest, f, k)
          /\ x \in Documents /\ rest = Documents \ {x}
          /\ Lengths' \in [Documents -> Nat] /\ IsSum(Documents, Lengths', h)
          /\ \A j \in rest : Lengths'[j] = f[j]
      BY <1>1, <1>2, <1>3, <1>5, <1>6 DEF Summed
    <2>2. PICK w : w = Lengths'
      OBVIOUS
    <2>3. /\ IsFiniteSet(rest) /\ f \in [rest -> Nat] /\ IsSum(rest, f, k)
          /\ x \in Documents /\ rest = Documents \ {x}
          /\ w \in [Documents -> Nat] /\ IsSum(Documents, w, h)
          /\ \A j \in rest : w[j] = f[j]
      BY <2>1, <2>2
    <2>4. h[Documents] = k[rest] + w[x] /\ w[x] \in Nat
      BY ONLY <2>3, SumGrows
    <2>5. QED
      BY <2>2, <2>4
  <1>9. g[Documents] = k[rest] + Len(Body(x)) /\ h[Documents] = k[rest] + Len(Body(x)')
    BY <1>5, <1>7, <1>8
  <1>10. QED
    <2>1. quota.bytes = g[Documents] /\ BytesSummed' = h[Documents]
      BY <1>1 DEF Summed, QuotaBytes, BytesSummed
    <2>2. quota'.bytes = h[Documents]
      BY <1>5, <1>7, <1>8, <1>9, <2>1
    <2>3. QED
      BY <2>1, <2>2 DEF QuotaBytes, BytesSummed

\* Every step charges and gives back what it adds to and takes from the texts.
LEMMA BytesStep ==
  ASSUME TreeInv, QuotaBytes, [Next]_vars
  PROVE  QuotaBytes'
  <1>1. TreeInv' /\ IInv
    BY TreeStep DEF TreeInv
  <1>2. ASSUME NEW path \in Paths, NEW body \in Inputs, NEW key \in Keys,
               Create(path, body, key)
        PROVE  QuotaBytes'
    <2>1. PICK depth, parents, n, missing, top :
            /\ depth \in 0..Len(path) /\ parents \in SUBSET Directories
            /\ CreateEffect(path, body, depth, parents, n, missing, top)
      BY <1>2, CreateTree
    <2>2. quota'.bytes = quota.bytes + Len(body)
      BY <2>1 DEF CreateEffect, Insert, ChangeQuota
    <2>3. /\ top \notin Documents /\ Documents' = Documents \cup {top} /\ Body(top)' = body
          /\ \A j \in Documents : Body(j)' = Body(j)
      BY <2>1 DEF CreateEffect, InsertEffect, Body
    <2>4. QED
      BY <1>1, <2>2, <2>3, BytesAdded
  <1>3. ASSUME NEW i \in Documents, NEW body, ReplaceDocument(i, body)
        PROVE  QuotaBytes'
    <2>1. /\ Tree' = Tree /\ Body(i)' = body
          /\ \A j \in Documents \ {i} : Body(j)' = Body(j)
      BY <1>3, ReplaceTree
    <2>2. Documents' = Documents
      BY <2>1 DEF Tree
    <2>3. quota'.bytes = quota.bytes + (Len(body) - objects[i].bytes)
      BY <1>3 DEF ReplaceDocument, ChangeQuota
    <2>4. objects[i].bytes = Len(Body(i))
      BY DEF TreeInv, BytesExact
    <2>5. QED
      BY <1>1, <2>1, <2>2, <2>3, <2>4, BytesReplaced
  <1>4. ASSUME NEW i \in Documents, NEW parent \in Directories, NEW name \in Names,
               Delete(i, parent, name)
        PROVE  QuotaBytes'
    <2>1. /\ Tree' = Pruned(Tree, i, parent, name)
          /\ \A j \in Documents \ {i} : Body(j)' = Body(j)
      BY <1>4, DeleteTree
    <2>2. Documents' = Documents \ {i}
      BY <2>1 DEF Tree, Pruned
    <2>3. quota'.bytes = quota.bytes + (-objects[i].bytes)
      BY <1>4 DEF Delete, ChangeQuota
    <2>4. objects[i].bytes = Len(Body(i)) /\ objects[i].bytes \in Nat /\ quota.bytes \in Nat
      BY <1>1 DEF TreeInv, BytesExact, IInv, TypeOK, Documents, Ids, Object
    <2>5. quota'.bytes = quota.bytes - Len(Body(i))
      BY <2>3, <2>4
    <2>6. QED
      BY <1>1, <2>1, <2>2, <2>5, BytesRemoved
  <1>5. ASSUME NEW path \in Paths, NEW expected, NEW key, Mutate(path, expected, key)
        PROVE  QuotaBytes'
    <2>1. PICK i \in DocumentOf(path) :
            \/ \E body : ReplaceDocument(i, body)
            \/ \E parent \in ParentOf(path) : Delete(i, parent, Last(path))
      BY <1>5 DEF Mutate, Replace, AppendText, Edit
    <2>2. i \in Documents /\ ParentOf(path) \subseteq Directories /\ Last(path) \in Names
      BY PathLength DEF DocumentOf, ParentOf, Positive
    <2>3. QED
      BY <1>3, <1>4, <2>1, <2>2
  <1>6. ASSUME NEW batch, NEW rows, NEW keys, PurgeDue(batch, rows, keys)
        PROVE  QuotaBytes'
    <2>1. Tree' = Tree /\ \A j \in Documents : Body(j)' = Body(j)
      BY <1>6, PurgeTree
    <2>2. Documents' = Documents
      BY <2>1 DEF Tree
    <2>3. quota'.bytes = quota.bytes
      BY <1>1, <1>6 DEF PurgeDue, IInv, TypeOK
    <2>4. QED
      BY <1>1, <2>1, <2>2, <2>3, BytesKept
  <1>7. CASE UNCHANGED <<objects, versions, quota>>
    <2>1. Documents' = Documents /\ \A j \in Documents : Body(j)' = Body(j)
      BY <1>7 DEF Body, Documents, Active, IsDocument, Ids
    <2>2. QED
      BY <1>1, <1>7, <2>1, BytesKept
  <1>8. Tick \/ UNCHANGED vars => UNCHANGED <<objects, versions, quota>>
    BY DEF Tick, vars
  <1>9. QED
    BY <1>2, <1>5, <1>6, <1>7, <1>8 DEF Next, Replay, Refuse

---------------------------------------------------------------------------
(* Theorems.                                                               *)

\* The tree of the tables is well formed and a document's row counts its own
\* text in every reachable state of the store.
THEOREM TreeInductive == Spec => []TreeInv
  <1>1. Init => TreeInv
    BY InitTree
  <1>2. TreeInv /\ [Next]_vars => TreeInv'
    BY TreeStep
  <1>3. QED
    BY <1>1, <1>2, PTL DEF Spec

\* The manifests form one tree under every sequence of creates, writes, deletes
\* and janitor batches: nothing active is out of reach or reached twice.
THEOREM TreeIsOne == Spec => []TreeShape
  <1>1. TreeInv => TreeShape
    BY ShapeOfTree
  <1>2. QED
    BY <1>1, TreeInductive, PTL

\* The tables implement the map from paths to versioned documents: a committed
\* mutation changes the one path it names, everything else changes none.
THEOREM StoreImplementsMap == Spec => ImplementsDocumentMap
  <1>1. Init => Map!Init
    BY InitTree
  <1>2. TreeInv /\ [Next]_vars => [Map!Next]_Docs
    BY TreeStep
  <1>3. QED
    BY <1>1, <1>2, TreeInductive, PTL DEF Spec, ImplementsDocumentMap, Map!Spec

\* No two present paths are a prefix of one another: a document is never also a
\* directory.
THEOREM MapIsPrefixFree == Spec => []Map!PrefixFree
  <1>1. TreeInv => Map!PrefixFree
    <2> SUFFICES ASSUME TreeInv, NEW p \in Paths, NEW q \in Paths,
                        Map!Present(p), Map!Present(q), Map!IsStrictPrefix(p, q)
                 PROVE  FALSE
      BY DEF Map!PrefixFree
    <2>1. IsStrictPrefix(p, q)
      BY DEF Map!IsStrictPrefix, Map!IsPrefix, IsStrictPrefix, IsPrefix
    <2>2. /\ WellTree(Tree) /\ Docs[p] # {} /\ Docs[q] # {}
          /\ Walk(Tree, p, Containers(p)) /\ DocumentOf(p) = Found(Tree, p, Containers(p))
          /\ Walk(Tree, q, Containers(q)) /\ DocumentOf(q) = Found(Tree, q, Containers(q))
      BY WalksAreExact DEF TreeInv, IInv, WalksExact, Map!Present
    <2>3. Found(Tree, p, Containers(p)) # {} /\ Found(Tree, q, Containers(q)) # {}
      BY <2>2, DocsOne
    <2>4. QED
      BY <2>1, <2>2, <2>3, PrefixEmpty
  <1>2. QED
    BY <1>1, TreeInductive, PTL

\* The quota row's bytes are the bytes of the texts the active documents hold,
\* after every sequence of creates, writes, appends, edits, deletes and purges.
THEOREM BytesAccounted == Spec => []QuotaBytes
  <1>1. Init => QuotaBytes
    <2> SUFFICES ASSUME Init PROVE QuotaBytes
      OBVIOUS
    <2>1. quota.bytes = 0 /\ Documents = {}
      BY DEF Init, Documents, Ids
    <2>2. PICK g : IsSum(Documents, Lengths, g) /\ BytesSummed = g[Documents]
      BY <2>1, FS_EmptySet, SumIsBytes DEF BytesAreSum
    <2>3. g[Documents] = 0
      BY <2>1, <2>2 DEF IsSum
    <2>4. QED
      BY <2>1, <2>2, <2>3 DEF QuotaBytes, BytesSummed
  <1>2. TreeInv /\ QuotaBytes /\ [Next]_vars => QuotaBytes'
    BY BytesStep
  <1>3. QED
    BY <1>1, <1>2, TreeInductive, PTL DEF Spec
================================================================================
