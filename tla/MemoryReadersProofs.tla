-------------------------- MODULE MemoryReadersProofs --------------------------
(***************************************************************************)
(* What a reader is told, for any paths, texts, limits and bounds. Objects *)
(* have the paths that lead to them as labels, and keep them when they are *)
(* deleted. The invariant says what a reader holds between two of its      *)
(* statements: a row it found was at its label at some moment of the call, *)
(* a text it read is that of the version it holds, and the entries it      *)
(* still has to visit, with what it has found, cover the documents that    *)
(* stayed in place all along.                                              *)
(***************************************************************************)
EXTENDS MemoryReaders, MemoryStoreTreeProofs

---------------------------------------------------------------------------
(* Labels.  Every object has the path that leads to it as its label: the   *)
(* root the empty one, an entry's object its directory's with one name     *)
(* more.  An object keeps its label when it is deleted, so that what a     *)
(* reader holds still says where it was found.                             *)

Labels == Seq(Names)
Under(q, p) == Len(q) <= Len(p) /\ \A n \in 1..Len(q) : q[n] = p[n]

Labelled(t, place) ==
  /\ \A i \in t.dirs \cup t.docs : place[i] \in Labels
  /\ \A i \in t.root : place[i] = <<>>
  /\ \A i \in t.docs : place[i] \in Paths
  /\ \A d \in t.dirs, name \in Names :
       t.man[d][name] # NULL => place[t.man[d][name]] = Append(place[d], name)

\* A label with one name more.
LEMMA LabelMore ==
  ASSUME NEW q \in Labels, NEW name \in Names
  PROVE  /\ Append(q, name) \in Labels /\ Len(q) \in Nat /\ Len(Append(q, name)) = Len(q) + 1
         /\ Append(q, name)[Len(q) + 1] = name
         /\ \A n \in 1..Len(q) : Append(q, name)[n] = q[n]
  BY DEF Labels

\* Equal labels are equal name by name.
LEMMA LabelEqual ==
  ASSUME NEW p \in Labels, NEW q \in Labels, Len(p) = Len(q), \A n \in 1..Len(p) : p[n] = q[n]
  PROVE  p = q
  BY SeqEqual DEF Labels

\* Every object but the root has an entry, and the label of it.
LEMMA Parent ==
  ASSUME NEW t, WellTree(t), NEW place, Labelled(t, place),
         NEW i \in t.dirs \cup t.docs, i \notin t.root
  PROVE  \E d \in t.dirs, name \in Names :
           /\ t.man[d][name] = i /\ i # NULL /\ place[d] \in Labels
           /\ place[i] = Append(place[d], name) /\ Len(place[i]) = Len(place[d]) + 1
           /\ place[i][Len(place[d]) + 1] = name
           /\ \A n \in 1..Len(place[d]) : place[i][n] = place[d][n]
  <1>1. PICK d \in t.dirs, name \in Names : t.man[d][name] = i
    BY DEF WellTree
  <1>2. i # NULL
    BY DEF WellTree, Positive, NULL
  <1>3. place[i] = Append(place[d], name) /\ place[d] \in Labels
    BY <1>1, <1>2 DEF Labelled
  <1>4. QED
    BY <1>1, <1>2, <1>3, LabelMore

\* Only the root's label is empty.
LEMMA LabelRoot ==
  ASSUME NEW t, WellTree(t), NEW place, Labelled(t, place), NEW i \in t.dirs \cup t.docs
  PROVE  /\ Len(place[i]) \in Nat /\ place[i] \in Labels
         /\ i \in t.root <=> Len(place[i]) = 0
  <1>1. place[i] \in Labels /\ Len(place[i]) \in Nat
    BY DEF Labelled, Labels
  <1>2. i \in t.root => Len(place[i]) = 0
    BY DEF Labelled
  <1>3. ASSUME i \notin t.root PROVE Len(place[i]) # 0
    <2>1. PICK d \in t.dirs, name \in Names :
            place[d] \in Labels /\ Len(place[i]) = Len(place[d]) + 1
      BY <1>3, Parent
    <2>2. Len(place[d]) \in Nat
      BY <2>1 DEF Labels
    <2>3. QED
      BY <2>1, <2>2
  <1>4. QED
    BY <1>1, <1>2, <1>3

\* No two objects of the tree have one label.
LEMMA LabelOne ==
  ASSUME NEW t, WellTree(t), NEW place, Labelled(t, place),
         NEW i \in t.dirs \cup t.docs, NEW j \in t.dirs \cup t.docs, place[i] = place[j]
  PROVE  i = j
  <1> DEFINE Same(n) == \A a, b \in t.dirs \cup t.docs :
                          Len(place[a]) = n /\ place[a] = place[b] => a = b
             S == {n \in Nat : Same(n)}
  <1>1. Same(0)
    <2>1. \A a, b \in t.root : a = b
      BY DEF WellTree
    <2>2. \A a \in t.dirs \cup t.docs : Len(place[a]) = 0 => a \in t.root
      BY LabelRoot
    <2>3. QED
      BY <2>1, <2>2
  <1>2. ASSUME NEW n \in Nat, Same(n) PROVE Same(n + 1)
    <2> SUFFICES ASSUME NEW a \in t.dirs \cup t.docs, NEW b \in t.dirs \cup t.docs,
                        Len(place[a]) = n + 1, place[a] = place[b]
                 PROVE  a = b
      OBVIOUS
    <2>1. a \notin t.root /\ b \notin t.root
      BY LabelRoot
    <2>2. PICK d \in t.dirs, one \in Names :
            /\ t.man[d][one] = a /\ a # NULL /\ place[d] \in Labels
            /\ Len(place[a]) = Len(place[d]) + 1 /\ place[a][Len(place[d]) + 1] = one
            /\ \A k \in 1..Len(place[d]) : place[a][k] = place[d][k]
      BY <2>1, Parent
    <2>3. PICK e \in t.dirs, other \in Names :
            /\ t.man[e][other] = b /\ b # NULL /\ place[e] \in Labels
            /\ Len(place[b]) = Len(place[e]) + 1 /\ place[b][Len(place[e]) + 1] = other
            /\ \A k \in 1..Len(place[e]) : place[b][k] = place[e][k]
      BY <2>1, Parent
    <2>4. Len(place[d]) = n /\ Len(place[e]) = n
      <3>1. Len(place[d]) \in Nat /\ Len(place[e]) \in Nat
        BY <2>2, <2>3 DEF Labels
      <3>2. QED
        BY <2>2, <2>3, <3>1
    <2>5. one = other /\ \A k \in 1..Len(place[d]) : place[d][k] = place[e][k]
      BY <2>2, <2>3, <2>4
    <2>6. place[d] = place[e]
      BY <2>2, <2>3, <2>4, <2>5, LabelEqual
    <2>7. d = e
      BY <1>2, <2>4, <2>6
    <2>8. QED
      BY <2>2, <2>3, <2>5, <2>7
  <1> HIDE DEF Same
  <1>3. Len(place[i]) \in S
    <2>1. 0 \in S /\ \A n \in Nat : n \in S => n + 1 \in S
      <3>1. 0 \in S
        BY <1>1
      <3>2. ASSUME NEW n \in Nat, n \in S PROVE n + 1 \in S
        <4>1. n + 1 \in Nat
          OBVIOUS
        <4>2. QED
          BY <1>2, <3>2, <4>1
      <3>3. QED
        BY <3>1, <3>2
    <2>2. Len(place[i]) \in Nat
      BY LabelRoot
    <2> HIDE DEF S
    <2>3. QED
      BY <2>1, <2>2, NatSet
  <1>4. QED
    BY <1>3 DEF Same

\* Above an object is a directory at each length, with an entry on the way.
Above(t, place, i, k) ==
  \E d \in t.dirs : /\ Len(place[d]) = k /\ Under(place[d], place[i])
                    /\ t.man[d][place[i][k + 1]] # NULL
LEMMA Ancestors ==
  ASSUME NEW t, WellTree(t), NEW place, Labelled(t, place),
         NEW i \in t.dirs \cup t.docs, NEW k \in Nat, k < Len(place[i])
  PROVE  Above(t, place, i, k)
  <1> DEFINE All(n) == \A a \in t.dirs \cup t.docs : \A b \in Nat :
                         Len(place[a]) = n /\ b < n => Above(t, place, a, b)
             S == {n \in Nat : All(n)}
  <1>1. All(0)
    OBVIOUS
  <1>2. ASSUME NEW n \in Nat, All(n) PROVE All(n + 1)
    <2> SUFFICES ASSUME NEW a \in t.dirs \cup t.docs, NEW b \in Nat,
                        Len(place[a]) = n + 1, b < n + 1
                 PROVE  Above(t, place, a, b)
      OBVIOUS
    <2>1. a \notin t.root
      BY LabelRoot
    <2>2. PICK e \in t.dirs, name \in Names :
            /\ t.man[e][name] = a /\ a # NULL /\ place[e] \in Labels
            /\ Len(place[a]) = Len(place[e]) + 1 /\ place[a][Len(place[e]) + 1] = name
            /\ \A j \in 1..Len(place[e]) : place[a][j] = place[e][j]
      BY <2>1, Parent
    <2>3. Len(place[e]) = n
      <3>1. Len(place[e]) \in Nat
        BY <2>2 DEF Labels
      <3>2. QED
        BY <2>2, <3>1
    <2>4. CASE b = n
      <3>1. Under(place[e], place[a])
        BY <2>2, <2>3 DEF Under
      <3>2. QED
        BY <2>2, <2>3, <2>4, <3>1 DEF Above
    <2>5. CASE b < n
      <3>1. PICK d \in t.dirs :
              /\ Len(place[d]) = b /\ Under(place[d], place[e])
              /\ t.man[d][place[e][b + 1]] # NULL
        BY <1>2, <2>3, <2>5 DEF Above
      <3>2. place[e][b + 1] = place[a][b + 1]
        <4>1. b + 1 \in 1..n
          BY <2>5
        <4>2. QED
          BY <2>2, <2>3, <4>1
      <3>3. Under(place[d], place[a])
        <4>1. \A j \in 1..b : j \in 1..n
          BY <2>5
        <4>2. QED
          BY <2>2, <2>3, <2>5, <3>1, <4>1 DEF Under
      <3>4. QED
        BY <3>1, <3>2, <3>3 DEF Above
    <2>6. QED
      BY <2>4, <2>5
  <1> HIDE DEF All
  <1>3. Len(place[i]) \in S /\ Len(place[i]) \in Nat
    <2>1. 0 \in S /\ \A n \in Nat : n \in S => n + 1 \in S
      <3>1. 0 \in S
        BY <1>1
      <3>2. ASSUME NEW n \in Nat, n \in S PROVE n + 1 \in S
        <4>1. n + 1 \in Nat
          OBVIOUS
        <4>2. QED
          BY <1>2, <3>2, <4>1
      <3>3. QED
        BY <3>1, <3>2
    <2>2. Len(place[i]) \in Nat
      BY LabelRoot
    <2> HIDE DEF S
    <2>3. QED
      BY <2>1, <2>2, NatSet
  <1>4. QED
    BY <1>3 DEF All

\* The containers met on the way to a path are those that its beginnings label.
LEMMA WalkLabels ==
  ASSUME NEW t, WellTree(t), NEW place, Labelled(t, place),
         NEW p \in Paths, NEW met, Walk(t, p, met), NEW m \in 0..(Len(p) - 1), NEW x
  PROVE  x \in met[m] <=> x \in t.dirs /\ Len(place[x]) = m /\ Under(place[x], p)
  <1> DEFINE At(y, n) == y \in t.dirs /\ Len(place[y]) = n /\ Under(place[y], p)
             S == {n \in Nat : n <= Len(p) - 1 => \A y : y \in met[n] <=> At(y, n)}
  <1>1. /\ Len(p) \in Nat /\ Steps(t, p, met) /\ met[0] = t.root /\ t.root \subseteq t.dirs
        /\ \A n \in 1..Len(p) : p[n] \in Names
    BY PathLength, WalkStep DEF Positive, Walk, WellTree
  <1>2. 0 \in S
    <2>1. \A y : y \in t.root => Len(place[y]) = 0 /\ Under(place[y], p)
      BY <1>1, LabelRoot DEF Under
    <2>2. QED
      BY <1>1, <2>1, LabelRoot
  <1>3. ASSUME NEW n \in Nat, n \in S PROVE n + 1 \in S
    <2>0. n + 1 \in Nat
      OBVIOUS
    <2> SUFFICES ASSUME n + 1 <= Len(p) - 1, NEW y PROVE y \in met[n + 1] <=> At(y, n + 1)
      BY <2>0
    <2>1. /\ n + 1 \in 1..Len(p) /\ p[n + 1] \in Names
          /\ n <= Len(p) - 1 /\ n + 1 <= Len(p) /\ n <= Len(p)
      BY <1>1
    <2>2. y \in met[n + 1] <=>
            y \in t.dirs /\ \E d \in met[n] : d \in t.dirs /\ y = t.man[d][p[n + 1]]
      BY <1>1 DEF Steps
    <2>3. \A d : d \in met[n] <=> At(d, n)
      BY <1>3, <2>1
    <2>4. ASSUME y \in met[n + 1] PROVE At(y, n + 1)
      <3>1. PICK d \in t.dirs : At(d, n) /\ y = t.man[d][p[n + 1]] /\ y \in t.dirs
        BY <2>2, <2>3, <2>4
      <3>2. y # NULL
        BY <3>1 DEF WellTree, Positive, NULL
      <3>3. place[y] = Append(place[d], p[n + 1]) /\ place[d] \in Labels
        BY <2>1, <3>1, <3>2 DEF Labelled
      <3>4. /\ Len(place[y]) = n + 1 /\ place[y][n + 1] = p[n + 1]
            /\ \A k \in 1..n : place[y][k] = place[d][k]
        <4>1. PICK q \in Labels : q = place[d]
          BY <3>3
        <4>2. PICK name \in Names : name = p[n + 1]
          BY <2>1
        <4>3. place[y] = Append(q, name) /\ Len(q) = n
          BY <3>1, <3>3, <4>1, <4>2
        <4>4. /\ Len(Append(q, name)) = n + 1 /\ Append(q, name)[n + 1] = name
              /\ \A k \in 1..n : Append(q, name)[k] = q[k]
          BY <4>3, LabelMore
        <4>5. QED
          BY <4>1, <4>2, <4>3, <4>4
      <3>5. \A k \in 1..(n + 1) : place[y][k] = p[k]
        <4>1. \A k \in 1..n : place[d][k] = p[k]
          BY <3>1 DEF Under
        <4>2. \A k \in 1..(n + 1) : k = n + 1 \/ k \in 1..n
          OBVIOUS
        <4>3. QED
          BY <3>4, <4>1, <4>2
      <3>6. QED
        BY <2>1, <3>1, <3>4, <3>5 DEF Under
    <2>5. ASSUME At(y, n + 1) PROVE y \in met[n + 1]
      <3>1. y \notin t.root
        BY <2>5, LabelRoot
      <3>2. PICK d \in t.dirs, name \in Names :
              /\ t.man[d][name] = y /\ place[d] \in Labels
              /\ Len(place[y]) = Len(place[d]) + 1 /\ place[y][Len(place[d]) + 1] = name
              /\ \A k \in 1..Len(place[d]) : place[y][k] = place[d][k]
        BY <2>5, <3>1, Parent
      <3>3. Len(place[d]) = n
        <4>1. Len(place[d]) \in Nat
          BY <3>2 DEF Labels
        <4>2. QED
          BY <2>5, <3>2, <4>1
      <3>4. \A k \in 1..(n + 1) : place[y][k] = p[k]
        BY <2>5 DEF Under
      <3>5. name = p[n + 1] /\ \A k \in 1..n : place[d][k] = p[k]
        BY <3>2, <3>3, <3>4
      <3>6. At(d, n)
        BY <2>1, <3>3, <3>5 DEF Under
      <3>7. QED
        BY <2>2, <2>3, <2>5, <3>2, <3>5, <3>6
    <2>6. QED
      BY <2>4, <2>5
  <1>4. m \in S
    <2>1. m \in Nat
      BY <1>1
    <2> HIDE DEF S
    <2>2. QED
      BY <1>2, <1>3, <2>1, NatSet
  <1>5. m <= Len(p) - 1
    BY <1>1
  <1>6. QED
    BY <1>4, <1>5

\* A path names the document it labels.
LEMMA FoundLabels ==
  ASSUME NEW t, WellTree(t), NEW place, Labelled(t, place),
         NEW p \in Paths, NEW met, Walk(t, p, met), NEW i
  PROVE  i \in Found(t, p, met) <=> i \in t.docs /\ place[i] = p
  <1> DEFINE last == Len(p) - 1
  <1>1. /\ Len(p) \in Nat /\ last \in Nat /\ last \in 0..(Len(p) - 1) /\ Len(p) = last + 1
        /\ p[Len(p)] \in Names /\ p \in Labels
    BY PathLength DEF Positive, Labels
  <1>2. i \in Found(t, p, met) <=>
          i \in t.docs /\ \E d \in met[last] : d \in t.dirs /\ i = t.man[d][p[Len(p)]]
    BY FoundEntry
  <1> HIDE DEF last
  <1>3. ASSUME NEW d
        PROVE  d \in met[last] <=> d \in t.dirs /\ Len(place[d]) = last /\ Under(place[d], p)
    BY <1>1, WalkLabels
  <1>4. ASSUME i \in Found(t, p, met) PROVE i \in t.docs /\ place[i] = p
    <2>1. PICK d \in t.dirs : /\ Len(place[d]) = last /\ Under(place[d], p)
                              /\ i = t.man[d][p[Len(p)]] /\ i \in t.docs
      BY <1>2, <1>3, <1>4
    <2>2. i # NULL
      BY <2>1 DEF WellTree, Positive, NULL
    <2>3. place[i] = Append(place[d], p[Len(p)]) /\ place[d] \in Labels /\ place[i] \in Labels
      BY <1>1, <2>1, <2>2 DEF Labelled
    <2>4. /\ Len(place[i]) = Len(p) /\ place[i][Len(p)] = p[Len(p)]
          /\ \A k \in 1..last : place[i][k] = place[d][k]
      <3>1. PICK q \in Labels : q = place[d]
        BY <2>3
      <3>2. PICK name \in Names : name = p[Len(p)]
        BY <1>1
      <3>3. place[i] = Append(q, name) /\ Len(q) = last
        BY <2>1, <2>3, <3>1, <3>2
      <3>4. /\ Len(Append(q, name)) = last + 1 /\ Append(q, name)[last + 1] = name
            /\ \A k \in 1..last : Append(q, name)[k] = q[k]
        BY <3>3, LabelMore
      <3>5. QED
        BY <1>1, <3>1, <3>2, <3>3, <3>4
    <2>5. \A k \in 1..last : place[d][k] = p[k]
      BY <2>1 DEF Under
    <2>6. \A k \in 1..Len(p) : k = Len(p) \/ k \in 1..last
      BY <1>1
    <2>7. ASSUME NEW k \in 1..Len(p) PROVE place[i][k] = p[k]
      <3>1. CASE k = Len(p)
        BY <2>4, <3>1
      <3>2. CASE k \in 1..last
        BY <2>4, <2>5, <3>2
      <3>3. QED
        BY <2>6, <3>1, <3>2
    <2>8. place[i] = p
      <3>1. place[i] \in Labels /\ p \in Labels /\ Len(place[i]) = Len(p)
        BY <1>1, <2>3, <2>4
      <3>2. \A k \in 1..Len(place[i]) : place[i][k] = p[k]
        BY <2>7, <3>1
      <3>3. QED
        BY <3>1, <3>2, LabelEqual
    <2>9. QED
      BY <2>1, <2>8
  <1>5. ASSUME i \in t.docs, place[i] = p PROVE i \in Found(t, p, met)
    <2>1. i \notin t.root
      BY <1>5 DEF WellTree
    <2>2. PICK d \in t.dirs, name \in Names :
            /\ t.man[d][name] = i /\ place[d] \in Labels
            /\ Len(place[i]) = Len(place[d]) + 1 /\ place[i][Len(place[d]) + 1] = name
            /\ \A k \in 1..Len(place[d]) : place[i][k] = place[d][k]
      BY <1>5, <2>1, Parent
    <2>3. Len(place[d]) = last
      <3>1. Len(place[d]) \in Nat
        BY <2>2 DEF Labels
      <3>2. QED
        BY <1>1, <1>5, <2>2, <3>1
    <2>4. name = p[Len(p)] /\ Under(place[d], p)
      BY <1>1, <1>5, <2>2, <2>3 DEF Under
    <2>5. QED
      BY <1>2, <1>3, <1>5, <2>2, <2>3, <2>4
  <1>6. QED
    BY <1>4, <1>5

\* Nothing else is at or below a document.
LEMMA BelowDocument ==
  ASSUME NEW t, WellTree(t), NEW place, Labelled(t, place),
         NEW i \in t.docs, NEW j \in t.docs, Under(place[i], place[j])
  PROVE  i = j
  <1>1. /\ Len(place[i]) \in Nat /\ Len(place[j]) \in Nat
        /\ place[i] \in Labels /\ place[j] \in Labels /\ t.docs \cap t.dirs = {}
    BY LabelRoot DEF WellTree
  <1>2. CASE Len(place[i]) = Len(place[j])
    <2>1. place[i] = place[j]
      BY <1>1, <1>2, LabelEqual DEF Under
    <2>2. QED
      BY <2>1, LabelOne
  <1>3. CASE Len(place[i]) < Len(place[j])
    <2>1. PICK d \in t.dirs : Len(place[d]) = Len(place[i]) /\ Under(place[d], place[j])
      BY <1>1, <1>3, Ancestors DEF Above
    <2>2. place[d] \in Labels
      BY LabelRoot
    <2>3. place[d] = place[i]
      BY <1>1, <2>1, <2>2, LabelEqual DEF Under
    <2>4. d = i
      BY <2>3, LabelOne
    <2>5. QED
      BY <1>1, <2>4
  <1>4. QED
    BY <1>1, <1>2, <1>3 DEF Under

\* No document has a directory's label.
LEMMA AtDirectory ==
  ASSUME NEW t, WellTree(t), NEW place, Labelled(t, place), NEW d \in t.dirs, NEW j \in t.docs
  PROVE  place[d] # place[j]
  <1>1. place[d] = place[j] => d = j
    BY LabelOne
  <1>2. QED
    BY <1>1 DEF WellTree

\* Nothing is under a name that a directory has no entry for.
LEMMA NoEntry ==
  ASSUME NEW t, WellTree(t), NEW place, Labelled(t, place),
         NEW d \in t.dirs, NEW name \in Names, t.man[d][name] = NULL, NEW j \in t.docs
  PROVE  ~Under(Append(place[d], name), place[j])
  <1> SUFFICES ASSUME Under(Append(place[d], name), place[j]) PROVE FALSE
    OBVIOUS
  <1>1. place[d] \in Labels /\ place[j] \in Labels /\ Len(place[d]) \in Nat /\ Len(place[j]) \in Nat
    BY LabelRoot
  <1>2. /\ Len(Append(place[d], name)) = Len(place[d]) + 1
        /\ Append(place[d], name)[Len(place[d]) + 1] = name
        /\ \A n \in 1..Len(place[d]) : Append(place[d], name)[n] = place[d][n]
    BY <1>1, LabelMore
  <1>3. /\ Len(place[d]) + 1 <= Len(place[j])
        /\ \A n \in 1..(Len(place[d]) + 1) : Append(place[d], name)[n] = place[j][n]
    BY <1>2 DEF Under
  <1>4. /\ Len(place[d]) < Len(place[j]) /\ place[j][Len(place[d]) + 1] = name
        /\ \A n \in 1..Len(place[d]) : place[d][n] = place[j][n]
    <2>1. Len(place[d]) + 1 \in 1..(Len(place[d]) + 1)
      BY <1>1
    <2>2. \A n \in 1..Len(place[d]) : n \in 1..(Len(place[d]) + 1)
      BY <1>1
    <2>3. QED
      BY <1>1, <1>2, <1>3, <2>1, <2>2
  <1>5. PICK e \in t.dirs : /\ Len(place[e]) = Len(place[d]) /\ Under(place[e], place[j])
                            /\ t.man[e][place[j][Len(place[d]) + 1]] # NULL
    <2>1. Above(t, place, j, Len(place[d]))
      BY <1>1, <1>4, Ancestors
    <2>2. QED
      BY <2>1 DEF Above
  <1>6. place[e] = place[d]
    <2>1. place[e] \in Labels
      BY LabelRoot
    <2>2. \A n \in 1..Len(place[e]) : place[e][n] = place[d][n]
      BY <1>4, <1>5 DEF Under
    <2>3. QED
      BY <1>1, <1>5, <2>1, <2>2, LabelEqual
  <1>7. e = d
    BY <1>6, LabelOne
  <1>8. QED
    BY <1>4, <1>5, <1>7

---------------------------------------------------------------------------
(* The labels after a step: an object that was there keeps its own.        *)

\* The first names of a path.
LEMMA Beginning ==
  ASSUME NEW path \in Paths, NEW k \in 0..Len(path)
  PROVE  /\ SubSeq(path, 1, k) \in Labels /\ Len(SubSeq(path, 1, k)) = k
         /\ \A n \in 1..k : SubSeq(path, 1, k)[n] = path[n]
  <1>1. Len(path) \in Nat /\ k \in Int /\ 1 \in Int /\ \A n \in 1..k : path[n] \in Names
    BY PathLength DEF Positive
  <1>2. /\ SubSeq(path, 1, k) \in Seq(Names)
        /\ Len(SubSeq(path, 1, k)) = IF 1 <= k THEN k - 1 + 1 ELSE 0
        /\ \A n \in 1..(k - 1 + 1) : SubSeq(path, 1, k)[n] = path[1 + n - 1]
    BY <1>1, SubSeqProperties
  <1>3. k - 1 + 1 = k /\ k >= 0 /\ \A n \in 1..k : 1 + n - 1 = n
    BY <1>1
  <1>4. QED
    BY <1>2, <1>3 DEF Labels

\* A tree that only loses objects and entries keeps the labels.
LEMMA KeptLabels ==
  ASSUME NEW t, NEW place, Labelled(t, place), NEW u, WellTree(u), Kept(t, u),
         u.dirs \subseteq t.dirs, u.docs \subseteq t.docs, u.root \subseteq t.root
  PROVE  Labelled(u, place)
  <1>1. ASSUME NEW d \in u.dirs, NEW name \in Names, u.man[d][name] # NULL
        PROVE  place[u.man[d][name]] = Append(place[d], name)
    <2>1. u.man[d][name] \in u.dirs \cup u.docs
      BY <1>1 DEF WellTree
    <2>2. d \in t.dirs /\ t.man[d][name] = u.man[d][name]
      BY <2>1 DEF Kept
    <2>3. QED
      BY <1>1, <2>2 DEF Labelled
  <1>2. QED
    BY <1>1 DEF Labelled

\* The objects that a create inserts get the beginnings of its path.
LEMMA GrownLabels ==
  ASSUME NEW t, WellTree(t), NEW place, Labelled(t, place),
         NEW path \in Paths, NEW n, NEW depth, NEW parents,
         Branches(t, n, path, depth, parents), NEW u, NEW missing,
         Grown(t, u, n, path, depth, parents, missing),
         NEW met, Walk(t, path, met), depth # 0 => parents \subseteq met[depth - 1]
  PROVE  \E next : Labelled(u, next) /\ \A i \in 1..n : next[i] = place[i]
  <1> DEFINE Size(i) == depth + (i - n) - 1
  <1>1. PICK next : next = [i \in 1..(n + missing + 1) |->
                              IF i <= n THEN place[i] ELSE SubSeq(path, 1, Size(i))]
    OBVIOUS
  <1>2. /\ n \in Nat /\ depth \in Nat /\ missing \in Nat /\ Len(path) = depth + missing
        /\ u.root = IF depth = 0 THEN {n + 1} ELSE t.root
        /\ u.dirs = t.dirs \cup ((n + 1)..(n + missing))
        /\ u.docs = t.docs \cup {n + missing + 1}
        /\ \A d \in (n + 1)..(n + missing) : d \notin t.dirs /\ path[depth + (d - n)] \in Names
        /\ \A d \in t.dirs, name \in Names : u.man[d][name] =
             IF d \in parents /\ name = path[depth] THEN n + 1 ELSE t.man[d][name]
        /\ \A d \in (n + 1)..(n + missing), name \in Names : u.man[d][name] =
             IF name = path[depth + (d - n)] THEN d + 1 ELSE NULL
    BY DEF Grown
  <1>3. \A i \in t.dirs \cup t.docs : i \in 1..n
    BY <1>2 DEF Branches, WellTree, Positive
  <1>4. \A i \in 1..n : next[i] = place[i]
    BY <1>1, <1>2
  <1>5. ASSUME NEW i \in (n + 1)..(n + missing + 1)
        PROVE  /\ next[i] \in Labels /\ Len(next[i]) = Size(i) /\ Size(i) \in 0..Len(path)
               /\ \A k \in 1..Size(i) : next[i][k] = path[k]
    <2>1. i \in 1..(n + missing + 1) /\ ~(i <= n) /\ Size(i) \in 0..Len(path)
      BY <1>2
    <2> HIDE DEF Size
    <2>2. next[i] = SubSeq(path, 1, Size(i))
      BY <1>1, <2>1
    <2>3. QED
      BY <2>1, <2>2, Beginning
  <1>6. path \in Labels /\ Len(path) \in Nat /\ \A k \in 1..Len(path) : path[k] \in Names
    BY PathLength DEF Labels, Positive
  <1>7. ASSUME NEW q \in Labels, NEW i \in (n + 1)..(n + missing + 1), Len(q) + 1 = Size(i),
               \A k \in 1..Len(q) : q[k] = path[k]
        PROVE  next[i] = Append(q, path[Size(i)])
    <2>1. Size(i) \in 1..Len(path) /\ Len(q) \in Nat
      BY <1>2, <1>5, <1>7 DEF Labels
    <2> DEFINE name == path[Size(i)]
    <2>2. name \in Names
      BY <1>6, <2>1
    <2> HIDE DEF Size, name
    <2>3. /\ Append(q, name) \in Labels /\ Len(Append(q, name)) = Len(q) + 1
          /\ Append(q, name)[Len(q) + 1] = name
          /\ \A k \in 1..Len(q) : Append(q, name)[k] = q[k]
      BY <2>2, LabelMore
    <2>4. \A k \in 1..Size(i) : k = Len(q) + 1 \/ k \in 1..Len(q)
      BY <1>7, <2>1
    <2>5. \A k \in 1..Size(i) : next[i][k] = Append(q, name)[k]
      BY <1>5, <1>7, <2>3, <2>4 DEF name
    <2>6. next[i] = Append(q, name)
      <3>1. next[i] \in Labels /\ Len(next[i]) = Size(i) /\ Len(Append(q, name)) = Size(i)
        BY <1>5, <1>7, <2>3
      <3>2. QED
        BY <2>3, <2>5, <3>1, LabelEqual
    <2>7. QED
      BY <2>6 DEF name
  <1>8. \A i \in u.dirs \cup u.docs : next[i] \in Labels
    <2>1. \A i \in t.dirs \cup t.docs : next[i] \in Labels
      BY <1>3, <1>4 DEF Labelled
    <2>2. (n + 1)..(n + missing) \subseteq (n + 1)..(n + missing + 1)
          /\ n + missing + 1 \in (n + 1)..(n + missing + 1)
      BY <1>2
    <2>3. QED
      BY <1>2, <1>5, <2>1, <2>2
  <1>9. \A i \in u.root : next[i] = <<>>
    <2>1. CASE depth = 0
      <3>1. n + 1 \in (n + 1)..(n + missing + 1) /\ Size(n + 1) = 0
        BY <1>2, <2>1
      <3>2. next[n + 1] \in Labels /\ Len(next[n + 1]) = 0
        BY <1>5, <3>1
      <3>3. next[n + 1] = <<>>
        BY <3>2, EmptySeq DEF Labels
      <3>4. QED
        BY <1>2, <2>1, <3>3
    <2>2. CASE depth # 0
      <3>1. \A i \in t.root : next[i] = <<>>
        BY <1>3, <1>4 DEF Labelled, WellTree
      <3>2. QED
        BY <1>2, <2>2, <3>1
    <2>3. QED
      BY <2>1, <2>2
  <1>10. \A i \in u.docs : next[i] \in Paths
    <2>1. \A i \in t.docs : next[i] \in Paths
      BY <1>3, <1>4 DEF Labelled
    <2>2. next[n + missing + 1] = path
      <3>1. n + missing + 1 \in (n + 1)..(n + missing + 1) /\ Size(n + missing + 1) = Len(path)
        BY <1>2
      <3> HIDE DEF Size
      <3>2. /\ next[n + missing + 1] \in Labels /\ Len(next[n + missing + 1]) = Len(path)
            /\ \A k \in 1..Len(path) : next[n + missing + 1][k] = path[k]
        BY <1>5, <3>1
      <3>3. QED
        BY <1>6, <3>2, LabelEqual
    <2>3. QED
      BY <1>2, <2>1, <2>2
  <1>11. ASSUME NEW d \in u.dirs, NEW name \in Names, u.man[d][name] # NULL
         PROVE  next[u.man[d][name]] = Append(next[d], name)
    <2>1. CASE d \in t.dirs /\ ~(d \in parents /\ name = path[depth])
      <3>1. u.man[d][name] = t.man[d][name]
        BY <1>2, <2>1
      <3>2. t.man[d][name] \in t.dirs \cup t.docs
        BY <1>11, <2>1, <3>1 DEF WellTree
      <3>3. next[d] = place[d] /\ next[t.man[d][name]] = place[t.man[d][name]]
        BY <1>3, <1>4, <2>1, <3>2
      <3>4. QED
        BY <1>11, <2>1, <3>1, <3>3 DEF Labelled
    <2>2. CASE d \in t.dirs /\ d \in parents /\ name = path[depth]
      <3>1. u.man[d][name] = n + 1 /\ depth # 0 /\ depth \in 1..Len(path)
        BY <1>2, <2>2 DEF Branches
      <3>2. d \in met[depth - 1] /\ depth - 1 \in 0..(Len(path) - 1)
        BY <1>6, <2>2, <3>1
      <3>3. Len(place[d]) = depth - 1 /\ Under(place[d], path)
        BY <3>2, WalkLabels
      <3>4. next[d] = place[d] /\ place[d] \in Labels
        BY <1>3, <1>4, <2>2 DEF Labelled
      <3>5. n + 1 \in (n + 1)..(n + missing + 1) /\ Size(n + 1) = depth /\ Len(place[d]) + 1 = depth
        BY <1>2, <3>1, <3>3
      <3> HIDE DEF Size
      <3>6. next[n + 1] = Append(place[d], path[depth])
        BY <1>7, <3>3, <3>4, <3>5 DEF Under
      <3>7. QED
        BY <2>2, <3>1, <3>4, <3>6
    <2>3. CASE d \in (n + 1)..(n + missing)
      <3>1. u.man[d][name] = d + 1 /\ name = path[depth + (d - n)]
        BY <1>2, <1>11, <2>3
      <3>2. /\ d \in (n + 1)..(n + missing + 1) /\ d + 1 \in (n + 1)..(n + missing + 1)
            /\ Size(d) + 1 = Size(d + 1) /\ Size(d + 1) = depth + (d - n)
        BY <1>2, <2>3
      <3> HIDE DEF Size
      <3>3. next[d + 1] = Append(next[d], path[Size(d + 1)])
        BY <1>5, <1>7, <3>2
      <3>4. QED
        BY <3>1, <3>2, <3>3
    <2>4. QED
      BY <1>2, <2>1, <2>2, <2>3
  <1>12. QED
    BY <1>4, <1>8, <1>9, <1>10, <1>11 DEF Labelled

\* What a path names is what it labels, before a step and after it.
LabelsExact ==
  TypeOK /\ WellTree(Tree) =>
    \A place : Labelled(Tree, place) =>
      \A p \in Paths : DocumentOf(p) = {i \in Documents : place[i] = p}
LEMMA LabelsAreExact == LabelsExact
  <1> SUFFICES ASSUME TypeOK, WellTree(Tree), NEW place, Labelled(Tree, place), NEW p \in Paths
               PROVE  DocumentOf(p) = {i \in Documents : place[i] = p}
    BY DEF LabelsExact
  <1>1. Walk(Tree, p, Containers(p)) /\ DocumentOf(p) = Found(Tree, p, Containers(p))
    BY WalksAreExact DEF WalksExact
  <1>2. Tree.docs = Documents
    BY DEF Tree
  <1>3. QED
    BY <1>1, <1>2, FoundLabels

\* The same before and after a step.
LEMMA LabelsNext == LabelsExact /\ LabelsExact'
  BY LabelsAreExact, PTL

\* What was active stays active, or a document goes and nothing comes.
Follows(place, next) ==
  /\ Labelled(Tree', next) /\ \A i \in Ids : next[i] = place[i]
  /\ \/ Documents \subseteq Documents' /\ Directories \subseteq Directories'
     \/ Documents' \subseteq Documents /\ Directories' = Directories

\* Every step keeps the labels there are.
LEMMA LabelStep ==
  ASSUME TreeInv, [Next]_vars, NEW place, Labelled(Tree, place)
  PROVE  \E next : Follows(place, next)
  <1>1. /\ TypeOK /\ WellTree(Tree) /\ TreeInv' /\ Len(objects) \in Nat
        /\ Tree.root = Root /\ Tree.dirs = Directories /\ Tree.docs = Documents
        /\ (Tree').root = Root' /\ (Tree').dirs = Directories' /\ (Tree').docs = Documents'
        /\ \A p \in Paths : /\ Walk(Tree, p, Containers(p))
                            /\ DocumentOf(p) = Found(Tree, p, Containers(p))
                            /\ ParentOf(p) = Containers(p)[Len(p) - 1]
    BY TreeStep, FiniteRows, WalksAreExact DEF TreeInv, IInv, Tree, WalksExact
  <1>2. ASSUME Tree' = Tree PROVE Follows(place, place)
    BY <1>1, <1>2 DEF Follows
  <1>3. ASSUME NEW path \in Paths, NEW body \in Inputs, NEW key \in Keys,
               Create(path, body, key)
        PROVE  \E next : Follows(place, next)
    <2>1. PICK depth, parents, n, missing, top :
            /\ depth \in 0..Len(path) /\ parents \in SUBSET Directories
            /\ CreateEffect(path, body, depth, parents, n, missing, top)
      BY <1>3, CreateTree
    <2>2. /\ n = Len(objects) /\ Branches(Tree, n, path, depth, parents)
          /\ depth # 0 => \E parent \in Directories :
               parents = {parent} /\ Extendable(path, depth, parent)
          /\ Grown(Tree, Tree', n, path, depth, parents, missing)
          /\ Documents' = Documents \cup {top}
      BY <2>1 DEF CreateEffect
    <2>3. depth # 0 => parents \subseteq Containers(path)[depth - 1]
      BY <2>2 DEF Extendable
    <2>4. PICK next : Labelled(Tree', next) /\ \A i \in 1..n : next[i] = place[i]
      BY <1>1, <2>2, <2>3, GrownLabels
    <2>5. Directories \subseteq Directories'
      BY <1>1, <2>2 DEF Grown
    <2>6. QED
      BY <2>2, <2>4, <2>5 DEF Follows, Ids
  <1>4. ASSUME NEW path \in Paths, NEW i \in DocumentOf(path), NEW body, ReplaceDocument(i, body)
        PROVE  \E next : Follows(place, next)
    <2>1. i \in Documents
      BY DEF DocumentOf
    <2>2. Tree' = Tree
      BY <1>4, <2>1, ReplaceTree
    <2>3. QED
      BY <1>2, <2>2
  <1>5. ASSUME NEW path \in Paths, NEW i \in DocumentOf(path), NEW parent \in ParentOf(path),
               Delete(i, parent, Last(path))
        PROVE  \E next : Follows(place, next)
    <2> DEFINE name == path[Len(path)]
    <2>1. /\ i \in Documents /\ parent \in Directories /\ name \in Names
          /\ Delete(i, parent, name) /\ Len(path) - 1 \in 0..(Len(path) - 1)
      BY <1>5, PathLength DEF DocumentOf, ParentOf, Positive
    <2> HIDE DEF name
    <2>2. Tree.man[parent][name] = i
      <3>1. PICK d \in Containers(path)[Len(path) - 1] : i = Tree.man[d][path[Len(path)]]
        BY <1>1, FoundEntry
      <3>2. d = parent
        BY <1>1, <2>1, WalkOne
      <3>3. QED
        BY <3>1, <3>2 DEF name
    <2>3. Tree' = Pruned(Tree, i, parent, name)
      BY <2>1, DeleteTree
    <2>4. WellTree(Tree') /\ Kept(Tree, Tree')
      BY <1>1, <2>1, <2>2, <2>3, PrunedTree
    <2>5. Documents' = Documents \ {i} /\ Directories' = Directories /\ Root' = Root
      BY <1>1, <2>3 DEF Pruned
    <2>6. Labelled(Tree', place)
      BY <1>1, <2>4, <2>5, KeptLabels
    <2>7. Follows(place, place)
      BY <2>5, <2>6 DEF Follows
    <2>8. QED
      BY <2>7
  <1>6. ASSUME NEW path \in Paths, NEW expected \in 1..VersionBound, NEW key \in Keys,
               Mutate(path, expected, key)
        PROVE  \E next : Follows(place, next)
    <2>1. PICK i \in DocumentOf(path) :
            \/ \E body : ReplaceDocument(i, body)
            \/ \E parent \in ParentOf(path) : Delete(i, parent, Last(path))
      BY <1>6 DEF Mutate, Replace, AppendText, Edit
    <2>2. QED
      BY <1>4, <1>5, <2>1
  <1>7. ASSUME NEW batch, NEW rows, NEW keys, PurgeDue(batch, rows, keys)
        PROVE  Follows(place, place)
    BY <1>2, <1>7, PurgeTree
  <1>8. CASE UNCHANGED <<objects, versions>>
    BY <1>2, <1>8 DEF Tree, Manifest, Body, Directories, Documents, Root, Active, IsDocument, Ids
  <1>9. Tick \/ UNCHANGED vars => UNCHANGED <<objects, versions>>
    BY DEF Tick, vars
  <1>10. QED
    BY <1>2, <1>3, <1>6, <1>7, <1>8, <1>9 DEF Next, Replay, Refuse

\* A version row that is still there has the text it had; an object keeps its
\* kind, and its version only grows.
OldBodies(i) ==
  /\ i \in Ids' /\ objects'[i].kind = objects[i].kind
  /\ objects[i].version \in Nat /\ objects'[i].version \in Nat
  /\ objects[i].version <= objects'[i].version
  /\ \A v \in 1..objects[i].version : v \in DOMAIN versions'[i] =>
       v \in DOMAIN versions[i] /\ versions'[i][v].body = versions[i][v].body
LEMMA BodiesStay ==
  ASSUME IInv, [Next]_vars, NEW i \in Ids
  PROVE  OldBodies(i)
  <1>1. /\ RowStep(i) /\ i \in Ids' /\ objects[i] \in Object /\ now \in Positive
        /\ objects[i].version \in Positive /\ 0 \in Nat
    <2>1. RowStep(i) /\ i \in Ids'
      BY NextStep
    <2>2. objects[i] \in Object /\ now \in Positive
      BY DEF IInv, TypeOK, Ids
    <2>3. QED
      BY <2>1, <2>2 DEF Object
  <1>2. CASE Advanced(i)
    <2>1. PICK bytes \in Nat : objects'[i] = Revised(objects[i], bytes)
      BY <1>2 DEF Advanced
    <2>2. PICK body : versions'[i] = Advance(versions[i], objects[i].version, body)
      BY <1>2 DEF Advanced
    <2>3. /\ objects'[i].kind = objects[i].kind
          /\ objects'[i].version = objects[i].version + 1
      BY <1>1, <2>1, RowChanges
    <2>4. ASSUME NEW v \in 1..objects[i].version, v \in DOMAIN versions'[i]
          PROVE  v \in DOMAIN versions[i] /\ versions'[i][v].body = versions[i][v].body
      <3>1. v # objects[i].version + 1
        BY <1>1 DEF Positive
      <3>2. PICK rows : rows = InsertVersion(versions[i], objects[i].version + 1, body)
        OBVIOUS
      <3>3. versions'[i] = Supersede(rows, objects[i].version)
        BY <2>2, <3>2 DEF Advance
      <3>4. v \in DOMAIN rows /\ versions'[i][v].body = rows[v].body
        BY <2>4, <3>3 DEF Supersede
      <3>5. v \in DOMAIN versions[i] /\ rows[v] = versions[i][v]
        BY <3>1, <3>2, <3>4 DEF InsertVersion
      <3>6. QED
        BY <3>4, <3>5
    <2>5. QED
      BY <1>1, <2>3, <2>4 DEF OldBodies, Positive
  <1>3. CASE Tombstoned(i)
    <2>1. objects'[i] = Tombstone(objects[i]) /\ versions'[i] = versions[i]
      BY <1>3 DEF Tombstoned
    <2>2. objects'[i].kind = objects[i].kind /\ objects'[i].version = objects[i].version
      BY <1>1, <2>1, RowChanges
    <2>3. QED
      BY <1>1, <2>1, <2>2 DEF OldBodies, Positive
  <1>4. CASE Emptied(i)
    <2>1. objects'[i] = Purged(objects[i]) /\ DOMAIN versions'[i] = {}
      BY <1>4 DEF Emptied, Removed
    <2>2. objects'[i].kind = objects[i].kind /\ objects'[i].version = objects[i].version
      BY <1>1, <2>1, RowChanges
    <2>3. QED
      BY <1>1, <2>1, <2>2 DEF OldBodies, Positive
  <1>5. CASE Trimmed(i)
    <2>1. /\ objects'[i] = objects[i] /\ DOMAIN versions'[i] \subseteq DOMAIN versions[i]
          /\ \A v \in DOMAIN versions'[i] : versions'[i][v] = versions[i][v]
      BY <1>5 DEF Trimmed
    <2>2. QED
      BY <1>1, <2>1 DEF OldBodies, Positive
  <1>6. QED
    BY <1>1, <1>2, <1>3, <1>4, <1>5 DEF RowStep

---------------------------------------------------------------------------
(* What a reader holds, in terms of labels and of the values its paths     *)
(* have had (s) since the call began.                                      *)

SeenNow(s) == \A p \in Paths : Docs[p] \in s[p]

\* No document was at or below a label at some moment of the call.
Absent(s, q) == \A p \in Paths : Under(q, p) => {} \in s[p]
\* The same of what is below it only.
Beyond(s, q) == \A p \in Paths : Under(q, p) /\ p # q => {} \in s[p]

\* An entry leads to an object that is there, or has gone since.
Pointed(s, place, q, i) ==
  /\ i \in Ids /\ q \in Labels /\ place[i] = q
  /\ Active(i) \/ Absent(s, q)

\* The row of a document: its version was its path's, with the text that its
\* version row has if it is still there.
DocHeld(s, q, i, v) ==
  /\ q \in Paths /\ Beyond(s, q)
  /\ \E body : /\ {[version |-> v, body |-> body]} \in s[q]
               /\ v \in DOMAIN versions[i] => versions[i][v].body = body

\* The row of a container: no document was at its label, and its entries say
\* what was below.
Entered(s, place, q, manifest) ==
  \A name \in Names : IF manifest[name] = NULL THEN Absent(s, Append(q, name))
                      ELSE Pointed(s, place, Append(q, name), manifest[name])
DirHeld(s, place, q, i, v) ==
  /\ q \in Paths => {} \in s[q]
  /\ v \in DOMAIN versions[i] => Entered(s, place, q, versions[i][v].body)

RowHeld(s, place, q, i, v) ==
  /\ i \in Ids /\ q \in Labels /\ place[i] = q /\ v \in 1..objects[i].version
  /\ IF IsDocument(i) THEN DocHeld(s, q, i, v) ELSE DirHeld(s, place, q, i, v)

\* An active row, as it is found, is one that may be held.
LEMMA RowFound ==
  ASSUME TreeInv, NEW place, Labelled(Tree, place), NEW s, SeenNow(s), NEW i \in Ids, Active(i)
  PROVE  RowHeld(s, place, place[i], i, objects[i].version)
  <1>1. /\ TypeOK /\ WellTree(Tree) /\ HistoryShape
        /\ Tree.dirs = Directories /\ Tree.docs = Documents
        /\ \A d \in Directories : Tree.man[d] = Manifest(d)
    BY DEF TreeInv, IInv, Tree
  <1>2. \A p \in Paths : DocumentOf(p) = {j \in Documents : place[j] = p}
    BY <1>1, LabelsAreExact DEF LabelsExact
  <1>3. objects[i] \in Object /\ objects[i].version \in 1..objects[i].version
    <2>1. objects[i] \in Object
      BY <1>1 DEF TypeOK, Ids
    <2>2. QED
      BY <2>1 DEF Object, Positive
  <1>4. i \in Documents \cup Directories /\ place[i] \in Labels
    BY <1>1 DEF Documents, Directories, Labelled
  <1>5. ASSUME NEW p \in Paths, \A j \in Documents : place[j] # p PROVE {} \in s[p]
    <2>1. DocumentOf(p) = {}
      BY <1>2, <1>5
    <2>2. QED
      BY <2>1, DocsOne DEF SeenNow
  <1>6. CASE IsDocument(i)
    <2>1. i \in Documents /\ place[i] \in Paths
      BY <1>1, <1>6 DEF Documents, Labelled
    <2>2. Beyond(s, place[i])
      <3> SUFFICES ASSUME NEW p \in Paths, Under(place[i], p), p # place[i] PROVE {} \in s[p]
        BY DEF Beyond
      <3>1. \A j \in Documents : place[j] # p
        BY <1>1, <2>1, BelowDocument
      <3>2. QED
        BY <1>5, <3>1
    <2>3. DocumentOf(place[i]) = {i}
      BY <1>1, <1>2, <2>1, LabelOne
    <2>4. {[version |-> objects[i].version, body |-> Body(i)]} \in s[place[i]]
      <3>1. PICK p \in Paths : p = place[i]
        BY <2>1
      <3>2. Docs[p] = {[version |-> objects[i].version, body |-> Body(i)]}
        BY <2>3, <3>1, DocsOne
      <3>3. QED
        BY <3>1, <3>2 DEF SeenNow
    <2>5. DocHeld(s, place[i], i, objects[i].version)
      BY <2>1, <2>2, <2>4 DEF DocHeld, Body
    <2>6. QED
      BY <1>3, <1>4, <1>6, <2>5 DEF RowHeld
  <1>7. CASE ~IsDocument(i)
    <2>1. i \in Directories
      BY <1>7 DEF Directories
    <2>2. place[i] \in Paths => {} \in s[place[i]]
      BY <1>1, <1>5, <2>1, AtDirectory
    <2>3. ASSUME NEW name \in Names, Manifest(i)[name] = NULL
          PROVE  Absent(s, Append(place[i], name))
      <3> SUFFICES ASSUME NEW p \in Paths, Under(Append(place[i], name), p) PROVE {} \in s[p]
        BY DEF Absent
      <3>1. \A j \in Documents : place[j] # p
        BY <1>1, <2>1, <2>3, NoEntry
      <3>2. QED
        BY <1>5, <3>1
    <2>4. ASSUME NEW name \in Names, Manifest(i)[name] # NULL
          PROVE  Pointed(s, place, Append(place[i], name), Manifest(i)[name])
      <3>1. Manifest(i)[name] \in Directories \cup Documents
        BY <1>1, <2>1, <2>4 DEF WellTree
      <3>2. place[Manifest(i)[name]] = Append(place[i], name)
        BY <1>1, <2>1, <2>4 DEF Labelled
      <3>3. Append(place[i], name) \in Labels
        BY <1>4, LabelMore
      <3>4. QED
        BY <3>1, <3>2, <3>3 DEF Pointed, Directories, Documents
    <2>5. Entered(s, place, place[i], Manifest(i))
      BY <2>3, <2>4 DEF Entered
    <2>6. DirHeld(s, place, place[i], i, objects[i].version)
      BY <2>2, <2>5 DEF DirHeld, Manifest, Body
    <2>7. QED
      BY <1>3, <1>4, <1>7, <2>6 DEF RowHeld
  <1>8. QED
    BY <1>6, <1>7

---------------------------------------------------------------------------
(* What is held stays so when the store takes a step and the reader sees   *)
(* the values after it.                                                    *)

Seeing(s, new) == \A p \in Paths : s[p] \subseteq new[p]

\* What was absent at some moment of a call remains so.
LEMMA AbsentStays ==
  ASSUME NEW s, NEW new, Seeing(s, new), NEW q
  PROVE  /\ Absent(s, q) => Absent(new, q)
         /\ Beyond(s, q) => Beyond(new, q)
  BY DEF Seeing, Absent, Beyond

\* An object that goes leaves nothing at or below its label.
LEMMA GoneAbsent ==
  ASSUME TreeInv, [Next]_vars, NEW place, Labelled(Tree, place), NEW next, Follows(place, next),
         NEW new, SeenNow(new)', NEW i \in Ids, Active(i), ~Active(i)'
  PROVE  Absent(new, place[i])
  <1>1. /\ TypeOK /\ WellTree(Tree) /\ TypeOK' /\ WellTree(Tree')
        /\ Tree.dirs = Directories /\ Tree.docs = Documents
        /\ (Tree').dirs = Directories' /\ (Tree').docs = Documents'
    BY TreeStep DEF TreeInv, IInv, Tree
  <1>2. i \in Documents \cup Directories /\ i \notin Documents' \cup Directories'
    BY DEF Documents, Directories
  <1>3. i \in Documents /\ Documents' \subseteq Documents /\ Labelled(Tree', next)
    BY <1>2 DEF Follows
  <1>4. \A p \in Paths : DocumentOf(p)' = {j \in Documents' : next[j] = p}
    BY <1>1, <1>3, LabelsNext DEF LabelsExact
  <1>5. \A j \in Documents' : next[j] = place[j] /\ j \in Documents /\ j # i
    BY <1>2, <1>3 DEF Follows, Documents
  <1>6. ASSUME NEW p \in Paths, Under(place[i], p) PROVE {} \in new[p]
    <2>1. \A j \in Documents' : next[j] # p
      BY <1>1, <1>3, <1>5, <1>6, BelowDocument
    <2>2. DocumentOf(p)' = {}
      BY <1>4, <2>1
    <2>3. Docs'[p] = {}
      BY <2>2 DEF Docs
    <2>4. QED
      BY <2>3 DEF SeenNow
  <1>7. QED
    BY <1>6 DEF Absent

\* Where an entry leads.
LEMMA PointedStays ==
  ASSUME TreeInv, [Next]_vars, NEW place, Labelled(Tree, place), NEW next, Follows(place, next),
         NEW s, NEW new, Seeing(s, new), SeenNow(new)',
         NEW q, NEW i, Pointed(s, place, q, i)
  PROVE  Pointed(new, next, q, i)'
  <1>1. i \in Ids /\ q \in Labels /\ place[i] = q
    BY DEF Pointed
  <1>2. i \in Ids' /\ next[i] = q
    <2>1. i \in Ids'
      BY <1>1, BodiesStay DEF OldBodies, TreeInv
    <2>2. QED
      BY <1>1, <2>1 DEF Follows
  <1>3. Active(i)' \/ Absent(new, q)
    <2>1. CASE Absent(s, q)
      BY <2>1, AbsentStays
    <2>2. CASE Active(i) /\ ~Active(i)'
      BY <1>1, <2>2, GoneAbsent
    <2>3. QED
      BY <2>1, <2>2 DEF Pointed
  <1>4. QED
    BY <1>1, <1>2, <1>3 DEF Pointed, Absent

\* What a row says.
LEMMA RowStays ==
  ASSUME TreeInv, [Next]_vars, NEW place, Labelled(Tree, place), NEW next, Follows(place, next),
         NEW s, NEW new, Seeing(s, new), SeenNow(new)',
         NEW q, NEW i, NEW v, RowHeld(s, place, q, i, v)
  PROVE  RowHeld(new, next, q, i, v)'
  <1>1. i \in Ids /\ q \in Labels /\ place[i] = q /\ v \in 1..objects[i].version
    BY DEF RowHeld
  <1>2. OldBodies(i)
    BY <1>1, BodiesStay DEF TreeInv
  <1>3. /\ i \in Ids' /\ next[i] = q /\ v \in 1..objects'[i].version
        /\ IsDocument(i)' <=> IsDocument(i)
        /\ v \in DOMAIN versions'[i] =>
             v \in DOMAIN versions[i] /\ versions'[i][v].body = versions[i][v].body
    BY <1>1, <1>2 DEF OldBodies, Follows, IsDocument
  <1>4. CASE IsDocument(i)
    <2>1. DocHeld(s, q, i, v)
      BY <1>4 DEF RowHeld
    <2>2. PICK body : /\ {[version |-> v, body |-> body]} \in s[q]
                      /\ v \in DOMAIN versions[i] => versions[i][v].body = body
      BY <2>1 DEF DocHeld
    <2>3. {[version |-> v, body |-> body]} \in new[q] /\ q \in Paths
      BY <2>1, <2>2 DEF Seeing, DocHeld
    <2>4. Beyond(new, q)
      BY <2>1, AbsentStays DEF DocHeld
    <2>5. v \in DOMAIN versions'[i] => versions'[i][v].body = body
      BY <1>3, <2>2
    <2>6. DocHeld(new, q, i, v)'
      BY <2>3, <2>4, <2>5 DEF DocHeld, Beyond
    <2>7. QED
      BY <1>1, <1>3, <1>4, <2>6 DEF RowHeld
  <1>5. CASE ~IsDocument(i)
    <2>1. DirHeld(s, place, q, i, v)
      BY <1>5 DEF RowHeld
    <2>2. q \in Paths => {} \in new[q]
      BY <2>1 DEF Seeing, DirHeld
    <2>3. ASSUME v \in DOMAIN versions'[i]
          PROVE  Entered(new, next, q, versions[i][v].body)'
      <3>1. PICK manifest : manifest = versions[i][v].body
        OBVIOUS
      <3>2. versions'[i][v].body = manifest /\ Entered(s, place, q, manifest)
        BY <1>3, <2>1, <2>3, <3>1 DEF DirHeld
      <3>3. ASSUME NEW name \in Names, manifest[name] = NULL
            PROVE  Absent(new, Append(q, name))
        BY <3>2, <3>3, AbsentStays DEF Entered
      <3>4. ASSUME NEW name \in Names, manifest[name] # NULL
            PROVE  Pointed(new, next, Append(q, name), manifest[name])'
        <4>1. Pointed(s, place, Append(q, name), manifest[name])
          BY <3>2, <3>4 DEF Entered
        <4>2. PICK label, child : label = Append(q, name) /\ child = manifest[name]
          OBVIOUS
        <4>3. Pointed(s, place, label, child)
          BY <4>1, <4>2
        <4>4. Pointed(new, next, label, child)'
          BY <4>3, PointedStays
        <4>5. QED
          BY <4>2, <4>4 DEF Pointed
      <3>5. Entered(new, next, q, manifest)'
        BY <3>3, <3>4 DEF Entered, Absent
      <3>6. QED
        BY <3>2, <3>5 DEF Entered
    <2>4. DirHeld(new, next, q, i, v)'
      BY <2>2, <2>3 DEF DirHeld
    <2>5. QED
      BY <1>1, <1>3, <1>5, <2>4 DEF RowHeld
  <1>6. QED
    BY <1>4, <1>5

---------------------------------------------------------------------------
(* The reader's record.                                                    *)

Rec(at, op, target, path, depth, id, version, todo, items, answer) ==
  [at |-> at, op |-> op, target |-> target, path |-> path, depth |-> depth, id |-> id,
   version |-> version, todo |-> todo, items |-> items, answer |-> answer]
Fields(r) ==
  r = Rec(r.at, r.op, r.target, r.path, r.depth, r.id, r.version, r.todo, r.items, r.answer)

\* The fields of such a record.
LEMMA GetFields ==
  ASSUME NEW at, NEW op, NEW target, NEW path, NEW depth, NEW id, NEW version,
         NEW todo, NEW items, NEW answer, NEW r,
         r = Rec(at, op, target, path, depth, id, version, todo, items, answer)
  PROVE  /\ r.at = at /\ r.op = op /\ r.target = target /\ r.path = path /\ r.depth = depth
         /\ r.id = id /\ r.version = version /\ r.todo = todo /\ r.items = items
         /\ r.answer = answer /\ Fields(r)
  BY DEF Rec, Fields

\* The place it is at replaced.
LEMMA RecordAt ==
  ASSUME NEW r, Fields(r), NEW x
  PROVE  [r EXCEPT !.at = x]
           = Rec(x, r.op, r.target, r.path, r.depth, r.id, r.version, r.todo, r.items, r.answer)
  <1>1. PICK a, b, c, d, e, f, g, h, i, j : r = Rec(a, b, c, d, e, f, g, h, i, j)
    BY DEF Fields
  <1>2. [r EXCEPT !.at = x] = Rec(x, b, c, d, e, f, g, h, i, j)
    BY <1>1 DEF Rec
  <1>3. /\ r.op = b /\ r.target = c /\ r.path = d /\ r.depth = e /\ r.id = f
        /\ r.version = g /\ r.todo = h /\ r.items = i /\ r.answer = j
    BY <1>1, GetFields
  <1>4. QED
    BY <1>2, <1>3

\* What the reader's actions make of a record.
Held(r, i, v) == Rec("row", r.op, r.target, r.path, r.depth, i, v, r.todo, r.items, r.answer)
Told(r, kind, items) ==
  Rec("done", r.op, r.target, r.path, r.depth, r.id, r.version, {}, items, kind)
AtEntry(r, i) ==
  Rec("entry", r.op, r.target, r.path, r.depth + 1, i, r.version, r.todo, r.items, r.answer)
With(r, at, todo, items) ==
  Rec(at, r.op, r.target, r.path, r.depth, r.id, r.version, todo, items, r.answer)
Taking(r, path, i, v, todo) ==
  Rec("row", r.op, r.target, path, Len(path), i, v, todo, r.items, r.answer)
Called(op, path) == Rec("idle", op, path, path, 0, NULL, NULL, {}, {}, "none")

\* A reader that holds a row, field by field; the same of its other steps below.
LEMMA HoldFields ==
  ASSUME NEW r, Fields(r), NEW i
  PROVE  Hold(r, i) = Held(r, i, objects[i].version)
  <1>1. PICK v : v = objects[i].version
    OBVIOUS
  <1>2. PICK q1 : q1 = [r EXCEPT !.at = "row"]
    OBVIOUS
  <1>3. PICK q2 : q2 = [q1 EXCEPT !.id = i]
    OBVIOUS
  <1>4. PICK q3 : q3 = [q2 EXCEPT !.version = v]
    OBVIOUS
  <1>5. q3 = [r EXCEPT !.at = "row", !.id = i, !.version = objects[i].version]
    BY <1>1, <1>2, <1>3, <1>4, Zenon
  <1>6. q1 = Rec("row", r.op, r.target, r.path, r.depth, r.id, r.version, r.todo, r.items, r.answer)
    BY <1>2, RecordAt
  <1>7. q2 = Rec("row", r.op, r.target, r.path, r.depth, i, r.version, r.todo, r.items, r.answer)
    BY <1>3, <1>6 DEF Rec
  <1>8. q3 = Rec("row", r.op, r.target, r.path, r.depth, i, v, r.todo, r.items, r.answer)
    BY <1>4, <1>7 DEF Rec
  <1>9. QED
    BY <1>1, <1>5, <1>8 DEF Hold, Held

\* A reader that answers.
LEMMA AnswerFields ==
  ASSUME NEW r, Fields(r), NEW kind, NEW items
  PROVE  [r EXCEPT !.at = "done", !.answer = kind, !.items = items, !.todo = {}]
           = Told(r, kind, items)
  <1>1. PICK q1 : q1 = [r EXCEPT !.at = "done"]
    OBVIOUS
  <1>2. PICK q2 : q2 = [q1 EXCEPT !.answer = kind]
    OBVIOUS
  <1>3. PICK q3 : q3 = [q2 EXCEPT !.items = items]
    OBVIOUS
  <1>4. PICK q4 : q4 = [q3 EXCEPT !.todo = {}]
    OBVIOUS
  <1>5. q4 = [r EXCEPT !.at = "done", !.answer = kind, !.items = items, !.todo = {}]
    BY <1>1, <1>2, <1>3, <1>4, Zenon
  <1>6. q1 = Rec("done", r.op, r.target, r.path, r.depth, r.id, r.version, r.todo, r.items, r.answer)
    BY <1>1, RecordAt
  <1>7. q2 = Rec("done", r.op, r.target, r.path, r.depth, r.id, r.version, r.todo, r.items, kind)
    BY <1>2, <1>6 DEF Rec
  <1>8. q3 = Rec("done", r.op, r.target, r.path, r.depth, r.id, r.version, r.todo, items, kind)
    BY <1>3, <1>7 DEF Rec
  <1>9. q4 = Rec("done", r.op, r.target, r.path, r.depth, r.id, r.version, {}, items, kind)
    BY <1>4, <1>8 DEF Rec
  <1>10. QED
    BY <1>5, <1>9 DEF Told

\* A reader that has followed an entry.
LEMMA EntryFields ==
  ASSUME NEW r, Fields(r), NEW i
  PROVE  [r EXCEPT !.at = "entry", !.id = i, !.depth = @ + 1] = AtEntry(r, i)
  <1>1. PICK d : d = r.depth + 1
    OBVIOUS
  <1>2. PICK q1 : q1 = [r EXCEPT !.at = "entry"]
    OBVIOUS
  <1>3. PICK q2 : q2 = [q1 EXCEPT !.id = i]
    OBVIOUS
  <1>4. PICK q3 : q3 = [q2 EXCEPT !.depth = d]
    OBVIOUS
  <1>5. q1 = Rec("entry", r.op, r.target, r.path, r.depth, r.id, r.version, r.todo, r.items, r.answer)
    BY <1>2, RecordAt
  <1>6. q2 = Rec("entry", r.op, r.target, r.path, r.depth, i, r.version, r.todo, r.items, r.answer)
    BY <1>3, <1>5 DEF Rec
  <1>7. q3 = Rec("entry", r.op, r.target, r.path, d, i, r.version, r.todo, r.items, r.answer)
    BY <1>4, <1>6 DEF Rec
  <1>8. q2.depth + 1 = d
    BY <1>1, <1>6, GetFields
  <1>9. q3 = [q2 EXCEPT !.depth = @ + 1]
    BY <1>4, <1>8
  <1>10. q3 = [r EXCEPT !.at = "entry", !.id = i, !.depth = @ + 1]
    BY <1>2, <1>3, <1>9, Zenon
  <1>11. QED
    BY <1>1, <1>7, <1>10 DEF AtEntry

\* A reader with other entries to visit.
LEMMA WithFields ==
  ASSUME NEW r, Fields(r), NEW at, NEW todo
  PROVE  [r EXCEPT !.at = at, !.todo = todo] = With(r, at, todo, r.items)
  <1>1. PICK q1 : q1 = [r EXCEPT !.at = at]
    OBVIOUS
  <1>2. PICK q2 : q2 = [q1 EXCEPT !.todo = todo]
    OBVIOUS
  <1>3. q1 = Rec(at, r.op, r.target, r.path, r.depth, r.id, r.version, r.todo, r.items, r.answer)
    BY <1>1, RecordAt
  <1>4. q2 = Rec(at, r.op, r.target, r.path, r.depth, r.id, r.version, todo, r.items, r.answer)
    BY <1>2, <1>3 DEF Rec
  <1>5. q2 = [r EXCEPT !.at = at, !.todo = todo]
    BY <1>1, <1>2, Zenon
  <1>6. QED
    BY <1>4, <1>5 DEF With

Gathered(r, at, items) == [r EXCEPT !.at = at, !.items = items]
\* A reader that has found more.
LEMMA WithItems ==
  ASSUME NEW r, Fields(r), NEW at, NEW items
  PROVE  Gathered(r, at, items) = With(r, at, r.todo, items)
  <1>1. PICK q1 : q1 = [r EXCEPT !.at = at]
    OBVIOUS
  <1>2. PICK q2 : q2 = [q1 EXCEPT !.items = items]
    OBVIOUS
  <1>3. q1 = Rec(at, r.op, r.target, r.path, r.depth, r.id, r.version, r.todo, r.items, r.answer)
    BY <1>1, RecordAt
  <1>4. q2 = Rec(at, r.op, r.target, r.path, r.depth, r.id, r.version, r.todo, items, r.answer)
    BY <1>2, <1>3 DEF Rec
  <1>5. q2 = Gathered(r, at, items)
    BY <1>1, <1>2, Zenon DEF Gathered
  <1>6. QED
    BY <1>4, <1>5 DEF With

Visiting(r, i, path, entry) ==
  [Hold(r, i) EXCEPT !.path = path, !.depth = Len(path), !.todo = @ \ {entry}]
\* A reader that visits an entry.
LEMMA TakingFields ==
  ASSUME NEW r, Fields(r), NEW i, NEW path, NEW entry
  PROVE  Visiting(r, i, path, entry) = Taking(r, path, i, objects[i].version, r.todo \ {entry})
  <1>1. PICK v, d, todo : v = objects[i].version /\ d = Len(path) /\ todo = r.todo \ {entry}
    OBVIOUS
  <1>2. PICK q : q = Hold(r, i)
    OBVIOUS
  <1>3. PICK q1 : q1 = [q EXCEPT !.path = path]
    OBVIOUS
  <1>4. PICK q2 : q2 = [q1 EXCEPT !.depth = d]
    OBVIOUS
  <1>5. PICK q3 : q3 = [q2 EXCEPT !.todo = todo]
    OBVIOUS
  <1>6. q = Rec("row", r.op, r.target, r.path, r.depth, i, v, r.todo, r.items, r.answer)
    BY <1>1, <1>2, HoldFields DEF Held
  <1>7. q1 = Rec("row", r.op, r.target, path, r.depth, i, v, r.todo, r.items, r.answer)
    BY <1>3, <1>6 DEF Rec
  <1>8. q2 = Rec("row", r.op, r.target, path, d, i, v, r.todo, r.items, r.answer)
    BY <1>4, <1>7 DEF Rec
  <1>9. q3 = Rec("row", r.op, r.target, path, d, i, v, todo, r.items, r.answer)
    BY <1>5, <1>8 DEF Rec
  <1>10. q2.todo \ {entry} = todo
    BY <1>1, <1>8, GetFields
  <1>11. q3 = [q2 EXCEPT !.todo = @ \ {entry}]
    BY <1>5, <1>10
  <1>12. q3 = [q EXCEPT !.path = path, !.depth = d, !.todo = @ \ {entry}]
    BY <1>3, <1>4, <1>11, Zenon
  <1>13. QED
    BY <1>1, <1>2, <1>9, <1>12 DEF Taking, Visiting

\* A reader whose call begins.
LEMMA CallFields ==
  ASSUME NEW op, NEW path
  PROVE  /\ [Idle EXCEPT !.op = op, !.target = path, !.path = path] = Called(op, path)
         /\ Fields(Called(op, path)) /\ Fields(Idle) /\ Idle.at = "idle" /\ Idle.answer = "none"
  <1>1. PICK q1 : q1 = [Idle EXCEPT !.op = op]
    OBVIOUS
  <1>2. PICK q2 : q2 = [q1 EXCEPT !.target = path]
    OBVIOUS
  <1>3. PICK q3 : q3 = [q2 EXCEPT !.path = path]
    OBVIOUS
  <1>4. Idle = Rec("idle", "read", <<>>, <<>>, 0, NULL, NULL, {}, {}, "none")
    BY DEF Idle, Rec
  <1>5. q1 = Rec("idle", op, <<>>, <<>>, 0, NULL, NULL, {}, {}, "none")
    BY <1>1, <1>4 DEF Rec
  <1>6. q2 = Rec("idle", op, path, <<>>, 0, NULL, NULL, {}, {}, "none")
    BY <1>2, <1>5 DEF Rec
  <1>7. q3 = Rec("idle", op, path, path, 0, NULL, NULL, {}, {}, "none")
    BY <1>3, <1>6 DEF Rec
  <1>8. q3 = [Idle EXCEPT !.op = op, !.target = path, !.path = path]
    BY <1>1, <1>2, <1>3, Zenon
  <1>9. Fields(Idle) /\ Idle.at = "idle" /\ Idle.answer = "none"
    BY <1>4, GetFields
  <1>10. Fields(q3)
    BY <1>7, GetFields
  <1>11. QED
    BY <1>7, <1>8, <1>9, <1>10 DEF Called

---------------------------------------------------------------------------
(* What is true of a call at each statement.                               *)

\* The row held, and the entry followed, are on the way to the path.
RowAt(s, r, place) ==
  \E q : Len(q) = r.depth /\ Under(q, r.path) /\ RowHeld(s, place, q, r.id, r.version)
EntryAt(s, r, place) ==
  \E q : Len(q) = r.depth /\ Under(q, r.path) /\ Pointed(s, place, q, r.id)

\* What an export or a listing has found, and what it has still to visit.
Collected(s, items) ==
  \A item \in items :
    item.path \in Paths /\ {[version |-> item.version, body |-> item.body]} \in s[item.path]
ToVisit(s, todo, place) == \A e \in todo : Pointed(s, place, e[1], e[2])

\* A document that stays is found, or is at or below what is still to visit.
Covered(r, p) ==
  \/ \E item \in r.items : item.path = p
  \/ \E e \in r.todo : Under(e[1], p)
  \/ r.at \in {"row", "entry"} /\ Under(r.path, p)
Covering(s, r) == \A p \in Paths : Under(r.target, p) /\ {} \notin s[p] => Covered(r, p)

\* A document of the directory listed that stays has one of the entries.
InDirectory(target, p) == Len(p) = Len(target) + 1 /\ Under(target, p)
Listed(s, r) ==
  \A p \in Paths : InDirectory(r.target, p) /\ {} \notin s[p] => \E e \in r.todo : e[1] = p

CallOK(s, r, place) ==
  /\ r.op \in Operations /\ r.at \in {"row", "entry", "children", "todo"}
  /\ r.target \in Labels /\ r.path \in Labels /\ r.depth \in 0..Len(r.path)
  /\ r.op # "export" => r.path = r.target
  /\ r.op \in {"read", "history"} => r.target \in Paths
  /\ r.at = "row" => RowAt(s, r, place)
  /\ r.at = "entry" => EntryAt(s, r, place)
  /\ r.at = "children" => r.op = "list" /\ Listed(s, r)
  /\ r.at = "todo" => r.op = "export"
  /\ r.op = "export" => Collected(s, r.items) /\ Covering(s, r)
  /\ ToVisit(s, r.todo, place)

\* What is true of the answer.
FoundAt(s, p, v) == \E docs \in s[p] : \E doc \in docs : doc.version = v
DoneOK(s, r) ==
  /\ r.target \in Labels
  /\ r.op \in {"read", "export"} /\ r.answer = "documents" => Collected(s, r.items)
  /\ r.op = "list" /\ r.answer = "documents" =>
       \A item \in r.items : FoundAt(s, item.path, item.version)
  /\ r.op = "history" /\ r.answer = "page" => FoundAt(s, r.path, r.version)
  /\ r.op \in {"read", "history"} /\ r.answer = "absent" => {} \in s[r.path]
  /\ \A p \in Paths : {} \notin s[p] =>
       /\ r.op = "list" /\ r.answer = "documents" /\ InDirectory(r.target, p) =>
            \E item \in r.items : item.path = p
       /\ r.op = "export" /\ r.answer = "documents" /\ Under(r.target, p) =>
            \E item \in r.items : item.path = p

ReaderOK(s, r, place) ==
  /\ Fields(r)
  /\ \/ r.at = "idle"
     \/ r.at = "done" /\ DoneOK(s, r)
     \/ SeenNow(s) /\ CallOK(s, r, place)

\* A call under way, the store as it is.
UnderWay(s, r, place) ==
  TreeInv /\ Labelled(Tree, place) /\ SeenNow(s) /\ Fields(r) /\ CallOK(s, r, place)

\* An answer that tells nothing, or that nothing is there.
LEMMA ToldNothing ==
  ASSUME NEW s, NEW r, NEW place, Fields(r), r.at = "done", r.target \in Labels,
         \/ r.answer = "integrity"
         \/ r.answer = "absent" /\ (r.op \in {"read", "history"} => {} \in s[r.path])
  PROVE  ReaderOK(s, r, place)
  BY DEF ReaderOK, DoneOK

\* The fields of an answer.
Ended(r, kind, items) ==
  [r EXCEPT !.at = "done", !.answer = kind, !.items = items, !.todo = {}]
LEMMA ToldFields ==
  ASSUME NEW r, Fields(r), NEW kind, NEW items, NEW q, q = Ended(r, kind, items)
  PROVE  /\ Fields(q) /\ q.at = "done" /\ q.op = r.op /\ q.target = r.target /\ q.path = r.path
         /\ q.version = r.version /\ q.items = items /\ q.answer = kind
  <1>1. q = Told(r, kind, items)
    BY AnswerFields DEF Ended
  <1>2. QED
    BY <1>1, GetFields DEF Told

\* The fields of a reader that holds a row.
LEMMA HeldFields ==
  ASSUME NEW r, NEW i, NEW v, NEW q, q = Held(r, i, v)
  PROVE  /\ Fields(q) /\ q.at = "row" /\ q.op = r.op /\ q.target = r.target /\ q.path = r.path
         /\ q.depth = r.depth /\ q.id = i /\ q.version = v /\ q.todo = r.todo
         /\ q.items = r.items
  BY GetFields DEF Held

\* A name of the path that follows the label is its next.
LEMMA UnderMore ==
  ASSUME NEW q \in Labels, NEW p \in Labels, Under(q, p), Len(q) < Len(p)
  PROVE  /\ p[Len(q) + 1] \in Names /\ Append(q, p[Len(q) + 1]) \in Labels
         /\ Under(Append(q, p[Len(q) + 1]), p)
         /\ Len(Append(q, p[Len(q) + 1])) = Len(q) + 1
  <1>1. /\ Len(q) \in Nat /\ Len(p) \in Nat /\ Len(q) + 1 \in 1..Len(p)
        /\ \A n \in 1..Len(p) : p[n] \in Names
    BY DEF Labels
  <1>2. PICK name \in Names : name = p[Len(q) + 1]
    BY <1>1
  <1>3. /\ Append(q, name) \in Labels /\ Len(Append(q, name)) = Len(q) + 1
        /\ Append(q, name)[Len(q) + 1] = name
        /\ \A n \in 1..Len(q) : Append(q, name)[n] = q[n]
    BY LabelMore
  <1>4. \A n \in 1..(Len(q) + 1) : n = Len(q) + 1 \/ n \in 1..Len(q)
    BY <1>1
  <1>5. \A n \in 1..(Len(q) + 1) : Append(q, name)[n] = p[n]
    BY <1>2, <1>3, <1>4 DEF Under
  <1>6. QED
    BY <1>1, <1>2, <1>3, <1>5 DEF Under

\* A label is under itself, and what is under it at its length is it.
LEMMA UnderSame ==
  ASSUME NEW q \in Labels
  PROVE  /\ Under(q, q) /\ Len(q) \in Nat
         /\ \A p \in Labels : Under(q, p) /\ Len(p) = Len(q) => p = q
         /\ \A p \in Labels, o \in Labels : Under(o, q) /\ Under(q, p) => Under(o, p)
  <1>1. Under(q, q) /\ Len(q) \in Nat
    BY DEF Under, Labels
  <1>2. ASSUME NEW p \in Labels, Under(q, p), Len(p) = Len(q) PROVE p = q
    BY <1>2, LabelEqual DEF Under
  <1>3. ASSUME NEW p \in Labels, NEW o \in Labels, Under(o, q), Under(q, p) PROVE Under(o, p)
    <2>1. Len(o) \in Nat /\ Len(p) \in Nat
      BY DEF Labels
    <2>2. \A n \in 1..Len(o) : n \in 1..Len(q)
      BY <1>1, <1>3, <2>1 DEF Under
    <2>3. QED
      BY <1>1, <1>3, <2>1, <2>2 DEF Under
  <1>4. QED
    BY <1>1, <1>2, <1>3

---------------------------------------------------------------------------
(* The statements, one by one.                                             *)

\* The documents below a directory that stay are at or below its entries.
AllBelow(s, path, todo) ==
  \A p \in Paths : Under(path, p) /\ {} \notin s[p] =>
    \E e \in todo : Under(e[1], p) /\ (Len(p) = Len(path) + 1 => e[1] = p)
NoDocument(s, path) == path \in Paths => {} \in s[path]
LEMMA EntriesCover ==
  ASSUME NEW s, NEW place, NEW path \in Labels, NEW manifest, Entered(s, place, path, manifest),
         NoDocument(s, path), NEW todo, todo = Entries(path, manifest)
  PROVE  ToVisit(s, todo, place) /\ AllBelow(s, path, todo)
  <1>1. ASSUME NEW e \in Entries(path, manifest) PROVE Pointed(s, place, e[1], e[2])
    <2>1. PICK name \in Names :
            manifest[name] # NULL /\ e = <<Append(path, name), manifest[name]>>
      BY DEF Entries
    <2>2. PICK q, i : q = Append(path, name) /\ i = manifest[name]
      OBVIOUS
    <2>3. Pointed(s, place, q, i)
      BY <2>1, <2>2 DEF Entered
    <2>4. e[1] = q /\ e[2] = i
      BY <2>1, <2>2
    <2>5. QED
      BY <2>3, <2>4
  <1>2. ASSUME NEW p \in Paths, Under(path, p), {} \notin s[p]
        PROVE  \E e \in Entries(path, manifest) :
                 Under(e[1], p) /\ (Len(p) = Len(path) + 1 => e[1] = p)
    <2>1. p \in Labels /\ Len(p) \in Nat /\ Len(path) \in Nat
      BY PathLength DEF Labels, Positive
    <2>2. path # p
      BY <1>2 DEF NoDocument
    <2>3. Len(path) < Len(p)
      <3>1. Len(path) # Len(p)
        BY <1>2, <2>1, <2>2, UnderSame
      <3>2. QED
        BY <1>2, <2>1, <3>1 DEF Under
    <2>4. PICK name \in Names : name = p[Len(path) + 1]
      BY <1>2, <2>1, <2>3, UnderMore
    <2>5. /\ Append(path, name) \in Labels /\ Under(Append(path, name), p)
          /\ Len(Append(path, name)) = Len(path) + 1
      BY <1>2, <2>1, <2>3, <2>4, UnderMore
    <2>6. manifest[name] # NULL
      BY <1>2, <2>5 DEF Entered, Absent
    <2>7. PICK e : e = <<Append(path, name), manifest[name]>>
      OBVIOUS
    <2>8. e \in Entries(path, manifest) /\ e[1] = Append(path, name)
      BY <2>6, <2>7 DEF Entries
    <2>9. Len(p) = Len(path) + 1 => Append(path, name) = p
      BY <2>1, <2>5, UnderSame
    <2>10. QED
      BY <2>5, <2>8, <2>9
  <1>3. QED
    BY <1>1, <1>2 DEF ToVisit, AllBelow

\* The row held at the end of the walk is that of the path.
LEMMA TargetHeld ==
  ASSUME NEW s, NEW r, NEW place, UnderWay(s, r, place), r.at = "row", r.depth = Len(r.path)
  PROVE  RowHeld(s, place, r.path, r.id, r.version)
  <1>1. PICK q : Len(q) = r.depth /\ Under(q, r.path) /\ RowHeld(s, place, q, r.id, r.version)
    BY DEF UnderWay, CallOK, RowAt
  <1>2. q \in Labels /\ r.path \in Labels
    BY <1>1 DEF UnderWay, CallOK, RowHeld
  <1>3. q = r.path
    BY <1>1, <1>2, UnderSame
  <1>4. QED
    BY <1>1, <1>3

\* The payload held, when its version row is still there.
LEMMA PayloadHeld ==
  ASSUME NEW s, NEW place, NEW q, NEW i, NEW v, RowHeld(s, place, q, i, v),
         v \in DOMAIN versions[i]
  PROVE  /\ q \in Labels
         /\ IsDocument(i) => /\ q \in Paths /\ Beyond(s, q)
                             /\ {[version |-> v, body |-> versions[i][v].body]} \in s[q]
         /\ ~IsDocument(i) => /\ q \in Paths => {} \in s[q]
                              /\ Entered(s, place, q, versions[i][v].body)
  BY DEF RowHeld, DocHeld, DirHeld

\* An entry followed from a row that was so leads to where its label says; a name
\* without an entry was absent.
LEMMA DescendKeeps ==
  ASSUME NEW place, UnderWay(seen, reader, place), Descend
  PROVE  ReaderOK(seen, reader', place)
  <1>1. PICK s, r, t : s = seen /\ r = reader /\ t = reader'
    OBVIOUS
  <1>2. /\ UnderWay(s, r, place) /\ Fields(r) /\ CallOK(s, r, place) /\ SeenNow(s)
        /\ r.at = "row" /\ r.depth < Len(r.path)
    BY <1>1 DEF UnderWay, Descend, AtRow
  <1>3. PICK q : Len(q) = r.depth /\ Under(q, r.path) /\ RowHeld(s, place, q, r.id, r.version)
    BY <1>2 DEF CallOK, RowAt
  <1>4. q \in Labels /\ r.path \in Labels /\ r.target \in Labels
    BY <1>2, <1>3 DEF CallOK, RowHeld
  <1>5. PICK name \in Names : name = r.path[r.depth + 1]
    BY <1>2, <1>3, <1>4, UnderMore
  <1>6. PICK next \in Labels : next = Append(q, name)
    BY <1>4, LabelMore
  <1>7. Under(next, r.path) /\ Len(next) = r.depth + 1
    BY <1>2, <1>3, <1>4, <1>5, <1>6, UnderMore
  <1>8. r.op \in {"read", "history"} => r.path \in Paths
    BY <1>2 DEF CallOK
  <1>9. ASSUME Answer("absent", {}), Absent(s, next) \/ Beyond(s, q)
        PROVE  ReaderOK(s, t, place)
    <2>1. t = Ended(r, "absent", {})
      BY <1>1, <1>9 DEF Answer, Ended
    <2>2. /\ Fields(t) /\ t.at = "done" /\ t.op = r.op /\ t.target = r.target
          /\ t.path = r.path /\ t.answer = "absent"
      BY <1>2, <2>1, ToldFields
    <2>3. q # r.path
      BY <1>2, <1>3
    <2>4. r.path \in Paths => {} \in s[r.path]
      BY <1>3, <1>7, <1>9, <2>3 DEF Absent, Beyond
    <2>5. QED
      BY <1>4, <1>8, <2>2, <2>4, ToldNothing
  <1>10. CASE IsDocument(r.id) /\ Answer("absent", {})
    <2>1. Beyond(s, q)
      BY <1>3, <1>10 DEF RowHeld, DocHeld
    <2>2. QED
      BY <1>1, <1>9, <1>10, <2>1
  <1>11. CASE Answer("integrity", {})
    <2>1. t = Ended(r, "integrity", {})
      BY <1>1, <1>11 DEF Answer, Ended
    <2>2. Fields(t) /\ t.at = "done" /\ t.target = r.target /\ t.answer = "integrity"
      BY <1>2, <2>1, ToldFields
    <2>3. QED
      BY <1>1, <1>4, <2>2, ToldNothing
  <1>12. CASE /\ ~IsDocument(r.id) /\ r.version \in DOMAIN versions[r.id]
              /\ versions[r.id][r.version].body[name] = NULL /\ Answer("absent", {})
    <2>1. Entered(s, place, q, versions[r.id][r.version].body)
      BY <1>3, <1>12, PayloadHeld
    <2>2. Absent(s, next)
      BY <1>6, <1>12, <2>1 DEF Entered
    <2>3. QED
      BY <1>1, <1>9, <1>12, <2>2
  <1>13. ASSUME ~IsDocument(r.id), r.version \in DOMAIN versions[r.id],
                NEW child, child = versions[r.id][r.version].body[name], child # NULL,
                t = [r EXCEPT !.at = "entry", !.id = child, !.depth = @ + 1]
         PROVE  ReaderOK(s, t, place)
    <2>1. t = AtEntry(r, child)
      BY <1>2, <1>13, EntryFields
    <2>2. /\ Fields(t) /\ t.at = "entry" /\ t.op = r.op /\ t.target = r.target
          /\ t.path = r.path /\ t.depth = r.depth + 1 /\ t.id = child /\ t.todo = r.todo
          /\ t.items = r.items
      BY <2>1, GetFields DEF AtEntry
    <2>3. Entered(s, place, q, versions[r.id][r.version].body)
      BY <1>3, <1>13, PayloadHeld
    <2>4. Pointed(s, place, next, child)
      BY <1>6, <1>13, <2>3 DEF Entered
    <2>5. EntryAt(s, t, place)
      BY <1>7, <2>2, <2>4 DEF EntryAt
    <2>6. t.depth \in 0..Len(t.path)
      <3>1. Len(r.path) \in Nat /\ r.depth \in Nat
        BY <1>2, <1>4 DEF CallOK, Labels
      <3>2. QED
        BY <1>2, <2>2, <3>1
    <2>7. Covering(s, r) => Covering(s, t)
      BY <1>2, <2>2 DEF Covering, Covered
    <2>8. CallOK(s, t, place)
      BY <1>2, <2>2, <2>5, <2>6, <2>7 DEF CallOK
    <2>9. QED
      BY <1>2, <2>2, <2>8 DEF ReaderOK
  <1>14. \/ IsDocument(r.id) /\ Answer("absent", {})
         \/ Answer("integrity", {})
         \/ /\ ~IsDocument(r.id) /\ r.version \in DOMAIN versions[r.id]
            /\ \E child : /\ child = versions[r.id][r.version].body[name]
                          /\ IF child = NULL THEN Answer("absent", {})
                             ELSE t = [r EXCEPT !.at = "entry", !.id = child, !.depth = @ + 1]
    <2>1. \/ IsDocument(reader.id) /\ Answer("absent", {})
          \/ Answer("integrity", {})
          \/ /\ ~IsDocument(reader.id) /\ HasPayload
             /\ \E child : /\ child = Payload[reader.path[reader.depth + 1]]
                           /\ IF child = NULL THEN Answer("absent", {})
                              ELSE reader' = [reader EXCEPT !.at = "entry", !.id = child,
                                                            !.depth = @ + 1]
      BY Zenon DEF Descend
    <2>2. QED
      BY <1>1, <1>5, <2>1, Zenon DEF HasPayload, Payload
  <1>15. CASE /\ ~IsDocument(r.id) /\ r.version \in DOMAIN versions[r.id]
              /\ \E child : /\ child = versions[r.id][r.version].body[name]
                            /\ IF child = NULL THEN Answer("absent", {})
                               ELSE t = [r EXCEPT !.at = "entry", !.id = child, !.depth = @ + 1]
    <2>1. PICK child : /\ child = versions[r.id][r.version].body[name]
                       /\ IF child = NULL THEN Answer("absent", {})
                          ELSE t = [r EXCEPT !.at = "entry", !.id = child, !.depth = @ + 1]
      BY <1>15
    <2>2. CASE child = NULL
      BY <1>1, <1>12, <1>15, <2>1, <2>2
    <2>3. CASE child # NULL
      <3>1. t = [r EXCEPT !.at = "entry", !.id = child, !.depth = @ + 1]
        BY <2>1, <2>3
      <3>2. QED
        BY <1>1, <1>13, <1>15, <2>1, <2>3, <3>1
    <2>4. QED
      BY <2>2, <2>3
  <1>16. QED
    BY <1>1, <1>10, <1>11, <1>14, <1>15

\* The row an entry names is found as it is now, or the object has gone.
LEMMA LoadObjectKeeps ==
  ASSUME NEW place, UnderWay(seen, reader, place), LoadObject
  PROVE  ReaderOK(seen, reader', place)
  <1>1. PICK s, r, t : s = seen /\ r = reader /\ t = reader'
    OBVIOUS
  <1>2. /\ UnderWay(s, r, place) /\ Fields(r) /\ CallOK(s, r, place) /\ SeenNow(s)
        /\ r.at = "entry" /\ TreeInv /\ Labelled(Tree, place)
    BY <1>1 DEF UnderWay, LoadObject
  <1>3. PICK q : Len(q) = r.depth /\ Under(q, r.path) /\ Pointed(s, place, q, r.id)
    BY <1>2 DEF CallOK, EntryAt
  <1>4. r.id \in Ids /\ place[r.id] = q /\ r.target \in Labels
    BY <1>2, <1>3 DEF CallOK, Pointed
  <1>5. CASE Active(r.id)
    <2>1. t = Hold(r, r.id)
      BY <1>1, <1>5 DEF LoadObject
    <2>2. PICK i, v : i = r.id /\ v = objects[i].version
      OBVIOUS
    <2>3. t = Held(r, i, v)
      BY <1>2, <2>1, <2>2, HoldFields
    <2>4. /\ Fields(t) /\ t.at = "row" /\ t.op = r.op /\ t.target = r.target /\ t.path = r.path
          /\ t.depth = r.depth /\ t.id = i /\ t.version = v /\ t.todo = r.todo
          /\ t.items = r.items
      BY <2>3, HeldFields
    <2>5. RowHeld(s, place, q, i, v)
      BY <1>2, <1>4, <1>5, <2>2, RowFound
    <2>6. RowAt(s, t, place)
      BY <1>3, <2>4, <2>5 DEF RowAt
    <2>7. Covering(s, r) => Covering(s, t)
      BY <1>2, <2>4 DEF Covering, Covered
    <2>8. CallOK(s, t, place)
      BY <1>2, <2>4, <2>6, <2>7 DEF CallOK
    <2>9. QED
      BY <1>1, <1>2, <2>4, <2>8 DEF ReaderOK
  <1>6. CASE ~Active(r.id)
    <2>1. t = Ended(r, "absent", {})
      BY <1>1, <1>6 DEF LoadObject, Answer, Ended
    <2>2. /\ Fields(t) /\ t.at = "done" /\ t.op = r.op /\ t.target = r.target
          /\ t.path = r.path /\ t.answer = "absent"
      BY <1>2, <2>1, ToldFields
    <2>3. Absent(s, q)
      BY <1>3, <1>6 DEF Pointed
    <2>4. r.op \in {"read", "history"} => {} \in s[r.path]
      BY <1>2, <1>3, <2>3 DEF CallOK, Absent
    <2>5. QED
      BY <1>1, <1>4, <2>2, <2>4, ToldNothing
  <1>7. QED
    BY <1>5, <1>6

\* The text is that of the version row held, if it is still there.
LEMMA ReadPayloadKeeps ==
  ASSUME NEW place, UnderWay(seen, reader, place), ReadPayload
  PROVE  ReaderOK(seen, reader', place)
  <1>1. PICK s, r, t : s = seen /\ r = reader /\ t = reader'
    OBVIOUS
  <1>2. /\ UnderWay(s, r, place) /\ Fields(r) /\ CallOK(s, r, place)
        /\ r.at = "row" /\ r.depth = Len(r.path) /\ r.op = "read"
    BY <1>1 DEF UnderWay, ReadPayload, AtTarget, AtRow
  <1>3. RowHeld(s, place, r.path, r.id, r.version)
    BY <1>2, TargetHeld
  <1>4. r.target \in Labels /\ r.path \in Paths /\ r.path = r.target
    BY <1>2 DEF CallOK
  <1>5. CASE ~IsDocument(r.id) /\ Answer("absent", {})
    <2>1. t = Ended(r, "absent", {})
      BY <1>1, <1>5 DEF Answer, Ended
    <2>2. /\ Fields(t) /\ t.at = "done" /\ t.op = r.op /\ t.target = r.target
          /\ t.path = r.path /\ t.answer = "absent"
      BY <1>2, <2>1, ToldFields
    <2>3. {} \in s[r.path]
      BY <1>3, <1>4, <1>5 DEF RowHeld, DirHeld
    <2>4. QED
      BY <1>1, <1>4, <2>2, <2>3, ToldNothing
  <1>6. CASE Answer("integrity", {})
    <2>1. t = Ended(r, "integrity", {})
      BY <1>1, <1>6 DEF Answer, Ended
    <2>2. Fields(t) /\ t.at = "done" /\ t.target = r.target /\ t.answer = "integrity"
      BY <1>2, <2>1, ToldFields
    <2>3. QED
      BY <1>1, <1>4, <2>2, ToldNothing
  <1>7. CASE /\ IsDocument(reader.id) /\ HasPayload
             /\ Answer("documents", {[path |-> reader.path, version |-> reader.version,
                                      body |-> Payload]})
    <2>1. PICK item : item = [path |-> r.path, version |-> r.version,
                              body |-> versions[r.id][r.version].body]
      OBVIOUS
    <2>2. t = Ended(r, "documents", {item})
      BY <1>1, <1>7, <2>1 DEF Answer, Ended, Payload
    <2>3. /\ Fields(t) /\ t.at = "done" /\ t.op = r.op /\ t.target = r.target
          /\ t.path = r.path /\ t.answer = "documents" /\ t.items = {item}
      BY <1>2, <2>2, ToldFields
    <2>4. {[version |-> r.version, body |-> versions[r.id][r.version].body]} \in s[r.path]
      BY <1>1, <1>3, <1>7, PayloadHeld DEF HasPayload
    <2>5. Collected(s, t.items)
      BY <1>4, <2>1, <2>3, <2>4 DEF Collected
    <2>6. DoneOK(s, t)
      BY <1>2, <1>4, <2>3, <2>5 DEF DoneOK
    <2>7. QED
      BY <1>1, <2>3, <2>6 DEF ReaderOK
  <1>8. QED
    BY <1>1, <1>5, <1>6, <1>7 DEF ReadPayload

\* The version held was current when its row was found.
LEMMA HistoryPageKeeps ==
  ASSUME NEW place, UnderWay(seen, reader, place), HistoryPage
  PROVE  ReaderOK(seen, reader', place)
  <1>1. PICK s, r, t : s = seen /\ r = reader /\ t = reader'
    OBVIOUS
  <1>2. /\ UnderWay(s, r, place) /\ Fields(r) /\ CallOK(s, r, place)
        /\ r.at = "row" /\ r.depth = Len(r.path) /\ r.op = "history"
    BY <1>1 DEF UnderWay, HistoryPage, AtTarget, AtRow
  <1>3. RowHeld(s, place, r.path, r.id, r.version)
    BY <1>2, TargetHeld
  <1>4. r.target \in Labels /\ r.path \in Paths /\ r.path = r.target
    BY <1>2 DEF CallOK
  <1>5. CASE ~IsDocument(r.id) /\ Answer("absent", {})
    <2>1. t = Ended(r, "absent", {})
      BY <1>1, <1>5 DEF Answer, Ended
    <2>2. /\ Fields(t) /\ t.at = "done" /\ t.op = r.op /\ t.target = r.target
          /\ t.path = r.path /\ t.answer = "absent"
      BY <1>2, <2>1, ToldFields
    <2>3. {} \in s[r.path]
      BY <1>3, <1>4, <1>5 DEF RowHeld, DirHeld
    <2>4. QED
      BY <1>1, <1>4, <2>2, <2>3, ToldNothing
  <1>6. ASSUME IsDocument(r.id), NEW page, Answer("page", page)
        PROVE  ReaderOK(s, t, place)
    <2>1. t = Ended(r, "page", page)
      BY <1>1, <1>6 DEF Answer, Ended
    <2>2. /\ Fields(t) /\ t.at = "done" /\ t.op = r.op /\ t.target = r.target
          /\ t.path = r.path /\ t.version = r.version /\ t.answer = "page"
      BY <1>2, <2>1, ToldFields
    <2>3. PICK body : {[version |-> r.version, body |-> body]} \in s[r.path]
      BY <1>3, <1>6 DEF RowHeld, DocHeld
    <2>4. FoundAt(s, t.path, t.version)
      <3>1. PICK doc : doc = [version |-> r.version, body |-> body]
        OBVIOUS
      <3>2. {doc} \in s[r.path] /\ doc.version = r.version
        BY <2>3, <3>1
      <3>3. QED
        BY <2>2, <3>2 DEF FoundAt
    <2>5. DoneOK(s, t)
      BY <1>2, <1>4, <2>2, <2>4 DEF DoneOK
    <2>6. QED
      BY <2>2, <2>5 DEF ReaderOK
  <1>7. CASE IsDocument(r.id) /\ \E page : Answer("page", page)
    <2>1. PICK page : Answer("page", page)
      BY <1>7
    <2>2. QED
      BY <1>1, <1>6, <1>7, <2>1
  <1>8. QED
    BY <1>1, <1>5, <1>7 DEF HistoryPage

\* The entries of a directory cover the documents in it that stay.
LEMMA ListManifestKeeps ==
  ASSUME NEW place, UnderWay(seen, reader, place), ListManifest
  PROVE  ReaderOK(seen, reader', place)
  <1>1. PICK s, r, t : s = seen /\ r = reader /\ t = reader'
    OBVIOUS
  <1>2. /\ UnderWay(s, r, place) /\ Fields(r) /\ CallOK(s, r, place) /\ SeenNow(s)
        /\ r.at = "row" /\ r.depth = Len(r.path) /\ r.op = "list"
    BY <1>1 DEF UnderWay, ListManifest, AtTarget, AtRow
  <1>3. RowHeld(s, place, r.path, r.id, r.version)
    BY <1>2, TargetHeld
  <1>4. r.target \in Labels /\ r.path = r.target
    BY <1>2 DEF CallOK
  <1>5. ASSUME NEW kind \in {"absent", "integrity"}, Answer(kind, {})
        PROVE  ReaderOK(s, t, place)
    <2>1. t = Ended(r, kind, {})
      BY <1>1, <1>5 DEF Answer, Ended
    <2>2. /\ Fields(t) /\ t.at = "done" /\ t.op = r.op /\ t.target = r.target
          /\ t.answer = kind
      BY <1>2, <2>1, ToldFields
    <2>3. QED
      BY <1>2, <1>4, <2>2, ToldNothing
  <1>6. CASE /\ ~IsDocument(reader.id) /\ HasPayload
             /\ reader' = [reader EXCEPT !.at = "children", !.todo = Entries(reader.path, Payload)]
    <2>1. PICK manifest : manifest = versions[r.id][r.version].body
      OBVIOUS
    <2>2. PICK todo : todo = Entries(r.path, manifest)
      OBVIOUS
    <2>3. t = [r EXCEPT !.at = "children", !.todo = todo]
      BY <1>1, <1>6, <2>1, <2>2 DEF Payload
    <2>4. t = With(r, "children", todo, r.items)
      BY <1>2, <2>3, WithFields
    <2>5. /\ Fields(t) /\ t.at = "children" /\ t.op = r.op /\ t.target = r.target
          /\ t.path = r.path /\ t.depth = r.depth /\ t.todo = todo
      BY <2>4, GetFields DEF With
    <2>6. /\ r.path \in Labels /\ Entered(s, place, r.path, manifest)
          /\ r.path \in Paths => {} \in s[r.path]
      BY <1>1, <1>3, <1>6, <2>1, PayloadHeld DEF HasPayload
    <2>7. PICK path \in Labels : path = r.path
      BY <2>6
    <2>8. Entered(s, place, path, manifest) /\ NoDocument(s, path)
      BY <2>6, <2>7 DEF NoDocument
    <2>9. todo = Entries(path, manifest)
      BY <2>2, <2>7
    <2>10. ToVisit(s, todo, place) /\ AllBelow(s, path, todo)
      BY <2>8, <2>9, EntriesCover
    <2>11. ToVisit(s, t.todo, place)
      BY <2>5, <2>10
    <2>12. Listed(s, t)
      <3> SUFFICES ASSUME NEW p \in Paths, InDirectory(r.path, p), {} \notin s[p]
                   PROVE  \E e \in todo : e[1] = p
        BY <1>4, <2>5 DEF Listed
      <3>1. Under(r.path, p) /\ Len(p) = Len(r.path) + 1
        BY DEF InDirectory
      <3>2. QED
        BY <2>7, <2>10, <3>1 DEF AllBelow
    <2>13. CallOK(s, t, place)
      BY <1>2, <2>5, <2>11, <2>12 DEF CallOK
    <2>14. QED
      BY <1>1, <1>2, <2>5, <2>13 DEF ReaderOK
  <1>7. QED
    BY <1>1, <1>5, <1>6 DEF ListManifest

\* The rows of the entries are found as they are now.
LEMMA ListChildrenKeeps ==
  ASSUME NEW place, UnderWay(seen, reader, place), ListChildren
  PROVE  ReaderOK(seen, reader', place)
  <1>1. PICK s, r, t : s = seen /\ r = reader /\ t = reader'
    OBVIOUS
  <1>2. /\ UnderWay(s, r, place) /\ Fields(r) /\ CallOK(s, r, place) /\ SeenNow(s)
        /\ TreeInv /\ Labelled(Tree, place) /\ r.at = "children" /\ r.op = "list"
        /\ r.target \in Labels /\ Listed(s, r) /\ ToVisit(s, r.todo, place)
    BY <1>1 DEF UnderWay, ListChildren, CallOK
  <1>3. CASE ~(\A e \in r.todo : Active(e[2]))
    <2>1. t = Ended(r, "integrity", {})
      BY <1>1, <1>3 DEF ListChildren, Answer, Ended
    <2>2. Fields(t) /\ t.at = "done" /\ t.target = r.target /\ t.answer = "integrity"
      BY <1>2, <2>1, ToldFields
    <2>3. QED
      BY <1>1, <1>2, <2>2, ToldNothing
  <1>4. CASE \A e \in r.todo : Active(e[2])
    <2>1. PICK items : items = {[path |-> e[1], version |-> objects[e[2]].version] :
                                  e \in {e \in r.todo : IsDocument(e[2])}}
      OBVIOUS
    <2>2. t = Ended(r, "documents", items)
      BY <1>1, <1>4, <2>1 DEF ListChildren, Answer, Ended
    <2>3. /\ Fields(t) /\ t.at = "done" /\ t.op = r.op /\ t.target = r.target
          /\ t.answer = "documents" /\ t.items = items
      BY <1>2, <2>2, ToldFields
    <2>4. ASSUME NEW e \in r.todo
          PROVE  /\ e[2] \in Ids /\ place[e[2]] = e[1] /\ Active(e[2])
                 /\ RowHeld(s, place, e[1], e[2], objects[e[2]].version)
      <3>1. e[2] \in Ids /\ place[e[2]] = e[1] /\ Active(e[2])
        BY <1>2, <1>4 DEF ToVisit, Pointed
      <3>2. QED
        BY <1>2, <3>1, RowFound
    <2>5. ASSUME NEW item \in items PROVE FoundAt(s, item.path, item.version)
      <3>1. PICK e \in r.todo : /\ item = [path |-> e[1], version |-> objects[e[2]].version]
                                /\ IsDocument(e[2])
        BY <2>1
      <3>2. PICK q, v : q = e[1] /\ v = objects[e[2]].version
        OBVIOUS
      <3>3. DocHeld(s, q, e[2], v) /\ item.path = q /\ item.version = v
        BY <2>4, <3>1, <3>2 DEF RowHeld
      <3>4. PICK body : {[version |-> v, body |-> body]} \in s[q]
        BY <3>3 DEF DocHeld
      <3>5. PICK doc : doc = [version |-> v, body |-> body]
        OBVIOUS
      <3>6. {doc} \in s[q] /\ doc.version = v
        BY <3>4, <3>5
      <3>7. QED
        BY <3>3, <3>6 DEF FoundAt
    <2>6. ASSUME NEW p \in Paths, {} \notin s[p], InDirectory(r.target, p)
          PROVE  \E item \in items : item.path = p
      <3>1. PICK e \in r.todo : e[1] = p
        BY <1>2, <2>6 DEF Listed
      <3>2. IsDocument(e[2])
        BY <2>4, <2>6, <3>1 DEF RowHeld, DirHeld
      <3>3. PICK item : item = [path |-> e[1], version |-> objects[e[2]].version]
        OBVIOUS
      <3>4. item \in items /\ item.path = p
        BY <2>1, <3>1, <3>2, <3>3
      <3>5. QED
        BY <3>4
    <2>7. DoneOK(s, t)
      BY <1>2, <2>3, <2>5, <2>6 DEF DoneOK
    <2>8. QED
      BY <1>1, <2>3, <2>7 DEF ReaderOK
  <1>5. QED
    BY <1>3, <1>4

\* A document is found, or the entries of a directory cover what is below it.
LEMMA ExportRowKeeps ==
  ASSUME NEW place, UnderWay(seen, reader, place), ExportRow
  PROVE  ReaderOK(seen, reader', place)
  <1>1. PICK s, r, t : s = seen /\ r = reader /\ t = reader'
    OBVIOUS
  <1>2. /\ UnderWay(s, r, place) /\ Fields(r) /\ CallOK(s, r, place) /\ SeenNow(s)
        /\ r.at = "row" /\ r.depth = Len(r.path) /\ r.op = "export"
        /\ r.target \in Labels /\ r.path \in Labels
        /\ Collected(s, r.items) /\ Covering(s, r) /\ ToVisit(s, r.todo, place)
    BY <1>1 DEF UnderWay, ExportRow, AtTarget, AtRow, CallOK
  <1>3. RowHeld(s, place, r.path, r.id, r.version)
    BY <1>2, TargetHeld
  <1>4. PICK path \in Labels : path = r.path
    BY <1>2
  <1>5. PICK body : body = versions[r.id][r.version].body
    OBVIOUS
  <1>6. CASE Answer("integrity", {})
    <2>1. t = Ended(r, "integrity", {})
      BY <1>1, <1>6 DEF Answer, Ended
    <2>2. Fields(t) /\ t.at = "done" /\ t.target = r.target /\ t.answer = "integrity"
      BY <1>2, <2>1, ToldFields
    <2>3. QED
      BY <1>1, <1>2, <2>2, ToldNothing
  <1>7. CASE /\ HasPayload /\ IsDocument(reader.id)
             /\ reader' = [reader EXCEPT !.at = "todo",
                  !.items = @ \cup {[path |-> reader.path, version |-> reader.version,
                                     body |-> Payload]}]
    <2>1. PICK item : item = [path |-> r.path, version |-> r.version, body |-> body]
      OBVIOUS
    <2>2. PICK items : items = r.items \cup {item}
      OBVIOUS
    <2>3. t = Gathered(r, "todo", items)
      <3>1. t = [r EXCEPT !.at = "todo", !.items = @ \cup {item}]
        BY <1>1, <1>5, <1>7, <2>1 DEF Payload
      <3>2. QED
        BY <2>2, <3>1 DEF Gathered
    <2>4. t = With(r, "todo", r.todo, items)
      BY <1>2, <2>3, WithItems
    <2>5. /\ Fields(t) /\ t.at = "todo" /\ t.op = r.op /\ t.target = r.target
          /\ t.path = r.path /\ t.depth = r.depth /\ t.todo = r.todo /\ t.items = items
      BY <2>4, GetFields DEF With
    <2>6. /\ path \in Paths /\ Beyond(s, path)
          /\ {[version |-> r.version, body |-> body]} \in s[path]
      BY <1>1, <1>3, <1>4, <1>5, <1>7, PayloadHeld DEF HasPayload
    <2>7. Collected(s, items)
      <3>1. item.path = path /\ item.version = r.version /\ item.body = body
        BY <1>4, <2>1
      <3>2. \A other \in items : other \in r.items \/ other = item
        BY <2>2
      <3>3. QED
        BY <1>2, <2>6, <3>1, <3>2 DEF Collected
    <2>8. ASSUME NEW p \in Paths, Under(r.target, p), {} \notin s[p] PROVE Covered(t, p)
      <3>1. Covered(r, p)
        BY <1>2, <2>8 DEF Covering
      <3>2. Under(path, p) => p = path
        BY <2>6, <2>8 DEF Beyond
      <3>3. item \in items /\ item.path = path
        BY <1>4, <2>1, <2>2
      <3>4. QED
        BY <1>4, <2>2, <2>5, <3>1, <3>2, <3>3 DEF Covered
    <2>9. Covering(s, t)
      BY <2>5, <2>8 DEF Covering
    <2>10. CallOK(s, t, place)
      BY <1>2, <2>5, <2>7, <2>9 DEF CallOK
    <2>11. QED
      BY <1>1, <1>2, <2>5, <2>10 DEF ReaderOK
  <1>8. CASE /\ HasPayload /\ ~IsDocument(reader.id)
             /\ reader' = [reader EXCEPT !.at = "todo",
                             !.todo = @ \cup Entries(reader.path, Payload)]
    <2>1. PICK new : new = Entries(path, body)
      OBVIOUS
    <2>2. PICK todo : todo = r.todo \cup new
      OBVIOUS
    <2>3. t = [r EXCEPT !.at = "todo", !.todo = todo]
      <3>1. t = [r EXCEPT !.at = "todo", !.todo = @ \cup new]
        BY <1>1, <1>4, <1>5, <1>8, <2>1 DEF Payload
      <3>2. QED
        BY <2>2, <3>1
    <2>4. t = With(r, "todo", todo, r.items)
      BY <1>2, <2>3, WithFields
    <2>5. /\ Fields(t) /\ t.at = "todo" /\ t.op = r.op /\ t.target = r.target
          /\ t.path = r.path /\ t.depth = r.depth /\ t.todo = todo /\ t.items = r.items
      BY <2>4, GetFields DEF With
    <2>6. Entered(s, place, path, body) /\ NoDocument(s, path)
      BY <1>1, <1>3, <1>4, <1>5, <1>8, PayloadHeld DEF HasPayload, NoDocument
    <2>7. ToVisit(s, new, place) /\ AllBelow(s, path, new)
      BY <2>1, <2>6, EntriesCover
    <2>8. ToVisit(s, todo, place)
      BY <1>2, <2>2, <2>7 DEF ToVisit
    <2>9. ASSUME NEW p \in Paths, Under(r.target, p), {} \notin s[p] PROVE Covered(t, p)
      <3>1. Covered(r, p)
        BY <1>2, <2>9 DEF Covering
      <3>2. Under(path, p) => \E e \in new : Under(e[1], p)
        BY <2>7, <2>9 DEF AllBelow
      <3>3. QED
        BY <1>4, <2>2, <2>5, <3>1, <3>2 DEF Covered
    <2>10. Covering(s, t)
      BY <2>5, <2>9 DEF Covering
    <2>11. CallOK(s, t, place)
      BY <1>2, <2>5, <2>8, <2>10 DEF CallOK
    <2>12. QED
      BY <1>1, <1>2, <2>5, <2>11 DEF ReaderOK
  <1>9. QED
    BY <1>1, <1>6, <1>7, <1>8 DEF ExportRow

\* An entry visited is found as it is now; without entries all is found.
LEMMA ExportEntryKeeps ==
  ASSUME NEW place, UnderWay(seen, reader, place), ExportEntry
  PROVE  ReaderOK(seen, reader', place)
  <1>1. PICK s, r, t : s = seen /\ r = reader /\ t = reader'
    OBVIOUS
  <1>2. /\ UnderWay(s, r, place) /\ Fields(r) /\ CallOK(s, r, place) /\ SeenNow(s)
        /\ TreeInv /\ Labelled(Tree, place) /\ r.at = "todo" /\ r.op = "export"
        /\ r.target \in Labels /\ Collected(s, r.items) /\ Covering(s, r)
        /\ ToVisit(s, r.todo, place)
    BY <1>1 DEF UnderWay, ExportEntry, CallOK
  <1>3. CASE reader.todo = {} /\ Answer("documents", reader.items)
    <2>1. t = Ended(r, "documents", r.items)
      BY <1>1, <1>3 DEF Answer, Ended
    <2>2. /\ Fields(t) /\ t.at = "done" /\ t.op = r.op /\ t.target = r.target
          /\ t.items = r.items /\ t.answer = "documents"
      BY <1>2, <2>1, ToldFields
    <2>3. ASSUME NEW p \in Paths, {} \notin s[p], Under(r.target, p)
          PROVE  \E item \in r.items : item.path = p
      <3>1. Covered(r, p)
        BY <1>2, <2>3 DEF Covering
      <3>2. QED
        BY <1>1, <1>2, <1>3, <3>1 DEF Covered
    <2>4. DoneOK(s, t)
      BY <1>2, <2>2, <2>3 DEF DoneOK
    <2>5. QED
      BY <1>1, <2>2, <2>4 DEF ReaderOK
  <1>4. ASSUME NEW e \in r.todo,
               IF Active(e[2])
               THEN reader' = [Hold(reader, e[2]) EXCEPT
                                 !.path = e[1], !.depth = Len(e[1]), !.todo = @ \ {e}]
               ELSE Answer("integrity", {})
        PROVE  ReaderOK(s, t, place)
    <2>1. PICK path, i, v, todo : /\ path = e[1] /\ i = e[2] /\ v = objects[i].version
                                  /\ todo = r.todo \ {e}
      OBVIOUS
    <2>2. i \in Ids /\ path \in Labels /\ place[i] = path
      BY <1>2, <2>1 DEF ToVisit, Pointed
    <2>3. CASE ~Active(i)
      <3>1. t = Ended(r, "integrity", {})
        BY <1>1, <1>4, <2>1, <2>3 DEF Answer, Ended
      <3>2. Fields(t) /\ t.at = "done" /\ t.target = r.target /\ t.answer = "integrity"
        BY <1>2, <3>1, ToldFields
      <3>3. QED
        BY <1>2, <3>2, ToldNothing
    <2>4. CASE Active(i)
      <3>1. t = Visiting(r, i, path, e)
        BY <1>1, <1>4, <2>1, <2>4 DEF Visiting
      <3>2. t = Taking(r, path, i, v, todo)
        BY <1>2, <2>1, <3>1, TakingFields
      <3>3. /\ Fields(t) /\ t.at = "row" /\ t.op = r.op /\ t.target = r.target
            /\ t.path = path /\ t.depth = Len(path) /\ t.id = i /\ t.version = v
            /\ t.todo = todo /\ t.items = r.items
        BY <3>2, GetFields DEF Taking
      <3>4. RowHeld(s, place, path, i, v)
        BY <1>2, <2>1, <2>2, <2>4, RowFound
      <3>5. RowAt(s, t, place) /\ t.depth \in 0..Len(path)
        BY <2>2, <3>3, <3>4, UnderSame DEF RowAt
      <3>6. ToVisit(s, todo, place)
        BY <1>2, <2>1 DEF ToVisit
      <3>7. ASSUME NEW p \in Paths, Under(r.target, p), {} \notin s[p] PROVE Covered(t, p)
        <4>1. Covered(r, p)
          BY <1>2, <3>7 DEF Covering
        <4>2. CASE \E item \in r.items : item.path = p
          BY <3>3, <4>2 DEF Covered
        <4>3. CASE \E f \in r.todo : Under(f[1], p)
          <5>1. PICK f \in r.todo : Under(f[1], p)
            BY <4>3
          <5>2. f \in todo \/ Under(path, p)
            BY <2>1, <5>1
          <5>3. QED
            BY <3>3, <5>1, <5>2 DEF Covered
        <4>4. QED
          BY <1>2, <4>1, <4>2, <4>3 DEF Covered
      <3>8. Covering(s, t)
        BY <3>3, <3>7 DEF Covering
      <3>9. CallOK(s, t, place)
        BY <1>2, <2>2, <3>3, <3>5, <3>6, <3>8 DEF CallOK
      <3>10. QED
        BY <1>2, <3>3, <3>9 DEF ReaderOK
    <2>5. QED
      BY <2>3, <2>4
  <1>5. QED
    BY <1>1, <1>3, <1>4 DEF ExportEntry

\* What may be called for.
LEMMA TargetLabels ==
  ASSUME NEW op \in Operations, NEW path \in Targets(op)
  PROVE  path \in Labels /\ (op \in {"read", "history"} => path \in Paths)
  <1>1. CASE op \in {"read", "history"}
    BY <1>1, PathLength DEF Targets, Labels
  <1>2. CASE op \notin {"read", "history"}
    <2>1. PICK p \in Paths : \E n \in 0..Len(p) : path = SubSeq(p, 1, n)
      BY <1>2 DEF Targets
    <2>2. QED
      BY <1>2, <2>1, Beginning
  <1>3. QED
    BY <1>1, <1>2

\* Without a root there is no document.
LEMMA NoRoot ==
  ASSUME TreeInv, NEW place, Labelled(Tree, place), Root = {}, NEW p \in Paths
  PROVE  Docs[p] = {}
  <1>1. /\ WellTree(Tree) /\ Tree.root = Root /\ Tree.dirs = Directories
        /\ Tree.docs = Documents
    BY DEF TreeInv, Tree
  <1>2. ASSUME NEW i \in Documents PROVE FALSE
    <2>1. place[i] \in Paths /\ 0 \in Nat /\ i \in Tree.dirs \cup Tree.docs
      BY <1>1 DEF Labelled
    <2>2. 0 < Len(place[i])
      BY <2>1, PathLength DEF Positive
    <2>3. Above(Tree, place, i, 0)
      BY <1>1, <2>1, <2>2, Ancestors
    <2>4. PICK d \in Directories : Len(place[d]) = 0
      BY <1>1, <2>3 DEF Above
    <2>5. QED
      BY <1>1, <2>4, LabelRoot
  <1>3. DocumentOf(p) = {}
    BY <1>2 DEF DocumentOf
  <1>4. QED
    BY <1>3, DocsOne

\* A call starts at the root, or there is none.
LEMMA CallKeeps ==
  ASSUME TreeInv, NEW place, Labelled(Tree, place),
         NEW op \in Operations, NEW path \in Targets(op), Call(op, path)
  PROVE  SeenNow(seen') /\ ReaderOK(seen', reader', place)
  <1>1. PICK s, t : s = seen' /\ t = reader'
    OBVIOUS
  <1>2. PICK call : call = [Idle EXCEPT !.op = op, !.target = path, !.path = path]
    OBVIOUS
  <1>3. call = Called(op, path) /\ Fields(call)
    <2>1. Fields(Called(op, path))
      BY CallFields
    <2>2. call = Called(op, path)
      BY <1>2, CallFields
    <2>3. QED
      BY <2>1, <2>2
  <1>4. /\ call.op = op /\ call.target = path /\ call.path = path /\ call.depth = 0
        /\ call.todo = {} /\ call.items = {}
    BY <1>3, GetFields DEF Called
  <1>5. s = [p \in Paths |-> {Docs[p]}] /\ SeenNow(s)
    BY <1>1 DEF Call, SeenNow
  <1>6. path \in Labels /\ (op \in {"read", "history"} => path \in Paths)
    BY TargetLabels
  <1>7. ASSUME NEW i \in Root, t = Hold(call, i) PROVE ReaderOK(s, t, place)
    <2>1. PICK v : v = objects[i].version
      OBVIOUS
    <2>2. t = Held(call, i, v)
      BY <1>3, <1>7, <2>1, HoldFields
    <2>3. /\ Fields(t) /\ t.at = "row" /\ t.op = op /\ t.target = path /\ t.path = path
          /\ t.depth = 0 /\ t.id = i /\ t.version = v /\ t.todo = {} /\ t.items = {}
      BY <1>4, <2>2, HeldFields
    <2>4. i \in Ids /\ Active(i) /\ i \in Tree.root
      BY <1>7 DEF Root, Directories, Tree
    <2>5. place[i] \in Labels /\ Len(place[i]) = 0
      <3>1. WellTree(Tree) /\ i \in Tree.dirs \cup Tree.docs
        BY <2>4 DEF TreeInv, WellTree
      <3>2. QED
        BY <2>4, <3>1, LabelRoot
    <2>6. RowHeld(s, place, place[i], i, v)
      BY <1>5, <2>1, <2>4, RowFound
    <2>7. Len(path) \in Nat
      BY <1>6 DEF Labels
    <2>8. Under(place[i], path) /\ t.depth \in 0..Len(path)
      BY <2>3, <2>5, <2>7 DEF Under
    <2>9. RowAt(s, t, place)
      BY <2>3, <2>5, <2>6, <2>8 DEF RowAt
    <2>10. Covering(s, t) /\ Collected(s, t.items) /\ ToVisit(s, t.todo, place)
      BY <2>3 DEF Covering, Covered, Collected, ToVisit
    <2>11. CallOK(s, t, place)
      BY <1>6, <2>3, <2>8, <2>9, <2>10 DEF CallOK
    <2>12. QED
      BY <1>5, <2>3, <2>11 DEF ReaderOK
  <1>8. ASSUME Root = {}, NEW kind \in {"documents", "absent"},
               t = [call EXCEPT !.at = "done", !.answer = kind],
               kind = "documents" => path = <<>>
        PROVE  ReaderOK(s, t, place)
    <2>1. t = Told(call, kind, {})
      <3>1. PICK q1 : q1 = [call EXCEPT !.at = "done"]
        OBVIOUS
      <3>2. PICK q2 : q2 = [q1 EXCEPT !.answer = kind]
        OBVIOUS
      <3>3. q1 = Rec("done", op, path, path, 0, NULL, NULL, {}, {}, "none")
        BY <1>3, <3>1 DEF Called, Rec
      <3>4. q2 = Rec("done", op, path, path, 0, NULL, NULL, {}, {}, kind)
        BY <3>2, <3>3 DEF Rec
      <3>5. t = q2
        BY <1>8, <3>1, <3>2, Zenon
      <3>6. call.id = NULL /\ call.version = NULL
        BY <1>3, GetFields DEF Called
      <3>7. QED
        BY <1>4, <3>4, <3>5, <3>6 DEF Told
    <2>2. /\ Fields(t) /\ t.at = "done" /\ t.op = op /\ t.target = path /\ t.path = path
          /\ t.items = {} /\ t.answer = kind
      BY <1>4, <2>1, GetFields DEF Told
    <2>3. \A p \in Paths : {} \in s[p]
      BY <1>5, <1>8, NoRoot
    <2>4. DoneOK(s, t)
      BY <1>6, <1>8, <2>2, <2>3 DEF DoneOK, Collected
    <2>5. QED
      BY <2>2, <2>4 DEF ReaderOK
  <1>9. \/ \E i \in Root : t = Hold(call, i)
        \/ Root = {} /\ \E kind \in {"documents", "absent"} :
             /\ t = [call EXCEPT !.at = "done", !.answer = kind]
             /\ kind = "documents" => path = <<>>
    <2>1. \/ \E i \in Root : t = Hold(call, i)
          \/ Root = {} /\ t = [call EXCEPT !.at = "done",
                                 !.answer = IF path = <<>> THEN "documents" ELSE "absent"]
      BY <1>1, <1>2, Zenon DEF Call
    <2>2. PICK kind : kind = IF path = <<>> THEN "documents" ELSE "absent"
      OBVIOUS
    <2>3. kind \in {"documents", "absent"} /\ (kind = "documents" => path = <<>>)
      BY <2>2
    <2>4. \/ \E i \in Root : t = Hold(call, i)
          \/ Root = {} /\ t = [call EXCEPT !.at = "done", !.answer = kind]
      BY <2>1, <2>2, Zenon
    <2>5. QED
      BY <2>3, <2>4, Zenon
  <1>10. ReaderOK(s, t, place)
    <2>1. CASE \E i \in Root : t = Hold(call, i)
      BY <1>7, <2>1
    <2>2. CASE Root = {} /\ \E kind \in {"documents", "absent"} :
             /\ t = [call EXCEPT !.at = "done", !.answer = kind]
             /\ kind = "documents" => path = <<>>
      BY <1>8, <2>2, Zenon
    <2>3. QED
      BY <1>9, <2>1, <2>2
  <1>11. QED
    BY <1>1, <1>5, <1>10

---------------------------------------------------------------------------
(* The store's steps, and the invariant.                                   *)

\* What is true of a call stays so when the store takes a step.
LEMMA CallStays ==
  ASSUME TreeInv, [Next]_vars, NEW place, Labelled(Tree, place), NEW next, Follows(place, next),
         NEW s, NEW new, Seeing(s, new), SeenNow(new)', NEW r, CallOK(s, r, place)
  PROVE  CallOK(new, r, next)'
  <1>1. ASSUME r.at = "row" PROVE RowAt(new, r, next)'
    <2>1. PICK i, v : i = r.id /\ v = r.version
      OBVIOUS
    <2>2. PICK q : Len(q) = r.depth /\ Under(q, r.path) /\ RowHeld(s, place, q, i, v)
      BY <1>1, <2>1 DEF CallOK, RowAt
    <2>3. RowHeld(new, next, q, i, v)'
      BY <2>2, RowStays
    <2>4. QED
      BY <2>1, <2>2, <2>3 DEF RowAt, Under
  <1>2. ASSUME r.at = "entry" PROVE EntryAt(new, r, next)'
    <2>1. PICK i : i = r.id
      OBVIOUS
    <2>2. PICK q : Len(q) = r.depth /\ Under(q, r.path) /\ Pointed(s, place, q, i)
      BY <1>2, <2>1 DEF CallOK, EntryAt
    <2>3. Pointed(new, next, q, i)'
      BY <2>2, PointedStays
    <2>4. QED
      BY <2>1, <2>2, <2>3 DEF EntryAt, Under
  <1>3. ToVisit(new, r.todo, next)'
    <2> SUFFICES ASSUME NEW e \in r.todo PROVE Pointed(new, next, e[1], e[2])'
      BY DEF ToVisit
    <2>1. PICK q, i : q = e[1] /\ i = e[2]
      OBVIOUS
    <2>2. Pointed(s, place, q, i)
      BY <2>1 DEF CallOK, ToVisit
    <2>3. Pointed(new, next, q, i)'
      BY <2>2, PointedStays
    <2>4. QED
      BY <2>1, <2>3 DEF Pointed, Absent
  <1>4. \A p \in Paths : {} \notin new[p] => {} \notin s[p]
    BY DEF Seeing
  <1>5. /\ Collected(s, r.items) => Collected(new, r.items)
        /\ Covering(s, r) => Covering(new, r)
        /\ Listed(s, r) => Listed(new, r)
    BY <1>4 DEF Collected, Covering, Listed, Seeing
  <1>6. QED
    BY <1>1, <1>2, <1>3, <1>5
       DEF CallOK, Collected, Covering, Covered, Listed, InDirectory, Under

\* The same of a reader, at any statement.
LEMMA ReaderStays ==
  ASSUME TreeInv, [Next]_vars, NEW place, Labelled(Tree, place),
         NEW s, NEW new, NEW r, ReaderOK(s, r, place),
         IF r.at \in {"idle", "done"} THEN new = s
         ELSE Seeing(s, new) /\ SeenNow(new)'
  PROVE  \E next : Labelled(Tree', next) /\ ReaderOK(new, r, next)'
  <1>1. PICK next : Follows(place, next)
    BY LabelStep
  <1>2. Labelled(Tree', next)
    BY <1>1 DEF Follows
  <1>3. CASE r.at \in {"idle", "done"}
    <2>1. Fields(r) /\ (r.at = "done" => DoneOK(s, r))
      BY <1>3 DEF ReaderOK, CallOK
    <2>2. ReaderOK(new, r, next)'
      BY <1>3, <2>1 DEF ReaderOK, Fields, Rec, DoneOK, Collected, FoundAt, InDirectory, Under
    <2>3. QED
      BY <1>2, <2>2
  <1>4. CASE r.at \notin {"idle", "done"}
    <2>1. Fields(r) /\ CallOK(s, r, place) /\ Seeing(s, new) /\ SeenNow(new)'
      BY <1>4 DEF ReaderOK
    <2>2. CallOK(new, r, next)'
      BY <1>1, <2>1, CallStays
    <2>3. ReaderOK(new, r, next)'
      BY <2>1, <2>2 DEF ReaderOK, Fields, Rec
    <2>4. QED
      BY <1>2, <2>3
  <1>5. QED
    BY <1>3, <1>4

\* One tree in the store, and what is true of the reader's call.
ReaderAt(s, r) == \E place : Labelled(Tree, place) /\ ReaderOK(s, r, place)
RInv == TreeInv /\ ReaderAt(seen, reader)

\* Before the first call nothing has been seen and the invariant holds.
LEMMA NoCallYet ==
  ASSUME ReadersInit
  PROVE  RInv
  <1>1. TreeInv /\ Directories = {} /\ Documents = {} /\ Root = {}
    BY InitTree DEF ReadersInit, Init, Directories, Documents, Root, Ids
  <1>2. PICK place : place = [i \in {} |-> <<>>]
    OBVIOUS
  <1>3. Labelled(Tree, place)
    BY <1>1 DEF Labelled, Tree
  <1>4. ReaderOK(seen, reader, place)
    BY CallFields DEF ReadersInit, ReaderOK
  <1>5. QED
    BY <1>1, <1>3, <1>4 DEF RInv, ReaderAt

\* While the store stands still, what was seen is still so.
LEMMA StillSeen ==
  ASSUME TreeInv, UNCHANGED vars, NEW s, SeenNow(s)
  PROVE  SeenNow(s)'
  <1>1. TypeOK /\ TreeInv'
    BY TreeStep DEF TreeInv, IInv
  <1>2. TypeOK'
    BY <1>1 DEF TreeInv, IInv
  <1>3. UNCHANGED <<objects, versions>>
    BY DEF vars
  <1>4. Tree' = Tree
    BY <1>3 DEF Tree, Manifest, Body, Directories, Documents, Root, Active, IsDocument, Ids
  <1>5. \A j \in Documents : objects'[j] = objects[j] /\ Body(j)' = Body(j)
    BY <1>3 DEF Body
  <1>6. Docs' = Docs
    BY <1>2, <1>4, <1>5, QuietMap
  <1>7. QED
    BY <1>6 DEF SeenNow

\* A statement of the reader, beside a store that stands still.
LEMMA Statement ==
  ASSUME RInv, UNCHANGED vars,
         NEW place, Labelled(Tree, place), ReaderOK(seen', reader', place),
         reader'.at \in {"idle", "done"} \/ SeenNow(seen')
  PROVE  RInv'
  <1>1. PICK s, t : s = seen' /\ t = reader'
    OBVIOUS
  <1>2. ReaderOK(s, t, place) /\ TreeInv /\ TreeInv' /\ Seeing(s, s)
    BY <1>1, TreeStep DEF RInv, Seeing
  <1>3. t.at \in {"idle", "done"} \/ SeenNow(s)'
    BY <1>1, <1>2, StillSeen
  <1>4. \E next : Labelled(Tree', next) /\ ReaderOK(s, t, next)'
    BY <1>2, <1>3, ReaderStays
  <1>5. ReaderAt(s, t)'
    BY <1>4 DEF ReaderAt
  <1>6. QED
    BY <1>1, <1>2, <1>5 DEF RInv

\* Every statement of a call, every step of the store and every return keep it.
LEMMA ReaderStep ==
  ASSUME RInv, [ReadersNext]_<<vars, readVars>>
  PROVE  RInv'
  <1>1. TreeInv
    BY DEF RInv
  <1>2. PICK place : Labelled(Tree, place) /\ ReaderOK(seen, reader, place)
    BY DEF RInv, ReaderAt
  <1>3. ASSUME Descend \/ LoadObject \/ ReadPayload \/ HistoryPage \/ ListManifest
               \/ ListChildren \/ ExportRow \/ ExportEntry
        PROVE  RInv'
    <2>1. UNCHANGED vars /\ seen' = seen /\ reader.at \notin {"idle", "done"}
      BY <1>3 DEF Stay, Descend, LoadObject, ReadPayload, HistoryPage, ListManifest,
                  ListChildren, ExportRow, ExportEntry, AtTarget, AtRow
    <2>2. SeenNow(seen) /\ UnderWay(seen, reader, place)
      BY <1>1, <1>2, <2>1 DEF ReaderOK, UnderWay
    <2>3. ReaderOK(seen, reader', place)
      BY <1>3, <2>2, DescendKeeps, LoadObjectKeeps, ReadPayloadKeeps, HistoryPageKeeps,
         ListManifestKeeps, ListChildrenKeeps, ExportRowKeeps, ExportEntryKeeps
    <2>4. QED
      BY <1>2, <2>1, <2>2, <2>3, Statement
  <1>4. ASSUME NEW op \in Operations, NEW path \in Targets(op), Call(op, path)
        PROVE  RInv'
    <2>1. UNCHANGED vars
      BY <1>4 DEF Call
    <2>2. QED
      BY <1>1, <1>2, <1>4, <2>1, CallKeeps, Statement
  <1>5. CASE Return
    <2>1. UNCHANGED vars /\ reader' = Idle
      BY <1>5 DEF Return
    <2>2. ReaderOK(seen', reader', place) /\ reader'.at = "idle"
      BY <2>1, CallFields DEF ReaderOK
    <2>3. QED
      BY <1>2, <2>1, <2>2, Statement
  <1>6. CASE StoreStep
    <2>1. PICK s, new, r : s = seen /\ new = seen' /\ r = reader /\ r = reader'
      BY <1>6 DEF StoreStep
    <2>2. ReaderOK(s, r, place) /\ [Next]_vars /\ TreeInv'
      BY <1>1, <1>2, <1>6, <2>1, TreeStep DEF StoreStep
    <2>3. IF r.at \in {"idle", "done"} THEN new = s ELSE Seeing(s, new) /\ SeenNow(new)'
      <3>1. CASE r.at \in {"idle", "done"}
        BY <1>6, <2>1, <3>1 DEF StoreStep
      <3>2. CASE r.at \notin {"idle", "done"}
        <4>1. new = [p \in Paths |-> s[p] \cup {Docs'[p]}]
          BY <1>6, <2>1, <3>2 DEF StoreStep
        <4>2. QED
          BY <3>2, <4>1 DEF Seeing, SeenNow
      <3>3. QED
        BY <3>1, <3>2
    <2>4. \E next : Labelled(Tree', next) /\ ReaderOK(new, r, next)'
      BY <1>1, <1>2, <2>2, <2>3, ReaderStays
    <2>5. ReaderAt(new, r)'
      BY <2>4 DEF ReaderAt
    <2>6. QED
      BY <2>1, <2>2, <2>5 DEF RInv
  <1>7. CASE UNCHANGED <<vars, readVars>>
    <2>1. UNCHANGED vars /\ seen' = seen /\ reader' = reader
      BY <1>7 DEF readVars
    <2>2. reader.at \in {"idle", "done"} \/ SeenNow(seen)
      BY <1>2 DEF ReaderOK
    <2>3. QED
      BY <1>2, <2>1, <2>2, Statement
  <1>8. QED
    BY <1>3, <1>4, <1>5, <1>6, <1>7 DEF ReadersNext

---------------------------------------------------------------------------
(* Theorems.                                                               *)

\* What a reader holds between two statements was so at some moment of its
\* call, whatever mutations and janitor batches commit meanwhile.
THEOREM ReadersInductive == ReadersSpec => []RInv
  <1>1. ReadersInit => RInv
    BY NoCallYet
  <1>2. RInv /\ [ReadersNext]_<<vars, readVars>> => RInv'
    BY ReaderStep
  <1>3. QED
    BY <1>1, <1>2, PTL DEF ReadersSpec

\* What a call answers was so at some moment of the call, though no lock holds
\* its statements together.
THEOREM CurrentAnswers == ReadersSpec => []AnswersWereCurrent
  <1>1. RInv => AnswersWereCurrent
    <2> SUFFICES ASSUME RInv, reader.at = "done" PROVE AnswersWereCurrent
      BY DEF AnswersWereCurrent, Answered
    <2>1. DoneOK(seen, reader)
      BY DEF RInv, ReaderAt, ReaderOK, CallOK
    <2>2. QED
      BY <2>1 DEF AnswersWereCurrent, Answered, DoneOK, Collected, Was, FoundAt
  <1>2. QED
    BY <1>1, ReadersInductive, PTL

\* A document that stays at its path during the whole call is in the answer of
\* a list of its directory and of an export of a directory above it.
THEOREM CompleteAnswers == ReadersSpec => []AnswersAreComplete
  <1>1. RInv => AnswersAreComplete
    <2> SUFFICES ASSUME RInv, reader.at = "done", NEW path \in Paths, {} \notin seen[path]
                 PROVE  /\ Answered("list", "documents") /\ Front(path) = reader.target =>
                             \E item \in reader.items : item.path = path
                        /\ Answered("export", "documents") /\ IsPrefix(reader.target, path) =>
                             \E item \in reader.items : item.path = path
      BY DEF AnswersAreComplete
    <2>1. DoneOK(seen, reader)
      BY DEF RInv, ReaderAt, ReaderOK, CallOK
    <2>2. PICK target \in Labels : target = reader.target
      BY <2>1 DEF DoneOK
    <2>3. Front(path) = target => InDirectory(target, path)
      <3>1. Len(path) \in Nat /\ Len(path) - 1 \in 0..Len(path)
        BY PathLength DEF Positive
      <3>2. PICK k \in 0..Len(path) : k = Len(path) - 1
        BY <3>1
      <3>3. /\ Front(path) = SubSeq(path, 1, k) /\ Len(SubSeq(path, 1, k)) = k
            /\ \A n \in 1..k : SubSeq(path, 1, k)[n] = path[n]
        BY <3>2, Beginning DEF Front
      <3>4. QED
        BY <3>1, <3>2, <3>3 DEF InDirectory, Under
    <2>4. IsPrefix(target, path) => Under(target, path)
      <3> SUFFICES ASSUME IsPrefix(target, path) PROVE Under(target, path)
        OBVIOUS
      <3>1. Len(target) \in 0..Len(path) /\ Len(target) \in Nat /\ Len(path) \in Nat
        BY PathLength DEF IsPrefix, Labels, Positive
      <3>2. PICK k \in 0..Len(path) : k = Len(target)
        BY <3>1
      <3>3. SubSeq(target, 1, k) = SubSeq(path, 1, k)
        BY <3>2 DEF IsPrefix
      <3>4. \A n \in 1..k : SubSeq(path, 1, k)[n] = path[n]
        BY Beginning
      <3>5. \A n \in 1..k : SubSeq(target, 1, k)[n] = target[n]
        <4>1. k \in Int /\ 1 \in Int /\ \A n \in 1..k : target[n] \in Names
          BY <3>1, <3>2 DEF Labels
        <4>2. \A n \in 1..(k - 1 + 1) : SubSeq(target, 1, k)[n] = target[1 + n - 1]
          BY <4>1, SubSeqProperties
        <4>3. k - 1 + 1 = k /\ \A n \in 1..k : 1 + n - 1 = n
          BY <4>1
        <4>4. QED
          BY <4>2, <4>3
      <3>6. QED
        BY <3>1, <3>2, <3>3, <3>4, <3>5 DEF Under
    <2>5. QED
      BY <2>1, <2>2, <2>3, <2>4 DEF DoneOK, Answered
  <1>2. QED
    BY <1>1, ReadersInductive, PTL

\* Readers change nothing: beside them the store does what it does alone.
THEOREM ReadersUseStore == ReadersSpec => Spec
  <1>1. ReadersInit => Init
    BY DEF ReadersInit
  <1>2. [ReadersNext]_<<vars, readVars>> => [Next]_vars
    BY DEF ReadersNext, Call, Descend, LoadObject, ReadPayload, HistoryPage, ListManifest,
           ListChildren, ExportRow, ExportEntry, Return, StoreStep, Stay
  <1>3. QED
    BY <1>1, <1>2, PTL DEF ReadersSpec, Spec
================================================================================
