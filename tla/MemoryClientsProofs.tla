--------------------------- MODULE MemoryClientsProofs ---------------------------
(***************************************************************************)
(* Callers and their retries, for any number of clients and keys.          *)
(*                                                                         *)
(* Why a request is carried out once: the version it names is the one its  *)
(* client read, versions only grow, and carrying it out makes the next     *)
(* one.  The invariant says so of each client (Tie): the document it read  *)
(* still has the text it read, or has moved on, and it has moved on when   *)
(* the request has been carried out on it.  That the key's record expired, *)
(* or that the janitor removed it, makes no difference.                    *)
(***************************************************************************)
EXTENDS MemoryClients, MemoryStoreTreeProofs

---------------------------------------------------------------------------
(* The invariant.                                                          *)

Fields(r) ==
  r = [at |-> r.at, path |-> r.path, op |-> r.op, id |-> r.id, version |-> r.version,
       body |-> r.body, commits |-> r.commits, elsewhere |-> r.elsewhere, answer |-> r.answer]

ClientRecord(r) ==
  /\ Fields(r) /\ r.commits \in 0..1 /\ r.elsewhere \in Nat
  /\ r.at = "idle" => r.commits = 0 /\ r.elsewhere = 0

\* What a client has read of a document is true of it, or it has moved on.
Tie(r) ==
  r.at # "idle" =>
    /\ r.path \in Paths /\ r.id \in Ids /\ r.version \in Positive
    /\ r.version <= objects[r.id].version
    /\ Active(r.id) /\ r.version = objects[r.id].version => Body(r.id) = r.body
    /\ r.commits > 0 => r.version < objects[r.id].version

\* The key of a request that was carried out has been applied.
Known(r, applied) == r.commits + r.elsewhere > 0 => applied # NULL

ClientsOK ==
  /\ client = [c \in Clients |-> client[c]]
  /\ \A c \in Clients : ClientRecord(client[c]) /\ Tie(client[c]) /\ Known(client[c], appliedAt[c])

CInv == IInv /\ ClientsOK

---------------------------------------------------------------------------
(* What a step does to one client.                                         *)

\* The updates of a client's record.
Begun(path, op, i) ==
  [at |-> "pending", path |-> path, op |-> op, id |-> i, version |-> objects[i].version,
   body |-> Body(i), commits |-> 0, elsewhere |-> 0, answer |-> "none"]
Replied(r, answer) == [r EXCEPT !.at = "done", !.answer = answer]
Once(r) == [r EXCEPT !.commits = @ + 1]
Aside(r) == [r EXCEPT !.elsewhere = @ + 1]

HasRead(c) ==
  /\ client[c].at = "idle"
  /\ \E path \in Paths : \E op : \E i \in DocumentOf(path) :
       client'[c] = Begun(path, op, i)
HasCommitted(c) ==
  /\ Pending(c)
  /\ \E i \in Current(c) :
       /\ \E body : ReplaceDocument(i, body)
       /\ client'[c] \in {Counted(c, i), Replied(Counted(c, i), "result")}
  /\ appliedAt'[c] = now
HasAnswer(c) ==
  /\ Pending(c)
  /\ \E answer : /\ client'[c] = Answered(c, answer)
                 /\ answer = "conflict" => KeyFree(c)
ClientStep(c) == client'[c] = client[c] \/ HasRead(c) \/ HasCommitted(c) \/ HasAnswer(c)

\* The record a read makes, field by field.
LEMMA Begins ==
  ASSUME NEW path, NEW op, NEW i
  PROVE  [Fresh EXCEPT !.at = "pending", !.path = path, !.op = op,
            !.id = i, !.version = objects[i].version, !.body = Body(i)] = Begun(path, op, i)
  <1>1. PICK version, body : version = objects[i].version /\ body = Body(i)
    OBVIOUS
  <1>2. PICK q1 : q1 = [Fresh EXCEPT !.at = "pending"]
    OBVIOUS
  <1>3. PICK q2 : q2 = [q1 EXCEPT !.path = path]
    OBVIOUS
  <1>4. PICK q3 : q3 = [q2 EXCEPT !.op = op]
    OBVIOUS
  <1>5. PICK q4 : q4 = [q3 EXCEPT !.id = i]
    OBVIOUS
  <1>6. PICK q5 : q5 = [q4 EXCEPT !.version = version]
    OBVIOUS
  <1>7. PICK q6 : q6 = [q5 EXCEPT !.body = body]
    OBVIOUS
  <1>8. q6 = [Fresh EXCEPT !.at = "pending", !.path = path, !.op = op,
                !.id = i, !.version = objects[i].version, !.body = Body(i)]
    BY <1>1, <1>2, <1>3, <1>4, <1>5, <1>6, <1>7, Zenon
  <1>9. q3 = [at |-> "pending", path |-> path, op |-> op, id |-> NULL, version |-> NULL,
              body |-> <<>>, commits |-> 0, elsewhere |-> 0, answer |-> "none"]
    BY <1>2, <1>3, <1>4 DEF Fresh
  <1>10. q6 = [at |-> "pending", path |-> path, op |-> op, id |-> i, version |-> version,
               body |-> body, commits |-> 0, elsewhere |-> 0, answer |-> "none"]
    BY <1>5, <1>6, <1>7, <1>9
  <1>11. QED
    BY <1>1, <1>8, <1>10 DEF Begun

\* A key once applied stays applied.
LEMMA AppliedStays ==
  ASSUME TypeOK, [Next]_vars, NEW key \in Keys, appliedAt[key] # NULL
  PROVE  appliedAt'[key] # NULL
  <1>1. appliedAt \in [Keys -> Nat] /\ now # NULL
    BY DEF TypeOK, Positive, NULL
  <1>2. ASSUME NEW k, StoreIdempotency(k) PROVE appliedAt'[key] \in {appliedAt[key], now}
    BY <1>1, <1>2 DEF StoreIdempotency
  <1>3. appliedAt' = appliedAt \/ \E k : StoreIdempotency(k)
    BY DEF Next, vars, Create, Mutate, Replay, Refuse, PurgeDue, Tick
  <1>4. QED
    BY <1>1, <1>2, <1>3

\* An identifier is of a row, and the row has a version.
LEMMA RowOfId ==
  ASSUME IInv, NEW i \in Ids
  PROVE  objects[i].version \in Positive
  <1>1. objects[i] \in Object
    BY DEF IInv, TypeOK, Ids
  <1>2. QED
    BY <1>1 DEF Object

\* Every step of the clients is a step of the store, or leaves it alone.
LEMMA StoreSteps ==
  ASSUME CInv, [ClientsNext]_clientVars
  PROVE  [Next]_vars
  <1>1. CASE UNCHANGED clientVars
    BY <1>1 DEF clientVars, vars
  <1>2. CASE \E c \in Clients, path \in Paths, op \in {"write", "append"} : Read(c, path, op)
    BY <1>2 DEF Read
  <1>3. ASSUME NEW c \in Clients, Commit(c) PROVE Next
    <2>1. /\ client[c].path \in Paths /\ Pending(c) /\ KeyFree(c) /\ StoreIdempotency(c)
          /\ UNCHANGED now /\ c \in Keys
      BY <1>3, ClientsAssumption DEF Commit, Pending, CInv, ClientsOK, Tie
    <2>2. PICK i \in Current(c) : Operation(c, i)
      BY <1>3 DEF Commit
    <2>3. i \in DocumentOf(client[c].path) /\ objects[i].version = client[c].version
      BY <2>2 DEF Current
    <2>4. /\ objects[i].version \in 1..VersionBound
          /\ \/ \E body \in Inputs : Replace(i, body)
             \/ \E text \in Inputs : AppendText(i, text)
      <3>1. objects[i].version \in Positive
        BY <2>3, RowOfId DEF DocumentOf, Documents, CInv
      <3>2. objects[i].version < VersionBound
        BY <2>2 DEF Operation, Replace, AppendText, ReplaceDocument
      <3>3. QED
        BY <2>2, <3>1, <3>2, BoundAssumption DEF Operation, Positive
    <2>5. Mutate(client[c].path, objects[i].version, c)
      BY <2>1, <2>3, <2>4 DEF Mutate
    <2>6. QED
      BY <2>1, <2>4, <2>5 DEF Next
  <1>4. CASE \E c \in Clients : Replayed(c) \/ Refused(c)
    BY <1>4 DEF Replayed, Refused
  <1>5. CASE Others
    BY <1>5 DEF Others, Next
  <1>6. QED
    BY <1>1, <1>2, <1>3, <1>4, <1>5 DEF ClientsNext

\* Every step reads, commits or answers for one client, and leaves the others alone.
LEMMA ClientSteps ==
  ASSUME CInv, [ClientsNext]_clientVars
  PROVE  /\ client' = [c \in Clients |-> client'[c]]
         /\ \A c \in Clients : ClientStep(c)
  <1>1. client = [c \in Clients |-> client[c]] /\ appliedAt \in [Keys -> Nat]
    BY DEF CInv, IInv, TypeOK, ClientsOK
  <1>2. ASSUME NEW d \in Clients, NEW r, client' = [client EXCEPT ![d] = r]
        PROVE  /\ client' = [c \in Clients |-> client'[c]]
               /\ client'[d] = r /\ \A c \in Clients \ {d} : client'[c] = client[c]
    BY <1>1, <1>2
  <1>3. ASSUME NEW d \in Clients, NEW path \in Paths, NEW op, Read(d, path, op)
        PROVE  /\ client' = [c \in Clients |-> client'[c]]
               /\ \A c \in Clients : ClientStep(c)
    <2>1. PICK i \in DocumentOf(path) : client' = [client EXCEPT ![d] = Begun(path, op, i)]
      BY <1>3, Begins DEF Read
    <2>2. HasRead(d)
      BY <1>2, <1>3, <2>1 DEF Read, HasRead
    <2>3. QED
      BY <1>2, <2>1, <2>2 DEF ClientStep
  <1>4. ASSUME NEW d \in Clients, Commit(d)
        PROVE  /\ client' = [c \in Clients |-> client'[c]]
               /\ \A c \in Clients : ClientStep(c)
    <2>1. PICK i \in Current(d) :
            /\ Operation(d, i)
            /\ \/ client' = [client EXCEPT ![d] = Replied(Counted(d, i), "result")]
               \/ client' = [client EXCEPT ![d] = Counted(d, i)]
      BY <1>4 DEF Commit, Replied
    <2>2. PICK body : ReplaceDocument(i, body)
      BY <2>1 DEF Operation, Replace, AppendText
    <2>3. appliedAt'[d] = now /\ Pending(d)
      BY <1>1, <1>4, ClientsAssumption DEF Commit, StoreIdempotency
    <2>4. /\ client' = [c \in Clients |-> client'[c]]
          /\ \A c \in Clients \ {d} : client'[c] = client[c]
          /\ client'[d] \in {Counted(d, i), Replied(Counted(d, i), "result")}
      BY <1>2, <2>1
    <2>5. HasCommitted(d)
      BY <2>2, <2>3, <2>4 DEF HasCommitted
    <2>6. QED
      BY <2>4, <2>5 DEF ClientStep
  <1>5. ASSUME NEW d \in Clients, NEW answer, Pending(d), answer = "conflict" => KeyFree(d),
               client' = [client EXCEPT ![d] = Answered(d, answer)]
        PROVE  /\ client' = [c \in Clients |-> client'[c]]
               /\ \A c \in Clients : ClientStep(c)
    BY <1>2, <1>5 DEF ClientStep, HasAnswer
  <1>6. CASE UNCHANGED client
    BY <1>1, <1>6 DEF ClientStep
  <1>7. ASSUME NEW d \in Clients, Replayed(d) \/ Refused(d)
        PROVE  /\ client' = [c \in Clients |-> client'[c]]
               /\ \A c \in Clients : ClientStep(c)
    BY <1>5, <1>7 DEF Replayed, Refused
  <1>8. QED
    BY <1>3, <1>4, <1>6, <1>7 DEF ClientsNext, clientVars, Others

---------------------------------------------------------------------------
(* The invariant is kept.                                                  *)

\* A document's version only grows, and with the version its text stays.
LEMMA TieStep ==
  ASSUME IInv, [Next]_vars, NEW r, Tie(r)
  PROVE  Tie(r)'
  <1> SUFFICES ASSUME r.at # "idle"
               PROVE  /\ r.path \in Paths /\ r.id \in Ids' /\ r.version \in Positive
                      /\ r.version <= objects'[r.id].version
                      /\ Active(r.id)' /\ r.version = objects'[r.id].version =>
                           Body(r.id)' = r.body
                      /\ r.commits > 0 => r.version < objects'[r.id].version
    BY DEF Tie
  <1> DEFINE i == r.id
  <1>1. /\ i \in Ids /\ r.version \in Positive /\ r.version <= objects[i].version
        /\ Active(i) /\ r.version = objects[i].version => Body(i) = r.body
        /\ r.commits > 0 => r.version < objects[i].version /\ r.path \in Paths
    BY DEF Tie
  <1>2. r.path \in Paths
    BY DEF Tie
  <1> HIDE DEF i
  <1>3. RowStep(i) /\ i \in Ids'
    BY <1>1, NextStep
  <1>4. /\ objects[i] \in Object /\ now \in Positive /\ objects[i].version \in Positive
        /\ objects'[i].lifecycle = "active" => Active(i)
    <2>1. objects[i] \in Object /\ now \in Positive
      BY <1>1 DEF IInv, TypeOK, Ids
    <2>2. QED
      BY <1>1, <1>3, <2>1, RowStepKeepsShape DEF Object
  <1>5. CASE Advanced(i)
    <2>1. PICK bytes \in Nat : objects'[i] = Revised(objects[i], bytes)
      BY <1>5 DEF Advanced
    <2>2. objects'[i].version = objects[i].version + 1
      BY <1>4, <2>1, RowChanges
    <2>3. QED
      BY <1>1, <1>2, <1>3, <1>4, <2>2 DEF i, Positive
  <1>6. CASE Tombstoned(i) \/ Emptied(i)
    <2>1. /\ objects'[i].version = objects[i].version
          /\ objects'[i].lifecycle # "active"
      BY <1>4, <1>6, RowChanges, 0 \in Nat DEF Tombstoned, Emptied, Removed
    <2>2. QED
      BY <1>1, <1>2, <1>3, <2>1 DEF i, Active
  <1>7. CASE Trimmed(i)
    <2>1. objects'[i] = objects[i]
      BY <1>7 DEF Trimmed
    <2>2. Active(i) => Body(i)' = Body(i)
      BY <1>1, <1>7, BodySteps
    <2>3. QED
      BY <1>1, <1>2, <1>3, <2>1, <2>2 DEF i, Active
  <1>8. QED
    BY <1>3, <1>5, <1>6, <1>7 DEF RowStep

\* A write leaves a document with the next version.
LEMMA NextVersion ==
  ASSUME IInv, NEW i \in Documents, NEW body, ReplaceDocument(i, body)
  PROVE  objects'[i].version = objects[i].version + 1
  <1>1. /\ objects[i] \in Object /\ i \in DOMAIN objects /\ now \in Positive
        /\ Len(body) \in Nat
    BY ConfigAssumption DEF IInv, TypeOK, Documents, Ids, ReplaceDocument, Positive
  <1>2. objects'[i] = Revised(objects[i], Len(body))
    BY <1>1 DEF ReplaceDocument
  <1>3. QED
    BY <1>1, <1>2, RowChanges

\* What a commit finds: the text the client read, and its request not carried out there yet.
LEMMA CommitFinds ==
  ASSUME CInv, NEW c \in Clients, Pending(c), NEW i \in Current(c), i = client[c].id
  PROVE  client[c].commits = 0 /\ Body(i) = client[c].body
  <1>1. client[c].at # "idle" /\ ClientRecord(client[c]) /\ Tie(client[c])
    BY DEF Pending, CInv, ClientsOK
  <1>2. Active(i) /\ objects[i].version = client[c].version
    BY DEF Current, DocumentOf, Documents
  <1>3. client[c].version \in Positive
    BY <1>1 DEF Tie
  <1>4. QED
    BY <1>1, <1>2, <1>3 DEF Tie, ClientRecord, Positive

\* What an update of a client's record leaves alone.
SameCall(r, q) ==
  /\ Fields(q) /\ q.path = r.path /\ q.id = r.id /\ q.version = r.version /\ q.body = r.body
  /\ q.at = "idle" => r.at = "idle"

\* An answer ends the call, and counts nothing.
LEMMA Replies ==
  ASSUME NEW r, Fields(r), NEW answer
  PROVE  /\ SameCall(r, Replied(r, answer))
         /\ Replied(r, answer).at = "done" /\ Replied(r, answer).answer = answer
         /\ Replied(r, answer).commits = r.commits
         /\ Replied(r, answer).elsewhere = r.elsewhere
  <1>1. PICK at, path, op, id, version, body, commits, elsewhere, was :
          r = [at |-> at, path |-> path, op |-> op, id |-> id, version |-> version,
               body |-> body, commits |-> commits, elsewhere |-> elsewhere, answer |-> was]
    BY DEF Fields
  <1>2. PICK q : q = [r EXCEPT !.at = "done"]
    OBVIOUS
  <1>3. q = [at |-> "done", path |-> path, op |-> op, id |-> id, version |-> version,
             body |-> body, commits |-> commits, elsewhere |-> elsewhere, answer |-> was]
    BY <1>1, <1>2
  <1>4. [q EXCEPT !.answer = answer] =
          [at |-> "done", path |-> path, op |-> op, id |-> id, version |-> version,
           body |-> body, commits |-> commits, elsewhere |-> elsewhere, answer |-> answer]
    BY <1>3
  <1>5. Replied(r, answer) = [q EXCEPT !.answer = answer]
    BY <1>2, Zenon DEF Replied
  <1>6. QED
    BY <1>1, <1>4, <1>5 DEF SameCall, Fields

\* Counting a request changes its count only.
LEMMA Counts ==
  ASSUME NEW r, Fields(r), r.commits \in Nat, r.elsewhere \in Nat
  PROVE  /\ SameCall(r, Once(r)) /\ Once(r).at = r.at /\ Once(r).answer = r.answer
         /\ Once(r).commits = r.commits + 1 /\ Once(r).elsewhere = r.elsewhere
         /\ SameCall(r, Aside(r)) /\ Aside(r).at = r.at /\ Aside(r).answer = r.answer
         /\ Aside(r).commits = r.commits /\ Aside(r).elsewhere = r.elsewhere + 1
  <1>1. PICK at, path, op, id, version, body, commits, elsewhere, answer :
          r = [at |-> at, path |-> path, op |-> op, id |-> id, version |-> version,
               body |-> body, commits |-> commits, elsewhere |-> elsewhere, answer |-> answer]
    BY DEF Fields
  <1>2. Once(r) = [at |-> at, path |-> path, op |-> op, id |-> id, version |-> version,
                   body |-> body, commits |-> commits + 1, elsewhere |-> elsewhere,
                   answer |-> answer]
    BY <1>1 DEF Once
  <1>3. Aside(r) = [at |-> at, path |-> path, op |-> op, id |-> id, version |-> version,
                    body |-> body, commits |-> commits, elsewhere |-> elsewhere + 1,
                    answer |-> answer]
    BY <1>1 DEF Aside
  <1>4. QED
    BY <1>1, <1>2, <1>3 DEF SameCall, Fields

\* A carried out request is counted on the document that was read, or elsewhere.
LEMMA Counting ==
  ASSUME NEW c \in Clients, ClientRecord(client[c]), Pending(c), NEW i, NEW new,
         new \in {Counted(c, i), Replied(Counted(c, i), "result")}
  PROVE  /\ SameCall(client[c], new) /\ new.at # "idle"
         /\ IF i = client[c].id
            THEN new.commits = client[c].commits + 1 /\ new.elsewhere = client[c].elsewhere
            ELSE new.commits = client[c].commits /\ new.elsewhere = client[c].elsewhere + 1
         /\ new.answer # "conflict" \/ new.answer = client[c].answer
  <1>1. /\ Fields(client[c]) /\ client[c].at # "idle"
        /\ client[c].commits \in Nat /\ client[c].elsewhere \in Nat
    BY DEF ClientRecord, Pending
  <1>2. PICK q : q = Counted(c, i)
    OBVIOUS
  <1>3. /\ SameCall(client[c], q) /\ q.at # "idle" /\ q.answer = client[c].answer
        /\ IF i = client[c].id
           THEN q.commits = client[c].commits + 1 /\ q.elsewhere = client[c].elsewhere
           ELSE q.commits = client[c].commits /\ q.elsewhere = client[c].elsewhere + 1
    <2>1. IF i = client[c].id THEN q = Once(client[c]) ELSE q = Aside(client[c])
      BY <1>2 DEF Counted, Once, Aside
    <2>2. QED
      BY <1>1, <2>1, Counts
  <1>4. Fields(q) /\ q.commits \in Nat /\ q.elsewhere \in Nat
    BY <1>1, <1>3 DEF SameCall
  <1>5. CASE new = q
    BY <1>3, <1>5
  <1>6. CASE new = Replied(q, "result")
    <2>2. /\ SameCall(q, new) /\ new.commits = q.commits /\ new.elsewhere = q.elsewhere
          /\ new.at = "done" /\ new.answer = "result"
      BY <1>4, <1>6, Replies
    <2>3. QED
      BY <1>3, <2>2 DEF SameCall
  <1>7. QED
    BY <1>2, <1>5, <1>6

\* One client's record after a step.
LEMMA OneClient ==
  ASSUME CInv, [Next]_vars, NEW c \in Clients, ClientStep(c), NEW new, new = client'[c]
  PROVE  ClientRecord(new) /\ Tie(new)' /\ Known(new, appliedAt'[c])
  <1>1. PICK old : old = client[c]
    OBVIOUS
  <1>2. ClientRecord(old) /\ Tie(old) /\ Known(old, appliedAt[c]) /\ IInv /\ c \in Keys /\ TypeOK
    BY <1>1, ClientsAssumption DEF CInv, ClientsOK, IInv
  <1>3. Known(old, appliedAt'[c])
    BY <1>2, AppliedStays DEF Known
  <1>4. Fields(old) /\ old.commits \in Nat /\ old.elsewhere \in Nat
    BY <1>2 DEF ClientRecord
  <1>5. CASE new = old
    BY <1>2, <1>3, <1>5, TieStep
  <1>6. CASE HasRead(c)
    <2>1. PICK path, op, i :
            /\ path \in Paths /\ i \in DocumentOf(path)
            /\ new = Begun(path, op, i)
      BY <1>6 DEF HasRead
    <2>2. i \in Ids /\ objects[i].version \in Positive
      BY <1>2, <2>1, RowOfId DEF DocumentOf, Documents
    <2>3. /\ new.at = "pending" /\ new.path = path /\ new.id = i /\ new.commits = 0
          /\ new.elsewhere = 0 /\ new.version = objects[i].version /\ new.body = Body(i)
          /\ Fields(new)
      BY <2>1 DEF Begun, Fields
    <2>4. Tie(new)
      BY <2>1, <2>2, <2>3 DEF Tie, Positive
    <2>5. QED
      BY <1>2, <2>3, <2>4, TieStep DEF ClientRecord, Known
  <1>7. CASE HasCommitted(c)
    <2>1. PICK i, body :
            /\ i \in Current(c) /\ ReplaceDocument(i, body)
            /\ new \in {Counted(c, i), Replied(Counted(c, i), "result")}
      BY <1>7 DEF HasCommitted
    <2>2. /\ SameCall(old, new) /\ new.at # "idle"
          /\ IF i = old.id THEN new.commits = old.commits + 1 /\ new.elsewhere = old.elsewhere
             ELSE new.commits = old.commits /\ new.elsewhere = old.elsewhere + 1
      BY <1>1, <1>2, <1>7, <2>1, Counting DEF HasCommitted
    <2>3. old.at # "idle" /\ Pending(c)
      BY <1>1, <1>7 DEF HasCommitted, Pending
    <2>4. appliedAt'[c] # NULL
      BY <1>2, <1>7 DEF HasCommitted, TypeOK, Positive, NULL
    <2>5. /\ i \in Documents /\ objects[i].version = old.version
          /\ objects'[i].version = objects[i].version + 1
      BY <1>1, <1>2, <2>1, NextVersion DEF Current, DocumentOf
    <2>6. Tie(old)'
      BY <1>2, TieStep
    <2>7. CASE i = old.id
      <3>1. old.commits = 0
        BY <1>1, <2>1, <2>3, <2>7, CommitFinds
      <3>2. new.commits = 1 /\ new.elsewhere \in Nat
        BY <1>4, <2>2, <2>7, <3>1
      <3>3. /\ old.path \in Paths /\ old.id \in Ids' /\ old.version \in Positive
            /\ objects'[old.id].version = old.version + 1
        BY <2>3, <2>5, <2>6, <2>7 DEF Tie
      <3>4. Tie(new)'
        BY <2>2, <3>2, <3>3 DEF Tie, SameCall, Positive
      <3>5. QED
        BY <2>2, <2>4, <3>2, <3>4 DEF ClientRecord, SameCall, Known
    <2>8. CASE i # old.id
      <3>1. new.commits = old.commits /\ new.elsewhere \in Nat
        BY <1>4, <2>2, <2>8
      <3>2. Tie(new)'
        BY <2>2, <2>3, <2>6, <3>1 DEF Tie, SameCall
      <3>3. QED
        BY <1>2, <2>2, <2>4, <3>1, <3>2 DEF ClientRecord, SameCall, Known
    <2>9. QED
      BY <2>7, <2>8
  <1>8. CASE HasAnswer(c)
    <2>1. PICK answer : new = Replied(old, answer)
      BY <1>1, <1>8 DEF HasAnswer, Answered, Replied
    <2>2. old.at # "idle"
      BY <1>1, <1>8 DEF HasAnswer, Pending
    <2>3. /\ SameCall(old, new) /\ new.commits = old.commits /\ new.elsewhere = old.elsewhere
          /\ new.at # "idle"
      BY <1>4, <2>1, Replies
    <2>4. Tie(new)
      BY <1>2, <2>2, <2>3 DEF Tie, SameCall
    <2>5. QED
      BY <1>2, <1>3, <2>3, <2>4, TieStep DEF ClientRecord, Known, SameCall
  <1>9. QED
    BY <1>1, <1>5, <1>6, <1>7, <1>8 DEF ClientStep

\* Every step of the clients and of the store keeps the invariant.
LEMMA ClientsStep ==
  ASSUME CInv, [ClientsNext]_clientVars
  PROVE  CInv' /\ [Next]_vars
  <1>1. [Next]_vars
    BY StoreSteps
  <1>2. IInv'
    BY <1>1, NextStep DEF CInv
  <1>3. /\ client' = [c \in Clients |-> client'[c]]
        /\ \A c \in Clients : ClientStep(c)
    BY ClientSteps
  <1>4. ASSUME NEW c \in Clients
        PROVE  (ClientRecord(client[c]) /\ Tie(client[c]) /\ Known(client[c], appliedAt[c]))'
    <2>1. PICK new : new = client'[c]
      OBVIOUS
    <2>2. ClientRecord(new) /\ Tie(new)' /\ Known(new, appliedAt'[c])
      BY <1>1, <1>3, <2>1, OneClient
    <2>3. QED
      BY <2>1, <2>2 DEF Tie, ClientRecord, Known, Fields
  <1>5. QED
    BY <1>1, <1>2, <1>3, <1>4 DEF CInv, ClientsOK

\* Before the first call no client has read anything.
LEMMA ClientsBegin ==
  ASSUME ClientsInit
  PROVE  CInv
  <1>1. IInv
    BY InitInv DEF ClientsInit
  <1>2. \A c \in Clients : client[c] = Fresh
    BY DEF ClientsInit
  <1>3. ClientRecord(Fresh) /\ Tie(Fresh) /\ Fresh.commits + Fresh.elsewhere = 0
    BY DEF Fresh, ClientRecord, Fields, Tie
  <1>4. QED
    BY <1>1, <1>2, <1>3 DEF CInv, ClientsOK, ClientsInit, Known

---------------------------------------------------------------------------
(* Theorems.                                                               *)

\* The invariant holds whatever the clients, the other callers, the janitor
\* and the clock do, and however often an answer is lost.
THEOREM ClientsInductive == ClientsSpec => []CInv
  BY ClientsBegin, ClientsStep, PTL DEF ClientsSpec

\* Whatever the clients and their retries do, the store takes its own steps:
\* everything proved of the store holds beside them.
THEOREM ClientsUseStore == ClientsSpec => Spec
  <1>1. ClientsInit => Init
    BY DEF ClientsInit
  <1>2. CInv /\ [ClientsNext]_clientVars => [Next]_vars
    BY ClientsStep
  <1>3. QED
    BY <1>1, <1>2, ClientsInductive, PTL DEF ClientsSpec, Spec

\* A request is carried out at most once on the document it was made for,
\* however often it is sent and whatever became of its idempotency record.
THEOREM AppliedOnce == ClientsSpec => []AppliedOncePerDocument
  <1>1. CInv => AppliedOncePerDocument
    BY DEF CInv, ClientsOK, ClientRecord, AppliedOncePerDocument
  <1>2. QED
    BY <1>1, ClientsInductive, PTL

\* A request carried out on the document its client read replaces the very
\* text that was read: no write that came in between is lost.
THEOREM NoLostUpdate == ClientsSpec => OverwritesWhatWasRead
  <1>1. ASSUME CInv, [ClientsNext]_clientVars, NEW c \in Clients,
               client'[c].commits # client[c].commits
        PROVE  Body(client[c].id) = client[c].body
    <2>1. ClientStep(c) /\ ClientRecord(client[c])
      BY <1>1, ClientSteps DEF CInv, ClientsOK
    <2>2. client[c].commits \in Nat /\ client[c].elsewhere \in Nat /\ Fields(client[c])
      BY <2>1 DEF ClientRecord
    <2>3. ~HasRead(c)
      <3>1. ASSUME NEW path, NEW op, NEW i, client'[c] = Begun(path, op, i),
                   client[c].at = "idle"
            PROVE  FALSE
        <4>1. Begun(path, op, i).commits = 0 /\ Begun(path, op, i).answer = "none"
          BY DEF Begun
        <4>2. QED
          BY <1>1, <2>1, <3>1, <4>1 DEF ClientRecord
      <3>2. QED
        BY <3>1 DEF HasRead
    <2>4. ~HasAnswer(c)
      <3>1. ASSUME NEW answer, client'[c] = Replied(client[c], answer) PROVE FALSE
        BY <1>1, <2>2, <3>1, Replies
      <3>2. QED
        BY <3>1 DEF HasAnswer, Answered, Replied
    <2>5. Pending(c) /\ \E i \in Current(c) :
            client'[c] \in {Counted(c, i), Replied(Counted(c, i), "result")}
      BY <1>1, <2>1, <2>3, <2>4 DEF ClientStep, HasCommitted
    <2>6. PICK i \in Current(c) :
            client'[c] \in {Counted(c, i), Replied(Counted(c, i), "result")}
      BY <2>5
    <2>7. i = client[c].id
      BY <1>1, <2>1, <2>5, <2>6, Counting
    <2>8. QED
      BY <1>1, <2>5, <2>7, CommitFinds
  <1>2. CInv /\ [ClientsNext]_clientVars =>
          [\A c \in Clients : client'[c].commits # client[c].commits =>
             Body(client[c].id) = client[c].body]_clientVars
    BY <1>1
  <1>3. QED
    BY <1>2, ClientsInductive, PTL DEF ClientsSpec, OverwritesWhatWasRead

\* A client whose request was carried out is told of a conflict only when the
\* window of its idempotency record is over.
THEOREM ConflictIsTrue == ClientsSpec => ConflictIsTrueWithinTtl
  <1>1. ASSUME CInv, [ClientsNext]_clientVars, NEW c \in Clients,
               client[c].answer # "conflict", client'[c].answer = "conflict",
               client[c].commits + client[c].elsewhere # 0
        PROVE  appliedAt[c] + Ttl <= now
    <2>1. /\ ClientStep(c) /\ ClientRecord(client[c]) /\ c \in Keys /\ IInv
          /\ Known(client[c], appliedAt[c])
      BY <1>1, ClientSteps, ClientsAssumption DEF CInv, ClientsOK
    <2>2. client[c].commits \in Nat /\ client[c].elsewhere \in Nat /\ Fields(client[c])
      BY <2>1 DEF ClientRecord
    <2>3. ~HasRead(c)
      <3>1. ASSUME NEW path, NEW op, NEW i, client'[c] = Begun(path, op, i) PROVE FALSE
        <4>1. Begun(path, op, i).commits = 0 /\ Begun(path, op, i).answer = "none"
          BY DEF Begun
        <4>2. QED
          BY <1>1, <2>1, <3>1, <4>1
      <3>2. QED
        BY <3>1 DEF HasRead
    <2>4. ~HasCommitted(c)
      BY <1>1, <2>1, Counting DEF HasCommitted
    <2>5. PICK answer : /\ client'[c] = Replied(client[c], answer)
                        /\ answer = "conflict" => KeyFree(c)
                        /\ client[c].at # "idle"
      BY <1>1, <2>1, <2>3, <2>4 DEF ClientStep, HasAnswer, Answered, Replied, Pending
    <2>6. client'[c].answer = answer
      BY <2>2, <2>5, Replies
    <2>7. KeyFree(c) /\ appliedAt[c] # NULL
      BY <1>1, <2>1, <2>2, <2>5, <2>6 DEF Known
    <2>8. KeyRecord(expiry[c], appliedAt[c], now)
      BY <2>1 DEF IInv, KeyRecords
    <2>9. QED
      BY <2>7, <2>8 DEF KeyFree, KeyRecord
  <1>2. CInv /\ [ClientsNext]_clientVars =>
          [\A c \in Clients :
             client[c].answer # "conflict" /\ client'[c].answer = "conflict" =>
               client[c].commits + client[c].elsewhere = 0 \/ appliedAt[c] + Ttl <= now]_clientVars
    BY <1>1
  <1>3. QED
    BY <1>2, ClientsInductive, PTL DEF ClientsSpec, ConflictIsTrueWithinTtl
================================================================================
