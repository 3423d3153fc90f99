--------------------------- MODULE MemoryBrowserProofs ---------------------------
(***************************************************************************)
(* The memory browser, for every number of paths, of calls under way and   *)
(* of events: what it shows is one document of its own agent, a text is    *)
(* appended once, and nothing that was not shown is overwritten.           *)
(***************************************************************************)
EXTENDS MemoryBrowser, TLAPS

\* The invariant of the induction: an answer that waits carries one document, too (CallOK).
IInv == TypeOK /\ ViewIsOneDocument /\ ShownIsOwn /\ SavingIsAwaited

-----------------------------------------------------------------------------
\* The assumptions on the constants, as the steps need them.
LEMMA Constants ==
  /\ Places \in Nat /\ MaxPieces \in Nat /\ MaxClicks \in Nat
  /\ First \in Paths /\ None \notin Paths /\ None \notin Nat
BY BoundAssumption, NoneAssumption

\* What the pieces of a text are.
LEMMA RangeOfText ==
  ASSUME NEW text \in Texts
  PROVE  Range(text) \subseteq Nat \ {0}
BY DEF Texts, Range

\* The app that has read nothing yet satisfies the invariant.
LEMMA InitInvariant == Init => IInv
<1> SUFFICES ASSUME Init PROVE IInv
  OBVIOUS
<1>1. <<1>> \in Texts /\ <<>> \in Texts
  BY DEF Texts
<1>2. Document(1, <<1>>, 1) \in Documents
  BY <1>1 DEF Document, Documents
<1>3. view \in Views
  BY <1>1, Constants DEF Init, Views, Snapshots, Keys
<1>4. TypeOK
  BY <1>2, <1>3, Constants DEF Init, TypeOK, Keys
<1>5. ViewIsOneDocument /\ ShownIsOwn /\ SavingIsAwaited
  BY DEF Init, ViewIsOneDocument, ShownIsOwn, SavingIsAwaited
<1> QED
  BY <1>4, <1>5 DEF IInv

\* The user's actions that make no call keep what is shown and what is awaited.
LEMMA LocalStep ==
  ASSUME IInv, NEW v \in Views, OneDocument(v), v.saving = view.saving,
         view' = v, UNCHANGED <<docs, session, record, call, told>>,
         seen' \subseteq Nat, Foreign \notin seen',
         count' \in [pieces : Nat, clicks : Keys, outside : Nat]
  PROVE  IInv'
<1>1. TypeOK'
  BY DEF IInv, TypeOK
<1>2. ViewIsOneDocument' /\ ShownIsOwn' /\ SavingIsAwaited'
  BY DEF IInv, ViewIsOneDocument, ShownIsOwn, SavingIsAwaited, OneDocument
<1> QED
  BY <1>1, <1>2 DEF IInv

\* Typing keeps the invariant.
LEMMA TypingStep == IInv /\ (TypeDraft \/ TypeAppend) => IInv'
<1> SUFFICES ASSUME IInv, TypeDraft \/ TypeAppend PROVE IInv'
  OBVIOUS
<1> DEFINE n == count.pieces + 1
           change == IF TypeDraft THEN [view EXCEPT !.draft = Append(@, n)]
                     ELSE [view EXCEPT !.append = <<n>>]
<1>1. n \in Nat \ {0}
  BY DEF IInv, TypeOK
<1>2. view \in Views /\ ViewIsOneDocument
  BY DEF IInv, TypeOK
<1>3. Append(view.draft, n) \in Texts /\ <<n>> \in Texts
  BY <1>1, <1>2 DEF Views, Texts
<1>4. change \in Views /\ OneDocument(change) /\ change.saving = view.saving
  BY <1>2, <1>3 DEF Views, OneDocument, ViewIsOneDocument
<1>5. /\ view' = change /\ UNCHANGED <<docs, session, record, call, told>>
      /\ seen' = seen \cup {n} /\ count' = [count EXCEPT !.pieces = @ + 1]
  BY DEF TypeDraft, TypeAppend, Typed
<1>6. count' \in [pieces : Nat, clicks : Keys, outside : Nat]
  BY <1>5 DEF IInv, TypeOK
<1>7. seen' \subseteq Nat /\ Foreign \notin seen'
  BY <1>1, <1>5 DEF IInv, TypeOK, ShownIsOwn, Foreign
<1> HIDE DEF n, change
<1> QED
  BY <1>4, <1>5, <1>6, <1>7, LocalStep

\* Opening the editor, leaving it and naming a new file keep the invariant.
LEMMA EditingStep == IInv /\ (Edit \/ CancelEdit \/ \E p \in Paths : NewFile(p)) => IInv'
<1> SUFFICES ASSUME IInv, Edit \/ CancelEdit \/ \E p \in Paths : NewFile(p) PROVE IInv'
  OBVIOUS
<1>1. view \in Views /\ ViewIsOneDocument
  BY DEF IInv, TypeOK
<1>2. view.selected.text \in Texts /\ <<>> \in Texts
  <2>1. <<>> \in Texts
    BY DEF Texts
  <2>2. view.selected = Nothing \/ view.selected.text \in Texts
    BY <1>1 DEF Views, Snapshots
  <2> QED
    BY <2>1, <2>2 DEF Nothing
<1>3. /\ view' \in Views /\ OneDocument(view') /\ view'.saving = view.saving
      /\ UNCHANGED <<docs, session, record, call, seen, told, count>>
  <2>1. CASE Edit
    BY <1>1, <2>1 DEF Edit, Local, Views, OneDocument, ViewIsOneDocument
  <2>2. CASE CancelEdit /\ view.version = None
    <3>1. view.selected = Nothing
      BY <1>1, <2>2, Constants DEF ViewIsOneDocument, Views, Snapshots
    <3> QED
      BY <1>1, <1>2, <2>2, <3>1 DEF CancelEdit, Local, Views, OneDocument
  <2>3. CASE CancelEdit /\ view.version # None
    BY <1>1, <1>2, <2>3 DEF CancelEdit, Local, Views, OneDocument, ViewIsOneDocument
  <2>4. CASE \E p \in Paths : NewFile(p)
    <3>1. PICK p \in Paths : NewFile(p)
      BY <2>4
    <3> QED
      BY <1>1, <1>2, <3>1 DEF NewFile, Local, Views, OneDocument, Snapshots
  <2> QED
    BY <2>1, <2>2, <2>3, <2>4
<1>4. /\ seen' \subseteq Nat /\ Foreign \notin seen'
      /\ count' \in [pieces : Nat, clicks : Keys, outside : Nat]
  BY <1>3 DEF IInv, TypeOK, ShownIsOwn
<1> QED
  BY <1>3, <1>4, LocalStep

\* A click sends a call about the document shown and keeps the invariant.
LEMMA ClickStep ==
  ASSUME IInv, NEW c \in Calls, NEW tool \in Mutations \cup Looks,
         NEW p \in Paths \cup {None}, tool # "list" => p \in Paths, NEW content \in Texts,
         NEW next, next = IF tool \in Mutations THEN Saving ELSE view,
         Click(c, tool, p, content, next)
  PROVE  IInv'
<1>1. view \in Views /\ ViewIsOneDocument /\ SavingIsAwaited
  BY DEF IInv, TypeOK
<1>2. view' = next /\ view' \in Views /\ view'.selected = view.selected
      /\ view'.path = view.path /\ view'.version = view.version
  BY <1>1 DEF Click, Saving, Views
<1> DEFINE r == [tool |-> tool, path |-> p, content |-> content, version |-> view.version,
                 key |-> view.key, of |-> view.selected.born, at |-> "sent",
                 heard |-> TRUE, answer |-> None]
<1>3. call' = [call EXCEPT ![c] = r] /\ call \in [Calls -> {None} \cup CallRecords]
  BY DEF Click, IInv, TypeOK
<1>4. view.selected.born \in Nat \cup {None}
  BY <1>1 DEF Views, Snapshots, Nothing
<1>5. r \in CallRecords
  BY <1>1, <1>4 DEF CallRecords, Views
<1>6. CallOK(r) /\ r # None
  BY <1>5, NoneAssumption DEF CallOK
<1>7. TypeOK'
  <2>1. call' \in [Calls -> {None} \cup CallRecords]
        /\ \A d \in Calls : call'[d] # None => CallOK(call'[d])
    <3> HIDE DEF r
    <3> QED
      BY <1>3, <1>5, <1>6 DEF IInv, TypeOK
  <2>2. count' \in [pieces : Nat, clicks : Keys, outside : Nat]
    BY Constants DEF Click, IInv, TypeOK, Keys
  <2> QED
    BY <1>2, <2>1, <2>2 DEF TypeOK, IInv, Click
<1>8. SavingIsAwaited'
  <2>1. CASE tool \in Mutations
    BY <1>3, <1>6, <2>1 DEF SavingIsAwaited
  <2>2. CASE tool \notin Mutations
    <3>1. call[c] = None /\ view' = view
      BY <2>2 DEF Click
    <3> HIDE DEF r
    <3> QED
      BY <1>1, <1>3, <3>1 DEF SavingIsAwaited
  <2> QED
    BY <2>1, <2>2
<1>9. ViewIsOneDocument' /\ ShownIsOwn'
  BY <1>1, <1>2 DEF ViewIsOneDocument, ShownIsOwn, IInv, Click
<1> QED
  BY <1>7, <1>8, <1>9 DEF IInv

\* Every step of the user keeps the invariant.
LEMMA UserStep == ASSUME NEW c \in Calls PROVE IInv /\ UserNext(c) => IInv'
<1> SUFFICES ASSUME IInv, UserNext(c) PROVE IInv'
  OBVIOUS
<1>1. /\ view \in Views /\ view.path \in Paths \cup {None}
      /\ view.draft \in Texts /\ view.append \in Texts /\ <<>> \in Texts
  BY DEF IInv, TypeOK, Views, Texts
<1>2. CASE LoadDirectory(c)
  BY <1>1, <1>2, ClickStep DEF LoadDirectory, Looks, Mutations
<1>3. CASE \E p \in Paths : OpenDocument(c, p)
  BY <1>1, <1>3, ClickStep DEF OpenDocument, Looks, Mutations
<1>4. CASE Save(c)
  BY <1>1, <1>4, ClickStep DEF Save, Mutations
<1>5. CASE AppendText(c)
  BY <1>1, <1>5, ClickStep DEF AppendText, HasVersion, Mutations
<1>6. CASE ConfirmDelete(c)
  BY <1>1, <1>6, ClickStep DEF ConfirmDelete, HasVersion, Mutations
<1> QED
  BY <1>2, <1>3, <1>4, <1>5, <1>6 DEF UserNext

\* The server's part of a call changes nothing that the app shows or waits for.
LEMMA ServerStep ==
  ASSUME IInv, NEW c \in Calls, call[c] # None, NEW r \in {None} \cup CallRecords,
         r # None => CallOK(r),
         call[c].heard => r # None /\ r.heard /\ r.tool = call[c].tool,
         call' = [call EXCEPT ![c] = r],
         docs' \in [Paths -> {None} \cup Documents],
         record' \in [Keys -> {None} \cup Records],
         UNCHANGED <<session, view, seen, told, count>>
  PROVE  IInv'
<1>1. call \in [Calls -> {None} \cup CallRecords]
  BY DEF IInv, TypeOK
<1>2. TypeOK'
  BY <1>1 DEF IInv, TypeOK
<1>3. SavingIsAwaited'
  BY <1>1 DEF IInv, SavingIsAwaited
<1> QED
  BY <1>2, <1>3 DEF IInv, ViewIsOneDocument, ShownIsOwn

\* A tool that carries its request out keeps the invariant.
LEMMA ExecuteStep == ASSUME NEW c \in Calls PROVE IInv /\ Execute(c) => IInv'
<1> SUFFICES ASSUME IInv, Execute(c) PROVE IInv'
  OBVIOUS
<1> DEFINE r == call[c]
<1>1. /\ r \in CallRecords /\ r.path \in Paths /\ r.key \in Keys /\ r.content \in Texts
      /\ r.tool \in Mutations
  BY DEF IInv, TypeOK, Execute, CallOK, CallRecords, Mutations
<1>2. /\ docs \in [Paths -> {None} \cup Documents]
      /\ record \in [Keys -> {None} \cup Records]
  BY DEF IInv, TypeOK
<1>3. Request(r) \in Requests
  BY <1>1 DEF Request, Requests, CallRecords
<1>4. ResultVersion(r) \in Nat
  BY <1>1, <1>2 DEF ResultVersion, Documents
<1>5. Written(r) \in {None} \cup Documents
  <2>1. CASE r.tool = "delete"
    BY <2>1 DEF Written
  <2>2. CASE r.tool # "delete" /\ docs[r.path] = None
    <3>1. CreatedBy(r.key) \in Nat \ {0}
      BY <1>1, Constants DEF CreatedBy, Keys
    <3> QED
      BY <1>1, <2>2, <3>1 DEF Written, Document, Documents
  <2>3. CASE r.tool # "delete" /\ docs[r.path] # None
    <3>1. docs[r.path] \in Documents
      BY <1>1, <1>2, <2>3
    <3>2. docs[r.path].text \o r.content \in Texts
      BY <1>1, <3>1 DEF Documents, Texts
    <3>3. Document(docs[r.path].version + 1, docs[r.path].text \o r.content,
                   docs[r.path].born) \in Documents
      BY <3>1, <3>2 DEF Document, Documents
    <3>4. Document(docs[r.path].version + 1, r.content, docs[r.path].born) \in Documents
      BY <1>1, <3>1 DEF Document, Documents
    <3> QED
      BY <2>3, <3>3, <3>4 DEF Written
  <2> QED
    BY <2>1, <2>2, <2>3
<1> DEFINE answered(outcome, version) ==
             [r EXCEPT !.at = "refresh", !.answer = [outcome |-> outcome, version |-> version]]
<1>6. ASSUME NEW outcome \in Outcomes, NEW version \in Nat \cup {None}
      PROVE  /\ answered(outcome, version) \in CallRecords
             /\ CallOK(answered(outcome, version))
             /\ answered(outcome, version).heard = r.heard
             /\ answered(outcome, version).tool = r.tool
  <2>1. [outcome |-> outcome, version |-> version] \in Results
    BY DEF Results
  <2>2. answered(outcome, version) \in CallRecords
    BY <1>1, <2>1 DEF CallRecords
  <2> QED
    BY <1>1, <2>1, <2>2 DEF CallOK, CallRecords, Looks, Mutations
<1>7. PICK outcome \in Outcomes, version \in Nat \cup {None} :
        /\ call' = [call EXCEPT ![c] = IF ~r.heard THEN None ELSE answered(outcome, version)]
        /\ docs' \in [Paths -> {None} \cup Documents]
        /\ record' \in [Keys -> {None} \cup Records]
        /\ UNCHANGED <<session, view, seen, told, count>>
  <2>1. CASE Outcome(r) = "ok"
    <3>1. /\ call' = [call EXCEPT ![c] = IF ~r.heard THEN None
                                        ELSE answered("ok", ResultVersion(r))]
          /\ docs' = [docs EXCEPT ![r.path] = Written(r)]
          /\ record' = [record EXCEPT ![r.key] =
                          [request |-> Request(r), version |-> ResultVersion(r)]]
          /\ UNCHANGED <<session, view, seen, told, count>>
      BY <2>1 DEF Execute
    <3> HIDE DEF answered
    <3> QED
      BY <1>1, <1>2, <1>3, <1>4, <1>5, <3>1 DEF Outcomes, Records
  <2>2. CASE Outcome(r) # "ok"
    <3> DEFINE version == IF Outcome(r) = "replay" THEN record[r.key].version ELSE None
    <3>1. /\ call' = [call EXCEPT ![c] = IF ~r.heard THEN None ELSE answered(Outcome(r), version)]
          /\ Outcome(r) \in Outcomes
          /\ UNCHANGED <<docs, record, session, view, seen, told, count>>
      BY <2>2 DEF Execute, Outcomes
    <3>2. version \in Nat \cup {None}
      <4>1. Outcome(r) = "replay" => record[r.key] # None
        BY <2>2 DEF Outcome
      <4> QED
        BY <1>1, <1>2, <4>1 DEF Records
    <3> HIDE DEF answered, version
    <3> QED
      BY <1>2, <3>1, <3>2
  <2> QED
    BY <2>1, <2>2
<1> DEFINE next == IF ~r.heard THEN None ELSE answered(outcome, version)
<1>8. /\ next \in {None} \cup CallRecords /\ (next # None => CallOK(next))
      /\ r.heard => next # None /\ next.heard /\ next.tool = r.tool
  <2> HIDE DEF answered
  <2> QED
    BY <1>6, NoneAssumption
<1> QED
  <2>1. call[c] # None
    BY DEF Execute
  <2> HIDE DEF next, r
  <2> QED
    BY <1>7, <1>8, <2>1, ServerStep DEF next, r

\* A tool that looks a document up keeps the invariant.
LEMMA LookStep == ASSUME NEW c \in Calls PROVE IInv /\ Look(c) => IInv'
<1> SUFFICES ASSUME IInv, Look(c) PROVE IInv'
  OBVIOUS
<1> DEFINE r == call[c]
           answer == IF r.tool = "list" THEN Nothing ELSE Snapshot(r.path, docs[r.path])
           next == [r EXCEPT !.at = "answered", !.answer = answer]
<1>1. /\ r \in CallRecords /\ CallOK(r) /\ r # None /\ r.tool \in Looks
      /\ r.tool = "read" => r.path \in Paths /\ docs[r.path] \in Documents
  BY DEF IInv, TypeOK, Look, CallOK, Looks
<1>2. answer \in Snapshots
  BY <1>1 DEF Looks, Snapshots, Snapshot, Documents
<1>3. next \in CallRecords /\ next.heard = r.heard /\ next.tool = r.tool
  BY <1>1, <1>2 DEF CallRecords
<1>4. CallOK(next)
  BY <1>1, <1>2, <1>3 DEF CallOK, CallRecords, Looks, Mutations
<1>5. call' = [call EXCEPT ![c] = next] /\ UNCHANGED <<docs, session, record, view, seen, told, count>>
  <2>1. call \in [Calls -> {None} \cup CallRecords]
    BY DEF IInv, TypeOK
  <2> QED
    BY <1>1, <2>1 DEF Look
<1> HIDE DEF next, r
<1> QED
  BY <1>1, <1>3, <1>4, <1>5, NoneAssumption, ServerStep DEF r, IInv, TypeOK

\* What was read back, and the answer built from it, is of one document.
LEMMA ResponseOK ==
  ASSUME NEW r \in CallRecords, r.path \in Paths, r.answer \in Results,
         NEW doc \in Snapshots, doc # Nothing => doc.path = r.path,
         r.tool = "delete" /\ r.answer.outcome \in {"ok", "replay"} => doc = Nothing
  PROVE  MutationResponse(r, doc) \in Responses /\ OneDocument(MutationResponse(r, doc))
<1>1. doc.text \in Texts /\ r.content \in Texts /\ <<>> \in Texts
  <2>1. <<>> \in Texts
    BY DEF Texts
  <2>2. doc = Nothing \/ doc.text \in Texts
    BY DEF Snapshots
  <2> QED
    BY <2>1, <2>2 DEF Nothing, CallRecords
<1>2. /\ r.answer.outcome \in Outcomes /\ r.answer.version \in Nat \cup {None}
      /\ r.version \in Nat \cup {None} /\ (doc # Nothing => doc.version \in Nat)
  BY DEF Results, CallRecords, Snapshots
<1>3. MutationResponse(r, doc) \in Responses
  BY <1>1, <1>2 DEF MutationResponse, Responses
<1> QED
  BY <1>3 DEF MutationResponse, OneDocument

\* A tool that reads back for its answer keeps the invariant.
LEMMA RefreshStep == ASSUME NEW c \in Calls PROVE IInv /\ Refresh(c) => IInv'
<1> SUFFICES ASSUME IInv, Refresh(c) PROVE IInv'
  OBVIOUS
<1> DEFINE r == call[c]
           doc == IF r.tool = "delete" /\ r.answer.outcome \in {"ok", "replay"}
                  THEN Nothing ELSE ReadBack(r.path)
           answer == MutationResponse(r, doc)
           next == [r EXCEPT !.at = "answered", !.answer = answer]
<1>1. /\ r \in CallRecords /\ CallOK(r) /\ r # None
      /\ r.tool \in Mutations /\ r.path \in Paths /\ r.answer \in Results
  BY DEF IInv, TypeOK, Refresh, CallOK, CallRecords, Looks, Mutations
<1>2. ReadBack(r.path) \in Snapshots /\ (ReadBack(r.path) # Nothing => ReadBack(r.path).path = r.path)
  BY <1>1 DEF ReadBack, Snapshots, Snapshot, IInv, TypeOK, Documents
<1>3. doc \in Snapshots /\ (doc # Nothing => doc.path = r.path)
  BY <1>2 DEF Snapshots
<1>4. answer \in Responses /\ OneDocument(answer)
  BY <1>1, <1>3, ResponseOK
<1> HIDE DEF doc, answer
<1>5. next \in CallRecords /\ next.heard = r.heard /\ next.tool = r.tool
  BY <1>1, <1>4 DEF CallRecords
<1>6. CallOK(next)
  BY <1>1, <1>4, <1>5 DEF CallOK, CallRecords, Looks, Mutations
<1>7. call' = [call EXCEPT ![c] = next] /\ UNCHANGED <<docs, session, record, view, seen, told, count>>
  <2>1. call \in [Calls -> {None} \cup CallRecords]
    BY DEF IInv, TypeOK
  <2> QED
    BY <1>1, <2>1 DEF Refresh, doc, answer
<1> HIDE DEF next, r
<1> QED
  BY <1>1, <1>5, <1>6, <1>7, NoneAssumption, ServerStep DEF r, IInv, TypeOK

\* A call that ends leaves the calls that others wait for.
LEMMA CallEnds ==
  ASSUME IInv, NEW c \in Calls, call' = [call EXCEPT ![c] = None],
         \/ call[c].tool \notin Mutations /\ view'.saving = view.saving
         \/ view'.saving = FALSE
  PROVE  SavingIsAwaited'
BY DEF IInv, TypeOK, SavingIsAwaited

\* An answer that arrives keeps the invariant.
LEMMA DeliverStep == ASSUME NEW c \in Calls PROVE IInv /\ Deliver(c) => IInv'
<1> SUFFICES ASSUME IInv, Deliver(c) PROVE IInv'
  OBVIOUS
<1> DEFINE r == call[c]
<1>1. /\ CallOK(r) /\ r.tool \in Mutations \cup Looks /\ view \in Views
      /\ view' = Applied(r) /\ r.at = "answered"
      /\ count.clicks \in Keys /\ <<>> \in Texts
  BY DEF IInv, TypeOK, CallOK, CallRecords, Deliver, Texts
<1>2. /\ view' \in Views /\ OneDocument(view')
      /\ \/ r.tool \notin Mutations /\ view'.saving = view.saving
         \/ view'.saving = FALSE
  <2>1. CASE r.tool \in Looks
    <3>1. r.answer \in Snapshots
      BY <1>1, <2>1 DEF CallOK
    <3>2. /\ r.answer.path \in Paths \cup {None} /\ r.answer.version \in Nat \cup {None}
          /\ r.answer.text \in Texts
      BY <1>1, <3>1 DEF Snapshots, Nothing
    <3>3. view' = [view EXCEPT !.selected = r.answer, !.path = r.answer.path,
                     !.draft = r.answer.text, !.append = <<>>,
                     !.version = r.answer.version, !.editing = FALSE]
      BY <1>1, <2>1 DEF Applied, Looks
    <3>4. r.tool \notin Mutations
      BY <2>1 DEF Looks, Mutations
    <3>5. /\ view'.selected = r.answer /\ view'.path = r.answer.path
          /\ view'.version = r.answer.version /\ view'.saving = view.saving
      BY <1>1, <3>3 DEF Views
    <3>6. view' \in Views
      BY <1>1, <3>1, <3>2, <3>3 DEF Views
    <3> QED
      BY <3>4, <3>5, <3>6 DEF OneDocument
  <2>2. CASE r.tool \in Mutations
    <3>1. r.answer \in Responses /\ OneDocument(r.answer)
      BY <1>1, <2>2 DEF CallOK
    <3> DEFINE editing == CASE r.tool = "save" -> r.answer.outcome \notin {"ok", "replay"}
                            [] r.tool = "delete" -> FALSE
                            [] OTHER -> view.editing
    <3>2. view' = [selected |-> r.answer.selected, path |-> r.answer.path,
                   draft |-> r.answer.draft, append |-> r.answer.append,
                   version |-> r.answer.version, saving |-> FALSE, key |-> count.clicks,
                   editing |-> editing]
      BY <1>1, <2>2 DEF Applied, Mutations
    <3>3. editing \in BOOLEAN
      BY <1>1, <2>2 DEF Mutations, Views
    <3> HIDE DEF editing
    <3> QED
      BY <1>1, <3>1, <3>2, <3>3 DEF Views, OneDocument, Responses
  <2> QED
    BY <1>1, <2>1, <2>2
<1>3. call' = [call EXCEPT ![c] = None] /\ seen' = seen \cup Range(view'.selected.text)
      /\ UNCHANGED <<docs, session, record, count>>
  BY DEF Deliver
<1>4. Range(view'.selected.text) \subseteq Nat \ {0}
  <2>1. view'.selected = Nothing \/ view'.selected.text \in Texts
    BY <1>2 DEF Views, Snapshots
  <2>2. <<>> \in Texts
    BY <1>1
  <2> QED
    BY <2>1, <2>2, RangeOfText DEF Nothing
<1>5. TypeOK'
  <2>1. r.content \in Texts /\ told \subseteq Nat
    BY <1>1 DEF IInv, TypeOK, CallOK, CallRecords
  <2>2. told' \subseteq Nat
    BY <2>1, RangeOfText DEF Deliver
  <2> QED
    BY <1>2, <1>3, <1>4, <2>2 DEF IInv, TypeOK
<1>6. SavingIsAwaited'
  BY <1>2, <1>3, CallEnds
<1>7. ViewIsOneDocument' /\ ShownIsOwn'
  BY <1>2, <1>3, <1>4 DEF IInv, ViewIsOneDocument, OneDocument, ShownIsOwn, Foreign
<1> QED
  BY <1>5, <1>6, <1>7 DEF IInv

\* A call whose answer is given up keeps the invariant.
LEMMA GiveUpStep == ASSUME NEW c \in Calls PROVE IInv /\ GiveUp(c) => IInv'
<1> SUFFICES ASSUME IInv, GiveUp(c) PROVE IInv'
  OBVIOUS
<1> DEFINE r == call[c]
<1>1. /\ r \in CallRecords /\ CallOK(r) /\ view \in Views /\ view' = AfterError(r)
      /\ UNCHANGED <<docs, session, record, seen, told, count>>
  BY DEF IInv, TypeOK, GiveUp
<1>2. /\ view' \in Views /\ view'.selected = view.selected
      /\ view'.path = view.path /\ view'.version = view.version
      /\ \/ r.tool \notin Mutations /\ view'.saving = view.saving
         \/ view'.saving = FALSE
  BY <1>1 DEF AfterError, Views
<1>3. ViewIsOneDocument' /\ ShownIsOwn'
  BY <1>1, <1>2 DEF IInv, ViewIsOneDocument, ShownIsOwn
<1>4. CASE call' = [call EXCEPT ![c] = None]
  <2>1. TypeOK'
    BY <1>1, <1>2, <1>4 DEF IInv, TypeOK
  <2> QED
    BY <1>2, <1>3, <1>4, <2>1, CallEnds DEF IInv
<1>5. CASE r.at = "sent" /\ r.tool \in Mutations /\ call' = [call EXCEPT ![c].heard = FALSE]
  <2> DEFINE next == [r EXCEPT !.heard = FALSE]
  <2>1. next \in CallRecords
    BY <1>1 DEF CallRecords
  <2>2. CallOK(next)
    BY <1>1, <1>5, <2>1 DEF CallOK, CallRecords, Looks, Mutations
  <2>3. call' = [call EXCEPT ![c] = next] /\ call \in [Calls -> {None} \cup CallRecords]
    BY <1>5 DEF IInv, TypeOK
  <2>4. TypeOK'
    <3> HIDE DEF next
    <3> QED
      BY <1>1, <1>2, <2>1, <2>2, <2>3 DEF IInv, TypeOK
  <2>5. SavingIsAwaited'
    BY <1>2, <1>5 DEF SavingIsAwaited
  <2> QED
    BY <1>3, <2>4, <2>5 DEF IInv
<1> QED
  BY <1>4, <1>5 DEF GiveUp

\* A switch of agents and what others write keep the invariant.
LEMMA OutsideStep == IInv /\ (Switch \/ \E p \in Paths : Others(p) \/ OthersDelete(p)) => IInv'
<1> SUFFICES ASSUME IInv, Switch \/ \E p \in Paths : Others(p) \/ OthersDelete(p) PROVE IInv'
  OBVIOUS
<1>1. UNCHANGED <<record, call, view, seen, told>>
  BY DEF Switch, Others, OthersDelete
<1>2. docs \in [Paths -> {None} \cup Documents] /\ session \in BOOLEAN
      /\ count \in [pieces : Nat, clicks : Keys, outside : Nat]
  BY DEF IInv, TypeOK
<1>3. count' \in [pieces : Nat, clicks : Keys, outside : Nat] /\ session' \in BOOLEAN
  <2>1. CASE Switch
    BY <1>2, <2>1 DEF Switch
  <2>2. ASSUME NEW p \in Paths, OthersDelete(p)
        PROVE  count' = [count EXCEPT !.outside = @ + 1] /\ UNCHANGED session
    BY <2>2 DEF OthersDelete
  <2>3. ASSUME NEW p \in Paths, Others(p)
        PROVE  /\ count' = [pieces |-> count.pieces + 1, clicks |-> count.clicks,
                            outside |-> count.outside + 1]
               /\ UNCHANGED session
    BY <2>3 DEF Others
  <2>4. [count EXCEPT !.outside = @ + 1] \in [pieces : Nat, clicks : Keys, outside : Nat]
    BY <1>2
  <2>5. [pieces |-> count.pieces + 1, clicks |-> count.clicks, outside |-> count.outside + 1]
          \in [pieces : Nat, clicks : Keys, outside : Nat]
    BY <1>2
  <2> QED
    BY <1>2, <2>1, <2>2, <2>3, <2>4, <2>5
<1>4. docs' \in [Paths -> {None} \cup Documents]
  <2>1. CASE Switch
    BY <1>2, <2>1 DEF Switch
  <2>2. ASSUME NEW p \in Paths, OthersDelete(p) PROVE docs' \in [Paths -> {None} \cup Documents]
    BY <1>2, <2>2 DEF OthersDelete
  <2>3. ASSUME NEW p \in Paths, Others(p) PROVE docs' \in [Paths -> {None} \cup Documents]
    <3> DEFINE n == count.pieces + 1
               doc == IF docs[p] = None THEN Document(1, <<n>>, n)
                      ELSE Document(docs[p].version + 1, Append(docs[p].text, n),
                                    docs[p].born)
    <3>1. n \in Nat \ {0} /\ docs' = [docs EXCEPT ![p] = doc]
      <4>1. n \in Nat \ {0}
        BY <1>2
      <4>2. docs' = [docs EXCEPT ![p] = doc]
        BY <2>3 DEF Others
      <4> QED
        BY <4>1, <4>2
    <3>2. CASE docs[p] = None
      <4>1. <<n>> \in Texts
        BY <3>1 DEF Texts
      <4>2. Document(1, <<n>>, n) \in Documents
        BY <3>1, <4>1 DEF Document, Documents
      <4> QED
        BY <1>2, <3>1, <3>2, <4>2
    <3>3. CASE docs[p] # None
      <4>1. docs[p] \in Documents
        BY <1>2, <3>3
      <4>2. Append(docs[p].text, n) \in Texts
        BY <3>1, <4>1 DEF Documents, Texts
      <4>3. doc \in Documents
        BY <3>3, <4>1, <4>2 DEF Document, Documents
      <4> HIDE DEF doc
      <4> QED
        BY <1>2, <3>1, <4>3
    <3> QED
      BY <3>2, <3>3
  <2> QED
    BY <2>1, <2>2, <2>3
<1> QED
  BY <1>1, <1>3, <1>4 DEF IInv, TypeOK, ViewIsOneDocument, ShownIsOwn, SavingIsAwaited

\* Every step keeps the invariant.
LEMMA StepInvariant == IInv /\ [Next]_vars => IInv'
<1> SUFFICES ASSUME IInv, [Next]_vars PROVE IInv'
  OBVIOUS
<1>1. CASE Next
  <2>1. ASSUME NEW c \in Calls, CallNext(c) PROVE IInv'
    BY <2>1, ExecuteStep, RefreshStep, LookStep, DeliverStep, GiveUpStep DEF CallNext
  <2> QED
    BY <1>1, <2>1, TypingStep, EditingStep, UserStep, OutsideStep DEF Next
<1>2. CASE UNCHANGED vars
  BY <1>2 DEF vars, IInv, TypeOK, ViewIsOneDocument, ShownIsOwn, SavingIsAwaited
<1> QED
  BY <1>1, <1>2

\* In every reachable state what the app shows is of one document and of its own
\* agent, and so is every answer under way.
THEOREM Invariance == Spec => []IInv
BY InitInvariant, StepInvariant, PTL DEF Spec

-----------------------------------------------------------------------------
\* The records that the app, its calls and the server keep have their types.
THEOREM TypeCorrect == Spec => []TypeOK
<1>1. IInv => TypeOK
  BY DEF IInv
<1> QED
  BY <1>1, Invariance, PTL

\* Path and version in the app are those of the document it shows.
THEOREM OneDocumentShown == Spec => []ViewIsOneDocument
<1>1. IInv => ViewIsOneDocument
  BY DEF IInv
<1> QED
  BY <1>1, Invariance, PTL

\* Nothing of another agent is ever shown, although the session may come to stand for it.
THEOREM OwnShown == Spec => []ShownIsOwn
<1>1. IInv => ShownIsOwn
  BY DEF IInv
<1> QED
  BY <1>1, Invariance, PTL

\* The buttons never wait for a call that has ended.
THEOREM ButtonsComeBack == Spec => []SavingIsAwaited
<1>1. IInv => SavingIsAwaited
  BY DEF IInv
<1> QED
  BY <1>1, Invariance, PTL

-----------------------------------------------------------------------------
(* Appends that may still be carried out, and texts that allow it. *)

SentBy(r) == [key |-> r.key, request |-> Request(r)]

\* What a click on "Append" would send now.
Ready(v) ==
  [key |-> v.key,
   request |-> [tool |-> "append", path |-> v.path, content |-> v.append, version |-> v.version]]

IsAppend(c) == call[c] # None /\ call[c].tool = "append"

Sending ==
  {SentBy(call[c]) : c \in {d \in Calls : IsAppend(d)}}
    \cup (IF view.append = <<>> THEN {} ELSE {Ready(view)})

Appends == [pieces |-> 1 .. count.pieces, told |-> told, sending |-> Sending, record |-> record]

Done(s, a) == a.record[s.key] # None /\ a.record[s.key].request = s.request

\* A text that holds each piece once, and of what is being sent only what is recorded.
Clean(text, a) ==
  /\ Range(text) \subseteq a.pieces
  /\ \A i, j \in DOMAIN text : text[i] = text[j] => i = j \/ text[i] \in a.told
  /\ \A s \in a.sending :
       Range(text) \cap Range(s.request.content) \subseteq a.told \/ Done(s, a)

\* Different requests append different pieces.
Distinct(a) ==
  /\ \A s \in a.sending : \E n \in a.pieces : s.request.content = <<n>>
  /\ \A s, u \in a.sending :
       s = u \/ Range(s.request.content) \cap Range(u.request.content) \subseteq a.told

Fresh(s, a, b) ==
  \E n \in b.pieces : s.request.content = <<n>> /\ (n \notin a.pieces \/ n \in b.told)

\* How a step changes the appends: at most one is new, and of a new piece or one the
\* user was told about.
Grown(a, b) ==
  /\ a.pieces \subseteq b.pieces /\ a.told \subseteq b.told
  /\ \A s \in a.sending : Done(s, a) => Done(s, b)
  /\ \A s \in b.sending : s \in a.sending \/ Fresh(s, a, b)
  /\ \A s, u \in b.sending : s \in a.sending \/ u \in a.sending \/ s = u

\* The range of a sequence of one.
LEMMA RangeOfOne == ASSUME NEW n PROVE Range(<<n>>) = {n}
BY DEF Range

\* A text stays clean when the appends grow.
LEMMA CleanStays ==
  ASSUME NEW a, NEW b, Grown(a, b), NEW text, Clean(text, a)
  PROVE  Clean(text, b)
<1>1. ASSUME NEW s \in b.sending
      PROVE  Range(text) \cap Range(s.request.content) \subseteq b.told \/ Done(s, b)
  <2>1. CASE s \in a.sending
    BY <2>1 DEF Grown, Clean
  <2>2. CASE Fresh(s, a, b)
    <3>1. PICK n \in b.pieces : s.request.content = <<n>> /\ (n \notin a.pieces \/ n \in b.told)
      BY <2>2 DEF Fresh
    <3>2. Range(s.request.content) = {n}
      BY <3>1, RangeOfOne
    <3> QED
      BY <3>1, <3>2 DEF Clean
  <2> QED
    BY <2>1, <2>2 DEF Grown
<1> QED
  BY <1>1 DEF Clean, Grown

\* Appends stay distinct when they grow.
LEMMA DistinctStays ==
  ASSUME NEW a, NEW b, Grown(a, b), Distinct(a)
  PROVE  Distinct(b)
<1>1. ASSUME NEW s \in b.sending PROVE \E n \in b.pieces : s.request.content = <<n>>
  BY DEF Grown, Distinct, Fresh
<1>2. ASSUME NEW s \in a.sending, NEW u \in b.sending, Fresh(u, a, b)
      PROVE  Range(s.request.content) \cap Range(u.request.content) \subseteq b.told
  <2>1. PICK m \in a.pieces : s.request.content = <<m>>
    BY DEF Distinct
  <2>2. PICK n \in b.pieces : u.request.content = <<n>> /\ (n \notin a.pieces \/ n \in b.told)
    BY <1>2 DEF Fresh
  <2>3. Range(s.request.content) = {m} /\ Range(u.request.content) = {n}
    BY <2>1, <2>2, RangeOfOne
  <2> QED
    BY <2>2, <2>3
<1>3. ASSUME NEW s \in b.sending, NEW u \in b.sending
      PROVE  s = u \/ Range(s.request.content) \cap Range(u.request.content) \subseteq b.told
  <2>1. CASE s \in a.sending /\ u \in a.sending
    BY <2>1 DEF Distinct, Grown
  <2>2. CASE s \in a.sending /\ u \notin a.sending
    BY <1>2, <2>2 DEF Grown
  <2>3. CASE s \notin a.sending /\ u \in a.sending
    BY <1>2, <2>3 DEF Grown
  <2>4. CASE s \notin a.sending /\ u \notin a.sending
    BY <2>4 DEF Grown
  <2> QED
    BY <2>1, <2>2, <2>3, <2>4
<1> QED
  BY <1>1, <1>3 DEF Distinct

\* An empty text is clean.
LEMMA EmptyClean == ASSUME NEW a PROVE Clean(<<>>, a)
BY DEF Clean, Range

\* The pieces of a longer text.
LEMMA OneMore ==
  ASSUME NEW text \in Texts, NEW n
  PROVE  /\ Range(text \o <<n>>) = Range(text) \cup {n}
         /\ \A i \in DOMAIN (text \o <<n>>) :
              (text \o <<n>>)[i] = IF i \in DOMAIN text THEN text[i] ELSE n
         /\ \A i, j \in DOMAIN (text \o <<n>>) :
              i \notin DOMAIN text /\ j \notin DOMAIN text => i = j
<1> DEFINE more == text \o <<n>>
<1>1. /\ DOMAIN text = 1 .. Len(text) /\ Len(text) \in Nat
      /\ DOMAIN more = 1 .. Len(text) + 1
      /\ \A i \in 1 .. Len(text) : more[i] = text[i]
      /\ more[Len(text) + 1] = n
  BY DEF Texts
<1> HIDE DEF more
<1>2. Range(more) = Range(text) \cup {n}
  BY <1>1 DEF Range
<1>3. \A i \in DOMAIN more : more[i] = IF i \in DOMAIN text THEN text[i] ELSE n
  BY <1>1
<1>4. \A i, j \in DOMAIN more : i \notin DOMAIN text /\ j \notin DOMAIN text => i = j
  BY <1>1
<1> QED
  BY <1>2, <1>3, <1>4 DEF more

\* A piece that is new, or not in the text yet, may follow.
LEMMA CleanWithOneMore ==
  ASSUME NEW a, NEW b, Grown(a, b), NEW text \in Texts, Clean(text, a), NEW n \in b.pieces,
         n \notin Range(text) \/ n \in b.told,
         \A s \in b.sending : Range(s.request.content) \cap {n} \subseteq b.told \/ Done(s, b)
  PROVE  Clean(text \o <<n>>, b)
<1> DEFINE more == text \o <<n>>
<1>1. Clean(text, b)
  BY CleanStays
<1>2. /\ Range(more) = Range(text) \cup {n}
      /\ \A i \in DOMAIN more : more[i] = IF i \in DOMAIN text THEN text[i] ELSE n
      /\ \A i, j \in DOMAIN more : i \notin DOMAIN text /\ j \notin DOMAIN text => i = j
  BY OneMore
<1> HIDE DEF more
<1>3. Range(more) \subseteq b.pieces
  BY <1>1, <1>2 DEF Clean
<1>4. \A i \in DOMAIN text : text[i] \in Range(text)
  BY DEF Range
<1>5. ASSUME NEW i \in DOMAIN more, NEW j \in DOMAIN more, more[i] = more[j]
      PROVE  i = j \/ more[i] \in b.told
  BY <1>1, <1>2, <1>4, <1>5 DEF Clean
<1>6. ASSUME NEW s \in b.sending
      PROVE  Range(more) \cap Range(s.request.content) \subseteq b.told \/ Done(s, b)
  BY <1>1, <1>2 DEF Clean
<1> QED
  BY <1>3, <1>5, <1>6 DEF Clean, more

-----------------------------------------------------------------------------
(* The invariant. *)

\* The texts that a call may still put into a document or into the app.
Carried(r) ==
  IF r.at # "answered" THEN IF r.tool = "save" THEN {r.content} ELSE {}
  ELSE IF r.tool \in Looks THEN {r.answer.text}
  ELSE {r.answer.selected.text, r.answer.draft}

TextsClean ==
  /\ \A p \in Paths : docs[p] # None => Clean(docs[p].text, Appends)
  /\ Clean(view.draft, Appends) /\ Clean(view.selected.text, Appends)
  /\ \A c \in Calls : call[c] # None => \A text \in Carried(call[c]) : Clean(text, Appends)

\* An answer brings a text back to be sent again only with a conflict.
ReturnsConflicts(r) ==
  r.at = "answered" /\ r.tool \in Mutations =>
    \/ r.answer.append = <<>>
    \/ r.tool = "append" /\ r.answer.append = r.content /\ r.answer.outcome \notin {"ok", "replay"}

AnswersReturn == \A c \in Calls : call[c] # None => ReturnsConflicts(call[c])

\* What waits to be sent without a version is what the user was told about.
WaitingIsTold == view.version # None \/ Range(view.append) \subseteq told

TInv == IInv /\ TextsClean /\ Distinct(Appends) /\ AnswersReturn /\ WaitingIsTold

\* The texts of the first state are clean.
LEMMA InitTexts == Init => TInv
<1> SUFFICES ASSUME Init PROVE TInv
  OBVIOUS
<1>1. IInv
  BY InitInvariant
<1>2. Sending = {}
  BY DEF Init, Sending, IsAppend
<1>3. Appends = [pieces |-> 1 .. 1, told |-> {}, sending |-> {}, record |-> record]
  BY <1>2 DEF Init, Appends
<1>4. Clean(<<1>>, Appends)
  BY <1>3, RangeOfOne DEF Clean
<1>5. TextsClean
  BY <1>4, EmptyClean DEF Init, TextsClean, Document, Nothing
<1> QED
  BY <1>1, <1>3, <1>5 DEF TInv, Distinct, AnswersReturn, WaitingIsTold, Init, Range

\* A step that lets the appends grow keeps the texts that stay where they are.
LEMMA TextStep ==
  ASSUME TInv, IInv', Grown(Appends, Appends'),
         \A p \in Paths : docs'[p] # None => docs'[p] = docs[p] \/ Clean(docs'[p].text, Appends'),
         view'.draft = view.draft \/ Clean(view'.draft, Appends'),
         view'.selected = view.selected \/ Clean(view'.selected.text, Appends'),
         \A c \in Calls : call'[c] # None =>
           \/ call'[c] = call[c]
           \/ /\ \A text \in Carried(call'[c]) : Clean(text, Appends')
              /\ ReturnsConflicts(call'[c]),
         WaitingIsTold'
  PROVE  TInv'
<1>1. \A text : Clean(text, Appends) => Clean(text, Appends')
  BY CleanStays
<1>2. Distinct(Appends')
  BY DistinctStays DEF TInv
<1>3. TextsClean'
  <2>1. \A p \in Paths : docs'[p] # None => Clean(docs'[p].text, Appends')
    BY <1>1 DEF TInv, TextsClean
  <2>2. Clean(view'.draft, Appends') /\ Clean(view'.selected.text, Appends')
    BY <1>1 DEF TInv, TextsClean
  <2>3. \A c \in Calls : call'[c] # None => \A text \in Carried(call'[c]) : Clean(text, Appends')
    BY <1>1 DEF TInv, TextsClean
  <2> QED
    BY <2>1, <2>2, <2>3 DEF TextsClean
<1>4. AnswersReturn'
  BY DEF TInv, AnswersReturn
<1> QED
  BY <1>2, <1>3, <1>4 DEF TInv

\* A step without new appends and texts that the user is told about.
LEMMA NoneNew ==
  ASSUME IInv, IInv', Sending' \subseteq Sending, told' = told,
         count'.pieces = count.pieces \/ count'.pieces = count.pieces + 1,
         \A s \in Sending : Done(s, Appends) => Done(s, Appends)'
  PROVE  Grown(Appends, Appends')
<1>1. count.pieces \in Nat
  BY DEF IInv, TypeOK
<1>2. 1 .. count.pieces \subseteq 1 .. count'.pieces
  BY <1>1
<1> QED
  BY <1>2 DEF Grown, Appends

\* After a step whose calls were being sent, only the text that waits in the app is new.
LEMMA SendingAfter ==
  ASSUME \A c \in Calls : call'[c] # None /\ call'[c].tool = "append" => SentBy(call'[c]) \in Sending
  PROVE  \A s \in Sending' : s \in Sending \/ (view'.append # <<>> /\ s = Ready(view'))
BY DEF Sending, IsAppend, SentBy, Ready, Request

\* The calls under way and the text that waits are being sent.
LEMMA SendingNow ==
  /\ \A c \in Calls : call[c] # None /\ call[c].tool = "append" => SentBy(call[c]) \in Sending
  /\ view.append # <<>> => Ready(view) \in Sending
BY DEF Sending, IsAppend

\* What is sent is of pieces that are there.
LEMMA SentPiece ==
  ASSUME TInv, NEW s \in Sending
  PROVE  \E n \in Nat : n \in 1 .. count.pieces /\ s.request.content = <<n>>
BY DEF TInv, Distinct, Appends

\* A new piece may follow any text.
LEMMA NewPiece ==
  ASSUME TInv, IInv', Sending' \subseteq Sending, UNCHANGED <<record, told>>,
         count'.pieces = count.pieces + 1
  PROVE  /\ Grown(Appends, Appends')
         /\ \A text \in Texts : Clean(text, Appends) =>
              Clean(Append(text, count.pieces + 1), Appends')
<1>1. count.pieces \in Nat
  BY DEF TInv, IInv, TypeOK
<1>2. Grown(Appends, Appends')
  BY NoneNew DEF TInv, Done, Appends
<1>3. ASSUME NEW text \in Texts, Clean(text, Appends)
      PROVE  Clean(Append(text, count.pieces + 1), Appends')
  <2> DEFINE n == count.pieces + 1
  <2>1. n \in Appends'.pieces /\ n \notin Appends.pieces
    BY <1>1 DEF Appends
  <2>2. n \notin Range(text)
    BY <1>3, <2>1 DEF Clean
  <2>3. \A s \in Sending' : n \notin Range(s.request.content)
    <3> SUFFICES ASSUME NEW s \in Sending' PROVE n \notin Range(s.request.content)
      OBVIOUS
    <3>1. PICK m \in Nat : m \in 1 .. count.pieces /\ s.request.content = <<m>>
      BY SentPiece
    <3> QED
      BY <1>1, <3>1, RangeOfOne
  <2>4. Append(text, n) = text \o <<n>>
    BY <1>1 DEF Texts
  <2>5. \A s \in Appends'.sending : Range(s.request.content) \cap {n} \subseteq Appends'.told
    BY <2>3 DEF Appends
  <2> HIDE DEF n
  <2>6. Clean(text \o <<n>>, Appends')
    BY <1>2, <1>3, <2>1, <2>2, <2>5, CleanWithOneMore
  <2> QED
    BY <2>4, <2>6 DEF n
<1> QED
  BY <1>2, <1>3

\* What is typed is a new piece, so that the texts stay clean.
LEMMA TypingText == TInv /\ IInv' /\ (TypeDraft \/ TypeAppend) => TInv'
<1> SUFFICES ASSUME TInv, IInv', TypeDraft \/ TypeAppend PROVE TInv'
  OBVIOUS
<1> DEFINE n == count.pieces + 1
<1>1. /\ view \in Views /\ view.draft \in Texts /\ count.pieces \in Nat
      /\ count' = [count EXCEPT !.pieces = n] /\ count'.pieces = n
      /\ UNCHANGED <<docs, session, record, call, told>>
  BY DEF TInv, IInv, TypeOK, Views, TypeDraft, TypeAppend, Typed
<1>2. \A s \in Sending' : s \in Sending \/ (view'.append # <<>> /\ s = Ready(view'))
  BY <1>1, SendingNow, SendingAfter
<1>3. CASE TypeDraft
  <2>1. view' = [view EXCEPT !.draft = Append(@, n)]
    BY <1>3 DEF TypeDraft, Typed
  <2>2. /\ view'.draft = Append(view.draft, n) /\ view'.selected = view.selected
        /\ view'.append = view.append /\ Ready(view') = Ready(view) /\ view'.version = view.version
    BY <1>1, <2>1 DEF Views, Ready
  <2>3. Sending' \subseteq Sending
    BY <1>2, <2>2, SendingNow
  <2>4. Grown(Appends, Appends') /\ Clean(view'.draft, Appends')
    BY <1>1, <2>2, <2>3, NewPiece DEF TInv, TextsClean
  <2>5. WaitingIsTold'
    BY <1>1, <2>2 DEF TInv, WaitingIsTold
  <2> QED
    BY <1>1, <2>2, <2>4, <2>5, TextStep
<1>4. CASE TypeAppend
  <2>1. view' = [view EXCEPT !.append = <<n>>] /\ view.version # None
    BY <1>4 DEF TypeAppend, Typed, HasVersion
  <2>2. /\ view'.draft = view.draft /\ view'.selected = view.selected
        /\ view'.append = <<n>> /\ view'.version = view.version
    BY <1>1, <2>1 DEF Views
  <2>3. Grown(Appends, Appends')
    <3>1. Appends.pieces \subseteq Appends'.pieces /\ n \in Appends'.pieces \ Appends.pieces
      BY <1>1 DEF Appends
    <3>2. Ready(view').request.content = <<n>>
      BY <2>2 DEF Ready
    <3>3. \A s \in Sending' : s \in Sending \/ s = Ready(view')
      BY <1>2
    <3>4. Fresh(Ready(view'), Appends, Appends')
      BY <3>1, <3>2 DEF Fresh
    <3>5. Appends.record = Appends'.record /\ Appends.told = Appends'.told
          /\ Appends.sending = Sending /\ Appends'.sending = Sending'
      BY <1>1 DEF Appends
    <3> QED
      BY <3>1, <3>3, <3>4, <3>5 DEF Grown, Done
  <2>4. WaitingIsTold'
    BY <2>1, <2>2 DEF WaitingIsTold
  <2> QED
    BY <1>1, <2>2, <2>3, <2>4, TextStep
<1> QED
  BY <1>3, <1>4

\* Opening the editor, leaving it and naming a new file keep the texts clean.
LEMMA EditingText == TInv /\ IInv' /\ (Edit \/ CancelEdit \/ \E p \in Paths : NewFile(p)) => TInv'
<1> SUFFICES ASSUME TInv, IInv', Edit \/ CancelEdit \/ \E p \in Paths : NewFile(p) PROVE TInv'
  OBVIOUS
<1>1. /\ view \in Views /\ count.pieces \in Nat
      /\ UNCHANGED <<docs, session, record, call, seen, told, count>>
  BY DEF TInv, IInv, TypeOK, Edit, CancelEdit, NewFile, Local
<1>2. \A s \in Sending' : s \in Sending \/ (view'.append # <<>> /\ s = Ready(view'))
  BY <1>1, SendingNow, SendingAfter
<1>3. CASE Edit \/ (CancelEdit /\ view.version # None)
  <2>1. /\ view'.append = view.append /\ view'.version = view.version
        /\ Ready(view') = Ready(view) /\ view'.selected = view.selected
        /\ view'.draft = view.draft \/ view'.draft = view.selected.text
    BY <1>1, <1>3 DEF Edit, CancelEdit, Local, Views, Ready
  <2>2. Sending' \subseteq Sending
    BY <1>2, <2>1, SendingNow
  <2>3. Grown(Appends, Appends')
    BY <1>1, <2>2, NoneNew DEF TInv, Done, Appends
  <2>4. Clean(view.selected.text, Appends')
    BY <2>3, CleanStays DEF TInv, TextsClean
  <2>5. WaitingIsTold'
    BY <1>1, <2>1 DEF TInv, WaitingIsTold
  <2> QED
    BY <1>1, <2>1, <2>3, <2>4, <2>5, TextStep
<1>4. CASE CancelEdit /\ view.version = None
  <2>1. /\ view'.append = view.append /\ view'.version = view.version
        /\ view'.selected = view.selected /\ view'.draft = <<>>
    BY <1>1, <1>4 DEF CancelEdit, Local, Views
  <2>2. Range(view.append) \subseteq told
    BY <1>4 DEF TInv, WaitingIsTold
  <2>3. Grown(Appends, Appends')
    <3>1. Appends.pieces = Appends'.pieces /\ Appends.record = Appends'.record
          /\ Appends.told = Appends'.told /\ Appends'.told = told
          /\ Appends.sending = Sending /\ Appends'.sending = Sending'
      BY <1>1 DEF Appends
    <3>2. view'.append # <<>> => Fresh(Ready(view'), Appends, Appends')
      <4> SUFFICES ASSUME view.append # <<>> PROVE Fresh(Ready(view'), Appends, Appends')
        BY <2>1
      <4>1. Ready(view) \in Sending /\ Ready(view).request.content = view.append
        BY SendingNow DEF Ready
      <4>2. PICK n \in Nat : n \in 1 .. count.pieces /\ view.append = <<n>>
        BY <4>1, SentPiece
      <4>3. n \in told
        BY <2>2, <4>2, RangeOfOne
      <4>4. n \in Appends'.pieces /\ Ready(view').request.content = <<n>>
        BY <1>1, <2>1, <4>2 DEF Appends, Ready
      <4> QED
        BY <3>1, <4>3, <4>4 DEF Fresh
    <3> QED
      BY <1>2, <3>1, <3>2 DEF Grown, Done
  <2>4. Clean(view'.draft, Appends')
    BY <2>1, EmptyClean
  <2>5. WaitingIsTold'
    BY <1>1, <2>1, <2>2 DEF WaitingIsTold
  <2> QED
    BY <1>1, <2>1, <2>3, <2>4, <2>5, TextStep
<1>5. CASE \E p \in Paths : NewFile(p)
  <2>1. view'.append = <<>> /\ view'.draft = <<>> /\ view'.selected = Nothing
    BY <1>1, <1>5 DEF NewFile, Local, Views
  <2>2. Sending' \subseteq Sending
    BY <1>2, <2>1
  <2>3. Grown(Appends, Appends')
    BY <1>1, <2>2, NoneNew DEF TInv, Done, Appends
  <2>4. Clean(view'.draft, Appends') /\ Clean(view'.selected.text, Appends') /\ WaitingIsTold'
    BY <2>1, EmptyClean DEF Nothing, WaitingIsTold, Range
  <2> QED
    BY <1>1, <2>3, <2>4, TextStep
<1> QED
  BY <1>3, <1>4, <1>5

\* A step of one call that changes no text of the app, no document and no record.
LEMMA CallText ==
  ASSUME TInv, IInv', NEW c \in Calls, NEW r, call' = [call EXCEPT ![c] = r],
         r # None /\ r.tool = "append" => SentBy(r) \in Sending,
         r # None => \A text \in Carried(r) : Clean(text, Appends),
         r # None => ReturnsConflicts(r),
         UNCHANGED <<docs, record, told>>, count'.pieces = count.pieces,
         UNCHANGED <<view.draft, view.selected, view.append, view.version>>,
         view.append # <<>> => Ready(view') = Ready(view)
  PROVE  TInv'
<1>1. call \in [Calls -> {None} \cup CallRecords]
  BY DEF TInv, IInv, TypeOK
<1>2. \A s \in Sending' : s \in Sending \/ (view'.append # <<>> /\ s = Ready(view'))
  BY <1>1, SendingNow, SendingAfter
<1>3. Sending' \subseteq Sending
  BY <1>2, SendingNow
<1>4. Grown(Appends, Appends')
  BY <1>3, NoneNew DEF TInv, Done, Appends
<1>5. WaitingIsTold'
  BY DEF TInv, WaitingIsTold
<1>6. \A d \in Calls : call'[d] # None =>
        \/ call'[d] = call[d]
        \/ /\ \A text \in Carried(call'[d]) : Clean(text, Appends')
           /\ ReturnsConflicts(call'[d])
  BY <1>1, <1>4, CleanStays
<1> QED
  BY <1>4, <1>5, <1>6, TextStep

\* A call sent carries what the app holds, and the texts stay clean.
LEMMA ClickText ==
  ASSUME TInv, IInv', NEW c \in Calls, NEW tool, NEW p, NEW content, NEW next,
         next \in {view, Saving}, Click(c, tool, p, content, next),
         tool = "append" => p = view.path /\ content = view.append /\ content # <<>>,
         tool = "save" => content = view.draft
  PROVE  TInv'
<1> DEFINE r == [tool |-> tool, path |-> p, content |-> content, version |-> view.version,
                 key |-> view.key, of |-> view.selected.born, at |-> "sent",
                 heard |-> TRUE, answer |-> None]
<1>1. /\ call' = [call EXCEPT ![c] = r] /\ UNCHANGED <<docs, record, told>>
      /\ count' = [count EXCEPT !.clicks = @ + 1] /\ view' = next
  BY DEF Click
<1>2. view \in Views /\ count \in [pieces : Nat, clicks : Keys, outside : Nat]
  BY DEF TInv, IInv, TypeOK
<1>3. count'.pieces = count.pieces
  BY <1>1, <1>2
<1>4. /\ UNCHANGED <<view.draft, view.selected, view.append, view.version>>
      /\ Ready(view') = Ready(view)
  BY <1>1, <1>2 DEF Saving, Views, Ready
<1>5. tool = "append" => SentBy(r) = Ready(view) /\ SentBy(r) \in Sending
  BY SendingNow DEF SentBy, Ready, Request
<1>6. \A text \in Carried(r) : Clean(text, Appends)
  BY DEF Carried, TInv, TextsClean
<1>7. ReturnsConflicts(r)
  BY DEF ReturnsConflicts
<1>8. r.tool = tool
  OBVIOUS
<1> HIDE DEF r
<1> QED
  BY <1>1, <1>3, <1>4, <1>5, <1>6, <1>7, <1>8, CallText

\* No step of the user makes a text unclean.
LEMMA UserText == ASSUME NEW c \in Calls PROVE TInv /\ IInv' /\ UserNext(c) => TInv'
<1> SUFFICES ASSUME TInv, IInv', UserNext(c) PROVE TInv'
  OBVIOUS
<1>1. CASE LoadDirectory(c)
  BY <1>1, ClickText DEF LoadDirectory
<1>2. CASE \E p \in Paths : OpenDocument(c, p)
  BY <1>2, ClickText DEF OpenDocument
<1>3. CASE Save(c)
  BY <1>3, ClickText DEF Save
<1>4. CASE AppendText(c)
  BY <1>4, ClickText DEF AppendText
<1>5. CASE ConfirmDelete(c)
  BY <1>5, ClickText DEF ConfirmDelete
<1> QED
  BY <1>1, <1>2, <1>3, <1>4, <1>5 DEF UserNext

\* A tool that looks a document up keeps the texts clean.
LEMMA LookText == ASSUME NEW c \in Calls PROVE TInv /\ IInv' /\ Look(c) => TInv'
<1> SUFFICES ASSUME TInv, IInv', Look(c) PROVE TInv'
  OBVIOUS
<1> DEFINE answer == IF call[c].tool = "list" THEN Nothing
                     ELSE Snapshot(call[c].path, docs[call[c].path])
           r == [call[c] EXCEPT !.at = "answered", !.answer = answer]
<1>1. /\ call[c] \in CallRecords /\ call[c].tool \in Looks
      /\ call[c].tool = "read" => call[c].path \in Paths /\ docs[call[c].path] # None
      /\ call \in [Calls -> {None} \cup CallRecords]
  BY DEF TInv, IInv, TypeOK, CallOK, Look, Looks
<1>2. call' = [call EXCEPT ![c] = r] /\ UNCHANGED <<docs, record, told, count, view>>
  BY <1>1 DEF Look
<1>3. r.tool \in Looks /\ r.at = "answered" /\ r.answer = answer
  BY <1>1 DEF CallRecords
<1>4. Clean(answer.text, Appends)
  BY <1>1, EmptyClean DEF TInv, TextsClean, Nothing, Snapshot, Looks
<1>5. Carried(r) = {answer.text} /\ ReturnsConflicts(r) /\ r.tool # "append"
  BY <1>3 DEF Carried, ReturnsConflicts, Looks, Mutations
<1> HIDE DEF r, answer
<1> QED
  BY <1>2, <1>4, <1>5, CallText

\* A tool that reads back for its answer keeps the texts clean.
LEMMA RefreshText == ASSUME NEW c \in Calls PROVE TInv /\ IInv' /\ Refresh(c) => TInv'
<1> SUFFICES ASSUME TInv, IInv', Refresh(c) PROVE TInv'
  OBVIOUS
<1> DEFINE doc == IF call[c].tool = "delete" /\ call[c].answer.outcome \in {"ok", "replay"}
                  THEN Nothing ELSE ReadBack(call[c].path)
           answer == MutationResponse(call[c], doc)
           r == [call[c] EXCEPT !.at = "answered", !.answer = answer]
<1>1. /\ call[c] \in CallRecords /\ call[c] # None /\ call[c].at = "refresh"
      /\ call[c].tool \in Mutations /\ call[c].tool \notin Looks /\ call[c].path \in Paths
      /\ call \in [Calls -> {None} \cup CallRecords]
  BY DEF TInv, IInv, TypeOK, CallOK, CallRecords, Refresh, Looks, Mutations
<1>2. call' = [call EXCEPT ![c] = r] /\ UNCHANGED <<docs, record, told, count, view>>
  BY <1>1 DEF Refresh
<1>3. Clean(doc.text, Appends)
  BY <1>1, EmptyClean DEF TInv, TextsClean, Nothing, ReadBack, Snapshot
<1>4. call[c].tool = "save" => Clean(call[c].content, Appends)
  BY <1>1 DEF TInv, TextsClean, Carried
<1>5. /\ answer.selected = doc
      /\ answer.draft = doc.text \/ (call[c].tool = "save" /\ answer.draft = call[c].content)
      /\ \/ answer.append = <<>>
         \/ /\ call[c].tool = "append" /\ answer.append = call[c].content
            /\ answer.outcome \notin {"ok", "replay"}
  BY DEF MutationResponse
<1> HIDE DEF answer, doc
<1>6. /\ r.tool = call[c].tool /\ r.content = call[c].content /\ r.at = "answered"
      /\ r.answer = answer /\ SentBy(r) = SentBy(call[c])
  BY <1>1 DEF CallRecords, SentBy, Request
<1> HIDE DEF r
<1>7. \A text \in Carried(r) : Clean(text, Appends)
  BY <1>1, <1>3, <1>4, <1>5, <1>6 DEF Carried
<1>8. ReturnsConflicts(r)
  BY <1>5, <1>6 DEF ReturnsConflicts
<1>9. r.tool = "append" => SentBy(r) \in Sending
  BY <1>1, <1>6, SendingNow
<1> QED
  BY <1>2, <1>7, <1>8, <1>9, CallText

\* A call whose answer is given up keeps the texts clean.
LEMMA GiveUpText == ASSUME NEW c \in Calls PROVE TInv /\ IInv' /\ GiveUp(c) => TInv'
<1> SUFFICES ASSUME TInv, IInv', GiveUp(c) PROVE TInv'
  OBVIOUS
<1> DEFINE r == [call[c] EXCEPT !.heard = FALSE]
<1>1. /\ call[c] \in CallRecords /\ call[c] # None /\ view \in Views
      /\ call \in [Calls -> {None} \cup CallRecords]
      /\ UNCHANGED <<docs, record, told, count>> /\ view' = AfterError(call[c])
  BY DEF TInv, IInv, TypeOK, GiveUp
<1>2. /\ UNCHANGED <<view.draft, view.selected, view.append, view.version>>
      /\ Ready(view') = Ready(view)
  BY <1>1 DEF AfterError, Views, Ready
<1>3. CASE call' = [call EXCEPT ![c] = None]
  BY <1>1, <1>2, <1>3, CallText
<1>4. CASE call' = [call EXCEPT ![c].heard = FALSE]
  <2>1. call' = [call EXCEPT ![c] = r]
    BY <1>1, <1>4
  <2>2. /\ r.tool = call[c].tool /\ r.content = call[c].content /\ r.at = call[c].at
        /\ r.answer = call[c].answer /\ SentBy(r) = SentBy(call[c])
    BY <1>1 DEF CallRecords, SentBy, Request
  <2> HIDE DEF r
  <2>3. Carried(r) = Carried(call[c]) /\ ReturnsConflicts(r) = ReturnsConflicts(call[c])
    BY <2>2 DEF Carried, ReturnsConflicts
  <2>4. /\ \A text \in Carried(r) : Clean(text, Appends)
        /\ ReturnsConflicts(r)
        /\ r.tool = "append" => SentBy(r) \in Sending
    BY <1>1, <2>2, <2>3, SendingNow DEF TInv, TextsClean, AnswersReturn
  <2> QED
    BY <1>1, <1>2, <2>1, <2>4, CallText
<1> QED
  BY <1>3, <1>4 DEF GiveUp

\* The store's part: an append that is carried out has no record yet, so that its text
\* is in no document unless the user was told about it.
LEMMA Executed ==
  ASSUME TInv, NEW c \in Calls, Execute(c)
  PROVE  \E r :
           /\ call' = [call EXCEPT ![c] = r]
           /\ r # None => /\ r.at = "refresh" /\ r.tool = call[c].tool
                          /\ r.content = call[c].content /\ SentBy(r) = SentBy(call[c])
                          /\ r.answer.outcome = Outcome(call[c])
<1>1. call[c] \in CallRecords
  BY DEF TInv, IInv, TypeOK, Execute
<1> DEFINE answered(version) ==
             [call[c] EXCEPT !.at = "refresh",
                !.answer = [outcome |-> Outcome(call[c]), version |-> version]]
<1>2. PICK version :
        call' = [call EXCEPT ![c] = IF ~call[c].heard THEN None ELSE answered(version)]
  <2>1. CASE Outcome(call[c]) = "ok"
    BY <2>1 DEF Execute
  <2>2. CASE Outcome(call[c]) # "ok"
    BY <2>2 DEF Execute
  <2> QED
    BY <2>1, <2>2
<1>3. /\ answered(version).at = "refresh" /\ answered(version).tool = call[c].tool
      /\ answered(version).content = call[c].content
      /\ SentBy(answered(version)) = SentBy(call[c])
      /\ answered(version).answer.outcome = Outcome(call[c])
  BY <1>1 DEF CallRecords, SentBy, Request
<1> HIDE DEF answered
<1> WITNESS IF ~call[c].heard THEN None ELSE answered(version)
<1> QED
  BY <1>2, <1>3

\* A request carried out leaves its record, and the texts stay clean.
LEMMA ExecuteText == ASSUME NEW c \in Calls PROVE TInv /\ IInv' /\ Execute(c) => TInv'
<1> SUFFICES ASSUME TInv, IInv', Execute(c) PROVE TInv'
  OBVIOUS
<1> DEFINE s == SentBy(call[c])
<1>1. /\ call[c] \in CallRecords /\ call[c] # None /\ call[c].at = "sent"
      /\ call[c].path \in Paths /\ call[c].key \in Keys /\ call[c].content \in Texts
      /\ call[c].tool \in Mutations
      /\ call \in [Calls -> {None} \cup CallRecords]
      /\ docs \in [Paths -> {None} \cup Documents]
      /\ record \in [Keys -> {None} \cup Records]
      /\ UNCHANGED <<view, told, count>>
  BY DEF TInv, IInv, TypeOK, CallOK, CallRecords, Execute, Mutations
<1>2. PICK r :
        /\ call' = [call EXCEPT ![c] = r]
        /\ r # None => /\ r.at = "refresh" /\ r.tool = call[c].tool
                       /\ r.content = call[c].content /\ SentBy(r) = s
                       /\ r.answer.outcome = Outcome(call[c])
  BY Executed
<1>3. /\ call[c].tool = "append" => s \in Sending
      /\ s.key = call[c].key /\ s.request = Request(call[c])
  BY <1>1, SendingNow DEF SentBy
<1>4. r # None => /\ r.tool = "append" => SentBy(r) \in Sending
                  /\ \A text \in Carried(r) : Clean(text, Appends)
                  /\ ReturnsConflicts(r)
  <2> SUFFICES ASSUME r # None
               PROVE  /\ r.tool = "append" => SentBy(r) \in Sending
                      /\ \A text \in Carried(r) : Clean(text, Appends)
                      /\ ReturnsConflicts(r)
    OBVIOUS
  <2>1. Carried(r) = Carried(call[c])
    BY <1>1, <1>2 DEF Carried
  <2> QED
    BY <1>1, <1>2, <1>3, <2>1 DEF TInv, TextsClean, ReturnsConflicts
<1>5. CASE Outcome(call[c]) # "ok"
  <2>1. UNCHANGED <<docs, record>>
    BY <1>5 DEF Execute
  <2> HIDE DEF s
  <2> QED
    <3>1. Ready(view') = Ready(view) /\ count'.pieces = count.pieces
      BY <1>1
    <3>2. UNCHANGED <<view.draft, view.selected, view.append, view.version>>
      BY <1>1
    <3> QED
      BY <1>1, <1>2, <1>4, <2>1, <3>1, <3>2, CallText
<1>6. CASE Outcome(call[c]) = "ok"
  <2> DEFINE p == call[c].path
  <2>1. /\ docs' = [docs EXCEPT ![p] = Written(call[c])]
        /\ record' = [record EXCEPT ![call[c].key] =
                         [request |-> Request(call[c]), version |-> ResultVersion(call[c])]]
        /\ record[call[c].key] = None
        /\ call[c].tool # "save" => docs[p] # None
    BY <1>6 DEF Execute, Outcome
  <2>2. Sending' \subseteq Sending
    <3>1. \A t \in Sending' : t \in Sending \/ (view'.append # <<>> /\ t = Ready(view'))
      BY <1>1, <1>2, <1>4, SendingNow, SendingAfter
    <3> QED
      BY <1>1, <3>1, SendingNow
  <2>3. ~Done(s, Appends) /\ Done(s, Appends')
    <3>1. [request |-> Request(call[c]), version |-> ResultVersion(call[c])] # None
      <4>1. Request(call[c]) \in Requests
        BY <1>1 DEF Request, Requests, CallRecords
      <4>2. ResultVersion(call[c]) \in Nat
        BY <1>1 DEF ResultVersion, Documents
      <4> QED
        BY <4>1, <4>2, NoneAssumption DEF Records
    <3> QED
      BY <1>1, <1>3, <2>1, <3>1 DEF Done, Appends
  <2>4. \A t \in Sending : Done(t, Appends) => Done(t, Appends')
    BY <1>1, <2>1 DEF Done, Appends
  <2>5. Grown(Appends, Appends')
    BY <1>1, <2>2, <2>4, NoneNew DEF TInv
  <2>6. Written(call[c]) # None => Clean(Written(call[c]).text, Appends')
    <3>1. CASE call[c].tool = "save"
      <4>1. Clean(call[c].content, Appends)
        BY <1>1, <3>1 DEF TInv, TextsClean, Carried
      <4>2. Written(call[c]).text = call[c].content
        BY <3>1 DEF Written, Document
      <4> QED
        BY <2>5, <4>1, <4>2, CleanStays
    <3>2. CASE call[c].tool = "append"
      <4> DEFINE text == docs[p].text
      <4>1. text \in Texts /\ Clean(text, Appends)
        BY <1>1, <2>1, <3>2 DEF TInv, TextsClean, Documents
      <4>2. Written(call[c]).text = text \o call[c].content
        BY <2>1, <3>2 DEF Written, Document
      <4>3. s \in Sending /\ s.request.content = call[c].content
        BY <1>3, <3>2 DEF SentBy, Request
      <4>4. PICK n \in Nat : n \in 1 .. count.pieces /\ call[c].content = <<n>>
        BY <4>3, SentPiece
      <4>5. Appends'.told = Appends.told /\ Appends.sending = Sending /\ Appends'.sending = Sending'
            /\ n \in Appends'.pieces
        BY <1>1, <4>4 DEF Appends
      <4>6. Range(call[c].content) = {n}
        BY <4>4, RangeOfOne
      <4>7. n \notin Range(text) \/ n \in Appends'.told
        BY <2>3, <4>1, <4>3, <4>5, <4>6 DEF Clean
      <4>8. \A t \in Sending' : Range(t.request.content) \cap {n} \subseteq Appends'.told
                                \/ Done(t, Appends')
        BY <2>2, <2>3, <4>3, <4>5, <4>6 DEF TInv, Distinct
      <4> HIDE DEF text, s
      <4>9. Clean(text \o <<n>>, Appends')
        BY <2>5, <4>1, <4>5, <4>7, <4>8, CleanWithOneMore
      <4> QED
        BY <4>2, <4>4, <4>9
    <3>3. CASE call[c].tool = "delete"
      BY <3>3 DEF Written
    <3> QED
      BY <1>1, <3>1, <3>2, <3>3 DEF Mutations
  <2>7. \A q \in Paths : docs'[q] # None => docs'[q] = docs[q] \/ Clean(docs'[q].text, Appends')
    BY <1>1, <2>1, <2>6
  <2>8. \A d \in Calls : call'[d] # None =>
          \/ call'[d] = call[d]
          \/ /\ \A text \in Carried(call'[d]) : Clean(text, Appends')
             /\ ReturnsConflicts(call'[d])
    <3>1. r # None => /\ \A text \in Carried(r) : Clean(text, Appends')
                      /\ ReturnsConflicts(r)
      <4>1. \A text : Clean(text, Appends) => Clean(text, Appends')
        BY <2>5, CleanStays
      <4> QED
        BY <1>4, <4>1
    <3>2. \A d \in Calls : call'[d] = call[d] \/ call'[d] = r
      BY <1>1, <1>2
    <3> QED
      BY <3>1, <3>2
  <2>9. WaitingIsTold'
    BY <1>1 DEF TInv, WaitingIsTold
  <2> QED
    BY <1>1, <2>5, <2>7, <2>8, <2>9, TextStep
<1> QED
  BY <1>5, <1>6

\* An answer may bring an append back, but then the user is told that it is in conflict.
LEMMA DeliverText == ASSUME NEW c \in Calls PROVE TInv /\ IInv' /\ Deliver(c) => TInv'
<1> SUFFICES ASSUME TInv, IInv', Deliver(c) PROVE TInv'
  OBVIOUS
<1> DEFINE r == call[c]
<1>1. /\ r \in CallRecords /\ CallOK(r) /\ r # None /\ r.at = "answered" /\ r.tool \in Mutations \cup Looks
      /\ call \in [Calls -> {None} \cup CallRecords] /\ view \in Views
      /\ call' = [call EXCEPT ![c] = None] /\ view' = Applied(r)
      /\ UNCHANGED <<docs, record, count>>
      /\ count.pieces \in Nat
  BY DEF TInv, IInv, TypeOK, Deliver, CallRecords
<1>2. /\ \A text \in Carried(r) : Clean(text, Appends)
      /\ ReturnsConflicts(r)
      /\ r.tool = "append" => SentBy(r) \in Sending
  BY <1>1, SendingNow DEF TInv, TextsClean, AnswersReturn
<1>3. told \subseteq told' /\ (view'.append # <<>> =>
        /\ r.tool = "append" /\ view'.append = r.content /\ Range(r.content) \subseteq told')
  <2>1. told \subseteq told'
    BY DEF Deliver
  <2>2. CASE r.tool \in Looks
    BY <1>1, <2>1, <2>2 DEF Applied, Looks, Views
  <2>3. CASE r.tool \in Mutations
    <3>1. view'.append = r.answer.append
      BY <1>1, <2>3 DEF Applied, Mutations
    <3>2. \/ r.answer.append = <<>>
          \/ r.tool = "append" /\ r.answer.append = r.content /\ r.answer.outcome \notin {"ok", "replay"}
      BY <1>1, <1>2, <2>3 DEF ReturnsConflicts
    <3>3. r.tool = "append" /\ r.answer.outcome \notin {"ok", "replay"} =>
            Range(r.content) \subseteq told'
      BY DEF Deliver
    <3> QED
      BY <2>1, <3>1, <3>2, <3>3
  <2> QED
    BY <1>1, <2>2, <2>3
<1>4. Clean(view'.draft, Appends) /\ Clean(view'.selected.text, Appends)
  <2>1. CASE r.tool \in Looks
    <3>1. view'.draft = r.answer.text /\ view'.selected = r.answer
      BY <1>1, <2>1 DEF Applied, Looks, Views
    <3> QED
      BY <1>1, <1>2, <2>1, <3>1 DEF Carried
  <2>2. CASE r.tool \in Mutations
    <3>1. view'.draft = r.answer.draft /\ view'.selected = r.answer.selected
      BY <1>1, <2>2 DEF Applied, Mutations
    <3>2. Carried(r) = {r.answer.selected.text, r.answer.draft}
      BY <1>1, <2>2 DEF Carried, Mutations, Looks
    <3> QED
      BY <1>2, <3>1, <3>2
  <2> QED
    BY <1>1, <2>1, <2>2
<1>5. Grown(Appends, Appends')
  <2>1. \A s \in Sending' : s \in Sending \/ (view'.append # <<>> /\ s = Ready(view'))
    BY <1>1, SendingNow, SendingAfter
  <2>2. /\ Appends.pieces = Appends'.pieces /\ Appends.record = Appends'.record
        /\ Appends.told = told /\ Appends'.told = told'
        /\ Appends.sending = Sending /\ Appends'.sending = Sending'
        /\ Appends.pieces = 1 .. count.pieces
    BY <1>1 DEF Appends
  <2>3. view'.append # <<>> => Fresh(Ready(view'), Appends, Appends')
    <3> SUFFICES ASSUME view'.append # <<>> PROVE Fresh(Ready(view'), Appends, Appends')
      OBVIOUS
    <3>1. SentBy(r) \in Sending /\ SentBy(r).request.content = r.content
      BY <1>2, <1>3 DEF SentBy, Request
    <3>2. PICK n \in Nat : n \in 1 .. count.pieces /\ r.content = <<n>>
      BY <3>1, SentPiece
    <3>3. n \in told'
      BY <1>3, <3>2, RangeOfOne
    <3>4. Ready(view').request.content = <<n>>
      BY <1>3, <3>2 DEF Ready
    <3> QED
      BY <2>2, <3>2, <3>3, <3>4 DEF Fresh
  <2> QED
    BY <1>3, <2>1, <2>2, <2>3 DEF Grown, Done
<1>6. Clean(view'.draft, Appends') /\ Clean(view'.selected.text, Appends')
  <2>1. \A text : Clean(text, Appends) => Clean(text, Appends')
    BY <1>5, CleanStays
  <2> QED
    BY <1>4, <2>1
<1>7. WaitingIsTold'
  BY <1>3 DEF WaitingIsTold, Range
<1>8. \A d \in Calls : call'[d] # None => call'[d] = call[d]
  BY <1>1
<1> HIDE DEF r
<1> QED
  BY <1>1, <1>5, <1>6, <1>7, <1>8, TextStep

\* A switch of agents and what others write keep the texts clean.
LEMMA OutsideText ==
  TInv /\ IInv' /\ (Switch \/ \E p \in Paths : Others(p) \/ OthersDelete(p)) => TInv'
<1> SUFFICES ASSUME TInv, IInv', Switch \/ \E p \in Paths : Others(p) \/ OthersDelete(p) PROVE TInv'
  OBVIOUS
<1>1. /\ UNCHANGED <<record, call, view, told>>
      /\ docs \in [Paths -> {None} \cup Documents]
      /\ count \in [pieces : Nat, clicks : Keys, outside : Nat]
  BY DEF TInv, IInv, TypeOK, Switch, Others, OthersDelete
<1>2. Sending' = Sending
  BY <1>1 DEF Sending, IsAppend
<1>3. WaitingIsTold'
  BY <1>1 DEF TInv, WaitingIsTold
<1>4. CASE Switch \/ \E p \in Paths : OthersDelete(p)
  <2>1. count'.pieces = count.pieces
    BY <1>1, <1>4 DEF Switch, OthersDelete
  <2>2. \A p \in Paths : docs'[p] # None => docs'[p] = docs[p]
    BY <1>1, <1>4 DEF Switch, OthersDelete
  <2>3. Grown(Appends, Appends')
    BY <1>1, <1>2, <2>1, NoneNew DEF TInv, Done, Appends
  <2> QED
    BY <1>1, <1>3, <2>2, <2>3, TextStep
<1>5. ASSUME NEW p \in Paths, Others(p) PROVE TInv'
  <2> DEFINE n == count.pieces + 1
             text == IF docs[p] = None THEN <<>> ELSE docs[p].text
  <2>1. count'.pieces = n
    BY <1>1, <1>5 DEF Others
  <2>2. text \in Texts /\ Clean(text, Appends)
    BY <1>1, EmptyClean DEF TInv, TextsClean, Documents, Texts
  <2>3. docs'[p].text = Append(text, n)
    <3>1. docs' = [docs EXCEPT ![p] = IF docs[p] = None THEN Document(1, <<n>>, n)
                     ELSE Document(docs[p].version + 1, Append(docs[p].text, n), docs[p].born)]
      BY <1>5 DEF Others
    <3>2. Append(<<>>, n) = <<n>>
      OBVIOUS
    <3> QED
      BY <1>1, <3>1, <3>2 DEF Document
  <2>4. \A q \in Paths : q # p => docs'[q] = docs[q]
    BY <1>1, <1>5 DEF Others
  <2> HIDE DEF text
  <2>5. Grown(Appends, Appends') /\ Clean(docs'[p].text, Appends')
    BY <1>1, <1>2, <2>1, <2>2, <2>3, NewPiece
  <2> QED
    BY <1>1, <1>3, <2>4, <2>5, TextStep
<1> QED
  BY <1>4, <1>5

\* Every step keeps the texts clean.
LEMMA StepTexts == TInv /\ [Next]_vars => TInv'
<1> SUFFICES ASSUME TInv, [Next]_vars PROVE TInv'
  OBVIOUS
<1>1. IInv'
  BY StepInvariant DEF TInv
<1>2. CASE Next
  <2>1. ASSUME NEW c \in Calls, CallNext(c) PROVE TInv'
    BY <1>1, <2>1, ExecuteText, RefreshText, LookText, DeliverText, GiveUpText DEF CallNext
  <2> QED
    BY <1>1, <1>2, <2>1, TypingText, EditingText, UserText, OutsideText DEF Next
<1>3. CASE UNCHANGED vars
  <2>1. Appends' = Appends
    BY <1>3 DEF vars, Appends, Sending, IsAppend
  <2>2. TextsClean' /\ Distinct(Appends')
    BY <1>3, <2>1 DEF vars, TInv, TextsClean
  <2>3. AnswersReturn' /\ WaitingIsTold'
    BY <1>3 DEF vars, TInv, AnswersReturn, WaitingIsTold
  <2> QED
    BY <1>1, <2>2, <2>3 DEF TInv
<1> QED
  BY <1>2, <1>3

\* In every reachable state each text, stored, shown or under way, is clean: a piece
\* of it that an append still sends is one the user was told of or one on record.
THEOREM TextInvariance == Spec => []TInv
BY InitTexts, StepTexts, PTL DEF Spec

\* A text that was typed to be appended is in a document once, unless the user was told
\* of a conflict.
THEOREM AppendedOnceAlways == Spec => []AppendedOnce
<1>1. TInv => AppendedOnce
  BY DEF TInv, TextsClean, Clean, Appends, AppendedOnce
<1> QED
  BY <1>1, TextInvariance, PTL

\* An append is not answered with a conflict where its text stands already.
THEOREM RetriesAreNoConflicts == Spec => RetryIsNoConflict
<1> DEFINE Standing(c) == IF docs[call[c].path] = None THEN <<>> ELSE docs[call[c].path].text
           Refused(c) == /\ call[c] # None /\ call[c].at = "sent" /\ call[c].tool = "append"
                         /\ call'[c] # None /\ call'[c].at = "refresh"
                         /\ call'[c].answer.outcome = "version_conflict"
<1>1. ASSUME TInv, Next, NEW c \in Calls, Refused(c)
      PROVE  Range(call[c].content) \cap Range(Standing(c)) \subseteq told
  <2>1. call \in [Calls -> {None} \cup CallRecords] /\ call[c] \in CallRecords
    BY <1>1 DEF TInv, IInv, TypeOK
  <2>2. Execute(c)
    <3>1. ASSUME NEW d \in Calls, UserNext(d) PROVE FALSE
      <4>1. call[d] = None /\ call'[c] # call[c]
        BY <1>1, <3>1 DEF UserNext, LoadDirectory, OpenDocument, Save, AppendText, ConfirmDelete, Click
      <4>2. \E r : call' = [call EXCEPT ![d] = r]
        BY <3>1 DEF UserNext, LoadDirectory, OpenDocument, Save, AppendText, ConfirmDelete, Click
      <4> QED
        BY <1>1, <2>1, <4>1, <4>2
    <3>2. ASSUME NEW d \in Calls, Refresh(d) \/ Look(d) \/ Deliver(d) \/ GiveUp(d) PROVE FALSE
      <4>1. CASE Refresh(d) \/ Look(d)
        BY <1>1, <2>1, <4>1 DEF Refresh, Look, CallRecords, TInv, IInv, TypeOK
      <4>2. CASE Deliver(d)
        BY <1>1, <2>1, <4>2 DEF Deliver
      <4>3. CASE GiveUp(d)
        BY <1>1, <2>1, <4>3 DEF GiveUp, CallRecords
      <4> QED
        BY <3>2, <4>1, <4>2, <4>3
    <3>3. ASSUME NEW d \in Calls, Execute(d) PROVE d = c
      BY <1>1, <2>1, <3>3, Executed
    <3>4. call' # call
      BY <1>1
    <3> QED
      BY <1>1, <3>1, <3>2, <3>3, <3>4
         DEF Next, CallNext, TypeDraft, TypeAppend, Typed, Edit, CancelEdit, NewFile, Local,
             Others, OthersDelete, Switch
  <2>3. Outcome(call[c]) = "version_conflict"
    BY <1>1, <2>1, <2>2, Executed
  <2>4. record[call[c].key] = None
    BY <2>3 DEF Outcome
  <2>5. SentBy(call[c]) \in Sending /\ SentBy(call[c]).key = call[c].key
        /\ SentBy(call[c]).request.content = call[c].content
    BY <1>1, SendingNow DEF SentBy, Request
  <2>6. Clean(Standing(c), Appends)
    <3>1. call[c].path \in Paths
      BY <1>1, <2>1 DEF TInv, IInv, TypeOK, CallOK
    <3> QED
      BY <1>1, <3>1, EmptyClean DEF TInv, TextsClean
  <2> HIDE DEF Standing
  <2> QED
    BY <2>4, <2>5, <2>6 DEF Clean, Done, Appends
<1>2. TInv /\ [Next]_vars => [\A c \in Calls : Refused(c) =>
        Range(call[c].content) \cap Range(Standing(c)) \subseteq told]_vars
  BY <1>1
<1> QED
  BY <1>2, TextInvariance, PTL DEF Spec, RetryIsNoConflict

-----------------------------------------------------------------------------
(* What has been shown of a document is of its past, or of its present. *)

\* Names of documents that have existed.
Used == (1 .. count.pieces) \cup {CreatedBy(k) : k \in {j \in Keys : record[j] # None}}

World == [docs |-> docs, used |-> Used, seen |-> seen]

\* Of the document that a snapshot s names, there is a later version now, or this one.
TrueOf(s, w) ==
  s # Nothing =>
    /\ s.born \in w.used
    /\ w.docs[s.path] # None /\ w.docs[s.path].born = s.born =>
         \/ s.version < w.docs[s.path].version
         \/ s.version = w.docs[s.path].version /\ s.text = w.docs[s.path].text

\* So it is with a call made from what was shown, and the user has seen the text.
Informed(r, w) ==
  r.tool \in Mutations /\ r.of # None =>
    /\ r.of \in w.used /\ r.version \in Nat
    /\ w.docs[r.path] # None /\ w.docs[r.path].born = r.of =>
         \/ r.version < w.docs[r.path].version
         \/ r.version = w.docs[r.path].version /\ Range(w.docs[r.path].text) \subseteq w.seen

\* How a step changes a document: it goes, it gets a later version, or it is a new one.
Moved(d, e, used) ==
  \/ e = d \/ e = None
  \/ e.born \notin used
  \/ d # None /\ e.born = d.born /\ d.version < e.version

Later(w, x) ==
  /\ w.docs \in [Paths -> {None} \cup Documents] /\ x.docs \in [Paths -> {None} \cup Documents]
  /\ w.used \subseteq x.used /\ w.seen \subseteq x.seen
  /\ \A p \in Paths : Moved(w.docs[p], x.docs[p], w.used)
  /\ \A p \in Paths : x.docs[p] # None => x.docs[p].born \in x.used

\* What was true of a document remains so while versions are added.
LEMMA TrueStays ==
  ASSUME NEW w, NEW x, Later(w, x), NEW s \in Snapshots, TrueOf(s, w)
  PROVE  TrueOf(s, x)
<1> SUFFICES ASSUME s # Nothing PROVE TrueOf(s, x)
  BY DEF TrueOf
<1>1. s.path \in Paths /\ s.version \in Nat /\ s.born \in w.used /\ s.born \in x.used
  BY DEF Snapshots, TrueOf, Later
<1>2. ASSUME x.docs[s.path] # None, x.docs[s.path].born = s.born
      PROVE  \/ s.version < x.docs[s.path].version
             \/ s.version = x.docs[s.path].version /\ s.text = x.docs[s.path].text
  <2>1. Moved(w.docs[s.path], x.docs[s.path], w.used)
    BY <1>1 DEF Later
  <2>2. CASE x.docs[s.path] = w.docs[s.path]
    BY <1>2, <2>2 DEF TrueOf
  <2>3. CASE /\ w.docs[s.path] # None /\ x.docs[s.path].born = w.docs[s.path].born
             /\ w.docs[s.path].version < x.docs[s.path].version
    <3>1. w.docs[s.path].version \in Nat /\ x.docs[s.path].version \in Nat
      BY <1>1, <1>2, <2>3 DEF Later, Documents
    <3>2. s.version <= w.docs[s.path].version
      BY <1>1, <1>2, <2>3, <3>1 DEF TrueOf
    <3> QED
      BY <1>1, <2>3, <3>1, <3>2
  <2> QED
    BY <1>1, <1>2, <2>1, <2>2, <2>3 DEF Moved
<1> QED
  BY <1>1, <1>2 DEF TrueOf

\* A call that was informed remains so while versions are added.
LEMMA InformedStays ==
  ASSUME NEW w, NEW x, Later(w, x), NEW r \in CallRecords,
         r.tool \in Mutations => r.path \in Paths, Informed(r, w)
  PROVE  Informed(r, x)
<1> SUFFICES ASSUME r.tool \in Mutations, r.of # None PROVE Informed(r, x)
  BY DEF Informed
<1> DEFINE d == w.docs[r.path]
           e == x.docs[r.path]
<1>1. r.path \in Paths /\ r.version \in Nat /\ r.of \in w.used /\ r.of \in x.used
  BY DEF Informed, Later
<1>2. ASSUME e # None, e.born = r.of
      PROVE  r.version < e.version \/ (r.version = e.version /\ Range(e.text) \subseteq x.seen)
  <2>1. Moved(d, e, w.used) /\ w.seen \subseteq x.seen
    BY <1>1 DEF Later
  <2>2. CASE e = d
    BY <1>2, <2>1, <2>2 DEF Informed
  <2>3. CASE d # None /\ e.born = d.born /\ d.version < e.version
    <3>1. d.version \in Nat /\ e.version \in Nat
      BY <1>1, <1>2, <2>3 DEF Later, Documents
    <3>2. r.version <= d.version
      BY <1>1, <1>2, <2>3, <3>1 DEF Informed
    <3> QED
      BY <1>1, <2>3, <3>1, <3>2
  <2> QED
    BY <1>1, <1>2, <2>1, <2>2, <2>3 DEF Moved
<1> QED
  BY <1>1, <1>2 DEF Informed

-----------------------------------------------------------------------------
(* The invariant. *)

\* What a call will show.
Shot(r) ==
  IF r.at # "answered" THEN Nothing
  ELSE IF r.tool \in Looks THEN r.answer ELSE r.answer.selected

CallInformed(r) == TrueOf(Shot(r), World) /\ Informed(r, World)

ShownIsTrue == TrueOf(view.selected, World) /\ Range(view.selected.text) \subseteq seen
CallsInformed == \A c \in Calls : call[c] # None => CallInformed(call[c])
NamesAreUsed == \A p \in Paths : docs[p] # None => docs[p].born \in Used
PiecesBounded == count.pieces \in 1 .. MaxPieces

OInv == IInv /\ ShownIsTrue /\ CallsInformed /\ NamesAreUsed /\ PiecesBounded

\* In the first state nothing is shown and nothing is under way.
LEMMA InitOverwrite == Init => OInv
<1> SUFFICES ASSUME Init PROVE OInv
  OBVIOUS
<1>1. IInv
  BY InitInvariant
<1>2. PiecesBounded
  BY BoundAssumption DEF Init, PiecesBounded
<1>3. NamesAreUsed
  BY DEF Init, NamesAreUsed, Used, Document
<1>4. ShownIsTrue
  BY DEF Init, ShownIsTrue, TrueOf, Nothing, Range
<1> QED
  BY <1>1, <1>2, <1>3, <1>4 DEF OInv, Init, CallsInformed

\* What a call was made from is a snapshot.
LEMMA ShotIsSnapshot == ASSUME NEW r, CallOK(r) PROVE Shot(r) \in Snapshots
BY DEF CallOK, CallRecords, Shot, Snapshots, Responses, Looks, Mutations

\* A step after which the world is later keeps what it does not touch.
LEMMA OverwriteStep ==
  ASSUME OInv, IInv', Later(World, World'), PiecesBounded',
         \/ view'.selected = view.selected
         \/ ShownIsTrue',
         \A c \in Calls : call'[c] # None =>
           \/ call'[c] = call[c]
           \/ CallInformed(call'[c])
           \/ TrueOf(Shot(call'[c]), World') /\ Informed(call'[c], World')
  PROVE  OInv'
<1>1. Later(World, World') /\ view.selected \in Snapshots /\ seen \subseteq seen'
  BY DEF OInv, IInv, TypeOK, Views, Later, World
<1>2. ShownIsTrue'
  <2> SUFFICES ASSUME view'.selected = view.selected PROVE ShownIsTrue'
    OBVIOUS
  <2>1. TrueOf(view.selected, World')
    BY <1>1, TrueStays DEF OInv, ShownIsTrue
  <2> QED
    BY <1>1, <2>1 DEF OInv, ShownIsTrue
<1>3. ASSUME NEW r, CallOK(r), CallInformed(r)
      PROVE  TrueOf(Shot(r), World') /\ Informed(r, World')
  <2>1. r \in CallRecords /\ (r.tool \in Mutations => r.path \in Paths)
    BY <1>3 DEF CallOK, CallRecords, Mutations
  <2>2. Shot(r) \in Snapshots
    BY <1>3, ShotIsSnapshot
  <2> QED
    BY <1>1, <1>3, <2>1, <2>2, TrueStays, InformedStays DEF CallInformed
<1>4. ASSUME NEW c \in Calls, call'[c] # None
      PROVE  TrueOf(Shot(call'[c]), World') /\ Informed(call'[c], World')
  <2>1. CASE call'[c] = call[c]
    BY <1>3, <1>4, <2>1 DEF OInv, CallsInformed, IInv, TypeOK
  <2>2. CASE CallInformed(call'[c])
    <3>1. CallOK(call'[c])
      BY <1>4 DEF IInv, TypeOK
    <3> QED
      BY <1>3, <2>2, <3>1
  <2> QED
    BY <1>4, <2>1, <2>2
<1>5. CallsInformed'
  BY <1>4 DEF CallsInformed, CallInformed
<1>6. NamesAreUsed'
  BY DEF Later, World, NamesAreUsed
<1> QED
  BY <1>2, <1>5, <1>6 DEF OInv

\* Steps that change no document.
LEMMA WorldStays ==
  ASSUME OInv, UNCHANGED <<docs, record>>, seen \subseteq seen',
         count'.pieces \in {count.pieces, count.pieces + 1}
  PROVE  Later(World, World')
<1>1. count.pieces \in Nat /\ docs \in [Paths -> {None} \cup Documents]
  BY DEF OInv, IInv, TypeOK
<1>2. 1 .. count.pieces \subseteq 1 .. count'.pieces
  BY <1>1
<1>3. Used \subseteq Used'
  BY <1>2 DEF Used
<1> QED
  BY <1>1, <1>3 DEF Later, World, Moved, OInv, NamesAreUsed

\* Typing changes nothing that is shown of the store.
LEMMA TypingOverwrite == OInv /\ IInv' /\ (TypeDraft \/ TypeAppend) => OInv'
<1> SUFFICES ASSUME OInv, IInv', TypeDraft \/ TypeAppend PROVE OInv'
  OBVIOUS
<1>1. /\ view \in Views /\ count.pieces \in Nat /\ count.pieces < MaxPieces
      /\ count \in [pieces : Nat, clicks : Keys, outside : Nat]
      /\ count' = [count EXCEPT !.pieces = @ + 1]
      /\ seen \subseteq seen' /\ UNCHANGED <<docs, record, call>>
  BY DEF OInv, IInv, TypeOK, TypeDraft, TypeAppend, Typed
<1>2. count'.pieces = count.pieces + 1 /\ PiecesBounded'
  BY <1>1, Constants DEF PiecesBounded
<1>3. view'.selected = view.selected
  BY <1>1 DEF TypeDraft, TypeAppend, Typed, Views
<1>4. Later(World, World')
  BY <1>1, <1>2, WorldStays
<1> QED
  BY <1>1, <1>2, <1>3, <1>4, OverwriteStep

\* Opening the editor, leaving it and naming a new file keep what is shown true.
LEMMA EditingOverwrite ==
  OInv /\ IInv' /\ (Edit \/ CancelEdit \/ \E p \in Paths : NewFile(p)) => OInv'
<1> SUFFICES ASSUME OInv, IInv', Edit \/ CancelEdit \/ \E p \in Paths : NewFile(p) PROVE OInv'
  OBVIOUS
<1>1. view \in Views /\ UNCHANGED <<docs, record, call, seen, count>>
  BY DEF OInv, IInv, TypeOK, Edit, CancelEdit, NewFile, Local
<1>2. view'.selected \in {view.selected, Nothing}
  BY <1>1 DEF Edit, CancelEdit, NewFile, Local, Views
<1>3. Later(World, World') /\ PiecesBounded'
  BY <1>1, WorldStays DEF OInv, PiecesBounded
<1>4. view'.selected = Nothing => ShownIsTrue'
  BY DEF ShownIsTrue, TrueOf, Nothing, Range
<1> QED
  BY <1>1, <1>2, <1>3, <1>4, OverwriteStep

\* A step of one call that changes no document.
LEMMA CallOverwrite ==
  ASSUME OInv, IInv', NEW c \in Calls, NEW r, call' = [call EXCEPT ![c] = r],
         r # None => CallInformed(r), UNCHANGED <<docs, record>>, seen \subseteq seen',
         count'.pieces = count.pieces,
         view'.selected = view.selected \/ ShownIsTrue'
  PROVE  OInv'
<1>1. call \in [Calls -> {None} \cup CallRecords]
  BY DEF OInv, IInv, TypeOK
<1>2. Later(World, World') /\ PiecesBounded'
  BY WorldStays DEF OInv, PiecesBounded
<1>3. \A d \in Calls : call'[d] # None => call'[d] = call[d] \/ CallInformed(call'[d])
  BY <1>1
<1> QED
  BY <1>2, <1>3, OverwriteStep

\* A call made from what is shown is informed.
LEMMA ClickOverwrite ==
  ASSUME OInv, IInv', NEW c \in Calls, NEW tool, NEW p, NEW content, NEW next,
         next \in {view, Saving}, Click(c, tool, p, content, next),
         tool \in Mutations => p = view.path
  PROVE  OInv'
<1> DEFINE r == [tool |-> tool, path |-> p, content |-> content, version |-> view.version,
                 key |-> view.key, of |-> view.selected.born, at |-> "sent",
                 heard |-> TRUE, answer |-> None]
<1>1. /\ call' = [call EXCEPT ![c] = r] /\ UNCHANGED <<docs, record, seen>>
      /\ count' = [count EXCEPT !.clicks = @ + 1] /\ view' = next
  BY DEF Click
<1>2. view \in Views /\ count \in [pieces : Nat, clicks : Keys, outside : Nat]
  BY DEF OInv, IInv, TypeOK
<1>3. count'.pieces = count.pieces /\ view'.selected = view.selected
  BY <1>1, <1>2 DEF Saving, Views
<1>4. Informed(r, World)
  <2> SUFFICES ASSUME tool \in Mutations, view.selected.born # None PROVE Informed(r, World)
    BY DEF Informed
  <2>1. view.selected # Nothing /\ view.selected \in Snapshots
    BY <1>2 DEF Nothing, Views
  <2>2. view.path = view.selected.path /\ view.version = view.selected.version
    BY <2>1 DEF OInv, IInv, ViewIsOneDocument
  <2>3. /\ TrueOf(view.selected, World) /\ Range(view.selected.text) \subseteq seen
        /\ World.seen = seen /\ view.selected.version \in Nat
    BY <2>1 DEF OInv, ShownIsTrue, World, Snapshots
  <2> QED
    BY <2>1, <2>2, <2>3 DEF TrueOf, Informed
<1>5. TrueOf(Shot(r), World)
  BY DEF Shot, TrueOf
<1> HIDE DEF r
<1> QED
  BY <1>1, <1>3, <1>4, <1>5, CallOverwrite DEF CallInformed

\* Every step of the user keeps what is shown true and the calls informed.
LEMMA UserOverwrite == ASSUME NEW c \in Calls PROVE OInv /\ IInv' /\ UserNext(c) => OInv'
<1> SUFFICES ASSUME OInv, IInv', UserNext(c) PROVE OInv'
  OBVIOUS
<1>1. CASE LoadDirectory(c)
  BY <1>1, ClickOverwrite DEF LoadDirectory, Mutations
<1>2. CASE \E p \in Paths : OpenDocument(c, p)
  BY <1>2, ClickOverwrite DEF OpenDocument, Mutations
<1>3. CASE Save(c)
  BY <1>3, ClickOverwrite DEF Save
<1>4. CASE AppendText(c)
  BY <1>4, ClickOverwrite DEF AppendText
<1>5. CASE ConfirmDelete(c)
  BY <1>5, ClickOverwrite DEF ConfirmDelete
<1> QED
  BY <1>1, <1>2, <1>3, <1>4, <1>5 DEF UserNext

\* A document that is there is shown as it is.
LEMMA SnapshotIsTrue ==
  ASSUME OInv, NEW p \in Paths, docs[p] # None
  PROVE  TrueOf(Snapshot(p, docs[p]), World)
BY DEF OInv, NamesAreUsed, TrueOf, Snapshot, World

\* A call that goes on with what it was sent with.
LEMMA StaysInformed ==
  ASSUME OInv, NEW c \in Calls, call[c] # None, NEW r,
         r.tool = call[c].tool, r.path = call[c].path, r.of = call[c].of,
         r.version = call[c].version
  PROVE  Informed(r, World)
BY DEF OInv, CallsInformed, CallInformed, Informed

\* A tool that looks a document up answers what is true of it.
LEMMA LookOverwrite == ASSUME NEW c \in Calls PROVE OInv /\ IInv' /\ Look(c) => OInv'
<1> SUFFICES ASSUME OInv, IInv', Look(c) PROVE OInv'
  OBVIOUS
<1> DEFINE answer == IF call[c].tool = "list" THEN Nothing
                     ELSE Snapshot(call[c].path, docs[call[c].path])
           r == [call[c] EXCEPT !.at = "answered", !.answer = answer]
<1>1. /\ call[c] \in CallRecords /\ call[c].tool \in Looks /\ call[c] # None
      /\ call[c].tool = "read" => call[c].path \in Paths /\ docs[call[c].path] # None
      /\ call \in [Calls -> {None} \cup CallRecords]
  BY DEF OInv, IInv, TypeOK, CallOK, Look, Looks
<1>2. call' = [call EXCEPT ![c] = r] /\ UNCHANGED <<docs, record, seen, count, view>>
  BY <1>1 DEF Look
<1>3. TrueOf(answer, World)
  BY <1>1, SnapshotIsTrue DEF Looks, TrueOf
<1> HIDE DEF answer
<1>4. /\ r.tool = call[c].tool /\ r.at = "answered" /\ r.answer = answer
      /\ r.path = call[c].path /\ r.of = call[c].of /\ r.version = call[c].version
  BY <1>1 DEF CallRecords
<1> HIDE DEF r
<1>5. CallInformed(r)
  BY <1>1, <1>3, <1>4, StaysInformed DEF CallInformed, Shot
<1> QED
  BY <1>2, <1>5, CallOverwrite

\* A tool that reads back answers what is true of the document.
LEMMA RefreshOverwrite == ASSUME NEW c \in Calls PROVE OInv /\ IInv' /\ Refresh(c) => OInv'
<1> SUFFICES ASSUME OInv, IInv', Refresh(c) PROVE OInv'
  OBVIOUS
<1> DEFINE doc == IF call[c].tool = "delete" /\ call[c].answer.outcome \in {"ok", "replay"}
                  THEN Nothing ELSE ReadBack(call[c].path)
           answer == MutationResponse(call[c], doc)
           r == [call[c] EXCEPT !.at = "answered", !.answer = answer]
<1>1. /\ call[c] \in CallRecords /\ call[c] # None
      /\ call[c].tool \in Mutations /\ call[c].tool \notin Looks /\ call[c].path \in Paths
      /\ call \in [Calls -> {None} \cup CallRecords]
  BY DEF OInv, IInv, TypeOK, CallOK, CallRecords, Refresh, Looks, Mutations
<1>2. call' = [call EXCEPT ![c] = r] /\ UNCHANGED <<docs, record, seen, count, view>>
  BY <1>1 DEF Refresh
<1>3. TrueOf(doc, World)
  <2>1. TrueOf(Nothing, World)
    BY DEF TrueOf
  <2>2. TrueOf(ReadBack(call[c].path), World)
    BY <1>1, <2>1, SnapshotIsTrue DEF ReadBack
  <2> QED
    BY <2>1, <2>2
<1>4. answer.selected = doc
  BY DEF MutationResponse
<1> HIDE DEF answer, doc
<1>5. /\ r.tool = call[c].tool /\ r.at = "answered" /\ r.answer = answer
      /\ r.path = call[c].path /\ r.of = call[c].of /\ r.version = call[c].version
  BY <1>1 DEF CallRecords
<1> HIDE DEF r
<1>6. CallInformed(r)
  BY <1>1, <1>3, <1>4, <1>5, StaysInformed DEF CallInformed, Shot
<1> QED
  BY <1>2, <1>6, CallOverwrite

\* An answer that arrives shows what is true of its document.
LEMMA DeliverOverwrite == ASSUME NEW c \in Calls PROVE OInv /\ IInv' /\ Deliver(c) => OInv'
<1> SUFFICES ASSUME OInv, IInv', Deliver(c) PROVE OInv'
  OBVIOUS
<1>1. /\ call[c] \in CallRecords /\ call[c] # None /\ call[c].at = "answered"
      /\ call[c].tool \in Mutations \cup Looks /\ view \in Views
      /\ call' = [call EXCEPT ![c] = None] /\ view' = Applied(call[c])
      /\ UNCHANGED <<docs, record, count>>
      /\ seen' = seen \cup Range(view'.selected.text)
      /\ CallOK(call[c])
  BY DEF OInv, IInv, TypeOK, Deliver, CallRecords
<1>2. view'.selected = Shot(call[c])
  BY <1>1 DEF Applied, Shot, Looks, Mutations, Views
<1>3. Later(World, World')
  BY <1>1, WorldStays
<1>4. TrueOf(view'.selected, World')
  <2>1. TrueOf(Shot(call[c]), World) /\ Shot(call[c]) \in Snapshots
    BY <1>1, ShotIsSnapshot DEF OInv, CallsInformed, CallInformed
  <2> QED
    BY <1>2, <1>3, <2>1, TrueStays
<1>5. ShownIsTrue'
  BY <1>1, <1>4 DEF ShownIsTrue
<1> QED
  BY <1>1, <1>5, CallOverwrite

\* A call whose answer is given up shows nothing new.
LEMMA GiveUpOverwrite == ASSUME NEW c \in Calls PROVE OInv /\ IInv' /\ GiveUp(c) => OInv'
<1> SUFFICES ASSUME OInv, IInv', GiveUp(c) PROVE OInv'
  OBVIOUS
<1> DEFINE r == [call[c] EXCEPT !.heard = FALSE]
<1>1. /\ call[c] \in CallRecords /\ call[c] # None /\ view \in Views
      /\ call \in [Calls -> {None} \cup CallRecords]
      /\ UNCHANGED <<docs, record, seen, count>> /\ view' = AfterError(call[c])
  BY DEF OInv, IInv, TypeOK, GiveUp
<1>2. view'.selected = view.selected
  BY <1>1 DEF AfterError, Views
<1>3. CASE call' = [call EXCEPT ![c] = None]
  BY <1>1, <1>2, <1>3, CallOverwrite
<1>4. CASE call' = [call EXCEPT ![c].heard = FALSE]
  <2>1. call' = [call EXCEPT ![c] = r]
    BY <1>1, <1>4
  <2>2. /\ r.tool = call[c].tool /\ r.path = call[c].path /\ r.of = call[c].of
        /\ r.version = call[c].version /\ Shot(r) = Shot(call[c])
    BY <1>1 DEF CallRecords, Shot
  <2> HIDE DEF r
  <2>3. CallInformed(r)
    BY <1>1, <2>2, StaysInformed DEF CallInformed, OInv, CallsInformed
  <2> QED
    BY <1>1, <1>2, <2>1, <2>3, CallOverwrite
<1> QED
  BY <1>3, <1>4 DEF GiveUp

\* A request carried out leaves its call informed, or none.
LEMMA ExecutedCall ==
  ASSUME OInv, NEW c \in Calls, Execute(c)
  PROVE  \E r : call' = [call EXCEPT ![c] = r] /\ (r # None => CallInformed(r))
<1>1. call[c] \in CallRecords /\ call[c] # None
  BY DEF OInv, IInv, TypeOK, Execute
<1> DEFINE answered(version) ==
             [call[c] EXCEPT !.at = "refresh",
                !.answer = [outcome |-> Outcome(call[c]), version |-> version]]
<1>2. PICK version :
        call' = [call EXCEPT ![c] = IF ~call[c].heard THEN None ELSE answered(version)]
  <2>1. CASE Outcome(call[c]) = "ok"
    BY <2>1 DEF Execute
  <2>2. CASE Outcome(call[c]) # "ok"
    BY <2>2 DEF Execute
  <2> QED
    BY <2>1, <2>2
<1> DEFINE r == answered(version)
<1>3. /\ r.at = "refresh" /\ r.tool = call[c].tool /\ r.path = call[c].path
      /\ r.of = call[c].of /\ r.version = call[c].version
  BY <1>1 DEF CallRecords
<1> HIDE DEF r
<1>4. CallInformed(r)
  BY <1>1, <1>3, StaysInformed DEF CallInformed, Shot, TrueOf
<1> WITNESS IF ~call[c].heard THEN None ELSE r
<1> QED
  BY <1>2, <1>4 DEF r

\* A new document's name is new, and one that stays gets a later version.
LEMMA WrittenMoves ==
  ASSUME OInv, NEW c \in Calls, Execute(c), Outcome(call[c]) = "ok"
  PROVE  /\ docs' = [docs EXCEPT ![call[c].path] = Written(call[c])]
         /\ Used \subseteq Used'
         /\ Moved(docs[call[c].path], Written(call[c]), Used)
         /\ Written(call[c]) # None => Written(call[c]).born \in Used'
<1> DEFINE p == call[c].path
           k == call[c].key
<1>1. /\ call[c] \in CallRecords /\ p \in Paths /\ k \in Keys
      /\ docs \in [Paths -> {None} \cup Documents] /\ record \in [Keys -> {None} \cup Records]
      /\ UNCHANGED count /\ count.pieces \in Nat /\ count.pieces <= MaxPieces
  BY Constants DEF OInv, IInv, TypeOK, CallOK, CallRecords, Execute, Mutations, PiecesBounded
<1>2. /\ docs' = [docs EXCEPT ![p] = Written(call[c])]
      /\ record' = [record EXCEPT ![k] =
                       [request |-> Request(call[c]), version |-> ResultVersion(call[c])]]
      /\ record[k] = None
  BY DEF Execute, Outcome
<1>3. [request |-> Request(call[c]), version |-> ResultVersion(call[c])] # None
  <2>1. Request(call[c]) \in Requests
    BY <1>1 DEF Request, Requests, CallRecords, OInv, IInv, TypeOK, CallOK, Execute
  <2>2. ResultVersion(call[c]) \in Nat
    BY <1>1 DEF ResultVersion, Documents
  <2> QED
    BY <2>1, <2>2, NoneAssumption DEF Records
<1>4. Used \subseteq Used' /\ CreatedBy(k) \in Used'
  BY <1>1, <1>2, <1>3 DEF Used
<1>5. CreatedBy(k) \notin Used
  <2>1. \A j \in Keys : j \in Nat
    BY Constants DEF Keys
  <2>2. \A j \in Keys : CreatedBy(j) = CreatedBy(k) => j = k
    BY <1>1, <2>1, Constants DEF CreatedBy
  <2>3. CreatedBy(k) \notin 1 .. count.pieces
    BY <1>1, <2>1, Constants DEF CreatedBy
  <2> QED
    BY <1>2, <2>2, <2>3 DEF Used
<1>6. /\ Moved(docs[p], Written(call[c]), Used)
      /\ Written(call[c]) # None => Written(call[c]).born \in Used'
  <2>1. CASE call[c].tool = "delete"
    BY <2>1 DEF Written, Moved
  <2>2. CASE call[c].tool # "delete" /\ docs[p] = None
    <3>1. Written(call[c]).born = CreatedBy(k)
      BY <2>2 DEF Written, Document
    <3> QED
      BY <1>4, <1>5, <3>1 DEF Moved
  <2>3. CASE call[c].tool # "delete" /\ docs[p] # None
    <3>1. docs[p].version \in Nat
      BY <1>1, <2>3 DEF Documents
    <3>2. Written(call[c]).born = docs[p].born /\ Written(call[c]).version = docs[p].version + 1
      BY <2>3 DEF Written, Document
    <3>3. docs[p].born \in Used
      BY <1>1, <2>3 DEF OInv, NamesAreUsed
    <3> QED
      BY <1>4, <2>3, <3>1, <3>2, <3>3 DEF Moved
  <2> QED
    BY <2>1, <2>2, <2>3
<1> QED
  BY <1>2, <1>4, <1>6

\* A request carried out keeps what is shown true.
LEMMA ExecuteOverwrite == ASSUME NEW c \in Calls PROVE OInv /\ IInv' /\ Execute(c) => OInv'
<1> SUFFICES ASSUME OInv, IInv', Execute(c) PROVE OInv'
  OBVIOUS
<1>1. PICK r : call' = [call EXCEPT ![c] = r] /\ (r # None => CallInformed(r))
  BY ExecutedCall
<1>2. /\ UNCHANGED <<view, seen, count>> /\ call \in [Calls -> {None} \cup CallRecords]
      /\ call[c].path \in Paths
      /\ docs \in [Paths -> {None} \cup Documents] /\ docs' \in [Paths -> {None} \cup Documents]
  BY DEF OInv, IInv, TypeOK, CallOK, Execute, Mutations
<1>3. CASE Outcome(call[c]) # "ok"
  <2>1. UNCHANGED <<docs, record>>
    BY <1>3 DEF Execute
  <2> QED
    BY <1>1, <1>2, <2>1, CallOverwrite
<1>4. CASE Outcome(call[c]) = "ok"
  <2>1. /\ docs' = [docs EXCEPT ![call[c].path] = Written(call[c])]
        /\ Used \subseteq Used'
        /\ Moved(docs[call[c].path], Written(call[c]), Used)
        /\ Written(call[c]) # None => Written(call[c]).born \in Used'
    BY <1>4, WrittenMoves
  <2>2. \A p \in Paths : Moved(docs[p], docs'[p], Used)
    BY <1>2, <2>1 DEF Moved
  <2>3. \A p \in Paths : docs'[p] # None => docs'[p].born \in Used'
    BY <1>2, <2>1 DEF OInv, NamesAreUsed
  <2>4. Later(World, World')
    BY <1>2, <2>1, <2>2, <2>3 DEF Later, World
  <2>5. PiecesBounded'
    BY <1>2 DEF OInv, PiecesBounded
  <2>6. \A d \in Calls : call'[d] # None => call'[d] = call[d] \/ CallInformed(call'[d])
    BY <1>1, <1>2
  <2> QED
    BY <1>2, <2>4, <2>5, <2>6, OverwriteStep
<1> QED
  BY <1>3, <1>4

\* A switch of agents and what others write keep what is shown true.
LEMMA OutsideOverwrite ==
  OInv /\ IInv' /\ (Switch \/ \E p \in Paths : Others(p) \/ OthersDelete(p)) => OInv'
<1> SUFFICES ASSUME OInv, IInv', Switch \/ \E p \in Paths : Others(p) \/ OthersDelete(p)
             PROVE  OInv'
  OBVIOUS
<1>1. /\ UNCHANGED <<record, call, view, seen>>
      /\ docs \in [Paths -> {None} \cup Documents] /\ docs' \in [Paths -> {None} \cup Documents]
      /\ count \in [pieces : Nat, clicks : Keys, outside : Nat]
      /\ count.pieces \in Nat /\ count.pieces <= MaxPieces
  BY Constants DEF OInv, IInv, TypeOK, PiecesBounded, Switch, Others, OthersDelete
<1>2. CASE Switch
  <2>1. count'.pieces = count.pieces /\ UNCHANGED docs
    BY <1>1, <1>2 DEF Switch
  <2>2. Later(World, World') /\ PiecesBounded'
    BY <1>1, <2>1, WorldStays DEF OInv, PiecesBounded
  <2> QED
    BY <1>1, <2>2, OverwriteStep
<1>3. ASSUME NEW p \in Paths, OthersDelete(p) PROVE OInv'
  <2>1. docs' = [docs EXCEPT ![p] = None] /\ count'.pieces = count.pieces
    BY <1>1, <1>3 DEF OthersDelete
  <2>2. Used' = Used
    BY <1>1, <2>1 DEF Used
  <2>3. Later(World, World')
    BY <1>1, <2>1, <2>2 DEF Later, World, Moved, OInv, NamesAreUsed
  <2>4. PiecesBounded'
    BY <2>1 DEF OInv, PiecesBounded
  <2> QED
    BY <1>1, <2>3, <2>4, OverwriteStep
<1>4. ASSUME NEW p \in Paths, Others(p) PROVE OInv'
  <2> DEFINE n == count.pieces + 1
             doc == IF docs[p] = None THEN Document(1, <<n>>, n)
                    ELSE Document(docs[p].version + 1, Append(docs[p].text, n), docs[p].born)
  <2>1. docs' = [docs EXCEPT ![p] = doc] /\ count'.pieces = n /\ count.pieces < MaxPieces
    BY <1>1, <1>4 DEF Others
  <2>2. Used \subseteq Used' /\ n \in Used'
    <3>1. 1 .. count.pieces \subseteq 1 .. n /\ n \in 1 .. n
      BY <1>1
    <3> QED
      BY <1>1, <2>1, <3>1 DEF Used
  <2>3. n \notin Used
    <3>1. n \notin 1 .. count.pieces
      BY <1>1
    <3>2. \A j \in Keys : n # CreatedBy(j)
      BY <1>1, <2>1, Constants DEF CreatedBy, Keys
    <3> QED
      BY <3>1, <3>2 DEF Used
  <2>4. Moved(docs[p], doc, Used) /\ doc.born \in Used'
    <3>1. CASE docs[p] = None
      BY <2>2, <2>3, <3>1 DEF Moved, Document
    <3>2. CASE docs[p] # None
      <4>1. docs[p].version \in Nat /\ docs[p].born \in Used
        BY <1>1, <3>2 DEF Documents, OInv, NamesAreUsed
      <4>2. doc.version = docs[p].version + 1 /\ doc.born = docs[p].born
        BY <3>2 DEF Document
      <4> HIDE DEF doc
      <4> QED
        BY <2>2, <3>2, <4>1, <4>2 DEF Moved
    <3> QED
      BY <3>1, <3>2
  <2> HIDE DEF doc
  <2>5. Later(World, World')
    BY <1>1, <2>1, <2>2, <2>4 DEF Later, World, Moved, OInv, NamesAreUsed
  <2>6. PiecesBounded'
    BY <1>1, <2>1, Constants DEF PiecesBounded
  <2> QED
    BY <1>1, <2>5, <2>6, OverwriteStep
<1> QED
  BY <1>2, <1>3, <1>4

\* Every step keeps what is shown true and the calls informed.
LEMMA StepOverwrite == OInv /\ [Next]_vars => OInv'
<1> SUFFICES ASSUME OInv, [Next]_vars PROVE OInv'
  OBVIOUS
<1>1. IInv'
  BY StepInvariant DEF OInv
<1>2. CASE Next
  <2>1. ASSUME NEW c \in Calls, CallNext(c) PROVE OInv'
    BY <1>1, <2>1, ExecuteOverwrite, RefreshOverwrite, LookOverwrite, DeliverOverwrite,
       GiveUpOverwrite DEF CallNext
  <2> QED
    BY <1>1, <1>2, <2>1, TypingOverwrite, EditingOverwrite, UserOverwrite, OutsideOverwrite
       DEF Next
<1>3. CASE UNCHANGED vars
  <2>1. World' = World
    BY <1>3 DEF vars, World, Used
  <2> QED
    BY <1>1, <1>3, <2>1 DEF vars, OInv, ShownIsTrue, CallsInformed, CallInformed, NamesAreUsed,
                            PiecesBounded, Used
<1> QED
  BY <1>2, <1>3

\* In every reachable state what the app shows was true of the document it names,
\* and each change under way was made from what its user had been shown.
THEOREM OverwriteInvariance == Spec => []OInv
BY InitOverwrite, StepOverwrite, PTL DEF Spec

\* A call removes nothing from a document that the user did not see or type.
THEOREM NothingBlindlyOverwritten == Spec => NoBlindOverwrite
<1> DEFINE Hits(c, p) == /\ docs[p] # docs'[p] /\ docs[p] # None
                         /\ call[c] # call'[c] /\ call[c] # None /\ call[c].of = docs[p].born
           Kept(p) == IF docs'[p] = None THEN {} ELSE Range(docs'[p].text)
<1>1. ASSUME OInv, Next, NEW c \in Calls, NEW p \in Paths, Hits(c, p)
      PROVE  Range(docs[p].text) \subseteq seen \cup Kept(p)
  <2>1. /\ call \in [Calls -> {None} \cup CallRecords] /\ docs \in [Paths -> {None} \cup Documents]
        /\ docs[p] \in Documents
    BY <1>1 DEF OInv, IInv, TypeOK
  <2>2. Execute(c)
    <3>1. ASSUME NEW d \in Calls, Execute(d) PROVE d = c
      <4>1. PICK r : call' = [call EXCEPT ![d] = r]
        BY <1>1, <3>1, ExecutedCall
      <4> QED
        BY <1>1, <2>1, <4>1
    <3>2. ASSUME NEW d \in Calls, UserNext(d) PROVE FALSE
      BY <1>1, <3>2 DEF UserNext, LoadDirectory, OpenDocument, Save, AppendText, ConfirmDelete, Click
    <3>3. ASSUME NEW d \in Calls, Refresh(d) \/ Look(d) \/ Deliver(d) \/ GiveUp(d) PROVE FALSE
      BY <1>1, <3>3 DEF Refresh, Look, Deliver, GiveUp
    <3> QED
      BY <1>1, <3>1, <3>2, <3>3
         DEF Next, CallNext, TypeDraft, TypeAppend, Typed, Edit, CancelEdit, NewFile, Local,
             Others, OthersDelete, Switch
  <2>3. Outcome(call[c]) = "ok"
    BY <1>1, <2>2 DEF Execute
  <2>4. /\ call[c].path \in Paths /\ call[c].tool \in Mutations
        /\ docs' = [docs EXCEPT ![call[c].path] = Written(call[c])]
    BY <1>1, <2>2, <2>3 DEF Execute, OInv, IInv, TypeOK, CallOK, Mutations
  <2>5. call[c].path = p
    BY <1>1, <2>1, <2>4
  <2>6. call[c].version = docs[p].version
    BY <1>1, <2>3, <2>5 DEF Outcome
  <2>7. Range(docs[p].text) \subseteq seen
    <3>1. call[c].of # None /\ docs[p].version \in Nat
      BY <1>1, <2>1, Constants DEF Documents
    <3>2. Informed(call[c], World)
      BY <1>1 DEF OInv, CallsInformed, CallInformed
    <3> QED
      BY <1>1, <2>4, <2>5, <2>6, <3>1, <3>2 DEF Informed, World
  <2> QED
    BY <2>7
<1>2. OInv /\ [Next]_vars => [\A c \in Calls, p \in Paths : Hits(c, p) =>
        Range(docs[p].text) \subseteq seen \cup Kept(p)]_vars
  BY <1>1
<1> QED
  BY <1>2, OverwriteInvariance, PTL DEF Spec, NoBlindOverwrite
=============================================================================
