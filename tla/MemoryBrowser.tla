------------------------------ MODULE MemoryBrowser ------------------------------
(***************************************************************************)
(* The memory browser (mcp_app/app.py): the state of one open app, its     *)
(* user, and the app's tools on the server, each of which changes the      *)
(* store and then reads back for its answer.  Others write the agent's     *)
(* documents meanwhile, the session of the host may come to stand for      *)
(* another agent, answers are lost, and a call that the app has given up   *)
(* may still be carried out.  The store is an operation per step, as       *)
(* MemoryStore and MemoryReaders allow, with keys that do not expire.      *)
(*                                                                         *)
(* Texts are sequences of pieces; every piece that is typed, by the user   *)
(* or by others, is a new number.                                          *)
(***************************************************************************)
EXTENDS Naturals, Sequences, FiniteSets

CONSTANTS Paths, First, \* and the one that has a document when the app is opened
          Places,       \* for calls that are under way at once, 1 .. Places
          None,
          MaxPieces, MaxClicks, MaxOutside  \* bounds of the model

VARIABLES
  docs,     \* the documents of the agent the app was opened for
  session,  \* whether the host's session stands for that agent
  record,   \* the store's idempotency records
  call,     \* the calls under way
  view,     \* the app's state: what its user sees
  seen,     \* pieces the user has typed or been shown
  told,     \* pieces whose append the user was told to be in conflict
  count     \* what the bounds count

vars == <<docs, session, record, call, view, seen, told, count>>

ASSUME BoundAssumption ==
  /\ {Places, MaxPieces, MaxClicks, MaxOutside} \subseteq Nat
  /\ First \in Paths /\ MaxPieces > 0

Calls == 1 .. Places
Keys == 0 .. MaxClicks
Foreign == 0  \* what stands in every document of another agent
CreatedBy(key) == MaxPieces + 1 + key  \* names a document that the app has created
Range(text) == {text[i] : i \in DOMAIN text}

Document(version, text, born) == [version |-> version, text |-> text, born |-> born]

\* What an answer or the app says of an open document.
Nothing == [path |-> None, version |-> None, text |-> <<>>, born |-> None]
Snapshot(p, doc) == [path |-> p, version |-> doc.version, text |-> doc.text, born |-> doc.born]

Mutations == {"save", "append", "delete"}

-----------------------------------------------------------------------------
(* Types. *)

Texts == Seq(Nat \ {0})
Documents == [version : Nat, text : Texts, born : Nat \ {0}]
Snapshots == {Nothing} \cup [path : Paths, version : Nat, text : Texts, born : Nat \ {0}]
Looks == {"list", "read"}
Outcomes == {"ok", "replay", "version_conflict", "idempotency_conflict"}
Requests == [tool : Mutations, path : Paths, content : Texts, version : Nat \cup {None}]
Results == [outcome : Outcomes, version : Nat \cup {None}]
Responses == [outcome : Outcomes, selected : Snapshots, path : Paths \cup {None},
              draft : Texts, append : Texts, version : Nat \cup {None}]
Views == [selected : Snapshots, path : Paths \cup {None}, draft : Texts, append : Texts,
          version : Nat \cup {None}, editing : BOOLEAN, saving : BOOLEAN, key : Keys]
CallRecords ==
  [tool : Mutations \cup Looks, path : Paths \cup {None}, content : Texts,
   version : Nat \cup {None}, key : Keys, of : Nat \cup {None},
   at : {"sent", "refresh", "answered"}, heard : BOOLEAN,
   answer : {None} \cup Snapshots \cup Results \cup Responses]

Records == [request : Requests, version : Nat]

ASSUME NoneAssumption ==
  None \notin Paths /\ None \notin Nat /\ None \notin CallRecords /\ None \notin Records

\* What is shown of a document carries its path and version.
OneDocument(v) ==
  v.selected # Nothing => v.path = v.selected.path /\ v.version = v.selected.version

\* What an answer holds at each stage of a call.
CallOK(r) ==
  /\ r \in CallRecords
  /\ r.tool # "list" => r.path \in Paths
  /\ r.tool \in Looks => r.at # "refresh"
  /\ r.at = "refresh" => r.answer \in Results
  /\ r.at = "answered" /\ r.tool \in Looks => r.answer \in Snapshots
  /\ r.at = "answered" /\ r.tool \in Mutations =>
       r.answer \in Responses /\ OneDocument(r.answer)

\* Type invariant.
TypeOK ==
  /\ docs \in [Paths -> {None} \cup Documents]
  /\ session \in BOOLEAN
  /\ record \in [Keys -> {None} \cup Records]
  /\ call \in [Calls -> {None} \cup CallRecords]
  /\ \A c \in Calls : call[c] # None => CallOK(call[c])
  /\ view \in Views
  /\ seen \subseteq Nat /\ told \subseteq Nat
  /\ count \in [pieces : Nat, clicks : Keys, outside : Nat]

-----------------------------------------------------------------------------
(* Init: the app opens with nothing selected; others have written one      *)
(* document.                                                               *)

Init ==
  /\ docs = [p \in Paths |-> IF p = First THEN Document(1, <<1>>, 1) ELSE None]
  /\ session = TRUE
  /\ record = [k \in Keys |-> None]
  /\ call = [c \in Calls |-> None]
  /\ view = [selected |-> Nothing, path |-> None, draft |-> <<>>, append |-> <<>>,
             version |-> None, editing |-> FALSE, saving |-> FALSE, key |-> 0]
  /\ seen = {} /\ told = {}
  /\ count = [pieces |-> 1, clicks |-> 0, outside |-> 0]

-----------------------------------------------------------------------------
(* The user. *)

HasVersion == view.path # None /\ view.version # None

Typed(change) ==
  /\ count.pieces < MaxPieces
  /\ view' = change
  /\ count' = [count EXCEPT !.pieces = @ + 1]
  /\ seen' = seen \cup {count.pieces + 1}
  /\ UNCHANGED <<docs, session, record, call, told>>

TypeDraft ==
  /\ view.editing /\ view.path # None
  /\ Typed([view EXCEPT !.draft = Append(@, count.pieces + 1)])

TypeAppend ==
  /\ HasVersion /\ ~view.editing
  /\ Typed([view EXCEPT !.append = <<count.pieces + 1>>])

Local(change) == view' = change /\ UNCHANGED <<docs, session, record, call, seen, told, count>>

Edit == HasVersion /\ ~view.editing /\ Local([view EXCEPT !.editing = TRUE])

CancelEdit ==
  /\ view.editing /\ view.path # None
  /\ Local(IF view.version = None
           THEN [view EXCEPT !.path = None, !.draft = <<>>, !.editing = FALSE]
           ELSE [view EXCEPT !.draft = view.selected.text, !.editing = FALSE])

\* "Add file", "Continue"
NewFile(p) ==
  Local([view EXCEPT !.selected = Nothing, !.path = p, !.draft = <<>>, !.append = <<>>,
                     !.version = None, !.editing = TRUE])

\* A click that calls a tool with what the app's state holds; "of" only names, for
\* NoBlindOverwrite, the document that was shown.
Click(c, tool, p, content, next) ==
  /\ count.clicks < MaxClicks
  /\ call[c] = None /\ \A d \in Calls : call[d] = None => c <= d
  /\ call' = [call EXCEPT ![c] =
       [tool |-> tool, path |-> p, content |-> content, version |-> view.version,
        key |-> view.key, of |-> view.selected.born, at |-> "sent", heard |-> TRUE,
        answer |-> None]]
  /\ view' = next
  /\ count' = [count EXCEPT !.clicks = @ + 1]
  /\ UNCHANGED <<docs, session, record, seen, told>>

LoadDirectory(c) == Click(c, "list", None, <<>>, view)
OpenDocument(c, p) == Click(c, "read", p, <<>>, view)

Saving == [view EXCEPT !.saving = TRUE]

Save(c) ==
  /\ view.editing /\ view.path # None /\ ~view.saving
  /\ Click(c, "save", view.path, view.draft, Saving)

AppendText(c) ==
  /\ HasVersion /\ ~view.editing /\ ~view.saving /\ view.append # <<>>
  /\ Click(c, "append", view.path, view.append, Saving)

\* The button of the dialog does not wait for other calls.
ConfirmDelete(c) ==
  /\ HasVersion /\ ~view.editing
  /\ Click(c, "delete", view.path, <<>>, Saving)

-----------------------------------------------------------------------------
(* The server. *)

\* The key belongs to the tool, path, content and version it came with.
Request(r) == [tool |-> r.tool, path |-> r.path, content |-> r.content, version |-> r.version]

\* Mutant: the expected version of a replacement is not compared.
OutcomeUnchecked(r) ==
  LET doc == docs[r.path] IN
  IF record[r.key] # None
  THEN IF record[r.key].request = Request(r) THEN "replay" ELSE "idempotency_conflict"
  ELSE IF doc = None
  THEN CASE r.tool # "save" -> "missing"
         [] r.tool = "save" /\ r.version = None -> "ok"
         [] r.tool = "save" /\ r.version # None -> "version_conflict"
  ELSE IF r.version = None THEN "version_conflict" ELSE "ok"

Outcome(r) ==
  LET doc == docs[r.path] IN
  IF record[r.key] # None
  THEN IF record[r.key].request = Request(r) THEN "replay" ELSE "idempotency_conflict"
  ELSE IF doc = None
  THEN CASE r.tool # "save" -> "missing"
         [] r.tool = "save" /\ r.version = None -> "ok"
         [] r.tool = "save" /\ r.version # None -> "version_conflict"
  ELSE IF r.version # doc.version THEN "version_conflict" ELSE "ok"

Written(r) ==
  LET doc == docs[r.path]
      text == IF r.tool = "append" THEN doc.text \o r.content ELSE r.content
  IN
  IF r.tool = "delete" THEN None
  ELSE IF doc = None THEN Document(1, r.content, CreatedBy(r.key))
  ELSE Document(doc.version + 1, text, doc.born)

ResultVersion(r) == IF docs[r.path] = None THEN 1 ELSE docs[r.path].version + 1

\* The tool authorizes its call, for this agent and this app, and changes the store.  A
\* call that is denied, or finds no document, changes nothing; its error is GiveUp.
Execute(c) ==
  /\ call[c] # None /\ call[c].at = "sent" /\ call[c].tool \in Mutations
  /\ session
  /\ LET r == call[c]
         outcome == Outcome(r)
         done(version) ==
           call' = [call EXCEPT ![c] = IF ~r.heard THEN None ELSE
             [r EXCEPT !.at = "refresh", !.answer = [outcome |-> outcome, version |-> version]]]
     IN
     \/ /\ outcome = "ok"
        /\ docs' = [docs EXCEPT ![r.path] = Written(r)]
        /\ record' = [record EXCEPT ![r.key] =
                        [request |-> Request(r), version |-> ResultVersion(r)]]
        /\ done(ResultVersion(r))
     \/ /\ outcome \in {"replay", "version_conflict", "idempotency_conflict"}
        /\ done(IF outcome = "replay" THEN record[r.key].version ELSE None)
        /\ UNCHANGED <<docs, record>>
  /\ UNCHANGED <<session, view, seen, told, count>>

\* Mutant: reading back, the session is not compared with the app again.
ReadBackOfSession(p) ==
  IF session THEN IF docs[p] = None THEN Nothing ELSE Snapshot(p, docs[p])
  ELSE [path |-> p, version |-> 1, text |-> <<Foreign>>, born |-> Foreign]

\* _refresh_document: the session must stand for this agent still, or there is nothing.
ReadBack(p) ==
  IF session /\ docs[p] # None THEN Snapshot(p, docs[p]) ELSE Nothing

\* Mutant: the text of an append stays, ready to be appended again.
MutationResponseKept(r, doc) ==
  LET ok == r.answer.outcome \in {"ok", "replay"}
      found == doc # Nothing
  IN
  [outcome |-> r.answer.outcome,
   selected |-> doc,
   path |-> IF r.tool = "delete" /\ ok THEN None ELSE r.path,
   draft |-> IF r.tool = "save" /\ ~(ok /\ found) THEN r.content ELSE doc.text,
   append |-> IF r.tool = "append" THEN r.content ELSE <<>>,
   version |-> IF r.tool = "delete" /\ ok THEN None
               ELSE IF found THEN doc.version
               ELSE IF ok THEN r.answer.version
               ELSE IF r.tool = "save" THEN None ELSE r.version]

\* Mutant: the app is told the version it wrote, although it is shown a later text.
MutationResponseStale(r, doc) ==
  LET ok == r.answer.outcome \in {"ok", "replay"}
      found == doc # Nothing
  IN
  [outcome |-> r.answer.outcome,
   selected |-> doc,
   path |-> IF r.tool = "delete" /\ ok THEN None ELSE r.path,
   draft |-> IF r.tool = "save" /\ ~(ok /\ found) THEN r.content ELSE doc.text,
   append |-> IF r.tool = "append" /\ ~ok THEN r.content ELSE <<>>,
   version |-> IF r.tool = "delete" /\ ok THEN None
               ELSE IF found /\ ~ok THEN doc.version
               ELSE IF ok THEN r.answer.version
               ELSE IF r.tool = "save" THEN None ELSE r.version]

\* _mutation_response, with what was read back.  A save keeps its draft unless it
\* succeeded, and an append its text.
MutationResponse(r, doc) ==
  LET ok == r.answer.outcome \in {"ok", "replay"}
      found == doc # Nothing
  IN
  [outcome |-> r.answer.outcome,
   selected |-> doc,
   path |-> IF r.tool = "delete" /\ ok THEN None ELSE r.path,
   draft |-> IF r.tool = "save" /\ ~(ok /\ found) THEN r.content ELSE doc.text,
   append |-> IF r.tool = "append" /\ ~ok THEN r.content ELSE <<>>,
   version |-> IF r.tool = "delete" /\ ok THEN None
               ELSE IF found THEN doc.version
               ELSE IF ok THEN r.answer.version
               ELSE IF r.tool = "save" THEN None ELSE r.version]

Refresh(c) ==
  /\ call[c] # None /\ call[c].at = "refresh"
  /\ LET r == call[c]
         gone == r.tool = "delete" /\ r.answer.outcome \in {"ok", "replay"}
     IN call' = [call EXCEPT ![c].at = "answered",
                   ![c].answer = MutationResponse(r, IF gone THEN Nothing ELSE ReadBack(r.path))]
  /\ UNCHANGED <<docs, session, record, view, seen, told, count>>

\* ui_memory_list, ui_memory_read
Look(c) ==
  /\ call[c] # None /\ call[c].at = "sent" /\ call[c].tool \in {"list", "read"}
  /\ LET r == call[c] IN
     /\ session /\ (r.tool = "read" => docs[r.path] # None)
     /\ call' = [call EXCEPT ![c].at = "answered",
                   ![c].answer = IF r.tool = "list" THEN Nothing
                                 ELSE Snapshot(r.path, docs[r.path])]
  /\ UNCHANGED <<docs, session, record, view, seen, told, count>>

-----------------------------------------------------------------------------
(* Answers. *)

\* The actions of on_success.
Applied(r) ==
  CASE r.tool \in {"list", "read"} ->
         [view EXCEPT !.selected = r.answer, !.path = r.answer.path, !.draft = r.answer.text,
                      !.append = <<>>, !.version = r.answer.version, !.editing = FALSE]
    [] OTHER ->
         LET ok == r.answer.outcome \in {"ok", "replay"} IN
         [selected |-> r.answer.selected, path |-> r.answer.path, draft |-> r.answer.draft,
          append |-> r.answer.append, version |-> r.answer.version, saving |-> FALSE,
          key |-> count.clicks,
          editing |-> CASE r.tool = "save" -> ~ok [] r.tool = "delete" -> FALSE
                        [] OTHER -> view.editing]

Deliver(c) ==
  /\ call[c] # None /\ call[c].at = "answered" /\ call[c].heard
  /\ view' = Applied(call[c])
  /\ seen' = seen \cup Range(view'.selected.text)
  /\ told' = IF call[c].tool = "append" /\ call[c].answer.outcome \notin {"ok", "replay"}
             THEN told \cup Range(call[c].content) ELSE told
  /\ call' = [call EXCEPT ![c] = None]
  /\ UNCHANGED <<docs, session, record, count>>

\* Mutant: a failed call leaves the app waiting for it.
AfterErrorWaiting(r) == view

\* Mutant: a failed call gives the next one a new key.
AfterErrorRenewing(r) ==
  IF r.tool \in Mutations THEN [view EXCEPT !.saving = FALSE, !.key = count.clicks] ELSE view

\* The actions of on_error keep draft and key.
AfterError(r) == IF r.tool \in Mutations THEN [view EXCEPT !.saving = FALSE] ELSE view

\* An error reaches the app, or nothing does and it gives up, at any stage of the call.
\* A request that is on its way then may still be carried out.
GiveUp(c) ==
  /\ call[c] # None /\ call[c].heard
  /\ view' = AfterError(call[c])
  /\ \/ call' = [call EXCEPT ![c] = None]
     \/ /\ call[c].at = "sent" /\ call[c].tool \in Mutations
        /\ call' = [call EXCEPT ![c].heard = FALSE]
  /\ UNCHANGED <<docs, session, record, seen, told, count>>

-----------------------------------------------------------------------------
(* The rest of the world. *)

\* Others create, replace and delete documents under keys of their own.
Others(p) ==
  /\ count.outside < MaxOutside /\ count.pieces < MaxPieces
  /\ LET n == count.pieces + 1 IN
     docs' = [docs EXCEPT ![p] =
       IF docs[p] = None THEN Document(1, <<n>>, n)
       ELSE Document(docs[p].version + 1, Append(docs[p].text, n), docs[p].born)]
  /\ count' = [pieces |-> count.pieces + 1, clicks |-> count.clicks,
                outside |-> count.outside + 1]
  /\ UNCHANGED <<session, record, call, view, seen, told>>

OthersDelete(p) ==
  /\ count.outside < MaxOutside /\ docs[p] # None
  /\ docs' = [docs EXCEPT ![p] = None]
  /\ count' = [count EXCEPT !.outside = @ + 1]
  /\ UNCHANGED <<session, record, call, view, seen, told>>

\* The host's session comes to stand for another agent, or for this one again.
Switch ==
  /\ count.outside < MaxOutside
  /\ session' = ~session
  /\ count' = [count EXCEPT !.outside = @ + 1]
  /\ UNCHANGED <<docs, record, call, view, seen, told>>

UserNext(c) ==
  \/ LoadDirectory(c) \/ Save(c) \/ AppendText(c) \/ ConfirmDelete(c)
  \/ \E p \in Paths : OpenDocument(c, p)

CallNext(c) == Execute(c) \/ Refresh(c) \/ Look(c) \/ Deliver(c) \/ GiveUp(c)

Next ==
  \/ TypeDraft \/ TypeAppend \/ Edit \/ CancelEdit
  \/ \E p \in Paths : NewFile(p) \/ Others(p) \/ OthersDelete(p)
  \/ \E c \in Calls : UserNext(c) \/ CallNext(c)
  \/ Switch

Spec == Init /\ [][Next]_vars

-----------------------------------------------------------------------------
\* The open document in the app is one document: path and version are those of the text
\* that is shown, in whatever order answers come.
ViewIsOneDocument ==
  view.selected # Nothing =>
    view.path = view.selected.path /\ view.version = view.selected.version

\* An app never shows anything of another agent than the one it was opened for, although
\* the session may change between a tool's write and what it reads back.
ShownIsOwn == Foreign \notin seen

\* A text that was typed once, to be appended, is in a document once, however often it
\* is sent, answered, lost and sent again, unless the user was told of a conflict and
\* sends it all the same.
AppendedOnce ==
  \A p \in Paths : docs[p] # None =>
    \A i, j \in DOMAIN docs[p].text :
      docs[p].text[i] = docs[p].text[j] => i = j \/ docs[p].text[i] \in told

\* Nor is a user who sends it again told so because of the first time: the store does not
\* answer a version conflict where the text stands in the document already.
RetryIsNoConflict ==
  [][\A c \in Calls :
       /\ call[c] # None /\ call[c].at = "sent" /\ call[c].tool = "append"
       /\ call'[c] # None /\ call'[c].at = "refresh"
       /\ call'[c].answer.outcome = "version_conflict"
       => LET text == IF docs[call[c].path] = None THEN <<>> ELSE docs[call[c].path].text
          IN Range(call[c].content) \cap Range(text) \subseteq told]_vars

\* "A newer edit cannot be deleted accidentally", nor replaced: what a call of the app
\* removes from a document it has shown, it has shown to its user, or its user typed it.
NoBlindOverwrite ==
  [][\A c \in Calls, p \in Paths :
       /\ docs[p] # docs'[p] /\ docs[p] # None
       /\ call[c] # call'[c] /\ call[c] # None /\ call[c].of = docs[p].born
       => Range(docs[p].text) \subseteq
            seen \cup (IF docs'[p] = None THEN {} ELSE Range(docs'[p].text))]_vars

\* The buttons wait for a call that will still answer or fail; never for none, however
\* many calls were made, lost and answered in whatever order.
SavingIsAwaited ==
  view.saving =>
    \E c \in Calls : call[c] # None /\ call[c].heard /\ call[c].tool \in Mutations

=============================================================================
