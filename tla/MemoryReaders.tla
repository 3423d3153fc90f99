----------------------------- MODULE MemoryReaders -----------------------------
(***************************************************************************)
(* The read operations of postgres/store.py beside the mutations and the   *)
(* janitor of MemoryStore.  A reader takes no lock.  Its transaction is    *)
(* READ COMMITTED, so that each SELECT sees whatever has committed by then *)
(* and what it found is used by the SELECTs that follow: one action here   *)
(* is one statement.  Readers change nothing, so one of them is enough.    *)
(***************************************************************************)
EXTENDS MemoryStore

VARIABLES
  reader,   \* the call under way: the statement it is at and what it holds
  seen      \* history: the values each path has had since the call began

readVars == <<reader, seen>>

Operations == {"read", "list", "history", "export"}
Stages == {"idle", "row", "entry", "children", "todo", "done"}
Answers == {"none", "absent", "integrity", "documents", "page"}

\* target is the path called for, path and depth say where the walk is, id and
\* version are those of the object row held, and todo has the manifest entries
\* still to visit as pairs of a path and an identifier.
Idle == [at |-> "idle", op |-> "read", target |-> <<>>, path |-> <<>>, depth |-> 0, id |-> NULL,
         version |-> NULL, todo |-> {}, items |-> {}, answer |-> "none"]

\* read and history refuse the root; list and export take any path.
Targets(op) ==
  IF op \in {"read", "history"} THEN Paths
  ELSE UNION {{SubSeq(path, 1, n) : n \in 0..Len(path)} : path \in Paths}

Answer(kind, items) ==
  reader' = [reader EXCEPT !.at = "done", !.answer = kind, !.items = items, !.todo = {}]

\* The row of object i as the statement finds it.
Hold(call, i) == [call EXCEPT !.at = "row", !.id = i, !.version = objects[i].version]

HasPayload == reader.version \in DOMAIN versions[reader.id]
Payload == versions[reader.id][reader.version].body
Entries(path, manifest) ==
  {<<Append(path, name), manifest[name]>> : name \in {m \in Names : manifest[m] # NULL}}

---------------------------------------------------------------------------
(* Statements.                                                             *)

Stay == UNCHANGED vars /\ UNCHANGED seen

\* The first SELECT of every call looks for the scope's root.
Call(op, path) ==
  LET call == [Idle EXCEPT !.op = op, !.target = path, !.path = path]
  IN  /\ reader.at = "idle"
      /\ UNCHANGED vars
      /\ seen' = [p \in Paths |-> {Docs[p]}]
      /\ \/ \E i \in Root : reader' = Hold(call, i)
         \/ /\ Root = {}
            /\ reader' = [call EXCEPT !.at = "done",
                            !.answer = IF path = <<>> THEN "documents" ELSE "absent"]

AtRow == reader.at = "row"
AtTarget == AtRow /\ reader.depth = Len(reader.path)

\* _resolve: the manifest row of the container held, at the version held.
Descend ==
  /\ AtRow /\ reader.depth < Len(reader.path) /\ Stay
  /\ \/ IsDocument(reader.id) /\ Answer("absent", {})
     \/ ~IsDocument(reader.id) /\ ~HasPayload /\ Answer("integrity", {})
     \/ /\ ~IsDocument(reader.id) /\ HasPayload
        /\ LET child == Payload[reader.path[reader.depth + 1]]
           IN  IF child = NULL THEN Answer("absent", {})
               ELSE reader' = [reader EXCEPT !.at = "entry", !.id = child, !.depth = @ + 1]

\* _resolve: the row the entry names.
LoadObject ==
  /\ reader.at = "entry" /\ Stay
  /\ IF Active(reader.id) THEN reader' = Hold(reader, reader.id) ELSE Answer("absent", {})

\* Mutant: the text is that of the document's current version, not of the row held.
ReadLatestPayload ==
  /\ AtTarget /\ reader.op = "read" /\ Stay
  /\ \/ ~IsDocument(reader.id) /\ Answer("absent", {})
     \/ IsDocument(reader.id) /\ ~HasRow(reader.id) /\ Answer("integrity", {})
     \/ /\ IsDocument(reader.id) /\ HasRow(reader.id)
        /\ Answer("documents", {[path |-> reader.path, version |-> reader.version,
                                 body |-> Body(reader.id)]})

ReadPayload ==
  /\ AtTarget /\ reader.op = "read" /\ Stay
  /\ \/ ~IsDocument(reader.id) /\ Answer("absent", {})
     \/ IsDocument(reader.id) /\ ~HasPayload /\ Answer("integrity", {})
     \/ /\ IsDocument(reader.id) /\ HasPayload
        /\ Answer("documents", {[path |-> reader.path, version |-> reader.version,
                                 body |-> Payload]})

\* list_history: one SELECT for the version held and those still retained.
HistoryPage ==
  /\ AtTarget /\ reader.op = "history" /\ Stay
  /\ \/ ~IsDocument(reader.id) /\ Answer("absent", {})
     \/ /\ IsDocument(reader.id)
        /\ Answer("page", {v \in DOMAIN versions[reader.id] :
             v = reader.version \/ versions[reader.id][v].purgeAfter > now})

\* list: the manifest, then the rows of all its entries in one SELECT.
ListManifest ==
  /\ AtTarget /\ reader.op = "list" /\ Stay
  /\ \/ IsDocument(reader.id) /\ Answer("absent", {})
     \/ ~IsDocument(reader.id) /\ ~HasPayload /\ Answer("integrity", {})
     \/ /\ ~IsDocument(reader.id) /\ HasPayload
        /\ reader' = [reader EXCEPT !.at = "children",
                                    !.todo = Entries(reader.path, Payload)]

ListChildren ==
  /\ reader.at = "children" /\ Stay
  /\ IF \A entry \in reader.todo : Active(entry[2])
     THEN Answer("documents",
            {[path |-> entry[1], version |-> objects[entry[2]].version] :
               entry \in {e \in reader.todo : IsDocument(e[2])}})
     ELSE Answer("integrity", {})

\* Mutant: the entries of a directory take the place of those still to visit.
ExportRowForgettingSiblings ==
  /\ AtTarget /\ reader.op = "export" /\ Stay
  /\ \/ ~HasPayload /\ Answer("integrity", {})
     \/ /\ HasPayload /\ IsDocument(reader.id)
        /\ reader' = [reader EXCEPT !.at = "todo",
             !.items = @ \cup {[path |-> reader.path, version |-> reader.version,
                                body |-> Payload]}]
     \/ /\ HasPayload /\ ~IsDocument(reader.id)
        /\ reader' = [reader EXCEPT !.at = "todo", !.todo = Entries(reader.path, Payload)]

\* export: the text of a document, or the entries of a directory to visit.
ExportRow ==
  /\ AtTarget /\ reader.op = "export" /\ Stay
  /\ \/ ~HasPayload /\ Answer("integrity", {})
     \/ /\ HasPayload /\ IsDocument(reader.id)
        /\ reader' = [reader EXCEPT !.at = "todo",
             !.items = @ \cup {[path |-> reader.path, version |-> reader.version,
                                body |-> Payload]}]
     \/ /\ HasPayload /\ ~IsDocument(reader.id)
        /\ reader' = [reader EXCEPT !.at = "todo",
                                    !.todo = @ \cup Entries(reader.path, Payload)]

\* The entries of a manifest are visited in any order.
ExportEntry ==
  /\ reader.at = "todo" /\ Stay
  /\ \/ reader.todo = {} /\ Answer("documents", reader.items)
     \/ \E entry \in reader.todo :
          IF Active(entry[2])
          THEN reader' = [Hold(reader, entry[2]) EXCEPT
                            !.path = entry[1], !.depth = Len(entry[1]), !.todo = @ \ {entry}]
          ELSE Answer("integrity", {})

Return ==
  /\ reader.at = "done"
  /\ reader' = Idle
  /\ seen' = [p \in Paths |-> {}]
  /\ UNCHANGED vars

\* A mutation, a janitor batch or a tick between two statements.
StoreStep ==
  /\ Next
  /\ UNCHANGED reader
  /\ seen' = IF reader.at \in {"idle", "done"} THEN seen
             ELSE [p \in Paths |-> seen[p] \cup {Docs'[p]}]

---------------------------------------------------------------------------
ReadersInit == Init /\ reader = Idle /\ seen = [p \in Paths |-> {}]

ReadersNext ==
  \/ \E op \in Operations : \E path \in Targets(op) : Call(op, path)
  \/ Descend \/ LoadObject \/ ReadPayload \/ HistoryPage \/ ListManifest \/ ListChildren
  \/ ExportRow \/ ExportEntry \/ Return
  \/ StoreStep

ReadersSpec == ReadersInit /\ [][ReadersNext]_<<vars, readVars>>

---------------------------------------------------------------------------
(* Properties.                                                             *)

Answered(op, kind) == reader.at = "done" /\ reader.op = op /\ reader.answer = kind
Was(path, version) == \E docs \in seen[path] : \E doc \in docs : doc.version = version

\* What a call answers was so at some moment of the call: a text belongs to
\* the version it comes with and was the path's current one, a path reported
\* absent was absent, a listed version and a page's first version were current.
AnswersWereCurrent ==
  /\ \A op \in {"read", "export"} : Answered(op, "documents") =>
       \A item \in reader.items :
         {[version |-> item.version, body |-> item.body]} \in seen[item.path]
  /\ Answered("list", "documents") =>
       \A item \in reader.items : Was(item.path, item.version)
  /\ Answered("history", "page") => Was(reader.path, reader.version)
  /\ \A op \in {"read", "history"} : Answered(op, "absent") => {} \in seen[reader.path]

\* A document that stays at its path during the whole call is in the listing
\* of its directory and in every export of a directory above it.
AnswersAreComplete ==
  \A path \in Paths : reader.at = "done" /\ {} \notin seen[path] =>
    /\ Answered("list", "documents") /\ Front(path) = reader.target =>
         \E item \in reader.items : item.path = path
    /\ Answered("export", "documents") /\ IsPrefix(reader.target, path) =>
         \E item \in reader.items : item.path = path

\* "Encrypted storage failed authentication or was malformed": no call that
\* finds the storage intact raises IntegrityFailure.
IntegrityFailureMeansDamage == reader.answer # "integrity"
================================================================================
