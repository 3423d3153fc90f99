----------------------------- MODULE MemoryClients -----------------------------
(***************************************************************************)
(* Callers of the memory store: each reads a document and submits one      *)
(* mutation of it with the version it read and a key of its own.  An       *)
(* answer may be lost, and then the caller sends the same request again    *)
(* whenever it likes.  Other callers, the janitor and the clock go on as   *)
(* in MemoryStore.  A read is one step, as MemoryReaders shows a text to   *)
(* be that of its version and both to have been current.                   *)
(***************************************************************************)
EXTENDS MemoryStore

CONSTANT Clients     \* a client is known by the idempotency key of its request

ASSUME ClientsAssumption == Clients \subseteq Keys

VARIABLE client

clientVars == <<objects, versions, quota, expiry, appliedAt, now, client>>

\* id, version and body are what the client read; commits counts the times its
\* request was carried out on the document it read, and elsewhere on another one.
Fresh == [at |-> "idle", path |-> <<>>, op |-> "write", id |-> NULL, version |-> NULL,
          body |-> <<>>, commits |-> 0, elsewhere |-> 0, answer |-> "none"]

Pending(c) == client[c].at = "pending"
Current(c) == {i \in DocumentOf(client[c].path) : objects[i].version = client[c].version}
Answered(c, answer) == [client[c] EXCEPT !.at = "done", !.answer = answer]

\* memory_read, then a request is formed from what it returned.
Read(c, path, op) ==
  /\ client[c].at = "idle"
  /\ \E i \in DocumentOf(path) :
       client' = [client EXCEPT ![c] = [Fresh EXCEPT
         !.at = "pending", !.path = path, !.op = op,
         !.id = i, !.version = objects[i].version, !.body = Body(i)]]
  /\ UNCHANGED vars

Operation(c, i) ==
  \/ client[c].op = "write" /\ \E text \in Inputs : Replace(i, text)
  \/ client[c].op = "append" /\ \E text \in Inputs : AppendText(i, text)

Counted(c, i) ==
  IF i = client[c].id THEN [client[c] EXCEPT !.commits = @ + 1]
  ELSE [client[c] EXCEPT !.elsewhere = @ + 1]

\* Mutant: the expected version is not compared with the current one.
CommitUnchecked(c) ==
  /\ Pending(c) /\ KeyFree(c)
  /\ \E i \in DocumentOf(client[c].path) :
       /\ Operation(c, i)
       /\ \/ client' = [client EXCEPT ![c] = [Counted(c, i) EXCEPT !.at = "done",
                                                                !.answer = "result"]]
          \/ client' = [client EXCEPT ![c] = Counted(c, i)]
  /\ StoreIdempotency(c)
  /\ UNCHANGED now

\* The request is carried out; its answer arrives or is lost.
Commit(c) ==
  /\ Pending(c) /\ KeyFree(c)
  /\ \E i \in Current(c) :
       /\ Operation(c, i)
       /\ \/ client' = [client EXCEPT ![c] = [Counted(c, i) EXCEPT !.at = "done",
                                                                !.answer = "result"]]
          \/ client' = [client EXCEPT ![c] = Counted(c, i)]
  /\ StoreIdempotency(c)
  /\ UNCHANGED now

\* A retry while the record lives returns the result it holds.
Replayed(c) ==
  /\ Pending(c) /\ ~KeyFree(c)
  /\ client' = [client EXCEPT ![c] = Answered(c, "result")]
  /\ UNCHANGED vars

\* VersionConflict, or NotFoundOrDenied where the document is gone.
Refused(c) ==
  /\ Pending(c) /\ KeyFree(c) /\ Current(c) = {}
  /\ client' = [client EXCEPT ![c] = Answered(c, "conflict")]
  /\ UNCHANGED vars

\* Everyone else, under keys of their own.
Others ==
  /\ \/ \E path \in Paths, body \in Inputs, key \in Keys \ Clients : Create(path, body, key)
     \/ \E path \in Paths, expected \in 1..VersionBound, key \in Keys \ Clients :
          Mutate(path, expected, key)
     \/ \E batch \in Batches(DueObjects), keys \in Batches(DueKeys) :
          \E rows \in Batches(UNION {{i} \X DueVersions(i) : i \in Ids \ batch}) :
            PurgeDue(batch, rows, keys)
     \/ Tick
  /\ UNCHANGED client

ClientsInit == Init /\ client = [c \in Clients |-> Fresh]
ClientsNext ==
  \/ \E c \in Clients, path \in Paths, op \in {"write", "append"} : Read(c, path, op)
  \/ \E c \in Clients : Commit(c) \/ Replayed(c) \/ Refused(c)
  \/ Others
ClientsSpec == ClientsInit /\ [][ClientsNext]_clientVars

---------------------------------------------------------------------------
(* Properties.                                                             *)

\* A request that is carried out on the document its client read replaces
\* exactly the text the client read: nothing written in between is lost.
OverwritesWhatWasRead ==
  [][\A c \in Clients : client'[c].commits # client[c].commits =>
       Body(client[c].id) = client[c].body]_clientVars

\* However often a request is sent, also after its record expired and the
\* janitor removed it, the document it was made for takes it once.
AppliedOncePerDocument == \A c \in Clients : client[c].commits <= 1

\* A client is told of a conflict for a request that was carried out only
\* when its record has outlived the idempotency window.
ConflictIsTrueWithinTtl ==
  [][\A c \in Clients :
       client[c].answer # "conflict" /\ client'[c].answer = "conflict" =>
         client[c].commits + client[c].elsewhere = 0 \/ appliedAt[c] + Ttl <= now]_clientVars

\* "One of two writes against the same version may succeed": of two clients that
\* read one document at one version, only one has its write carried out.
OneWritePerVersion ==
  \A c, d \in Clients :
    /\ c # d
    /\ client[c].id = client[d].id /\ client[c].version = client[d].version
    /\ client[c].commits + client[c].elsewhere > 0
    => client[d].commits + client[d].elsewhere = 0
================================================================================
