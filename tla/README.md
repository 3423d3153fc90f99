# Verification of agent-filetree-memory

TLA+ modules, TLC configurations and TLAPS proofs for the program in
`src/src/agent_filetree_memory`: an encrypted, versioned tree of markdown
documents per (workspace, agent) scope, kept in PostgreSQL, served over MCP and
HTTP. Paths below are relative to that package; `store.py` is
`postgres/store.py`, `janitor.py` is `postgres/janitor.py`.

## 1. The system

| Component | State it keeps | Operations | Hard behaviours | What makes it correct |
|---|---|---|---|---|
| Memory store, mutations (`store.py`, `postgres/schema.py`, `domain/text.py`) | object rows, version rows, one quota row and idempotency rows per scope | write, append, edit, delete | a mutation touches four tables; ceilings, retention and TTL meet at their edges; manifests hold the names of the tree inside encrypted payloads, so that no foreign key protects them | the tree is a tree and nothing charged is out of reach; the quota row counts exactly what is there; the current version is always there; an expired version never returns; a key applies once per window |
| Memory store, reads (`store.py`) | none | list, read, list_history, read_history, export | several SELECTs in one READ COMMITTED transaction without the scope's lock | an answer was so during the call; a listing misses nothing that stayed |
| Callers of the store | the version last read, the key of a request | read, then write with that version; retry | answers lost, retries at any time, the document deleted and created again | nothing that was written in between is lost; a request is carried out once |
| Janitor (`janitor.py`, `janitor_cli.py`) | none of its own | purge_due: objects, versions, idempotency rows, rate buckets, audit rows | several jobs at once with SKIP LOCKED, against mutations; a job dies half way | physical slots stay exact; nothing goes early; the backlog drains |
| Rate limiter (`store.py:1275-1308`) | one bucket row per scope and window | consume in a transaction of its own | rejected calls count; the clock is read before the increment; the bucket's start is truncated to seconds; the janitor removes buckets | at most the limit passes per window |
| Control plane: members (`control_plane/management_store.py`, `control_plane/api.py`) | principals, workspaces, memberships, invitations, grants, managers | create, invite, register, change role, remove, transfer, grant | roles are read without a lock and used later; invitations race registrations | one owner per workspace; no grant or manager without membership; nobody raises itself or gives itself content |
| Control plane: agents (`control_plane/namespace_store.py`, `management_store.py`) | agents, namespaces, workspace policies and quotas | create_agent, resolve_or_create, update policy | two code paths lock the same rows in different orders | counts within quotas, no circular wait |
| Admission (`management_store.py:779-891`) | an admission record per workspace | ensure_workspace_admission | awaits a host decision between two transactions | a decision is used only for the state it was made for |
| Application service (`application/service.py`) | none | authorize, then call the store; import_markdown_tree | one transaction per imported document, stops at the first failure | no effect before authorization; an import run again finishes |
| Capabilities (`auth/capabilities.py`) | none (signed tokens) | issue, verify, attenuate | lifetimes, attenuation | a derived token never grants more |
| Encryption (`crypto/`) | key rings | encrypt, decrypt, rotate | a key retired while rows use it | every stored row can be opened |
| MCP server (`mcp/`) | none | paging of memory_read by lines and columns | edges of pages | pages put together are the document |
| Memory browser (`mcp_app/app.py`) | in the app: document shown, draft, version, key, whether a call is awaited | list, read, save, append, delete with a read-back each | answers late, lost or out of order; a session that comes to stand for another agent; a draft against a document that changed | what is shown is one document and the own agent's; nothing unseen is overwritten; a text is appended once |
| Web UI, command lines, migrations, evaluations | the schema version | presentation, wiring, DDL | two migrators at once | a migration runs once |

**How they interact.** Service, MCP server and HTTP API call the store; each
store operation first consumes the scope's rate in one transaction and then
runs in a second. Mutations of one scope are serialized by
`pg_advisory_xact_lock` (`store.py:1269-1273`), taken before anything is read.
Reads take no lock. Janitor jobs share only the tables with the hosts: they take
row locks on due rows (SKIP LOCKED) and on quota rows (waiting), never the
advisory lock. Callers come back with versions and idempotency keys they kept.
The control plane decides which scope a caller may use and shares no table row
with the memory store; its transactions meet each other on row locks, unique
keys, foreign keys and advisory locks. The memory browser is state in a client
whose buttons call tools on the server; each tool checks that the session still
stands for the agent the app was opened for, changes the store, and reads back
in further calls.

## 2. Modules

| Module | Models | Correspondence |
|---|---|---|
| `DocumentMap` | the promise of `ports/store.py`: a map from paths to versioned documents | `Put`, `Erase` |
| `MemoryStore` | the store's mutations and the janitor's transaction | `objects` and `versions` are the rows of `memory_objects` and `memory_versions`, `quota` the scope's row, `expiry` the idempotency rows; `Create`, `Mutate` (`Replace`, `AppendText`, `Edit`, `Delete`), `Replay`, `Refuse`, `PurgeDue`, `Tick` |
| `MemoryReaders` | the read operations statement by statement, over `MemoryStore` | `reader` holds what the call's local variables hold; `StoreStep` is everything that commits between two statements |
| `MemoryClients` | callers with lost answers and retries, over `MemoryStore` | `client` holds what a caller remembers; the store's own operators carry the request out |
| `Janitor` | several `purge_due` jobs with their row locks | `row` and `physical` are committed state, `rowLock`, `quotaLock` and `job` the open transactions |
| `MemoryImport` | the rate limiter, `import_markdown_tree` and its reruns, the janitor's removal of buckets and records | `bucket` is `memory_rate_buckets`, `op` how far each call is, `next` the loop variable of each attempt, `key` the records of the import's namespace; `ReadClock`, `Count`, `Create`, `Replay`, `Conflict`, `SweepBucket`, `SweepKey` |
| `Management` | the control plane's operations, one action each | the variables are the tables of one workspace, named in the module; `May...` are the checks of the code and `Write...`, `New...`, `Insert...`, `Delete...` its statements |
| `ManagementTxns` | the same operations as overlapping transactions | `txn` is each session's open transaction: its call, what it has read, the locks it holds and those it will take; `Begin`, `Acquire`, `Decide`, `Commit`, `DeadlockAbort`, `Fail`; decisions and writes are `Management`'s own operators |
| `MemoryBrowser` | the app's state, its user and its tools | `view` is the app's state by the names of `SetState`, `call` the calls under way; `Click` and its users are the buttons, `Execute`, `Refresh`, `Look` the tools, `Deliver` and `GiveUp` the actions of on_success and on_error |
| `MemoryStoreProofs`, `MemoryStoreTreeProofs`, `MemoryReadersProofs`, `MemoryClientsProofs`, `JanitorProofs`, `ManagementProofs`, `MemoryBrowserProofs`, `MemoryImportProofs` | theorems for TLAPS | |
| `MCMemoryStore`, `MCMemoryReaders`, `MCMemoryClients`, `MCJanitor`, `MCManagement`, `MCManagementTxns`, `MCMemoryBrowser`, `MCMemoryImport` | constants of the small instances | |

**Granularity.** A mutation is one action in `MemoryStore`: it holds the scope's
advisory lock from before its first read to its commit, and an exception rolls
it back as a whole, so that nothing between its statements is seen by another
mutation; refusals are the cases in which no action is enabled, or `Refuse`. The
janitor's transaction is one action there, too: it removes rows only by
conditions (deleted and due, superseded and due, expired) that a mutation of the
same scope never makes false again. `Janitor` opens this step up and
looks at its locks; `MemoryReaders` does the same for what unlocked readers see.

A transaction of the control plane is one action in `Management` and four or
more in `ManagementTxns`: its unlocked reads happen in two moments (the caller's
role at `Begin`, the rest at `Decide`), each lock is a step, and what it writes is
visible at `Commit`. A DELETE of several rows locks them at once. `seen` holds
what a decision read of rows it goes on to write, so that a DELETE by identifier
misses a row inserted since and an INSERT meets one. `MemoryBrowser` takes a
store operation as one step, which the scope's lock makes it, and splits a tool
into its change, its read-back and its answer. In `MemoryImport` reading the
clock and incrementing the bucket are two steps with up to `MaxDelay` between
them, and each row the janitor removes is one.

**Abstractions.** A name or a unit of text is a model value and a document a
sequence of units of one byte, so that `logical_bytes` is a length. A manifest is the function from names to
identifiers that its entries denote; the order of its entries is not kept, and
export visits them in any order. Encryption, provenance metadata, audit rows and
input validation are left out: no property here is about them. Object identifiers
are places in the order of insertion, which makes them never reused as the
random UUIDs of the code; a row removed by the janitor stays in the sequence as
"purged". `edit` looks for one unit of text, so occurrences never overlap; the
caller's own `max_content_bytes` can only refuse more. Hosts and janitor read one
clock (a skew between them shifts deadlines by the skew); `Tick` may occur
between any two transactions and never inside one. Isolation is READ COMMITTED,
PostgreSQL's default, which the code does not change.

`Management` is one workspace; others share no row with it and only count
towards their creator's quota. A display name, the alias update's text, listing
contents, integrity tags and audit rows are left out, and so is
`ensure_local_scope`, which prepares a single-user development installation
before anything else runs. `ManagementTxns` leaves out the alias update, which
decides nothing for others, and that a profile's former address keeps its unique
entry locked until the commit, which could only make others wait longer.

In `MemoryBrowser` texts are sequences of pieces and each typed piece is new, so
that a piece occurring twice was written twice. Idempotency records do not
expire there (`MemoryStore` and `MemoryClients` are about that). A call that is
refused or finds no document changes nothing and ends in `GiveUp`, as does an answer that is
lost. `of` and `told` are history variables: the document that was shown when the
user clicked, and the texts whose append was answered with a conflict before the
user's eyes. `AppendedOnce` leaves those out: a user who sends such a text
again means to, and a conflict answered late, after a second request has put the
text in, or a document deleted and created again under a known version can then
put it in twice. `MemoryImport` has one
namespace with fixed contents: other contents under the same namespace
would be a key conflict, which stops an attempt as `Conflict` does.

## 3. What TLC checks

| Run | Question | Properties |
|---|---|---|
| `store_tree` | do the tree, the quota row and the promised map stay in step? | `TypeOK`, `QuotaCounts`, `QuotaBytes`, `TreeShape`, `ImplementsDocumentMap` |
| `store_history` | do version rows and idempotency rows go when they should and only then? | `HistoryShape`, `KeyRecords`, `HistoryNeverReturns`, `NothingLostEarly`, `KeyAppliesOncePerTtl` |
| `readers` | are answers of unlocked reads of the time of the call, and complete? | `AnswersWereCurrent`, `AnswersAreComplete` |
| `clients` | does read-modify-write with retries lose or repeat anything? | `AppliedOncePerDocument`, `OverwritesWhatWasRead`, `ConflictIsTrueWithinTtl` |
| `janitor_jobs` | do jobs side by side keep the slots exact and finish? | `TypeOK`, `SlotsAreExact`, `RowsHeldOnce`, `BacklogDrains` |
| `management` | does any sequence of control plane calls break the roles? | `TypeOK`, `OneOwner`, `AccessNeedsMembership`, `InvitationsArePending`, `ListingsAgree`, `NobodyRaisesItself`, `ContentIsGiven` |
| `management_txns` | what still holds when the calls overlap, and do they end? | `AgentsWithinLimit`, `WorkspacesWithinLimit`, `OneAddressOnePrincipal`, `LockingCallsAreAtomic`, `EveryCallEnds` |
| `browser` | can the memory browser lose, repeat or leak anything? | `ViewIsOneDocument`, `ShownIsOwn`, `AppendedOnce`, `SavingIsAwaited`, `NoBlindOverwrite`, `RetryIsNoConflict` |
| `import` | does the limit hold, and does an import run again finish cleanly? | `RateIsBounded`, `ImportedOnce`, `ImportedInOrder` |
| `readers_integrity` | does IntegrityFailure mean damage? No: | `IntegrityFailureMeansDamage` |
| `clients_same_version` | does one of two writes against a version succeed? Not after delete and create: | `OneWritePerVersion` |
| `owners_race` | does a workspace keep its one owner when calls overlap? No: | `OneOwner` |

`QuotaBytes` and `TreeShape` relate tables that no constraint of the schema
relates. `TreeShape` says both that no manifest names a row that is gone and
that no active row is unreachable: the first would make reads fail, the second
would charge the quota for ever. `ImplementsDocumentMap` is a refinement: the map
from each path to its document's version and text only changes as
`DocumentMap` allows, one path at a time, so a delete that loses a sibling or a
write that reuses a name breaks it. `HistoryNeverReturns` and `NothingLostEarly`
bound availability from both sides; neither looks at how the janitor selects.

`ListingsAgree` compares three pieces of code that work out a content role, and
two that work out whether a workspace may be created, after any sequence of
calls. `LockingCallsAreAtomic` is the refinement from `ManagementTxns` to
`Management` for the six operations that decide under their locks: their commit,
whatever ran beside it, is `Management`'s action. For the others no such
statement holds: `owners_race` shows it for roles, and in the same way a grant
inserted while its member is removed outlives the membership, and an invitation
made while its address registers stays pending; no line of the repository says
otherwise of these two.

### The three disagreements

* `list` and `export` load a manifest in one statement and its entries' rows in
  later ones. A delete that commits in between makes them raise
  `IntegrityFailure`, which `domain/errors.py:41` reserves for storage that
  "failed authentication or was malformed". The same happens to a read whose
  row is pruned by the ceiling or removed with its object before the second SELECT.
* Versions start at 1 again when a path is deleted and created. Of two callers
  that read version 1, one writes, the document is deleted and created, and the
  other's write is carried out on the new document, where
  `docs/architecture.md:111` promises a conflict.
* A role change that read the roles before an ownership transfer committed sets
  the new owner to member, and nobody is owner; two overlapping transfers make
  two owners. `docs/management-ui.md:133` promises "atomic ownership transfer".

Two statements hold within a limit that the text does not name. A retry later than
`idempotency_ttl` is executed afresh and can get a version conflict for a
request that succeeded (`docs/architecture.md:113` promises the original result);
`ConflictIsTrueWithinTtl` says it within the window. Janitor jobs "can cooperate
safely" (`janitor.py:58-59`) although two may lock quota rows in opposite
orders and PostgreSQL then aborts one: nothing is lost, as `janitor_jobs` shows.

### Bounds

`ObjectBound`, `VersionBound`, `TimeBound`, `MaxFailures`, `MaxCalls`, `MaxPieces`,
`MaxClicks`, `MaxOutside`, `Places`, `MaxTime` and `MaxDelay` are bounds of the model only,
and guards name them; all others are configuration of the code.

* `store_tree`: three paths at depths 1 to 3, two of them under one directory,
  so that every depth of `Extendable` and the conflict of a document with a
  directory occur; limits of 3 bytes, 2 documents and 5 rows bind; 6 insertions are enough
  to delete, purge and insert again; five clock values hold a deletion, its
  deadline and a use of the freed slot.
* `store_history`: one path and five versions under a ceiling of three, so that
  rows go by the ceiling, by their deadline and in the other order; three keys (symmetric: no
  property tells them apart), window and TTL of two ticks inside a clock of five,
  so that records are live, at their edge, expired, removed and reused.
* `readers`: two paths, one in a subdirectory, so that every walk has a step that
  a mutation can cut; the ceiling of two prunes a version a reader holds. One
  reader is enough, as readers change nothing.
* `clients`: two clients and one key for everyone else, which is symmetric in the clients; three clock
  values are a window, its end and a retry after it.
* `janitor_jobs`: two jobs, four rows of two scopes in crossing order, batches of
  two, one failure: the least that deadlocks. A third job adds circles
  of three, about which the theorems say what matters.
* `management`: three principals, so that an owner, an administrator and a
  member meet; two addresses; one agent; one principal who may create the workspace
  and is a platform administrator and two who are not; a closed and an open policy, as
  every guard reads one field of it for one value.
  Self-grants are off: with them `ContentIsGiven` allows more, and the theorem
  covers both.
* `management_txns`: two sessions with every operation, from no workspace and
  from two established ones (a closed one with an agent, an open one with an
  invitation to administer), one agent and one workspace allowed, so that two
  creations meet the limit. Circles of two are the shortest; the safety theorems
  are for any number of sessions.
* `owners_race`: the three operations that change an owner, two at once.
* `browser`: two documents, two calls under way, three clicks (a call that is
  lost, its retry and one on the other document), two events outside and two
  pieces of text. Once, a longer instance of appends and deletions alone (one
  document, seven clicks, four pieces, three events outside) held too, in 14.8 million states.
* `import`: three documents and a limit of two, so that no attempt finishes
  within one window; two attempts, of which one may have been given up, and one
  other caller; a window of three ticks over seconds of two, so that bucket starts
  are truncated; two windows and the start of a third, records that expire
  within them.

Deadlock checking is on except where the bounds let everything end:
`management_txns`, `owners_race` (no call is left; `EveryCallEnds` is what shows
that none hangs) and `import` (attempts end, and so does time). An unbounded
retry or a refusal is always possible in the store, in `Janitor` a mutation that
changes nothing, in the other two a call or a click on a draft.

### Fairness

`BacklogDrains` and `EveryCallEnds` need some. A scope's mutation commits once it holds the
quota row (weak); the scheduler, which the class comment leaves to the host,
starts jobs again and again, a job goes on, and the database breaks circles (weak).
A job's wait for one quota row needs strong fairness: mutations and other jobs take
and release that row for ever, and PostgreSQL grants a row lock in the order
of the requests, which is more than weak and no less than strong fairness of
`Remove` for that row. New deletions may come for ever. Failures are
bounded by `MaxFailures`: if every job died, nothing would drain.

For `EveryCallEnds` a session's transaction goes on when it can (weak fairness of
`Acquire`, `Decide`, `Commit` and `DeadlockAbort` together): the host runs its
coroutine, PostgreSQL grants a free lock to who waits for it, and its deadlock
detector ends a circle. Weak is enough because calls are bounded: a lock can be
taken in front of a waiting session only finitely often. Failures need none.

`MemoryBrowser` states none: a host may leave a tool call unanswered for ever.
That the buttons come back is stated as safety: while they are disabled a call
is under way whose answer or error will enable them (`SavingIsAwaited`).

## 4. What TLAPS proves

`MemoryStoreProofs`, for all names, paths, texts, keys, limits and bounds, from
`PathsAssumption`, `ConfigAssumption` (positive limits and windows, as the
configuration's own checks demand) and `BoundAssumption`:

* `TypeCorrect`, `HistoryWellShaped`, `QuotaExact`, `KeyRecordsExact`:
  `TypeOK`, `HistoryShape`, `QuotaCounts` and `KeyRecords` are invariants;
* `KeysApplyOnce`, `HistoryMonotone`, `NothingIsLostEarly`: the action properties
  `KeyAppliesOncePerTtl`, `HistoryNeverReturns`, `NothingLostEarly`.

The inductive invariant is `IInv == TypeOK /\ HistoryShape /\ QuotaCounts /\
KeyRecords`. `HistoryShape` needs the types; the quota's range under the
janitor's subtraction needs that it counts rows; `KeyAppliesOncePerTtl` is not
a fact of one action (the janitor removes the record, a later mutation finds
none), and `KeyRecords` says what the absence of a record means. Every action makes each existing row
take one of four steps, `Advanced`, `Tombstoned`, `Emptied` or `Trimmed`
(`RowStep`, lemma `NextStep`), and the history properties are proved from the
four cases and never from the actions.

`MemoryStoreTreeProofs`, from the same assumptions:

* `TreeIsOne`: `TreeShape` is an invariant;
* `StoreImplementsMap`: `ImplementsDocumentMap`, the refinement of `DocumentMap`;
* `MapIsPrefixFree`: no document's path is the beginning of another's;
* `BytesAccounted`: `QuotaBytes` is an invariant.

The inductive invariant is `TreeInv == IInv /\ WellTree(Tree) /\ BytesExact`.
`TreeShape` counts entries; `WellTree` says the same without counting (an active
object but the root has an entry, two entries of one object are the same) and is
what the steps preserve. A path is followed by a recursive function, whose
values below a length are found by induction on a set of naturals (`NatSet`,
from the well-foundedness of the order: the induction theorems that take an
operator cannot be used). The walks of the old tree and of the new one are
compared under three relations: `Kept` (what is still there has its old entry,
for deletes and the janitor), `Grown` (a branch planted at the deepest container
found, for creates) and equality (for writes, which change a text and no entry).
From these every step is one `Put`, one `Erase` or a stutter of the map. The sum
of the bytes is a fold; it is unfolded once, into a function that sums over
subsets (`SumTake`, `SumAgree`), and then changes by what one document changes.

`MemoryReadersProofs`, from the same assumptions: `CurrentAnswers` and
`CompleteAnswers` (`AnswersWereCurrent`, `AnswersAreComplete`), `ReadersUseStore`
(beside readers the store takes its own steps). Nothing of the store protects a
reader, so the invariant speaks of what it holds. Every object has a label, the
path that leads to it, and keeps it when it is deleted (`Labelled`, `Follows`): a path
names the document it labels (`FoundLabels`). What a reader holds was then so of
the label at some moment of its call (`RowHeld`: the row's version with the
text its version row has if it is still there, and nothing below a document; a
container's entries, and nothing where it has none; `Pointed`: an entry leads
to an object with its label that is there, or nothing was there at some moment).
An export has found, or is still to visit, every document that stays (`Covering`).
The steps of the store are used through four facts only: labels stay, texts of
version rows never change (`BodiesStay`), an object that goes leaves nothing at
its label (`GoneAbsent`), and the values a path has had only become more.

`MemoryClientsProofs`, for any number of clients: `AppliedOnce`, `NoLostUpdate`,
`ConflictIsTrue` (`AppliedOncePerDocument`, `OverwritesWhatWasRead`,
`ConflictIsTrueWithinTtl`) and `ClientsUseStore`. `CInv` adds to the store's
invariant what ties each client to the document it read (`Tie`): the document
still has the text that was read at that version, or has moved on, and it has
when the client's request was carried out. A retry that finds no record any more
therefore meets a later version and is refused.

`JanitorProofs`, for any finite set of rows and any jobs and scopes:
`TypeCorrect`, `SlotsExact` and `SelectedRowsHeldOnce`, with `IInv == TypeOK /\ SlotsAreExact /\
RowsHeldOnce`. `SlotsAreExact` is not inductive: a commit subtracts rows that
were removed long before, and `RowsHeldOnce` says they are still "deleted" and in nobody
else's transaction.

`ManagementProofs`, for any principals, addresses, agents, limits and choices:
`TypeCorrect`, `OneOwnerAlways`, `AccessNeedsMembershipAlways`,
`InvitationsArePendingAlways`, `ListingsAgreeAlways` and the action properties
`NobodyRaisesItselfAlways`, `ContentIsGivenAlways`. The inductive invariant adds
two parts to these: nothing exists before the workspace does (`Unfounded`), and
an address is one principal's (`AddressesAreUnique`), without which a
registration could leave an invitation to another's address. The proof of
`ListingsAgree` required the arms of two CASE expressions of `Management`
(`AgentAccess`, `CreationRestriction`) to exclude each other: a CASE whose arms
overlap is any of them, whereas the code's conditionals are ordered.

In the same module, for overlapping transactions and any number of sessions: `AgentsWithinLimitAlways`,
`WorkspacesWithinLimitAlways`, `OneAddressOnePrincipalAlways`,
`LockingCallsAreAtomicAlways`. The limits are not inductive, as a commit inserts
what was decided before. `TInv` says why a decision still stands: no two sessions
hold conflicting locks (`Exclusion`), a session that has decided holds all that its
call locks before deciding (`Plans`), and what such a call decided is true as
long as it holds these (`Decisions`); so a commit of another call cannot make it
false.

`MemoryBrowserProofs`, for any paths, number of calls and bounds:
`OneDocumentShown`, `OwnShown`, `ButtonsComeBack`, `TypeCorrect`. The invariant's
`TypeOK` contains `CallOK`: every answer that waits, in whatever order it will be
delivered, is of one document and of a kind its call can have.

In the same module, `AppendedOnceAlways` and `RetriesAreNoConflicts`: the
invariant `TInv` names every append that may still be carried out or sent again
(`Sending`: the calls under way and the text that waits in the app) and every text
that may still get into a document (documents, draft, what is shown, what calls
carry). Each such text is `Clean`: a piece of it that is being sent is recorded
under the key it is sent with, or the user was told about it. A step keeps that
because at most one append is new, of a new piece or of one the user has just
been told about (`Grown`); an append that is carried out finds no record, so its
text stands nowhere yet.

And `NothingBlindlyOverwritten`. Answers may be old when they are shown, so `OInv` says of each what stays true: of the document it names
there is a later version now, or this one (`TrueOf`), and a call made from it
whose version still matches finds a text that was shown (`Informed`). A document
deleted and created again does not disturb this, as its name is new (`Moved`).
Both are for any paths, number of calls and bounds; `BoundAssumption` asks for one
piece of text, which the first document is made of.

`MemoryImportProofs`, for any callers, documents, limits and windows:
`RateBounded`, `OnceCreated`, `InOrder`, `TypeCorrect`. `RateIsBounded` needs that a
bucket that can still be counted in is not removed: an increment comes at most
`MaxDelay` after its clock (`DelayInv`), and the bucket of a window counts at
least those admitted until it has expired (`BucketInv`). The assumption
`Second + MaxDelay <= Window` is more than the code checks (`store.py:94`: a
positive window): the default of a minute leaves 59 seconds for the
increment, but a window below a second does not satisfy it. `OnceCreated` needs
that a record lasts as long as the creation it stands for is recent (`KeyInv`).

**Model-checked only:** `BacklogDrains` and `EveryCallEnds`, liveness under
fairness, which the prover does not do. Every other property of a passing run
is a theorem. What the violation runs refute (`IntegrityFailureMeansDamage`, the
owners' and the clients' runs) is no theorem, and TLC's counterexample stands
for it. No module declares a RECURSIVE operator; the walk of a path is a
recursive function.

## 5. Not modelled, and what could follow

* Search, grep and paging (`application/queries.py`, `mcp/reading.py`): pure
  functions of one answer, whose interest is in text positions that the models'
  documents do not have.
* Capabilities (`auth/capabilities.py`): a token is verified by a sequence of
  checks without state; who may call what is taken as given by `MemoryStore` and
  modelled for the control plane's own roles in `Management`.
* Cryptography (`crypto/`), the migrations (`postgres/migrations/`; the runner
  holds an advisory lock that a second one is refused), command lines, host wiring,
  HTTP and HTML presentation, evaluations: no protocol state, or out of reach.
* `read_history` and the paging of `list_history`; audit rows and their removal;
  the display names and `ensure_local_scope` of the control plane; listings and
  messages of the memory browser.

Worth doing next: `read_history` as two more statements of `MemoryReaders`; that
the transactions of `Janitor` implement `PurgeDue` of `MemoryStore`, the one
granularity step argued in section 2 and not yet checked; a listing of the
memory browser.

`PROJECT.json` lists every hazard with the property that covers it; those without
one say why.
