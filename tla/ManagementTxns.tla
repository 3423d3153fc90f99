----------------------------- MODULE ManagementTxns -----------------------------
(***************************************************************************)
(* The operations of Management as transactions that overlap: READ         *)
(* COMMITTED, with the row locks, unique keys and advisory locks that each *)
(* one takes, in its order.  A transaction reads its caller's role,        *)
(* mostly without a lock, takes locks, decides, takes further locks and    *)
(* commits; what it wrote is there for others at the commit.  One that     *)
(* waits in a circle is aborted by PostgreSQL.                             *)
(***************************************************************************)
EXTENDS Management, Sequences

CONSTANTS
  Sessions,    \* database sessions, over all service replicas
  Founder,     \* who created the workspace that is established at the start
  Members,     \* the roles in it
  Starts,      \* and what else it may have: policy, agents, the offer to every address
  Operations,  \* the operations that are called
  MaxCalls     \* bound of the model

VARIABLES
  txn,         \* each session's transaction, None between two
  issued,      \* invitations made so far per address: the identity of the present one
  calls

txnVars == <<vars, txn, issued, calls>>

ASSUME SessionAssumption == /\ MaxCalls \in Nat /\ Founder \in Principals
                            /\ Members \in [Principals -> WorkspaceRoles \cup {None}]
                            /\ Starts \subseteq [policy : Policies, agents : SUBSET Agents,
                                                offer : {"admin", "member", None}]
                            /\ \A start \in Starts : IsFiniteSet(start.agents)
                                                     /\ Cardinality(start.agents) <= MaxAgents

-----------------------------------------------------------------------------
(* Calls: the operation, its caller, the agent and the principal or        *)
(* address it is about, and the value to set.                              *)

Call(op, p, a, on, value) ==
  [op |-> op, by |-> p, agent |-> a, on |-> on, value |-> value]

OfWorkspace == {"create_other", "create_personal", "admission", "assign_admin"}
OfMembers == {"transfer", "remove"}
OfAddresses == {"register", "revoke"}
OfAgents == {"create_agent", "resolve"}
OfManagers == {"add_manager", "drop_manager", "transfer_agent"}

CallsBy(p) ==
  UNION {
    {Call(op, p, None, None, None) : op \in OfWorkspace},
    {Call(op, p, None, None, pol) : op \in {"create_workspace", "update_policy"},
                                    pol \in PolicyChoices},
    {Call(op, p, None, e, None) : op \in OfAddresses, e \in Emails},
    {Call("invite", p, None, e, r) : e \in Emails, r \in {"admin", "member"}},
    {Call("update_role", p, None, q, r) : q \in Principals, r \in {"admin", "member"}},
    {Call(op, p, None, q, None) : op \in OfMembers, q \in Principals},
    {Call(op, p, a, None, None) : op \in OfAgents, a \in Agents},
    {Call("set_access", p, a, None, acc) : a \in Agents, acc \in {"private", "workspace_read"}},
    {Call("set_content", p, a, q, r) : a \in Agents, q \in Principals,
                                       r \in GrantChoices \cup {None}},
    {Call(op, p, a, q, None) : op \in OfManagers, a \in Agents, q \in Principals}}

Calls == {c \in UNION {CallsBy(p) : p \in Principals} : c.op \in Operations}

-----------------------------------------------------------------------------
(* Locks. *)

\* SELECT ... FOR UPDATE, UPDATE and DELETE lock the rows they find, or nothing.
Rows(names) == [names |-> names, always |-> FALSE]
Row(name) == Rows({name})
\* An advisory lock; an INSERT has its key whether the row is there or not.
Key(name) == [names |-> {name}, always |-> TRUE]

Workspace == <<"workspace">>
Policy == <<"policy">>
Member(p) == <<"member", p>>
Address(e) == <<"address", e>>
Invitation(e) == <<"invitation", e>>
Access(a) == <<"access", a>>
Grant(a, q) == <<"grant", a, q>>
Manager(a, q) == <<"manager", a, q>>

\* FOR KEY SHARE of the workspace's row, for the foreign key of members, invitations,
\* policies, agents and audit events.
Referenced == <<"reference">>
Reference == Key(Referenced)
Advisory(domain, value) == Key(<<domain, value>>)

Exists(name) ==
  CASE name \in {Workspace, Policy} -> founder # None
    [] Head(name) = "member" -> IsMember(name[2])
    [] Head(name) = "invitation" -> invitation[name[2]] # None
    [] Head(name) = "access" -> name[2] \in agents
    [] Head(name) = "grant" -> grant[name[2]][name[3]] # None
    [] Head(name) = "manager" -> name[3] \in managers[name[2]]
    [] OTHER -> FALSE

Conflict(m, n) ==
  \/ m = n /\ m # Referenced
  \/ {m, n} = {Workspace, Referenced}

\* Mutant: the quota is counted without a lock.
NoQuotaLock(p) == Rows({})

\* _create_workspace: the creator's quota.
QuotaLock(p) == Advisory("workspaces", p)

\* Mutant: policy and number of agents are read first and nothing is locked.
NoAgentLocks == <<>>

\* create_agent: the policy it needs, then the workspace's agents.
AgentLocks == <<Row(Policy), Advisory("agents", None)>>

\* Mutant: addresses have no unique key.
ProfileLockOnly(p, e) == <<Advisory("profile", p)>>

\* register_principal: the profile, then the unique address that the upsert writes.
RegistrationLocks(p, e) == <<Advisory("profile", p), Key(Address(e))>>

\* What a call locks before it decides.
Before(c) ==
  CASE c.op = "create_workspace" -> <<Advisory("slug", None), QuotaLock(c.by)>>
    [] c.op \in {"create_other", "create_personal"} -> <<QuotaLock(c.by)>>
    [] c.op = "admission" -> <<Row(Workspace), Advisory("admission", c.by),
                               Row(Member(c.by)), Row(Policy)>>
    [] c.op = "assign_admin" -> <<Row(Workspace), Row(Member(c.by))>>
    [] c.op = "register" -> RegistrationLocks(c.by, c.on)
    [] c.op = "create_agent" -> AgentLocks
    [] c.op = "resolve" -> <<Row(Workspace), Row(Member(c.by)),
                             Advisory("agents", None), Row(Policy)>>
    [] c.op = "set_access" -> <<Row(Access(c.agent))>>
    [] OTHER -> <<>>

\* What a decision reads of the rows it goes on to write.
Owners(e) == {q \in Principals : email[q] = e}
Granted(q) == {a \in Agents : grant[a][q] # None}
Managed(q) == {a \in Agents : q \in managers[a]}
Seen(c) ==
  [offer |-> IF c.op \in OfAddresses THEN invitation[c.on] ELSE None,
   issue |-> IF c.op \in OfAddresses THEN issued[c.on] ELSE 0,
   member |-> IF c.op = "invite" THEN Owners(c.on) ELSE {p \in {c.by} : IsMember(p)},
   granted |-> IF c.on \in Principals THEN Granted(c.on) ELSE {},
   managed |-> IF c.on \in Principals THEN Managed(c.on) ELSE {}]

\* The caller's invitation makes it a member.
Accepts(seen) == seen.offer # None /\ seen.member = {}

\* What a call locks after its decision, for the rows it writes and, last, the audit
\* event; r is the caller's role and seen what the decision read.
After(c, r, seen) ==
  CASE c.op \in {"create_workspace", "create_other", "create_personal", "resolve"} -> <<>>
    [] c.op \in {"create_agent", "set_access"} -> <<Reference>>
    [] c.op \in {"admission", "assign_admin"} -> <<Key(Member(c.by))>>
    [] c.op = "update_policy" -> <<Key(Policy), Reference>>
    [] c.op = "register" ->
         CASE seen.offer = None -> <<>>
           [] Accepts(seen) -> <<Key(Member(c.by)), Reference, Row(Invitation(c.on))>>
           [] OTHER -> <<Row(Invitation(c.on))>>
    [] c.op = "revoke" -> <<Row(Invitation(c.on)), Reference>>
    [] c.op = "invite" -> <<Key(IF seen.member = {} THEN Invitation(c.on)
                                ELSE Member(CHOOSE q \in seen.member : TRUE)), Reference>>
    [] c.op = "update_role" -> <<Row(Member(c.on)), Reference>>
    [] c.op = "transfer" -> <<Row(Member(c.by)), Row(Member(c.on)), Reference>>
    [] c.op = "remove" -> <<Rows({Grant(a, c.on) : a \in seen.granted}),
                            Rows({Manager(a, c.on) : a \in seen.managed}),
                            Row(Member(c.on)), Reference>>
    [] c.op = "set_content" ->
         <<IF c.value = None THEN Rows({Grant(a, c.on) : a \in seen.granted \cap {c.agent}})
           ELSE Key(Grant(c.agent, c.on)), Reference>>
    [] c.op = "drop_manager" ->
         <<Rows({Manager(a, c.on) : a \in seen.managed \cap {c.agent}}), Reference>>
    [] c.op = "add_manager" -> <<Key(Manager(c.agent, c.on)), Reference>>
    [] c.op = "transfer_agent" ->
         <<Key(Manager(c.agent, c.on)),
           Rows(IF r \in WorkspaceAdminRoles THEN {} ELSE {Manager(c.agent, c.by)}), Reference>>

-----------------------------------------------------------------------------
(* Decisions, writes and what a commit must be like. *)

\* Operations that read nothing before they have locked it.
Locking == {"create_workspace", "create_other", "create_personal", "assign_admin", "register",
            "resolve"}

\* The first, unlocked reads: the caller's role, or the absence of one and the policy
\* by which the host answers for a newcomer.
Reads(c) == CASE c.op \in Locking -> None
              [] c.op = "admission" -> policy
              [] OTHER -> role[c.by]
Begins(c) ==
  /\ c.op \in {"admission", "assign_admin", "resolve"} => founder # None
  /\ c.op = "admission" => Entitled /\ ~IsMember(c.by)
  /\ c.op \notin Locking \cup {"admission"} => IsMember(c.by)

\* Mutant: the policy is not read again after the host has answered.
AdmissionStandsUnread(p, pol) == ~IsMember(p)

\* The policy the host was asked under still holds.
AdmissionStands(p, pol) == ~IsMember(p) /\ policy = pol

\* The decision, with r from the first reads.
Permits(c, r) ==
  CASE c.op = "create_workspace" -> MayCreateWorkspace(c.by) /\ founder = None
    [] c.op = "create_other" -> MayCreateWorkspace(c.by)
    [] c.op = "create_personal" -> MayCreateWorkspace(c.by) /\ created[c.by] = 0
    [] c.op = "update_policy" -> r \in WorkspaceAdminRoles
    [] c.op = "admission" -> AdmissionStands(c.by, r)
    [] c.op = "assign_admin" -> c.by \in PlatformAdmins /\ founder # None /\ role[c.by] # "owner"
    [] c.op = "register" -> Owners(c.on) \subseteq {c.by}
    [] c.op = "invite" -> /\ MayInvite(r, c.value)
                          /\ IF Owners(c.on) = {} THEN invitation[c.on] = None
                             ELSE \A q \in Owners(c.on) : ~IsMember(q)
    [] c.op = "revoke" -> invitation[c.on] # None /\ MayInvite(r, invitation[c.on])
    [] c.op = "update_role" -> MayUpdateRole(r, c.on)
    [] c.op = "transfer" -> MayTransfer(r, c.by, c.on)
    [] c.op = "remove" -> MayRemove(r, c.on)
    [] c.op = "create_agent" -> CanCreateAgents(r) /\ MayInsertAgent(c.agent)
    [] c.op = "resolve" -> CanCreateAgents(role[c.by]) /\ MayInsertAgent(c.agent)
    [] c.op = "set_access" -> MaySetAccess(r, c.by, c.agent, c.value, TRUE)
    [] c.op = "set_content" -> MaySetContent(r, c.by, c.agent, c.on, c.value, TRUE)
    [] c.op \in {"add_manager", "drop_manager"} -> MaySetManager(r, c.by, c.agent, c.on)
    [] c.op = "transfer_agent" -> c.by # c.on /\ MaySetManager(r, c.by, c.agent, c.on)

\* An INSERT meets a key that has been committed meanwhile: the transaction fails.
Duplicate(c, seen) ==
  \/ c.op = "admission" /\ IsMember(c.by)
  \/ c.op = "register" /\ Accepts(seen) /\ IsMember(c.by)
  \/ c.op = "invite" /\ IF seen.member = {} THEN invitation[c.on] # None
                        ELSE \A q \in seen.member : IsMember(q)

\* DELETE by invitation_id: an invitation made since to the same address stays.
Withdrawn(c, seen) ==
  [invitation EXCEPT ![c.on] = IF issued[c.on] = seen.issue THEN None ELSE @]

WriteRegistration(c, seen) ==
  /\ email' = [email EXCEPT ![c.by] = c.on]
  /\ role' = IF Accepts(seen) THEN [role EXCEPT ![c.by] = seen.offer] ELSE role
  /\ invitation' = IF seen.offer = None THEN invitation ELSE Withdrawn(c, seen)
  /\ actor' = c.by
  /\ UNCHANGED <<workspaceVars, agentVars>>

Writes(c, r, seen) ==
  LET p == c.by
      managing == managers[c.agent]
      handed == IF r \in WorkspaceAdminRoles THEN managing ELSE managing \ {p}
  IN
  \/ c.op = "create_workspace" /\ NewWorkspace(p, c.value)
  \/ c.op \in {"create_other", "create_personal"} /\ CountWorkspace(p)
  \/ c.op = "update_policy" /\ WritePolicy(p, c.value)
  \/ c.op = "admission" /\ WriteMembers(p, [role EXCEPT ![p] = "member"], invitation)
  \/ c.op = "assign_admin" /\ WriteMembers(p, [role EXCEPT ![p] = "admin"], invitation)
  \/ c.op = "register" /\ WriteRegistration(c, seen)
  \/ /\ c.op = "invite"
     /\ IF seen.member = {}
        THEN WriteMembers(p, role, [invitation EXCEPT ![c.on] = c.value])
        ELSE \E q \in seen.member : WriteMembers(p, [role EXCEPT ![q] = c.value], invitation)
  \/ c.op = "revoke" /\ WriteMembers(p, role, Withdrawn(c, seen))
  \/ c.op = "update_role" /\ WriteMembers(p, Updated(role, c.on, c.value), invitation)
  \/ c.op = "transfer" /\ WriteMembers(p, OwnedBy(p, c.on), invitation)
  \/ c.op = "remove" /\ DeleteMember(p, c.on, seen.granted, seen.managed)
  \/ c.op \in {"create_agent", "resolve"} /\ InsertAgent(p, c.agent)
  \/ c.op = "set_access" /\ WriteAccess(p, c.agent, c.value)
  \/ /\ c.op = "set_content"
     /\ WriteGrant(p, c.agent, c.on, IF c.value = None /\ c.agent \notin seen.granted
                                     THEN grant[c.agent][c.on] ELSE c.value)
  \/ c.op = "add_manager" /\ WriteManagers(p, c.agent, managing \cup {c.on})
  \/ /\ c.op = "drop_manager"
     /\ WriteManagers(p, c.agent, IF c.agent \in seen.managed THEN managing \ {c.on}
                                   ELSE managing)
  \/ c.op = "transfer_agent" /\ WriteManagers(p, c.agent, handed \cup {c.on})

Issue(c, seen) ==
  issued' = IF c.op = "invite" /\ seen.member = {} THEN [issued EXCEPT ![c.on] = @ + 1]
            ELSE issued

-----------------------------------------------------------------------------
Established(start) ==
  /\ founder = Founder
  /\ created = [p \in Principals |-> IF p = Founder THEN 1 ELSE 0]
  /\ email = [p \in Principals |-> None]
  /\ role = Members
  /\ policy = start.policy
  /\ invitation = [e \in Emails |-> start.offer]
  /\ agents = start.agents /\ access = [a \in Agents |-> "private"]
  /\ grant = [a \in Agents |-> [p \in Principals |->
                IF a \in agents /\ p = Founder THEN "admin" ELSE None]]
  /\ managers = [a \in Agents |-> IF a \in agents THEN {Founder} ELSE {}]
  /\ actor = Founder

\* Before the workspace exists, or once it has members.
TxnInit ==
  /\ \/ Init
     \/ \E start \in Starts : Established(start)
  /\ txn = [t \in Sessions |-> None]
  /\ issued = [e \in Emails |-> 0]
  /\ calls = 0

Begin(t, c) ==
  /\ txn[t] = None /\ calls < MaxCalls
  /\ Begins(c)
  /\ txn' = [txn EXCEPT ![t] = [call |-> c, read |-> Reads(c), seen |-> None,
                               todo |-> Before(c), held |-> {}]]
  /\ calls' = calls + 1
  /\ UNCHANGED <<vars, issued>>

Wanted(lock) == {n \in lock.names : lock.always \/ Exists(n)}

Free(t, lock) ==
  \A u \in Sessions \ {t} : txn[u] # None =>
    \A n \in Wanted(lock), held \in txn[u].held : ~Conflict(n, held)

Acquire(t) ==
  /\ txn[t] # None /\ txn[t].todo # <<>>
  /\ LET lock == Head(txn[t].todo)
     IN  /\ Free(t, lock)
         /\ txn' = [txn EXCEPT ![t].todo = Tail(@), ![t].held = @ \cup Wanted(lock)]
  /\ UNCHANGED <<vars, issued, calls>>

\* The end of a transaction gives its locks back.
Close(t) == txn' = [txn EXCEPT ![t] = None]

\* Mutant: a call that is refused returns without ending its transaction.
DecideLeavingOpen(t) ==
  /\ txn[t] # None /\ txn[t].todo = <<>> /\ txn[t].seen = None
  /\ LET c == txn[t].call
     IN /\ Permits(c, txn[t].read)
        /\ txn' = [txn EXCEPT ![t].seen = Seen(c), ![t].todo = After(c, txn[t].read, Seen(c))]
  /\ UNCHANGED <<vars, issued, calls>>

Decide(t) ==
  /\ txn[t] # None /\ txn[t].todo = <<>> /\ txn[t].seen = None
  /\ LET c == txn[t].call
     IN IF Permits(c, txn[t].read)
        THEN txn' = [txn EXCEPT ![t].seen = Seen(c), ![t].todo = After(c, txn[t].read, Seen(c))]
        ELSE Close(t)
  /\ UNCHANGED <<vars, issued, calls>>

Commit(t) ==
  /\ txn[t] # None /\ txn[t].todo = <<>> /\ txn[t].seen # None
  /\ LET c == txn[t].call IN
     \/ Duplicate(c, txn[t].seen) /\ UNCHANGED <<vars, issued>>
     \/ /\ ~Duplicate(c, txn[t].seen)
        /\ Writes(c, txn[t].read, txn[t].seen) /\ Issue(c, txn[t].seen)
  /\ Close(t)
  /\ UNCHANGED calls

Waits(t, u) ==
  /\ txn[t] # None /\ txn[u] # None /\ t # u /\ txn[t].todo # <<>>
  /\ \E n \in Wanted(Head(txn[t].todo)), held \in txn[u].held : Conflict(n, held)

Circle(t) == \E C \in SUBSET Sessions : t \in C /\ \A u \in C : \E v \in C : Waits(u, v)

\* PostgreSQL ends one of the transactions in a circle.
DeadlockAbort(t) == Circle(t) /\ Close(t) /\ UNCHANGED <<vars, issued, calls>>

\* The service or its connection dies, and PostgreSQL rolls back.
Fail(t) == txn[t] # None /\ Close(t) /\ UNCHANGED <<vars, issued, calls>>

TxnNext ==
  \E t \in Sessions :
    \/ \E c \in Calls : Begin(t, c)
    \/ Acquire(t) \/ Decide(t) \/ Commit(t) \/ DeadlockAbort(t) \/ Fail(t)

TxnSpec ==
  /\ TxnInit /\ [][TxnNext]_txnVars
  /\ \A t \in Sessions : WF_txnVars(Acquire(t) \/ Decide(t) \/ Commit(t) \/ DeadlockAbort(t))

-----------------------------------------------------------------------------
\* However transactions overlap, a workspace has no more agents than its limit: both
\* ways to create one count under the same lock.
AgentsWithinLimit == Cardinality(agents) <= MaxAgents

\* Nor has a principal created more workspaces than its quota.
WorkspacesWithinLimit == \A p \in Principals : created[p] <= MaxWorkspaces

\* A verified address is one principal's, although who has it is read without a lock.
OneAddressOnePrincipal ==
  \A p, q \in Principals : email[p] # None /\ email[p] = email[q] => p = q

\* The operations that decide under their locks happen as if alone, at their commit:
\* whatever others do meanwhile, a decision to admit, to promote a platform
\* administrator or to create still stands when it takes effect, although the host
\* was asked for an entitlement in between.
Serial(c) ==
  CASE c.op = "create_workspace" -> CreateWorkspace(c.by, c.value)
    [] c.op = "create_other" -> CreateOtherWorkspace(c.by)
    [] c.op = "create_personal" -> EnsurePersonalWorkspace(c.by)
    [] c.op = "admission" -> EnsureWorkspaceAdmission(c.by)
    [] c.op = "assign_admin" -> AssignPlatformAdminRole(c.by)
    [] c.op = "resolve" -> ResolveOrCreate(c.by, c.agent, "write")
    [] OTHER -> TRUE
LockingCallsAreAtomic ==
  [][\A t \in Sessions :
       txn[t] # None /\ txn'[t] = None /\ vars' # vars => Serial(txn[t].call)]_txnVars

\* Every transaction ends, with an answer or an error, however they wait for each other.
EveryCallEnds == \A t \in Sessions : txn[t] # None ~> txn[t] = None

=============================================================================
