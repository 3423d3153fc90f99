------------------------------- MODULE Management -------------------------------
(***************************************************************************)
(* One workspace of the control plane: its members, invitations, policies, *)
(* agents, grants and managers (control_plane/management_store.py and      *)
(* namespace_store.py).  Every operation is one action, as if its          *)
(* transaction ran alone; ManagementTxns lets transactions overlap.  Other *)
(* workspaces share no row with this one and are only counted, for the     *)
(* quota of their creator.                                                 *)
(***************************************************************************)
EXTENDS Naturals, FiniteSets

CONSTANTS Principals, Emails, Agents,
          Creators,        \* principals the host lets create workspaces
          PlatformAdmins,  \* principals the host calls platform administrators
          AllowSelfGrant,  \* allow_admin_self_grant
          MaxWorkspaces,   \* max_workspaces_per_principal
          MaxAgents,       \* max_agents_per_workspace
          PolicyChoices,   \* policies that callers choose from
          GrantChoices,    \* content roles that callers choose from
          None

VARIABLES
  founder,     \* created_by_principal_id of the workspace, None before its creation
  created,     \* number of workspaces each principal has created
  email,       \* principal_profiles
  role,        \* workspace_members
  policy,      \* workspace_policies
  invitation,  \* workspace_invitations: the role offered to an address
  agents,      \* agent_profiles
  access,      \* agent_access_policies
  grant,       \* agent_grants
  managers,    \* agent_managers
  actor        \* whose call made the last step (actor_principal_id of the audit rows)

workspaceVars == <<founder, created, policy>>
memberVars == <<email, role, invitation>>
agentVars == <<agents, access, grant, managers>>
vars == <<workspaceVars, memberVars, agentVars, actor>>

WorkspaceRoles == {"owner", "admin", "member"}
WorkspaceAdminRoles == {"owner", "admin"}
GrantRoles == {"reader", "editor", "admin"}
Policies == [admission : {"invite_only", "all_authenticated", "external_entitlement"},
             creation : {"admins_only", "all_members"}]
LeastPolicy == [admission |-> "invite_only", creation |-> "admins_only"]

ASSUME QuotaAssumption == MaxWorkspaces \in Nat \ {0} /\ MaxAgents \in Nat \ {0}
ASSUME ChoiceAssumption == /\ PolicyChoices \subseteq Policies
                           /\ GrantChoices \subseteq GrantRoles
                           /\ Creators \subseteq Principals
                           /\ PlatformAdmins \subseteq Principals
                           /\ AllowSelfGrant \in BOOLEAN
ASSUME NoneAssumption ==
  /\ None \notin Principals \cup Emails \cup WorkspaceRoles \cup GrantRoles
  /\ None \notin {"policy", "quota"}

TypeOK ==
  /\ founder \in Principals \cup {None}
  /\ created \in [Principals -> 0 .. MaxWorkspaces]
  /\ email \in [Principals -> Emails \cup {None}]
  /\ role \in [Principals -> WorkspaceRoles \cup {None}]
  /\ policy \in Policies
  /\ invitation \in [Emails -> {"admin", "member", None}]
  /\ agents \in SUBSET Agents
  /\ access \in [Agents -> {"private", "workspace_read"}]
  /\ grant \in [Agents -> [Principals -> GrantRoles \cup {None}]]
  /\ managers \in [Agents -> SUBSET Principals]
  /\ actor \in Principals \cup {None}

Init ==
  /\ founder = None /\ created = [p \in Principals |-> 0]
  /\ email = [p \in Principals |-> None]
  /\ role = [p \in Principals |-> None]
  /\ policy = LeastPolicy
  /\ invitation = [e \in Emails |-> None]
  /\ agents = {} /\ access = [a \in Agents |-> "private"]
  /\ grant = [a \in Agents |-> [p \in Principals |-> None]]
  /\ managers = [a \in Agents |-> {}]
  /\ actor = None

-----------------------------------------------------------------------------
(* What the transactions read. *)

\* _workspace_access: without a member row the call is refused.
IsMember(p) == role[p] # None
IsAdmin(p) == role[p] \in WorkspaceAdminRoles

\* The guards take the caller's role r, as _workspace_access hands it to them.

\* _require_agent_manager
MayManage(r, p, a) == a \in agents /\ (r \in WorkspaceAdminRoles \/ (r # None /\ p \in managers[a]))
ManagesAgent(p, a) == MayManage(role[p], p, a)

\* The two outcomes of the self-grant checks: a caller may only give itself content
\* access as an administrator, where the deployment allows it, and confirmed.
MayGrantItself(r, confirmed) == r \in WorkspaceAdminRoles /\ AllowSelfGrant /\ confirmed

MayCreateWorkspaces(p) == p \in Creators \cup PlatformAdmins

\* _can_create_agents, and may_create of resolve_or_create
CanCreateAgents(r) ==
  r \in WorkspaceAdminRoles \/ (r = "member" /\ policy.creation = "all_members")

\* The content role with which resolve_or_create binds a principal to an agent.
ResolvedRole(p, a) ==
  CASE ~IsMember(p) \/ a \notin agents -> None
    [] OTHER -> IF grant[a][p] # None THEN grant[a][p]
                ELSE IF access[a] = "workspace_read" THEN "reader" ELSE None

\* role_allows_action: delete is for full access only, and export for nobody.
RoleActions(r) ==
  LET reading == {"list", "read", "history_list", "history_read"} IN
  CASE r = "reader" -> reading
    [] r = "editor" -> reading \cup {"write", "append"}
    [] r = "admin" -> reading \cup {"write", "append", "delete"}
    [] OTHER -> {}

\* list_agents: what a member sees, with its content role and whether it can manage.
ListedAgents(p) ==
  LET content(a) == IF grant[a][p] = None /\ access[a] = "workspace_read"
                    THEN "reader" ELSE grant[a][p]
      seen == {a \in agents : role[p] = "member" => content(a) # None \/ p \in managers[a]}
  IN [a \in seen |-> [content |-> content(a), manage |-> IsAdmin(p) \/ p \in managers[a]]]

\* Mutant: an agent that is open to the workspace shows its explicit grants only.
AgentAccessGrantsOnly(a) == [p \in {q \in Principals : IsMember(q)} |-> grant[a][p]]

\* list_agent_access: the effective role of every member, as a manager sees it.
AgentAccess(a) ==
  [p \in {q \in Principals : IsMember(q)} |->
     CASE grant[a][p] # None -> grant[a][p]
       [] grant[a][p] = None /\ access[a] = "workspace_read" -> "reader"
       [] OTHER -> None]

\* GET /me: whether the account may create a workspace, and what restricts it.
CreationRestriction(p) ==
  CASE ~MayCreateWorkspaces(p) -> "policy"
    [] MayCreateWorkspaces(p) /\ created[p] >= MaxWorkspaces -> "quota"
    [] OTHER -> None

-----------------------------------------------------------------------------
(* What the transactions write, each set of rows by the call of p. *)

\* The workspace with its owner and its policy, counted for its creator.
NewWorkspace(p, pol) ==
  /\ founder' = p
  /\ created' = [created EXCEPT ![p] = @ + 1]
  /\ role' = [role EXCEPT ![p] = "owner"]
  /\ policy' = pol
  /\ actor' = p
  /\ UNCHANGED <<email, invitation, agentVars>>

\* A workspace under another slug: of its rows only the creator's count matters here.
CountWorkspace(p) ==
  /\ created' = [created EXCEPT ![p] = @ + 1]
  /\ actor' = p
  /\ UNCHANGED <<founder, policy, memberVars, agentVars>>

WritePolicy(p, pol) ==
  /\ policy' = pol
  /\ actor' = p
  /\ UNCHANGED <<founder, created, memberVars, agentVars>>

\* Members and invitations as given; nothing else changes.
WriteMembers(p, members, offers) ==
  /\ role' = members /\ invitation' = offers
  /\ actor' = p
  /\ UNCHANGED <<workspaceVars, email, agentVars>>

\* An UPDATE by key does nothing to a row that is gone.
Updated(members, q, r) == [members EXCEPT ![q] = IF @ = None THEN None ELSE r]

\* Mutant: the managements of the member stay.
DeleteMemberOnly(p, q, granted, managed) ==
  /\ role' = [role EXCEPT ![q] = None]
  /\ grant' = [a \in Agents |-> IF a \in granted THEN [grant[a] EXCEPT ![q] = None] ELSE grant[a]]
  /\ actor' = p
  /\ UNCHANGED <<workspaceVars, email, invitation, agents, access, managers>>

\* A member's row goes with the grants it has on granted and its managements of managed.
DeleteMember(p, q, granted, managed) ==
  /\ role' = [role EXCEPT ![q] = None]
  /\ grant' = [a \in Agents |-> IF a \in granted THEN [grant[a] EXCEPT ![q] = None] ELSE grant[a]]
  /\ managers' = [a \in Agents |-> IF a \in managed THEN managers[a] \ {q} ELSE managers[a]]
  /\ actor' = p
  /\ UNCHANGED <<workspaceVars, email, invitation, agents, access>>

\* A new agent is private; its creator gets full access and its management.
InsertAgent(p, a) ==
  /\ agents' = agents \cup {a}
  /\ access' = [access EXCEPT ![a] = "private"]
  /\ grant' = [grant EXCEPT ![a][p] = "admin"]
  /\ managers' = [managers EXCEPT ![a] = @ \cup {p}]
  /\ actor' = p
  /\ UNCHANGED <<workspaceVars, memberVars>>

WriteAccess(p, a, acc) ==
  /\ access' = [access EXCEPT ![a] = acc]
  /\ actor' = p
  /\ UNCHANGED <<workspaceVars, memberVars, agents, grant, managers>>

WriteGrant(p, a, q, r) ==
  /\ grant' = [grant EXCEPT ![a][q] = r]
  /\ actor' = p
  /\ UNCHANGED <<workspaceVars, memberVars, agents, access, managers>>

WriteManagers(p, a, set) ==
  /\ managers' = [managers EXCEPT ![a] = set]
  /\ actor' = p
  /\ UNCHANGED <<workspaceVars, memberVars, agents, access, grant>>

-----------------------------------------------------------------------------
(* Workspaces. *)

\* Mutant: one workspace too many.
MayCreateWorkspaceOnceMore(p) == MayCreateWorkspaces(p) /\ created[p] <= MaxWorkspaces

\* The creator's quota.
MayCreateWorkspace(p) == MayCreateWorkspaces(p) /\ created[p] < MaxWorkspaces

CreateWorkspace(p, pol) ==
  MayCreateWorkspace(p) /\ founder = None /\ NewWorkspace(p, pol)

CreateOtherWorkspace(p) == MayCreateWorkspace(p) /\ CountWorkspace(p)

\* The personal workspace has a random slug and is made for the first one only.
EnsurePersonalWorkspace(p) ==
  /\ created[p] = 0
  /\ CreateWorkspace(p, LeastPolicy) \/ CreateOtherWorkspace(p)

\* Done by a platform administrator's first request; where the slug exists it is listed.
EnsureDefaultWorkspace(p, pol) == p \in PlatformAdmins /\ CreateWorkspace(p, pol)

UpdateWorkspacePolicy(p, pol) == IsAdmin(p) /\ WritePolicy(p, pol)

-----------------------------------------------------------------------------
(* Members. *)

\* Mutant: an invitation to somebody who is a member is left where it is.
RegisterMembersOnly(p, e) ==
  /\ \A q \in Principals : email[q] = e => q = p
  /\ email' = [email EXCEPT ![p] = e]
  /\ role' = [role EXCEPT ![p] = IF @ = None THEN invitation[e] ELSE @]
  /\ invitation' = IF IsMember(p) THEN invitation ELSE [invitation EXCEPT ![e] = None]
  /\ actor' = p
  /\ UNCHANGED <<workspaceVars, agentVars>>

\* A verified address belongs to one principal; an invitation to it is taken up.
RegisterPrincipal(p, e) ==
  /\ \A q \in Principals : email[q] = e => q = p
  /\ email' = [email EXCEPT ![p] = e]
  /\ role' = [role EXCEPT ![p] = IF @ = None THEN invitation[e] ELSE @]
  /\ invitation' = [invitation EXCEPT ![e] = None]
  /\ actor' = p
  /\ UNCHANGED <<workspaceVars, agentVars>>

\* Everyone who is authenticated, or those for whom the host's resolver answers yes: it
\* may answer either, and a no changes nothing.
Entitled == policy.admission # "invite_only"

EnsureWorkspaceAdmission(p) ==
  /\ founder # None /\ Entitled /\ ~IsMember(p)
  /\ WriteMembers(p, [role EXCEPT ![p] = "member"], invitation)

AssignPlatformAdminRole(p) ==
  /\ p \in PlatformAdmins /\ founder # None /\ role[p] # "owner"
  /\ WriteMembers(p, [role EXCEPT ![p] = "admin"], invitation)

\* Mutant: an administrator may invite others.
MayInviteAny(r, offer) == r \in WorkspaceAdminRoles

\* Only an owner invites administrators, or takes such an invitation back.
MayInvite(r, offer) == r \in WorkspaceAdminRoles /\ (offer = "admin" => r = "owner")

\* A registered address is added at once, another one is invited.
InviteMember(p, e, r) ==
  /\ MayInvite(role[p], r)
  /\ \/ \E q \in Principals : /\ email[q] = e /\ ~IsMember(q)
                              /\ WriteMembers(p, [role EXCEPT ![q] = r], invitation)
     \/ /\ invitation[e] = None /\ \A q \in Principals : email[q] # e
        /\ WriteMembers(p, role, [invitation EXCEPT ![e] = r])

RevokeInvitation(p, e) ==
  /\ invitation[e] # None /\ MayInvite(role[p], invitation[e])
  /\ WriteMembers(p, role, [invitation EXCEPT ![e] = None])

MayUpdateRole(r, q) == r = "owner" /\ IsMember(q) /\ role[q] # "owner"

UpdateMemberRole(p, q, r) ==
  MayUpdateRole(role[p], q) /\ WriteMembers(p, Updated(role, q, r), invitation)

MayTransfer(r, p, q) == p # q /\ r = "owner" /\ IsMember(q)

\* Two UPDATEs, each by its own key.
OwnedBy(p, q) == Updated(Updated(role, p, "admin"), q, "owner")

TransferOwnership(p, q) == MayTransfer(role[p], p, q) /\ WriteMembers(p, OwnedBy(p, q), invitation)

\* Mutant: the role of the one removed is compared with administrator only.
MayRemoveOwner(r, q) == /\ r \in WorkspaceAdminRoles /\ IsMember(q)
                        /\ role[q] = "admin" => r = "owner"

MayRemove(r, q) == /\ r \in WorkspaceAdminRoles /\ IsMember(q) /\ role[q] # "owner"
                   /\ role[q] = "admin" => r = "owner"

RemoveMember(p, q) == MayRemove(role[p], q) /\ DeleteMember(p, q, Agents, Agents)

-----------------------------------------------------------------------------
(* Agents. *)

\* Slug and quota, checked under the workspace's lock for agents.
MayInsertAgent(a) == a \notin agents /\ Cardinality(agents) < MaxAgents

CreateAgent(p, a) == CanCreateAgents(role[p]) /\ MayInsertAgent(a) /\ InsertAgent(p, a)

\* resolve_or_create where the agent is missing; the check of the action comes last
\* and rolls the creation back.  Binding an existing agent changes nothing.
ResolveOrCreate(p, a, action) ==
  /\ CanCreateAgents(role[p]) /\ MayInsertAgent(a) /\ action \in RoleActions("admin")
  /\ InsertAgent(p, a)

\* The display name is not kept in this model.
UpdateAgentAlias(p, a) ==
  /\ ManagesAgent(p, a)
  /\ actor' = p
  /\ UNCHANGED <<workspaceVars, memberVars, agentVars>>

\* Mutant: a manager without access opens the agent as any other.
MayOpenAgentManaging(r, p, a, confirmed) == TRUE

\* Opening an agent to the workspace gives the caller access, too, if it has none.
MayOpenAgent(r, p, a, confirmed) == grant[a][p] # None \/ MayGrantItself(r, confirmed)

MaySetAccess(r, p, a, acc, confirmed) ==
  /\ MayManage(r, p, a) /\ access[a] # acc
  /\ acc = "workspace_read" => MayOpenAgent(r, p, a, confirmed)

SetAgentAccessPolicy(p, a, acc, confirmed) ==
  MaySetAccess(role[p], p, a, acc, confirmed) /\ WriteAccess(p, a, acc)

MaySetContent(r, p, a, q, content, confirmed) ==
  /\ MayManage(r, p, a) /\ IsMember(q)
  /\ content # None /\ p = q => MayGrantItself(r, confirmed)

SetContentAccess(p, a, q, content, confirmed) ==
  MaySetContent(role[p], p, a, q, content, confirmed) /\ WriteGrant(p, a, q, content)

MaySetManager(r, p, a, q) == MayManage(r, p, a) /\ IsMember(q)

SetAgentManager(p, a, q, enabled) ==
  /\ MaySetManager(role[p], p, a, q)
  /\ WriteManagers(p, a, IF enabled THEN managers[a] \cup {q} ELSE managers[a] \ {q})

\* A workspace administrator keeps its own row, a manager hands it over.
TransferAgentManagement(p, a, q) ==
  /\ p # q /\ MaySetManager(role[p], p, a, q)
  /\ WriteManagers(p, a, (IF IsAdmin(p) THEN managers[a] ELSE managers[a] \ {p}) \cup {q})

-----------------------------------------------------------------------------
WorkspaceNext(p) ==
  \/ \E pol \in PolicyChoices : \/ CreateWorkspace(p, pol)
                                \/ EnsureDefaultWorkspace(p, pol)
                                \/ UpdateWorkspacePolicy(p, pol)
  \/ CreateOtherWorkspace(p)
  \/ EnsurePersonalWorkspace(p)

MemberNext(p) ==
  \/ EnsureWorkspaceAdmission(p)
  \/ AssignPlatformAdminRole(p)
  \/ \E e \in Emails : RegisterPrincipal(p, e) \/ RevokeInvitation(p, e)
  \/ \E e \in Emails, r \in {"admin", "member"} : InviteMember(p, e, r)
  \/ \E q \in Principals, r \in {"admin", "member"} : UpdateMemberRole(p, q, r)
  \/ \E q \in Principals : TransferOwnership(p, q) \/ RemoveMember(p, q)

AgentNext(p) ==
  \E a \in Agents :
    \/ CreateAgent(p, a)
    \/ \E action \in {"read", "write", "export"} : ResolveOrCreate(p, a, action)
    \/ UpdateAgentAlias(p, a)
    \/ \E acc \in {"private", "workspace_read"}, confirmed \in BOOLEAN :
         SetAgentAccessPolicy(p, a, acc, confirmed)
    \/ \E q \in Principals :
         \/ \E r \in GrantChoices \cup {None}, confirmed \in BOOLEAN :
              SetContentAccess(p, a, q, r, confirmed)
         \/ \E enabled \in BOOLEAN : SetAgentManager(p, a, q, enabled)
         \/ TransferAgentManagement(p, a, q)

Next == \E p \in Principals : WorkspaceNext(p) \/ MemberNext(p) \/ AgentNext(p)

Spec == Init /\ [][Next]_vars

-----------------------------------------------------------------------------
\* A workspace has one owner from its creation on, through invitations, role changes,
\* removals, platform administrators and transfers.
OneOwner ==
  founder # None => \E p \in Principals : \A q \in Principals : role[q] = "owner" <=> q = p

\* Removing a member takes its grants and managements along, and nothing else leaves
\* or puts such a row beside a principal that is no member.
AccessNeedsMembership ==
  \A a \in Agents, p \in Principals :
    grant[a][p] # None \/ p \in managers[a] => a \in agents /\ IsMember(p)

\* An invitation waits only for an address nobody has registered: whoever signs in
\* with it takes it up, and an invitation to a registered one is a membership.
InvitationsArePending ==
  \A e \in Emails : invitation[e] # None =>
    founder # None /\ \A p \in Principals : email[p] # e

\* Three places work out a content role: binding a memory call (resolve_or_create),
\* the list of one's agents and the list of an agent's readers.  They agree, and a
\* plain member is shown nothing it can neither read nor manage.  So do GET /me and the
\* check of the quota when a workspace is made.
ListingsAgree ==
  \A p \in Principals :
    /\ CreationRestriction(p) = None <=> MayCreateWorkspace(p)
    /\ IsMember(p) => \A a \in agents :
      /\ AgentAccess(a)[p] = ResolvedRole(p, a)
      /\ IF a \in DOMAIN ListedAgents(p)
         THEN /\ ListedAgents(p)[a].content = ResolvedRole(p, a)
              /\ ListedAgents(p)[a].manage = ManagesAgent(p, a)
         ELSE ResolvedRole(p, a) = None /\ ~ManagesAgent(p, a)

\* Nobody becomes administrator or owner by its own call, except by creating the
\* workspace, as a platform administrator, or through an owner's invitation; and an
\* invitation to administer is an owner's.
NobodyRaisesItself ==
  [][/\ \A p \in Principals :
          ~IsAdmin(p) /\ role'[p] \in WorkspaceAdminRoles =>
            \/ founder = None
            \/ actor' # p /\ role[actor'] = "owner"
            \/ actor' = p /\ p \in PlatformAdmins
            \/ actor' = p /\ email'[p] # None /\ invitation[email'[p]] = "admin"
     /\ \A e \in Emails :
          invitation'[e] = "admin" /\ invitation[e] # "admin" => role[actor'] = "owner"]_vars

\* Management never is content access: a member that cannot read an agent comes to
\* read it through somebody else who manages the agent, or, where the deployment
\* allows it, as an administrator for itself; otherwise only with the agent it makes.
ContentIsGiven ==
  [][\A p \in Principals, a \in Agents :
       IsMember(p) /\ ResolvedRole(p, a) = None /\ ResolvedRole(p, a)' # None =>
          \/ a \notin agents /\ actor' = p
          \/ actor' # p /\ ManagesAgent(actor', a)
          \/ actor' = p /\ IsAdmin(p) /\ AllowSelfGrant]_vars

=============================================================================
