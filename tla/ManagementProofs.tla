---------------------------- MODULE ManagementProofs ----------------------------
(***************************************************************************)
(* Management and ManagementTxns for every value of their constants.       *)
(*                                                                         *)
(* Calls that do not overlap: one owner, no grant without membership, no   *)
(* invitation to a registered address, who may give administration and     *)
(* content access, and that the listings agree.                            *)
(*                                                                         *)
(* Overlapping transactions: the limits hold, an address is one            *)
(* principal's, and the operations that decide under their locks are       *)
(* atomic.  The argument: locks exclude each other, a transaction has the  *)
(* locks its decision rests on, and whoever writes what the decision read  *)
(* would need one that conflicts.                                          *)
(***************************************************************************)
EXTENDS ManagementTxns, FiniteSetTheorems, SequenceTheorems, TLAPS

---------------------------------------------------------------------------
(* Calls that do not overlap.                                              *)

\* Before it is created a workspace has no rows.
Unfounded ==
  founder = None => /\ \A p \in Principals : role[p] = None
                    /\ \A e \in Emails : invitation[e] = None
                    /\ agents = {}

\* An address is registered once: what makes an invitation reach one principal.
AddressesAreUnique ==
  \A p, q \in Principals : email[p] # None /\ email[p] = email[q] => p = q

Owned(members) ==
  \E p \in Principals : \A q \in Principals : members[q] = "owner" <=> q = p

IInv == /\ TypeOK /\ Unfounded /\ AddressesAreUnique
        /\ OneOwner /\ AccessNeedsMembership /\ InvitationsArePending

\* The assumptions on the constants, as the steps need them.
LEMMA Constants ==
  /\ PolicyChoices \subseteq Policies /\ GrantChoices \subseteq GrantRoles
  /\ None \notin Principals /\ None \notin Emails
  /\ None \notin WorkspaceRoles /\ None \notin GrantRoles
  /\ None # "owner" /\ None # "admin" /\ None # "member"
  /\ MaxWorkspaces \in Nat \ {0} /\ MaxAgents \in Nat \ {0}
BY QuotaAssumption, ChoiceAssumption, NoneAssumption DEF WorkspaceRoles, GrantRoles

\* The empty control plane satisfies the invariant.
LEMMA InitInv == Init => IInv
<1> SUFFICES ASSUME Init PROVE IInv
  OBVIOUS
<1> USE Constants
<1>1. TypeOK
  BY DEF Init, TypeOK, LeastPolicy, Policies
<1>2. Unfounded /\ AddressesAreUnique /\ OneOwner
  BY DEF Init, Unfounded, AddressesAreUnique, OneOwner
<1>3. AccessNeedsMembership /\ InvitationsArePending
  BY DEF Init, AccessNeedsMembership, InvitationsArePending
<1> QED
  BY <1>1, <1>2, <1>3 DEF IInv

-----------------------------------------------------------------------------
(* The sets of rows that are written keep the invariant. *)

\* The creation of the workspace makes its creator the one owner and keeps the invariant.
LEMMA WorkspaceWritten ==
  ASSUME IInv, NEW p \in Principals, NEW pol \in Policies,
         MayCreateWorkspace(p), founder = None, NewWorkspace(p, pol)
  PROVE  IInv'
<1> USE Constants DEF NewWorkspace, memberVars, agentVars
<1>1. TypeOK'
  <2>1. created[p] + 1 \in 0 .. MaxWorkspaces
    BY DEF IInv, TypeOK, MayCreateWorkspace
  <2> QED
    BY <2>1 DEF IInv, TypeOK, WorkspaceRoles
<1>2. \A q \in Principals : role'[q] = (IF q = p THEN "owner" ELSE None)
  BY DEF IInv, TypeOK, Unfounded
<1>3. Unfounded' /\ AddressesAreUnique' /\ OneOwner'
  BY <1>2 DEF IInv, Unfounded, AddressesAreUnique, OneOwner
<1>4. AccessNeedsMembership' /\ InvitationsArePending'
  BY <1>2 DEF IInv, Unfounded, AccessNeedsMembership, InvitationsArePending, IsMember
<1> QED
  BY <1>1, <1>3, <1>4 DEF IInv

\* So does the creation of a further workspace, which only counts it,
LEMMA WorkspaceCounted ==
  ASSUME IInv, NEW p \in Principals, MayCreateWorkspace(p), CountWorkspace(p)
  PROVE  IInv'
<1> USE Constants DEF CountWorkspace, memberVars, agentVars
<1>1. created[p] + 1 \in 0 .. MaxWorkspaces
  BY DEF IInv, TypeOK, MayCreateWorkspace
<1>2. TypeOK'
  BY <1>1 DEF IInv, TypeOK
<1>3. Unfounded' /\ AddressesAreUnique' /\ OneOwner'
  BY DEF IInv, Unfounded, AddressesAreUnique, OneOwner
<1>4. AccessNeedsMembership' /\ InvitationsArePending'
  BY DEF IInv, AccessNeedsMembership, InvitationsArePending, IsMember
<1> QED
  BY <1>2, <1>3, <1>4 DEF IInv

\* and the writing of a policy.
LEMMA PolicyWritten ==
  ASSUME IInv, NEW p \in Principals, NEW pol \in Policies, WritePolicy(p, pol)
  PROVE  IInv'
<1> USE Constants DEF WritePolicy, memberVars, agentVars
<1>1. TypeOK'
  BY DEF IInv, TypeOK
<1>2. Unfounded' /\ AddressesAreUnique' /\ OneOwner'
  BY DEF IInv, Unfounded, AddressesAreUnique, OneOwner
<1>3. AccessNeedsMembership' /\ InvitationsArePending'
  BY DEF IInv, AccessNeedsMembership, InvitationsArePending, IsMember
<1> QED
  BY <1>1, <1>2, <1>3 DEF IInv

\* Members are only added or given other roles.
LEMMA MembersWritten ==
  ASSUME IInv, NEW p \in Principals, founder # None,
         NEW members \in [Principals -> WorkspaceRoles \cup {None}],
         NEW offers \in [Emails -> {"admin", "member", None}],
         Owned(members),
         \A q \in Principals : role[q] # None => members[q] # None,
         \A e \in Emails : offers[e] # None => \A q \in Principals : email[q] # e,
         WriteMembers(p, members, offers)
  PROVE  IInv'
<1> USE Constants DEF WriteMembers, workspaceVars, agentVars
<1>1. TypeOK'
  BY DEF IInv, TypeOK
<1>2. Unfounded' /\ AddressesAreUnique' /\ OneOwner'
  BY DEF IInv, Unfounded, AddressesAreUnique, OneOwner, Owned
<1>3. AccessNeedsMembership' /\ InvitationsArePending'
  BY DEF IInv, AccessNeedsMembership, InvitationsArePending, IsMember
<1> QED
  BY <1>1, <1>2, <1>3 DEF IInv

\* Agents, grants and managers change for members only.
LEMMA AgentsWritten ==
  ASSUME IInv, actor' \in Principals, UNCHANGED <<workspaceVars, memberVars>>,
         founder # None,
         agents' \in SUBSET Agents, access' \in [Agents -> {"private", "workspace_read"}],
         grant' \in [Agents -> [Principals -> GrantRoles \cup {None}]],
         managers' \in [Agents -> SUBSET Principals],
         AccessNeedsMembership'
  PROVE  IInv'
<1> USE Constants DEF workspaceVars, memberVars
<1>1. TypeOK'
  BY DEF IInv, TypeOK
<1>2. Unfounded' /\ AddressesAreUnique' /\ OneOwner'
  BY DEF IInv, Unfounded, AddressesAreUnique, OneOwner
<1>3. InvitationsArePending'
  BY DEF IInv, InvitationsArePending
<1> QED
  BY <1>1, <1>2, <1>3 DEF IInv

-----------------------------------------------------------------------------
\* Creations of workspaces and changes of the policy keep the invariant.
LEMMA WorkspaceStep ==
  ASSUME IInv, NEW p \in Principals, WorkspaceNext(p)
  PROVE  IInv'
<1> USE Constants
<1>1. ASSUME NEW pol \in PolicyChoices, CreateWorkspace(p, pol) PROVE IInv'
  BY <1>1, WorkspaceWritten DEF CreateWorkspace
<1>2. ASSUME NEW pol \in PolicyChoices, EnsureDefaultWorkspace(p, pol) PROVE IInv'
  BY <1>1, <1>2 DEF EnsureDefaultWorkspace
<1>3. ASSUME NEW pol \in PolicyChoices, UpdateWorkspacePolicy(p, pol) PROVE IInv'
  BY <1>3, PolicyWritten DEF UpdateWorkspacePolicy
<1>4. CASE CreateOtherWorkspace(p)
  BY <1>4, WorkspaceCounted DEF CreateOtherWorkspace
<1>5. CASE EnsurePersonalWorkspace(p)
  <2>1. LeastPolicy \in Policies
    BY DEF LeastPolicy, Policies
  <2>2. CASE CreateWorkspace(p, LeastPolicy)
    BY <2>1, <2>2, WorkspaceWritten DEF CreateWorkspace
  <2> QED
    BY <1>4, <1>5, <2>2 DEF EnsurePersonalWorkspace
<1> QED
  BY <1>1, <1>2, <1>3, <1>4, <1>5 DEF WorkspaceNext

\* Whoever has a role is in a workspace that exists.
LEMMA MembersFounded ==
  ASSUME IInv, NEW p \in Principals, role[p] # None
  PROVE  founder # None
BY DEF IInv, Unfounded

\* Registrations, invitations and the operations on members keep the invariant.
LEMMA MemberStep ==
  ASSUME IInv, NEW p \in Principals, MemberNext(p)
  PROVE  IInv'
<1> USE Constants
<1> USE DEF IsMember, WorkspaceRoles
<1>0. /\ role \in [Principals -> WorkspaceRoles \cup {None}]
      /\ invitation \in [Emails -> {"admin", "member", None}]
      /\ \A e \in Emails : invitation[e] # None => \A q \in Principals : email[q] # e
  BY DEF IInv, TypeOK, InvitationsArePending
<1>1. CASE EnsureWorkspaceAdmission(p)
  <2>1. Owned([role EXCEPT ![p] = "member"])
    BY <1>0, <1>1 DEF EnsureWorkspaceAdmission, IInv, OneOwner, Owned
  <2> QED
    BY <1>0, <1>1, <2>1, MembersWritten DEF EnsureWorkspaceAdmission
<1>2. CASE AssignPlatformAdminRole(p)
  <2>1. Owned([role EXCEPT ![p] = "admin"])
    BY <1>0, <1>2 DEF AssignPlatformAdminRole, IInv, OneOwner, Owned
  <2> QED
    BY <1>0, <1>2, <2>1, MembersWritten DEF AssignPlatformAdminRole
<1>3. ASSUME NEW e \in Emails, RegisterPrincipal(p, e) PROVE IInv'
  <2> USE <1>0, <1>3 DEF RegisterPrincipal, workspaceVars, agentVars
  <2>1. TypeOK'
    BY DEF IInv, TypeOK
  <2>2. \A q \in Principals : role'[q] = "owner" <=> role[q] = "owner"
    OBVIOUS
  <2>3. Unfounded' /\ OneOwner'
    BY <2>2 DEF IInv, Unfounded, OneOwner
  <2>4. AddressesAreUnique'
    BY DEF IInv, TypeOK, AddressesAreUnique
  <2>5. AccessNeedsMembership'
    BY DEF IInv, AccessNeedsMembership
  <2>6. InvitationsArePending'
    BY DEF IInv, TypeOK, Unfounded, InvitationsArePending
  <2> QED
    BY <2>1, <2>3, <2>4, <2>5, <2>6 DEF IInv
<1>4. ASSUME NEW e \in Emails, RevokeInvitation(p, e) PROVE IInv'
  <2>1. Owned(role)
    BY <1>4, MembersFounded DEF RevokeInvitation, MayInvite, IInv, OneOwner, Owned,
                                WorkspaceAdminRoles
  <2>2. founder # None
    BY <1>4, MembersFounded DEF RevokeInvitation, MayInvite, WorkspaceAdminRoles
  <2> DEFINE offers == [invitation EXCEPT ![e] = None]
  <2>3. /\ offers \in [Emails -> {"admin", "member", None}]
        /\ \A d \in Emails : offers[d] # None => \A q \in Principals : email[q] # d
    BY <1>0
  <2>4. WriteMembers(p, role, offers)
    BY <1>4 DEF RevokeInvitation
  <2> HIDE DEF offers
  <2> QED
    BY <1>0, <2>1, <2>2, <2>3, <2>4, MembersWritten
<1>5. ASSUME NEW e \in Emails, NEW r \in {"admin", "member"}, InviteMember(p, e, r) PROVE IInv'
  <2>1. founder # None
    BY <1>5, MembersFounded DEF InviteMember, MayInvite, WorkspaceAdminRoles
  <2>2. Owned(role)
    BY <2>1 DEF IInv, OneOwner, Owned
  <2>3. ASSUME NEW q \in Principals, ~IsMember(q),
               WriteMembers(p, [role EXCEPT ![q] = r], invitation)
        PROVE  IInv'
    <3>1. Owned([role EXCEPT ![q] = r])
      BY <1>0, <2>2, <2>3 DEF Owned
    <3> QED
      BY <1>0, <2>1, <2>3, <3>1, MembersWritten
  <2>4. ASSUME \A q \in Principals : email[q] # e,
               WriteMembers(p, role, [invitation EXCEPT ![e] = r])
        PROVE  IInv'
    <3> DEFINE offers == [invitation EXCEPT ![e] = r]
    <3>1. /\ offers \in [Emails -> {"admin", "member", None}]
          /\ \A d \in Emails : offers[d] # None => \A q \in Principals : email[q] # d
      BY <1>0, <2>4
    <3>2. WriteMembers(p, role, offers)
      BY <2>4
    <3> HIDE DEF offers
    <3> QED
      BY <1>0, <2>1, <2>2, <3>1, <3>2, MembersWritten
  <2> QED
    BY <1>5, <2>3, <2>4 DEF InviteMember
<1>6. ASSUME NEW q \in Principals, NEW r \in {"admin", "member"}, UpdateMemberRole(p, q, r)
      PROVE  IInv'
  <2>1. founder # None
    BY <1>6, MembersFounded DEF UpdateMemberRole, MayUpdateRole
  <2>2. Owned(Updated(role, q, r))
    BY <1>0, <1>6, <2>1 DEF UpdateMemberRole, MayUpdateRole, Updated, IInv, OneOwner, Owned
  <2> QED
    BY <1>0, <1>6, <2>1, <2>2, MembersWritten DEF UpdateMemberRole, MayUpdateRole, Updated
<1>7. ASSUME NEW q \in Principals, TransferOwnership(p, q) PROVE IInv'
  <2>1. founder # None /\ p # q /\ role[p] = "owner" /\ role[q] # None
    BY <1>7, MembersFounded DEF TransferOwnership, MayTransfer
  <2>2. OwnedBy(p, q) = [role EXCEPT ![p] = "admin", ![q] = "owner"]
    BY <1>0, <2>1 DEF OwnedBy, Updated
  <2>3. \A n \in Principals : role[n] = "owner" <=> n = p
    BY <2>1 DEF IInv, OneOwner
  <2>4. Owned(OwnedBy(p, q))
    BY <1>0, <2>1, <2>2, <2>3 DEF Owned
  <2>5. /\ OwnedBy(p, q) \in [Principals -> WorkspaceRoles \cup {None}]
        /\ \A n \in Principals : role[n] # None => OwnedBy(p, q)[n] # None
    BY <1>0, <2>2 DEF WorkspaceRoles
  <2> QED
    BY <1>0, <1>7, <2>1, <2>4, <2>5, MembersWritten DEF TransferOwnership
<1>8. ASSUME NEW q \in Principals, RemoveMember(p, q) PROVE IInv'
  <2>1. founder # None /\ role[q] # "owner"
    BY <1>8, MembersFounded DEF RemoveMember, MayRemove
  <2> USE <1>0, <1>8, <2>1 DEF RemoveMember, DeleteMember, workspaceVars
  <2>2. TypeOK'
    BY DEF IInv, TypeOK
  <2>3. Unfounded' /\ AddressesAreUnique' /\ OneOwner'
    BY DEF IInv, Unfounded, AddressesAreUnique, OneOwner
  <2>4. AccessNeedsMembership'
    BY DEF IInv, TypeOK, AccessNeedsMembership
  <2>5. InvitationsArePending'
    BY DEF IInv, InvitationsArePending
  <2> QED
    BY <2>2, <2>3, <2>4, <2>5 DEF IInv
<1> QED
  BY <1>1, <1>2, <1>3, <1>4, <1>5, <1>6, <1>7, <1>8 DEF MemberNext

\* The operations on agents, their grants and managers keep the invariant.
LEMMA AgentStep ==
  ASSUME IInv, NEW p \in Principals, AgentNext(p)
  PROVE  IInv'
<1> USE Constants
<1>0. /\ agents \in SUBSET Agents /\ access \in [Agents -> {"private", "workspace_read"}]
      /\ grant \in [Agents -> [Principals -> GrantRoles \cup {None}]]
      /\ managers \in [Agents -> SUBSET Principals]
      /\ \A a \in Agents, q \in Principals :
           grant[a][q] # None \/ q \in managers[a] => a \in agents /\ role[q] # None
  BY DEF IInv, TypeOK, AccessNeedsMembership, IsMember
<1>1. ASSUME NEW a \in Agents, CanCreateAgents(role[p]), InsertAgent(p, a) PROVE IInv'
  <2>1. role[p] # None /\ founder # None
    BY <1>1, MembersFounded DEF CanCreateAgents, WorkspaceAdminRoles
  <2>2. /\ agents' \in SUBSET Agents /\ access' \in [Agents -> {"private", "workspace_read"}]
        /\ grant' \in [Agents -> [Principals -> GrantRoles \cup {None}]]
        /\ managers' \in [Agents -> SUBSET Principals]
    BY <1>0, <1>1 DEF InsertAgent, GrantRoles
  <2>3. AccessNeedsMembership'
    BY <1>0, <1>1, <2>1 DEF InsertAgent, AccessNeedsMembership, IsMember, memberVars
  <2> QED
    BY <1>1, <2>1, <2>2, <2>3, AgentsWritten DEF InsertAgent
<1>2. ASSUME NEW a \in Agents, UpdateAgentAlias(p, a) PROVE IInv'
  BY <1>2 DEF UpdateAgentAlias, workspaceVars, memberVars, agentVars, IInv, TypeOK, Unfounded,
              AddressesAreUnique, OneOwner, AccessNeedsMembership, InvitationsArePending, IsMember
<1>3. ASSUME NEW a \in Agents, MayManage(role[p], p, a)
      PROVE  a \in agents /\ founder # None
  BY <1>3, MembersFounded DEF MayManage, WorkspaceAdminRoles
<1>4. ASSUME NEW a \in Agents, NEW acc \in {"private", "workspace_read"}, NEW confirmed,
             SetAgentAccessPolicy(p, a, acc, confirmed)
      PROVE  IInv'
  <2>1. founder # None
    BY <1>3, <1>4 DEF SetAgentAccessPolicy, MaySetAccess
  <2>2. access' \in [Agents -> {"private", "workspace_read"}]
    BY <1>0, <1>4 DEF SetAgentAccessPolicy, WriteAccess
  <2>3. AccessNeedsMembership'
    BY <1>0, <1>4 DEF SetAgentAccessPolicy, WriteAccess, AccessNeedsMembership, IsMember, memberVars
  <2> QED
    BY <1>0, <1>4, <2>1, <2>2, <2>3, AgentsWritten DEF SetAgentAccessPolicy, WriteAccess
<1>5. ASSUME NEW a \in Agents, NEW q \in Principals, NEW r \in GrantChoices \cup {None},
             NEW confirmed, SetContentAccess(p, a, q, r, confirmed)
      PROVE  IInv'
  <2>1. founder # None /\ a \in agents /\ role[q] # None
    BY <1>3, <1>5 DEF SetContentAccess, MaySetContent, IsMember
  <2>2. grant' \in [Agents -> [Principals -> GrantRoles \cup {None}]]
    BY <1>0, <1>5 DEF SetContentAccess, WriteGrant
  <2>3. AccessNeedsMembership'
    BY <1>0, <1>5, <2>1 DEF SetContentAccess, WriteGrant, AccessNeedsMembership, IsMember, memberVars
  <2> QED
    BY <1>0, <1>5, <2>1, <2>2, <2>3, AgentsWritten DEF SetContentAccess, WriteGrant
<1>6. ASSUME NEW a \in Agents, NEW q \in Principals, MaySetManager(role[p], p, a, q),
             NEW set \in SUBSET Principals, set \subseteq managers[a] \cup {q},
             WriteManagers(p, a, set)
      PROVE  IInv'
  <2>1. founder # None /\ a \in agents /\ role[q] # None
    BY <1>3, <1>6 DEF MaySetManager, IsMember
  <2>2. managers' \in [Agents -> SUBSET Principals]
    BY <1>0, <1>6 DEF WriteManagers
  <2>3. AccessNeedsMembership'
    BY <1>0, <1>6, <2>1 DEF WriteManagers, AccessNeedsMembership, IsMember, memberVars
  <2> QED
    BY <1>0, <1>6, <2>1, <2>2, <2>3, AgentsWritten DEF WriteManagers
<1>7. ASSUME NEW a \in Agents, NEW q \in Principals, NEW enabled \in BOOLEAN,
             SetAgentManager(p, a, q, enabled)
      PROVE  IInv'
  <2> DEFINE set == IF enabled THEN managers[a] \cup {q} ELSE managers[a] \ {q}
  <2>1. set \in SUBSET Principals /\ set \subseteq managers[a] \cup {q}
    BY <1>0
  <2>2. MaySetManager(role[p], p, a, q) /\ WriteManagers(p, a, set)
    BY <1>7 DEF SetAgentManager
  <2> QED
    BY <1>6, <2>1, <2>2
<1>8. ASSUME NEW a \in Agents, NEW q \in Principals, TransferAgentManagement(p, a, q)
      PROVE  IInv'
  <2> DEFINE set == (IF IsAdmin(p) THEN managers[a] ELSE managers[a] \ {p}) \cup {q}
  <2>1. set \in SUBSET Principals /\ set \subseteq managers[a] \cup {q}
    BY <1>0
  <2>2. MaySetManager(role[p], p, a, q) /\ WriteManagers(p, a, set)
    BY <1>8 DEF TransferAgentManagement
  <2> QED
    BY <1>6, <2>1, <2>2
<1> QED
  BY <1>1, <1>2, <1>4, <1>5, <1>7, <1>8 DEF AgentNext, CreateAgent, ResolveOrCreate

\* Every operation of the control plane keeps the invariant, whoever calls it
\* and in whatever order.
THEOREM NextInv == IInv /\ [Next]_vars => IInv'
<1> SUFFICES ASSUME IInv, [Next]_vars PROVE IInv'
  OBVIOUS
<1>1. CASE Next
  BY <1>1, WorkspaceStep, MemberStep, AgentStep DEF Next
<1>2. CASE UNCHANGED vars
  BY <1>2 DEF vars, workspaceVars, memberVars, agentVars, IInv, TypeOK, Unfounded,
              AddressesAreUnique, OneOwner, AccessNeedsMembership, InvitationsArePending, IsMember
<1> QED
  BY <1>1, <1>2

\* In every reachable state of the control plane the rows have their types,
\* a workspace has one owner, grants belong to members, an invitation waits for an
\* unregistered address, and an address is one principal's.
THEOREM ManagementInductive == Spec => []IInv
  BY InitInv, NextInv, PTL DEF Spec

\* TypeOK: every table keeps its columns' values, and the creator's quota is kept.
THEOREM TypeCorrect == Spec => []TypeOK
  BY ManagementInductive, PTL DEF IInv

\* OneOwner: through every sequence of calls that do not overlap there is one owner.
THEOREM OneOwnerAlways == Spec => []OneOwner
  BY ManagementInductive, PTL DEF IInv

\* AccessNeedsMembership: remove_member leaves no grant and no management behind, and
\* no call makes one for somebody who is not a member.
THEOREM AccessNeedsMembershipAlways == Spec => []AccessNeedsMembership
  BY ManagementInductive, PTL DEF IInv

\* InvitationsArePending: register_principal and invite_member between them leave no
\* invitation to an address that somebody has registered.
THEOREM InvitationsArePendingAlways == Spec => []InvitationsArePending
  BY ManagementInductive, PTL DEF IInv

-----------------------------------------------------------------------------
Raises(p) ==
  ~IsAdmin(p) /\ role'[p] \in WorkspaceAdminRoles =>
    \/ founder = None
    \/ actor' # p /\ role[actor'] = "owner"
    \/ actor' = p /\ p \in PlatformAdmins
    \/ actor' = p /\ email'[p] # None /\ invitation[email'[p]] = "admin"
OffersAdmin(e) ==
  invitation'[e] = "admin" /\ invitation[e] # "admin" => role[actor'] = "owner"
RaisesProperly == (\A p \in Principals : Raises(p)) /\ (\A e \in Emails : OffersAdmin(e))

\* Where no role and no invitation changes, nobody is raised.
LEMMA RolesKept ==
  ASSUME UNCHANGED <<role, invitation>>
  PROVE  RaisesProperly
BY DEF RaisesProperly, Raises, OffersAdmin, IsAdmin

\* An operation on workspaces raises nobody but the creator of a new workspace.
LEMMA WorkspaceRaises ==
  ASSUME IInv, NEW p \in Principals, WorkspaceNext(p)
  PROVE  RaisesProperly
<1>1. ASSUME NEW pol, CreateWorkspace(p, pol) PROVE RaisesProperly
  BY <1>1 DEF CreateWorkspace, NewWorkspace, RaisesProperly, Raises, OffersAdmin
<1>2. ASSUME NEW pol, UpdateWorkspacePolicy(p, pol) PROVE RaisesProperly
  BY <1>2, RolesKept DEF UpdateWorkspacePolicy, WritePolicy, memberVars
<1>3. CASE CreateOtherWorkspace(p)
  BY <1>3, RolesKept DEF CreateOtherWorkspace, CountWorkspace, memberVars
<1> QED
  BY <1>1, <1>2, <1>3 DEF WorkspaceNext, EnsureDefaultWorkspace, EnsurePersonalWorkspace

\* The operations on members raise whom an owner chose, and nobody by its own call.
LEMMA MemberRaises ==
  ASSUME IInv, NEW p \in Principals, MemberNext(p)
  PROVE  RaisesProperly
<1> USE Constants DEF WorkspaceAdminRoles, WorkspaceRoles
<1>0. /\ role \in [Principals -> WorkspaceRoles \cup {None}]
      /\ invitation \in [Emails -> {"admin", "member", None}]
      /\ email \in [Principals -> Emails \cup {None}]
  BY DEF IInv, TypeOK
<1> USE <1>0 DEF RaisesProperly, Raises, OffersAdmin, IsAdmin
<1>1. CASE EnsureWorkspaceAdmission(p)
  BY <1>1 DEF EnsureWorkspaceAdmission, WriteMembers
<1>2. CASE AssignPlatformAdminRole(p)
  BY <1>2 DEF AssignPlatformAdminRole, WriteMembers
<1>3. ASSUME NEW e \in Emails, RegisterPrincipal(p, e) PROVE RaisesProperly
  BY <1>3 DEF RegisterPrincipal
<1>4. ASSUME NEW e \in Emails, RevokeInvitation(p, e) PROVE RaisesProperly
  BY <1>4 DEF RevokeInvitation, WriteMembers
<1>5. ASSUME NEW e \in Emails, NEW r \in {"admin", "member"}, InviteMember(p, e, r)
      PROVE  RaisesProperly
  BY <1>5 DEF InviteMember, MayInvite, WriteMembers
<1>6. ASSUME NEW q \in Principals, NEW r \in {"admin", "member"}, UpdateMemberRole(p, q, r)
      PROVE  RaisesProperly
  BY <1>6 DEF UpdateMemberRole, MayUpdateRole, Updated, WriteMembers
<1>7. ASSUME NEW q \in Principals, TransferOwnership(p, q) PROVE RaisesProperly
  BY <1>7 DEF TransferOwnership, MayTransfer, OwnedBy, Updated, WriteMembers
<1>8. ASSUME NEW q \in Principals, RemoveMember(p, q) PROVE RaisesProperly
  BY <1>8 DEF RemoveMember, MayRemove, DeleteMember
<1> QED
  BY <1>1, <1>2, <1>3, <1>4, <1>5, <1>6, <1>7, <1>8 DEF MemberNext

\* The operations on agents leave the rows of members as they are.
LEMMA AgentKeepsMembers ==
  ASSUME NEW p \in Principals, AgentNext(p)
  PROVE  UNCHANGED memberVars
BY DEF AgentNext, CreateAgent, ResolveOrCreate, UpdateAgentAlias, SetAgentAccessPolicy,
       SetContentAccess, SetAgentManager, TransferAgentManagement, InsertAgent, WriteAccess,
       WriteGrant, WriteManagers

\* NobodyRaisesItself: whatever a principal calls, it becomes administrator or owner by
\* another's decision only, an owner's.
THEOREM NobodyRaisesItselfAlways == Spec => NobodyRaisesItself
<1>1. IInv /\ [Next]_vars => [RaisesProperly]_vars
  BY WorkspaceRaises, MemberRaises, AgentKeepsMembers, RolesKept DEF Next, memberVars
<1>2. RaisesProperly =>
        /\ \A p \in Principals :
             ~IsAdmin(p) /\ role'[p] \in WorkspaceAdminRoles =>
               \/ founder = None
               \/ actor' # p /\ role[actor'] = "owner"
               \/ actor' = p /\ p \in PlatformAdmins
               \/ actor' = p /\ email'[p] # None /\ invitation[email'[p]] = "admin"
        /\ \A e \in Emails :
             invitation'[e] = "admin" /\ invitation[e] # "admin" => role[actor'] = "owner"
  BY DEF RaisesProperly, Raises, OffersAdmin
<1> QED
  BY <1>1, <1>2, ManagementInductive, PTL DEF Spec, NobodyRaisesItself

-----------------------------------------------------------------------------
Gains(p, a) == IsMember(p) /\ ResolvedRole(p, a) = None /\ ResolvedRole(p, a)' # None
Given(p, a) ==
  \/ a \notin agents /\ actor' = p
  \/ actor' # p /\ ManagesAgent(actor', a)
  \/ actor' = p /\ IsAdmin(p) /\ AllowSelfGrant

\* Nobody's content role grows where agents, their policies and one's grants stay.
LEMMA NothingGained ==
  ASSUME NEW p \in Principals, NEW a \in Agents, Gains(p, a),
         agents' = agents, access' = access, grant'[a][p] = grant[a][p]
  PROVE  FALSE
BY Constants DEF Gains, ResolvedRole, IsMember

\* What somebody gains by an operation on workspaces or members has been given.
LEMMA GivenOutsideAgents ==
  ASSUME IInv, NEW x \in Principals, WorkspaceNext(x) \/ MemberNext(x),
         NEW p \in Principals, NEW a \in Agents, Gains(p, a)
  PROVE  Given(p, a)
<1>1. CASE UNCHANGED agentVars
  BY <1>1, NothingGained DEF agentVars
<1>2. ASSUME NEW q \in Principals, RemoveMember(x, q) PROVE FALSE
  <2>1. agents' = agents /\ access' = access
    BY <1>2 DEF RemoveMember, DeleteMember
  <2>2. p # q
    BY <1>2, Constants DEF RemoveMember, DeleteMember, IInv, TypeOK, Gains, ResolvedRole, IsMember
  <2>3. grant'[a][p] = grant[a][p]
    BY <1>2, <2>2 DEF RemoveMember, DeleteMember, IInv, TypeOK
  <2> QED
    BY <2>1, <2>3, NothingGained
<1>3. UNCHANGED agentVars \/ \E q \in Principals : RemoveMember(x, q)
  <2>1. ASSUME WorkspaceNext(x) PROVE UNCHANGED agentVars
    BY <2>1 DEF WorkspaceNext, CreateWorkspace, CreateOtherWorkspace, EnsurePersonalWorkspace,
       EnsureDefaultWorkspace, UpdateWorkspacePolicy, NewWorkspace, CountWorkspace, WritePolicy
  <2>2. ASSUME MemberNext(x), ~\E q \in Principals : RemoveMember(x, q)
        PROVE  UNCHANGED agentVars
    BY <2>2 DEF MemberNext, EnsureWorkspaceAdmission, AssignPlatformAdminRole, RegisterPrincipal,
       RevokeInvitation, InviteMember, UpdateMemberRole, TransferOwnership, WriteMembers
  <2> QED
    BY <2>1, <2>2
<1> QED
  BY <1>1, <1>2, <1>3

\* What somebody gains by an operation on agents has been given.
LEMMA GivenByAgents ==
  ASSUME IInv, NEW x \in Principals, AgentNext(x),
         NEW p \in Principals, NEW a \in Agents, Gains(p, a)
  PROVE  Given(p, a)
<1> USE Constants
<1>0. /\ agents \in SUBSET Agents /\ access \in [Agents -> {"private", "workspace_read"}]
      /\ grant \in [Agents -> [Principals -> GrantRoles \cup {None}]]
      /\ \A b \in Agents, q \in Principals : grant[b][q] # None => b \in agents
  BY DEF IInv, TypeOK, AccessNeedsMembership
<1>1. ASSUME NEW b \in Agents, MayInsertAgent(b), InsertAgent(x, b) PROVE Given(p, a)
  <2>1. a = b
    BY <1>0, <1>1 DEF Gains, ResolvedRole, IsMember, InsertAgent, memberVars
  <2>2. p = x
    BY <1>0, <1>1, <2>1 DEF Gains, ResolvedRole, IsMember, InsertAgent, memberVars, MayInsertAgent
  <2> QED
    BY <1>1, <2>1, <2>2 DEF Given, MayInsertAgent, InsertAgent
<1>2. ASSUME NEW b \in Agents, NEW acc, NEW confirmed, SetAgentAccessPolicy(x, b, acc, confirmed)
      PROVE  Given(p, a)
  <2>1. agents' = agents /\ grant' = grant /\ role' = role /\ actor' = x
    BY <1>2 DEF SetAgentAccessPolicy, WriteAccess, memberVars
  <2>2. a \in agents /\ grant[a][p] = None
    BY <2>1, <1>0 DEF Gains, ResolvedRole, IsMember
  <2>3. a = b /\ acc = "workspace_read"
    BY <1>0, <1>2, <2>1, <2>2 DEF Gains, ResolvedRole, IsMember, SetAgentAccessPolicy, WriteAccess
  <2> QED
    BY <1>2, <2>1, <2>2, <2>3 DEF Given, SetAgentAccessPolicy, MaySetAccess, MayOpenAgent,
       MayGrantItself, ManagesAgent, IsAdmin
<1>3. ASSUME NEW b \in Agents, NEW q \in Principals, NEW r, NEW confirmed,
             SetContentAccess(x, b, q, r, confirmed)
      PROVE  Given(p, a)
  <2>1. agents' = agents /\ access' = access /\ actor' = x
    BY <1>3 DEF SetContentAccess, WriteGrant
  <2>2. a = b /\ p = q /\ r # None
    BY <1>0, <1>3, <2>1 DEF Gains, ResolvedRole, IsMember, SetContentAccess, WriteGrant, memberVars
  <2> QED
    BY <1>3, <2>1, <2>2 DEF Given, SetContentAccess, MaySetContent, MayGrantItself, ManagesAgent,
       IsAdmin
<1>4. ASSUME UNCHANGED <<agents, access, grant>> PROVE FALSE
  BY <1>4, NothingGained
<1> QED
  BY <1>1, <1>2, <1>3, <1>4 DEF AgentNext, CreateAgent, ResolveOrCreate, UpdateAgentAlias,
     SetAgentManager, TransferAgentManagement, WriteManagers, agentVars

\* ContentIsGiven: no call gives its caller the content of an agent that exists, unless
\* the deployment lets administrators do so.
THEOREM ContentIsGivenAlways == Spec => ContentIsGiven
<1>1. IInv /\ Next => \A p \in Principals, a \in Agents : Gains(p, a) => Given(p, a)
  BY GivenOutsideAgents, GivenByAgents DEF Next
<1>2. IInv /\ [Next]_vars =>
        [\A p \in Principals, a \in Agents :
           IsMember(p) /\ ResolvedRole(p, a) = None /\ ResolvedRole(p, a)' # None =>
              \/ a \notin agents /\ actor' = p
              \/ actor' # p /\ ManagesAgent(actor', a)
              \/ actor' = p /\ IsAdmin(p) /\ AllowSelfGrant]_vars
  BY <1>1 DEF Gains, Given
<1> QED
  BY <1>2, ManagementInductive, PTL DEF Spec, ContentIsGiven

-----------------------------------------------------------------------------
\* A member's listing shows an agent with the role a memory call would bind it with,
\* and leaves out only what it can neither read nor manage.
LEMMA ListingOfMember ==
  ASSUME IInv, NEW p \in Principals, IsMember(p), NEW a \in agents
  PROVE  /\ AgentAccess(a)[p] = ResolvedRole(p, a)
         /\ IF a \in DOMAIN ListedAgents(p)
            THEN /\ ListedAgents(p)[a].content = ResolvedRole(p, a)
                 /\ ListedAgents(p)[a].manage = ManagesAgent(p, a)
            ELSE ResolvedRole(p, a) = None /\ ~ManagesAgent(p, a)
<1>1. /\ a \in Agents /\ role[p] \in WorkspaceRoles /\ role[p] # None
      /\ access[a] \in {"private", "workspace_read"}
  BY DEF IInv, TypeOK, IsMember
<1> DEFINE content == IF grant[a][p] = None /\ access[a] = "workspace_read"
                      THEN "reader" ELSE grant[a][p]
           seen == {b \in agents : role[p] = "member" =>
                      (IF grant[b][p] = None /\ access[b] = "workspace_read"
                       THEN "reader" ELSE grant[b][p]) # None \/ p \in managers[b]}
<1>2. ResolvedRole(p, a) = content
  BY <1>1, Zenon DEF ResolvedRole
<1>3. AgentAccess(a)[p] = content
  <2>1. AgentAccess(a)[p] =
          CASE grant[a][p] # None -> grant[a][p]
            [] grant[a][p] = None /\ access[a] = "workspace_read" -> "reader"
            [] OTHER -> None
    BY Zenon DEF AgentAccess
  <2>2. CASE grant[a][p] # None
    BY <2>1, <2>2, Zenon
  <2>3. CASE grant[a][p] = None /\ access[a] = "workspace_read"
    BY <2>1, <2>3, Zenon
  <2>4. CASE grant[a][p] = None /\ access[a] # "workspace_read"
    BY <2>1, <2>4, Zenon
  <2> QED
    BY <2>2, <2>3, <2>4
<1>4. /\ DOMAIN ListedAgents(p) = seen
      /\ a \in seen => /\ ListedAgents(p)[a].content = content
                       /\ ListedAgents(p)[a].manage = (IsAdmin(p) \/ p \in managers[a])
  BY DEF ListedAgents
<1>5. ManagesAgent(p, a) <=> IsAdmin(p) \/ p \in managers[a]
  BY <1>1 DEF ManagesAgent, MayManage, IsAdmin
<1>6. ManagesAgent(p, a) \in BOOLEAN
  BY DEF ManagesAgent, MayManage
<1>7. a \notin seen => content = None /\ ~ManagesAgent(p, a)
  BY <1>1, <1>5 DEF IsAdmin, WorkspaceAdminRoles
<1>8. a \in seen => ListedAgents(p)[a].manage = ManagesAgent(p, a)
  BY <1>4, <1>5, <1>6
<1> HIDE DEF content, seen
<1> QED
  BY <1>2, <1>3, <1>4, <1>7, <1>8

\* ListingsAgree: resolve_or_create, list_agents and list_agent_access show one role, and
\* GET /me agrees with the quota, whatever the policies, grants and limits are.
THEOREM ListingsAgreeAlways == Spec => []ListingsAgree
<1>1. ASSUME IInv, NEW p \in Principals
      PROVE  CreationRestriction(p) = None <=> MayCreateWorkspace(p)
  <2>1. created[p] \in Nat /\ MaxWorkspaces \in Nat
    BY <1>1, Constants DEF IInv, TypeOK
  <2>2. created[p] >= MaxWorkspaces <=> ~(created[p] < MaxWorkspaces)
    BY <2>1
  <2>3. None # "policy" /\ None # "quota"
    BY NoneAssumption
  <2>4. CASE ~MayCreateWorkspaces(p)
    BY <2>3, <2>4, Zenon DEF CreationRestriction, MayCreateWorkspace
  <2>5. CASE MayCreateWorkspaces(p) /\ created[p] >= MaxWorkspaces
    BY <2>2, <2>3, <2>5, Zenon DEF CreationRestriction, MayCreateWorkspace
  <2>6. CASE MayCreateWorkspaces(p) /\ ~(created[p] >= MaxWorkspaces)
    BY <2>2, <2>6, Zenon DEF CreationRestriction, MayCreateWorkspace
  <2> QED
    BY <2>4, <2>5, <2>6
<1>2. IInv => ListingsAgree
  BY <1>1, ListingOfMember DEF ListingsAgree
<1> QED
  BY <1>2, ManagementInductive, PTL

---------------------------------------------------------------------------
(* Overlapping transactions.                                               *)

AgentKey == <<"agents", None>>
SlugKey == <<"slug", None>>
QuotaKey(p) == <<"workspaces", p>>

Creation == {"create_workspace", "create_other", "create_personal"}
AgentCreation == {"create_agent", "resolve"}

\* Who writes a role or the policy of a workspace that exists, and so refers to its row.
Refers(c, seen) ==
  \/ c.op \in {"update_policy", "invite", "update_role", "transfer", "remove"}
  \/ c.op = "register" /\ Accepts(seen)

Request(lock, x) ==
  lock.names \subseteq x.held \/ \E i \in 1 .. Len(x.todo) : x.todo[i] = lock

Live(t) == t \in Sessions /\ txn[t] # None

Transaction(x) ==
  \E R, S, L, H :
    x \in [call : Calls, read : R, seen : S, todo : Seq(L), held : SUBSET H]

Shape == /\ txn = [t \in Sessions |-> txn[t]]
         /\ \A t \in Sessions : Live(t) => Transaction(txn[t])

Exclusion ==
  \A t, u \in Sessions : Live(t) /\ Live(u) /\ t # u =>
    \A m \in txn[t].held, n \in txn[u].held : ~Conflict(m, n)

\* Before the decision each key of the plan, and the workspace's row, is held or still
\* to come; after it the reference to the workspace is.
Planned(x) ==
  /\ x.seen = None => \A i \in 1 .. Len(Before(x.call)) :
                       Before(x.call)[i].always => Request(Before(x.call)[i], x)
  /\ x.seen # None /\ Refers(x.call, x.seen) => Request(Reference, x)
  /\ x.call.op \in {"admission", "assign_admin", "resolve"} =>
       founder # None /\ (x.seen = None => Request(Row(Workspace), x))
  /\ x.call.op = "admission" => x.read.admission # "invite_only"
Plans == \A t \in Sessions : Live(t) => Planned(txn[t])

\* What a decision rests on is so until the commit.
Stands(x) ==
  LET c == x.call IN
  /\ c.op \in AgentCreation => AgentKey \in x.held /\ MayInsertAgent(c.agent)
  /\ c.op \in Creation => QuotaKey(c.by) \in x.held /\ MayCreateWorkspace(c.by)
  /\ c.op = "create_personal" => created[c.by] = 0
  /\ c.op = "create_workspace" => SlugKey \in x.held /\ founder = None
  /\ c.op = "register" => Address(c.on) \in x.held /\ Owners(c.on) \subseteq {c.by}
  /\ c.op = "admission" => Workspace \in x.held /\ policy = x.read
  /\ c.op = "assign_admin" => /\ Workspace \in x.held
                              /\ c.by \in PlatformAdmins /\ role[c.by] # "owner"
  /\ c.op = "resolve" => Workspace \in x.held /\ CanCreateAgents(role[c.by])
Decisions == \A t \in Sessions : Live(t) /\ txn[t].seen # None => Stands(txn[t])

Limits ==
  /\ IsFiniteSet(agents) /\ Cardinality(agents) <= MaxAgents
  /\ created \in [Principals -> 0 .. MaxWorkspaces]
  /\ OneAddressOnePrincipal
  /\ email = [p \in Principals |-> email[p]]

TInv == Shape /\ Exclusion /\ Plans /\ Decisions /\ Limits

-----------------------------------------------------------------------------
\* Lock names are told apart by their first part.
LEMMA Names ==
  /\ \A p : AgentKey # Referenced /\ SlugKey # Referenced /\ QuotaKey(p) # Referenced
  /\ \A e : Address(e) # Referenced
  /\ Workspace # Referenced
<1>1. \A x : <<"agents", x>>[1] = "agents" /\ <<"slug", x>>[1] = "slug"
             /\ <<"workspaces", x>>[1] = "workspaces" /\ <<"address", x>>[1] = "address"
  OBVIOUS
<1>2. <<"reference">>[1] = "reference" /\ <<"workspace">>[1] = "workspace"
  OBVIOUS
<1> QED
  BY <1>1, <1>2 DEF AgentKey, SlugKey, QuotaKey, Address, Workspace, Referenced

\* Every lock conflicts with itself except a reference; conflicting is symmetric.
LEMMA Exclusive ==
  /\ \A n : n # Referenced => Conflict(n, n)
  /\ Conflict(Workspace, Referenced) /\ Conflict(Referenced, Workspace)
  /\ \A m, n : Conflict(m, n) => Conflict(n, m)
BY Names DEF Conflict

\* Two live transactions never hold the same lock, nor one the workspace's row that the
\* other refers to.
LEMMA OneHolder ==
  ASSUME Exclusion, NEW t, NEW u, Live(t), Live(u), t # u,
         NEW n, n \in txn[t].held
  PROVE  /\ n # Referenced => n \notin txn[u].held
         /\ n = Workspace => Referenced \notin txn[u].held
         /\ n = Referenced => Workspace \notin txn[u].held
BY Exclusive DEF Exclusion, Live

\* What a commit may change of what decisions rest on.
LEMMA WritesFrame ==
  ASSUME NEW c, NEW r, NEW seen, Writes(c, r, seen)
  PROVE  /\ agents' = agents \/ (c.op \in AgentCreation /\ agents' = agents \cup {c.agent})
         /\ \/ created' = created
            \/ c.op \in Creation /\ created' = [created EXCEPT ![c.by] = @ + 1]
         /\ founder' = founder \/ c.op = "create_workspace"
         /\ policy' = policy \/ c.op \in {"create_workspace", "update_policy"}
         /\ \/ role' = role
            \/ c.op \in {"create_workspace", "admission", "assign_admin"}
            \/ c.op # "update_policy" /\ Refers(c, seen)
         /\ \/ email' = email
            \/ c.op = "register" /\ email' = [email EXCEPT ![c.by] = c.on]
<1> USE DEF workspaceVars, memberVars, agentVars
<1>1. CASE c.op = "create_workspace"
  BY <1>1 DEF Writes, NewWorkspace, Creation, AgentCreation
<1>2. CASE c.op \in {"create_other", "create_personal"}
  BY <1>2 DEF Writes, CountWorkspace, Creation, AgentCreation
<1>3. CASE c.op = "update_policy"
  BY <1>3 DEF Writes, WritePolicy, Creation, AgentCreation
<1>4. CASE c.op \in {"admission", "assign_admin"}
  BY <1>4 DEF Writes, WriteMembers, Creation, AgentCreation
<1>5. CASE c.op = "register"
  BY <1>5 DEF Writes, WriteRegistration, Refers, Creation, AgentCreation
<1>6. CASE c.op = "revoke"
  BY <1>6 DEF Writes, WriteMembers, Creation, AgentCreation
<1>7. CASE c.op \in {"invite", "update_role", "transfer"}
  BY <1>7 DEF Writes, WriteMembers, Refers, Creation, AgentCreation
<1>8. CASE c.op = "remove"
  BY <1>8 DEF Writes, DeleteMember, Refers, Creation, AgentCreation
<1>9. CASE c.op \in AgentCreation
  BY <1>9 DEF Writes, InsertAgent, Creation, AgentCreation
<1>10. CASE c.op \in {"set_access", "set_content"} \cup OfManagers
  BY <1>10 DEF Writes, WriteAccess, WriteGrant, WriteManagers, Creation, AgentCreation, OfManagers
<1> QED
  BY <1>1, <1>2, <1>3, <1>4, <1>5, <1>6, <1>7, <1>8, <1>9, <1>10
     DEF Writes, AgentCreation, OfManagers

-----------------------------------------------------------------------------
\* A step that writes nothing and gives session t the transaction y, or none.
LEMMA QuietInv ==
  ASSUME TInv, NEW t \in Sessions, NEW y, UNCHANGED vars, txn' = [txn EXCEPT ![t] = y],
         y # None => /\ Transaction(y) /\ Planned(y)
                     /\ y.seen # None => Stands(y)
                     /\ \A u \in Sessions \ {t} : Live(u) =>
                          \A m \in y.held, n \in txn[u].held : ~Conflict(m, n)
  PROVE  TInv'
<1>1. \A u \in Sessions : txn'[u] = IF u = t THEN y ELSE txn[u]
  BY DEF TInv, Shape
<1>2. \A u \in Sessions : Live(u)' <=> txn'[u] # None
  BY DEF Live
<1>3. Shape'
  <2>1. txn' = [u \in Sessions |-> txn'[u]]
    BY DEF TInv, Shape
  <2>2. \A u \in Sessions : Live(u)' => Transaction(txn'[u])
    BY <1>1, <1>2 DEF TInv, Shape, Live
  <2> QED
    BY <2>1, <2>2 DEF Shape, Transaction
<1>4. Exclusion'
  <2> SUFFICES ASSUME NEW v \in Sessions, NEW u \in Sessions, txn'[v] # None, txn'[u] # None,
                      v # u, NEW m \in txn'[v].held, NEW n \in txn'[u].held
               PROVE  ~Conflict(m, n)
    BY <1>2 DEF Exclusion, Conflict
  <2>1. CASE v # t /\ u # t
    BY <1>1, <2>1 DEF TInv, Exclusion, Live
  <2>2. CASE v = t
    BY <1>1, <2>2 DEF Live
  <2>3. CASE u = t
    BY <1>1, <2>3, Exclusive DEF Live
  <2> QED
    BY <2>1, <2>2, <2>3
<1>5. Plans'
  <2>1. \A u \in Sessions : Live(u)' => Planned(txn'[u])
    BY <1>1, <1>2 DEF TInv, Plans, Live
  <2> QED
    BY <2>1 DEF Plans, Planned, vars, workspaceVars, Request
<1>6. Decisions'
  <2>1. \A u \in Sessions : Live(u)' /\ txn'[u].seen # None => Stands(txn'[u])
    BY <1>1, <1>2 DEF TInv, Decisions, Live
  <2> QED
    BY <2>1 DEF Decisions, Stands, vars, workspaceVars, memberVars, agentVars, MayInsertAgent,
       MayCreateWorkspace, Owners, CanCreateAgents
<1>7. Limits'
  BY DEF TInv, Limits, OneAddressOnePrincipal, vars, workspaceVars, memberVars, agentVars
<1> QED
  BY <1>3, <1>4, <1>5, <1>6, <1>7 DEF TInv

\* The operations there are.
LEMMA Known ==
  ASSUME NEW c \in Calls
  PROVE  c.op \in Creation \cup AgentCreation \cup OfManagers \cup
           {"admission", "assign_admin", "update_policy", "register", "revoke", "invite",
            "update_role", "transfer", "remove", "set_access", "set_content"}
BY DEF Calls, CallsBy, Call, Creation, AgentCreation, OfWorkspace, OfMembers, OfAddresses,
       OfAgents, OfManagers

\* The locks wanted before the decision are a sequence,
LEMMA BeforeIsSequence ==
  ASSUME NEW c
  PROVE  \E L : Before(c) \in Seq(L)
<1>1. \A x : <<x>> \in Seq({x})
  OBVIOUS
<1>2. \A x, y : <<x, y>> \in Seq({x, y})
  OBVIOUS
<1>3. \A x, y, z, w : <<x, y, z, w>> \in Seq({x, y, z, w})
  OBVIOUS
<1>4. <<>> \in Seq({})
  OBVIOUS
<1> QED
  BY <1>1, <1>2, <1>3, <1>4 DEF Before, RegistrationLocks, AgentLocks

\* and so are those wanted after it.
LEMMA AfterIsSequence ==
  ASSUME NEW c \in Calls, NEW r, NEW seen
  PROVE  \E L : After(c, r, seen) \in Seq(L)
<1>1. \A x : <<x>> \in Seq({x})
  OBVIOUS
<1>2. \A x, y : <<x, y>> \in Seq({x, y})
  OBVIOUS
<1>3. \A x, y, z : <<x, y, z>> \in Seq({x, y, z})
  OBVIOUS
<1>4. \A x, y, z, w : <<x, y, z, w>> \in Seq({x, y, z, w})
  OBVIOUS
<1>5. <<>> \in Seq({})
  OBVIOUS
<1>6. CASE c.op \in Creation \cup AgentCreation \cup {"set_access", "admission", "assign_admin"}
  BY <1>1, <1>5, <1>6 DEF After, Creation, AgentCreation
<1>7. CASE c.op = "register"
  <2>1. CASE seen.offer = None
    BY <1>5, <1>7, <2>1 DEF After, Accepts
  <2>2. CASE Accepts(seen)
    BY <1>3, <1>7, <2>2 DEF After, Accepts
  <2>3. CASE seen.offer # None /\ ~Accepts(seen)
    BY <1>1, <1>7, <2>3 DEF After
  <2> QED
    BY <2>1, <2>2, <2>3
<1>8. CASE c.op \in {"update_policy", "revoke", "invite", "update_role", "set_content",
                     "drop_manager", "add_manager"}
  BY <1>2, <1>8 DEF After
<1>9. CASE c.op \in {"transfer", "transfer_agent"}
  BY <1>3, <1>9 DEF After
<1>10. CASE c.op = "remove"
  BY <1>4, <1>10 DEF After
<1> QED
  BY <1>6, <1>7, <1>8, <1>9, <1>10, Known DEF OfManagers

\* Whoever refers to the workspace's row asks for that after its decision.
LEMMA AfterRefers ==
  ASSUME NEW c, NEW r, NEW seen, Refers(c, seen)
  PROVE  \E i \in 1 .. Len(After(c, r, seen)) : After(c, r, seen)[i] = Reference
<1>1. CASE c.op \in {"update_policy", "invite", "update_role"}
  <2>1. PICK x : After(c, r, seen) = <<x, Reference>>
    BY <1>1 DEF After
  <2> QED
    BY <2>1
<1>2. CASE c.op = "transfer"
  <2>1. PICK x, y : After(c, r, seen) = <<x, y, Reference>>
    BY <1>2 DEF After
  <2> QED
    BY <2>1
<1>3. CASE c.op = "remove"
  <2>1. PICK x, y, z : After(c, r, seen) = <<x, y, z, Reference>>
    BY <1>3 DEF After
  <2> QED
    BY <2>1
<1>4. CASE c.op = "register" /\ Accepts(seen)
  <2>1. PICK x, y : After(c, r, seen) = <<x, Reference, y>>
    BY <1>4 DEF After, Accepts
  <2> QED
    BY <2>1
<1> QED
  BY <1>1, <1>2, <1>3, <1>4 DEF Refers

\* Taking the first lock of the list keeps every request.
LEMMA RequestKept ==
  ASSUME NEW L, NEW x, NEW y, NEW lock, x.todo \in Seq(L), x.todo # <<>>,
         y.todo = Tail(x.todo), y.held = x.held \cup Wanted(Head(x.todo)),
         Wanted(lock) = lock.names, Request(lock, x)
  PROVE  Request(lock, y)
<1>1. CASE lock.names \subseteq x.held
  BY <1>1 DEF Request
<1>2. ASSUME NEW i \in 1 .. Len(x.todo), x.todo[i] = lock PROVE Request(lock, y)
  <2>1. CASE i = 1
    BY <1>2, <2>1 DEF Request
  <2>2. CASE i # 1
    <3>1. i - 1 \in 1 .. Len(y.todo) /\ y.todo[i - 1] = lock
      BY <1>2, <2>2
    <3> QED
      BY <3>1 DEF Request
  <2> QED
    BY <2>1, <2>2
<1> QED
  BY <1>1, <1>2 DEF Request

\* Keys are always wanted, and the row of the workspace once there is one.
LEMMA RequestsAreWanted ==
  /\ \A lock : lock.always => Wanted(lock) = lock.names
  /\ founder # None => Wanted(Row(Workspace)) = Row(Workspace).names
<1>1. ASSUME NEW lock, lock.always PROVE Wanted(lock) = lock.names
  BY <1>1 DEF Wanted
<1>2. ASSUME founder # None PROVE Wanted(Row(Workspace)) = Row(Workspace).names
  <2>1. Head(Workspace) = "workspace"
    BY DEF Workspace
  <2>2. Exists(Workspace)
    BY <1>2, <2>1 DEF Exists
  <2> QED
    BY <2>2 DEF Wanted, Row, Rows
<1> QED
  BY <1>1, <1>2

-----------------------------------------------------------------------------
\* A session that begins holds nothing yet and keeps the invariant.
LEMMA BeginInv ==
  ASSUME TInv, NEW t \in Sessions, NEW c \in Calls, Begin(t, c)
  PROVE  TInv'
<1> DEFINE y == [call |-> c, read |-> Reads(c), seen |-> None, todo |-> Before(c), held |-> {}]
<1>1. txn' = [txn EXCEPT ![t] = y] /\ UNCHANGED vars
  BY DEF Begin
<1>2. Transaction(y)
  <2>1. PICK L : Before(c) \in Seq(L)
    BY BeforeIsSequence
  <2>2. y \in [call : Calls, read : {Reads(c)}, seen : {None}, todo : Seq(L), held : SUBSET {}]
    BY <2>1
  <2> QED
    BY <2>2 DEF Transaction
<1>3. c.op \in {"admission", "assign_admin", "resolve"} => founder # None
  BY DEF Begin, Begins
<1>4. c.op = "admission" => Reads(c).admission # "invite_only"
  BY DEF Begin, Begins, Reads, Entitled, Locking
<1>5. c.op \in {"admission", "assign_admin", "resolve"} => Request(Row(Workspace), y)
  <2> SUFFICES ASSUME c.op \in {"admission", "assign_admin", "resolve"}
               PROVE  Request(Row(Workspace), y)
    OBVIOUS
  <2>1. Before(c)[1] = Row(Workspace) /\ 1 \in 1 .. Len(Before(c))
    BY DEF Before
  <2> QED
    BY <2>1 DEF Request
<1>6. Planned(y)
  BY <1>3, <1>4, <1>5 DEF Planned, Request
<1> QED
  BY <1>1, <1>2, <1>6, QuietInv

\* A lock granted conflicts with none that another session holds.
LEMMA AcquireInv ==
  ASSUME TInv, NEW t \in Sessions, Acquire(t)
  PROVE  TInv'
<1> DEFINE x == txn[t]
           y == [x EXCEPT !.todo = Tail(x.todo), !.held = x.held \cup Wanted(Head(x.todo))]
<1>1. Live(t) /\ x.todo # <<>> /\ Free(t, Head(x.todo)) /\ UNCHANGED vars
  BY DEF Acquire, Live
<1>2. PICK R, S, L, H :
        x \in [call : Calls, read : R, seen : S, todo : Seq(L), held : SUBSET H]
  BY <1>1 DEF TInv, Shape, Transaction
<1>3. /\ y.call = x.call /\ y.read = x.read /\ y.seen = x.seen
      /\ y.todo = Tail(x.todo) /\ y.held = x.held \cup Wanted(Head(x.todo))
  BY <1>2
<1>4. txn' = [txn EXCEPT ![t] = y]
  BY <1>1 DEF Acquire, TInv, Shape
<1>5. Transaction(y)
  <2>1. Tail(x.todo) \in Seq(L)
    BY <1>1, <1>2
  <2>2. y \in [call : Calls, read : R, seen : S, todo : Seq(L),
               held : SUBSET (H \cup Wanted(Head(x.todo)))]
    BY <1>2, <2>1
  <2> HIDE DEF y
  <2> QED
    BY <2>2 DEF Transaction
<1> HIDE DEF y
<1>6. \A lock : Wanted(lock) = lock.names /\ Request(lock, x) => Request(lock, y)
  <2>1. x.todo \in Seq(L)
    BY <1>2
  <2> HIDE DEF x
  <2> QED
    BY <1>1, <1>3, <2>1, RequestKept
<1>7. Planned(y)
  <2>1. Wanted(Reference) = Reference.names
    BY DEF Reference, Key, Wanted
  <2>2. Planned(x)
    BY <1>1 DEF TInv, Plans
  <2> HIDE DEF x
  <2> QED
    BY <1>3, <1>6, <2>1, <2>2, RequestsAreWanted DEF Planned
<1>8. y.seen # None => Stands(y)
  <2>1. x.seen # None => Stands(x)
    BY <1>1 DEF TInv, Decisions
  <2> HIDE DEF x
  <2> QED
    BY <1>3, <2>1 DEF Stands
<1>9. ASSUME NEW u \in Sessions \ {t}, Live(u), NEW m \in y.held, NEW n \in txn[u].held
      PROVE  ~Conflict(m, n)
  <2>1. CASE m \in x.held
    BY <1>1, <1>9, <2>1 DEF TInv, Exclusion
  <2>2. CASE m \in Wanted(Head(x.todo))
    BY <1>1, <1>9, <2>2 DEF Free, Live
  <2> QED
    BY <1>3, <1>9, <2>1, <2>2
<1> QED
  BY <1>1, <1>4, <1>5, <1>7, <1>8, <1>9, QuietInv

\* A transaction that closes without a write keeps the invariant.
LEMMA EndInv ==
  ASSUME TInv, NEW t \in Sessions, Close(t), UNCHANGED vars
  PROVE  TInv'
BY QuietInv DEF Close

\* A decision finds the locks of its plan in place, and what it permits stands.
LEMMA DecideInv ==
  ASSUME TInv, NEW t \in Sessions, Decide(t)
  PROVE  TInv'
<1> DEFINE x == txn[t]
           c == x.call
           y == [x EXCEPT !.seen = Seen(c), !.todo = After(c, x.read, Seen(c))]
<1>1. Live(t) /\ x.todo = <<>> /\ x.seen = None /\ UNCHANGED vars
  BY DEF Decide, Live
<1>2. CASE ~Permits(c, x.read)
  BY <1>1, <1>2, EndInv DEF Decide
<1>3. CASE Permits(c, x.read)
  <2>1. PICK R, S, L, H :
          x \in [call : Calls, read : R, seen : S, todo : Seq(L), held : SUBSET H]
    BY <1>1 DEF TInv, Shape, Transaction
  <2>2. /\ y.call = c /\ y.read = x.read /\ y.held = x.held
        /\ y.seen = Seen(c) /\ y.todo = After(c, x.read, Seen(c))
    BY <2>1
  <2>3. txn' = [txn EXCEPT ![t] = y]
    BY <1>1, <1>3 DEF Decide, TInv, Shape
  <2>4. Transaction(y)
    <3>1. PICK M : After(c, x.read, Seen(c)) \in Seq(M)
      BY <2>1, AfterIsSequence
    <3>2. y \in [call : Calls, read : R, seen : S \cup {Seen(c)}, todo : Seq(M), held : SUBSET H]
      BY <2>1, <3>1
    <3> HIDE DEF y
    <3> QED
      BY <3>2 DEF Transaction
  <2> HIDE DEF y
  <2>5. \A i \in 1 .. Len(Before(c)) :
          Before(c)[i].always => Before(c)[i].names \subseteq x.held
    <3>1. Planned(x) /\ Len(x.todo) = 0
      BY <1>1 DEF TInv, Plans
    <3> QED
      BY <1>1, <3>1 DEF Planned, Request
  <2>6. /\ c.op \in {"admission", "assign_admin", "resolve"} =>
             founder # None /\ Workspace \in x.held
        /\ c.op = "admission" => x.read.admission # "invite_only"
    <3>1. Planned(x) /\ Len(x.todo) = 0
      BY <1>1 DEF TInv, Plans
    <3> QED
      BY <1>1, <3>1 DEF Planned, Request, Row, Rows
  <2>7. Planned(y)
    <3> HIDE DEF x, c
    <3> QED
      BY <2>2, <2>5, <2>6, AfterRefers DEF Planned, Request, Row, Rows, c
  <2>8. Stands(y)
    <3> HIDE DEF x
    <3> USE DEF Key, Advisory
    <3>1. c.op \in AgentCreation => AgentKey \in x.held /\ MayInsertAgent(c.agent)
      <4>1. CASE c.op = "create_agent"
        <5>1. Before(c)[2] = Advisory("agents", None) /\ Len(Before(c)) = 2
          BY <4>1 DEF Before, AgentLocks
        <5> QED
          BY <1>3, <2>5, <4>1, <5>1 DEF Permits, AgentKey
      <4>2. CASE c.op = "resolve"
        <5>1. Before(c)[3] = Advisory("agents", None) /\ Len(Before(c)) = 4
          BY <4>2 DEF Before
        <5> QED
          BY <1>3, <2>5, <4>2, <5>1 DEF Permits, AgentKey
      <4> QED
        BY <4>1, <4>2 DEF AgentCreation
    <3>2. c.op \in Creation => QuotaKey(c.by) \in x.held /\ MayCreateWorkspace(c.by)
      <4> SUFFICES ASSUME c.op \in Creation
                   PROVE  QuotaKey(c.by) \in x.held /\ MayCreateWorkspace(c.by)
        OBVIOUS
      <4>1. \E i \in 1 .. Len(Before(c)) : Before(c)[i] = QuotaLock(c.by)
        <5>1. CASE c.op = "create_workspace"
          <6>1. Before(c)[2] = QuotaLock(c.by) /\ Len(Before(c)) = 2
            BY <5>1 DEF Before
          <6> QED
            BY <6>1
        <5>2. CASE c.op \in {"create_other", "create_personal"}
          <6>1. Before(c)[1] = QuotaLock(c.by) /\ Len(Before(c)) = 1
            BY <5>2 DEF Before
          <6> QED
            BY <6>1
        <5> QED
          BY <5>1, <5>2 DEF Creation
      <4>2. MayCreateWorkspace(c.by)
        BY <1>3 DEF Permits, Creation
      <4>3. QuotaLock(c.by).names = {QuotaKey(c.by)} /\ QuotaLock(c.by).always
        BY DEF QuotaLock, QuotaKey
      <4> QED
        BY <2>5, <4>1, <4>2, <4>3
    <3>3. c.op = "create_personal" => created[c.by] = 0
      BY <1>3 DEF Permits
    <3>4. c.op = "create_workspace" => SlugKey \in x.held /\ founder = None
      <4> SUFFICES ASSUME c.op = "create_workspace" PROVE SlugKey \in x.held /\ founder = None
        OBVIOUS
      <4>1. Before(c)[1] = Advisory("slug", None) /\ Len(Before(c)) = 2
        BY DEF Before
      <4> QED
        BY <1>3, <2>5, <4>1 DEF Permits, SlugKey
    <3>5. c.op = "register" => Address(c.on) \in x.held /\ Owners(c.on) \subseteq {c.by}
      <4> SUFFICES ASSUME c.op = "register"
                   PROVE  Address(c.on) \in x.held /\ Owners(c.on) \subseteq {c.by}
        OBVIOUS
      <4>1. Before(c)[2] = Key(Address(c.on)) /\ Len(Before(c)) = 2
        BY DEF Before, RegistrationLocks
      <4> QED
        BY <1>3, <2>5, <4>1 DEF Permits
    <3>6. c.op \in {"admission", "assign_admin", "resolve"} => Workspace \in x.held
      BY <2>6
    <3>7. /\ c.op = "admission" => policy = x.read
          /\ c.op = "assign_admin" => c.by \in PlatformAdmins /\ role[c.by] # "owner"
          /\ c.op = "resolve" => CanCreateAgents(role[c.by])
      BY <1>3 DEF Permits, AdmissionStands
    <3> HIDE DEF c
    <3> QED
      BY <2>2, <3>1, <3>2, <3>3, <3>4, <3>5, <3>6, <3>7 DEF Stands
  <2>9. \A u \in Sessions \ {t} : Live(u) =>
          \A m \in y.held, n \in txn[u].held : ~Conflict(m, n)
    BY <1>1, <2>2 DEF TInv, Exclusion
  <2> QED
    BY <1>1, <2>3, <2>4, <2>7, <2>8, <2>9, QuietInv
<1> QED
  BY <1>2, <1>3

\* The caller of a call is a principal.
LEMMA Callers ==
  ASSUME NEW c \in Calls
  PROVE  c.by \in Principals
BY DEF Calls, CallsBy, Call

\* What a commit rests on.
LEMMA CommitFacts ==
  ASSUME TInv, NEW t \in Sessions, Commit(t), UNCHANGED vars => FALSE
  PROVE  LET x == txn[t] IN
         /\ Live(t) /\ x.call \in Calls /\ Planned(x) /\ Stands(x)
         /\ ~Duplicate(x.call, x.seen) /\ Writes(x.call, x.read, x.seen)
         /\ Refers(x.call, x.seen) => Referenced \in x.held
<1> DEFINE x == txn[t]
<1>1. Live(t) /\ x.todo = <<>> /\ x.seen # None
  BY DEF Commit, Live
<1>2. x.call \in Calls
  <2>1. PICK R, S, L, H :
          x \in [call : Calls, read : R, seen : S, todo : Seq(L), held : SUBSET H]
    BY <1>1 DEF TInv, Shape, Transaction
  <2> QED
    BY <2>1
<1>3. Planned(x) /\ Stands(x)
  BY <1>1 DEF TInv, Plans, Decisions
<1>4. ~Duplicate(x.call, x.seen) /\ Writes(x.call, x.read, x.seen)
  BY DEF Commit
<1>5. Refers(x.call, x.seen) => Referenced \in x.held
  <2>1. Len(x.todo) = 0
    BY <1>1
  <2> QED
    BY <1>1, <1>3, <2>1 DEF Planned, Request, Reference, Key
<1> QED
  BY <1>1, <1>2, <1>3, <1>4, <1>5

\* A commit of t leaves what another transaction's locks protect.
LEMMA Protected ==
  ASSUME TInv, NEW t \in Sessions, Commit(t), UNCHANGED vars => FALSE,
         NEW u \in Sessions \ {t}, Live(u)
  PROVE  LET c == txn[u].call  held == txn[u].held IN
         /\ AgentKey \in held => agents' = agents
         /\ QuotaKey(c.by) \in held /\ c.by \in Principals => created'[c.by] = created[c.by]
         /\ SlugKey \in held => founder' = founder
         /\ founder # None => founder' = founder
         /\ Address(c.on) \in held => \A p \in Principals :
              email'[p] = c.on => email[p] = c.on
         /\ Workspace \in held /\ founder # None => role' = role /\ policy' = policy
<1> DEFINE x == txn[t]
           d == x.call
           c == txn[u].call
           held == txn[u].held
<1>1. /\ Live(t) /\ d \in Calls /\ Stands(x) /\ Writes(d, x.read, x.seen)
      /\ Planned(x)
      /\ Refers(d, x.seen) => Referenced \in x.held
  BY CommitFacts
<1>2. /\ \A n \in held : n # Referenced => n \notin x.held
      /\ Workspace \in held => Referenced \notin x.held
  BY <1>1, OneHolder DEF TInv
<1>3. d.op \in AgentCreation => AgentKey \in x.held
  BY <1>1 DEF Stands
<1>4. d.op \in Creation => QuotaKey(d.by) \in x.held
  BY <1>1 DEF Stands
<1>5. d.op = "create_workspace" => SlugKey \in x.held /\ founder = None
  BY <1>1 DEF Stands
<1>6. d.op = "register" => Address(d.on) \in x.held
  BY <1>1 DEF Stands
<1>7. d.op \in {"admission", "assign_admin"} => Workspace \in x.held
  BY <1>1 DEF Stands
<1>8. d.op = "update_policy" => Referenced \in x.held
  BY <1>1 DEF Refers
<1>9. /\ agents' = agents \/ d.op \in AgentCreation
      /\ created' = created \/ (d.op \in Creation /\ created' = [created EXCEPT ![d.by] = @ + 1])
      /\ founder' = founder \/ d.op = "create_workspace"
      /\ policy' = policy \/ d.op \in {"create_workspace", "update_policy"}
      /\ \/ role' = role
         \/ d.op \in {"create_workspace", "admission", "assign_admin"}
         \/ Refers(d, x.seen)
      /\ \/ email' = email
         \/ d.op = "register" /\ email' = [email EXCEPT ![d.by] = d.on]
  BY <1>1, WritesFrame
<1> HIDE DEF x, d, c, held
<1>10. AgentKey \in held => agents' = agents
  BY <1>2, <1>3, <1>9, Names
<1>11. QuotaKey(c.by) \in held /\ c.by \in Principals => created'[c.by] = created[c.by]
  <2>1. created \in [Principals -> 0 .. MaxWorkspaces]
    BY DEF TInv, Limits
  <2> QED
    BY <1>2, <1>4, <1>9, <2>1, Names
<1>12. (SlugKey \in held \/ founder # None) => founder' = founder
  BY <1>2, <1>5, <1>9, Names
<1>13. Address(c.on) \in held => \A p \in Principals : email'[p] = c.on => email[p] = c.on
  <2>1. email = [p \in Principals |-> email[p]]
    BY DEF TInv, Limits
  <2>2. Address(c.on) \in held /\ d.op = "register" => d.on # c.on
    BY <1>2, <1>6, Names
  <2> QED
    BY <1>9, <2>1, <2>2
<1>14. Workspace \in held /\ founder # None => role' = role /\ policy' = policy
  BY <1>1, <1>2, <1>5, <1>7, <1>8, <1>9, Names DEF d, x
<1> QED
  BY <1>10, <1>11, <1>12, <1>13, <1>14 DEF c, held

\* So the decisions of the others stand.
LEMMA OthersStand ==
  ASSUME TInv, NEW t \in Sessions, Commit(t), UNCHANGED vars => FALSE,
         NEW u \in Sessions \ {t}, Live(u), txn[u].seen # None, txn'[u] = txn[u]
  PROVE  Stands(txn[u])'
<1> DEFINE y == txn[u]
           c == y.call
<1>1. Stands(y) /\ Planned(y)
  BY DEF TInv, Decisions, Plans
<1>2. c.by \in Principals
  <2>1. PICK R, S, L, H :
          y \in [call : Calls, read : R, seen : S, todo : Seq(L), held : SUBSET H]
    BY DEF TInv, Shape, Transaction
  <2> QED
    BY <2>1, Callers
<1>3. /\ AgentKey \in y.held => agents' = agents
      /\ QuotaKey(c.by) \in y.held => created'[c.by] = created[c.by]
      /\ SlugKey \in y.held => founder' = founder
      /\ Address(c.on) \in y.held => Owners(c.on)' \subseteq Owners(c.on)
      /\ Workspace \in y.held /\ founder # None => role' = role /\ policy' = policy
  BY <1>2, Protected DEF Owners
<1>4. c.op \in {"admission", "assign_admin", "resolve"} => founder # None
  BY <1>1 DEF Planned
<1>5. y' = y
  OBVIOUS
<1> HIDE DEF y
<1>6. c.op \in AgentCreation => AgentKey \in y.held /\ MayInsertAgent(c.agent)'
  BY <1>1, <1>3, <1>5 DEF Stands, MayInsertAgent
<1>7. /\ c.op \in Creation => QuotaKey(c.by) \in y.held /\ MayCreateWorkspace(c.by)'
      /\ c.op = "create_personal" => created'[c.by] = 0
  BY <1>1, <1>3, <1>5 DEF Stands, MayCreateWorkspace, MayCreateWorkspaces, Creation
<1>8. c.op = "create_workspace" => SlugKey \in y.held /\ founder' = None
  BY <1>1, <1>3 DEF Stands
<1>9. c.op = "register" => Address(c.on) \in y.held /\ Owners(c.on)' \subseteq {c.by}
  BY <1>1, <1>3 DEF Stands
<1>10. /\ c.op = "admission" => Workspace \in y.held /\ policy' = y.read
       /\ c.op = "assign_admin" => /\ Workspace \in y.held
                                   /\ c.by \in PlatformAdmins /\ role'[c.by] # "owner"
       /\ c.op = "resolve" => Workspace \in y.held /\ CanCreateAgents(role[c.by])'
  BY <1>1, <1>3, <1>4, <1>5 DEF Stands, CanCreateAgents
<1> QED
  BY <1>5, <1>6, <1>7, <1>8, <1>9, <1>10 DEF Stands, y

\* A commit writes under its locks and keeps the invariant.
LEMMA CommitInv ==
  ASSUME TInv, NEW t \in Sessions, Commit(t)
  PROVE  TInv'
<1> DEFINE x == txn[t]
           c == x.call
<1>1. CASE UNCHANGED vars
  BY <1>1, EndInv DEF Commit
<1>2. CASE ~UNCHANGED vars
  <2>1. /\ Live(t) /\ c \in Calls /\ Planned(x) /\ Stands(x)
        /\ ~Duplicate(c, x.seen) /\ Writes(c, x.read, x.seen)
    BY <1>2, CommitFacts
  <2>2. txn' = [txn EXCEPT ![t] = None]
    BY DEF Commit, Close
  <2>3. \A u \in Sessions : txn'[u] = IF u = t THEN None ELSE txn[u]
    BY <2>2 DEF TInv, Shape
  <2>4. \A u \in Sessions : Live(u)' => u # t /\ txn'[u] = txn[u] /\ Live(u)
    BY <2>3 DEF Live
  <2>5. Shape'
    <3>1. txn' = [u \in Sessions |-> txn'[u]]
      BY <2>2 DEF TInv, Shape
    <3>2. \A u \in Sessions : Live(u)' => Transaction(txn'[u])
      BY <2>4 DEF TInv, Shape
    <3> QED
      BY <3>1, <3>2 DEF Shape, Transaction
  <2>6. Exclusion'
    BY <2>4 DEF TInv, Exclusion, Conflict, Live
  <2>7. Plans'
    <3> SUFFICES ASSUME NEW u \in Sessions, Live(u)' PROVE Planned(txn[u])'
      BY DEF Plans, Live
    <3>1. u # t /\ txn'[u] = txn[u] /\ Live(u) /\ Planned(txn[u])
      BY <2>4 DEF TInv, Plans
    <3>2. founder # None => founder' = founder
      BY <1>2, <3>1, Protected
    <3> QED
      BY <3>1, <3>2 DEF Planned, Request
  <2>8. Decisions'
    <3> SUFFICES ASSUME NEW u \in Sessions, Live(u)', txn'[u].seen # None
                 PROVE  Stands(txn[u])'
      BY DEF Decisions, Live
    <3> QED
      BY <1>2, <2>4, OthersStand
  <2>9. Limits'
    <3>1. /\ agents' = agents \/ (c.op \in AgentCreation /\ agents' = agents \cup {c.agent})
          /\ created' = created \/ (c.op \in Creation /\ created' = [created EXCEPT ![c.by] = @ + 1])
          /\ email' = email \/ (c.op = "register" /\ email' = [email EXCEPT ![c.by] = c.on])
      BY <2>1, WritesFrame
    <3>2. c.by \in Principals
      BY <2>1, Callers
    <3>3. /\ c.op \in AgentCreation => MayInsertAgent(c.agent)
          /\ c.op \in Creation => MayCreateWorkspace(c.by)
          /\ c.op = "register" => Owners(c.on) \subseteq {c.by}
      BY <2>1 DEF Stands
    <3> HIDE DEF c
    <3>4. IsFiniteSet(agents') /\ Cardinality(agents') <= MaxAgents
      <4>1. IsFiniteSet(agents) /\ Cardinality(agents) <= MaxAgents
        BY DEF TInv, Limits
      <4>2. c.op \in AgentCreation => c.agent \notin agents /\ Cardinality(agents) < MaxAgents
        BY <3>3 DEF MayInsertAgent
      <4> QED
        BY <3>1, <4>1, <4>2, FS_AddElement, FS_CardinalityType, QuotaAssumption
    <3>5. created' \in [Principals -> 0 .. MaxWorkspaces]
      <4>1. created \in [Principals -> 0 .. MaxWorkspaces]
        BY DEF TInv, Limits
      <4> QED
        BY <3>1, <3>2, <3>3, <4>1, QuotaAssumption DEF MayCreateWorkspace
    <3>6. OneAddressOnePrincipal' /\ email' = [p \in Principals |-> email'[p]]
      <4>1. OneAddressOnePrincipal /\ email = [p \in Principals |-> email[p]]
        BY DEF TInv, Limits
      <4> QED
        BY <3>1, <3>2, <3>3, <4>1 DEF OneAddressOnePrincipal, Owners
    <3> QED
      BY <3>4, <3>5, <3>6 DEF Limits
  <2> QED
    BY <2>5, <2>6, <2>7, <2>8, <2>9 DEF TInv
<1> QED
  BY <1>1, <1>2

-----------------------------------------------------------------------------
\* Without sessions under way the invariant is that of the first rows.
LEMMA InitTxns == TxnInit => TInv
<1> SUFFICES ASSUME TxnInit PROVE TInv
  OBVIOUS
<1>1. \A t \in Sessions : txn[t] = None
  BY DEF TxnInit
<1>2. Shape /\ Exclusion /\ Plans /\ Decisions
  BY <1>1 DEF TxnInit, Shape, Exclusion, Plans, Decisions, Live
<1>3. Limits
  <2>1. CASE Init
    <3>1. IsFiniteSet(agents) /\ Cardinality(agents) <= MaxAgents
      BY <2>1, FS_EmptySet, QuotaAssumption DEF Init
    <3>2. created \in [Principals -> 0 .. MaxWorkspaces]
      BY <2>1, QuotaAssumption DEF Init
    <3>3. OneAddressOnePrincipal /\ email = [p \in Principals |-> email[p]]
      BY <2>1 DEF Init, OneAddressOnePrincipal
    <3> QED
      BY <3>1, <3>2, <3>3 DEF Limits
  <2>2. ASSUME NEW start \in Starts, Established(start) PROVE Limits
    <3>1. IsFiniteSet(agents) /\ Cardinality(agents) <= MaxAgents
      BY <2>2, SessionAssumption DEF Established
    <3>2. created \in [Principals -> 0 .. MaxWorkspaces]
      BY <2>2, QuotaAssumption DEF Established
    <3>3. OneAddressOnePrincipal /\ email = [p \in Principals |-> email[p]]
      BY <2>2 DEF Established, OneAddressOnePrincipal
    <3> QED
      BY <3>1, <3>2, <3>3 DEF Limits
  <2> QED
    BY <2>1, <2>2 DEF TxnInit
<1> QED
  BY <1>2, <1>3 DEF TInv

\* Every step of every session keeps the invariant.
LEMMA NextTxns == TInv /\ [TxnNext]_txnVars => TInv'
<1> SUFFICES ASSUME TInv, [TxnNext]_txnVars PROVE TInv'
  OBVIOUS
<1>1. CASE UNCHANGED txnVars
  <2>1. UNCHANGED vars /\ txn' = txn
    BY <1>1 DEF txnVars
  <2>2. Shape' /\ Exclusion'
    <3>1. Shape'
      BY <2>1 DEF TInv, Shape, Live, Transaction
    <3>2. Exclusion'
      BY <2>1 DEF TInv, Live, Exclusion, Conflict
    <3> QED
      BY <3>1, <3>2
  <2>3. Plans'
    BY <2>1 DEF TInv, Plans, Live, Planned, Request, vars, workspaceVars
  <2>4. Decisions'
    <3>1. \A t \in Sessions : Live(t)' /\ txn'[t].seen # None => Stands(txn[t])
      BY <2>1 DEF TInv, Decisions, Live
    <3> QED
      BY <2>1, <3>1 DEF Decisions, Stands, MayInsertAgent, MayCreateWorkspace, Owners,
         CanCreateAgents, vars, workspaceVars, memberVars, agentVars
  <2>5. Limits'
    BY <2>1 DEF TInv, Limits, OneAddressOnePrincipal, vars, workspaceVars, memberVars, agentVars
  <2> QED
    BY <2>2, <2>3, <2>4, <2>5 DEF TInv
<1>2. ASSUME NEW t \in Sessions, NEW c \in Calls, Begin(t, c) PROVE TInv'
  BY <1>2, BeginInv
<1>3. ASSUME NEW t \in Sessions, Acquire(t) PROVE TInv'
  BY <1>3, AcquireInv
<1>4. ASSUME NEW t \in Sessions, Decide(t) PROVE TInv'
  BY <1>4, DecideInv
<1>5. ASSUME NEW t \in Sessions, Commit(t) PROVE TInv'
  BY <1>5, CommitInv
<1>6. ASSUME NEW t \in Sessions, DeadlockAbort(t) \/ Fail(t) PROVE TInv'
  BY <1>6, EndInv DEF DeadlockAbort, Fail
<1> QED
  BY <1>1, <1>2, <1>3, <1>4, <1>5, <1>6 DEF TxnNext

\* The inductive invariant holds in every reachable state.
THEOREM TxnsInductive == TxnSpec => []TInv
BY InitTxns, NextTxns, PTL DEF TxnSpec

\* A workspace never has more agents than max_agents_per_workspace, for any number of
\* overlapping creations: each counts and inserts under the workspace's agent lock.
THEOREM AgentsWithinLimitAlways == TxnSpec => []AgentsWithinLimit
<1>1. TInv => AgentsWithinLimit
  BY DEF TInv, Limits, AgentsWithinLimit
<1> QED
  BY <1>1, TxnsInductive, PTL

\* A principal never has created more workspaces than its quota: both ways to create
\* one count them under the lock of the principal.
THEOREM WorkspacesWithinLimitAlways == TxnSpec => []WorkspacesWithinLimit
<1>1. TInv => WorkspacesWithinLimit
  BY QuotaAssumption DEF TInv, Limits, WorkspacesWithinLimit
<1> QED
  BY <1>1, TxnsInductive, PTL

\* Registrations of one address by two principals never both commit.
THEOREM OneAddressOnePrincipalAlways == TxnSpec => []OneAddressOnePrincipal
<1>1. TInv => OneAddressOnePrincipal
  BY DEF TInv, Limits
<1> QED
  BY <1>1, TxnsInductive, PTL

\* What a locking operation commits is what it would do alone at that moment.
LEMMA CommitIsSerial ==
  ASSUME TInv, NEW t \in Sessions, Commit(t), ~UNCHANGED vars
  PROVE  Serial(txn[t].call)
<1> DEFINE x == txn[t]
           c == x.call
<1>1. /\ c \in Calls /\ c = x.call /\ Planned(x) /\ Stands(x)
      /\ ~Duplicate(c, x.seen) /\ Writes(c, x.read, x.seen)
  BY CommitFacts
<1> HIDE DEF x, c
<1>2. c.op = "create_workspace" => Serial(c)
  BY <1>1 DEF Serial, CreateWorkspace, Stands, Creation, Writes
<1>3. c.op = "create_other" => Serial(c)
  BY <1>1 DEF Serial, CreateOtherWorkspace, Stands, Creation, Writes
<1>4. c.op = "create_personal" => Serial(c)
  BY <1>1 DEF Serial, EnsurePersonalWorkspace, CreateOtherWorkspace, Stands, Creation, Writes
<1>5. c.op = "admission" => Serial(c)
  BY <1>1 DEF Serial, EnsureWorkspaceAdmission, Entitled, Stands, Planned, Duplicate, Writes
<1>6. c.op = "assign_admin" => Serial(c)
  BY <1>1 DEF Serial, AssignPlatformAdminRole, Stands, Planned, Writes
<1>7. c.op = "resolve" => Serial(c)
  <2>1. "write" \in RoleActions("admin")
    BY DEF RoleActions
  <2> QED
    BY <1>1, <2>1 DEF Serial, ResolveOrCreate, Stands, AgentCreation, Writes
<1>8. c.op \notin {"create_workspace", "create_other", "create_personal", "admission",
                   "assign_admin", "resolve"} => Serial(c)
  BY DEF Serial
<1> QED
  BY <1>2, <1>3, <1>4, <1>5, <1>6, <1>7, <1>8 DEF c, x

\* Whatever overlaps with it, an operation that decides under its locks takes effect as
\* one action of Management: a decision to admit, to promote or to create still stands.
THEOREM LockingCallsAreAtomicAlways == TxnSpec => LockingCallsAreAtomic
<1> DEFINE Atomic ==
      \A t \in Sessions :
        txn[t] # None /\ txn'[t] = None /\ vars' # vars => Serial(txn[t].call)
<1>1. TInv /\ [TxnNext]_txnVars => [Atomic]_txnVars
  <2> SUFFICES ASSUME TInv, TxnNext, NEW t \in Sessions, txn[t] # None, txn'[t] = None,
                      vars' # vars
               PROVE  Serial(txn[t].call)
    BY DEF txnVars
  <2>1. PICK u \in Sessions : Commit(u)
    BY DEF TxnNext, Begin, Acquire, Decide, DeadlockAbort, Fail
  <2>2. u = t
    BY <2>1 DEF Commit, Close, TInv, Shape
  <2> QED
    BY <2>1, <2>2, CommitIsSerial
<1>2. TxnSpec => [][Atomic]_txnVars
  BY <1>1, TxnsInductive, PTL DEF TxnSpec
<1> QED
  BY <1>2 DEF LockingCallsAreAtomic
================================================================================
