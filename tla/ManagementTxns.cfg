SPECIFICATION TxnSpec
CONSTANTS
  ann = ann
  ben = ben
  cas = cas
  Principals = {ann, ben, cas}
  Emails = {e1}
  Agents = {a1, a2}
  Creators = {ann, cas}
  PlatformAdmins = {cas}
  AllowSelfGrant = FALSE
  MaxWorkspaces = 1
  MaxAgents = 1
  PolicyChoices <- MCPolicies
  GrantChoices = {"editor"}
  None = None
  Sessions = {s1, s2}
  Members <- MCMembers
  Starts <- MCStarts
  a1 = a1
  Founder = ann
  Operations <- AllOperations
  MaxCalls = 2
CHECK_DEADLOCK FALSE
INVARIANTS AgentsWithinLimit WorkspacesWithinLimit OneAddressOnePrincipal
PROPERTIES LockingCallsAreAtomic EveryCallEnds
