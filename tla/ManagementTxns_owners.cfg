SPECIFICATION TxnSpec
CONSTANTS
  ann = ann
  ben = ben
  cas = cas
  a1 = a1
  Principals = {ann, ben, cas}
  Emails = {e1}
  Agents = {a1}
  Creators = {ann}
  PlatformAdmins = {}
  AllowSelfGrant = FALSE
  MaxWorkspaces = 1
  MaxAgents = 1
  PolicyChoices <- MCPolicies
  GrantChoices = {"editor"}
  None = None
  Sessions = {s1, s2}
  Founder = ann
  Members <- MCMembers
  Starts <- MCStarts
  Operations = {"transfer", "update_role", "remove"}
  MaxCalls = 2
CHECK_DEADLOCK FALSE
INVARIANTS OneOwner
