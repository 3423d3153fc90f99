SPECIFICATION Spec
CONSTANTS
  e1 = e1
  e2 = e2
  p1 = p1
  p2 = p2
  p3 = p3
  Principals = {p1, p2, p3}
  Emails = {e1, e2}
  Agents = {a1}
  Creators = {p1}
  PlatformAdmins = {p1}
  AllowSelfGrant = FALSE
  MaxWorkspaces = 1
  MaxAgents = 1
  PolicyChoices <- MCPolicies
  GrantChoices = {"editor"}
  None = None
SYMMETRY Symmetry
INVARIANTS TypeOK OneOwner AccessNeedsMembership InvitationsArePending ListingsAgree
PROPERTIES NobodyRaisesItself ContentIsGiven
