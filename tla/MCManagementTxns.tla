---------------------------- MODULE MCManagementTxns ----------------------------
(* Small instances of ManagementTxns. *)
EXTENDS ManagementTxns, TLC

CONSTANTS ann, ben, cas, a1

MCPolicies == {LeastPolicy, [admission |-> "all_authenticated", creation |-> "all_members"]}
MCMembers == (ann :> "owner") @@ (ben :> "member") @@ (cas :> None)
MCStarts == {[policy |-> LeastPolicy, agents |-> {a1}, offer |-> None],
             [policy |-> CHOOSE pol \in MCPolicies : pol # LeastPolicy, agents |-> {}, offer |-> "admin"]}
AllOperations ==
  OfWorkspace \cup OfMembers \cup OfAddresses \cup OfAgents \cup OfManagers
    \cup {"create_workspace", "update_policy", "invite", "update_role", "set_access", "set_content"}

=============================================================================
