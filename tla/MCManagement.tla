------------------------------ MODULE MCManagement ------------------------------
(* Small instances of Management. *)
EXTENDS Management, TLC

CONSTANTS p1, p2, p3, e1, e2

\* A closed policy and an open one: the guards read each field for one value only.
MCPolicies == {LeastPolicy, [admission |-> "external_entitlement", creation |-> "all_members"]}
\* p1 is the creator and platform administrator; the others and the addresses are alike.
Symmetry == Permutations({p2, p3}) \cup Permutations({e1, e2})

=============================================================================
