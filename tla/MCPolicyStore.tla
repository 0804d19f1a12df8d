---------------------------- MODULE MCPolicyStore ----------------------------
(***************************************************************************)
(* Two administrators at a time, one sending single roles and bundles of   *)
(* two roles in either order.                                              *)
(***************************************************************************)
EXTENDS PolicyStore, TLC

CONSTANTS thread1, thread2, developer, operator, read, deploy

MCTxs == {thread1, thread2}
MCRoles == {developer, operator}
MCNames == {read, deploy}

Doc(role, allow, deny) == [role |-> role, allow |-> allow, deny |-> deny]

MCRequests ==
  {<<Doc(developer, {read}, {deploy})>>,
   <<Doc(developer, {read, deploy}, {})>>,
   <<Doc(developer, {deploy}, {}), Doc(operator, {read}, {})>>,
   <<Doc(operator, {}, {deploy}), Doc(developer, {}, {})>>,
   <<Doc(operator, {deploy}, {}), Doc(operator, {deploy}, {read})>>}

Symmetry == Permutations(MCTxs)

=============================================================================
