-------------------------- MODULE MCAuthentication --------------------------
(***************************************************************************)
(* One human with one delegated agent and one agent of kind AUTONOMOUS, a  *)
(* login, two delegations and an API key: enough for a delegated token to  *)
(* be exchanged for another, for two exchanges to run against each other,  *)
(* and for a dead key or token to be tried again.                          *)
(***************************************************************************)
EXTENDS Authentication, TLC

CONSTANTS alice, coder, nightly, deployer, s1, s2, d1, d2, k1, w1, w2, r1

MCUsers == {alice}
MCOneAgent == {coder}
MCAgents == {coder, nightly}
MCAutonomous == {nightly}
MCServiceAccounts == {deployer}
MCOneSession == {s1}
MCDelegationIds == {d1, d2}
MCApiKeyIds == {k1}
MCOneWorker == {w1}
MCTwoWorkers == {w1, w2}
MCRevokers == {r1}
MCKeyTTLs == {1, None}
MCShortKeys == {1}

\* Exchanges are alike, and so are delegations.
MCSymmetry ==
  {[x \in MCTwoWorkers \union MCDelegationIds |->
      IF x \in MCTwoWorkers THEN p[x] ELSE q[x]] :
     p \in Permutations(MCTwoWorkers), q \in Permutations(MCDelegationIds)}

=============================================================================
