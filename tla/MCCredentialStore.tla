-------------------------- MODULE MCCredentialStore --------------------------
(***************************************************************************)
(* A credential of the server and one of the service account that calls    *)
(* run as, while there is one; two handlers, since one may await while the *)
(* other resolves.                                                         *)
(***************************************************************************)
EXTENDS CredentialStore, TLC

CONSTANTS alice, deployer, server, call1, call2, value1, value2

MCCalls == {call1, call2}
MCOwners == {deployer, server}
MCValues == {value1, value2}
MCContexts ==
  {[service_account |-> deployer, user |-> alice, agent |-> None]}

Payload(type, kind, lifetime, row_lifetime) ==
  [type |-> type, kind |-> kind, lifetime |-> lifetime, row_lifetime |-> row_lifetime]
MCPayloads ==
  {Payload("oauth", "oauth", 0, None), Payload("api_key", "api_key", None, 1),
   Payload("oauth", "api_key", None, None)}
MCRenewals == {2}

Symmetry == Permutations(MCCalls) \union Permutations(MCValues)

=============================================================================
