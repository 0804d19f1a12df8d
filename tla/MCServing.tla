----------------------------- MODULE MCServing -----------------------------
(***************************************************************************)
(* An agent calls a tool with its API key and, at the same time, with an   *)
(* access token, with which it also looks for tools: the three share a     *)
(* rate limit, the first holds the lock of its key over its await, and the *)
(* first two need a secret that may have to be refreshed.                  *)
(***************************************************************************)
EXTENDS Serving

CONSTANTS c1, c2, c3, coder, key1, secret1

MCCalls == {c1, c2, c3}
MCTools == {c1, c2}
MCKeyOf == [c \in MCCalls |-> coder]
MCKeyRow == [c \in MCCalls |-> IF c = c1 THEN key1 ELSE None]
MCSecretRow == [c \in MCCalls |-> IF c = c3 THEN None ELSE secret1]

=============================================================================
