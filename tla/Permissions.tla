---------------------------- MODULE Permissions ----------------------------
(***************************************************************************)
(* Permission names, patterns and permission sets                          *)
(* (agentid/authorization/permissions.py and the flattening of roles in    *)
(* agentid/authorization/rbac.py).                                         *)
(*                                                                         *)
(* A dotted name is the sequence of its segments, so "github.create_issue" *)
(* is <<"github", "create_issue">>.  Which pattern matched only feeds the  *)
(* text of a decision, so a search for the first matching pattern is       *)
(* modelled by whether there is one.                                       *)
(***************************************************************************)
EXTENDS Naturals, Sequences

SINGLE   == "*"
CATCHALL == "**"

\* matches(): the two shortcuts, then the loop over the pattern's segments,
\* left to right.  The loop stops at the first catch-all wherever it stands.
matches(pattern, permission) ==
  LET rest[i \in 1..Len(pattern) + 1] ==
        IF i > Len(pattern) THEN Len(pattern) = Len(permission)
        ELSE IF pattern[i] = CATCHALL THEN i - 1 =< Len(permission)
        ELSE /\ i =< Len(permission)
             /\ pattern[i] \in {SINGLE, permission[i]}
             /\ rest[i + 1]
  IN  \/ pattern = permission
      \/ pattern \in {<<SINGLE>>, <<CATCHALL>>}
      \/ rest[1]

any_matches(patterns, permission) ==
  \E p \in patterns : matches(p, permission)

----------------------------------------------------------------------------
\* PermissionSet: the allow and deny patterns attached to one identity.

EmptyPermissionSet == [allow |-> {}, deny |-> {}]

allowed_by(ps, permission) == any_matches(ps.allow, permission)
denied_by(ps, permission)  == any_matches(ps.deny, permission)

permits(ps, permission) ==
  /\ ~denied_by(ps, permission)
  /\ allowed_by(ps, permission)

merge(ps, other) ==
  [allow |-> ps.allow \union other.allow, deny |-> ps.deny \union other.deny]

\* intersect() keeps only the patterns spelled the same on both sides.
intersect(ps, other) ==
  [allow |-> ps.allow \intersect other.allow,
   deny  |-> ps.deny \union other.deny]

\* __bool__(): a set with no pattern at all counts as false in Python's
\* "if pset" and "a or b".
truthy(ps) == ps.allow \union ps.deny # {}

effective_permits(permission, sets) ==
  \A ps \in sets : permits(ps, permission)

\* _from_roles(): what an identity holds through its roles.
from_roles(role_entries, roles) ==
  [allow |-> UNION {role_entries[r].allow : r \in roles},
   deny  |-> UNION {role_entries[r].deny : r \in roles}]

=============================================================================
