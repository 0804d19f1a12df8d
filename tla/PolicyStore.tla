----------------------------- MODULE PolicyStore -----------------------------
(***************************************************************************)
(* Roles as rows that concurrent requests replace: PUT /policy/roles, one  *)
(* role, and POST /policy/bundle, several in one transaction               *)
(* (agentid/authorization/rbac.py, policies.py, gateway/api/policy.py).    *)
(*                                                                         *)
(* The routes are synchronous, so they run in threads and their statements *)
(* interleave.  Transactions read what is committed, as on PostgreSQL;     *)
(* SQLite lets one transaction write at a time, which only removes         *)
(* behaviours.  Authorization replaces a role in one step; this module     *)
(* says when that is what happens.                                         *)
(***************************************************************************)
EXTENDS Integers, Sequences

CONSTANTS
  Txs,        \* threads that handle the two routes
  Roles, Names,
  Requests,   \* the sequences of documents that administrators send
  MaxUpserts, \* bounds the replacements of a role, committed or not
  None

Effects == {"allow", "deny"}

\* PolicyDocument: a role and its lists, without the description.
Document == [role : Roles, allow : SUBSET Names, deny : SUBSET Names]

ASSUME RequestsAssumption ==
  /\ Requests \subseteq {docs \in Seq(Document) : docs # <<>>}
  /\ MaxUpserts \in Nat

\* RolePermission.  "upsert" stands for the random identifier: no two
\* replacements make the same row.
Row == [upsert : 1..MaxUpserts, role : Roles, name : Names, effect : Effects]

Tx ==
  [docs : Requests, next : Nat \ {0}, stage : {"select", "delete", "insert"},
   loaded : SUBSET Roles, seen : [Roles -> SUBSET Row],  \* Role.entries
   removed : SUBSET Row, added : SUBSET Row,             \* what it has flushed
   roles : SUBSET Roles, names : SUBSET Names,
   based : [Roles -> Nat],                               \* history: the body it read
   body : [Roles -> SUBSET (Names \X Effects)]]          \* history: the one it wrote

ASSUME NoneAssumption == None \notin Tx

VARIABLES
  rows, roles, names,  \* committed rows of role_permissions, roles, permissions
  upserts,             \* how many replacements have inserted rows
  txs,                 \* Txs -> the transaction, or None
  latest               \* history: Roles -> the body committed last

policyStoreVars == <<rows, roles, names, upserts, txs, latest>>

Body == [version : Nat, entries : SUBSET (Names \X Effects)]

PolicyStoreTypeOK ==
  /\ rows \subseteq Row
  /\ roles \subseteq Roles
  /\ names \subseteq Names
  /\ upserts \in 0..MaxUpserts
  /\ txs \in [Txs -> Tx \union {None}]
  /\ latest \in [Roles -> Body]

InitPolicyStore ==
  /\ rows = {} /\ roles = {} /\ names = {}
  /\ upserts = 0
  /\ txs = [t \in Txs |-> None]
  /\ latest = [r \in Roles |-> [version |-> 0, entries |-> {}]]

----------------------------------------------------------------------------
EntriesOf_Swapped(doc) ==
  ({"allow"} \X doc.allow) \union ({"deny"} \X doc.deny)

EntriesOf(doc) == (doc.allow \X {"allow"}) \union (doc.deny \X {"deny"})

Of(r, set) == {row \in set : row.role = r}

Entry(row) == <<row.name, row.effect>>

\* What the engine finds for a role.
InForce(r) == {Entry(row) : row \in Of(r, rows)}

Current(t) == txs[t].docs[txs[t].next]

Visible(t) == (rows \ txs[t].removed) \union txs[t].added

Others(t) == {u \in Txs \ {t} : txs[u] # None}

Busy(t, stage) ==
  /\ txs[t] # None
  /\ txs[t].stage = stage
  /\ txs[t].next <= Len(txs[t].docs)

\* What upsert_role() finds in role.entries after the deletions and does not
\* insert again.
existing_NotReset(t, r) == {Entry(row) : row \in txs[t].seen[r]}

existing(t, r) == {}

----------------------------------------------------------------------------
\* A request arrives.  require_admin() has read the roles of the caller, with
\* their entries, in the same session, which keeps them.
Begin(t, docs, held) ==
  /\ txs[t] = None
  /\ txs' = [txs EXCEPT ![t] =
       [docs |-> docs, next |-> 1, stage |-> "select",
        loaded |-> held,
        seen |-> [r \in Roles |-> IF r \in held THEN Of(r, rows) ELSE {}],
        removed |-> {}, added |-> {}, roles |-> {}, names |-> {},
        based |-> [r \in Roles |-> latest[r].version],
        body |-> [r \in Roles |-> {}]]]
  /\ UNCHANGED <<rows, roles, names, upserts, latest>>

\* upsert_role() finds the role.
Select(t) ==
  LET r == Current(t).role
      tx == txs[t]
  IN /\ Busy(t, "select")
     /\ r \in roles \union tx.roles
     /\ txs' = [txs EXCEPT
          ![t].stage = "delete",
          ![t].loaded = @ \union {r},
          ![t].seen[r] = IF r \in tx.loaded THEN @ ELSE Of(r, Visible(t)),
          ![t].based[r] = IF r \in tx.loaded THEN @ ELSE latest[r].version]
     /\ UNCHANGED <<rows, roles, names, upserts, latest>>

\* It does not, and inserts it.  A name that another transaction has inserted
\* makes it wait, and fail if that one commits.
Create(t) ==
  LET r == Current(t).role
  IN /\ Busy(t, "select")
     /\ r \notin roles \union txs[t].roles
     /\ \A u \in Others(t) : r \notin txs[u].roles
     /\ txs' = [txs EXCEPT
          ![t].stage = "delete",
          ![t].loaded = @ \union {r},
          ![t].seen[r] = {},
          ![t].roles = @ \union {r},
          ![t].based[r] = latest[r].version]
     /\ UNCHANGED <<rows, roles, names, upserts, latest>>

\* It deletes, by their identifiers, the entries it has loaded.  One that is gone
\* is not missed, one that another transaction has deleted is waited for.
Delete_AllowsOnly(t) ==
  LET r == Current(t).role
      gone == {row \in txs[t].seen[r] : row.effect = "allow"}
  IN /\ Busy(t, "delete")
     /\ \A u \in Others(t) : txs[u].removed \intersect gone = {}
     /\ txs' = [txs EXCEPT ![t].stage = "insert",
                           ![t].removed = @ \union gone,
                           ![t].added = @ \ gone]
     /\ UNCHANGED <<rows, roles, names, upserts, latest>>

Delete(t) ==
  LET r == Current(t).role
      gone == txs[t].seen[r]
  IN /\ Busy(t, "delete")
     /\ \A u \in Others(t) : txs[u].removed \intersect gone = {}
     /\ txs' = [txs EXCEPT ![t].stage = "insert",
                           ![t].removed = @ \union gone,
                           ![t].added = @ \ gone]
     /\ UNCHANGED <<rows, roles, names, upserts, latest>>

\* Nobody has, or may commit, a row with the role, name and effect of this one.
Insertable(t, row) ==
  \A other \in Visible(t) \union
               UNION {txs[u].added \union (txs[u].removed \intersect rows) : u \in Others(t)} :
    other.role = row.role => Entry(other) # Entry(row)

\* It inserts the body, with the permissions that do not exist yet, and reads
\* the entries again (db.refresh()).
Insert(t) ==
  LET doc == Current(t)
      r == doc.role
      new == {[upsert |-> upserts + 1, role |-> r, name |-> e[1], effect |-> e[2]] :
                e \in EntriesOf(doc) \ existing(t, r)}
      created == (doc.allow \union doc.deny) \ (names \union txs[t].names)
  IN /\ Busy(t, "insert")
     /\ upserts < MaxUpserts
     /\ \A row \in new : Insertable(t, row)
     /\ \A u \in Others(t) : txs[u].names \intersect created = {}
     /\ upserts' = upserts + 1
     /\ txs' = [txs EXCEPT ![t].stage = "select",
                           ![t].next = @ + 1,
                           ![t].seen[r] = Of(r, Visible(t) \union new),
                           ![t].added = @ \union new,
                           ![t].names = @ \union created,
                           ![t].body[r] = EntriesOf(doc)]
     /\ UNCHANGED <<rows, roles, names, latest>>

Listed(t, r) == \E i \in 1..Len(txs[t].docs) : txs[t].docs[i].role = r

Commit(t) ==
  /\ txs[t] # None
  /\ txs[t].next = Len(txs[t].docs) + 1
  /\ rows' = Visible(t)
  /\ roles' = roles \union txs[t].roles
  /\ names' = names \union txs[t].names
  /\ latest' = [r \in Roles |->
       IF Listed(t, r)
       THEN [version |-> latest[r].version + 1,
             entries |-> txs[t].body[r]]
       ELSE latest[r]]
  /\ txs' = [txs EXCEPT ![t] = None]
  /\ UNCHANGED upserts

\* A row that exists, a deadlock the database ends, a lost connection: an
\* exception leaves the route before the commit.
Fail(t) ==
  /\ txs[t] # None
  /\ txs' = [txs EXCEPT ![t] = None]
  /\ UNCHANGED <<rows, roles, names, upserts, latest>>

NextPolicyStore ==
  \E t \in Txs :
    \/ \E docs \in Requests, held \in SUBSET roles : Begin(t, docs, held)
    \/ Select(t)
    \/ Create(t)
    \/ Delete(t)
    \/ Insert(t)
    \/ Commit(t)
    \/ Fail(t)

SpecPolicyStore == InitPolicyStore /\ [][NextPolicyStore]_policyStoreVars

----------------------------------------------------------------------------
\* The body committed last for a role is in force, whole: what an administrator
\* was told is committed, a deny above all, is not lost to a request that read
\* the role before, nor to one that fails (rbac.py, upsert_role(), which deletes
\* the entries it has read one by one).
LatestBodyInForce ==
  \A r \in Roles : latest[r].entries \subseteq InForce(r)

Commits(t) == txs[t] # None /\ txs'[t] = None /\ latest' # latest

\* A request during which no other one committed a body for the same role
\* replaces it: nothing of what was in force before remains, whatever the other
\* documents of its bundle are and whichever failed requests came between.
UndisturbedReplaces ==
  [][ \A t \in Txs : Commits(t) =>
        \A r \in Roles :
          Listed(t, r) /\ txs[t].based[r] = latest[r].version =>
            InForce(r)' = latest'[r].entries
    ]_policyStoreVars

\* policies.py: "loading one replaces the listed roles' entries so the file stays
\* the source of truth".
RoleIsLatestBody == \A r \in Roles : InForce(r) = latest[r].entries

=============================================================================
