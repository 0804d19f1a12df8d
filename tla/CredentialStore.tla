-------------------------- MODULE CredentialStore --------------------------
(***************************************************************************)
(* The stored credentials of one MCP server, and how the calls forwarded   *)
(* to it get the secret they carry: the rows, the cache of opened secrets  *)
(* and the refresh of expired ones (agentid/credentials/manager.py,        *)
(* token_cache.py, refresh.py).                                            *)
(*                                                                         *)
(* resolve() runs on the event loop without awaiting, so it is one step    *)
(* unless a provider refreshes: the provider answers in its own time, with *)
(* the loop blocked.  The refreshed row is flushed in the transaction of   *)
(* the call, which commits when the call ends.  store() and delete() are   *)
(* called by two routes, in threads of the gateway, and by scripts in      *)
(* other processes (gateway/api/registry.py).                              *)
(*                                                                         *)
(* Refreshing and storing both SELECT a row, may have to wait for its      *)
(* lock, and then UPDATE the columns in which what they have differs from  *)
(* what they read, which need not be what is there by then.                *)
(***************************************************************************)
EXTENDS Integers

CONSTANTS
  Calls,       \* handlers of /mcp/call, each used again and again
  Owners,      \* owners of credentials: identities and the server
  Server,      \* the owner of the server's own credential
  Contexts,    \* the contexts calls arrive with
  Values,      \* secrets
  Payloads,    \* what administrators store, with how long it is good
  Renewals,    \* for how long a refreshed secret is good
  DefaultTTL,  \* 300 s
  Leeway,      \* 30 s
  MaxTime, MaxWrites,  \* bounds on the clock and on the writes of rows
  None

\* The types with a builder of their own.  A payload is of the kind whose
\* builder accepts it; one that does not decrypt is as good as one of another
\* kind than its row's type.  store() checks neither.
Types == {"oauth", "api_key"}

ASSUME OwnersAssumption == Server \in Owners /\ None \notin Owners

ASSUME TimesAssumption ==
  /\ None \notin Nat
  /\ DefaultTTL \in Nat /\ Leeway \in Nat /\ MaxTime \in Nat /\ MaxWrites \in Nat
  /\ Renewals \subseteq (Nat \ {0}) \union {None}
  /\ Payloads \subseteq [type : Types, kind : Types, lifetime : Nat \union {None},
                         row_lifetime : Nat \union {None}]

Secret == [kind : Types, value : Values, expires_at : Nat \union {None}]

\* What a write gives a row, next to the ciphertext, and the updated_at of the
\* row it has read (0 for none): history that no action reads.
Meant == [type : Types, expires_at : Nat \union {None}, over : 0..MaxWrites]

\* Identifiers are random, and updated_at is the time of the write: both are
\* taken from a counter of writes.
Row == [id : 1..MaxWrites, updated_at : 1..MaxWrites, type : Types,
        secret : Secret, expires_at : Nat \union {None}, meant : Meant]

Key == (1..MaxWrites) \X (1..MaxWrites)

Call ==
  [at : {"idle"}]
    \union [at : {"refreshing"}, ctx : Contexts, owner : Owners, row : Row]
    \union [at : {"waiting"}, ctx : Contexts, owner : Owners, sent : Secret,
            wrote : Row \union {None}]

\* A route or a script that has read a row, or has flushed a write of one.
Script ==
  [at : {"read"}, owner : Owners, read : Row \union {None}]
    \union [at : {"flushed"}, owner : Owners, row : Row \union {None}]

ASSUME RowsAssumption ==
  None \notin Row \union [secret : Secret, expires_at : Nat] \union Script

VARIABLES
  now,     \* the clock
  writes,  \* how many rows have been written
  rows,    \* Owners -> the committed row, or None
  script,  \* the store or delete under way, or None
  cache,   \* Key -> an opened secret and until when it is good, or None
  calls    \* Calls -> where the handler is

storeVars == <<now, writes, rows, script, cache, calls>>

CredentialTypeOK ==
  /\ now \in 0..MaxTime
  /\ writes \in 0..MaxWrites
  /\ rows \in [Owners -> Row \union {None}]
  /\ script \in Script \union {None}
  /\ cache \in [Key -> [secret : Secret, expires_at : Nat] \union {None}]
  /\ calls \in [Calls -> Call]

Idle == [at |-> "idle"]
EmptyCache == [k \in Key |-> None]

InitStore ==
  /\ now = 0
  /\ writes = 0
  /\ rows = [o \in Owners |-> None]
  /\ script = None
  /\ cache = EmptyCache
  /\ calls = [c \in Calls |-> Idle]

----------------------------------------------------------------------------
\* Helpers of the manager.

Candidates_ServerFirst(ctx) == <<Server, ctx.service_account, ctx.user, ctx.agent>>

Candidates(ctx) == <<ctx.service_account, ctx.user, ctx.agent, Server>>

Having(ctx) ==
  {i \in 1..4 : LET o == Candidates(ctx)[i] IN o \in Owners /\ rows[o] # None}

\* _find_credential(): the owner of the first candidate row there is.
find_credential(ctx) ==
  IF Having(ctx) = {} THEN None
  ELSE Candidates(ctx)[CHOOSE i \in Having(ctx) : \A j \in Having(ctx) : i <= j]

cache_key_NoTimestamp(row) == <<row.id, row.id>>

cache_key(row) == <<row.id, row.updated_at>>

\* The vault opens the payload, and the builder of the row's type takes it.
usable(row) == row.secret.kind = row.type

\* The builder: only an OAuth payload has its expiry read back.
opened(secret) ==
  IF secret.kind = "oauth" THEN secret ELSE [secret EXCEPT !.expires_at = None]

expired(secret, row) ==
  LET expires == IF secret.expires_at # None THEN secret.expires_at
                 ELSE row.expires_at
  IN expires # None /\ expires <= now

\* TokenCache.get() and set().  An entry that get() finds expired is dropped;
\* no other call can find it either, so leaving it is the same.
hit(key) == cache[key] # None /\ cache[key].expires_at > now + Leeway

entry_NoDefault(secret) == [secret |-> secret, expires_at |-> secret.expires_at]

entry_DefaultOnly(secret) == [secret |-> secret, expires_at |-> now + DefaultTTL]

entry(secret) ==
  [secret |-> secret,
   expires_at |-> IF secret.expires_at = None THEN now + DefaultTTL
                  ELSE secret.expires_at]

after(lifetime) == IF lifetime = None THEN None ELSE now + lifetime

\* The event loop runs one handler at a time.
LoopFree == \A c \in Calls : calls[c].at # "refreshing"

\* A flushed row is locked until its transaction ends.  A write of any row
\* locks all of SQLite, and one row of PostgreSQL.
Writing(c) == calls[c].at = "waiting" /\ calls[c].wrote # None
RowLocked(o) ==
  \/ script # None /\ script.at = "flushed" /\ script.owner = o
  \/ \E c \in Calls : Writing(c) /\ calls[c].owner = o

\* An UPDATE finds the row that was read by its identifier.
Same(row, read) == row # None /\ read # None /\ row.id = read.id

\* A column after an UPDATE: it is written when its value is not the one that
\* was read.  SQLite gives a time back without its zone, and then it never is.
column(value, read, current) == IF value = read THEN current ELSE value

time_column(value, read, current, zoned) ==
  IF zoned \/ value = None THEN column(value, read, current) ELSE value

----------------------------------------------------------------------------
\* A call.

Send(c, ctx, o, secret, wrote) ==
  calls' = [calls EXCEPT ![c] =
    [at |-> "waiting", ctx |-> ctx, owner |-> o, sent |-> secret, wrote |-> wrote]]

\* resolve() finds the secret of the credential in the cache.
SendCached(c, ctx) ==
  LET o == find_credential(ctx)
      key == cache_key(rows[o])
  IN /\ calls[c] = Idle /\ LoopFree
     /\ o # None
     /\ hit(key)
     /\ Send(c, ctx, o, cache[key].secret, None)
     /\ UNCHANGED <<now, writes, rows, script, cache>>

\* It opens it, and it has not expired.
SendOpened(c, ctx) ==
  LET o == find_credential(ctx)
      key == cache_key(rows[o])
      secret == opened(rows[o].secret)
  IN /\ calls[c] = Idle /\ LoopFree
     /\ o # None
     /\ ~hit(key)
     /\ usable(rows[o])
     /\ ~expired(secret, rows[o])
     /\ cache' = [cache EXCEPT ![key] = entry(secret)]
     /\ Send(c, ctx, o, secret, None)
     /\ UNCHANGED <<now, writes, rows, script>>

\* It has expired: RefreshRegistry.refresh() asks the server's provider.
StartRefresh(c, ctx) ==
  LET o == find_credential(ctx)
      secret == opened(rows[o].secret)
  IN /\ calls[c] = Idle /\ LoopFree
     /\ o # None
     /\ ~hit(cache_key(rows[o]))
     /\ usable(rows[o])
     /\ expired(secret, rows[o])
     /\ calls' = [calls EXCEPT ![c] =
          [at |-> "refreshing", ctx |-> ctx, owner |-> o, row |-> rows[o]]]
     /\ UNCHANGED <<now, writes, rows, script, cache>>

\* There is no credential, or none that can be opened: nothing is sent.
SendNothing(c, ctx) ==
  LET o == find_credential(ctx)
  IN /\ calls[c] = Idle /\ LoopFree
     /\ \/ o = None
        \/ /\ o # None
           /\ ~hit(cache_key(rows[o]))
           /\ ~usable(rows[o])
     /\ UNCHANGED storeVars

\* The UPDATE of _persist() matches the row it read, by its id.
Refreshable_ByOwner(c) == ~RowLocked(calls[c].owner) /\ rows[calls[c].owner] # None

Refreshable_Unlocked(c) == Same(rows[calls[c].owner], calls[c].row)

Refreshable(c) ==
  ~RowLocked(calls[c].owner) /\ Same(rows[calls[c].owner], calls[c].row)

\* The provider answers with a secret that has not expired; _persist() flushes
\* it, which leaves the type of the row alone, and the cache gets it before the
\* commit.  After the flush updated_at has a time zone, which SQLite does not
\* give back: there ("zoned" is false) the entry is under a key nobody asks for.
Refresh(c, value, lifetime, zoned) ==
  LET old == calls[c].row
      secret == [kind |-> old.secret.kind, value |-> value,
                 expires_at |-> after(lifetime)]
      row == [rows[calls[c].owner] EXCEPT
                !.updated_at = writes + 1, !.secret = secret,
                !.expires_at = time_column(after(lifetime), old.expires_at, @, zoned),
                !.meant = [type |-> old.type, expires_at |-> after(lifetime),
                           over |-> old.updated_at]]
      dropped == [cache EXCEPT ![cache_key(old)] = None]
  IN /\ calls[c].at = "refreshing"
     /\ writes < MaxWrites
     /\ Refreshable(c)
     /\ writes' = writes + 1
     /\ cache' = IF zoned THEN [dropped EXCEPT ![cache_key(row)] = entry(secret)]
                 ELSE dropped
     /\ Send(c, calls[c].ctx, calls[c].owner, secret, row)
     /\ UNCHANGED <<now, rows, script>>

\* There is no provider or it fails; the row is gone (StaleDataError); the
\* database stays locked too long.
RefreshFails(c) ==
  /\ calls[c].at = "refreshing"
  /\ calls' = [calls EXCEPT ![c] = Idle]
  /\ UNCHANGED <<now, writes, rows, script, cache>>

\* The call ends and its transaction commits.
Finish(c) ==
  /\ calls[c].at = "waiting" /\ LoopFree
  /\ rows' = IF calls[c].wrote = None THEN rows
             ELSE [rows EXCEPT ![calls[c].owner] = calls[c].wrote]
  /\ calls' = [calls EXCEPT ![c] = Idle]
  /\ UNCHANGED <<now, writes, script, cache>>

\* Writing the audit event or committing fails, and the transaction is
\* rolled back.
RollBack(c) ==
  /\ calls[c].at = "waiting" /\ LoopFree
  /\ calls' = [calls EXCEPT ![c] = Idle]
  /\ UNCHANGED <<now, writes, rows, script, cache>>

----------------------------------------------------------------------------
\* The routes of administrators, and scripts: one at a time.

\* The SELECT of store() or of delete().
ScriptReads(o) ==
  /\ script = None
  /\ script' = [at |-> "read", owner |-> o, read |-> rows[o]]
  /\ UNCHANGED <<now, writes, rows, cache, calls>>

Flush(row, clears) ==
  /\ script' = [at |-> "flushed", owner |-> script.owner, row |-> row]
  /\ cache' = IF clears THEN EmptyCache ELSE cache
  /\ UNCHANGED <<now, rows, calls>>

\* The row an UPDATE of store() leaves, of one it has read.
Updated(row, read, secret, p, zoned) ==
  [row EXCEPT
     !.updated_at = writes + 1, !.secret = secret,
     !.type = column(p.type, read.type, @),
     !.expires_at = time_column(after(p.row_lifetime), read.expires_at, @, zoned),
     !.meant = [type |-> p.type, expires_at |-> after(p.row_lifetime),
                over |-> read.updated_at]]

\* And the one its INSERT makes.
Inserted(secret, p) ==
  [id |-> writes + 1, updated_at |-> writes + 1, type |-> p.type,
   secret |-> secret, expires_at |-> after(p.row_lifetime),
   meant |-> [type |-> p.type, expires_at |-> after(p.row_lifetime), over |-> 0]]

\* The flush of store().  In the gateway's own process the cache is then
\* cleared, before the route commits.
Store(value, p, zoned, clears) ==
  LET row == rows[script.owner]
      secret == [kind |-> p.kind, value |-> value, expires_at |-> after(p.lifetime)]
  IN /\ script # None /\ script.at = "read"
     /\ ~RowLocked(script.owner)
     /\ writes < MaxWrites
     /\ writes' = writes + 1
     /\ \/ /\ script.read = None /\ row = None
           /\ Flush(Inserted(secret, p), clears)
        \/ /\ Same(row, script.read)
           /\ Flush(Updated(row, script.read, secret, p, zoned), clears)

\* The flush of delete().
Delete(clears) ==
  /\ script # None /\ script.at = "read"
  /\ ~RowLocked(script.owner)
  /\ Same(rows[script.owner], script.read)
  /\ Flush(None, clears)
  /\ writes' = writes

ScriptCommits ==
  /\ script # None /\ script.at = "flushed"
  /\ rows' = [rows EXCEPT ![script.owner] = script.row]
  /\ script' = None
  /\ UNCHANGED <<now, writes, cache, calls>>

\* There is nothing to delete, or the database fails.
ScriptFails ==
  /\ script # None
  /\ script' = None
  /\ UNCHANGED <<now, writes, rows, cache, calls>>

----------------------------------------------------------------------------
\* The gateway stops and is started again.
Restart ==
  /\ calls' = [c \in Calls |-> Idle]
  /\ cache' = EmptyCache
  /\ UNCHANGED <<now, writes, rows, script>>

Tick ==
  /\ now < MaxTime
  /\ now' = now + 1
  /\ UNCHANGED <<writes, rows, script, cache, calls>>

CallStep ==
  \E c \in Calls :
    \/ \E ctx \in Contexts : \/ SendCached(c, ctx)
                             \/ SendOpened(c, ctx)
                             \/ StartRefresh(c, ctx)
                             \/ SendNothing(c, ctx)
    \/ \E v \in Values, l \in Renewals, zoned \in BOOLEAN : Refresh(c, v, l, zoned)
    \/ RefreshFails(c)
    \/ Finish(c)
    \/ RollBack(c)

ScriptStep ==
  \/ \E o \in Owners : ScriptReads(o)
  \/ \E v \in Values, p \in Payloads, zoned, clears \in BOOLEAN :
       Store(v, p, zoned, clears)
  \/ \E clears \in BOOLEAN : Delete(clears)
  \/ ScriptCommits
  \/ ScriptFails

NextStore == CallStep \/ ScriptStep \/ Restart \/ Tick

SpecStore == InitStore /\ [][NextStore]_storeVars

----------------------------------------------------------------------------
\* What the manager promises.

\* In this step a call gets the secret of a stored credential: no provider
\* was asked.
Attaches(c) == calls[c].at = "idle" /\ calls'[c].at = "waiting"

Has(o) == o \in Owners /\ rows[o] # None

\* The owner of the most specific credential for a context.
MostSpecific(o, ctx) ==
  /\ Has(o)
  /\ \/ o = ctx.service_account
     \/ o = ctx.user /\ ~Has(ctx.service_account)
     \/ o = ctx.agent /\ ~Has(ctx.service_account) /\ ~Has(ctx.user)
     \/ /\ o = Server
        /\ ~Has(ctx.service_account) /\ ~Has(ctx.user) /\ ~Has(ctx.agent)

\* A call uses the most specific credential committed for it, with the secret
\* committed last: a replaced or deleted secret, a refreshed one that is not
\* committed yet or was rolled back, and the secret of another owner are never
\* sent, whatever the cache holds and whichever process wrote the row
\* (manager.py, _find_credential() and the key of the cache in _materialise()).
CurrentSecretOnly ==
  [][ \A c \in Calls : Attaches(c) =>
        LET call == calls'[c]
        IN /\ MostSpecific(call.owner, call.ctx)
           /\ call.sent.value = rows[call.owner].secret.value
    ]_storeVars

\* A secret with an expiry of its own is never sent after it.  One whose expiry
\* only the row knows is sent after it for less than DefaultTTL - Leeway, which
\* is how long the cache keeps it (token_cache.py, get() and set()), unless
\* overlapping writes have left the row the expiry of another secret.
ExpiryRespected ==
  [][ \A c \in Calls : Attaches(c) =>
        LET sent == calls'[c].sent
            row == rows[calls'[c].owner]
            expires_at == row.expires_at
        IN /\ sent.expires_at # None => now < sent.expires_at
           /\ /\ sent.expires_at = None /\ expires_at # None
              /\ expires_at = row.meant.expires_at
              => now < expires_at \/ now + Leeway < expires_at + DefaultTTL
    ]_storeVars

\* A refresh that was under way when its credential was deleted, or deleted and
\* stored anew, does not bring it back: it writes the row it has read and no
\* other, and what a call commits is still a row of the same identifier
\* (manager.py, _persist()).
DeletedStaysDeleted ==
  [][ /\ \A c \in Calls : calls[c].at = "refreshing" /\ calls'[c].at = "waiting" =>
           calls'[c].wrote.id = calls[c].row.id
      /\ script' = script =>
           \A o \in Owners : rows'[o] # rows[o] =>
             rows[o] # None /\ rows'[o] # None /\ rows'[o].id = rows[o].id
    ]_storeVars

\* A row is as the writer of its ciphertext meant it.
Whole(row) ==
  row.type = row.meant.type /\ row.expires_at = row.meant.expires_at

\* A secret is never undone by one written before it, and a write takes effect
\* whole, unless another one was committed after it had read the row: then it
\* can leave a mixture of columns, but its own ciphertext in it (manager.py,
\* _persist(), store() and delete()).
NoLostUpdate ==
  [][ \A o \in Owners :
        rows[o] # None /\ rows'[o] # None /\ rows'[o] # rows[o] =>
          /\ rows[o].updated_at < rows'[o].updated_at
          /\ rows'[o].meant.over = rows[o].updated_at => Whole(rows'[o])
    ]_storeVars

\* manager.py: the manager "resolves the server's own credential [...],
\* refreshing it if it has expired".
RefreshedIfExpired ==
  [][ \A c \in Calls : Attaches(c) =>
        ~expired(opened(rows[calls'[c].owner].secret), rows[calls'[c].owner])
    ]_storeVars

=============================================================================
