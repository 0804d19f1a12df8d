-------------------------- MODULE CredentialProofs --------------------------
(***************************************************************************)
(* Theorems about CredentialStore, for any number of handlers, owners and  *)
(* writes, every lifetime, and every life of a cache entry.                *)
(***************************************************************************)
EXTENDS CredentialStore, TLAPS

----------------------------------------------------------------------------
\* Type correctness.

LEMMA InitStoreType == InitStore => CredentialTypeOK
BY TimesAssumption DEF InitStore, CredentialTypeOK, EmptyCache, Idle, Call

LEMMA KeysOfRows == \A row \in Row : cache_key(row) \in Key
BY DEF cache_key, Row, Key

LEMMA OpenedSecrets == \A secret \in Secret : opened(secret) \in Secret
BY DEF opened, Secret

LEMMA Entries ==
  ASSUME CredentialTypeOK
  PROVE  \A secret \in Secret :
           entry(secret) \in [secret : Secret, expires_at : Nat]
BY TimesAssumption DEF CredentialTypeOK, entry, Secret

\* The credential found has a row, and nobody more specific has one.
LEMMA Found ==
  ASSUME CredentialTypeOK, NEW ctx, find_credential(ctx) # None
  PROVE  MostSpecific(find_credential(ctx), ctx)
<1> DEFINE o == find_credential(ctx)
<1> DEFINE first == CHOOSE i \in Having(ctx) : \A j \in Having(ctx) : i <= j
<1>1. Having(ctx) # {} /\ o = Candidates(ctx)[first]
  BY DEF find_credential
<1>2. Having(ctx) \subseteq 1..4
  BY DEF Having
<1>3. \E i \in Having(ctx) : \A j \in Having(ctx) : i <= j
  <2>1. CASE 1 \in Having(ctx) BY <2>1, <1>2
  <2>2. CASE 1 \notin Having(ctx) /\ 2 \in Having(ctx) BY <2>2, <1>2
  <2>3. CASE {1, 2} \intersect Having(ctx) = {} /\ 3 \in Having(ctx) BY <2>3, <1>2
  <2>4. CASE {1, 2, 3} \intersect Having(ctx) = {} BY <2>4, <1>1, <1>2
  <2> QED BY <2>1, <2>2, <2>3, <2>4
<1>4. first \in Having(ctx) /\ \A j \in Having(ctx) : first <= j
  BY <1>3
<1>5. \A i \in 1..4 : i \in Having(ctx) <=> Has(Candidates(ctx)[i])
  BY DEF Having, Has
<1>6. /\ Candidates(ctx)[1] = ctx.service_account /\ Candidates(ctx)[2] = ctx.user
      /\ Candidates(ctx)[3] = ctx.agent /\ Candidates(ctx)[4] = Server
  BY DEF Candidates
<1>7. \A j \in 1..4 : Has(Candidates(ctx)[j]) => first <= j
  BY <1>4, <1>5
<1>8. first \in 1..4 /\ Has(o)
  BY <1>1, <1>2, <1>4, <1>5
<1> HIDE DEF first, o
<1> QED BY <1>1, <1>6, <1>7, <1>8 DEF MostSpecific, o

LEMMA FoundRow ==
  ASSUME CredentialTypeOK, NEW ctx, find_credential(ctx) # None
  PROVE  /\ find_credential(ctx) \in Owners
         /\ rows[find_credential(ctx)] \in Row
BY Found DEF MostSpecific, Has, CredentialTypeOK

LEMMA CallTypes ==
  ASSUME CredentialTypeOK, NEW c \in Calls
  PROVE  /\ calls[c].at = "refreshing" =>
              /\ calls[c].ctx \in Contexts /\ calls[c].owner \in Owners
              /\ calls[c].row \in Row
         /\ calls[c].at = "waiting" =>
              /\ calls[c].ctx \in Contexts /\ calls[c].owner \in Owners
              /\ calls[c].sent \in Secret
              /\ calls[c].wrote \in Row \union {None}
BY DEF CredentialTypeOK, Call

LEMMA NewCall ==
  ASSUME NEW ctx \in Contexts, NEW o \in Owners, NEW secret \in Secret,
         NEW wrote \in Row \union {None}
  PROVE  [at |-> "waiting", ctx |-> ctx, owner |-> o, sent |-> secret,
          wrote |-> wrote] \in Call
BY DEF Call

\* The row a refresh writes.
RefreshedRow(c, secret, l, zoned) ==
  [rows[calls[c].owner] EXCEPT
     !.updated_at = writes + 1, !.secret = secret,
     !.expires_at = time_column(after(l), calls[c].row.expires_at, @, zoned),
     !.meant = [type |-> calls[c].row.type, expires_at |-> after(l),
                over |-> calls[c].row.updated_at]]

\* What a refresh of a call reads, and what it writes.
Refreshes(c, l, zoned, o, old, new, secret) ==
  /\ o = calls[c].owner /\ old = calls[c].row /\ calls[c].ctx \in Contexts
  /\ rows[o] \in Row /\ rows[o].id = old.id
  /\ secret.expires_at = after(l)
  /\ new.id = rows[o].id /\ new.updated_at = writes + 1
  /\ new.type = rows[o].type /\ new.secret = secret
  /\ new.expires_at = time_column(after(l), old.expires_at, rows[o].expires_at, zoned)
  /\ new.meant.type = old.type /\ new.meant.expires_at = after(l)
  /\ new.meant.over = old.updated_at
  /\ calls' = [calls EXCEPT ![c] =
       [at |-> "waiting", ctx |-> calls[c].ctx, owner |-> o, sent |-> secret,
        wrote |-> new]]
  /\ \A key \in Key : \/ cache'[key] \in {cache[key], None}
                      \/ key = cache_key(new) /\ cache'[key] = entry(secret)
  /\ cache' \in [Key -> [secret : Secret, expires_at : Nat] \union {None}]
  /\ UNCHANGED <<now, rows, script>>

RefreshedSecret(c, v, l) ==
  [kind |-> calls[c].row.secret.kind, value |-> v, expires_at |-> after(l)]

LEMMA AfterTypes ==
  ASSUME CredentialTypeOK, NEW l \in Nat \union {None}
  PROVE  after(l) \in Nat \union {None}
BY TimesAssumption DEF CredentialTypeOK, after

LEMMA NextWrite ==
  ASSUME CredentialTypeOK, writes < MaxWrites
  PROVE  writes + 1 \in 1..MaxWrites /\ writes + 1 \in 0..MaxWrites
BY TimesAssumption DEF CredentialTypeOK

LEMMA RefreshParts ==
  ASSUME CredentialTypeOK, NEW c \in Calls,
         NEW v \in Values, NEW l \in Renewals, NEW zoned \in BOOLEAN,
         Refresh(c, v, l, zoned)
  PROVE  \E o \in Owners, old, new \in Row, secret \in Secret :
            Refreshes(c, l, zoned, o, old, new, secret)
<1> DEFINE o == calls[c].owner
           old == calls[c].row
           secret == RefreshedSecret(c, v, l)
           new == RefreshedRow(c, secret, l, zoned)
<1>1. /\ o \in Owners /\ old \in Row /\ rows[o] \in Row /\ rows[o].id = old.id
      /\ calls[c].ctx \in Contexts
  BY CallTypes DEF Refresh, Refreshable, Same, CredentialTypeOK
<1>2. after(l) \in Nat \union {None} /\ writes + 1 \in 1..MaxWrites
  BY AfterTypes, NextWrite, TimesAssumption DEF Refresh
<1>3. secret \in Secret /\ secret.expires_at = after(l)
  BY <1>1, <1>2 DEF Row, Secret, RefreshedSecret
<1>4. time_column(after(l), old.expires_at, rows[o].expires_at, zoned) \in Nat \union {None}
  BY <1>1, <1>2 DEF Row, time_column, column
<1>5. [type |-> old.type, expires_at |-> after(l), over |-> old.updated_at] \in Meant
  BY <1>1, <1>2 DEF Row, Meant
<1> HIDE DEF secret
<1>6. /\ new \in Row /\ new.id = rows[o].id /\ new.updated_at = writes + 1
      /\ new.type = rows[o].type /\ new.secret = secret
      /\ new.expires_at = time_column(after(l), old.expires_at, rows[o].expires_at, zoned)
      /\ new.meant = [type |-> old.type, expires_at |-> after(l),
                      over |-> old.updated_at]
  <2> DEFINE e == time_column(after(l), old.expires_at, rows[o].expires_at, zoned)
             m == [type |-> old.type, expires_at |-> after(l), over |-> old.updated_at]
  <2>1. new = [rows[o] EXCEPT !.updated_at = writes + 1, !.secret = secret,
                              !.expires_at = e, !.meant = m]
    BY <1>1 DEF RefreshedRow, Row
  <2> HIDE DEF e, m, new
  <2> QED BY <1>1, <1>2, <1>3, <1>4, <1>5, <2>1 DEF Row, e, m
<1>7. calls' = [calls EXCEPT ![c] =
        [at |-> "waiting", ctx |-> calls[c].ctx, owner |-> o, sent |-> secret,
         wrote |-> new]]
  BY DEF Refresh, Send, RefreshedRow, RefreshedSecret, secret
<1>8. cache' = IF zoned THEN [[cache EXCEPT ![cache_key(old)] = None]
                                EXCEPT ![cache_key(new)] = entry(secret)]
               ELSE [cache EXCEPT ![cache_key(old)] = None]
  BY DEF Refresh, RefreshedRow, RefreshedSecret, secret
<1>9. /\ cache_key(old) \in Key /\ cache_key(new) \in Key
      /\ entry(secret) \in [secret : Secret, expires_at : Nat]
  BY <1>1, <1>3, <1>6, KeysOfRows, Entries
<1> DEFINE k == cache_key(old)
           n == cache_key(new)
           e == entry(secret)
           E == [secret : Secret, expires_at : Nat]
<1>10. /\ cache' = IF zoned THEN [[cache EXCEPT ![k] = None] EXCEPT ![n] = e]
                    ELSE [cache EXCEPT ![k] = None]
       /\ k \in Key /\ n \in Key /\ e \in E /\ cache \in [Key -> E \union {None}]
  BY <1>8, <1>9 DEF CredentialTypeOK
<1> HIDE DEF new, old, k, n, e, E
<1>11. /\ \A key \in Key : \/ cache'[key] \in {cache[key], None}
                            \/ (key = n /\ cache'[key] = e)
       /\ cache' \in [Key -> E \union {None}]
  <2>1. CASE zoned
    BY <1>10, <2>1
  <2>2. CASE ~zoned
    BY <1>10, <2>2
  <2> QED BY <2>1, <2>2
<1>12. UNCHANGED <<now, rows, script>>
  BY DEF Refresh
<1>13. o \in Owners /\ old \in Row /\ new \in Row /\ secret \in Secret
  BY <1>1, <1>3, <1>6 DEF old, new
<1>14. Refreshes(c, l, zoned, o, old, new, secret)
  BY <1>1, <1>3, <1>6, <1>7, <1>11, <1>12 DEF Refreshes, new, old, n, e, E
<1> HIDE DEF o
<1> QED BY <1>13, <1>14

LEMMA CallStepType == CredentialTypeOK /\ CallStep => CredentialTypeOK'
<1> SUFFICES ASSUME CredentialTypeOK, NEW c \in Calls,
                    \/ \E ctx \in Contexts : \/ SendCached(c, ctx)
                                             \/ SendOpened(c, ctx)
                                             \/ StartRefresh(c, ctx)
                                             \/ SendNothing(c, ctx)
                    \/ \E v \in Values, l \in Renewals, zoned \in BOOLEAN :
                         Refresh(c, v, l, zoned)
                    \/ RefreshFails(c)
                    \/ Finish(c)
                    \/ RollBack(c)
             PROVE  CredentialTypeOK'
  BY DEF CallStep
<1>0. Idle \in Call
  BY DEF Idle, Call
<1>1. ASSUME NEW ctx \in Contexts, SendCached(c, ctx) PROVE CredentialTypeOK'
  <2> DEFINE o == find_credential(ctx)
  <2>1. o \in Owners /\ rows[o] \in Row /\ cache_key(rows[o]) \in Key
    BY <1>1, FoundRow, KeysOfRows DEF SendCached
  <2>2. cache[cache_key(rows[o])].secret \in Secret
    BY <1>1, <2>1 DEF SendCached, hit, CredentialTypeOK
  <2> QED BY <1>1, <2>1, <2>2, NewCall DEF SendCached, Send, CredentialTypeOK
<1>2. ASSUME NEW ctx \in Contexts, SendOpened(c, ctx) PROVE CredentialTypeOK'
  <2> DEFINE o == find_credential(ctx)
             secret == opened(rows[o].secret)
  <2>1. o \in Owners /\ rows[o] \in Row /\ cache_key(rows[o]) \in Key
    BY <1>2, FoundRow, KeysOfRows DEF SendOpened
  <2>2. secret \in Secret
    BY <2>1, OpenedSecrets DEF Row
  <2>3. entry(secret) \in [secret : Secret, expires_at : Nat]
    BY <2>2, Entries
  <2> HIDE DEF o, secret
  <2> QED BY <1>2, <2>1, <2>2, <2>3, NewCall DEF SendOpened, Send, CredentialTypeOK, o, secret
<1>3. ASSUME NEW ctx \in Contexts, StartRefresh(c, ctx) PROVE CredentialTypeOK'
  BY <1>3, FoundRow DEF StartRefresh, CredentialTypeOK, Call
<1>4. ASSUME NEW ctx \in Contexts, SendNothing(c, ctx) PROVE CredentialTypeOK'
  BY <1>4 DEF SendNothing, storeVars, CredentialTypeOK
<1>5. ASSUME NEW v \in Values, NEW l \in Renewals, NEW zoned \in BOOLEAN,
             Refresh(c, v, l, zoned)
      PROVE  CredentialTypeOK'
  <2>1. writes' = writes + 1 /\ writes < MaxWrites
    BY <1>5 DEF Refresh
  <2>2. PICK o \in Owners, old \in Row, new \in Row, secret \in Secret :
          Refreshes(c, l, zoned, o, old, new, secret)
    BY <1>5, RefreshParts
  <2> DEFINE call == [at |-> "waiting", ctx |-> calls[c].ctx, owner |-> o,
                      sent |-> secret, wrote |-> new]
  <2>3. call \in Call
    BY <2>2, NewCall DEF Refreshes
  <2>4. calls' = [calls EXCEPT ![c] = call]
    BY <2>2 DEF Refreshes
  <2> HIDE DEF call
  <2>5. calls' \in [Calls -> Call]
    BY <2>3, <2>4 DEF CredentialTypeOK
  <2> QED BY <2>1, <2>2, <2>5, NextWrite DEF CredentialTypeOK, Refreshes
<1>6. CASE RefreshFails(c) BY <1>0, <1>6 DEF RefreshFails, CredentialTypeOK
<1>7. CASE Finish(c) BY <1>0, <1>7, CallTypes DEF Finish, CredentialTypeOK
<1>8. CASE RollBack(c) BY <1>0, <1>8 DEF RollBack, CredentialTypeOK
<1> QED BY <1>1, <1>2, <1>3, <1>4, <1>5, <1>6, <1>7, <1>8

\* A script that has read, and one that has flushed.
LEMMA ScriptTypes ==
  ASSUME CredentialTypeOK, script # None
  PROVE  /\ script.owner \in Owners
         /\ script.at = "read" => script.read \in Row \union {None}
         /\ script.at = "flushed" => script.row \in Row \union {None}
BY DEF CredentialTypeOK, Script

StoredSecret(v, p) == [kind |-> p.kind, value |-> v, expires_at |-> after(p.lifetime)]

\* What store() reads and writes.
LEMMA StoreParts ==
  ASSUME CredentialTypeOK, NEW v \in Values, NEW p \in Payloads,
         NEW zoned \in BOOLEAN, NEW clears \in BOOLEAN, Store(v, p, zoned, clears)
  PROVE  LET o == script.owner
         IN /\ o \in Owners /\ ~RowLocked(o) /\ writes' = writes + 1 /\ writes < MaxWrites
            /\ UNCHANGED <<now, rows, calls>> /\ cache' \in {cache, EmptyCache}
            /\ \E new \in Row :
                 /\ script' = [at |-> "flushed", owner |-> o, row |-> new]
                 /\ new.updated_at = writes + 1
                 /\ \/ rows[o] = None
                    \/ /\ rows[o] \in Row /\ script.read \in Row
                       /\ new.type = column(p.type, script.read.type, rows[o].type)
                       /\ new.expires_at = time_column(after(p.row_lifetime),
                            script.read.expires_at, rows[o].expires_at, zoned)
                       /\ new.meant = [type |-> p.type, expires_at |-> after(p.row_lifetime),
                                       over |-> script.read.updated_at]
<1> DEFINE o == script.owner
           secret == StoredSecret(v, p)
           e == after(p.row_lifetime)
<1>1. /\ o \in Owners /\ ~RowLocked(o) /\ writes' = writes + 1 /\ writes < MaxWrites
      /\ UNCHANGED <<now, rows, calls>> /\ cache' \in {cache, EmptyCache}
  BY ScriptTypes DEF Store, Flush
<1>2. /\ e \in Nat \union {None} /\ p.type \in Types /\ secret \in Secret
      /\ writes + 1 \in 1..MaxWrites
  BY <1>1, AfterTypes, NextWrite, TimesAssumption DEF Secret, StoredSecret
<1>3. CASE script.read = None /\ rows[o] = None
  <2>1. script' = [at |-> "flushed", owner |-> o, row |-> Inserted(secret, p)]
    BY <1>3 DEF Store, Flush, Same, StoredSecret
  <2>2. Inserted(secret, p) \in Row /\ Inserted(secret, p).updated_at = writes + 1
    <3>1. [type |-> p.type, expires_at |-> e, over |-> 0] \in Meant
      BY <1>2, TimesAssumption DEF Meant
    <3> HIDE DEF secret, e
    <3> QED BY <1>2, <3>1 DEF Inserted, Row, e
  <2> QED BY <1>1, <1>3, <2>1, <2>2
<1>4. CASE Same(rows[o], script.read)
  <2> DEFINE row == rows[o]
             read == script.read
             t == column(p.type, read.type, row.type)
             x == time_column(e, read.expires_at, row.expires_at, zoned)
             m == [type |-> p.type, expires_at |-> e, over |-> read.updated_at]
             new == Updated(row, read, secret, p, zoned)
  <2>1. script' = [at |-> "flushed", owner |-> o, row |-> new]
    BY <1>4 DEF Store, Flush, Same, StoredSecret
  <2>2. row \in Row /\ read \in Row
    BY <1>1, <1>4, ScriptTypes DEF Same, Store, CredentialTypeOK
  <2>3. t \in Types /\ x \in Nat \union {None} /\ m \in Meant
    BY <1>2, <2>2 DEF Row, Meant, column, time_column
  <2>4. new = [row EXCEPT !.updated_at = writes + 1, !.secret = secret,
                          !.type = t, !.expires_at = x, !.meant = m]
    BY <2>2 DEF Updated, Row
  <2> HIDE DEF t, x, m, new, secret, row
  <2>5. /\ new \in Row /\ new.updated_at = writes + 1
        /\ new.type = t /\ new.expires_at = x /\ new.meant = m
    BY <1>2, <2>2, <2>3, <2>4 DEF Row
  <2> QED BY <1>1, <2>1, <2>2, <2>5 DEF t, x, m, row
<1> QED BY <1>1, <1>3, <1>4 DEF Store

\* What the steps leave alone.
LEMMA StepFrames ==
  ASSUME CredentialTypeOK
  PROVE  /\ CallStep => \/ UNCHANGED <<now, rows, script>>
                        \/ \E c \in Calls : Finish(c)
         /\ ScriptStep => \/ UNCHANGED <<now, rows, calls>>
                          \/ ScriptCommits
         /\ Restart => UNCHANGED <<now, rows, script>>
         /\ Tick => UNCHANGED <<rows, script, calls>>
<1>1. ASSUME NEW c \in Calls, NEW v \in Values, NEW l \in Renewals, NEW zoned \in BOOLEAN,
             Refresh(c, v, l, zoned)
      PROVE  UNCHANGED <<now, rows, script>>
  BY <1>1 DEF Refresh
<1>2. ASSUME NEW c \in Calls, NEW ctx \in Contexts,
             \/ SendCached(c, ctx) \/ SendOpened(c, ctx)
             \/ StartRefresh(c, ctx) \/ SendNothing(c, ctx)
      PROVE  UNCHANGED <<now, rows, script>>
  BY <1>2 DEF SendCached, SendOpened, StartRefresh, SendNothing, storeVars
<1>3. ASSUME NEW c \in Calls, RefreshFails(c) \/ RollBack(c)
      PROVE  UNCHANGED <<now, rows, script>>
  BY <1>3 DEF RefreshFails, RollBack
<1>4. ASSUME NEW v \in Values, NEW p \in Payloads, NEW zoned \in BOOLEAN,
             NEW clears \in BOOLEAN, Store(v, p, zoned, clears)
      PROVE  UNCHANGED <<now, rows, calls>>
  BY <1>4, StoreParts
<1>5. ASSUME NEW clears \in BOOLEAN, Delete(clears)
      PROVE  UNCHANGED <<now, rows, calls>>
  BY <1>5 DEF Delete, Flush
<1>6. ASSUME \/ \E o \in Owners : ScriptReads(o)
             \/ ScriptFails
      PROVE  UNCHANGED <<now, rows, calls>>
  BY <1>6 DEF ScriptReads, ScriptFails
<1>7. /\ Restart => UNCHANGED <<now, rows, script>>
      /\ Tick => UNCHANGED <<rows, script, calls>>
  BY DEF Restart, Tick
<1>8. CallStep => \/ UNCHANGED <<now, rows, script>>
                  \/ \E c \in Calls : Finish(c)
  <2> SUFFICES ASSUME CallStep PROVE \/ UNCHANGED <<now, rows, script>>
                                    \/ \E c \in Calls : Finish(c)
    OBVIOUS
  <2> QED BY <1>1, <1>2, <1>3 DEF CallStep
<1>9. ScriptStep => \/ UNCHANGED <<now, rows, calls>>
                    \/ ScriptCommits
  BY <1>4, <1>5, <1>6 DEF ScriptStep
<1> QED BY <1>7, <1>8, <1>9

LEMMA OtherStepType ==
  CredentialTypeOK /\ (ScriptStep \/ Restart \/ Tick) => CredentialTypeOK'
<1> SUFFICES ASSUME CredentialTypeOK, ScriptStep \/ Restart \/ Tick
             PROVE  CredentialTypeOK'
  OBVIOUS
<1>0. EmptyCache \in [Key -> [secret : Secret, expires_at : Nat] \union {None}]
  BY DEF EmptyCache
<1>1. ASSUME NEW v \in Values, NEW p \in Payloads,
             NEW zoned \in BOOLEAN, NEW clears \in BOOLEAN, Store(v, p, zoned, clears)
      PROVE  CredentialTypeOK'
  <2>1. PICK new \in Row : script' = [at |-> "flushed", owner |-> script.owner, row |-> new]
    BY <1>1, StoreParts
  <2>2. script' \in Script
    BY <1>1, <2>1, StoreParts DEF Script
  <2> QED BY <1>0, <1>1, <2>2, StoreParts, NextWrite DEF CredentialTypeOK
<1>2. ASSUME NEW clears \in BOOLEAN, Delete(clears)
      PROVE  CredentialTypeOK'
  BY <1>0, <1>2, ScriptTypes DEF Delete, Flush, CredentialTypeOK, Script
<1>7. ASSUME NEW o \in Owners, ScriptReads(o)
      PROVE  CredentialTypeOK'
  BY <1>7 DEF ScriptReads, CredentialTypeOK, Script
<1>3. CASE ScriptCommits
  BY <1>3, ScriptTypes DEF ScriptCommits, CredentialTypeOK
<1>4. CASE ScriptFails
  BY <1>4 DEF ScriptFails, CredentialTypeOK
<1>5. CASE Restart
  BY <1>5 DEF Restart, CredentialTypeOK, EmptyCache, Idle, Call
<1>6. CASE Tick
  BY <1>6, TimesAssumption DEF Tick, CredentialTypeOK
<1> QED BY <1>1, <1>2, <1>3, <1>4, <1>5, <1>6, <1>7 DEF ScriptStep

\* The rows, the cache and the handlers always have the shape of
\* CredentialTypeOK; an entry of the cache always has an expiry
\* (models/credential.py, token_cache.py).
THEOREM CredentialTypeCorrect == SpecStore => []CredentialTypeOK
<1>1. CredentialTypeOK /\ UNCHANGED storeVars => CredentialTypeOK'
  BY DEF CredentialTypeOK, storeVars
<1>2. CredentialTypeOK /\ [NextStore]_storeVars => CredentialTypeOK'
  BY <1>1, CallStepType, OtherStepType DEF NextStore
<1> QED BY InitStoreType, <1>2, PTL DEF SpecStore

----------------------------------------------------------------------------
\* What the cache knows.

\* A row some transaction has seen: committed, read, or flushed by a call or a
\* script.
Live(row) ==
  \/ \E o \in Owners : row = rows[o]
  \/ \E c \in Calls : \/ calls[c].at = "refreshing" /\ row = calls[c].row
                      \/ calls[c].at = "waiting" /\ row = calls[c].wrote
  \/ script # None /\ script.at = "read" /\ row = script.read
  \/ script # None /\ script.at = "flushed" /\ row = script.row

\* The entry holds the secret of the row, and no longer than it may.
Sound(e, row) ==
  /\ e.secret.value = row.secret.value
  /\ e.secret.expires_at # None => e.expires_at = e.secret.expires_at
  /\ /\ e.secret.expires_at = None /\ row.expires_at # None
     /\ row.expires_at = row.meant.expires_at
     => e.expires_at < row.expires_at + DefaultTTL

\* Whoever sees a row finds its own secret under its key: a time of writing is
\* never used twice, and keys of rows to come are empty.
CacheInv ==
  /\ \A key \in Key : cache[key] # None => key[2] <= writes
  /\ \A row \in Row : Live(row) => row.updated_at <= writes
  /\ \A r, s \in Row : Live(r) /\ Live(s) /\ r.updated_at = s.updated_at => r = s
  /\ \A row \in Row :
       Live(row) /\ cache[cache_key(row)] # None => Sound(cache[cache_key(row)], row)

LEMMA InitCacheInv == InitStore => CacheInv
BY RowsAssumption DEF InitStore, CacheInv, EmptyCache, Idle, Live, cache_key, Row, Key

\* A step that writes no row and opens none keeps CacheInv.
LEMMA NothingNew ==
  ASSUME CacheInv, CredentialTypeOK, CredentialTypeOK',
         writes' = writes,
         \A row \in Row : Live(row)' => Live(row),
         \A key \in Key : cache'[key] \in {cache[key], None}
  PROVE  CacheInv'
<1>1. \A row \in Row : cache_key(row)' = cache_key(row) /\ cache_key(row) \in Key
  BY KeysOfRows DEF cache_key
<1>2. \A e, row : Sound(e, row)' = Sound(e, row)
  BY DEF Sound
<1>3. \A key \in Key : cache'[key] # None => cache'[key] = cache[key]
  OBVIOUS
<1> QED BY <1>1, <1>2, <1>3 DEF CacheInv

\* A step that opens a live row, and puts what it finds under its key, keeps it.
LEMMA OpenedRow ==
  ASSUME CacheInv, CredentialTypeOK, CredentialTypeOK',
         writes' = writes,
         \A row \in Row : Live(row)' => Live(row),
         NEW new \in Row, Live(new),
         NEW e, Sound(e, new),
         cache' = [cache EXCEPT ![cache_key(new)] = e]
  PROVE  CacheInv'
<1>1. \A row \in Row : cache_key(row)' = cache_key(row) /\ cache_key(row) \in Key
  BY KeysOfRows DEF cache_key
<1>2. \A f, row : Sound(f, row)' = Sound(f, row)
  BY DEF Sound
<1>3. \A key \in Key : cache'[key] = IF key = cache_key(new) THEN e ELSE cache[key]
  BY DEF CredentialTypeOK
<1>4. cache_key(new)[2] <= writes
  BY DEF CacheInv, cache_key
<1>5. \A row \in Row : Live(row) /\ cache_key(row) = cache_key(new) => row = new
  BY DEF CacheInv, cache_key
<1>6. \A key \in Key : cache'[key] # None => key[2] <= writes'
  BY <1>3, <1>4 DEF CacheInv
<1>7. \A row \in Row : Live(row)' /\ cache'[cache_key(row)] # None =>
        Sound(cache'[cache_key(row)], row)
  BY <1>1, <1>3, <1>5 DEF CacheInv
<1> QED BY <1>1, <1>2, <1>6, <1>7 DEF CacheInv

\* So does one that writes a row and puts at most its own secret under its key.
LEMMA NewRow ==
  ASSUME CacheInv, CredentialTypeOK, CredentialTypeOK',
         writes' = writes + 1,
         NEW new \in Row, new.updated_at = writes + 1,
         \A row \in Row : Live(row)' => Live(row) \/ row = new,
         \A key \in Key : \/ cache'[key] \in {cache[key], None}
                          \/ key = cache_key(new) /\ Sound(cache'[key], new)
  PROVE  CacheInv'
<1>1. \A row \in Row : cache_key(row)' = cache_key(row) /\ cache_key(row) \in Key
  BY KeysOfRows DEF cache_key
<1>2. \A e, row : Sound(e, row)' = Sound(e, row)
  BY DEF Sound
<1>3. writes \in Nat /\ \A key \in Key : key[2] \in Nat
  BY TimesAssumption DEF CredentialTypeOK, Key
<1>4. \A row \in Row : row.updated_at \in Nat /\ cache_key(row)[2] = row.updated_at
  BY DEF Row, cache_key
<1>5. \A key \in Key : cache'[key] # None => key[2] <= writes'
  BY <1>3, <1>4 DEF CacheInv
<1>6. \A row \in Row : Live(row)' => row.updated_at <= writes'
  BY <1>3, <1>4 DEF CacheInv
<1>7. \A r, s \in Row : Live(r)' /\ Live(s)' /\ r.updated_at = s.updated_at => r = s
  BY <1>3, <1>4 DEF CacheInv
<1>8. ASSUME NEW row \in Row, Live(row)', cache'[cache_key(row)] # None
      PROVE  Sound(cache'[cache_key(row)], row)
  <2>1. CASE row = new
    <3>1. cache[cache_key(new)] = None
      BY <1>1, <1>3, <1>4 DEF CacheInv
    <3> QED BY <1>1, <1>8, <2>1, <3>1
  <2>2. CASE row # new
    <3>1. Live(row) /\ row.updated_at <= writes
      BY <1>8, <2>2 DEF CacheInv
    <3>2. cache_key(row) # cache_key(new)
      BY <1>3, <1>4, <3>1
    <3>3. cache'[cache_key(row)] = cache[cache_key(row)]
      BY <1>1, <1>8, <3>2
    <3> QED BY <1>8, <3>1, <3>3 DEF CacheInv
  <2> QED BY <2>1, <2>2
<1> QED BY <1>1, <1>2, <1>5, <1>6, <1>7, <1>8 DEF CacheInv

LEMMA OpenedIsSound ==
  ASSUME CredentialTypeOK, NEW row \in Row, ~expired(opened(row.secret), row)
  PROVE  Sound(entry(opened(row.secret)), row)
<1>1. now \in Nat /\ DefaultTTL \in Nat /\ row.expires_at \in Nat \union {None}
  BY TimesAssumption DEF CredentialTypeOK, Row
<1>2. opened(row.secret).value = row.secret.value
  BY DEF opened, Row, Secret
<1>3. /\ entry(opened(row.secret)).secret = opened(row.secret)
      /\ opened(row.secret).expires_at # None =>
           entry(opened(row.secret)).expires_at = opened(row.secret).expires_at
      /\ opened(row.secret).expires_at = None =>
           entry(opened(row.secret)).expires_at = now + DefaultTTL
  BY DEF entry
<1>4. opened(row.secret).expires_at = None /\ row.expires_at # None =>
        now < row.expires_at
  BY <1>1 DEF expired
<1> QED BY <1>1, <1>2, <1>3, <1>4 DEF Sound

LEMMA RefreshedIsSound ==
  ASSUME NEW secret \in Secret, NEW row \in Row,
         row.secret = secret, row.meant.expires_at = secret.expires_at
  PROVE  Sound(entry(secret), row)
BY DEF Sound, entry

\* A call that only changes its own record, and is not writing after, leaves no
\* new row, nor has it read one.
LEMMA NoRowOfCall ==
  ASSUME CredentialTypeOK, UNCHANGED <<rows, script>>,
         NEW c \in Calls, NEW call, calls' = [calls EXCEPT ![c] = call],
         call.at = "waiting" => call.wrote = None,
         call.at = "refreshing" => \E o \in Owners : call.row = rows[o]
  PROVE  \A row \in Row : Live(row)' => Live(row)
BY RowsAssumption DEF CredentialTypeOK, Live

LEMMA CallStepCache ==
  CacheInv /\ CredentialTypeOK /\ CredentialTypeOK' /\ CallStep => CacheInv'
<1> SUFFICES ASSUME CacheInv, CredentialTypeOK, CredentialTypeOK', NEW c \in Calls,
                    \/ \E ctx \in Contexts : \/ SendCached(c, ctx)
                                             \/ SendOpened(c, ctx)
                                             \/ StartRefresh(c, ctx)
                                             \/ SendNothing(c, ctx)
                    \/ \E v \in Values, l \in Renewals, zoned \in BOOLEAN :
                         Refresh(c, v, l, zoned)
                    \/ RefreshFails(c)
                    \/ Finish(c)
                    \/ RollBack(c)
             PROVE  CacheInv'
  BY DEF CallStep
<1>1. ASSUME NEW ctx \in Contexts, SendCached(c, ctx) PROVE CacheInv'
  <2>1. \A row \in Row : Live(row)' => Live(row)
    BY <1>1, NoRowOfCall DEF SendCached, Send
  <2> QED BY <1>1, <2>1, NothingNew DEF SendCached
<1>2. ASSUME NEW ctx \in Contexts, SendOpened(c, ctx) PROVE CacheInv'
  <2> DEFINE row == rows[find_credential(ctx)]
  <2>1. \A r \in Row : Live(r)' => Live(r)
    BY <1>2, NoRowOfCall DEF SendOpened, Send
  <2>2. row \in Row /\ Live(row)
    BY <1>2, FoundRow DEF SendOpened, Live
  <2>3. ~expired(opened(row.secret), row)
    BY <1>2 DEF SendOpened
  <2>4. Sound(entry(opened(row.secret)), row)
    BY <2>2, <2>3, OpenedIsSound
  <2>5. /\ writes' = writes
        /\ cache' = [cache EXCEPT ![cache_key(row)] = entry(opened(row.secret))]
    BY <1>2 DEF SendOpened
  <2> HIDE DEF row
  <2> QED BY <2>1, <2>2, <2>4, <2>5, OpenedRow
<1>3. ASSUME NEW ctx \in Contexts, StartRefresh(c, ctx) PROVE CacheInv'
  <2>1. \A row \in Row : Live(row)' => Live(row)
    BY <1>3, NoRowOfCall, FoundRow DEF StartRefresh
  <2> QED BY <1>3, <2>1, NothingNew DEF StartRefresh
<1>4. ASSUME NEW ctx \in Contexts, SendNothing(c, ctx) PROVE CacheInv'
  <2>1. \A row \in Row : Live(row)' => Live(row)
    BY <1>4 DEF SendNothing, storeVars, Live
  <2> QED BY <1>4, <2>1, NothingNew DEF SendNothing, storeVars
<1>5. ASSUME NEW v \in Values, NEW l \in Renewals, NEW zoned \in BOOLEAN,
             Refresh(c, v, l, zoned)
      PROVE  CacheInv'
  <2>1. PICK o \in Owners, old \in Row, new \in Row, secret \in Secret :
          Refreshes(c, l, zoned, o, old, new, secret)
    BY <1>5, RefreshParts
  <2>2. writes' = writes + 1
    BY <1>5 DEF Refresh
  <2>3. Sound(entry(secret), new)
    BY <2>1, RefreshedIsSound DEF Refreshes
  <2>4. \A r \in Row : Live(r)' => Live(r) \/ r = new
    BY <2>1 DEF Refreshes, Live, CredentialTypeOK
  <2>5. \A key \in Key : \/ cache'[key] \in {cache[key], None}
                         \/ key = cache_key(new) /\ Sound(cache'[key], new)
    BY <2>1, <2>3 DEF Refreshes
  <2> QED BY <2>1, <2>2, <2>4, <2>5, NewRow DEF Refreshes
<1>6. CASE RefreshFails(c) \/ RollBack(c)
  <2>1. \A row \in Row : Live(row)' => Live(row)
    BY <1>6, NoRowOfCall DEF RefreshFails, RollBack, Idle
  <2> QED BY <1>6, <2>1, NothingNew DEF RefreshFails, RollBack
<1>7. CASE Finish(c)
  <2>1. \A row \in Row : Live(row)' => Live(row)
    BY <1>7, CallTypes DEF Finish, Live, Idle, CredentialTypeOK
  <2> QED BY <1>7, <2>1, NothingNew DEF Finish
<1> QED BY <1>1, <1>2, <1>3, <1>4, <1>5, <1>6, <1>7

LEMMA OtherStepCache ==
  CacheInv /\ CredentialTypeOK /\ CredentialTypeOK' /\ (ScriptStep \/ Restart \/ Tick)
    => CacheInv'
<1> SUFFICES ASSUME CacheInv, CredentialTypeOK, CredentialTypeOK',
                    ScriptStep \/ Restart \/ Tick
             PROVE  CacheInv'
  OBVIOUS
<1>1. ASSUME NEW v \in Values, NEW p \in Payloads,
             NEW zoned \in BOOLEAN, NEW clears \in BOOLEAN, Store(v, p, zoned, clears)
      PROVE  CacheInv'
  <2>1. PICK new \in Row : /\ script' = [at |-> "flushed", owner |-> script.owner, row |-> new]
                           /\ new.updated_at = writes + 1
    BY <1>1, StoreParts
  <2>2. writes' = writes + 1 /\ UNCHANGED <<rows, calls>> /\ cache' \in {cache, EmptyCache}
    BY <1>1, StoreParts
  <2>3. \A key \in Key : cache'[key] \in {cache[key], None}
    BY <2>2 DEF EmptyCache
  <2>4. \A row \in Row : Live(row)' => Live(row) \/ row = new
    BY <2>1, <2>2 DEF Live
  <2> QED BY <2>1, <2>2, <2>3, <2>4, NewRow
<1>2. ASSUME NEW clears \in BOOLEAN, Delete(clears)
      PROVE  CacheInv'
  <2>1. \A row \in Row : Live(row)' => Live(row)
    BY <1>2, RowsAssumption DEF Delete, Flush, Live
  <2>2. \A key \in Key : cache'[key] \in {cache[key], None}
    BY <1>2 DEF Delete, Flush, EmptyCache
  <2> QED BY <1>2, <2>1, <2>2, NothingNew DEF Delete
<1>7. ASSUME NEW o \in Owners, ScriptReads(o)
      PROVE  CacheInv'
  <2>1. \A row \in Row : Live(row)' => Live(row)
    BY <1>7 DEF ScriptReads, Live
  <2> QED BY <1>7, <2>1, NothingNew DEF ScriptReads
<1>3. CASE ScriptCommits
  <2>1. \A row \in Row : Live(row)' => Live(row)
    BY <1>3, RowsAssumption DEF ScriptCommits, Live, CredentialTypeOK
  <2> QED BY <1>3, <2>1, NothingNew DEF ScriptCommits
<1>4. CASE ScriptFails
  <2>1. \A row \in Row : Live(row)' => Live(row)
    BY <1>4 DEF ScriptFails, Live
  <2> QED BY <1>4, <2>1, NothingNew DEF ScriptFails
<1>5. CASE Restart
  <2>1. \A row \in Row : Live(row)' => Live(row)
    BY <1>5 DEF Restart, Live, Idle
  <2> QED BY <1>5, <2>1, NothingNew DEF Restart, EmptyCache
<1>6. CASE Tick
  <2>1. \A row \in Row : Live(row)' => Live(row)
    BY <1>6 DEF Tick, Live
  <2> QED BY <1>6, <2>1, NothingNew DEF Tick
<1> QED BY <1>1, <1>2, <1>3, <1>4, <1>5, <1>6, <1>7 DEF ScriptStep

LEMMA CacheCorrect == SpecStore => []CacheInv
<1>1. CacheInv /\ CredentialTypeOK /\ CredentialTypeOK' /\ UNCHANGED storeVars
        => CacheInv'
  <2> SUFFICES ASSUME CacheInv, CredentialTypeOK, CredentialTypeOK',
                      UNCHANGED storeVars
               PROVE  CacheInv'
    OBVIOUS
  <2>1. \A row \in Row : Live(row)' => Live(row)
    BY DEF storeVars, Live
  <2> QED BY <2>1, NothingNew DEF storeVars
<1>2. CacheInv /\ CredentialTypeOK /\ CredentialTypeOK' /\ [NextStore]_storeVars
        => CacheInv'
  BY <1>1, CallStepCache, OtherStepCache DEF NextStore
<1> QED BY InitCacheInv, CredentialTypeCorrect, <1>2, PTL DEF SpecStore

----------------------------------------------------------------------------
\* What is sent.

\* Only resolve(), for a call that is idle, attaches a stored secret.
LEMMA AttachingSteps ==
  ASSUME CredentialTypeOK, NextStore, NEW c \in Calls, Attaches(c)
  PROVE  \E ctx \in Contexts : SendCached(c, ctx) \/ SendOpened(c, ctx)
<1> USE DEF Attaches
<1>1. calls'[c] # calls[c]
  OBVIOUS
<1>2. CallStep
  BY <1>1, StepFrames DEF NextStore, ScriptCommits, Restart, Idle
<1>3. PICK d \in Calls :
        \/ \E ctx \in Contexts : \/ SendCached(d, ctx)
                                 \/ SendOpened(d, ctx)
                                 \/ StartRefresh(d, ctx)
                                 \/ SendNothing(d, ctx)
        \/ \E v \in Values, l \in Renewals, zoned \in BOOLEAN : Refresh(d, v, l, zoned)
        \/ RefreshFails(d)
        \/ Finish(d)
        \/ RollBack(d)
  BY <1>2 DEF CallStep
<1>4. \E call : calls' = [calls EXCEPT ![d] = call]
  BY <1>1, <1>3 DEF SendCached, SendOpened, StartRefresh, SendNothing, Refresh, Send,
                    RefreshFails, Finish, RollBack, storeVars
<1>5. d = c
  BY <1>1, <1>4 DEF CredentialTypeOK
<1>6. ~\E v \in Values, l \in Renewals, zoned \in BOOLEAN : Refresh(c, v, l, zoned)
  BY DEF Refresh
<1>7. ~(RefreshFails(c) \/ Finish(c) \/ RollBack(c))
  BY DEF RefreshFails, Finish, RollBack
<1>8. ~\E ctx \in Contexts : StartRefresh(c, ctx)
  BY DEF StartRefresh, CredentialTypeOK
<1>9. ~\E ctx \in Contexts : SendNothing(c, ctx)
  BY <1>1 DEF SendNothing, storeVars
<1> QED BY <1>3, <1>5, <1>6, <1>7, <1>8, <1>9

\* The record of a call that has just been given a secret.
LEMMA AttachedSecret ==
  ASSUME CredentialTypeOK, NextStore, NEW c \in Calls, Attaches(c)
  PROVE  LET o == calls'[c].owner
             sent == calls'[c].sent
         IN /\ MostSpecific(o, calls'[c].ctx)
            /\ \/ /\ hit(cache_key(rows[o]))
                  /\ sent = cache[cache_key(rows[o])].secret
               \/ /\ sent = opened(rows[o].secret)
                  /\ ~expired(sent, rows[o])
<1>1. PICK ctx \in Contexts : SendCached(c, ctx) \/ SendOpened(c, ctx)
  BY AttachingSteps
<1> DEFINE o == find_credential(ctx)
           key == cache_key(rows[o])
<1>2. MostSpecific(o, ctx)
  BY <1>1, Found DEF SendCached, SendOpened
<1>3. CASE SendCached(c, ctx)
  <2>1. calls' = [calls EXCEPT ![c] =
          [at |-> "waiting", ctx |-> ctx, owner |-> o, sent |-> cache[key].secret,
           wrote |-> None]]
    BY <1>3 DEF SendCached, Send
  <2>2. hit(key)
    BY <1>3 DEF SendCached
  <2> HIDE DEF o, key
  <2>3. /\ calls'[c].ctx = ctx /\ calls'[c].owner = o
        /\ calls'[c].sent = cache[key].secret
    BY <2>1 DEF CredentialTypeOK
  <2> QED BY <1>2, <2>2, <2>3 DEF key
<1>4. CASE SendOpened(c, ctx)
  <2> DEFINE secret == opened(rows[o].secret)
  <2>1. calls' = [calls EXCEPT ![c] =
          [at |-> "waiting", ctx |-> ctx, owner |-> o, sent |-> secret,
           wrote |-> None]]
    BY <1>4 DEF SendOpened, Send
  <2>2. ~expired(secret, rows[o])
    BY <1>4 DEF SendOpened
  <2> HIDE DEF o, secret
  <2>3. calls'[c].ctx = ctx /\ calls'[c].owner = o /\ calls'[c].sent = secret
    BY <2>1 DEF CredentialTypeOK
  <2> QED BY <1>2, <2>2, <2>3 DEF secret
<1> QED BY <1>1, <1>3, <1>4

\* What a committed row's entry in the cache is good for.
LEMMA HitIsSound ==
  ASSUME CredentialTypeOK, CacheInv, NEW o, Has(o), hit(cache_key(rows[o]))
  PROVE  /\ cache[cache_key(rows[o])] \in [secret : Secret, expires_at : Nat]
         /\ Sound(cache[cache_key(rows[o])], rows[o])
<1>1. rows[o] \in Row /\ Live(rows[o]) /\ cache_key(rows[o]) \in Key
  BY KeysOfRows DEF CredentialTypeOK, Live, Has
<1> QED BY <1>1 DEF CredentialTypeOK, CacheInv, hit

\* Whatever the cache holds, whoever wrote the row and however many calls are
\* in progress, a call sends the committed secret of the most specific
\* credential it has (manager.py, _find_credential() and _materialise()).
THEOREM CurrentSecretTheorem == SpecStore => CurrentSecretOnly
<1>1. ASSUME CredentialTypeOK, CacheInv, NextStore, NEW c \in Calls, Attaches(c)
      PROVE  LET call == calls'[c]
             IN /\ MostSpecific(call.owner, call.ctx)
                /\ call.sent.value = rows[call.owner].secret.value
  <2> DEFINE o == calls'[c].owner
             key == cache_key(rows[o])
             sent == calls'[c].sent
  <2>1. /\ MostSpecific(o, calls'[c].ctx)
        /\ (hit(key) /\ sent = cache[key].secret) \/ sent = opened(rows[o].secret)
    BY <1>1, AttachedSecret
  <2>2. Has(o)
    BY <2>1 DEF MostSpecific
  <2>3. CASE hit(key) /\ sent = cache[key].secret
    BY <1>1, <2>1, <2>2, <2>3, HitIsSound DEF Sound
  <2>4. CASE sent = opened(rows[o].secret)
    <3>1. rows[o] \in Row
      BY <1>1, <2>2 DEF Has, CredentialTypeOK
    <3> QED BY <2>1, <2>4, <3>1 DEF opened, Row, Secret
  <2> QED BY <2>1, <2>3, <2>4
<1>2. CredentialTypeOK /\ CacheInv /\ [NextStore]_storeVars =>
        [ \A c \in Calls : Attaches(c) =>
            LET call == calls'[c]
            IN /\ MostSpecific(call.owner, call.ctx)
               /\ call.sent.value = rows[call.owner].secret.value ]_storeVars
  BY <1>1
<1> QED BY CredentialTypeCorrect, CacheCorrect, <1>2, PTL DEF SpecStore, CurrentSecretOnly

\* No secret is sent after the expiry it carries, nor later than the cache
\* may keep it after the expiry of its row (token_cache.py, get() and set();
\* manager.py, _is_expired()).
THEOREM ExpiryTheorem == SpecStore => ExpiryRespected
<1>1. ASSUME CredentialTypeOK, CacheInv, NextStore, NEW c \in Calls, Attaches(c)
      PROVE  LET sent == calls'[c].sent
                 row == rows[calls'[c].owner]
                 expires_at == row.expires_at
             IN /\ sent.expires_at # None => now < sent.expires_at
                /\ /\ sent.expires_at = None /\ expires_at # None
                   /\ expires_at = row.meant.expires_at
                   => now < expires_at \/ now + Leeway < expires_at + DefaultTTL
  <2> DEFINE o == calls'[c].owner
             key == cache_key(rows[o])
             sent == calls'[c].sent
  <2>1. /\ MostSpecific(o, calls'[c].ctx)
        /\ \/ hit(key) /\ sent = cache[key].secret
           \/ sent = opened(rows[o].secret) /\ ~expired(sent, rows[o])
    BY <1>1, AttachedSecret
  <2>2. Has(o) /\ rows[o] \in Row
    BY <1>1, <2>1 DEF MostSpecific, Has, CredentialTypeOK
  <2>3. now \in Nat /\ Leeway \in Nat /\ DefaultTTL \in Nat
    BY <1>1, TimesAssumption DEF CredentialTypeOK
  <2>4. rows[o].expires_at \in Nat \union {None}
    BY <2>2 DEF Row
  <2>5. CASE hit(key) /\ sent = cache[key].secret
    <3>1. /\ cache[key] \in [secret : Secret, expires_at : Nat]
          /\ Sound(cache[key], rows[o])
          /\ cache[key].expires_at > now + Leeway
      BY <1>1, <2>2, <2>5, HitIsSound DEF hit
    <3> HIDE DEF o, key, sent
    <3> QED BY <2>3, <2>4, <2>5, <3>1 DEF Sound, o, sent
  <2>6. CASE sent = opened(rows[o].secret) /\ ~expired(sent, rows[o])
    <3>1. sent.expires_at \in Nat \union {None}
      BY <2>2, <2>6 DEF opened, Row, Secret
    <3> HIDE DEF o, key, sent
    <3> QED BY <2>3, <2>4, <2>6, <3>1 DEF expired, o, sent
  <2> QED BY <2>1, <2>5, <2>6
<1>2. CredentialTypeOK /\ CacheInv /\ [NextStore]_storeVars =>
        [ \A c \in Calls : Attaches(c) =>
            LET sent == calls'[c].sent
                row == rows[calls'[c].owner]
                expires_at == row.expires_at
            IN /\ sent.expires_at # None => now < sent.expires_at
               /\ /\ sent.expires_at = None /\ expires_at # None
                  /\ expires_at = row.meant.expires_at
                  => now < expires_at \/ now + Leeway < expires_at + DefaultTTL
        ]_storeVars
  BY <1>1
<1> QED BY CredentialTypeCorrect, CacheCorrect, <1>2, PTL DEF SpecStore, ExpiryRespected

----------------------------------------------------------------------------
\* What a refresh writes.

\* Transactions that have flushed hold the locks of their rows: no two write
\* the same row, and the row a call has written is still the one it replaces.
LockInv ==
  /\ \A c \in Calls : Writing(c) =>
       LET o == calls[c].owner
       IN /\ rows[o] # None /\ rows[o].id = calls[c].wrote.id
          /\ script # None /\ script.at = "flushed" => script.owner # o
  /\ \A c, d \in Calls :
       c # d /\ Writing(c) /\ Writing(d) => calls[c].owner # calls[d].owner

LEMMA InitLockInv == InitStore => LockInv
BY DEF InitStore, LockInv, Writing, Idle

\* A step of one call that is not writing after it, and of no row.
LEMMA CallKeepsLocks ==
  ASSUME LockInv, CredentialTypeOK, UNCHANGED <<rows, script>>,
         NEW c \in Calls, NEW call, calls' = [calls EXCEPT ![c] = call],
         call.at = "waiting" => call.wrote = None
  PROVE  LockInv'
<1>1. /\ ~Writing(c)'
      /\ \A d \in Calls \ {c} : calls'[d] = calls[d] /\ Writing(d)' = Writing(d)
  BY DEF CredentialTypeOK, Writing
<1> QED BY <1>1 DEF LockInv

LEMMA CallStepLocks == LockInv /\ CredentialTypeOK /\ CallStep => LockInv'
<1> SUFFICES ASSUME LockInv, CredentialTypeOK, NEW c \in Calls,
                    \/ \E ctx \in Contexts : \/ SendCached(c, ctx)
                                             \/ SendOpened(c, ctx)
                                             \/ StartRefresh(c, ctx)
                                             \/ SendNothing(c, ctx)
                    \/ \E v \in Values, l \in Renewals, zoned \in BOOLEAN :
                         Refresh(c, v, l, zoned)
                    \/ RefreshFails(c)
                    \/ Finish(c)
                    \/ RollBack(c)
             PROVE  LockInv'
  BY DEF CallStep
<1>1. ASSUME NEW ctx \in Contexts, SendCached(c, ctx) PROVE LockInv'
  BY <1>1, CallKeepsLocks DEF SendCached, Send
<1>2. ASSUME NEW ctx \in Contexts, SendOpened(c, ctx) PROVE LockInv'
  BY <1>2, CallKeepsLocks DEF SendOpened, Send
<1>3. ASSUME NEW ctx \in Contexts, StartRefresh(c, ctx) PROVE LockInv'
  BY <1>3, CallKeepsLocks DEF StartRefresh
<1>4. ASSUME NEW ctx \in Contexts, SendNothing(c, ctx) PROVE LockInv'
  BY <1>4 DEF SendNothing, storeVars, LockInv, Writing
<1>5. ASSUME NEW v \in Values, NEW l \in Renewals, NEW zoned \in BOOLEAN,
             Refresh(c, v, l, zoned)
      PROVE  LockInv'
  <2>0. PICK o \in Owners, old \in Row, new \in Row, secret \in Secret :
          Refreshes(c, l, zoned, o, old, new, secret)
    BY <1>5, RefreshParts
  <2>1. /\ calls[c].owner \in Owners /\ rows[calls[c].owner] \in Row
        /\ new.id = rows[calls[c].owner].id
        /\ calls'[c].at = "waiting"
        /\ calls'[c].owner = calls[c].owner /\ calls'[c].wrote = new
        /\ \A d \in Calls \ {c} : calls'[d] = calls[d]
        /\ UNCHANGED <<rows, script>>
    BY <2>0 DEF Refreshes, CredentialTypeOK
  <2>2. ~RowLocked(calls[c].owner) /\ \A d \in Calls \ {c} : Writing(d)' = Writing(d)
    BY <1>5, <2>1 DEF Refresh, Refreshable, Writing
  <2>3. /\ script # None /\ script.at = "flushed" => script.owner # calls[c].owner
        /\ \A d \in Calls : Writing(d) => calls[d].owner # calls[c].owner
    BY <2>2 DEF RowLocked
  <2>4. rows[calls[c].owner] # None
    BY <2>1, RowsAssumption
  <2> QED BY <2>1, <2>2, <2>3, <2>4 DEF LockInv
<1>6. CASE RefreshFails(c) \/ RollBack(c)
  BY <1>6, CallKeepsLocks DEF RefreshFails, RollBack, Idle
<1>7. CASE Finish(c)
  <2>1. /\ calls[c].at = "waiting" /\ ~Writing(c)' /\ UNCHANGED script
        /\ \A d \in Calls \ {c} : calls'[d] = calls[d] /\ Writing(d)' = Writing(d)
    BY <1>7 DEF Finish, Writing, Idle, CredentialTypeOK
  <2>2. \A d \in Calls \ {c} : Writing(d) => rows'[calls[d].owner] = rows[calls[d].owner]
    BY <1>7, CallTypes DEF Finish, LockInv, Writing, CredentialTypeOK
  <2> QED BY <2>1, <2>2 DEF LockInv
<1> QED BY <1>1, <1>2, <1>3, <1>4, <1>5, <1>6, <1>7

LEMMA OtherStepLocks ==
  LockInv /\ CredentialTypeOK /\ (ScriptStep \/ Restart \/ Tick) => LockInv'
<1> SUFFICES ASSUME LockInv, CredentialTypeOK, ScriptStep \/ Restart \/ Tick
             PROVE  LockInv'
  OBVIOUS
<1>1. ASSUME NEW v \in Values, NEW p \in Payloads,
             NEW zoned \in BOOLEAN, NEW clears \in BOOLEAN, Store(v, p, zoned, clears)
      PROVE  LockInv'
  <2>1. script'.owner = script.owner /\ ~RowLocked(script.owner) /\ UNCHANGED <<rows, calls>>
    BY <1>1 DEF Store, Flush
  <2> QED BY <2>1 DEF LockInv, RowLocked, Writing
<1>2. ASSUME NEW clears \in BOOLEAN, Delete(clears)
      PROVE  LockInv'
  <2>1. script'.owner = script.owner /\ ~RowLocked(script.owner) /\ UNCHANGED <<rows, calls>>
    BY <1>2 DEF Delete, Flush
  <2> QED BY <2>1 DEF LockInv, RowLocked, Writing
<1>7. ASSUME NEW o \in Owners, ScriptReads(o)
      PROVE  LockInv'
  BY <1>7 DEF ScriptReads, LockInv, Writing
<1>3. CASE ScriptCommits
  <2>1. /\ UNCHANGED calls /\ script' = None
        /\ \A o \in Owners : o # script.owner => rows'[o] = rows[o]
    BY <1>3 DEF ScriptCommits, CredentialTypeOK
  <2>2. script # None /\ script.at = "flushed"
    BY <1>3 DEF ScriptCommits
  <2> QED BY <2>1, <2>2, CallTypes DEF LockInv, Writing
<1>4. CASE ScriptFails
  BY <1>4 DEF ScriptFails, LockInv, Writing
<1>5. CASE Restart
  BY <1>5 DEF Restart, LockInv, Writing, Idle
<1>6. CASE Tick
  BY <1>6 DEF Tick, LockInv, Writing
<1> QED BY <1>1, <1>2, <1>3, <1>4, <1>5, <1>6, <1>7 DEF ScriptStep

LEMMA LocksCorrect == SpecStore => []LockInv
<1>1. LockInv /\ UNCHANGED storeVars => LockInv'
  BY DEF LockInv, Writing, storeVars
<1>2. LockInv /\ CredentialTypeOK /\ [NextStore]_storeVars => LockInv'
  BY <1>1, CallStepLocks, OtherStepLocks DEF NextStore
<1> QED BY InitLockInv, CredentialTypeCorrect, <1>2, PTL DEF SpecStore

\* Only the answer of its provider takes a call from its refresh to its server.
LEMMA RefreshingSteps ==
  ASSUME CredentialTypeOK, NextStore, NEW c \in Calls,
         calls[c].at = "refreshing", calls'[c].at = "waiting"
  PROVE  \E v \in Values, l \in Renewals, zoned \in BOOLEAN : Refresh(c, v, l, zoned)
<1>1. CallStep
  BY StepFrames DEF NextStore, ScriptCommits, Restart, Idle
<1>2. PICK d \in Calls :
        \/ \E ctx \in Contexts : \/ SendCached(d, ctx)
                                 \/ SendOpened(d, ctx)
                                 \/ StartRefresh(d, ctx)
                                 \/ SendNothing(d, ctx)
        \/ \E v \in Values, l \in Renewals, zoned \in BOOLEAN : Refresh(d, v, l, zoned)
        \/ RefreshFails(d)
        \/ Finish(d)
        \/ RollBack(d)
  BY <1>1 DEF CallStep
<1>3. ASSUME NEW ctx \in Contexts,
             \/ SendCached(d, ctx) \/ SendOpened(d, ctx)
             \/ StartRefresh(d, ctx) \/ SendNothing(d, ctx)
      PROVE  FALSE
  BY <1>3 DEF SendCached, SendOpened, StartRefresh, SendNothing, Idle, LoopFree, storeVars
<1>4. ~RefreshFails(d) /\ ~Finish(d) /\ ~RollBack(d)
  BY DEF RefreshFails, Finish, RollBack, Idle, LoopFree, CredentialTypeOK
<1>5. PICK v \in Values, l \in Renewals, zoned \in BOOLEAN : Refresh(d, v, l, zoned)
  BY <1>2, <1>3, <1>4
<1>6. d = c
  BY <1>5 DEF Refresh, Send, CredentialTypeOK
<1> QED BY <1>5, <1>6

\* A refresh replaces the row it read or none: it brings no deleted credential
\* back and touches no credential stored in its place (manager.py, _persist()).
THEOREM DeletionTheorem == SpecStore => DeletedStaysDeleted
<1>1. ASSUME CredentialTypeOK, LockInv, NextStore, script' = script,
             NEW o \in Owners, rows'[o] # rows[o]
      PROVE  rows[o] # None /\ rows'[o] # None /\ rows'[o].id = rows[o].id
  <2>1. ~ScriptStep /\ ~Restart /\ ~Tick
    BY <1>1, RowsAssumption
       DEF ScriptStep, ScriptReads, Store, Delete, Flush, ScriptCommits,
           ScriptFails, Restart, Tick
  <2>2. PICK c \in Calls : Finish(c)
    BY <1>1, <2>1, StepFrames DEF NextStore
  <2>3. /\ Writing(c) /\ calls[c].owner = o /\ rows'[o] = calls[c].wrote
    BY <1>1, <2>2 DEF Finish, Writing, CredentialTypeOK
  <2> QED BY <1>1, <2>3 DEF LockInv, Writing
<1>2. ASSUME CredentialTypeOK, NextStore, NEW c \in Calls,
             calls[c].at = "refreshing", calls'[c].at = "waiting"
      PROVE  calls'[c].wrote.id = calls[c].row.id
  <2>1. PICK v \in Values, l \in Renewals, zoned \in BOOLEAN : Refresh(c, v, l, zoned)
    BY <1>2, RefreshingSteps
  <2>2. PICK o \in Owners, old \in Row, new \in Row, secret \in Secret :
          Refreshes(c, l, zoned, o, old, new, secret)
    BY <1>2, <2>1, RefreshParts
  <2> QED BY <1>2, <2>2 DEF Refreshes, CredentialTypeOK
<1>3. CredentialTypeOK /\ LockInv /\ [NextStore]_storeVars =>
        [ /\ \A c \in Calls : calls[c].at = "refreshing" /\ calls'[c].at = "waiting" =>
               calls'[c].wrote.id = calls[c].row.id
          /\ script' = script =>
               \A o \in Owners : rows'[o] # rows[o] =>
                 rows[o] # None /\ rows'[o] # None /\ rows'[o].id = rows[o].id
        ]_storeVars
  BY <1>1, <1>2
<1> QED BY CredentialTypeCorrect, LocksCorrect, <1>3, PTL DEF SpecStore, DeletedStaysDeleted

----------------------------------------------------------------------------
\* The order of the writes of a row.

\* A write that is not committed yet is later than the row it will replace, and
\* leaves it whole if that is the row it has read.
Follows(new, old) ==
  /\ old.updated_at < new.updated_at
  /\ new.meant.over = old.updated_at => Whole(new)

OrderInv ==
  /\ \A c \in Calls : Writing(c) => Follows(calls[c].wrote, rows[calls[c].owner])
  /\ /\ script # None /\ script.at = "flushed"
     /\ script.row # None /\ rows[script.owner] # None
     => Follows(script.row, rows[script.owner])

LEMMA InitOrderInv == InitStore => OrderInv
BY DEF InitStore, OrderInv, Writing, Idle

\* A step that leaves the rows and the script alone, and what a call that is
\* writing has written.
LEMMA CallKeepsOrder ==
  ASSUME OrderInv, UNCHANGED <<rows, script>>,
         \A c \in Calls : Writing(c)' => calls'[c] = calls[c]
  PROVE  OrderInv'
BY DEF OrderInv, Writing

LEMMA WrittenBefore ==
  ASSUME CacheInv, CredentialTypeOK, NEW o \in Owners, rows[o] \in Row
  PROVE  rows[o].updated_at < writes + 1
<1>1. rows[o].updated_at <= writes
  BY DEF CacheInv, Live
<1> QED BY <1>1 DEF Row, CredentialTypeOK

\* The commit of a write of one row leaves the other rows alone.
LEMMA CallStepOrder ==
  ASSUME OrderInv, LockInv, CacheInv, CredentialTypeOK, CallStep
  PROVE  OrderInv'
<1> SUFFICES ASSUME NEW c \in Calls,
                    \/ \E ctx \in Contexts : \/ SendCached(c, ctx)
                                             \/ SendOpened(c, ctx)
                                             \/ StartRefresh(c, ctx)
                                             \/ SendNothing(c, ctx)
                    \/ \E v \in Values, l \in Renewals, zoned \in BOOLEAN :
                         Refresh(c, v, l, zoned)
                    \/ RefreshFails(c)
                    \/ Finish(c)
                    \/ RollBack(c)
             PROVE  OrderInv'
  BY DEF CallStep
<1>1. CASE \E ctx \in Contexts : SendCached(c, ctx) \/ SendOpened(c, ctx)
  BY <1>1, CallKeepsOrder DEF SendCached, SendOpened, Send, Writing, CredentialTypeOK
<1>2. CASE \E ctx \in Contexts : StartRefresh(c, ctx)
  BY <1>2, CallKeepsOrder DEF StartRefresh, Writing, CredentialTypeOK
<1>3. CASE \E ctx \in Contexts : SendNothing(c, ctx)
  BY <1>3 DEF SendNothing, storeVars, OrderInv, Writing
<1>4. ASSUME NEW v \in Values, NEW l \in Renewals, NEW zoned \in BOOLEAN,
             Refresh(c, v, l, zoned)
      PROVE  OrderInv'
  <2>0. PICK o \in Owners, old \in Row, new \in Row, secret \in Secret :
          Refreshes(c, l, zoned, o, old, new, secret)
    BY <1>4, RefreshParts
  <2>1. /\ o = calls[c].owner /\ old = calls[c].row /\ rows[o] \in Row
        /\ new.updated_at = writes + 1 /\ new.type = rows[o].type
        /\ new.expires_at = time_column(after(l), old.expires_at, rows[o].expires_at, zoned)
        /\ new.meant.type = old.type /\ new.meant.expires_at = after(l)
        /\ new.meant.over = old.updated_at
        /\ calls'[c].owner = o /\ calls'[c].wrote = new
        /\ \A d \in Calls \ {c} : calls'[d] = calls[d]
        /\ UNCHANGED <<rows, script>>
    BY <2>0 DEF Refreshes, CredentialTypeOK
  <2>2. calls[c].at = "refreshing" /\ \A d \in Calls \ {c} : Writing(d)' = Writing(d)
    BY <1>4, <2>1 DEF Refresh, Writing
  <2>3. rows[o].updated_at < writes + 1
    BY <2>1, WrittenBefore
  <2>4. old.updated_at = rows[o].updated_at => old = rows[o]
    BY <2>1, <2>2 DEF CacheInv, Live
  <2>5. Follows(new, rows[o])
    BY <2>1, <2>3, <2>4 DEF Follows, Whole, column, time_column
  <2> QED BY <2>1, <2>2, <2>5 DEF OrderInv
<1>5. CASE RefreshFails(c) \/ RollBack(c)
  BY <1>5, CallKeepsOrder DEF RefreshFails, RollBack, Idle, Writing, CredentialTypeOK
<1>6. CASE Finish(c)
  <2>1. /\ calls[c].at = "waiting" /\ ~Writing(c)' /\ UNCHANGED script
        /\ \A d \in Calls \ {c} : calls'[d] = calls[d] /\ Writing(d)' = Writing(d)
    BY <1>6 DEF Finish, Writing, Idle, CredentialTypeOK
  <2>2. \A d \in Calls \ {c} : Writing(d) => rows'[calls[d].owner] = rows[calls[d].owner]
    BY <1>6, CallTypes DEF Finish, LockInv, Writing, CredentialTypeOK
  <2>3. script # None /\ script.at = "flushed" => rows'[script.owner] = rows[script.owner]
    BY <1>6 DEF Finish, LockInv, Writing, CredentialTypeOK
  <2> QED BY <2>1, <2>2, <2>3 DEF OrderInv
<1> QED BY <1>1, <1>2, <1>3, <1>4, <1>5, <1>6

LEMMA OtherStepOrder ==
  ASSUME OrderInv, LockInv, CacheInv, CredentialTypeOK, ScriptStep \/ Restart \/ Tick
  PROVE  OrderInv'
<1>1. ASSUME NEW v \in Values, NEW p \in Payloads,
             NEW zoned \in BOOLEAN, NEW clears \in BOOLEAN, Store(v, p, zoned, clears)
      PROVE  OrderInv'
  <2> DEFINE o == script.owner
  <2>1. PICK new \in Row :
          /\ script' = [at |-> "flushed", owner |-> o, row |-> new]
          /\ new.updated_at = writes + 1
          /\ \/ rows[o] = None
             \/ /\ rows[o] \in Row /\ script.read \in Row
                /\ new.type = column(p.type, script.read.type, rows[o].type)
                /\ new.expires_at = time_column(after(p.row_lifetime),
                     script.read.expires_at, rows[o].expires_at, zoned)
                /\ new.meant = [type |-> p.type, expires_at |-> after(p.row_lifetime),
                                over |-> script.read.updated_at]
    BY <1>1, StoreParts
  <2>2. /\ o \in Owners /\ UNCHANGED <<rows, calls>>
        /\ script # None /\ script.at = "read"
    BY <1>1, StoreParts DEF Store
  <2>3. rows[o] # None => Follows(new, rows[o])
    <3> SUFFICES ASSUME rows[o] # None PROVE Follows(new, rows[o])
      OBVIOUS
    <3>1. rows[o].updated_at < writes + 1
      BY <2>1, <2>2, WrittenBefore
    <3>2. script.read.updated_at = rows[o].updated_at => script.read = rows[o]
      BY <2>1, <2>2 DEF CacheInv, Live
    <3> QED BY <2>1, <3>1, <3>2 DEF Follows, Whole, column, time_column
  <2> QED BY <2>1, <2>2, <2>3 DEF OrderInv, Writing
<1>2. ASSUME NEW clears \in BOOLEAN, Delete(clears)
      PROVE  OrderInv'
  BY <1>2 DEF Delete, Flush, OrderInv, Writing
<1>7. ASSUME NEW o \in Owners, ScriptReads(o)
      PROVE  OrderInv'
  BY <1>7 DEF ScriptReads, OrderInv, Writing
<1>3. CASE ScriptCommits
  <2>1. /\ UNCHANGED calls /\ script' = None /\ script # None /\ script.at = "flushed"
        /\ \A o \in Owners : o # script.owner => rows'[o] = rows[o]
    BY <1>3 DEF ScriptCommits, CredentialTypeOK
  <2> QED BY <2>1, CallTypes DEF OrderInv, LockInv, Writing
<1>4. CASE ScriptFails
  BY <1>4 DEF ScriptFails, OrderInv, Writing
<1>5. CASE Restart
  BY <1>5 DEF Restart, OrderInv, Writing, Idle
<1>6. CASE Tick
  BY <1>6 DEF Tick, OrderInv, Writing
<1> QED BY <1>1, <1>2, <1>3, <1>4, <1>5, <1>6, <1>7 DEF ScriptStep

LEMMA OrderCorrect == SpecStore => []OrderInv
<1>1. OrderInv /\ UNCHANGED storeVars => OrderInv'
  BY DEF OrderInv, Writing, storeVars
<1>2. OrderInv /\ LockInv /\ CacheInv /\ CredentialTypeOK /\ [NextStore]_storeVars => OrderInv'
  BY <1>1, CallStepOrder, OtherStepOrder DEF NextStore
<1> QED
  BY InitOrderInv, CredentialTypeCorrect, CacheCorrect, LocksCorrect, <1>2, PTL
  DEF SpecStore

\* Writes of a row are committed in the order in which they were made, and
\* whole unless they overlapped: neither a refresh nor a script undoes a later
\* write (manager.py, _persist() and store()).
THEOREM UpdateTheorem == SpecStore => NoLostUpdate
<1>1. ASSUME CredentialTypeOK, OrderInv, [NextStore]_storeVars,
             NEW o \in Owners, rows[o] # None, rows'[o] # None, rows'[o] # rows[o]
      PROVE  Follows(rows'[o], rows[o])
  <2>1. ASSUME NEW c \in Calls, Finish(c)
        PROVE  Follows(rows'[o], rows[o])
    <3>1. Writing(c) /\ calls[c].owner = o /\ rows'[o] = calls[c].wrote
      BY <1>1, <2>1 DEF Finish, Writing, CredentialTypeOK
    <3> QED BY <1>1, <3>1 DEF OrderInv
  <2>2. CASE ScriptCommits
    <3>1. script # None /\ script.at = "flushed" /\ script.owner = o /\ rows'[o] = script.row
      BY <1>1, <2>2 DEF ScriptCommits, CredentialTypeOK
    <3> QED BY <1>1, <3>1 DEF OrderInv
  <2>3. \/ rows' = rows \/ ScriptCommits
        \/ \E c \in Calls : Finish(c)
    BY <1>1, StepFrames DEF NextStore, storeVars
  <2> QED BY <1>1, <2>1, <2>2, <2>3
<1>2. CredentialTypeOK /\ OrderInv /\ [NextStore]_storeVars =>
        [ \A o \in Owners :
            rows[o] # None /\ rows'[o] # None /\ rows'[o] # rows[o] =>
              /\ rows[o].updated_at < rows'[o].updated_at
              /\ rows'[o].meant.over = rows[o].updated_at => Whole(rows'[o])
        ]_storeVars
  BY <1>1 DEF Follows
<1> QED
  BY CredentialTypeCorrect, OrderCorrect, <1>2, PTL DEF SpecStore, NoLostUpdate

=============================================================================
