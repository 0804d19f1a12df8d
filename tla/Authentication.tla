--------------------------- MODULE Authentication ---------------------------
(***************************************************************************)
(* Sessions, delegations, API keys and the tokens issued against them      *)
(* (agentid/identity/, agentid/gateway/api/auth.py and identity.py,        *)
(* agentid/gateway/middleware/auth.py).                                    *)
(*                                                                         *)
(* Requests run concurrently, each in a database session of its own.  A    *)
(* handler whose effect is one row, read and written in one transaction,   *)
(* is one step.  A token exchange is three: it verifies the subject token  *)
(* and its session, then reads the agent and the grant and inserts the     *)
(* delegation, then commits; a revocation of everything a user has is two: *)
(* it selects the rows, then commits.  Other requests' steps come in       *)
(* between, and see what is written only after the commit.                 *)
(***************************************************************************)
EXTENDS Naturals, FiniteSets

CONSTANTS
  Users, Agents, ServiceAccounts,
  Autonomous,      \* the agents of kind AUTONOMOUS
  SessionIds, DelegationIds, ApiKeyIds,   \* identifiers, each used once
  Workers,         \* token exchanges that can be in progress at a time
  Revokers,        \* revocations of many rows that can be in progress
  AccessTTL, DelegatedTTL, SessionTTL,
  KeyTTLs,         \* the lifetimes an administrator gives a key, or None
  MaxTime,         \* bound on the clock
  None, Purged

ASSUME LifetimesAssumption ==
  /\ {AccessTTL, DelegatedTTL, SessionTTL} \subseteq Nat \ {0}
  /\ KeyTTLs \subseteq (Nat \ {0}) \union {None}
  /\ MaxTime \in Nat

ASSUME IdentifiersAssumption ==
  /\ Autonomous \subseteq Agents
  /\ None \notin Users \union Agents \union ServiceAccounts
  /\ None \notin SessionIds \union DelegationIds \union Nat
  /\ Purged # None

VARIABLES
  now,          \* the clock, in a unit the lifetimes are multiples of
  active,       \* users and agents whose is_active flag is set
  grants,       \* <<user, agent>>: unrevoked UserAgentGrant rows
  sessions,     \* SessionIds -> row, None before it exists, Purged after
  delegations,  \* DelegationIds -> row, or None
  api_keys,     \* ApiKeyIds -> row, or None
  tokens,       \* every signed token a client has been handed
  exchanges,    \* Workers -> the state of its token exchange
  revocations   \* Revokers -> the state of its revocation

vars == <<now, active, grants, sessions, delegations, api_keys, tokens, exchanges,
          revocations>>

Session == [subject : Users, expires : Nat, revoked : BOOLEAN]

\* "signed": the row has the jti of its token.  A row is inserted with an empty
\* jti first.
Delegation == [user : Users, agent : Agents, session : SessionIds \union {None},
               expires : Nat, revoked : BOOLEAN, signed : BOOLEAN]

Owners == Agents \union ServiceAccounts

ApiKey == [owner : Owners, expires : Nat \union {None}, revoked : BOOLEAN]

ASSUME RowsAssumption ==
  /\ {None, Purged} \intersect Session = {}
  /\ None \notin Delegation \union ApiKey

\* The claims sub, act.sub, sid, did and exp of a token.  "login" and "chain"
\* are history: the session of the password login the token descends from,
\* and the delegations of the exchanges in between.  No action reads them.
Token == [sub : Users, act : Agents \union {None},
          sid : SessionIds \union {None}, did : DelegationIds \union {None},
          exp : Nat, login : SessionIds, chain : SUBSET DelegationIds]

Exchange ==
  [at : {"idle"}]
    \union [at : {"verified"}, subject : Token]
    \union [at : {"flushed"}, did : DelegationIds, row : Delegation, token : Token]

\* "rows" are those selected.  "held" is history: the tokens of agents acting
\* for the user that clients held at that moment.
Revocation ==
  [at : {"idle"}]
    \union [at : {"sessions"}, rows : SUBSET SessionIds]
    \union [at : {"delegations"}, rows : SUBSET DelegationIds, held : SUBSET Token]

Idle == [at |-> "idle"]

----------------------------------------------------------------------------
\* What authenticate() accepts.

ActiveSession(s) ==
  /\ sessions[s] \notin {None, Purged}
  /\ ~sessions[s].revoked
  /\ now < sessions[s].expires

ActiveDelegation(d) ==
  /\ delegations[d] # None
  /\ ~delegations[d].revoked
  /\ now < delegations[d].expires

\* TokenService.verify(), and the session check every use of a token makes.
Verified(t) ==
  /\ now < t.exp
  /\ t.sid # None => ActiveSession(t.sid)

Authenticates_NoDelegationCheck(t) ==
  /\ Verified(t)
  /\ t.sub \in active
  /\ t.act # None => t.act \in active \ Autonomous

\* _from_claims() and _delegated_context() for a token whose subject is a user.
Authenticates(t) ==
  /\ Verified(t)
  /\ t.sub \in active
  /\ t.act # None =>
       /\ t.act \in active \ Autonomous
       /\ t.did # None => ActiveDelegation(t.did)

\* verify_api_key() and _from_api_key(): the activity of an agent is checked,
\* that of a service account is not.
KeyAuthenticates(k) ==
  /\ api_keys[k] # None
  /\ ~api_keys[k].revoked
  /\ api_keys[k].expires # None => now < api_keys[k].expires
  /\ api_keys[k].owner \in Agents => api_keys[k].owner \in active

----------------------------------------------------------------------------
\* POST /auth/login: a session and an access token that carries its id.

AccessToken(u, s) ==
  [sub |-> u, act |-> None, sid |-> s, did |-> None, exp |-> now + AccessTTL,
   login |-> s, chain |-> {}]

Login(u, s) ==
  /\ u \in active
  /\ sessions[s] = None
  /\ sessions' = [sessions EXCEPT ![s] =
       [subject |-> u, expires |-> now + SessionTTL, revoked |-> FALSE]]
  /\ tokens' = tokens \union {AccessToken(u, s)}
  /\ UNCHANGED <<now, active, grants, delegations, api_keys, exchanges, revocations>>

Revoked(row) == [row EXCEPT !.revoked = TRUE]

\* POST /auth/logout, authenticated by any token of the session.
Logout(t) ==
  /\ Authenticates(t)
  /\ t.sid # None
  /\ sessions' = [sessions EXCEPT ![t.sid] = Revoked(@)]
  /\ UNCHANGED <<now, active, grants, delegations, api_keys, tokens, exchanges, revocations>>

\* revoke_sessions_for(): selects the sessions of the subject not yet revoked
\* and updates those.  One that finds none changes nothing.
RevokeSessionsRead(r, u) ==
  LET rows == {s \in SessionIds : /\ sessions[s] \notin {None, Purged}
                                  /\ sessions[s].subject = u
                                  /\ ~sessions[s].revoked}
  IN  /\ revocations[r].at = "idle"
      /\ rows # {}
      /\ revocations' = [revocations EXCEPT ![r] = [at |-> "sessions", rows |-> rows]]
      /\ UNCHANGED <<now, active, grants, sessions, delegations, api_keys, tokens, exchanges>>

\* The update of a row that has been deleted meanwhile fails the whole call.
RevokeSessionsCommit(r) ==
  /\ revocations[r].at = "sessions"
  /\ \A s \in revocations[r].rows : sessions[s] \notin {None, Purged}
  /\ sessions' = [s \in SessionIds |->
       IF s \in revocations[r].rows THEN Revoked(sessions[s]) ELSE sessions[s]]
  /\ revocations' = [revocations EXCEPT ![r] = Idle]
  /\ UNCHANGED <<now, active, grants, delegations, api_keys, tokens, exchanges>>

Expired == {s \in SessionIds : sessions[s] \notin {None, Purged}
                               /\ sessions[s].expires < now}

PurgeExpired_NoForeignKey ==
  /\ Expired # {}
  /\ sessions' = [s \in SessionIds |-> IF s \in Expired THEN Purged ELSE sessions[s]]
  /\ UNCHANGED <<now, active, grants, delegations, api_keys, tokens, exchanges, revocations>>

\* purge_expired(): a delegation row refers to its session, and the foreign
\* key makes the whole deletion fail while one does, committed or not.
PurgeExpired ==
  /\ Expired # {}
  /\ \A d \in DelegationIds : delegations[d] # None => delegations[d].session \notin Expired
  /\ \A w \in Workers :
       exchanges[w].at = "flushed" => exchanges[w].row.session \notin Expired
  /\ sessions' = [s \in SessionIds |-> IF s \in Expired THEN Purged ELSE sessions[s]]
  /\ UNCHANGED <<now, active, grants, delegations, api_keys, tokens, exchanges, revocations>>

----------------------------------------------------------------------------
\* Grants, delegation records and API keys.

GrantAgent_RestoresDelegations(u, a) ==
  /\ grants' = grants \union {<<u, a>>}
  /\ delegations' = [d \in DelegationIds |->
       IF delegations[d] # None /\ delegations[d].user = u /\ delegations[d].agent = a
       THEN [delegations[d] EXCEPT !.revoked = FALSE] ELSE delegations[d]]
  /\ UNCHANGED <<now, active, sessions, api_keys, tokens, exchanges, revocations>>

\* grant_agent_to_user() and revoke_agent_from_user().  The delegations made
\* under the grant are not touched.
GrantAgent(u, a) ==
  /\ grants' = grants \union {<<u, a>>}
  /\ UNCHANGED <<now, active, sessions, delegations, api_keys, tokens, exchanges, revocations>>

RevokeAgent(u, a) ==
  /\ grants' = grants \ {<<u, a>>}
  /\ UNCHANGED <<now, active, sessions, delegations, api_keys, tokens, exchanges, revocations>>

RevokeDelegation(d) ==
  /\ delegations[d] # None
  /\ delegations' = [delegations EXCEPT ![d] = Revoked(@)]
  /\ UNCHANGED <<now, active, grants, sessions, api_keys, tokens, exchanges, revocations>>

\* revoke_delegations_for_user(): selects the committed delegations of the user
\* not yet revoked, and updates those at its caller's commit.  A delegation an
\* exchange commits meanwhile is not among them.
RevokeDelegationsRead(r, u) ==
  LET rows == {d \in DelegationIds : /\ delegations[d] # None
                                     /\ delegations[d].user = u
                                     /\ ~delegations[d].revoked}
  IN  /\ revocations[r].at = "idle"
      /\ rows # {}
      /\ revocations' = [revocations EXCEPT ![r] =
           [at |-> "delegations", rows |-> rows,
            held |-> {t \in tokens : t.sub = u /\ t.act # None}]]
      /\ UNCHANGED <<now, active, grants, sessions, delegations, api_keys, tokens, exchanges>>

RevokeDelegationsCommit(r) ==
  /\ revocations[r].at = "delegations"
  /\ \A d \in revocations[r].rows : delegations[d] # None
  /\ delegations' = [d \in DelegationIds |->
       IF d \in revocations[r].rows THEN Revoked(delegations[d]) ELSE delegations[d]]
  /\ revocations' = [revocations EXCEPT ![r] = Idle]
  /\ UNCHANGED <<now, active, grants, sessions, api_keys, tokens, exchanges>>

\* A failure or a crash before the commit.
RevokeFail(r) ==
  /\ revocations[r].at # "idle"
  /\ revocations' = [revocations EXCEPT ![r] = Idle]
  /\ UNCHANGED <<now, active, grants, sessions, delegations, api_keys, tokens, exchanges>>

IssueApiKey(k, owner, ttl) ==
  /\ api_keys[k] = None
  /\ api_keys' = [api_keys EXCEPT ![k] =
       [owner   |-> owner, revoked |-> FALSE,
        expires |-> IF ttl = None THEN None ELSE now + ttl]]
  /\ UNCHANGED <<now, active, grants, sessions, delegations, tokens, exchanges, revocations>>

RevokeApiKey(k) ==
  /\ api_keys[k] # None
  /\ api_keys' = [api_keys EXCEPT ![k] = Revoked(@)]
  /\ UNCHANGED <<now, active, grants, sessions, delegations, tokens, exchanges, revocations>>

----------------------------------------------------------------------------
\* POST /auth/token: a user's token and an agent for a delegated token.

\* token_exchange() up to the call of exchange_for_delegation(): the signature,
\* the expiry and the session of the subject token, nothing of what
\* authenticate() checks besides.  A delegated token is a user's token too.
ExchangeVerify(w, t) ==
  /\ exchanges[w].at = "idle"
  /\ Verified(t)
  /\ exchanges' = [exchanges EXCEPT ![w] = [at |-> "verified", subject |-> t]]
  /\ UNCHANGED <<now, active, grants, sessions, delegations, api_keys, tokens, revocations>>

DelegatedToken_NoSession(t, a, d) ==
  [sub |-> t.sub, act |-> a, sid |-> None, did |-> d, exp |-> now + DelegatedTTL,
   login |-> t.login, chain |-> t.chain \union {d}]

DelegatedToken_Swapped(t, a, d) ==
  [sub |-> a, act |-> t.sub, sid |-> t.sid, did |-> d, exp |-> now + DelegatedTTL,
   login |-> t.login, chain |-> t.chain \union {d}]

DelegatedToken(t, a, d) ==
  [sub |-> t.sub, act |-> a, sid |-> t.sid, did |-> d, exp |-> now + DelegatedTTL,
   login |-> t.login, chain |-> t.chain \union {d}]

\* The jti is unique, and empty in a row that is inserted: an insertion waits
\* while another's transaction is open, and fails if a row was left without one.
Insertable ==
  /\ \A w \in Workers : exchanges[w].at # "flushed"
  /\ \A d \in DelegationIds : delegations[d] # None => delegations[d].signed

\* delegate(): checks the agent and the grant, and inserts the delegation.
\* The row refers to the session, which must not have been purged meanwhile.
ExchangeDelegate(w, a, d) ==
  LET t == exchanges[w].subject
  IN  /\ exchanges[w].at = "verified"
      /\ a \in active \ Autonomous
      /\ <<t.sub, a>> \in grants
      /\ Insertable
      /\ delegations[d] = None
      /\ t.sid # None => sessions[t.sid] # Purged
      /\ exchanges' = [exchanges EXCEPT ![w] =
           [at    |-> "flushed", did |-> d,
            row   |-> [user |-> t.sub, agent |-> a, session |-> t.sid,
                       expires |-> now + DelegatedTTL, revoked |-> FALSE,
                       signed |-> TRUE],
            token |-> DelegatedToken(t, a, d)]]
      /\ UNCHANGED <<now, active, grants, sessions, delegations, api_keys, tokens, revocations>>

ExchangeCommit_Forgotten(w) ==
  /\ exchanges[w].at = "flushed"
  /\ tokens' = tokens \union {exchanges[w].token}
  /\ exchanges' = [exchanges EXCEPT ![w] = Idle]
  /\ UNCHANGED <<now, active, grants, sessions, delegations, api_keys, revocations>>

\* db.commit(), and the response.
ExchangeCommit(w) ==
  /\ exchanges[w].at = "flushed"
  /\ delegations' = [delegations EXCEPT ![exchanges[w].did] = exchanges[w].row]
  /\ tokens' = tokens \union {exchanges[w].token}
  /\ exchanges' = [exchanges EXCEPT ![w] = Idle]
  /\ UNCHANGED <<now, active, grants, sessions, api_keys, revocations>>

\* The delegation is on record and nobody has its token: the signing failed,
\* and the handler of the failure committed the inserted row along with its
\* audit event; or the response of a commit was lost.
ExchangeWithoutToken(w, signed) ==
  /\ exchanges[w].at = "flushed"
  /\ delegations' = [delegations EXCEPT ![exchanges[w].did] =
       [exchanges[w].row EXCEPT !.signed = signed]]
  /\ exchanges' = [exchanges EXCEPT ![w] = Idle]
  /\ UNCHANGED <<now, active, grants, sessions, api_keys, tokens, revocations>>

\* A refusal by delegate(), or a failure or crash that rolls back.
ExchangeFail(w) ==
  /\ exchanges[w].at # "idle"
  /\ exchanges' = [exchanges EXCEPT ![w] = Idle]
  /\ UNCHANGED <<now, active, grants, sessions, delegations, api_keys, tokens, revocations>>

----------------------------------------------------------------------------
\* An operator sets is_active in the database; no route does.
SetActive(p, on) ==
  /\ active' = IF on THEN active \union {p} ELSE active \ {p}
  /\ UNCHANGED <<now, grants, sessions, delegations, api_keys, tokens, exchanges, revocations>>

Tick ==
  /\ now < MaxTime
  /\ now' = now + 1
  /\ UNCHANGED <<active, grants, sessions, delegations, api_keys, tokens, exchanges, revocations>>

Init ==
  /\ now = 0
  /\ active = Users \union Agents
  /\ grants = {}
  /\ sessions = [s \in SessionIds |-> None]
  /\ delegations = [d \in DelegationIds |-> None]
  /\ api_keys = [k \in ApiKeyIds |-> None]
  /\ tokens = {}
  /\ exchanges = [w \in Workers |-> Idle]
  /\ revocations = [r \in Revokers |-> Idle]

SessionStep ==
  \/ \E u \in Users, s \in SessionIds : Login(u, s)
  \/ \E t \in tokens : Logout(t)
  \/ \E r \in Revokers, u \in Users : RevokeSessionsRead(r, u)
  \/ \E r \in Revokers : RevokeSessionsCommit(r)
  \/ PurgeExpired

RecordStep ==
  \/ \E u \in Users, a \in Agents : GrantAgent(u, a) \/ RevokeAgent(u, a)
  \/ \E d \in DelegationIds : RevokeDelegation(d)
  \/ \E r \in Revokers, u \in Users : RevokeDelegationsRead(r, u)
  \/ \E r \in Revokers : RevokeDelegationsCommit(r) \/ RevokeFail(r)
  \/ \E k \in ApiKeyIds, o \in Owners, ttl \in KeyTTLs : IssueApiKey(k, o, ttl)
  \/ \E k \in ApiKeyIds : RevokeApiKey(k)

ExchangeStep ==
  \E w \in Workers :
    \/ \E t \in tokens : ExchangeVerify(w, t)
    \/ \E a \in Agents, d \in DelegationIds : ExchangeDelegate(w, a, d)
    \/ ExchangeCommit(w)
    \/ \E signed \in BOOLEAN : ExchangeWithoutToken(w, signed)
    \/ ExchangeFail(w)

Next ==
  \/ SessionStep
  \/ RecordStep
  \/ ExchangeStep
  \/ \E p \in Users \union Agents, on \in BOOLEAN : SetActive(p, on)
  \/ Tick

Spec == Init /\ [][Next]_vars

----------------------------------------------------------------------------
\* Properties.

\* The shape of the rows, the tokens and the exchanges.
TypeOK ==
  /\ now \in Nat
  /\ active \subseteq Users \union Agents
  /\ grants \subseteq Users \X Agents
  /\ sessions \in [SessionIds -> Session \union {None, Purged}]
  /\ delegations \in [DelegationIds -> Delegation \union {None}]
  /\ api_keys \in [ApiKeyIds -> ApiKey \union {None}]
  /\ tokens \subseteq Token
  /\ exchanges \in [Workers -> Exchange]
  /\ revocations \in [Revokers -> Revocation]

\* "Revoke session: every token carrying that sid stops working"
\* (docs/authentication.md section 4), and no exchange sheds the sid: a token
\* that works, whatever exchanges produced it and however they interleaved
\* with the logout, descends from a login whose session is still active and
\* is its subject's own.
LogoutEndsLineage ==
  \A t \in tokens :
    Authenticates(t) => /\ ActiveSession(t.login)
                        /\ sessions[t.login].subject = t.sub

\* A delegated token can be traced: every exchange it descends from left a
\* record of the same user and login, and the record its did names is of the
\* agent it acts through and lives as long (identity/delegation.py: "both are
\* preserved through authorization, the proxy and the audit trail").
DelegationsAreRecorded ==
  \A t \in tokens :
    /\ \A d \in t.chain : /\ delegations[d] # None
                          /\ delegations[d].user = t.sub
                          /\ delegations[d].session = t.login
    /\ {t.act, t.did} # {None} => /\ t.did \in t.chain
                                  /\ delegations[t.did].agent = t.act
                                  /\ delegations[t.did].expires = t.exp

\* A delegation never outlives the row of its session, committed or about to
\* be: no purge slips in between the insertion and the commit
\* (database/engine.py turns foreign keys on).
DelegationsKeepTheirSession ==
  /\ \A d \in DelegationIds :
       delegations[d] # None => sessions[delegations[d].session] # Purged
  /\ \A w \in Workers :
       exchanges[w].at = "flushed" => sessions[exchanges[w].row.session] # Purged

\* A credential that was revoked or has expired, or whose session or
\* delegation was or has, is refused for good: granting the agent again, a new
\* login or a new key does not bring it back.  (A disabled identity may be
\* enabled again, so that is not a death.)
DeadToken(t) ==
  \/ ~Verified(t)
  \/ t.did # None /\ ~ActiveDelegation(t.did)

DeadKey(k) ==
  /\ api_keys[k] # None
  /\ \/ api_keys[k].revoked
     \/ api_keys[k].expires # None /\ api_keys[k].expires <= now

NoResurrection ==
  [][ /\ \A t \in tokens : DeadToken(t) => ~Authenticates(t)'
      /\ \A k \in ApiKeyIds : DeadKey(k) => ~KeyAuthenticates(k)'
    ]_vars

\* Revoking a user's delegations stops every agent token of the user that a
\* client held when the revocation began, by the time it commits, whatever ran
\* in between (identity/delegation.py, revoke_delegations_for_user()): no such
\* token escapes because its row is missing or of another user.  A token handed
\* out while the revocation runs is not among those.
RevokeAllStopsAgents ==
  [][ \A r \in Revokers :
        RevokeDelegationsCommit(r) => \A t \in revocations[r].held : ~Authenticates(t)'
    ]_vars

\* What Authority says of logins, mandates and credentials, read off the rows.
Open == {<<s, sessions[s].subject>> : s \in {x \in SessionIds : ActiveSession(x)}}

Live ==
  {<<d, delegations[d].user, delegations[d].agent>> :
     d \in {x \in DelegationIds : ActiveDelegation(x)}}

Working ==
  {[login |-> t.login, user |-> t.sub, agent |-> t.act, mandate |-> t.did] :
     t \in {x \in tokens : ~DeadToken(x)}}

Promise == INSTANCE Authority WITH
  Logins <- SessionIds, Mandates <- DelegationIds,
  begun <- {s \in SessionIds : sessions[s] # None}, open <- Open,
  given <- {d \in DelegationIds : delegations[d] # None}, live <- Live,
  working <- Working

\* The gateway keeps the promise of Authority: whatever exchanges, logouts,
\* revocations, purges and the clock do to each other, a token works only while
\* the login it descends from is open to its subject and its delegation is live
\* for its agent, and nothing that has ceased works again
\* (identity/sessions.py, identity/delegation.py, gateway/api/auth.py).
AuthorityKept == Promise!Spec

\* docs/authentication.md section 4: revoking a delegation stops "every token
\* carrying that did", "checked on every request".  A token exchange is a
\* request that presents a token.
RevokedDelegationMintsNothing ==
  [][ \A w \in Workers :
        exchanges[w].at = "idle" /\ exchanges'[w].at = "verified" =>
          LET d == exchanges'[w].subject.did
          IN  d # None => ~delegations[d].revoked
    ]_vars

=============================================================================
