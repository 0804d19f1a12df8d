------------------------ MODULE AuthenticationProofs ------------------------
(***************************************************************************)
(* Theorems about Authentication, for every set of users, agents, sessions *)
(* and concurrent exchanges, and every choice of lifetimes.                *)
(***************************************************************************)
EXTENDS Authentication, TLAPS

USE DEF Session, Delegation, ApiKey, Token, Exchange, Revocation, Idle, Owners

----------------------------------------------------------------------------
\* Type correctness.

LEMMA InitType == Init => TypeOK
BY DEF Init, TypeOK

\* The rows and tokens a handler builds are well formed.
LEMMA NewToken ==
  ASSUME TypeOK, NEW u \in Users, NEW s \in SessionIds
  PROVE  AccessToken(u, s) \in Token
BY LifetimesAssumption DEF TypeOK, AccessToken

LEMMA NewDelegated ==
  ASSUME TypeOK, NEW t \in Token, NEW a \in Agents, NEW d \in DelegationIds
  PROVE  DelegatedToken(t, a, d) \in Token
BY LifetimesAssumption DEF TypeOK, DelegatedToken

LEMMA RevokedRows ==
  /\ \A row \in Session : Revoked(row) \in Session
  /\ \A row \in Delegation : Revoked(row) \in Delegation
  /\ \A row \in ApiKey : Revoked(row) \in ApiKey
BY DEF Revoked

LEMMA SessionStepType == TypeOK /\ SessionStep => TypeOK'
<1> SUFFICES ASSUME TypeOK, SessionStep PROVE TypeOK'
  OBVIOUS
<1>1. ASSUME NEW u \in Users, NEW s \in SessionIds, Login(u, s) PROVE TypeOK'
  <2>1. tokens' \subseteq Token
    BY <1>1, NewToken DEF Login, TypeOK
  <2>2. sessions' \in [SessionIds -> Session \union {None, Purged}]
    BY <1>1, LifetimesAssumption DEF Login, TypeOK
  <2> QED BY <1>1, <2>1, <2>2 DEF Login, TypeOK
<1>2. ASSUME NEW t \in tokens, Logout(t) PROVE TypeOK'
  <2>1. t.sid \in SessionIds /\ sessions[t.sid] \in Session
    BY <1>2 DEF Logout, TypeOK, Authenticates, Verified, ActiveSession
  <2> QED BY <1>2, <2>1, RevokedRows DEF Logout, TypeOK
<1>3. ASSUME NEW r \in Revokers, RevokeSessionsCommit(r) PROVE TypeOK'
  <2>1. sessions' \in [SessionIds -> Session \union {None, Purged}]
    BY <1>3, RevokedRows DEF RevokeSessionsCommit, TypeOK
  <2> QED BY <1>3, <2>1 DEF RevokeSessionsCommit, TypeOK
<1>5. ASSUME NEW r \in Revokers, NEW u \in Users, RevokeSessionsRead(r, u) PROVE TypeOK'
  BY <1>5 DEF RevokeSessionsRead, TypeOK
<1>4. ASSUME PurgeExpired PROVE TypeOK'
  BY <1>4 DEF PurgeExpired, TypeOK
<1> QED BY <1>1, <1>2, <1>3, <1>4, <1>5 DEF SessionStep

LEMMA RecordStepType == TypeOK /\ RecordStep => TypeOK'
<1> SUFFICES ASSUME TypeOK, RecordStep PROVE TypeOK'
  OBVIOUS
<1>1. ASSUME NEW u \in Users, NEW a \in Agents, GrantAgent(u, a) \/ RevokeAgent(u, a)
      PROVE  TypeOK'
  BY <1>1 DEF GrantAgent, RevokeAgent, TypeOK
<1>2. ASSUME NEW d \in DelegationIds, RevokeDelegation(d) PROVE TypeOK'
  <2>1. Revoked(delegations[d]) \in Delegation
    BY <1>2, RevokedRows DEF RevokeDelegation, TypeOK
  <2> QED BY <1>2, <2>1 DEF RevokeDelegation, TypeOK
<1>3. ASSUME NEW r \in Revokers, RevokeDelegationsCommit(r) PROVE TypeOK'
  <2>1. delegations' \in [DelegationIds -> Delegation \union {None}]
    BY <1>3, RevokedRows DEF RevokeDelegationsCommit, TypeOK
  <2> QED BY <1>3, <2>1 DEF RevokeDelegationsCommit, TypeOK
<1>6. ASSUME NEW r \in Revokers, NEW u \in Users, RevokeDelegationsRead(r, u) PROVE TypeOK'
  BY <1>6 DEF RevokeDelegationsRead, TypeOK
<1>7. ASSUME NEW r \in Revokers, RevokeFail(r) PROVE TypeOK'
  BY <1>7 DEF RevokeFail, TypeOK
<1>4. ASSUME NEW k \in ApiKeyIds, NEW o \in Owners, NEW ttl \in KeyTTLs,
             IssueApiKey(k, o, ttl)
      PROVE  TypeOK'
  BY <1>4, LifetimesAssumption DEF IssueApiKey, TypeOK
<1>5. ASSUME NEW k \in ApiKeyIds, RevokeApiKey(k) PROVE TypeOK'
  <2>1. Revoked(api_keys[k]) \in ApiKey
    BY <1>5, RevokedRows DEF RevokeApiKey, TypeOK
  <2> QED BY <1>5, <2>1 DEF RevokeApiKey, TypeOK
<1> QED BY <1>1, <1>2, <1>3, <1>4, <1>5, <1>6, <1>7 DEF RecordStep

\* What an exchange in progress holds.
LEMMA ExchangeParts ==
  ASSUME TypeOK, NEW w \in Workers
  PROVE  /\ exchanges[w].at = "verified" => exchanges[w].subject \in Token
         /\ exchanges[w].at = "flushed" => /\ exchanges[w].did \in DelegationIds
                                           /\ exchanges[w].row \in Delegation
                                           /\ exchanges[w].token \in Token
BY DEF TypeOK

LEMMA ExchangeStepType == TypeOK /\ ExchangeStep => TypeOK'
<1> SUFFICES ASSUME TypeOK, NEW w \in Workers,
                    \/ \E t \in tokens : ExchangeVerify(w, t)
                    \/ \E a \in Agents, d \in DelegationIds : ExchangeDelegate(w, a, d)
                    \/ ExchangeCommit(w)
                    \/ \E signed \in BOOLEAN : ExchangeWithoutToken(w, signed)
                    \/ ExchangeFail(w)
             PROVE  TypeOK'
  BY DEF ExchangeStep
<1>1. ASSUME NEW t \in tokens, ExchangeVerify(w, t) PROVE TypeOK'
  BY <1>1 DEF ExchangeVerify, TypeOK
<1>2. ASSUME NEW a \in Agents, NEW d \in DelegationIds, ExchangeDelegate(w, a, d)
      PROVE  TypeOK'
  <2> DEFINE t == exchanges[w].subject
             e == [at    |-> "flushed", did |-> d,
                   row   |-> [user |-> t.sub, agent |-> a, session |-> t.sid,
                              expires |-> now + DelegatedTTL, revoked |-> FALSE,
                              signed |-> TRUE],
                   token |-> DelegatedToken(t, a, d)]
  <2>1. t \in Token
    BY <1>2, ExchangeParts DEF ExchangeDelegate
  <2>2. DelegatedToken(t, a, d) \in Token
    BY <2>1, NewDelegated
  <2>3. e \in Exchange
    BY <2>1, <2>2, LifetimesAssumption DEF TypeOK
  <2>4. exchanges' = [exchanges EXCEPT ![w] = e]
    BY <1>2 DEF ExchangeDelegate
  <2> QED BY <1>2, <2>3, <2>4 DEF ExchangeDelegate, TypeOK
<1>3. ASSUME ExchangeCommit(w) PROVE TypeOK'
  BY <1>3, ExchangeParts DEF ExchangeCommit, TypeOK
<1>4. ASSUME ExchangeFail(w) PROVE TypeOK'
  BY <1>4 DEF ExchangeFail, TypeOK
<1>5. ASSUME NEW signed \in BOOLEAN, ExchangeWithoutToken(w, signed) PROVE TypeOK'
  <2>1. [exchanges[w].row EXCEPT !.signed = signed] \in Delegation
    BY <1>5, ExchangeParts DEF ExchangeWithoutToken
  <2> QED BY <1>5, <2>1 DEF ExchangeWithoutToken, TypeOK
<1> QED BY <1>1, <1>2, <1>3, <1>4, <1>5

LEMMA NextType == TypeOK /\ [Next]_vars => TypeOK'
<1> SUFFICES ASSUME TypeOK, [Next]_vars PROVE TypeOK'
  OBVIOUS
<1>1. CASE \E p \in Users \union Agents, on \in BOOLEAN : SetActive(p, on)
  BY <1>1 DEF SetActive, TypeOK
<1>2. CASE Tick
  BY <1>2 DEF Tick, TypeOK
<1>3. CASE UNCHANGED vars
  BY <1>3 DEF vars, TypeOK
<1> QED
  BY <1>1, <1>2, <1>3, SessionStepType, RecordStepType, ExchangeStepType DEF Next

\* Sessions, delegations, keys, tokens and exchanges keep their shape.
THEOREM TypeCorrect == Spec => []TypeOK
BY InitType, NextType, PTL DEF Spec

----------------------------------------------------------------------------
\* What every step keeps of the rows: a row is never replaced, its subject and
\* its expiry never change, and a revocation is never taken back.

LEMMA ClockForward == TypeOK /\ [Next]_vars => now =< now'
<1>1. [Next]_vars => Tick \/ now' = now
  BY DEF Next, SessionStep, RecordStep, ExchangeStep, vars, Login, Logout,
     RevokeSessionsRead, RevokeSessionsCommit, PurgeExpired, GrantAgent, RevokeAgent,
     RevokeDelegation, RevokeDelegationsRead, RevokeDelegationsCommit, RevokeFail,
     IssueApiKey, RevokeApiKey, ExchangeVerify, ExchangeDelegate, ExchangeCommit,
     ExchangeWithoutToken, ExchangeFail, SetActive
<1> QED BY <1>1 DEF Tick, TypeOK

SessionKept(s) ==
  sessions[s] # None =>
    /\ sessions'[s] # None
    /\ sessions'[s] # Purged =>
         /\ sessions[s] # Purged
         /\ sessions'[s].subject = sessions[s].subject
         /\ sessions'[s].expires = sessions[s].expires
         /\ sessions[s].revoked => sessions'[s].revoked

LEMMA SessionsKept ==
  ASSUME TypeOK, [Next]_vars, NEW s \in SessionIds
  PROVE  SessionKept(s)
<1> USE RowsAssumption, IdentifiersAssumption
<1>1. CASE sessions' = sessions
  BY <1>1 DEF SessionKept
<1>2. ASSUME NEW u \in Users, NEW r \in SessionIds, Login(u, r) PROVE SessionKept(s)
  BY <1>2 DEF Login, SessionKept, TypeOK
<1>3. ASSUME NEW t \in tokens, Logout(t) PROVE SessionKept(s)
  <2>1. t.sid \in SessionIds /\ sessions[t.sid] \in Session
    BY <1>3 DEF Logout, TypeOK, Authenticates, Verified, ActiveSession
  <2> QED BY <1>3, <2>1, RevokedRows DEF Logout, SessionKept, TypeOK, Revoked
<1>4. ASSUME NEW r \in Revokers, RevokeSessionsCommit(r) PROVE SessionKept(s)
  <2>1. \/ sessions'[s] = sessions[s]
        \/ /\ sessions[s] \in Session
           /\ sessions'[s] = Revoked(sessions[s])
    BY <1>4 DEF RevokeSessionsCommit, TypeOK
  <2> QED BY <2>1, RevokedRows DEF SessionKept, Revoked
<1>5. ASSUME PurgeExpired PROVE SessionKept(s)
  BY <1>5 DEF PurgeExpired, Expired, SessionKept
<1>6. [Next]_vars /\ sessions' # sessions => SessionStep
  BY DEF Next, RecordStep, ExchangeStep, vars, GrantAgent, RevokeAgent,
     RevokeDelegation, RevokeDelegationsRead, RevokeDelegationsCommit, RevokeFail,
     IssueApiKey, RevokeApiKey, ExchangeVerify, ExchangeDelegate, ExchangeCommit,
     ExchangeWithoutToken, ExchangeFail, SetActive, Tick
<1> QED BY <1>1, <1>2, <1>3, <1>4, <1>5, <1>6 DEF SessionStep, RevokeSessionsRead

----------------------------------------------------------------------------
\* Every token issued, or about to be, carries the session of its login.

Issued ==
  tokens
    \union {exchanges[w].subject : w \in {v \in Workers : exchanges[v].at = "verified"}}
    \union {exchanges[w].token : w \in {v \in Workers : exchanges[v].at = "flushed"}}

Lineage(t) ==
  /\ t.sid = t.login
  /\ sessions[t.login] # None
  /\ sessions[t.login] # Purged => sessions[t.login].subject = t.sub

LineageInv == \A t \in Issued : Lineage(t)

LEMMA IssuedTyped == TypeOK => Issued \subseteq Token
BY ExchangeParts DEF Issued, TypeOK

\* The tokens a step adds: the one of a login, or that of an exchange.
LEMMA NewlyIssued ==
  ASSUME TypeOK, [Next]_vars, NEW t \in Issued'
  PROVE  \/ t \in Issued
         \/ \E u \in Users, s \in SessionIds : Login(u, s) /\ t = AccessToken(u, s)
         \/ \E w \in Workers, a \in Agents, d \in DelegationIds :
              /\ ExchangeDelegate(w, a, d)
              /\ t = DelegatedToken(exchanges[w].subject, a, d)
<1>1. CASE tokens' = tokens /\ exchanges' = exchanges
  BY <1>1 DEF Issued
<1>2. ASSUME NEW u \in Users, NEW s \in SessionIds, Login(u, s)
      PROVE  t \in Issued \/ t = AccessToken(u, s)
  BY <1>2 DEF Issued, Login
<1>3. ASSUME NEW w \in Workers, NEW x \in tokens, ExchangeVerify(w, x)
      PROVE  t \in Issued
  BY <1>3 DEF Issued, ExchangeVerify, TypeOK
<1>4. ASSUME NEW w \in Workers, NEW a \in Agents, NEW d \in DelegationIds,
             ExchangeDelegate(w, a, d)
      PROVE  t \in Issued \/ t = DelegatedToken(exchanges[w].subject, a, d)
  BY <1>4 DEF Issued, ExchangeDelegate, TypeOK
<1>5. ASSUME NEW w \in Workers, ExchangeCommit(w) PROVE t \in Issued
  BY <1>5 DEF Issued, ExchangeCommit, TypeOK
<1>6. ASSUME NEW w \in Workers, ExchangeFail(w) PROVE t \in Issued
  BY <1>6 DEF Issued, ExchangeFail, TypeOK
<1>8. ASSUME NEW w \in Workers, NEW signed \in BOOLEAN, ExchangeWithoutToken(w, signed)
      PROVE  t \in Issued
  BY <1>8 DEF Issued, ExchangeWithoutToken, TypeOK
<1>7. \/ tokens' = tokens /\ exchanges' = exchanges
      \/ ExchangeStep
      \/ \E u \in Users, s \in SessionIds : Login(u, s)
  BY DEF Next, SessionStep, RecordStep, vars, Logout, RevokeSessionsRead,
     RevokeSessionsCommit, PurgeExpired, GrantAgent, RevokeAgent, RevokeDelegation,
     RevokeDelegationsRead, RevokeDelegationsCommit, RevokeFail, IssueApiKey,
     RevokeApiKey, SetActive, Tick
<1> QED BY <1>1, <1>2, <1>3, <1>4, <1>5, <1>6, <1>7, <1>8 DEF ExchangeStep

LEMMA NextLineage == TypeOK /\ LineageInv /\ [Next]_vars => LineageInv'
<1> SUFFICES ASSUME TypeOK, LineageInv, [Next]_vars, NEW t \in Issued' PROVE Lineage(t)'
  BY DEF LineageInv
<1>1. CASE t \in Issued
  <2>1. t.login \in SessionIds /\ Lineage(t)
    BY <1>1, IssuedTyped DEF LineageInv
  <2>2. SessionKept(t.login)
    BY <2>1, SessionsKept
  <2> QED BY <2>1, <2>2 DEF Lineage, SessionKept
<1>2. ASSUME NEW u \in Users, NEW s \in SessionIds, Login(u, s), t = AccessToken(u, s)
      PROVE  Lineage(t)'
  <2>1. sessions'[s] = [subject |-> u, expires |-> now + SessionTTL, revoked |-> FALSE]
    BY <1>2 DEF Login, TypeOK
  <2>2. sessions'[s] \in Session
    BY <2>1, LifetimesAssumption DEF TypeOK
  <2>3. t.sid = s /\ t.login = s /\ t.sub = u
    BY <1>2 DEF AccessToken
  <2>4. sessions'[s].subject = u
    BY <2>1
  <2>5. sessions'[s] # None
    BY <2>2, RowsAssumption
  <2> QED BY <2>3, <2>4, <2>5 DEF Lineage
<1>3. ASSUME NEW w \in Workers, NEW a \in Agents, NEW d \in DelegationIds,
             ExchangeDelegate(w, a, d), t = DelegatedToken(exchanges[w].subject, a, d)
      PROVE  Lineage(t)'
  <2> DEFINE x == exchanges[w].subject
  <2>1. x \in Issued
    BY <1>3 DEF ExchangeDelegate, Issued
  <2>2. Lineage(x)
    BY <2>1 DEF LineageInv
  <2>3. t.sid = x.sid /\ t.login = x.login /\ t.sub = x.sub
    BY <1>3 DEF DelegatedToken
  <2> QED BY <1>3, <2>2, <2>3 DEF Lineage, ExchangeDelegate
<1> QED BY <1>1, <1>2, <1>3, NewlyIssued

LEMMA LineageEnds == TypeOK /\ LineageInv => LogoutEndsLineage
<1> SUFFICES ASSUME TypeOK, LineageInv, NEW t \in tokens, Authenticates(t)
             PROVE  ActiveSession(t.login) /\ sessions[t.login].subject = t.sub
  BY DEF LogoutEndsLineage
<1>1. Lineage(t) /\ t \in Token
  BY DEF LineageInv, Issued, TypeOK
<1>2. t.sid \in SessionIds /\ t.sid # None
  BY <1>1, IdentifiersAssumption DEF Lineage
<1>3. ActiveSession(t.login)
  BY <1>1, <1>2 DEF Authenticates, Verified, Lineage
<1> QED BY <1>1, <1>3 DEF ActiveSession, Lineage

\* A token that works descends from a session that is still active, however
\* many exchanges lie between, and whatever ran concurrently with them.
THEOREM LogoutTheorem == Spec => []LogoutEndsLineage
<1>1. Init => LineageInv
  BY DEF Init, LineageInv, Issued, Idle
<1> QED BY <1>1, InitType, NextType, NextLineage, LineageEnds, PTL DEF Spec

----------------------------------------------------------------------------
\* The delegation records, and the exchanges that are about to write one.

DelegationKept(d) ==
  delegations[d] # None =>
    /\ delegations'[d] # None
    /\ delegations'[d].user = delegations[d].user
    /\ delegations'[d].agent = delegations[d].agent
    /\ delegations'[d].session = delegations[d].session
    /\ delegations'[d].expires = delegations[d].expires
    /\ delegations[d].revoked => delegations'[d].revoked

Recorded(t, chain) ==
  \A d \in chain : /\ delegations[d] # None
                   /\ delegations[d].user = t.sub
                   /\ delegations[d].session = t.login

\* The row and the token of an exchange before its commit: an id nobody else
\* has, and a token whose earlier exchanges are all on record.
PendingRow(w) ==
  LET e == exchanges[w]
  IN  /\ delegations[e.did] = None
      /\ e.token.did = e.did
      /\ e.did \in e.token.chain
      /\ Recorded(e.token, e.token.chain \ {e.did})
      /\ e.row.user = e.token.sub
      /\ e.row.session = e.token.login
      /\ e.row.agent = e.token.act
      /\ e.row.expires = e.token.exp
      /\ \A v \in Workers \ {w} : exchanges[v].at = "flushed" => exchanges[v].did # e.did

\* An exchange commits its row, with its token or without.
Commits(w) ==
  ExchangeCommit(w) \/ \E signed \in BOOLEAN : ExchangeWithoutToken(w, signed)

Writes(w) ==
  /\ \E signed \in BOOLEAN :
       delegations' = [delegations EXCEPT ![exchanges[w].did] =
                         [exchanges[w].row EXCEPT !.signed = signed]]
  /\ exchanges' = [exchanges EXCEPT ![w] = Idle]
  /\ tokens \subseteq tokens'
  /\ tokens' \subseteq tokens \union {exchanges[w].token}
  /\ UNCHANGED <<now, sessions>>

LEMMA CommitWrites ==
  ASSUME TypeOK, NEW w \in Workers, Commits(w)
  PROVE  exchanges[w].at = "flushed" /\ Writes(w)
<1>1. CASE ExchangeCommit(w)
  <2>1. exchanges[w].row \in Delegation
    BY <1>1, ExchangeParts DEF ExchangeCommit
  <2>2. exchanges[w].row.signed \in BOOLEAN
    BY <2>1
  <2>3. exchanges[w].row = [exchanges[w].row EXCEPT !.signed = exchanges[w].row.signed]
    BY <2>1
  <2> QED BY <1>1, <2>2, <2>3 DEF ExchangeCommit, Writes
<1>2. ASSUME NEW signed \in BOOLEAN, ExchangeWithoutToken(w, signed)
      PROVE  exchanges[w].at = "flushed" /\ Writes(w)
  BY <1>2 DEF ExchangeWithoutToken, Writes
<1> QED BY <1>1, <1>2 DEF Commits

RecordInv ==
  /\ DelegationsAreRecorded
  /\ \A w \in Workers : exchanges[w].at = "verified" => exchanges[w].subject \in tokens
  /\ \A w \in Workers : exchanges[w].at = "flushed" => PendingRow(w)

\* An exchange commits a row under an id that has none.
LEMMA DelegationsKept ==
  ASSUME TypeOK, RecordInv, [Next]_vars, NEW d \in DelegationIds
  PROVE  DelegationKept(d)
<1> USE RowsAssumption
<1>1. CASE delegations' = delegations
  BY <1>1 DEF DelegationKept
<1>2. ASSUME NEW x \in DelegationIds, RevokeDelegation(x) PROVE DelegationKept(d)
  BY <1>2, RevokedRows DEF RevokeDelegation, DelegationKept, TypeOK, Revoked
<1>3. ASSUME NEW r \in Revokers, RevokeDelegationsCommit(r) PROVE DelegationKept(d)
  <2>1. \/ delegations'[d] = delegations[d]
        \/ /\ delegations[d] \in Delegation
           /\ delegations'[d] = Revoked(delegations[d])
    BY <1>3 DEF RevokeDelegationsCommit, TypeOK
  <2> QED BY <2>1, RevokedRows DEF DelegationKept, Revoked
<1>4. ASSUME NEW w \in Workers, Commits(w) PROVE DelegationKept(d)
  <2>1. exchanges[w].at = "flushed" /\ Writes(w)
    BY <1>4, CommitWrites
  <2>2. delegations[exchanges[w].did] = None /\ exchanges[w].did \in DelegationIds
    BY <2>1, ExchangeParts DEF RecordInv, PendingRow
  <2> QED BY <2>1, <2>2 DEF Writes, DelegationKept, TypeOK
<1>5. \/ delegations' = delegations
      \/ \E x \in DelegationIds : RevokeDelegation(x)
      \/ \E r \in Revokers : RevokeDelegationsCommit(r)
      \/ \E w \in Workers : Commits(w)
  BY DEF Next, SessionStep, RecordStep, ExchangeStep, vars, Login, Logout,
     RevokeSessionsRead, RevokeSessionsCommit, PurgeExpired, GrantAgent, RevokeAgent,
     IssueApiKey, RevokeApiKey, ExchangeVerify, ExchangeDelegate, ExchangeFail,
     SetActive, Tick, Commits, RevokeDelegationsRead, RevokeFail
<1> QED BY <1>1, <1>2, <1>3, <1>4, <1>5

TokenRecorded(t) ==
  /\ Recorded(t, t.chain)
  /\ {t.act, t.did} # {None} => /\ t.did \in t.chain
                                /\ delegations[t.did].agent = t.act
                                /\ delegations[t.did].expires = t.exp

LEMMA RecordedTokens == DelegationsAreRecorded <=> \A t \in tokens : TokenRecorded(t)
BY DEF DelegationsAreRecorded, TokenRecorded, Recorded

\* What is on record stays on record.
LEMMA RecordsKept ==
  ASSUME TypeOK, RecordInv, [Next]_vars
  PROVE  /\ \A t \in Token : \A chain \in SUBSET DelegationIds :
              Recorded(t, chain) => Recorded(t, chain)'
         /\ \A t \in tokens : TokenRecorded(t)'
<1>1. ASSUME NEW t \in Token, NEW chain \in SUBSET DelegationIds, Recorded(t, chain)
      PROVE  Recorded(t, chain)'
  BY <1>1, DelegationsKept DEF Recorded, DelegationKept
<1>2. ASSUME NEW t \in tokens PROVE TokenRecorded(t)'
  <2>1. t \in Token /\ t.chain \in SUBSET DelegationIds /\ TokenRecorded(t)
    BY RecordedTokens DEF TypeOK, RecordInv
  <2>2. Recorded(t, t.chain)'
    BY <2>1, <1>1 DEF TokenRecorded
  <2>3. ASSUME {t.act, t.did} # {None}
        PROVE  /\ t.did \in t.chain
               /\ delegations'[t.did].agent = t.act
               /\ delegations'[t.did].expires = t.exp
    <3>1. t.did \in DelegationIds /\ delegations[t.did] # None
      BY <2>1, <2>3 DEF TokenRecorded, Recorded
    <3> QED BY <2>1, <2>3, <3>1, DelegationsKept DEF TokenRecorded, DelegationKept
  <2> QED BY <2>2, <2>3 DEF TokenRecorded
<1> QED BY <1>1, <1>2

LEMMA PendingParts ==
  ASSUME TypeOK, NEW w \in Workers, exchanges[w].at = "flushed"
  PROVE  /\ exchanges[w].did \in DelegationIds
         /\ exchanges[w].token \in Token
         /\ exchanges[w].token.chain \ {exchanges[w].did} \in SUBSET DelegationIds
BY ExchangeParts

\* A pending row stays good while its id stays free and no other exchange
\* takes it.
LEMMA PendingKept ==
  ASSUME TypeOK, RecordInv, [Next]_vars, NEW w \in Workers,
         exchanges[w].at = "flushed", exchanges'[w] = exchanges[w],
         delegations'[exchanges[w].did] = None,
         \A v \in Workers \ {w} :
           exchanges'[v].at = "flushed" => exchanges'[v].did # exchanges[w].did
  PROVE  PendingRow(w)'
<1> DEFINE e == exchanges[w]
<1>1. PendingRow(w)
  BY DEF RecordInv
<1>2. Recorded(e.token, e.token.chain \ {e.did})'
  BY <1>1, PendingParts, RecordsKept DEF PendingRow
<1> QED BY <1>1, <1>2 DEF PendingRow, Recorded

\* A step that leaves the exchanges alone commits no delegation.
LEMMA NoCommit ==
  ASSUME TypeOK, [Next]_vars, NEW d \in DelegationIds, delegations[d] = None,
         \A w \in Workers : ~Commits(w)
  PROVE  delegations'[d] = None
<1>1. CASE delegations' = delegations
  BY <1>1
<1>2. ASSUME NEW x \in DelegationIds, RevokeDelegation(x) PROVE delegations'[d] = None
  BY <1>2 DEF RevokeDelegation, TypeOK
<1>3. ASSUME NEW r \in Revokers, RevokeDelegationsCommit(r) PROVE delegations'[d] = None
  BY <1>3 DEF RevokeDelegationsCommit
<1>4. \/ delegations' = delegations
      \/ \E x \in DelegationIds : RevokeDelegation(x)
      \/ \E r \in Revokers : RevokeDelegationsCommit(r)
  BY DEF Next, SessionStep, RecordStep, ExchangeStep, vars, Login, Logout,
     RevokeSessionsRead, RevokeSessionsCommit, PurgeExpired, GrantAgent, RevokeAgent,
     IssueApiKey, RevokeApiKey, ExchangeVerify, ExchangeDelegate, ExchangeFail,
     SetActive, Tick, Commits, RevokeDelegationsRead, RevokeFail
<1> QED BY <1>1, <1>2, <1>3, <1>4

\* A step that neither commits nor inserts: the exchanges that are flushed
\* after it were flushed before, unchanged.
LEMMA RecordQuiet ==
  ASSUME TypeOK, RecordInv, [Next]_vars,
         \A w \in Workers : ~Commits(w),
         \A w \in Workers : exchanges'[w].at = "flushed" => exchanges'[w] = exchanges[w],
         \A w \in Workers : exchanges'[w].at = "verified" => exchanges'[w].subject \in tokens',
         \A t \in tokens' : t \in tokens \/ TokenRecorded(t)'
  PROVE  RecordInv'
<1>1. DelegationsAreRecorded'
  BY RecordsKept DEF DelegationsAreRecorded, TokenRecorded, Recorded
<1>2. ASSUME NEW w \in Workers, exchanges'[w].at = "flushed" PROVE PendingRow(w)'
  <2>1. exchanges[w].at = "flushed" /\ PendingRow(w)
    BY <1>2 DEF RecordInv
  <2>2. delegations'[exchanges[w].did] = None
    BY <2>1, NoCommit, PendingParts DEF PendingRow
  <2>3. \A v \in Workers \ {w} :
          exchanges'[v].at = "flushed" => exchanges'[v].did # exchanges[w].did
    BY <2>1 DEF PendingRow
  <2> QED BY <1>2, <2>1, <2>2, <2>3, PendingKept
<1> QED BY <1>1, <1>2 DEF RecordInv

LEMMA CommitRecords ==
  ASSUME TypeOK, RecordInv, [Next]_vars, NEW w \in Workers, Commits(w)
  PROVE  RecordInv'
<1> DEFINE e == exchanges[w]
<1>0. Writes(w) /\ e.at = "flushed"
  BY CommitWrites
<1>1. PendingRow(w) /\ e.at = "flushed"
  BY <1>0 DEF RecordInv
<1>2. e.did \in DelegationIds /\ e.token \in Token /\ e.row \in Delegation
  BY <1>1, ExchangeParts
<1>3. PICK t \in Token, d \in DelegationIds : t = e.token /\ d = e.did
  BY <1>2
<1>4. /\ delegations'[d] # None
      /\ delegations'[d].user = t.sub /\ delegations'[d].session = t.login
      /\ delegations'[d].agent = t.act /\ delegations'[d].expires = t.exp
  <2>1. PICK signed \in BOOLEAN :
          delegations' = [delegations EXCEPT ![d] = [e.row EXCEPT !.signed = signed]]
    BY <1>0, <1>3 DEF Writes
  <2>2. delegations'[d] = [e.row EXCEPT !.signed = signed]
    BY <2>1 DEF TypeOK
  <2>3. delegations'[d] \in Delegation
    BY <1>2, <2>2
  <2> QED BY <1>1, <1>2, <1>3, <2>2, <2>3, RowsAssumption DEF PendingRow
<1>5. DelegationsAreRecorded'
  <2>1. Recorded(t, t.chain \ {d})'
    BY <1>1, <1>3, PendingParts, RecordsKept DEF PendingRow
  <2>2. TokenRecorded(t)'
    BY <1>1, <1>3, <1>4, <2>1 DEF TokenRecorded, Recorded, PendingRow
  <2>3. tokens' \subseteq tokens \union {t}
    BY <1>0, <1>3 DEF Writes
  <2>4. \A x \in tokens' : TokenRecorded(x)'
    BY <2>2, <2>3, RecordsKept
  <2> QED BY <2>4 DEF DelegationsAreRecorded, TokenRecorded, Recorded
<1>6. ASSUME NEW v \in Workers, exchanges'[v].at = "flushed" PROVE PendingRow(v)'
  <2>1. v # w /\ exchanges'[v] = exchanges[v]
    BY <1>0, <1>6 DEF Writes, TypeOK
  <2>2. PendingRow(v) /\ exchanges[v].did # e.did
    BY <1>1, <1>6, <2>1 DEF RecordInv, PendingRow
  <2>3. delegations'[exchanges[v].did] = None
    BY <1>0, <2>2, <1>2, <1>6, <2>1, PendingParts DEF Writes, PendingRow, TypeOK
  <2>4. \A x \in Workers \ {v} :
          exchanges'[x].at = "flushed" => exchanges'[x].did # exchanges[v].did
    BY <1>0, <1>6, <2>1, <2>2 DEF PendingRow, Writes, TypeOK
  <2> QED BY <1>6, <2>1, <2>3, <2>4, PendingKept
<1>7. ASSUME NEW v \in Workers, exchanges'[v].at = "verified"
      PROVE  exchanges'[v].subject \in tokens'
  BY <1>0, <1>7 DEF Writes, RecordInv, TypeOK
<1> QED BY <1>5, <1>6, <1>7 DEF RecordInv

LEMMA InsertRecords ==
  ASSUME TypeOK, LineageInv, RecordInv, [Next]_vars, NEW w \in Workers,
         NEW a \in Agents, NEW d \in DelegationIds, ExchangeDelegate(w, a, d)
  PROVE  RecordInv'
<1> DEFINE t == exchanges[w].subject
<1>1. exchanges[w].at = "verified" /\ t \in tokens /\ t \in Token
  BY ExchangeParts DEF ExchangeDelegate, RecordInv
<1>2. TokenRecorded(t) /\ t.sid = t.login
  BY <1>1, RecordedTokens DEF RecordInv, LineageInv, Issued, Lineage
<1>3. /\ delegations[d] = None
      /\ \A v \in Workers : exchanges[v].at = "flushed" => exchanges[v].did # d
      /\ delegations' = delegations /\ tokens' = tokens
  BY DEF ExchangeDelegate, Insertable
<1>4. /\ exchanges'[w].did = d
      /\ exchanges'[w].token = DelegatedToken(t, a, d)
      /\ exchanges'[w].row = [user |-> t.sub, agent |-> a, session |-> t.sid,
                              expires |-> now + DelegatedTTL, revoked |-> FALSE,
                              signed |-> TRUE]
      /\ \A v \in Workers \ {w} : exchanges'[v] = exchanges[v]
  BY DEF ExchangeDelegate, TypeOK
<1>5. PendingRow(w)'
  <2> DEFINE new == exchanges'[w].token
  <2>1. /\ new.did = d /\ new.sub = t.sub /\ new.login = t.login /\ new.act = a
        /\ new.exp = now + DelegatedTTL /\ new.chain = t.chain \union {d}
    BY <1>4 DEF DelegatedToken
  <2>2. \A x \in new.chain \ {d} : /\ delegations'[x] # None
                                   /\ delegations'[x].user = new.sub
                                   /\ delegations'[x].session = new.login
    BY <1>2, <1>3, <2>1 DEF TokenRecorded, Recorded
  <2>3. /\ exchanges'[w].row.user = t.sub /\ exchanges'[w].row.session = t.login
        /\ exchanges'[w].row.agent = a
        /\ exchanges'[w].row.expires = now + DelegatedTTL
    BY <1>2, <1>4
  <2> QED BY <1>3, <1>4, <2>1, <2>2, <2>3 DEF PendingRow, Recorded
<1>6. ASSUME NEW v \in Workers \ {w}, exchanges'[v].at = "flushed" PROVE PendingRow(v)'
  <2>1. exchanges[v].at = "flushed" /\ PendingRow(v)
    BY <1>4, <1>6 DEF RecordInv
  <2>2. delegations'[exchanges[v].did] = None
    BY <1>3, <2>1 DEF PendingRow
  <2>3. \A x \in Workers \ {v} :
          exchanges'[x].at = "flushed" => exchanges'[x].did # exchanges[v].did
    BY <1>3, <1>4, <2>1 DEF PendingRow
  <2> QED BY <1>4, <1>6, <2>1, <2>2, <2>3, PendingKept
<1>7. DelegationsAreRecorded'
  BY <1>3 DEF RecordInv, DelegationsAreRecorded
<1>8. \A v \in Workers : exchanges'[v].at = "verified" => exchanges'[v].subject \in tokens'
  BY <1>3 DEF ExchangeDelegate, RecordInv, TypeOK
<1> QED BY <1>5, <1>6, <1>7, <1>8 DEF RecordInv

LEMMA NextRecord == TypeOK /\ LineageInv /\ RecordInv /\ [Next]_vars => RecordInv'
<1> SUFFICES ASSUME TypeOK, LineageInv, RecordInv, [Next]_vars PROVE RecordInv'
  OBVIOUS
<1>1. CASE tokens' = tokens /\ exchanges' = exchanges
  <2>1. \A w \in Workers : ~Commits(w)
    BY <1>1, CommitWrites DEF Writes, TypeOK
  <2> QED BY <1>1, <2>1, RecordQuiet DEF RecordInv
<1>2. ASSUME NEW u \in Users, NEW s \in SessionIds, Login(u, s) PROVE RecordInv'
  <2>1. \A t \in tokens' : t \in tokens \/ TokenRecorded(t)'
    <3> SUFFICES ASSUME NEW t \in tokens', t \notin tokens PROVE TokenRecorded(t)'
      OBVIOUS
    <3>1. t.chain = {} /\ t.act = None /\ t.did = None
      BY <1>2 DEF Login, AccessToken
    <3> QED BY <3>1 DEF TokenRecorded, Recorded
  <2>2. exchanges' = exchanges /\ tokens \subseteq tokens'
    BY <1>2 DEF Login
  <2>3. \A w \in Workers : ~Commits(w)
    BY <2>2, CommitWrites DEF Writes, TypeOK
  <2> QED BY <2>1, <2>2, <2>3, RecordQuiet DEF RecordInv
<1>3. ASSUME NEW w \in Workers, NEW t \in tokens, ExchangeVerify(w, t) PROVE RecordInv'
  <2>1. \A v \in Workers : ~Commits(v)
    <3> SUFFICES ASSUME NEW v \in Workers, Commits(v) PROVE FALSE
      OBVIOUS
    <3>1. exchanges[v].at = "flushed" /\ exchanges' = [exchanges EXCEPT ![v] = Idle]
      BY CommitWrites DEF Writes
    <3>2. exchanges'[w].at = "verified"
      BY <1>3 DEF ExchangeVerify, TypeOK
    <3> QED BY <1>3, <3>1, <3>2 DEF ExchangeVerify, TypeOK
  <2>2. /\ \A v \in Workers : exchanges'[v].at = "flushed" => exchanges'[v] = exchanges[v]
        /\ \A v \in Workers : exchanges'[v].at = "verified" => exchanges'[v].subject \in tokens'
    BY <1>3 DEF ExchangeVerify, RecordInv, TypeOK
  <2>3. tokens' = tokens
    BY <1>3 DEF ExchangeVerify
  <2> QED BY <2>1, <2>2, <2>3, RecordQuiet
<1>4. ASSUME NEW w \in Workers, ExchangeFail(w) PROVE RecordInv'
  <2>2. delegations' = delegations /\ tokens' = tokens
    BY <1>4 DEF ExchangeFail
  <2>3. /\ \A v \in Workers : exchanges'[v].at = "flushed" => exchanges'[v] = exchanges[v]
        /\ \A v \in Workers : exchanges'[v].at = "verified" => exchanges'[v].subject \in tokens'
    BY <1>4 DEF ExchangeFail, RecordInv, TypeOK
  <2>4. \A v \in Workers : exchanges'[v].at = "flushed" => PendingRow(v)'
    <3> SUFFICES ASSUME NEW v \in Workers, exchanges'[v].at = "flushed" PROVE PendingRow(v)'
      OBVIOUS
    <3>1. exchanges[v].at = "flushed" /\ PendingRow(v) /\ exchanges'[v] = exchanges[v]
      BY <2>3 DEF RecordInv
    <3>2. \A x \in Workers \ {v} :
            exchanges'[x].at = "flushed" => exchanges'[x].did # exchanges[v].did
      BY <2>3, <3>1 DEF PendingRow
    <3> QED BY <2>2, <3>1, <3>2, PendingKept DEF PendingRow
  <2> QED BY <2>2, <2>3, <2>4 DEF RecordInv, DelegationsAreRecorded
<1>5. \/ tokens' = tokens /\ exchanges' = exchanges
      \/ \E u \in Users, s \in SessionIds : Login(u, s)
      \/ ExchangeStep
  BY DEF Next, SessionStep, RecordStep, vars, Logout, RevokeSessionsRead,
     RevokeSessionsCommit, PurgeExpired, GrantAgent, RevokeAgent, RevokeDelegation,
     RevokeDelegationsRead, RevokeDelegationsCommit, RevokeFail, IssueApiKey,
     RevokeApiKey, SetActive, Tick
<1> QED
  BY <1>1, <1>2, <1>3, <1>4, <1>5, CommitRecords, InsertRecords DEF ExchangeStep, Commits

\* Every delegated token can be traced through the records of the exchanges
\* it descends from.
THEOREM RecordTheorem == Spec => []DelegationsAreRecorded
<1>1. Init => LineageInv /\ RecordInv
  BY DEF Init, LineageInv, Issued, RecordInv, DelegationsAreRecorded, Idle
<1>2. RecordInv => DelegationsAreRecorded
  BY DEF RecordInv
<1> QED BY <1>1, <1>2, InitType, NextType, NextLineage, NextRecord, PTL DEF Spec

----------------------------------------------------------------------------
\* The foreign key: no purge removes a session a delegation refers to.

Held(rows, s) == s \in SessionIds /\ rows[s] \notin {None, Purged}

HoldInv ==
  /\ \A d \in DelegationIds : delegations[d] # None => Held(sessions, delegations[d].session)
  /\ \A w \in Workers : exchanges[w].at = "flushed" => Held(sessions, exchanges[w].row.session)

LEMMA HeldKept ==
  ASSUME TypeOK, [Next]_vars, ~PurgeExpired, NEW s, Held(sessions, s)
  PROVE  Held(sessions', s)
<1>1. sessions'[s] # None
  BY SessionsKept DEF SessionKept, Held
<1>2. sessions'[s] # Purged
  <2> USE RowsAssumption, IdentifiersAssumption DEF Held
  <2>1. CASE sessions' = sessions
    BY <2>1
  <2>2. ASSUME NEW u \in Users, NEW r \in SessionIds, Login(u, r) PROVE sessions'[s] # Purged
    BY <2>2 DEF Login, TypeOK
  <2>3. ASSUME NEW t \in tokens, Logout(t) PROVE sessions'[s] # Purged
    <3>1. t.sid \in SessionIds /\ Revoked(sessions[t.sid]) \in Session
      BY <2>3, RevokedRows DEF Logout, TypeOK, Authenticates, Verified, ActiveSession
    <3>2. \/ sessions'[s] = sessions[s]
          \/ sessions'[s] = Revoked(sessions[t.sid])
      BY <2>3, <3>1 DEF Logout, TypeOK
    <3> QED BY <3>1, <3>2
  <2>4. ASSUME NEW r \in Revokers, RevokeSessionsCommit(r) PROVE sessions'[s] # Purged
    <3>1. sessions'[s] \in {sessions[s], Revoked(sessions[s])} /\ sessions[s] \in Session
      BY <2>4 DEF RevokeSessionsCommit, TypeOK
    <3> QED BY <3>1, RevokedRows
  <2>5. sessions' # sessions => SessionStep
    BY DEF Next, RecordStep, ExchangeStep, vars, GrantAgent, RevokeAgent,
       RevokeDelegation, RevokeDelegationsRead, RevokeDelegationsCommit, RevokeFail,
       IssueApiKey, RevokeApiKey, ExchangeVerify, ExchangeDelegate, ExchangeCommit,
       ExchangeWithoutToken, ExchangeFail, SetActive, Tick
  <2> QED BY <2>1, <2>2, <2>3, <2>4, <2>5 DEF SessionStep, RevokeSessionsRead
<1> QED BY <1>1, <1>2 DEF Held

LEMMA NextHold ==
  TypeOK /\ LineageInv /\ RecordInv /\ HoldInv /\ [Next]_vars => HoldInv'
<1> SUFFICES ASSUME TypeOK, LineageInv, RecordInv, HoldInv, [Next]_vars PROVE HoldInv'
  OBVIOUS
<1>1. CASE PurgeExpired
  <2>1. \A s : Held(sessions, s) /\ s \notin Expired => Held(sessions', s)
    BY <1>1 DEF PurgeExpired, Held
  <2> QED BY <1>1, <2>1 DEF PurgeExpired, HoldInv
<1>2. CASE ~PurgeExpired
  <2>1. \A s : Held(sessions, s) => Held(sessions', s)
    BY <1>2, HeldKept
  <2>2. ASSUME NEW d \in DelegationIds, delegations'[d] # None
        PROVE  Held(sessions', delegations'[d].session)
    <3>1. CASE delegations[d] # None
      BY <2>1, <3>1, DelegationsKept DEF DelegationKept, HoldInv
    <3>2. CASE delegations[d] = None
      <4>1. PICK w \in Workers : Commits(w)
        BY <2>2, <3>2, NoCommit
      <4>2. Writes(w) /\ exchanges[w].at = "flushed"
        BY <4>1, CommitWrites
      <4>3. exchanges[w].row \in Delegation /\ Held(sessions, exchanges[w].row.session)
        BY <4>2, ExchangeParts DEF HoldInv
      <4>4. PICK signed \in BOOLEAN :
              delegations' = [delegations EXCEPT ![exchanges[w].did] =
                                [exchanges[w].row EXCEPT !.signed = signed]]
        BY <4>2 DEF Writes
      <4>5. delegations'[d] = [exchanges[w].row EXCEPT !.signed = signed]
        BY <2>2, <3>2, <4>4 DEF TypeOK
      <4>6. delegations'[d].session = exchanges[w].row.session
        BY <4>3, <4>5
      <4> QED BY <2>1, <4>3, <4>6 DEF Held
    <3> QED BY <3>1, <3>2
  <2>3. ASSUME NEW w \in Workers, exchanges'[w].at = "flushed"
        PROVE  Held(sessions', exchanges'[w].row.session)
    <3>1. CASE exchanges'[w] = exchanges[w]
      BY <2>1, <2>3, <3>1 DEF HoldInv, Held
    <3>2. ASSUME NEW a \in Agents, NEW d \in DelegationIds, ExchangeDelegate(w, a, d)
          PROVE  Held(sessions', exchanges'[w].row.session)
      <4> DEFINE t == exchanges[w].subject
      <4>1. t \in Issued /\ t \in Token
        BY <3>2, ExchangeParts DEF ExchangeDelegate, Issued
      <4>2. t.sid = t.login /\ t.login \in SessionIds /\ sessions[t.login] # None
        BY <4>1 DEF LineageInv, Lineage
      <4>3. sessions[t.sid] # Purged
        BY <3>2, <4>2, IdentifiersAssumption DEF ExchangeDelegate
      <4>4. exchanges'[w].row.session = t.sid /\ sessions' = sessions
        BY <3>2 DEF ExchangeDelegate, TypeOK
      <4> QED BY <4>2, <4>3, <4>4 DEF Held
    <3>3. \/ exchanges'[w] = exchanges[w]
          \/ \E a \in Agents, d \in DelegationIds : ExchangeDelegate(w, a, d)
      <4>1. CASE ExchangeStep
        <5>1. PICK v \in Workers :
                 \/ \E t \in tokens : ExchangeVerify(v, t)
                 \/ \E a \in Agents, d \in DelegationIds : ExchangeDelegate(v, a, d)
                 \/ Commits(v)
                 \/ ExchangeFail(v)
          BY <4>1 DEF ExchangeStep, Commits
        <5>2. v # w => exchanges'[w] = exchanges[w]
          BY <5>1, CommitWrites DEF ExchangeVerify, ExchangeDelegate, Writes, ExchangeFail, TypeOK
        <5>3. ~\E t \in tokens : ExchangeVerify(w, t)
          BY <2>3 DEF ExchangeVerify, TypeOK
        <5>4. ~Commits(w) /\ ~ExchangeFail(w)
          BY <2>3, CommitWrites DEF Writes, ExchangeFail, TypeOK
        <5> QED BY <5>1, <5>2, <5>3, <5>4
      <4>2. CASE ~ExchangeStep
        BY <4>2 DEF Next, SessionStep, RecordStep, vars, Login, Logout,
           RevokeSessionsRead, RevokeSessionsCommit, PurgeExpired, GrantAgent, RevokeAgent, RevokeDelegation,
           RevokeDelegationsRead, RevokeDelegationsCommit, RevokeFail, IssueApiKey, RevokeApiKey, SetActive, Tick
      <4> QED BY <4>1, <4>2
    <3> QED BY <3>1, <3>2, <3>3
  <2> QED BY <2>2, <2>3 DEF HoldInv
<1> QED BY <1>1, <1>2

\* A session with a delegation, committed or about to be, is never purged.
THEOREM HoldTheorem == Spec => []DelegationsKeepTheirSession
<1>1. Init => LineageInv /\ RecordInv /\ HoldInv
  BY DEF Init, LineageInv, Issued, RecordInv, DelegationsAreRecorded, HoldInv, Idle
<1>2. HoldInv => DelegationsKeepTheirSession
  BY DEF HoldInv, Held, DelegationsKeepTheirSession
<1> QED
  BY <1>1, <1>2, InitType, NextType, NextLineage, NextRecord, NextHold, PTL DEF Spec

----------------------------------------------------------------------------
\* What is dead stays dead.

LEMMA DeadSession ==
  ASSUME NEW s \in SessionIds, SessionKept(s), now \in Nat, now' \in Nat, now =< now',
         sessions[s] \in Session \union {Purged}, ~ActiveSession(s)
  PROVE  ~ActiveSession(s)'
BY RowsAssumption, IdentifiersAssumption DEF SessionKept, ActiveSession

LEMMA DeadStaysDead ==
  ASSUME TypeOK, LineageInv, RecordInv, [Next]_vars, NEW t \in tokens, DeadToken(t)
  PROVE  DeadToken(t)'
<1>0. /\ t \in Token /\ now \in Nat /\ now' \in Nat /\ now =< now'
      /\ sessions \in [SessionIds -> Session \union {None, Purged}]
      /\ sessions' \in [SessionIds -> Session \union {None, Purged}]
      /\ delegations \in [DelegationIds -> Delegation \union {None}]
      /\ delegations' \in [DelegationIds -> Delegation \union {None}]
  BY NextType, ClockForward DEF TypeOK
<1>1. CASE t.exp =< now
  BY <1>0, <1>1 DEF DeadToken, Verified
<1>2. CASE t.sid # None /\ ~ActiveSession(t.sid)
  <2>1. t.sid \in SessionIds /\ SessionKept(t.sid)
    BY <1>0, <1>2, SessionsKept
  <2>2. sessions[t.sid] \in Session \union {Purged}
    BY <1>0, <2>1 DEF LineageInv, Lineage, Issued
  <2>3. ~ActiveSession(t.sid)'
    BY <1>0, <1>2, <2>1, <2>2, DeadSession
  <2> QED BY <1>2, <2>3 DEF DeadToken, Verified
<1>3. CASE t.did # None /\ ~ActiveDelegation(t.did)
  <2>1. t.did \in DelegationIds /\ DelegationKept(t.did) /\ TokenRecorded(t)
    BY <1>0, <1>3, DelegationsKept, RecordedTokens DEF RecordInv
  <2>2. delegations[t.did] # None
    BY <1>3, <2>1 DEF TokenRecorded, Recorded
  <2>3. /\ delegations[t.did].revoked \/ delegations[t.did].expires =< now
        /\ delegations[t.did] \in Delegation /\ delegations'[t.did] \in Delegation
        /\ delegations'[t.did].expires = delegations[t.did].expires
        /\ delegations[t.did].revoked => delegations'[t.did].revoked
    BY <1>0, <1>3, <2>1, <2>2 DEF ActiveDelegation, DelegationKept
  <2>4. ~ActiveDelegation(t.did)'
    BY <1>0, <2>3 DEF ActiveDelegation
  <2> QED BY <1>3, <2>4 DEF DeadToken
<1> QED BY <1>0, <1>1, <1>2, <1>3 DEF DeadToken, Verified

KeyKept(k) ==
  api_keys[k] # None =>
    /\ api_keys'[k] # None
    /\ api_keys'[k].expires = api_keys[k].expires
    /\ api_keys[k].revoked => api_keys'[k].revoked

LEMMA KeysKept ==
  ASSUME TypeOK, [Next]_vars, NEW k \in ApiKeyIds
  PROVE  KeyKept(k)
<1> USE RowsAssumption
<1>1. CASE api_keys' = api_keys
  BY <1>1 DEF KeyKept
<1>2. ASSUME NEW j \in ApiKeyIds, NEW o \in Owners, NEW ttl \in KeyTTLs,
             IssueApiKey(j, o, ttl)
      PROVE  KeyKept(k)
  BY <1>2 DEF IssueApiKey, KeyKept, TypeOK
<1>3. ASSUME NEW j \in ApiKeyIds, RevokeApiKey(j) PROVE KeyKept(k)
  BY <1>3, RevokedRows DEF RevokeApiKey, KeyKept, TypeOK, Revoked
<1>4. api_keys' # api_keys => RecordStep
  BY DEF Next, SessionStep, ExchangeStep, vars, Login, Logout, RevokeSessionsRead,
     RevokeSessionsCommit, PurgeExpired, ExchangeVerify, ExchangeDelegate,
     ExchangeCommit, ExchangeWithoutToken, ExchangeFail, SetActive, Tick
<1>5. \/ api_keys' = api_keys
      \/ \E j \in ApiKeyIds, o \in Owners, ttl \in KeyTTLs : IssueApiKey(j, o, ttl)
      \/ \E j \in ApiKeyIds : RevokeApiKey(j)
  BY <1>4 DEF RecordStep, GrantAgent, RevokeAgent, RevokeDelegation,
     RevokeDelegationsRead, RevokeDelegationsCommit, RevokeFail
<1> QED BY <1>1, <1>2, <1>3, <1>5

LEMMA DeadKeyStaysDead ==
  ASSUME TypeOK, [Next]_vars, NEW k \in ApiKeyIds, DeadKey(k)
  PROVE  ~KeyAuthenticates(k)'
<1>1. /\ now \in Nat /\ now' \in Nat /\ now =< now'
      /\ api_keys[k] \in ApiKey
  BY NextType, ClockForward DEF TypeOK, DeadKey
<1>2. KeyKept(k)
  BY KeysKept
<1>3. CASE api_keys[k].revoked
  BY <1>2, <1>3 DEF DeadKey, KeyKept, KeyAuthenticates
<1>4. CASE api_keys[k].expires # None /\ api_keys[k].expires =< now
  <2>1. /\ api_keys[k].expires \in Nat
        /\ api_keys'[k].expires = api_keys[k].expires
    BY <1>1, <1>2, <1>4 DEF DeadKey, KeyKept
  <2> QED BY <1>1, <1>4, <2>1 DEF KeyAuthenticates
<1> QED BY <1>3, <1>4 DEF DeadKey

\* A token or key that was revoked, expired or lost its session or delegation
\* never works again.
THEOREM NoResurrectionTheorem == Spec => NoResurrection
<1>1. Init => LineageInv /\ RecordInv
  BY DEF Init, LineageInv, Issued, RecordInv, DelegationsAreRecorded, Idle
<1>2. TypeOK /\ LineageInv /\ RecordInv /\ [Next]_vars
        => [ /\ \A t \in tokens : DeadToken(t) => ~Authenticates(t)'
             /\ \A k \in ApiKeyIds : DeadKey(k) => ~KeyAuthenticates(k)' ]_vars
  <2> SUFFICES ASSUME TypeOK, LineageInv, RecordInv, [Next]_vars
               PROVE  /\ \A t \in tokens : DeadToken(t) => ~Authenticates(t)'
                      /\ \A k \in ApiKeyIds : DeadKey(k) => ~KeyAuthenticates(k)'
    OBVIOUS
  <2>1. ASSUME NEW t \in tokens, DeadToken(t) PROVE ~Authenticates(t)'
    <3>1. DeadToken(t)'
      BY <2>1, DeadStaysDead
    <3>2. t.did # None => t.act # None
      <4> SUFFICES ASSUME t.did # None PROVE t.act \in Agents
        BY IdentifiersAssumption
      <4>1. TokenRecorded(t) /\ t.did \in DelegationIds
        BY RecordedTokens DEF RecordInv, TypeOK
      <4>2. delegations[t.did] # None /\ delegations[t.did].agent = t.act
        BY <4>1 DEF TokenRecorded, Recorded
      <4>3. delegations[t.did] \in Delegation
        BY <4>1, <4>2 DEF TypeOK
      <4>4. delegations[t.did].agent \in Agents
        BY <4>3
      <4> QED BY <4>2, <4>4
    <3> QED BY <3>1, <3>2 DEF DeadToken, Authenticates
  <2> QED BY <2>1, DeadKeyStaysDead
<1> QED
  BY <1>1, <1>2, InitType, NextType, NextLineage, NextRecord, PTL DEF Spec, NoResurrection

\* The tokens a revocation must stop: the delegation each names is among the
\* rows it selected, or is revoked already.
Stoppable(r) ==
  \A t \in revocations[r].held :
    /\ t.act # None
    /\ t.did \in DelegationIds
    /\ delegations[t.did] # None
    /\ t.did \in revocations[r].rows \/ delegations[t.did].revoked

RevokeInv == \A r \in Revokers : revocations[r].at = "delegations" => Stoppable(r)

LEMMA NextRevoke ==
  ASSUME TypeOK, RecordInv, RevokeInv, [Next]_vars
  PROVE  RevokeInv'
<1> SUFFICES ASSUME NEW r \in Revokers, revocations'[r].at = "delegations"
             PROVE  Stoppable(r)'
  BY DEF RevokeInv
<1>1. CASE revocations'[r] = revocations[r]
  BY <1>1, DelegationsKept DEF RevokeInv, Stoppable, DelegationKept
<1>2. ASSUME NEW u \in Users, RevokeDelegationsRead(r, u) PROVE Stoppable(r)'
  <2>1. /\ revocations'[r].held = {t \in tokens : t.sub = u /\ t.act # None}
        /\ revocations'[r].rows = {d \in DelegationIds : /\ delegations[d] # None
                                                       /\ delegations[d].user = u
                                                       /\ ~delegations[d].revoked}
        /\ delegations' = delegations
    BY <1>2 DEF RevokeDelegationsRead, TypeOK
  <2>2. ASSUME NEW t \in tokens, t.sub = u, t.act # None
        PROVE  /\ t.did \in DelegationIds
               /\ delegations[t.did] # None /\ delegations[t.did].user = u
    <3>1. t \in Token /\ TokenRecorded(t)
      BY RecordedTokens DEF RecordInv, TypeOK
    <3> QED BY <2>2, <3>1 DEF TokenRecorded, Recorded
  <2> QED BY <2>1, <2>2 DEF Stoppable
<1>3. \/ revocations'[r] = revocations[r]
      \/ \E u \in Users : RevokeDelegationsRead(r, u)
  <2>1. CASE revocations' = revocations
    BY <2>1
  <2>2. ASSUME NEW q \in Revokers, NEW u \in Users,
               RevokeSessionsRead(q, u) \/ RevokeDelegationsRead(q, u)
        PROVE  \/ revocations'[r] = revocations[r]
               \/ RevokeDelegationsRead(r, u)
    BY <2>2 DEF RevokeSessionsRead, RevokeDelegationsRead, TypeOK
  <2>3. ASSUME NEW q \in Revokers,
               RevokeSessionsCommit(q) \/ RevokeDelegationsCommit(q) \/ RevokeFail(q)
        PROVE  revocations'[r] = revocations[r]
    BY <2>3 DEF RevokeSessionsCommit, RevokeDelegationsCommit, RevokeFail, TypeOK
  <2>4. \/ revocations' = revocations
        \/ \E q \in Revokers, u \in Users :
             RevokeSessionsRead(q, u) \/ RevokeDelegationsRead(q, u)
        \/ \E q \in Revokers :
             RevokeSessionsCommit(q) \/ RevokeDelegationsCommit(q) \/ RevokeFail(q)
    BY DEF Next, SessionStep, RecordStep, ExchangeStep, vars, Login, Logout,
       PurgeExpired, GrantAgent, RevokeAgent, RevokeDelegation, IssueApiKey,
       RevokeApiKey, ExchangeVerify, ExchangeDelegate, ExchangeCommit,
       ExchangeWithoutToken, ExchangeFail, SetActive, Tick
  <2> QED BY <2>1, <2>2, <2>3, <2>4
<1> QED BY <1>1, <1>2, <1>3

\* When a revocation of a user's delegations commits, every agent token of the
\* user that a client held when it began has stopped.
THEOREM RevokeAllTheorem == Spec => RevokeAllStopsAgents
<1>1. Init => LineageInv /\ RecordInv /\ RevokeInv
  BY DEF Init, LineageInv, Issued, RecordInv, DelegationsAreRecorded, RevokeInv, Idle
<1>2. TypeOK /\ RevokeInv /\ [Next]_vars
        => [ \A r \in Revokers :
               RevokeDelegationsCommit(r) =>
                 \A t \in revocations[r].held : ~Authenticates(t)' ]_vars
  <2> SUFFICES ASSUME TypeOK, RevokeInv, NEW r \in Revokers, RevokeDelegationsCommit(r),
                      NEW t \in revocations[r].held
               PROVE  ~Authenticates(t)'
    OBVIOUS
  <2>1. /\ t.act # None /\ t.did \in DelegationIds
        /\ delegations[t.did] \in Delegation
        /\ t.did \in revocations[r].rows \/ delegations[t.did].revoked
    BY DEF RevokeInv, Stoppable, RevokeDelegationsCommit, TypeOK
  <2>2. delegations'[t.did] = IF t.did \in revocations[r].rows
                              THEN Revoked(delegations[t.did]) ELSE delegations[t.did]
    BY <2>1 DEF RevokeDelegationsCommit
  <2>3. delegations'[t.did].revoked
    BY <2>1, <2>2 DEF Revoked
  <2>4. t.did # None
    BY <2>1, IdentifiersAssumption
  <2> QED BY <2>1, <2>3, <2>4 DEF Authenticates, ActiveDelegation
<1>3. TypeOK /\ RecordInv /\ RevokeInv /\ [Next]_vars => RevokeInv'
  BY NextRevoke
<1> QED
  BY <1>1, <1>2, <1>3, InitType, NextType, NextLineage, NextRecord, PTL
  DEF Spec, RevokeAllStopsAgents

----------------------------------------------------------------------------
\* The promise of Authority.

Begun == {s \in SessionIds : sessions[s] # None}
Given == {d \in DelegationIds : delegations[d] # None}

Credential(t) == [login |-> t.login, user |-> t.sub, agent |-> t.act, mandate |-> t.did]

AuthInv == TypeOK /\ LineageInv /\ RecordInv

\* A token that is not dead is backed by the login and the delegation that
\* Authority knows.
LEMMA LiveIsBacked ==
  ASSUME AuthInv, NEW t \in tokens, ~DeadToken(t)
  PROVE  Promise!Backed(Credential(t))
<1>1. t \in Token /\ Lineage(t) /\ TokenRecorded(t)
  BY RecordedTokens DEF AuthInv, LineageInv, Issued, TypeOK, RecordInv
<1>2. t.sid = t.login /\ t.login \in SessionIds /\ t.sid # None
  BY <1>1, IdentifiersAssumption DEF Lineage
<1>3. ActiveSession(t.login) /\ sessions[t.login].subject = t.sub
  BY <1>1, <1>2 DEF DeadToken, Verified, Lineage, ActiveSession
<1>4. <<t.login, t.sub>> \in Open
  BY <1>2, <1>3 DEF Open
<1>5. ASSUME t.act # None PROVE <<t.did, t.sub, t.act>> \in Live
  <2>1. /\ t.did \in DelegationIds
        /\ delegations[t.did].agent = t.act /\ delegations[t.did].user = t.sub
    BY <1>1, <1>5 DEF TokenRecorded, Recorded
  <2>2. ActiveDelegation(t.did)
    BY <2>1, IdentifiersAssumption DEF DeadToken
  <2> QED BY <2>1, <2>2 DEF Live
<1> QED BY <1>4, <1>5 DEF Promise!Backed, Credential

LEMMA WorkingTokens == Working = {Credential(t) : t \in {x \in tokens : ~DeadToken(x)}}
BY DEF Working, Credential

\* A session row appears by a login only.
LEMMA LoginOpens ==
  ASSUME TypeOK, [Next]_vars, NEW s \in SessionIds, sessions[s] = None, sessions'[s] # None
  PROVE  \E u \in Users : Login(u, s)
<1>1. SessionStep
  BY DEF Next, RecordStep, ExchangeStep, vars, GrantAgent, RevokeAgent,
     RevokeDelegation, RevokeDelegationsRead, RevokeDelegationsCommit, RevokeFail,
     IssueApiKey, RevokeApiKey, ExchangeVerify, ExchangeDelegate, ExchangeCommit,
     ExchangeWithoutToken, ExchangeFail, SetActive, Tick
<1>2. ASSUME NEW t \in tokens, Logout(t) PROVE FALSE
  <2>1. t.sid \in SessionIds /\ sessions[t.sid] # None
    BY <1>2 DEF Logout, TypeOK, Authenticates, Verified, ActiveSession
  <2> QED BY <1>2, <2>1 DEF Logout, TypeOK
<1>3. ASSUME NEW r \in Revokers, RevokeSessionsCommit(r) PROVE FALSE
  BY <1>3 DEF RevokeSessionsCommit
<1>4. ~PurgeExpired
  BY DEF PurgeExpired, Expired
<1>5. ASSUME NEW u \in Users, NEW r \in SessionIds, Login(u, r) PROVE r = s
  BY <1>5 DEF Login, TypeOK
<1> QED BY <1>1, <1>2, <1>3, <1>4, <1>5 DEF SessionStep, RevokeSessionsRead

\* What was not open before a step is open after it by a login only, and what
\* was not live by a commit only.
LEMMA OpenShrinks ==
  ASSUME TypeOK, [Next]_vars, NEW s \in SessionIds, sessions[s] # None,
         ActiveSession(s)'
  PROVE  ActiveSession(s) /\ sessions'[s].subject = sessions[s].subject
<1>1. /\ now \in Nat /\ now' \in Nat /\ now =< now'
      /\ sessions[s] \in Session \union {Purged}
  BY NextType, ClockForward DEF TypeOK
<1>2. SessionKept(s)
  BY SessionsKept
<1> QED BY <1>1, <1>2, DeadSession DEF SessionKept, ActiveSession

LEMMA LiveShrinks ==
  ASSUME AuthInv, [Next]_vars, NEW d \in DelegationIds, delegations[d] # None,
         ActiveDelegation(d)'
  PROVE  /\ ActiveDelegation(d)
         /\ delegations'[d].user = delegations[d].user
         /\ delegations'[d].agent = delegations[d].agent
<1>1. /\ now \in Nat /\ now' \in Nat /\ now =< now'
      /\ delegations[d] \in Delegation
  BY NextType, ClockForward DEF TypeOK, AuthInv
<1>2. DelegationKept(d)
  BY DelegationsKept DEF AuthInv
<1> QED BY <1>1, <1>2 DEF DelegationKept, ActiveDelegation

\* A login is a Begin.
LEMMA LoginPromised ==
  ASSUME AuthInv, NEW u \in Users, NEW s \in SessionIds, Login(u, s)
  PROVE  Promise!Begin(s, u)
<1>1. /\ sessions' = [sessions EXCEPT ![s] =
           [subject |-> u, expires |-> now + SessionTTL, revoked |-> FALSE]]
      /\ tokens' = tokens \union {AccessToken(u, s)}
      /\ now' = now /\ delegations' = delegations
      /\ sessions[s] = None /\ now \in Nat
      /\ sessions \in [SessionIds -> Session \union {None, Purged}]
  BY DEF Login, AuthInv, TypeOK
<1>2. /\ sessions'[s] = [subject |-> u, expires |-> now + SessionTTL, revoked |-> FALSE]
      /\ \A r \in SessionIds : r # s => sessions'[r] = sessions[r]
      /\ now < now + SessionTTL /\ now < now + AccessTTL
  BY <1>1, LifetimesAssumption
<1>3. sessions'[s] \in Session
  BY <1>1, <1>2, LifetimesAssumption
<1>4. sessions'[s] \notin {None, Purged}
  BY <1>3, RowsAssumption
<1>5. ActiveSession(s)' /\ sessions'[s].subject = u /\ ~ActiveSession(s)
  BY <1>1, <1>2, <1>4 DEF ActiveSession
<1>6. \A r \in SessionIds : r # s => (ActiveSession(r)' <=> ActiveSession(r))
  BY <1>1, <1>2 DEF ActiveSession
<1>7. s \notin Begun /\ Begun' = Begun \union {s}
  BY <1>1, <1>2, <1>4 DEF Begun
<1>8. Open' = Open \union {<<s, u>>}
  BY <1>2, <1>5, <1>6 DEF Open
<1>9. Given' = Given /\ Live' = Live
  BY <1>1 DEF Given, Live, ActiveDelegation
<1>10. ASSUME NEW t \in tokens PROVE DeadToken(t)' <=> DeadToken(t)
  <2>1. t \in Token /\ t.sid \in SessionIds /\ sessions[t.sid] # None
    BY DEF AuthInv, LineageInv, Lineage, Issued, TypeOK
  <2>2. ActiveSession(t.sid)' <=> ActiveSession(t.sid)
    BY <1>1, <1>6, <2>1
  <2> QED BY <1>1, <2>2 DEF DeadToken, Verified, ActiveDelegation
<1> DEFINE new == AccessToken(u, s)
<1>12. Credential(new) = Promise!Credential(s, u, None, None)
  BY DEF Credential, AccessToken, Promise!Credential
<1>13. Working' = Working \union {Promise!Credential(s, u, None, None)}
  <2>1. Working' = {Credential(t) : t \in {x \in tokens' : ~DeadToken(x)'}}
    BY DEF Working, Credential
  <2>2. {x \in tokens' : ~DeadToken(x)'}
          = {x \in tokens : ~DeadToken(x)} \union {new}
    <3>1. tokens' = tokens \union {new}
      BY <1>1
    <3>2. PICK t : t = new /\ ~DeadToken(t)'
      <4>1. PICK t : t = AccessToken(u, s)
        OBVIOUS
      <4> QED BY <1>1, <1>2, <1>5, <4>1 DEF DeadToken, Verified, AccessToken
    <3> QED BY <1>10, <3>1, <3>2
  <2> QED BY <1>12, <2>1, <2>2, WorkingTokens
<1> QED BY <1>7, <1>8, <1>9, <1>13 DEF Promise!Begin, Begun, Given

\* The commit of an exchange is a Delegate; a DelegateInVain if the token is lost
\* or its session over; or a DelegateTooLate if the row it commits has expired.
LEMMA CommitPromised ==
  ASSUME AuthInv, NEW w \in Workers, Commits(w)
  PROVE  \/ \E l \in SessionIds, u \in Users, a \in Agents, d \in DelegationIds :
              Promise!Delegate(l, u, a, d)
         \/ \E u \in Users, a \in Agents, d \in DelegationIds : Promise!DelegateInVain(u, a, d)
         \/ \E d \in DelegationIds : Promise!DelegateTooLate(d)
<1>0. exchanges[w].at = "flushed" /\ Writes(w)
  BY CommitWrites DEF AuthInv
<1>1. PICK t \in Token, d \in DelegationIds, row \in Delegation :
        t = exchanges[w].token /\ d = exchanges[w].did /\ row = exchanges[w].row
  BY <1>0, ExchangeParts DEF AuthInv
<1>2. /\ delegations[d] = None /\ t.did = d
      /\ row.user = t.sub /\ row.agent = t.act /\ row.expires = t.exp
  BY <1>0, <1>1 DEF AuthInv, RecordInv, PendingRow
<1>3. Lineage(t) /\ t.sid \in SessionIds /\ t.sid # None
  <2>1. t \in Issued
    BY <1>0, <1>1 DEF Issued
  <2> QED BY <2>1, IdentifiersAssumption DEF AuthInv, LineageInv, Lineage
<1>4. /\ tokens \subseteq tokens' /\ tokens' \subseteq tokens \union {t}
      /\ now' = now /\ sessions' = sessions
      /\ delegations \in [DelegationIds -> Delegation \union {None}]
  BY <1>0, <1>1 DEF Writes, AuthInv, TypeOK
<1>5. /\ delegations'[d] # None
      /\ delegations'[d].user = t.sub /\ delegations'[d].agent = t.act
      /\ delegations'[d].expires = t.exp
      /\ \A x \in DelegationIds : x # d => delegations'[x] = delegations[x]
  <2>1. PICK signed \in BOOLEAN :
          delegations' = [delegations EXCEPT ![d] = [row EXCEPT !.signed = signed]]
    BY <1>0, <1>1 DEF Writes
  <2>2. delegations'[d] = [row EXCEPT !.signed = signed]
    BY <1>4, <2>1
  <2>3. delegations'[d] \in Delegation
    BY <2>2
  <2> QED BY <1>2, <1>4, <2>1, <2>2, <2>3, RowsAssumption
<1>6. \A x \in DelegationIds : x # d => (ActiveDelegation(x)' <=> ActiveDelegation(x))
  BY <1>4, <1>5 DEF ActiveDelegation
<1>7. Begun' = Begun /\ Open' = Open
  BY <1>4 DEF Begun, Open, ActiveSession
<1>8. d \notin Given /\ Given' = Given \union {d}
  BY <1>2, <1>5 DEF Given
<1>9. ASSUME NEW x \in tokens PROVE DeadToken(x)' <=> DeadToken(x)
  <2>1. x \in Token /\ TokenRecorded(x)
    BY RecordedTokens DEF AuthInv, RecordInv, TypeOK
  <2>2. x.did # None => x.did \in DelegationIds /\ x.did # d
    BY <1>2, <2>1 DEF TokenRecorded, Recorded
  <2>3. Verified(x)' <=> Verified(x)
    BY <1>4 DEF Verified, ActiveSession
  <2> QED BY <1>6, <2>2, <2>3 DEF DeadToken
<1>10. Working' = {Credential(x) : x \in {y \in tokens' : ~DeadToken(y)'}}
  BY DEF Working, Credential
<1>11. ~ActiveDelegation(d) /\ d # None
  BY <1>2, IdentifiersAssumption DEF ActiveDelegation
<1>12. CASE ActiveDelegation(d)'
  <2>1. Live' = Live \union {<<d, t.sub, t.act>>}
    BY <1>2, <1>5, <1>6, <1>11, <1>12 DEF Live
  <2>2. now < t.exp
    BY <1>2, <1>4, <1>5, <1>12 DEF ActiveDelegation
  <2>3. DeadToken(t)' <=> <<t.login, t.sub>> \notin Open
    <3>1. ActiveSession(t.sid) <=> <<t.login, t.sub>> \in Open
      BY <1>3 DEF Open, Lineage, ActiveSession
    <3>2. DeadToken(t)' <=> ~ActiveSession(t.sid)'
      BY <1>2, <1>3, <1>4, <1>12, <2>2 DEF DeadToken, Verified
    <3> QED BY <1>4, <3>1, <3>2 DEF ActiveSession
  <2>4. Credential(t) = Promise!Credential(t.login, t.sub, t.act, d)
    BY <1>2 DEF Credential, Promise!Credential
  <2>5. t.login \in SessionIds /\ t.sub \in Users /\ t.act \in Agents
    <3>1. row.agent \in Agents
      OBVIOUS
    <3> QED BY <1>2, <3>1
  <2>6. CASE t \in tokens' /\ <<t.login, t.sub>> \in Open
    <3>1. {x \in tokens' : ~DeadToken(x)'} = {x \in tokens : ~DeadToken(x)} \union {t}
      BY <1>4, <1>9, <2>3, <2>6
    <3>2. Working' = Working \union {Promise!Credential(t.login, t.sub, t.act, d)}
      BY <1>10, <2>4, <3>1, WorkingTokens
    <3>3. Promise!Delegate(t.login, t.sub, t.act, d)
      BY <1>7, <1>8, <2>1, <2>6, <3>2 DEF Promise!Delegate, Begun, Given
    <3> QED BY <2>5, <3>3
  <2>7. CASE t \notin tokens' \/ <<t.login, t.sub>> \notin Open
    <3>1. {x \in tokens' : ~DeadToken(x)'} = {x \in tokens : ~DeadToken(x)}
      BY <1>4, <1>9, <2>3, <2>7
    <3>2. Working' = Working
      BY <1>10, <3>1, WorkingTokens
    <3>3. Promise!DelegateInVain(t.sub, t.act, d)
      BY <1>7, <1>8, <2>1, <3>2 DEF Promise!DelegateInVain, Begun, Given
    <3> QED BY <2>5, <3>3
  <2> QED BY <2>6, <2>7
<1>13. CASE ~ActiveDelegation(d)'
  <2>1. Live' = Live
    BY <1>5, <1>6, <1>11, <1>13 DEF Live
  <2>2. DeadToken(t)'
    BY <1>2, <1>11, <1>13 DEF DeadToken
  <2>3. {x \in tokens' : ~DeadToken(x)'} = {x \in tokens : ~DeadToken(x)}
    BY <1>4, <1>9, <2>2
  <2>4. Working' = Working
    BY <1>10, <2>3, WorkingTokens
  <2>5. Promise!DelegateTooLate(d)
    BY <1>7, <1>8, <2>1, <2>4 DEF Promise!DelegateTooLate, Begun, Given
  <2> QED BY <2>5
<1> QED BY <1>12, <1>13

LEMMA WorkingBacked == AuthInv => \A c \in Working : Promise!Backed(c)
BY LiveIsBacked, WorkingTokens

\* Every other step is a Cease, if it is anything at all.
LEMMA OthersPromised ==
  ASSUME AuthInv, AuthInv', [Next]_vars,
         \A u \in Users, s \in SessionIds : ~Login(u, s),
         \A w \in Workers : ~Commits(w)
  PROVE  Promise!Cease
<1>1. tokens' = tokens
  BY DEF Next, SessionStep, RecordStep, ExchangeStep, vars, Logout,
     RevokeSessionsRead, RevokeSessionsCommit, PurgeExpired, GrantAgent, RevokeAgent,
     RevokeDelegation, RevokeDelegationsRead, RevokeDelegationsCommit, RevokeFail,
     IssueApiKey, RevokeApiKey, ExchangeVerify, ExchangeDelegate, ExchangeFail,
     SetActive, Tick, Commits
<1>2. ASSUME NEW s \in SessionIds PROVE sessions'[s] = None <=> sessions[s] = None
  BY SessionsKept, LoginOpens DEF AuthInv, SessionKept
<1>3. ASSUME NEW d \in DelegationIds PROVE delegations'[d] = None <=> delegations[d] = None
  BY DelegationsKept, NoCommit DEF AuthInv, DelegationKept
<1>4. Begun' = Begun /\ Given' = Given
  BY <1>2, <1>3 DEF Begun, Given
<1>5. Open' \subseteq Open
  <2> SUFFICES ASSUME NEW s \in SessionIds, ActiveSession(s)'
               PROVE  <<s, sessions'[s].subject>> \in Open
    BY DEF Open
  <2>1. sessions[s] # None
    BY <1>2 DEF ActiveSession
  <2> QED BY <2>1, OpenShrinks DEF AuthInv, Open
<1>6. Live' \subseteq Live
  <2> SUFFICES ASSUME NEW d \in DelegationIds, ActiveDelegation(d)'
               PROVE  <<d, delegations'[d].user, delegations'[d].agent>> \in Live
    BY DEF Live
  <2>1. delegations[d] # None
    BY <1>3 DEF ActiveDelegation
  <2> QED BY <2>1, LiveShrinks DEF Live
<1>7. Working' \subseteq Working
  <2>1. Working' = {Credential(t) : t \in {x \in tokens' : ~DeadToken(x)'}}
    BY DEF Working, Credential
  <2>2. {x \in tokens' : ~DeadToken(x)'} \subseteq {x \in tokens : ~DeadToken(x)}
    BY <1>1, DeadStaysDead DEF AuthInv
  <2> QED BY <2>1, <2>2, WorkingTokens
<1>8. \A c \in Working' : Promise!Backed(c)'
  <2>1. (AuthInv => \A c \in Working : Promise!Backed(c))'
    BY WorkingBacked, PTL
  <2> QED BY <2>1
<1> QED BY <1>4, <1>5, <1>6, <1>7, <1>8 DEF Promise!Cease, Begun, Given

LEMMA NextPromised ==
  AuthInv /\ AuthInv' /\ [Next]_vars => Promise!Next
<1> SUFFICES ASSUME AuthInv, AuthInv', [Next]_vars PROVE Promise!Next
  OBVIOUS
<1>1. ASSUME NEW u \in Users, NEW s \in SessionIds, Login(u, s) PROVE Promise!Next
  BY <1>1, LoginPromised DEF Promise!Next
<1>2. ASSUME NEW w \in Workers, Commits(w) PROVE Promise!Next
  BY <1>2, CommitPromised DEF Promise!Next
<1>3. CASE /\ \A u \in Users, s \in SessionIds : ~Login(u, s)
           /\ \A w \in Workers : ~Commits(w)
  BY <1>3, OthersPromised DEF Promise!Next
<1> QED BY <1>1, <1>2, <1>3

LEMMA InitPromised == Init => Promise!Init
BY DEF Init, Promise!Init, Open, Live, Working, ActiveSession, ActiveDelegation

\* The gateway implements Authority: every step of every session, delegation
\* and exchange, in any order, is a step its promise allows
\* (identity/sessions.py, identity/delegation.py, gateway/api/auth.py).
THEOREM AuthorityTheorem == Spec => AuthorityKept
<1>1. Init => AuthInv
  BY InitType DEF Init, AuthInv, LineageInv, Issued, RecordInv, DelegationsAreRecorded, Idle
<1>2. AuthInv /\ [Next]_vars => AuthInv'
  BY NextType, NextLineage, NextRecord DEF AuthInv
<1> QED
  BY <1>1, <1>2, InitPromised, NextPromised, PTL DEF Spec, AuthorityKept, Promise!Spec

\* What a system that implements Authority has, whatever it is made of: a
\* credential works only while its login is open and its mandate live, and
\* none that ceased works again.
THEOREM AuthorityMeans ==
  Promise!Spec => []Promise!WorkingIsBacked /\ Promise!NothingReturns
<1>1. Promise!Init => Promise!WorkingIsBacked
  BY DEF Promise!Init, Promise!WorkingIsBacked
<1>2. Promise!WorkingIsBacked /\ [Promise!Next]_(Promise!authorityVars)
        => Promise!WorkingIsBacked'
  <2> SUFFICES ASSUME Promise!WorkingIsBacked, [Promise!Next]_(Promise!authorityVars),
                      NEW c \in Working'
               PROVE  Promise!Backed(c)'
    BY DEF Promise!WorkingIsBacked
  <2> USE DEF Promise!WorkingIsBacked, Promise!Backed
  <2>1. CASE UNCHANGED Promise!authorityVars
    BY <2>1 DEF Promise!authorityVars
  <2>2. CASE Promise!Cease
    BY <2>2 DEF Promise!Cease
  <2>3. ASSUME NEW l \in SessionIds, NEW u \in Users, Promise!Begin(l, u)
        PROVE  Promise!Backed(c)'
    BY <2>3 DEF Promise!Begin, Promise!Credential
  <2>4. ASSUME NEW l \in SessionIds, NEW u \in Users, NEW a \in Agents,
               NEW m \in DelegationIds, Promise!Delegate(l, u, a, m)
        PROVE  Promise!Backed(c)'
    BY <2>4 DEF Promise!Delegate, Promise!Credential
  <2>5. ASSUME NEW m \in DelegationIds, Promise!DelegateTooLate(m)
        PROVE  Promise!Backed(c)'
    BY <2>5 DEF Promise!DelegateTooLate
  <2>6. ASSUME NEW u \in Users, NEW a \in Agents, NEW m \in DelegationIds,
               Promise!DelegateInVain(u, a, m)
        PROVE  Promise!Backed(c)'
    BY <2>6 DEF Promise!DelegateInVain
  <2> QED BY <2>1, <2>2, <2>3, <2>4, <2>5, <2>6 DEF Promise!Next
<1>3. [Promise!Next]_(Promise!authorityVars)
        => [ \A c \in Working' \ Working : c.login \notin Begun \/ c.mandate \notin Given
           ]_(Promise!authorityVars)
  <2> SUFFICES ASSUME Promise!Next, NEW c \in Working' \ Working
               PROVE  c.login \notin Begun \/ c.mandate \notin Given
    OBVIOUS
  <2>1. ~Promise!Cease
    BY DEF Promise!Cease
  <2>2. ASSUME NEW l \in SessionIds, NEW u \in Users, Promise!Begin(l, u)
        PROVE  c.login \notin Begun
    BY <2>2 DEF Promise!Begin, Promise!Credential, Begun
  <2>3. ASSUME NEW l \in SessionIds, NEW u \in Users, NEW a \in Agents,
               NEW m \in DelegationIds, Promise!Delegate(l, u, a, m)
        PROVE  c.mandate \notin Given
    <3>1. c = Promise!Credential(l, u, a, m) /\ m \notin Given
      BY <2>3 DEF Promise!Delegate, Given
    <3> QED BY <3>1 DEF Promise!Credential
  <2>4. ASSUME NEW m \in DelegationIds PROVE ~Promise!DelegateTooLate(m)
    BY DEF Promise!DelegateTooLate
  <2>5. ASSUME NEW u \in Users, NEW a \in Agents, NEW m \in DelegationIds
        PROVE  ~Promise!DelegateInVain(u, a, m)
    BY DEF Promise!DelegateInVain
  <2> QED BY <2>1, <2>2, <2>3, <2>4, <2>5 DEF Promise!Next
<1> QED
  BY <1>1, <1>2, <1>3, PTL DEF Promise!Spec, Promise!NothingReturns, Begun, Given

=============================================================================
