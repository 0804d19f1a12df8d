-------------------------- MODULE PolicyStoreProofs --------------------------
(***************************************************************************)
(* Theorems about PolicyStore: what replacing a role guarantees for every  *)
(* set of roles, permissions, requests and threads.                        *)
(***************************************************************************)
EXTENDS PolicyStore, TLAPS

----------------------------------------------------------------------------
\* Types.

LEMMA CurrentType ==
  ASSUME PolicyStoreTypeOK, NEW t \in Txs, txs[t] # None,
         txs[t].next <= Len(txs[t].docs)
  PROVE  /\ txs[t] \in Tx
         /\ Current(t) \in Document
         /\ txs[t].next \in 1..Len(txs[t].docs)
<1>1. txs[t] \in Tx
  BY DEF PolicyStoreTypeOK
<1>2. txs[t].docs \in Seq(Document) /\ txs[t].next \in Nat \ {0}
  BY <1>1, RequestsAssumption DEF Tx
<1>3. txs[t].next \in 1..Len(txs[t].docs)
  BY <1>2
<1>4. Current(t) \in Document
  BY <1>2, <1>3 DEF Current
<1> QED BY <1>1, <1>3, <1>4

LEMMA OfType == \A S : \A r : S \subseteq Row => Of(r, S) \subseteq Row
BY DEF Of

LEMMA VisibleType ==
  ASSUME PolicyStoreTypeOK, NEW t \in Txs, txs[t] # None
  PROVE  Visible(t) \subseteq Row
BY DEF PolicyStoreTypeOK, Tx, Visible

\* One field of a transaction at a time.

LEMMA SetStage ==
  ASSUME NEW tx \in Tx, NEW x \in {"select", "delete", "insert"}
  PROVE  [tx EXCEPT !.stage = x] \in Tx
BY DEF Tx

LEMMA SetNext ==
  ASSUME NEW tx \in Tx, NEW x \in Nat \ {0}
  PROVE  [tx EXCEPT !.next = x] \in Tx
BY DEF Tx

LEMMA SetLoaded ==
  ASSUME NEW tx \in Tx, NEW x \in SUBSET Roles
  PROVE  [tx EXCEPT !.loaded = x] \in Tx
BY DEF Tx

LEMMA SetRemoved ==
  ASSUME NEW tx \in Tx, NEW x \in SUBSET Row
  PROVE  [tx EXCEPT !.removed = x] \in Tx
BY DEF Tx

LEMMA SetAdded ==
  ASSUME NEW tx \in Tx, NEW x \in SUBSET Row
  PROVE  [tx EXCEPT !.added = x] \in Tx
BY DEF Tx

LEMMA SetRoles ==
  ASSUME NEW tx \in Tx, NEW x \in SUBSET Roles
  PROVE  [tx EXCEPT !.roles = x] \in Tx
BY DEF Tx

LEMMA SetNames ==
  ASSUME NEW tx \in Tx, NEW x \in SUBSET Names
  PROVE  [tx EXCEPT !.names = x] \in Tx
BY DEF Tx

LEMMA SetSeen ==
  ASSUME NEW tx \in Tx, NEW r \in Roles, NEW x \in SUBSET Row
  PROVE  [tx EXCEPT !.seen[r] = x] \in Tx
BY DEF Tx

LEMMA SetBased ==
  ASSUME NEW tx \in Tx, NEW r \in Roles, NEW x \in Nat
  PROVE  [tx EXCEPT !.based[r] = x] \in Tx
BY DEF Tx

LEMMA SetBody ==
  ASSUME NEW tx \in Tx, NEW r \in Roles, NEW x \in SUBSET (Names \X Effects)
  PROVE  [tx EXCEPT !.body[r] = x] \in Tx
BY DEF Tx

LEMMA TypeInit == InitPolicyStore => PolicyStoreTypeOK
BY RequestsAssumption DEF InitPolicyStore, PolicyStoreTypeOK, Body

LEMMA TypeBegin ==
  ASSUME PolicyStoreTypeOK, NEW t \in Txs, NEW docs \in Requests,
         NEW held \in SUBSET roles, Begin(t, docs, held)
  PROVE  PolicyStoreTypeOK'
<1>1. \A r \in Roles : Of(r, rows) \subseteq Row
  BY OfType DEF PolicyStoreTypeOK
<1>2. \A r \in Roles : latest[r].version \in Nat
  BY DEF PolicyStoreTypeOK, Body
<1>3. txs'[t] \in Tx
  BY <1>1, <1>2 DEF Begin, Tx, PolicyStoreTypeOK
<1> QED BY <1>3 DEF Begin, PolicyStoreTypeOK

LEMMA TypeSelect ==
  ASSUME PolicyStoreTypeOK, NEW t \in Txs, Select(t)
  PROVE  PolicyStoreTypeOK'
<1> DEFINE r == Current(t).role
<1>1. txs[t] \in Tx /\ r \in Roles
  BY CurrentType DEF Select, Busy, Document
<1>2. Of(r, Visible(t)) \subseteq Row
  BY OfType, VisibleType DEF Select, Busy
<1>3. latest[r].version \in Nat
  BY <1>1 DEF PolicyStoreTypeOK, Body
<1>4. txs'[t] = [txs[t] EXCEPT
          !.stage = "delete",
          !.loaded = @ \union {r},
          !.seen[r] = IF r \in txs[t].loaded THEN @ ELSE Of(r, Visible(t)),
          !.based[r] = IF r \in txs[t].loaded THEN @ ELSE latest[r].version]
  BY DEF Select, PolicyStoreTypeOK
<1>5. txs'[t] \in Tx
  <2> DEFINE tx1 == [txs[t] EXCEPT !.stage = "delete"]
             tx2 == [tx1 EXCEPT !.loaded = txs[t].loaded \union {r}]
             tx3 == [tx2 EXCEPT !.seen[r] = IF r \in txs[t].loaded THEN txs[t].seen[r]
                                            ELSE Of(r, Visible(t))]
             tx4 == [tx3 EXCEPT !.based[r] = IF r \in txs[t].loaded
                                             THEN txs[t].based[r]
                                             ELSE latest[r].version]
  <2>1. /\ txs[t].loaded \union {r} \in SUBSET Roles
        /\ txs[t].seen[r] \in SUBSET Row /\ txs[t].based[r] \in Nat
    BY <1>1 DEF Tx
  <2>2. tx1 \in Tx
    BY <1>1, SetStage
  <2>3. tx2 \in Tx
    BY <2>1, <2>2, SetLoaded
  <2>4. tx3 \in Tx
    BY <1>1, <1>2, <2>1, <2>3, SetSeen
  <2>5. tx4 \in Tx
    BY <1>1, <1>3, <2>1, <2>4, SetBased
  <2> QED BY <1>4, <2>5
<1> QED BY <1>5 DEF Select, PolicyStoreTypeOK

LEMMA TypeCreate ==
  ASSUME PolicyStoreTypeOK, NEW t \in Txs, Create(t)
  PROVE  PolicyStoreTypeOK'
<1> DEFINE r == Current(t).role
<1>1. txs[t] \in Tx /\ r \in Roles
  BY CurrentType DEF Create, Busy, Document
<1>2. latest[r].version \in Nat
  BY <1>1 DEF PolicyStoreTypeOK, Body
<1>3. txs'[t] = [txs[t] EXCEPT
          !.stage = "delete",
          !.loaded = @ \union {r},
          !.seen[r] = {},
          !.roles = @ \union {r},
          !.based[r] = latest[r].version]
  BY DEF Create, PolicyStoreTypeOK
<1>4. txs'[t] \in Tx
  <2> DEFINE tx1 == [txs[t] EXCEPT !.stage = "delete"]
             tx2 == [tx1 EXCEPT !.loaded = txs[t].loaded \union {r}]
             tx3 == [tx2 EXCEPT !.seen[r] = {}]
             tx4 == [tx3 EXCEPT !.roles = txs[t].roles \union {r}]
             tx5 == [tx4 EXCEPT !.based[r] = latest[r].version]
  <2>1. /\ txs[t].loaded \union {r} \in SUBSET Roles
        /\ txs[t].roles \union {r} \in SUBSET Roles
    BY <1>1 DEF Tx
  <2>2. tx1 \in Tx
    BY <1>1, SetStage
  <2>3. tx2 \in Tx
    BY <2>1, <2>2, SetLoaded
  <2>4. tx3 \in Tx
    BY <1>1, <2>3, SetSeen
  <2>5. tx4 \in Tx
    BY <2>1, <2>4, SetRoles
  <2>6. tx5 \in Tx
    BY <1>1, <1>2, <2>5, SetBased
  <2> QED BY <1>3, <2>6
<1> QED BY <1>4 DEF Create, PolicyStoreTypeOK

LEMMA TypeDelete ==
  ASSUME PolicyStoreTypeOK, NEW t \in Txs, Delete(t)
  PROVE  PolicyStoreTypeOK'
<1> DEFINE gone == txs[t].seen[Current(t).role]
<1>1. txs[t] \in Tx /\ Current(t).role \in Roles
  BY CurrentType DEF Delete, Busy, Document
<1>2. gone \subseteq Row
  BY <1>1 DEF Tx
<1>3. txs'[t] = [txs[t] EXCEPT !.stage = "insert",
                               !.removed = @ \union gone,
                               !.added = @ \ gone]
  BY DEF Delete, PolicyStoreTypeOK
<1>4. txs'[t] \in Tx
  <2> DEFINE tx1 == [txs[t] EXCEPT !.stage = "insert"]
             tx2 == [tx1 EXCEPT !.removed = txs[t].removed \union gone]
             tx3 == [tx2 EXCEPT !.added = txs[t].added \ gone]
  <2>1. txs[t].removed \union gone \in SUBSET Row /\ txs[t].added \ gone \in SUBSET Row
    BY <1>1, <1>2 DEF Tx
  <2>2. tx1 \in Tx
    BY <1>1, SetStage
  <2>3. tx2 \in Tx
    BY <2>1, <2>2, SetRemoved
  <2>4. tx3 \in Tx
    BY <2>1, <2>3, SetAdded
  <2> QED BY <1>3, <2>4
<1> QED BY <1>4 DEF Delete, PolicyStoreTypeOK

\* The rows a replacement makes for a document.
NewRows(doc) ==
  {[upsert |-> upserts + 1, role |-> doc.role, name |-> e[1], effect |-> e[2]] :
     e \in EntriesOf(doc)}

LEMMA EntriesType == \A doc \in Document : EntriesOf(doc) \subseteq Names \X Effects
BY DEF Document, EntriesOf, Effects

LEMMA NewRowsType ==
  ASSUME PolicyStoreTypeOK, upserts < MaxUpserts, NEW doc \in Document
  PROVE  /\ NewRows(doc) \subseteq Row
         /\ \A row \in NewRows(doc) : row.role = doc.role
         /\ {Entry(row) : row \in NewRows(doc)} = EntriesOf(doc)
<1>1. \A e \in EntriesOf(doc) : e \in Names \X Effects
  BY EntriesType
<1>2. upserts + 1 \in 1..MaxUpserts
  BY RequestsAssumption DEF PolicyStoreTypeOK
<1>3. NewRows(doc) \subseteq Row
  BY <1>1, <1>2 DEF NewRows, Row, Document
<1>4. \A row \in NewRows(doc) : row.role = doc.role
  BY DEF NewRows
<1>5. \A row \in NewRows(doc) : Entry(row) \in EntriesOf(doc)
  BY <1>1 DEF NewRows, Entry
<1>6. ASSUME NEW e \in EntriesOf(doc)
      PROVE  \E row \in NewRows(doc) : Entry(row) = e
  <2> DEFINE row == [upsert |-> upserts + 1, role |-> doc.role,
                     name |-> e[1], effect |-> e[2]]
  <2>1. row \in NewRows(doc)
    BY DEF NewRows
  <2>2. Entry(row) = e
    BY <1>1, <1>6 DEF Entry
  <2> QED BY <2>1, <2>2
<1> QED BY <1>3, <1>4, <1>5, <1>6

\* What Insert does, with no entry left to skip.
LEMMA InsertMeans ==
  ASSUME PolicyStoreTypeOK, NEW t \in Txs, Insert(t)
  PROVE  LET doc == Current(t)
             new == NewRows(doc)
         IN /\ txs[t] \in Tx /\ doc \in Document /\ upserts < MaxUpserts
            /\ \A u \in Txs : u # t => txs'[u] = txs[u]
            /\ txs'[t] = [txs[t] EXCEPT
                 !.stage = "select",
                 !.next = @ + 1,
                 !.seen[doc.role] = Of(doc.role, Visible(t) \union new),
                 !.added = @ \union new,
                 !.names = @ \union
                   ((doc.allow \union doc.deny) \ (names \union txs[t].names)),
                 !.body[doc.role] = EntriesOf(doc)]
<1> DEFINE doc == Current(t)
<1>1. txs[t] \in Tx /\ doc \in Document /\ upserts < MaxUpserts
  BY CurrentType DEF Insert, Busy
<1>2. {[upsert |-> upserts + 1, role |-> doc.role, name |-> e[1], effect |-> e[2]] :
         e \in EntriesOf(doc) \ existing(t, doc.role)} = NewRows(doc)
  BY DEF existing, NewRows
<1>3. txs' = [txs EXCEPT
        ![t].stage = "select",
        ![t].next = @ + 1,
        ![t].seen[doc.role] = Of(doc.role, Visible(t) \union NewRows(doc)),
        ![t].added = @ \union NewRows(doc),
        ![t].names = @ \union
          ((doc.allow \union doc.deny) \ (names \union txs[t].names)),
        ![t].body[doc.role] = EntriesOf(doc)]
  BY <1>2, Zenon DEF Insert
<1>4. txs \in [Txs -> Tx \union {None}]
  BY DEF PolicyStoreTypeOK
<1>5. txs'[t] = [txs[t] EXCEPT
        !.stage = "select",
        !.next = @ + 1,
        !.seen[doc.role] = Of(doc.role, Visible(t) \union NewRows(doc)),
        !.added = @ \union NewRows(doc),
        !.names = @ \union
          ((doc.allow \union doc.deny) \ (names \union txs[t].names)),
        !.body[doc.role] = EntriesOf(doc)]
  BY <1>3, <1>4
<1>6. \A u \in Txs : u # t => txs'[u] = txs[u]
  BY <1>3, <1>4
<1> QED BY <1>1, <1>5, <1>6

LEMMA TypeInsert ==
  ASSUME PolicyStoreTypeOK, NEW t \in Txs, Insert(t)
  PROVE  PolicyStoreTypeOK'
<1> DEFINE doc == Current(t)
           r == doc.role
           new == NewRows(doc)
<1>1. txs[t] \in Tx /\ doc \in Document /\ upserts < MaxUpserts
  BY InsertMeans
<1>2. r \in Roles /\ doc.allow \subseteq Names /\ doc.deny \subseteq Names
  BY <1>1 DEF Document
<1>3. new \subseteq Row
  BY <1>1, NewRowsType
<1>4. Of(r, Visible(t) \union new) \subseteq Row
  BY <1>3, VisibleType, OfType DEF Insert, Busy
<1>5. EntriesOf(doc) \subseteq Names \X Effects
  BY <1>1, EntriesType
<1>6. txs'[t] \in Tx
  <2> DEFINE created == (doc.allow \union doc.deny) \ (names \union txs[t].names)
             tx1 == [txs[t] EXCEPT !.stage = "select"]
             tx2 == [tx1 EXCEPT !.next = txs[t].next + 1]
             tx3 == [tx2 EXCEPT !.seen[r] = Of(r, Visible(t) \union new)]
             tx4 == [tx3 EXCEPT !.added = txs[t].added \union new]
             tx5 == [tx4 EXCEPT !.names = txs[t].names \union created]
             tx6 == [tx5 EXCEPT !.body[r] = EntriesOf(doc)]
  <2>1. /\ txs[t].next + 1 \in Nat \ {0}
        /\ txs[t].added \union new \in SUBSET Row
        /\ txs[t].names \union created \in SUBSET Names
    BY <1>1, <1>2, <1>3 DEF Tx
  <2>2. tx1 \in Tx
    BY <1>1, SetStage
  <2>3. tx2 \in Tx
    BY <2>1, <2>2, SetNext
  <2>4. tx3 \in Tx
    BY <1>2, <1>4, <2>3, SetSeen
  <2>5. tx4 \in Tx
    BY <2>1, <2>4, SetAdded
  <2>6. tx5 \in Tx
    BY <2>1, <2>5, SetNames
  <2>7. tx6 \in Tx
    BY <1>2, <1>5, <2>6, SetBody
  <2> QED BY <2>7, InsertMeans
<1>7. upserts' \in 0..MaxUpserts
  <2>1. upserts' = upserts + 1 /\ upserts \in 0..MaxUpserts
    BY DEF Insert, PolicyStoreTypeOK
  <2> QED BY <1>1, <2>1, RequestsAssumption
<1> QED BY <1>6, <1>7 DEF Insert, PolicyStoreTypeOK

LEMMA TypeCommit ==
  ASSUME PolicyStoreTypeOK, NEW t \in Txs, Commit(t)
  PROVE  PolicyStoreTypeOK'
<1>1. txs[t] \in Tx
  BY DEF Commit, PolicyStoreTypeOK
<1>2. Visible(t) \subseteq Row
  BY VisibleType DEF Commit
<1>3. latest' \in [Roles -> Body]
  BY <1>1 DEF Commit, PolicyStoreTypeOK, Body, Tx
<1>4. roles' \subseteq Roles /\ names' \subseteq Names
  BY <1>1 DEF Commit, PolicyStoreTypeOK, Tx
<1>5. txs' \in [Txs -> Tx \union {None}]
  BY DEF Commit, PolicyStoreTypeOK
<1> QED BY <1>2, <1>3, <1>4, <1>5 DEF Commit, PolicyStoreTypeOK

LEMMA TypeNext ==
  ASSUME PolicyStoreTypeOK, [NextPolicyStore]_policyStoreVars
  PROVE  PolicyStoreTypeOK'
<1>1. CASE UNCHANGED policyStoreVars
  BY <1>1 DEF policyStoreVars, PolicyStoreTypeOK
<1>2. ASSUME NEW t \in Txs, Fail(t)
      PROVE  PolicyStoreTypeOK'
  BY <1>2 DEF Fail, PolicyStoreTypeOK
<1> QED BY <1>1, <1>2, TypeBegin, TypeSelect, TypeCreate, TypeDelete, TypeInsert,
           TypeCommit DEF NextPolicyStore

\* Every reachable state of the store is well typed: transactions keep rows of
\* roles and permissions there are, whatever administrators send.
THEOREM PolicyStoreTypeCorrect == SpecPolicyStore => []PolicyStoreTypeOK
<1>1. InitPolicyStore => PolicyStoreTypeOK
  BY TypeInit
<1>2. PolicyStoreTypeOK /\ [NextPolicyStore]_policyStoreVars => PolicyStoreTypeOK'
  BY TypeNext
<1> QED BY <1>1, <1>2, PTL DEF SpecPolicyStore

----------------------------------------------------------------------------
\* What a transaction has done so far.

Inserting(t, r) == txs[t].stage = "insert" /\ Current(t).role = r

\* It has deleted the entries of r that it had read.
Cleared(t, r) ==
  \/ \E i \in 1..(txs[t].next - 1) : txs[t].docs[i].role = r
  \/ Inserting(t, r)

\* The rows it holds belong to roles it has come to, which exist.
Reach(t) ==
  /\ \A r \in Roles : \A row \in txs[t].seen[r] : row.role = r
  /\ \A row \in txs[t].removed \union txs[t].added : Cleared(t, row.role)
  /\ \A r \in Roles :
       Cleared(t, r) => r \in txs[t].loaded /\ r \in roles \union txs[t].roles
  /\ txs[t].stage # "select" =>
       /\ txs[t].next <= Len(txs[t].docs)
       /\ Current(t).role \in txs[t].loaded
       /\ Current(t).role \in roles \union txs[t].roles

\* Of a role it has replaced, it has added the body and nothing else.
Wrote(t) ==
  \A r \in Roles :
    /\ Of(r, txs[t].added) \subseteq txs[t].seen[r]
    /\ Inserting(t, r) => Of(r, txs[t].added) = {}
    /\ Cleared(t, r) /\ ~Inserting(t, r) =>
         {Entry(row) : row \in Of(r, txs[t].added)} = txs[t].body[r]

\* As long as no other body of a role is committed, what is in force is what it
\* has read, and then what it has deleted.
Undisturbed(t, r) == txs[t].based[r] = latest[r].version

ReadAll(t) ==
  \A r \in Roles :
    /\ txs[t].based[r] <= latest[r].version
    /\ r \in txs[t].loaded /\ Undisturbed(t, r) =>
         Of(r, rows) \subseteq txs[t].seen[r] \union txs[t].removed
    /\ Cleared(t, r) /\ Undisturbed(t, r) => Of(r, rows) \subseteq txs[t].removed

RolesExist == \A row \in rows : row.role \in roles

TxInv ==
  /\ RolesExist
  /\ \A t \in Txs : txs[t] # None => Reach(t) /\ Wrote(t) /\ ReadAll(t)

LEMMA TxInvInit == InitPolicyStore => TxInv
BY DEF InitPolicyStore, TxInv, RolesExist

\* A step that leaves a transaction and the committed rows alone.
LEMMA Untouched ==
  ASSUME TxInv, NEW u \in Txs, txs[u] # None, txs'[u] = txs[u],
         UNCHANGED <<rows, roles, latest>>
  PROVE  Reach(u)' /\ Wrote(u)' /\ ReadAll(u)'
<1>1. Reach(u) /\ Wrote(u) /\ ReadAll(u)
  BY DEF TxInv
<1>2. \A r : (Cleared(u, r)' <=> Cleared(u, r)) /\ (Inserting(u, r)' <=> Inserting(u, r))
  BY DEF Cleared, Inserting, Current
<1>3. Reach(u)'
  BY <1>1, <1>2 DEF Reach, Current
<1>4. Wrote(u)'
  BY <1>1, <1>2 DEF Wrote, Of
<1>5. ReadAll(u)'
  BY <1>1, <1>2 DEF ReadAll, Undisturbed, Of
<1> QED BY <1>3, <1>4, <1>5

\* It suffices to look at the transaction that takes the step.
LEMMA OneSteps ==
  ASSUME TxInv, NEW t \in Txs, UNCHANGED <<rows, roles, latest>>,
         \A u \in Txs : u # t => txs'[u] = txs[u],
         txs'[t] # None => Reach(t)' /\ Wrote(t)' /\ ReadAll(t)'
  PROVE  TxInv'
<1>1. ASSUME NEW u \in Txs, txs'[u] # None
      PROVE  Reach(u)' /\ Wrote(u)' /\ ReadAll(u)'
  <2>1. CASE u = t
    BY <1>1, <2>1
  <2>2. CASE u # t
    BY <1>1, <2>2, Untouched
  <2> QED BY <2>1, <2>2
<1> QED BY <1>1 DEF TxInv, RolesExist

LEMMA BeginKeepsTxInv ==
  ASSUME PolicyStoreTypeOK, TxInv, NEW t \in Txs, NEW docs \in Requests,
         NEW held \in SUBSET roles, Begin(t, docs, held)
  PROVE  TxInv'
<1>1. txs'[t] = [docs |-> docs, next |-> 1, stage |-> "select", loaded |-> held,
                 seen |-> [r \in Roles |-> IF r \in held THEN Of(r, rows) ELSE {}],
                 removed |-> {}, added |-> {}, roles |-> {}, names |-> {},
                 based |-> [r \in Roles |-> latest[r].version],
                 body |-> [r \in Roles |-> {}]]
  BY DEF Begin, PolicyStoreTypeOK
<1>2. \A r : ~Cleared(t, r)' /\ ~Inserting(t, r)'
  BY <1>1 DEF Cleared, Inserting
<1>3. Reach(t)'
  BY <1>1, <1>2 DEF Reach, Of
<1>4. Wrote(t)'
  BY <1>1, <1>2 DEF Wrote, Of
<1>5. \A r \in Roles : latest[r].version \in Nat
  BY DEF PolicyStoreTypeOK, Body
<1>6. ReadAll(t)'
  BY <1>1, <1>2, <1>5 DEF ReadAll, Of, Begin
<1>7. UNCHANGED <<rows, roles, latest>> /\ \A u \in Txs : u # t => txs'[u] = txs[u]
  BY DEF Begin, PolicyStoreTypeOK
<1> QED BY <1>3, <1>4, <1>6, <1>7, OneSteps

LEMMA SelectKeepsTxInv ==
  ASSUME PolicyStoreTypeOK, TxInv, NEW t \in Txs, Select(t)
  PROVE  TxInv'
<1> DEFINE r == Current(t).role
           tx == txs[t]
           new == txs'[t]
<1>1. /\ tx \in Tx /\ r \in Roles /\ tx # None /\ tx.stage = "select"
      /\ tx.next <= Len(tx.docs) /\ r \in roles \union tx.roles
  BY CurrentType DEF Select, Busy, Document
<1>2. /\ new.docs = tx.docs /\ new.next = tx.next /\ new.stage = "delete"
      /\ new.loaded = tx.loaded \union {r}
      /\ new.seen = [tx.seen EXCEPT ![r] =
           IF r \in tx.loaded THEN @ ELSE Of(r, Visible(t))]
      /\ new.based = [tx.based EXCEPT ![r] =
           IF r \in tx.loaded THEN @ ELSE latest[r].version]
      /\ new.removed = tx.removed /\ new.added = tx.added /\ new.roles = tx.roles
      /\ new.body = tx.body
  BY <1>1 DEF Select, PolicyStoreTypeOK, Tx
<1>3. Reach(t) /\ Wrote(t) /\ ReadAll(t)
  BY <1>1 DEF TxInv
<1>4. /\ tx.seen \in [Roles -> SUBSET Row] /\ tx.based \in [Roles -> Nat]
      /\ latest[r].version \in Nat
  BY <1>1 DEF Tx, PolicyStoreTypeOK, Body
<1>5. Current(t)' = Current(t)
  BY <1>2 DEF Current
<1>6. \A s : (Cleared(t, s)' <=> Cleared(t, s)) /\ ~Inserting(t, s) /\ ~Inserting(t, s)'
  BY <1>1, <1>2 DEF Cleared, Inserting
<1>7. UNCHANGED <<rows, roles, latest>> /\ \A u \in Txs : u # t => txs'[u] = txs[u]
  BY DEF Select, PolicyStoreTypeOK
<1>8. r \notin tx.loaded => ~Cleared(t, r)
  BY <1>1, <1>3 DEF Reach
<1> HIDE DEF r, tx, new
<1>9. Reach(t)'
  <2>1. \A s \in Roles : \A row \in new.seen[s] : row.role = s
    BY <1>1, <1>2, <1>3, <1>4 DEF Reach, Of, tx, new
  <2>2. \A row \in new.removed \union new.added : Cleared(t, row.role)'
    BY <1>2, <1>3, <1>6 DEF Reach, tx
  <2>3. \A s \in Roles : Cleared(t, s)' => s \in new.loaded /\ s \in roles \union new.roles
    BY <1>2, <1>3, <1>6 DEF Reach, tx
  <2> QED BY <1>1, <1>2, <1>5, <1>7, <2>1, <2>2, <2>3 DEF Reach, r, new
<1>10. Wrote(t)'
  <2>1. \A s \in Roles : Of(s, new.added) \subseteq new.seen[s]
    BY <1>1, <1>2, <1>3, <1>4 DEF Wrote, Of, Visible, tx
  <2> QED BY <1>2, <1>3, <1>6, <2>1 DEF Wrote, tx, new
<1>11. ReadAll(t)'
  <2>1. ASSUME NEW s \in Roles
        PROVE  /\ new.based[s] <= latest[s].version
               /\ s \in new.loaded /\ new.based[s] = latest[s].version =>
                    Of(s, rows) \subseteq new.seen[s] \union new.removed
               /\ Cleared(t, s) /\ new.based[s] = latest[s].version =>
                    Of(s, rows) \subseteq new.removed
    <3>1. CASE s = r /\ r \notin tx.loaded
      BY <1>1, <1>2, <1>4, <1>8, <3>1 DEF Of, Visible, tx
    <3>2. CASE ~(s = r /\ r \notin tx.loaded)
      <4>1. new.based[s] = tx.based[s] /\ new.seen[s] = tx.seen[s]
        BY <1>1, <1>2, <1>4, <3>2
      <4>2. s \in new.loaded => s \in tx.loaded
        BY <1>2, <3>2
      <4> QED BY <1>2, <1>3, <4>1, <4>2 DEF ReadAll, Undisturbed, tx
    <3> QED BY <3>1, <3>2
  <2> QED BY <1>6, <1>7, <2>1 DEF ReadAll, Undisturbed, new
<1> QED BY <1>7, <1>9, <1>10, <1>11, OneSteps

LEMMA CreateKeepsTxInv ==
  ASSUME PolicyStoreTypeOK, TxInv, NEW t \in Txs, Create(t)
  PROVE  TxInv'
<1> DEFINE r == Current(t).role
           tx == txs[t]
           new == txs'[t]
<1>1. /\ tx \in Tx /\ r \in Roles /\ tx # None /\ tx.stage = "select"
      /\ tx.next <= Len(tx.docs) /\ r \notin roles \union tx.roles
  BY CurrentType DEF Create, Busy, Document
<1>2. /\ new.docs = tx.docs /\ new.next = tx.next /\ new.stage = "delete"
      /\ new.loaded = tx.loaded \union {r}
      /\ new.seen = [tx.seen EXCEPT ![r] = {}]
      /\ new.based = [tx.based EXCEPT ![r] = latest[r].version]
      /\ new.removed = tx.removed /\ new.added = tx.added
      /\ new.roles = tx.roles \union {r}
      /\ new.body = tx.body
  BY <1>1 DEF Create, PolicyStoreTypeOK, Tx
<1>3. Reach(t) /\ Wrote(t) /\ ReadAll(t) /\ RolesExist
  BY <1>1 DEF TxInv
<1>4. /\ tx.seen \in [Roles -> SUBSET Row] /\ tx.based \in [Roles -> Nat]
      /\ latest[r].version \in Nat
  BY <1>1 DEF Tx, PolicyStoreTypeOK, Body
<1>5. Current(t)' = Current(t)
  BY <1>2 DEF Current
<1>6. \A s : (Cleared(t, s)' <=> Cleared(t, s)) /\ ~Inserting(t, s) /\ ~Inserting(t, s)'
  BY <1>1, <1>2 DEF Cleared, Inserting
<1>7. UNCHANGED <<rows, roles, latest>> /\ \A u \in Txs : u # t => txs'[u] = txs[u]
  BY DEF Create, PolicyStoreTypeOK
<1>8. ~Cleared(t, r) /\ Of(r, tx.added) = {} /\ Of(r, rows) = {}
  BY <1>1, <1>3 DEF Reach, RolesExist, Of
<1> HIDE DEF r, tx, new
<1>9. Reach(t)'
  <2>1. \A s \in Roles : \A row \in new.seen[s] : row.role = s
    BY <1>1, <1>2, <1>3, <1>4 DEF Reach, tx
  <2>2. \A row \in new.removed \union new.added : Cleared(t, row.role)'
    BY <1>2, <1>3, <1>6 DEF Reach, tx
  <2>3. \A s \in Roles : Cleared(t, s)' => s \in new.loaded /\ s \in roles \union new.roles
    BY <1>2, <1>3, <1>6 DEF Reach, tx
  <2> QED BY <1>1, <1>2, <1>5, <1>7, <2>1, <2>2, <2>3 DEF Reach, r, new
<1>10. Wrote(t)'
  <2>1. \A s \in Roles : Of(s, new.added) \subseteq new.seen[s]
    BY <1>1, <1>2, <1>3, <1>4, <1>8 DEF Wrote, tx
  <2> QED BY <1>2, <1>3, <1>6, <2>1 DEF Wrote, tx, new
<1>11. ReadAll(t)'
  <2>1. ASSUME NEW s \in Roles
        PROVE  /\ new.based[s] <= latest[s].version
               /\ s \in new.loaded /\ new.based[s] = latest[s].version =>
                    Of(s, rows) \subseteq new.seen[s] \union new.removed
               /\ Cleared(t, s) /\ new.based[s] = latest[s].version =>
                    Of(s, rows) \subseteq new.removed
    <3>1. CASE s = r
      BY <1>1, <1>2, <1>4, <1>8, <3>1
    <3>2. CASE s # r
      <4>1. new.based[s] = tx.based[s] /\ new.seen[s] = tx.seen[s]
        BY <1>1, <1>2, <1>4, <3>2
      <4>2. s \in new.loaded => s \in tx.loaded
        BY <1>2, <3>2
      <4> QED BY <1>2, <1>3, <4>1, <4>2 DEF ReadAll, Undisturbed, tx
    <3> QED BY <3>1, <3>2
  <2> QED BY <1>6, <1>7, <2>1 DEF ReadAll, Undisturbed, new
<1> QED BY <1>7, <1>9, <1>10, <1>11, OneSteps

LEMMA DeleteKeepsTxInv ==
  ASSUME PolicyStoreTypeOK, TxInv, NEW t \in Txs, Delete(t)
  PROVE  TxInv'
<1> DEFINE r == Current(t).role
           tx == txs[t]
           new == txs'[t]
<1>1. /\ tx \in Tx /\ r \in Roles /\ tx # None /\ tx.stage = "delete"
      /\ tx.next <= Len(tx.docs)
  BY CurrentType DEF Delete, Busy, Document
<1>2. /\ new.docs = tx.docs /\ new.next = tx.next /\ new.stage = "insert"
      /\ new.loaded = tx.loaded /\ new.seen = tx.seen /\ new.based = tx.based
      /\ new.removed = tx.removed \union tx.seen[r]
      /\ new.added = tx.added \ tx.seen[r]
      /\ new.roles = tx.roles /\ new.body = tx.body
  BY <1>1 DEF Delete, PolicyStoreTypeOK, Tx
<1>3. Reach(t) /\ Wrote(t) /\ ReadAll(t)
  BY <1>1 DEF TxInv
<1>4. Current(t)' = Current(t)
  BY <1>2 DEF Current
<1>5. \A s : /\ Cleared(t, s)' <=> Cleared(t, s) \/ s = r
             /\ ~Inserting(t, s)
             /\ Inserting(t, s)' <=> s = r
  BY <1>1, <1>2, <1>4 DEF Cleared, Inserting
<1>6. UNCHANGED <<rows, roles, latest>> /\ \A u \in Txs : u # t => txs'[u] = txs[u]
  BY DEF Delete, PolicyStoreTypeOK
<1>7. /\ \A row \in tx.seen[r] : row.role = r
      /\ r \in tx.loaded /\ r \in roles \union tx.roles
  BY <1>1, <1>3 DEF Reach
<1> HIDE DEF r, tx, new
<1>8. Reach(t)'
  <2>1. \A row \in new.removed \union new.added : Cleared(t, row.role)'
    BY <1>2, <1>3, <1>5, <1>7 DEF Reach, tx
  <2>2. \A s \in Roles : Cleared(t, s)' => s \in new.loaded /\ s \in roles \union new.roles
    BY <1>2, <1>3, <1>5, <1>7 DEF Reach, tx
  <2>3. \A s \in Roles : \A row \in new.seen[s] : row.role = s
    BY <1>2, <1>3 DEF Reach, tx
  <2> QED BY <1>1, <1>2, <1>4, <1>6, <1>7, <2>1, <2>2, <2>3 DEF Reach, r, new
<1>9. Wrote(t)'
  <2>1. Of(r, new.added) = {}
    BY <1>1, <1>2, <1>3 DEF Wrote, Of, tx
  <2>2. \A s \in Roles : s # r => Of(s, new.added) = Of(s, tx.added)
    BY <1>2, <1>7 DEF Of
  <2>3. ASSUME NEW s \in Roles
        PROVE  /\ Of(s, new.added) \subseteq new.seen[s]
               /\ s = r => Of(s, new.added) = {}
               /\ Cleared(t, s) /\ s # r =>
                    {Entry(row) : row \in Of(s, new.added)} = new.body[s]
    BY <1>2, <1>3, <1>5, <2>1, <2>2 DEF Wrote, tx
  <2> QED BY <1>5, <2>3 DEF Wrote, new
<1>10. ReadAll(t)'
  <2>1. ASSUME NEW s \in Roles
        PROVE  /\ new.based[s] <= latest[s].version
               /\ s \in new.loaded /\ new.based[s] = latest[s].version =>
                    Of(s, rows) \subseteq new.seen[s] \union new.removed
               /\ (Cleared(t, s) \/ s = r) /\ new.based[s] = latest[s].version =>
                    Of(s, rows) \subseteq new.removed
    BY <1>1, <1>2, <1>3, <1>7 DEF ReadAll, Undisturbed, tx
  <2> QED BY <1>5, <1>6, <2>1 DEF ReadAll, Undisturbed, new
<1> QED BY <1>6, <1>8, <1>9, <1>10, OneSteps

LEMMA InsertKeepsTxInv ==
  ASSUME PolicyStoreTypeOK, TxInv, NEW t \in Txs, Insert(t)
  PROVE  TxInv'
<1> DEFINE doc == Current(t)
           r == doc.role
           made == NewRows(doc)
           tx == txs[t]
           new == txs'[t]
<1>1. /\ tx \in Tx /\ r \in Roles /\ tx # None /\ tx.stage = "insert"
      /\ tx.next \in 1..Len(tx.docs) /\ doc \in Document /\ upserts < MaxUpserts
  BY CurrentType DEF Insert, Busy, Document
<1>2. /\ new.docs = tx.docs /\ new.next = tx.next + 1 /\ new.stage = "select"
      /\ new.loaded = tx.loaded /\ new.based = tx.based
      /\ new.seen = [tx.seen EXCEPT ![r] = Of(r, Visible(t) \union made)]
      /\ new.removed = tx.removed /\ new.added = tx.added \union made
      /\ new.roles = tx.roles
      /\ new.body = [tx.body EXCEPT ![r] = EntriesOf(doc)]
  <2> DEFINE created == (doc.allow \union doc.deny) \ (names \union tx.names)
  <2>1. new = [tx EXCEPT !.stage = "select",
                         !.next = @ + 1,
                         !.seen[r] = Of(r, Visible(t) \union made),
                         !.added = @ \union made,
                         !.names = @ \union created,
                         !.body[r] = EntriesOf(doc)]
    BY InsertMeans
  <2> HIDE DEF doc, r, made, tx, new, created
  <2> QED BY <1>1, <2>1 DEF Tx
<1>3. Reach(t) /\ Wrote(t) /\ ReadAll(t)
  BY <1>1 DEF TxInv
<1>4. /\ \A row \in made : row.role = r
      /\ {Entry(row) : row \in made} = EntriesOf(doc)
  BY <1>1, NewRowsType
<1>5. \A s : Inserting(t, s) <=> s = r
  BY <1>1 DEF Inserting
<1>6. \A s : ~Inserting(t, s)'
  BY <1>2 DEF Inserting
<1>7. \A s : Cleared(t, s)' <=> Cleared(t, s)
  <2>1. \A s : Cleared(t, s)' <=> \E i \in 1..tx.next : tx.docs[i].role = s
    BY <1>1, <1>2, <1>6 DEF Cleared
  <2>2. tx.docs[tx.next].role = r
    BY DEF Current
  <2>3. tx.next \in Nat \ {0}
    BY <1>1 DEF Tx
  <2>4. 1..tx.next = (1..(tx.next - 1)) \union {tx.next}
    BY <2>3
  <2>5. \A s : Cleared(t, s) <=> (\E i \in 1..(tx.next - 1) : tx.docs[i].role = s) \/ s = r
    BY <1>5 DEF Cleared
  <2> HIDE DEF doc, r, tx
  <2> QED BY <2>1, <2>2, <2>4, <2>5
<1>8. UNCHANGED <<rows, roles, latest>> /\ \A u \in Txs : u # t => txs'[u] = txs[u]
  BY InsertMeans DEF Insert
<1>9. Cleared(t, r) /\ Of(r, tx.added) = {}
  BY <1>1, <1>3, <1>5 DEF Cleared, Wrote
<1>10. tx.seen \in [Roles -> SUBSET Row] /\ tx.body \in [Roles -> SUBSET (Names \X Effects)]
  BY <1>1 DEF Tx
<1> HIDE DEF doc, r, tx, new, made
<1>11. Reach(t)'
  <2>1. \A row \in new.removed \union new.added : Cleared(t, row.role)'
    BY <1>2, <1>3, <1>4, <1>7, <1>9 DEF Reach, tx
  <2>2. \A s \in Roles : Cleared(t, s)' => s \in new.loaded /\ s \in roles \union new.roles
    BY <1>2, <1>3, <1>7 DEF Reach, tx
  <2>3. \A s \in Roles : \A row \in new.seen[s] : row.role = s
    BY <1>1, <1>2, <1>3, <1>10 DEF Reach, Of, tx
  <2> QED BY <1>2, <1>8, <2>1, <2>2, <2>3 DEF Reach, new
<1>12. Wrote(t)'
  <2>1. Of(r, new.added) = made
    BY <1>2, <1>4, <1>9 DEF Of
  <2>2. \A s \in Roles : s # r => Of(s, new.added) = Of(s, tx.added)
    BY <1>2, <1>4 DEF Of
  <2>3. ASSUME NEW s \in Roles
        PROVE  /\ Of(s, new.added) \subseteq new.seen[s]
               /\ Cleared(t, s) => {Entry(row) : row \in Of(s, new.added)} = new.body[s]
    <3>1. CASE s = r
      BY <1>1, <1>2, <1>4, <1>10, <2>1, <3>1 DEF Of
    <3>2. CASE s # r
      BY <1>1, <1>2, <1>3, <1>5, <1>10, <2>2, <3>2 DEF Wrote, tx
    <3> QED BY <3>1, <3>2
  <2> QED BY <1>6, <1>7, <2>3 DEF Wrote, new
<1>13. ReadAll(t)'
  <2>1. ASSUME NEW s \in Roles
        PROVE  /\ new.based[s] <= latest[s].version
               /\ s \in new.loaded /\ new.based[s] = latest[s].version =>
                    Of(s, rows) \subseteq new.seen[s] \union new.removed
               /\ Cleared(t, s) /\ new.based[s] = latest[s].version =>
                    Of(s, rows) \subseteq new.removed
    <3>1. CASE s = r
      BY <1>2, <1>3, <1>9, <3>1 DEF ReadAll, Undisturbed, tx
    <3>2. CASE s # r
      BY <1>1, <1>2, <1>3, <1>10, <3>2 DEF ReadAll, Undisturbed, tx
    <3> QED BY <3>1, <3>2
  <2> QED BY <1>7, <1>8, <2>1 DEF ReadAll, Undisturbed, new
<1> QED BY <1>8, <1>11, <1>12, <1>13, OneSteps

\* What a transaction that commits has done to each role.
LEMMA CommitMeans ==
  ASSUME PolicyStoreTypeOK, TxInv, NEW t \in Txs, Commit(t), NEW r \in Roles
  PROVE  /\ Listed(t, r) =>
              /\ latest'[r] = [version |-> latest[r].version + 1, entries |-> txs[t].body[r]]
              /\ {Entry(row) : row \in Of(r, txs[t].added)} = txs[t].body[r]
              /\ r \in roles'
              /\ Undisturbed(t, r) => Of(r, rows) \subseteq txs[t].removed
         /\ ~Listed(t, r) =>
              /\ latest'[r] = latest[r]
              /\ Of(r, txs[t].added) = {} /\ Of(r, txs[t].removed) = {}
<1>1. txs[t] \in Tx /\ txs[t] # None /\ txs[t].next = Len(txs[t].docs) + 1
  BY DEF Commit, PolicyStoreTypeOK
<1>2. Reach(t) /\ Wrote(t) /\ ReadAll(t)
  BY <1>1 DEF TxInv
<1>3. Len(txs[t].docs) \in Nat
  BY <1>1, RequestsAssumption DEF Tx
<1>4. txs[t].stage = "select"
  BY <1>1, <1>2, <1>3 DEF Reach
<1>5. \A s : ~Inserting(t, s)
  BY <1>4 DEF Inserting
<1>6. \A s : Cleared(t, s) <=> Listed(t, s)
  BY <1>1, <1>3, <1>5 DEF Cleared, Listed
<1>7. Listed(t, r) =>
        latest'[r] = [version |-> latest[r].version + 1, entries |-> txs[t].body[r]]
  BY DEF Commit
<1>8. ~Listed(t, r) => latest'[r] = latest[r]
  BY DEF Commit
<1>9. ~Listed(t, r) => Of(r, txs[t].added) = {} /\ Of(r, txs[t].removed) = {}
  BY <1>2, <1>6 DEF Reach, Of
<1>10. Listed(t, r) =>
         /\ {Entry(row) : row \in Of(r, txs[t].added)} = txs[t].body[r]
         /\ Undisturbed(t, r) => Of(r, rows) \subseteq txs[t].removed
  BY <1>2, <1>5, <1>6 DEF Wrote, ReadAll
<1>11. Listed(t, r) => r \in roles'
  BY <1>2, <1>6 DEF Reach, Commit
<1> QED BY <1>7, <1>8, <1>9, <1>10, <1>11

LEMMA CommitKeepsTxInv ==
  ASSUME PolicyStoreTypeOK, TxInv, NEW t \in Txs, Commit(t)
  PROVE  TxInv'
<1>1. /\ rows' = (rows \ txs[t].removed) \union txs[t].added
      /\ roles' = roles \union txs[t].roles
      /\ txs'[t] = None /\ \A u \in Txs : u # t => txs'[u] = txs[u]
      /\ txs[t] \in Tx
  BY DEF Commit, PolicyStoreTypeOK, Visible
<1>2. \A row \in rows \union txs[t].added : row.role \in Roles
  BY <1>1 DEF PolicyStoreTypeOK, Tx, Row
<1>3. RolesExist'
  <2>1. ASSUME NEW row \in rows'
        PROVE  row.role \in roles'
    <3>1. CASE row \in rows
      BY <1>1, <3>1 DEF TxInv, RolesExist
    <3>2. CASE row \in txs[t].added
      <4>1. row \in Of(row.role, txs[t].added)
        BY <3>2 DEF Of
      <4> QED BY <1>2, <3>2, <4>1, CommitMeans
    <3> QED BY <1>1, <3>1, <3>2
  <2> QED BY <2>1 DEF RolesExist
<1>4. ASSUME NEW u \in Txs, txs'[u] # None
      PROVE  Reach(u)' /\ Wrote(u)' /\ ReadAll(u)'
  <2>1. u # t /\ txs'[u] = txs[u] /\ txs[u] # None /\ txs[u] \in Tx
    BY <1>1, <1>4 DEF PolicyStoreTypeOK
  <2>2. Reach(u) /\ Wrote(u) /\ ReadAll(u)
    BY <2>1 DEF TxInv
  <2>3. \A s : /\ Cleared(u, s)' <=> Cleared(u, s)
               /\ Inserting(u, s)' <=> Inserting(u, s)
    BY <2>1 DEF Cleared, Inserting, Current
  <2>4. Reach(u)'
    BY <1>1, <2>1, <2>2, <2>3 DEF Reach, Current
  <2>5. Wrote(u)'
    BY <2>1, <2>2, <2>3 DEF Wrote, Of
  <2>6. ASSUME NEW s \in Roles
        PROVE  /\ txs[u].based[s] <= latest'[s].version
               /\ txs[u].based[s] = latest'[s].version =>
                    Undisturbed(u, s) /\ Of(s, rows') \subseteq Of(s, rows)
    <3>1. /\ txs[u].based[s] \in Nat /\ latest[s].version \in Nat
          /\ txs[u].based[s] <= latest[s].version
      BY <2>1, <2>2 DEF Tx, PolicyStoreTypeOK, Body, ReadAll
    <3>2. CASE Listed(t, s)
      <4>1. latest'[s] = [version |-> latest[s].version + 1, entries |-> txs[t].body[s]]
        BY <3>2, CommitMeans
      <4>2. latest'[s].version = latest[s].version + 1
        BY <4>1
      <4>3. txs[u].based[s] <= latest'[s].version /\ txs[u].based[s] # latest'[s].version
        BY <3>1, <4>2
      <4> QED BY <4>3
    <3>3. CASE ~Listed(t, s)
      <4>1. latest'[s] = latest[s] /\ Of(s, txs[t].added) = {}
        BY <3>3, CommitMeans
      <4> QED BY <1>1, <3>1, <4>1 DEF Undisturbed, Of
    <3> QED BY <3>2, <3>3
  <2>7. ReadAll(u)'
    <3>1. ASSUME NEW s \in Roles
          PROVE  /\ txs[u].based[s] <= latest'[s].version
                 /\ s \in txs[u].loaded /\ txs[u].based[s] = latest'[s].version =>
                      Of(s, rows') \subseteq txs[u].seen[s] \union txs[u].removed
                 /\ Cleared(u, s) /\ txs[u].based[s] = latest'[s].version =>
                      Of(s, rows') \subseteq txs[u].removed
      <4>1. /\ s \in txs[u].loaded /\ Undisturbed(u, s) =>
                 Of(s, rows) \subseteq txs[u].seen[s] \union txs[u].removed
            /\ Cleared(u, s) /\ Undisturbed(u, s) =>
                 Of(s, rows) \subseteq txs[u].removed
        BY <2>2 DEF ReadAll
      <4> QED BY <2>6, <4>1
    <3>2. \A s : Of(s, rows)' = Of(s, rows')
      BY DEF Of
    <3> QED BY <2>1, <2>3, <3>1, <3>2 DEF ReadAll, Undisturbed
  <2> QED BY <2>4, <2>5, <2>7
<1> QED BY <1>3, <1>4 DEF TxInv

LEMMA TxInvNext ==
  ASSUME PolicyStoreTypeOK, TxInv, [NextPolicyStore]_policyStoreVars
  PROVE  TxInv'
<1>1. CASE UNCHANGED policyStoreVars
  BY <1>1, Untouched DEF policyStoreVars, TxInv, RolesExist
<1>2. ASSUME NEW t \in Txs, Fail(t)
      PROVE  TxInv'
  <2>1. /\ txs'[t] = None /\ UNCHANGED <<rows, roles, latest>>
        /\ \A u \in Txs : u # t => txs'[u] = txs[u]
    BY <1>2 DEF Fail, PolicyStoreTypeOK
  <2> QED BY <2>1, OneSteps
<1> QED BY <1>1, <1>2, BeginKeepsTxInv, SelectKeepsTxInv, CreateKeepsTxInv,
           DeleteKeepsTxInv, InsertKeepsTxInv, CommitKeepsTxInv DEF NextPolicyStore

LEMMA TxInvHolds == SpecPolicyStore => [](PolicyStoreTypeOK /\ TxInv)
<1>1. InitPolicyStore => PolicyStoreTypeOK /\ TxInv
  BY TypeInit, TxInvInit
<1>2. PolicyStoreTypeOK /\ TxInv /\ [NextPolicyStore]_policyStoreVars
        => PolicyStoreTypeOK' /\ TxInv'
  BY TypeNext, TxInvNext
<1> QED BY <1>1, <1>2, PTL DEF SpecPolicyStore

----------------------------------------------------------------------------

\* Only a commit changes what is in force.
LEMMA OnlyCommits ==
  ASSUME [NextPolicyStore]_policyStoreVars,
         \A t \in Txs : ~Commit(t)
  PROVE  UNCHANGED <<rows, latest>>
<1>1. CASE UNCHANGED policyStoreVars
  BY <1>1 DEF policyStoreVars
<1>2. CASE NextPolicyStore
  <2>1. PICK t \in Txs :
          \/ \E docs \in Requests, held \in SUBSET roles : Begin(t, docs, held)
          \/ Select(t) \/ Create(t) \/ Delete(t) \/ Insert(t) \/ Fail(t)
    BY <1>2 DEF NextPolicyStore
  <2>2. ASSUME NEW docs, NEW held, Begin(t, docs, held)
        PROVE  UNCHANGED <<rows, latest>>
    BY <2>2 DEF Begin
  <2>3. CASE Select(t)
    BY <2>3 DEF Select
  <2>4. CASE Create(t)
    BY <2>4 DEF Create
  <2>5. CASE Delete(t)
    BY <2>5 DEF Delete
  <2>6. CASE Insert(t)
    BY <2>6 DEF Insert
  <2>7. CASE Fail(t)
    BY <2>7 DEF Fail
  <2> QED BY <2>1, <2>2, <2>3, <2>4, <2>5, <2>6, <2>7
<1> QED BY <1>1, <1>2

LEMMA LatestBodyNext ==
  ASSUME PolicyStoreTypeOK, TxInv, LatestBodyInForce,
         [NextPolicyStore]_policyStoreVars
  PROVE  LatestBodyInForce'
<1>1. CASE \A t \in Txs : ~Commit(t)
  BY <1>1, OnlyCommits DEF LatestBodyInForce, InForce, Of
<1>2. ASSUME NEW t \in Txs, Commit(t), NEW r \in Roles
      PROVE  latest'[r].entries \subseteq InForce(r)'
  <2>1. rows' = (rows \ txs[t].removed) \union txs[t].added
    BY <1>2 DEF Commit, Visible
  <2>2. CASE Listed(t, r)
    <3>1. /\ latest'[r] = [version |-> latest[r].version + 1, entries |-> txs[t].body[r]]
          /\ {Entry(row) : row \in Of(r, txs[t].added)} = txs[t].body[r]
      BY <1>2, <2>2, CommitMeans
    <3>2. latest'[r].entries = {Entry(row) : row \in Of(r, txs[t].added)}
      BY <3>1
    <3> QED BY <2>1, <3>2 DEF InForce, Of, Entry
  <2>3. CASE ~Listed(t, r)
    <3>1. latest'[r] = latest[r] /\ Of(r, txs[t].removed) = {}
      BY <1>2, <2>3, CommitMeans
    <3>2. Of(r, rows) \subseteq Of(r, rows')
      BY <2>1, <3>1 DEF Of
    <3> QED BY <3>1, <3>2 DEF LatestBodyInForce, InForce, Of, Entry
  <2> QED BY <2>2, <2>3
<1> QED BY <1>1, <1>2 DEF LatestBodyInForce

\* The body committed last for a role is in force, however requests interleave
\* and fail: none removes an entry it has not read, and none commits without the
\* whole body of each of its documents.
THEOREM LatestBodyTheorem == SpecPolicyStore => []LatestBodyInForce
<1>1. InitPolicyStore => LatestBodyInForce
  BY DEF InitPolicyStore, LatestBodyInForce
<1>2. PolicyStoreTypeOK /\ TxInv /\ LatestBodyInForce
        /\ [NextPolicyStore]_policyStoreVars => LatestBodyInForce'
  BY LatestBodyNext
<1> QED BY <1>1, <1>2, TxInvHolds, PTL DEF SpecPolicyStore

LEMMA UndisturbedStep ==
  ASSUME PolicyStoreTypeOK, TxInv, [NextPolicyStore]_policyStoreVars,
         NEW t \in Txs, Commits(t), NEW r \in Roles, Listed(t, r),
         txs[t].based[r] = latest[r].version
  PROVE  InForce(r)' = latest'[r].entries
<1>1. Commit(t)
  <2>1. PICK u \in Txs : Commit(u)
    BY OnlyCommits DEF Commits
  <2>2. u = t
    BY <2>1 DEF Commits, Commit, PolicyStoreTypeOK
  <2> QED BY <2>1, <2>2
<1>2. rows' = (rows \ txs[t].removed) \union txs[t].added
  BY <1>1 DEF Commit, Visible
<1>3. /\ latest'[r].entries = {Entry(row) : row \in Of(r, txs[t].added)}
      /\ Of(r, rows) \subseteq txs[t].removed
  <2>1. /\ latest'[r] = [version |-> latest[r].version + 1, entries |-> txs[t].body[r]]
        /\ {Entry(row) : row \in Of(r, txs[t].added)} = txs[t].body[r]
        /\ Undisturbed(t, r) => Of(r, rows) \subseteq txs[t].removed
    BY <1>1, CommitMeans
  <2>2. Undisturbed(t, r)
    BY DEF Undisturbed
  <2>3. latest'[r].entries = txs[t].body[r]
    BY <2>1
  <2> QED BY <2>1, <2>2, <2>3
<1>4. Of(r, rows') = Of(r, txs[t].added)
  BY <1>2, <1>3 DEF Of
<1> QED BY <1>3, <1>4 DEF InForce, Of

\* A request that no other commit for the same role disturbs leaves exactly its
\* body in force: what it read is what was there, and all of it is deleted.
THEOREM UndisturbedTheorem == SpecPolicyStore => UndisturbedReplaces
<1>1. PolicyStoreTypeOK /\ TxInv /\ [NextPolicyStore]_policyStoreVars =>
        (\A t \in Txs : Commits(t) =>
           \A r \in Roles :
             Listed(t, r) /\ txs[t].based[r] = latest[r].version =>
               InForce(r)' = latest'[r].entries)
  BY UndisturbedStep
<1> QED BY <1>1, TxInvHolds, PTL DEF SpecPolicyStore, UndisturbedReplaces

=============================================================================
