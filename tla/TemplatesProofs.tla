--------------------------- MODULE TemplatesProofs --------------------------
(***************************************************************************)
(* Proofs about Templates, for any number of users, templates and slots    *)
(* and any free count.                                                     *)
(***************************************************************************)
EXTENDS Templates, FiniteSetTheorems, TLAPS

(* A request record stays one whatever the code assigns to its fields.     *)
LEMMA RequestFields ==
  ASSUME NEW r \in Request
  PROVE  /\ \A l \in {"count", "charge", "ledger", "store"} :
              [r EXCEPT !.pc = l] \in Request /\ [r EXCEPT !.pc = l].user = r.user
         /\ [r EXCEPT !.pc = "store", !.creditCharged = Cost] \in Request
         /\ [r EXCEPT !.pc = "store", !.creditCharged = Cost].user = r.user
         /\ \A c \in Int : /\ [r EXCEPT !.pc = "count", !.credit = c] \in Request
                           /\ [r EXCEPT !.pc = "count", !.credit = c].user = r.user
  BY DEF Request

LEMMA StartedIsRequest ==
  ASSUME NEW u \in Users, NEW a \in Archives \cup {None}, NEW t \in TemplateIds \cup {None},
         NEW l \in {"user", "update", "delete"}
  PROVE  Started(l, u, a, t) \in Request /\ Started(l, u, a, t).user = u
  BY DEF Started, Request

LEMMA IdleIsRequest == Idle \in Request /\ Idle.pc = "idle"
  BY DEF Idle, Started, Request

(* Setting one request to a well-formed one of a known user.               *)
LEMMA RequestSet ==
  ASSUME TypeOK, NEW h \in Handlers, NEW r \in Request,
         r.pc # "idle" => r.user \in Users, req' = [req EXCEPT ![h] = r]
  PROVE  /\ req' \in [Handlers -> Request]
         /\ \A g \in Handlers : req'[g].pc # "idle" => req'[g].user \in Users
         /\ req'[h] = r /\ \A g \in Handlers \ {h} : req'[g] = req[g]
  BY DEF TypeOK

LEMMA TypeStep == TypeOK /\ [Next]_vars => TypeOK'
<1> SUFFICES ASSUME TypeOK, [Next]_vars PROVE TypeOK'
  OBVIOUS
<1>t. /\ balance \in [Users -> Int] /\ ledger \in [Users -> Int]
      /\ req \in [Handlers -> Request]
      /\ \A h \in Handlers : req[h].pc # "idle" => req[h].user \in Users
  BY DEF TypeOK
<1>1. ASSUME NEW h \in Handlers, CreateCheckSource(h) PROVE TypeOK'
  <2>1. PICK u \in Users, a \in Archives \cup {None} :
          req' = [req EXCEPT ![h] = Started("user", u, a, None)]
    BY <1>1 DEF CreateCheckSource
  <2> DEFINE r == Started("user", u, a, None)
  <2>2. r \in Request /\ r.user = u
    BY StartedIsRequest
  <2> QED
    BY <1>1, <2>1, <2>2, RequestSet DEF CreateCheckSource, TypeOK, rows
<1>2. ASSUME NEW h \in Handlers, CreateReadUser(h) PROVE TypeOK'
  <2> DEFINE r == [req[h] EXCEPT !.pc = "count", !.credit = balance[req[h].user]]
  <2>1. r \in Request /\ r.user \in Users
    <3>1. req[h] \in Request /\ req[h].user \in Users /\ balance[req[h].user] \in Int
      BY <1>2, <1>t DEF CreateReadUser
    <3> QED
      BY <3>1, RequestFields
  <2>2. req' = [req EXCEPT ![h] = r]
    BY <1>2 DEF CreateReadUser
  <2> QED
    BY <1>2, <2>1, <2>2, RequestSet DEF CreateReadUser, TypeOK, rows
<1>3. ASSUME NEW h \in Handlers, CreateCount(h) PROVE TypeOK'
  <2>1. PICK l \in {"charge", "store"} :
          req' = [req EXCEPT ![h] = [req[h] EXCEPT !.pc = l]] \/ req' = [req EXCEPT ![h] = Idle]
    BY <1>3 DEF CreateCount, Goto, Return
  <2>2. [req[h] EXCEPT !.pc = l] \in Request /\ [req[h] EXCEPT !.pc = l].user \in Users
    BY <1>3, <1>t, RequestFields DEF CreateCount
  <2> QED
    BY <1>3, <2>1, <2>2, IdleIsRequest, RequestSet DEF CreateCount, TypeOK, rows
<1>4. ASSUME NEW h \in Handlers, Charge(h) PROVE TypeOK'
  <2> DEFINE r == [req[h] EXCEPT !.pc = "ledger"]
  <2>1. r \in Request /\ r.user \in Users
    BY <1>4, <1>t, RequestFields DEF Charge
  <2>2. req' = [req EXCEPT ![h] = r]
    BY <1>4 DEF Charge, Goto
  <2>3. balance' \in [Users -> Int]
    BY <1>4, <1>t DEF Charge, Cost
  <2> QED
    BY <1>4, <2>1, <2>2, <2>3, RequestSet DEF Charge, TypeOK, rows
<1>5. ASSUME NEW h \in Handlers, RecordCharge(h) PROVE TypeOK'
  <2> DEFINE r == [req[h] EXCEPT !.pc = "store", !.creditCharged = Cost]
  <2>1. r \in Request /\ r.user \in Users
    BY <1>5, <1>t, RequestFields DEF RecordCharge
  <2>2. req' = [req EXCEPT ![h] = r]
    BY <1>5 DEF RecordCharge
  <2>3. ledger' \in [Users -> Int]
    BY <1>5, <1>t DEF RecordCharge, Cost
  <2> QED
    BY <1>5, <2>1, <2>2, <2>3, RequestSet DEF RecordCharge, TypeOK, rows
<1>6. ASSUME NEW h \in Handlers, CreateStore(h) PROVE TypeOK'
  <2>1. req[h].user \in Users /\ req[h].source \in Archives \cup {None}
    BY <1>6, <1>t DEF CreateStore, Request
  <2>2. req' = [req EXCEPT ![h] = Idle]
    BY <1>6 DEF CreateStore, Return
  <2>3. CASE Converted(req[h].source)
    BY <1>6, <2>2, <2>3, IdleIsRequest, RequestSet DEF CreateStore, TypeOK, rows
  <2>4. CASE ~Converted(req[h].source)
    <3>1. PICK t \in Unused :
            /\ stored' = stored \cup {t}
            /\ owner'  = [owner  EXCEPT ![t] = req[h].user]
            /\ source' = [source EXCEPT ![t] = req[h].source]
            /\ author' = [author EXCEPT ![t] = req[h].user]
            /\ paid' \in {paid, paid \cup {t}}
      BY <1>6, <2>4 DEF CreateStore, InsertRow
    <3>2. t \in TemplateIds
      BY DEF Unused
    <3>3. /\ stored' \subseteq TemplateIds /\ paid' \subseteq TemplateIds
          /\ owner' \in [TemplateIds -> Users \cup {None}]
          /\ \A s \in stored' : owner'[s] # None
          /\ source' \in [TemplateIds -> Archives \cup {None}]
          /\ author' \in [TemplateIds -> Users \cup {None}]
      BY <2>1, <3>1, <3>2, NoneIsNoRow DEF TypeOK
    <3> QED
      BY <1>6, <2>2, <3>3, IdleIsRequest, RequestSet DEF CreateStore, TypeOK
  <2> QED
    BY <2>3, <2>4
<1>7. ASSUME NEW h \in Handlers, FindOwn(h) PROVE TypeOK'
  <2>1. PICK t \in stored, l \in {"update", "delete"} :
          req' = [req EXCEPT ![h] = Started(l, owner[t], None, t)]
    BY <1>7 DEF FindOwn
  <2> DEFINE r == Started(l, owner[t], None, t)
  <2>2. owner[t] \in Users /\ t \in TemplateIds \cup {None} /\ None \in Archives \cup {None}
    BY DEF TypeOK
  <2>3. r \in Request /\ r.user \in Users
    BY <2>2 DEF Started, Request
  <2> QED
    BY <1>7, <2>1, <2>3, RequestSet DEF FindOwn, TypeOK, rows
<1>8. ASSUME NEW h \in Handlers, Update(h) \/ Remove(h) \/ Fail(h) PROVE TypeOK'
  <2>1. req[h].user \in Users
    BY <1>8, <1>t DEF Update, Remove, Fail
  <2>2. req' = [req EXCEPT ![h] = Idle]
    BY <1>8 DEF Update, Remove, Fail, Return
  <2> QED
    BY <1>8, <2>1, <2>2, IdleIsRequest, RequestSet DEF Update, Remove, Fail, TypeOK, rows
<1>9. CASE UNCHANGED vars
  BY <1>9 DEF vars, rows, TypeOK
<1> QED
  BY <1>1, <1>2, <1>3, <1>4, <1>5, <1>6, <1>7, <1>8, <1>9 DEF Next

(* Every variable keeps its type.                                          *)
THEOREM TypeCorrect == Spec => []TypeOK
<1>1. Init => TypeOK
  BY MaxCreditIsNat, IdleIsRequest DEF Init, TypeOK
<1> QED
  BY <1>1, TypeStep, PTL DEF Spec

-----------------------------------------------------------------------------
(* The policy allows a template that costs credit only to one who has it.  *)
LEMMA ChargedHasCredit ==
  ASSUME NEW tr, NEW n, NEW c,
         canCreateTemplate(tr, n, c).allowed, canCreateTemplate(tr, n, c).cost > 0
  PROVE  c >= Cost
<1>1. ~UnderFreeCount(tr, n)
  BY DEF canCreateTemplate
<1>2. UnderFreeCount(tr, n) \/ MayPay(tr, c)
  BY Zenon DEF canCreateTemplate
<1> QED
  BY <1>1, <1>2 DEF MayPay

(* A step that adds no spender and takes no credit keeps the bound.        *)
LEMMA FewerSpenders ==
  ASSUME TypeOK, DebtBounded, balance' = balance,
         \A u \in Users : Spenders(u)' \subseteq Spenders(u)
  PROVE  DebtBounded'
<1> SUFFICES ASSUME NEW u \in Users
             PROVE  balance[u] - Cardinality(Spenders(u)') >=
                      -Cost * (Cardinality(Handlers) - 1)
  BY DEF DebtBounded
<1>1. IsFiniteSet(Spenders(u))
  BY HandlersFinite, FS_Subset DEF Spenders
<1>2. /\ Cardinality(Spenders(u)') <= Cardinality(Spenders(u))
      /\ Cardinality(Spenders(u)') \in Nat /\ Cardinality(Spenders(u)) \in Nat
  BY <1>1, FS_Subset, FS_CardinalityType
<1>3. balance[u] \in Int /\ Cardinality(Handlers) \in Nat
  BY HandlersFinite, FS_CardinalityType DEF TypeOK
<1> QED
  BY <1>2, <1>3 DEF DebtBounded, Cost

LEMMA DebtStep == TypeOK /\ DebtBounded /\ [Next]_vars => DebtBounded'
<1> SUFFICES ASSUME TypeOK, DebtBounded, [Next]_vars PROVE DebtBounded'
  OBVIOUS
<1>t. /\ req \in [Handlers -> Request] /\ balance \in [Users -> Int]
      /\ Cardinality(Handlers) \in Nat
  BY HandlersFinite, FS_CardinalityType DEF TypeOK
<1>1. ASSUME NEW h \in Handlers, CreateReadUser(h) PROVE DebtBounded'
  <2>f. /\ \A g \in Handlers \ {h} : req'[g] = req[g]
        /\ req'[h].pc = "count" /\ req'[h].user = req[h].user
        /\ req'[h].credit = balance[req[h].user]
        /\ req[h].pc = "user" /\ balance' = balance
    BY <1>1, <1>t DEF CreateReadUser, Request
  <2> SUFFICES ASSUME NEW u \in Users
               PROVE  balance[u] - Cardinality(Spenders(u)') >=
                        -Cost * (Cardinality(Handlers) - 1)
    BY <2>f DEF DebtBounded
  <2>1. CASE u = req[h].user /\ balance[u] >= Cost
    <3>1. Spenders(u)' \in SUBSET Handlers
      BY DEF Spenders
    <3>2. Cardinality(Spenders(u)') <= Cardinality(Handlers)
          /\ Cardinality(Spenders(u)') \in Nat
      BY <3>1, HandlersFinite, FS_Subset, FS_CardinalityType
    <3> QED
      BY <2>1, <3>2, <1>t DEF Cost
  <2>2. CASE ~(u = req[h].user /\ balance[u] >= Cost)
    <3>1. Spenders(u)' = Spenders(u)
      BY <2>f, <2>2 DEF Spenders
    <3> QED
      BY <3>1 DEF DebtBounded
  <2> QED
    BY <2>1, <2>2
<1>2. ASSUME NEW h \in Handlers, Charge(h) PROVE DebtBounded'
  <2>f. /\ \A g \in Handlers \ {h} : req'[g] = req[g]
        /\ req'[h].pc = "ledger" /\ req[h].pc = "charge" /\ req[h].user \in Users
        /\ balance' = [balance EXCEPT ![req[h].user] = @ - Cost]
    BY <1>2, <1>t DEF Charge, Goto, Request, TypeOK
  <2> SUFFICES ASSUME NEW u \in Users
               PROVE  balance'[u] - Cardinality(Spenders(u)') >=
                        -Cost * (Cardinality(Handlers) - 1)
    BY DEF DebtBounded
  <2>1. balance[u] - Cardinality(Spenders(u)) >= -Cost * (Cardinality(Handlers) - 1)
    BY DEF DebtBounded
  <2>2. IsFiniteSet(Spenders(u)) /\ Cardinality(Spenders(u)) \in Nat
    BY HandlersFinite, FS_Subset, FS_CardinalityType DEF Spenders
  <2>3. CASE u = req[h].user
    <3>1. Spenders(u)' = Spenders(u) \ {h} /\ h \in Spenders(u)
      BY <2>f, <2>3 DEF Spenders
    <3>2. Cardinality(Spenders(u)') = Cardinality(Spenders(u)) - 1
      BY <3>1, <2>2, FS_RemoveElement
    <3>3. balance'[u] = balance[u] - 1
      BY <2>f, <2>3, <1>t DEF Cost
    <3> QED
      BY <2>1, <2>2, <3>2, <3>3, <1>t DEF Cost
  <2>4. CASE u # req[h].user
    <3>1. Spenders(u)' = Spenders(u) /\ balance'[u] = balance[u]
      BY <2>f, <2>4, <1>t DEF Spenders
    <3> QED
      BY <2>1, <3>1
  <2> QED
    BY <2>3, <2>4
<1>3. ASSUME NEW h \in Handlers, CreateCount(h) PROVE DebtBounded'
  <2> DEFINE p == canCreateTemplate(tier[req[h].user],
                                    Cardinality(RowsOf(req[h].user)), req[h].credit)
  <2>1. /\ \A g \in Handlers \ {h} : req'[g] = req[g]
        /\ req[h].pc = "count" /\ balance' = balance
        /\ req'[h].pc = "charge" => p.allowed /\ p.cost > 0 /\ req'[h].user = req[h].user
        /\ req'[h].pc \in {"idle", "store", "charge"}
    BY <1>3, <1>t DEF CreateCount, Goto, Return, Request, Idle, Started
  <2>2. p.allowed /\ p.cost > 0 => req[h].credit >= Cost
    BY ChargedHasCredit
  <2>3. \A u \in Users : Spenders(u)' \subseteq Spenders(u)
    BY <2>1, <2>2 DEF Spenders
  <2> QED
    BY <2>1, <2>3, FewerSpenders
<1>4. ASSUME NEW h \in Handlers, balance' = balance,
             \A g \in Handlers \ {h} : req'[g] = req[g],
             req'[h].pc \notin {"count", "charge"}
      PROVE  DebtBounded'
  BY <1>4, FewerSpenders DEF Spenders
<1>5. ASSUME NEW h \in Handlers, CreateCheckSource(h) \/ FindOwn(h) PROVE DebtBounded'
  BY <1>4, <1>5, <1>t DEF CreateCheckSource, FindOwn, Started
<1>6. ASSUME NEW h \in Handlers, RecordCharge(h) PROVE DebtBounded'
  BY <1>4, <1>6, <1>t DEF RecordCharge, Request
<1>7. ASSUME NEW h \in Handlers, CreateStore(h) \/ Update(h) \/ Remove(h) \/ Fail(h)
      PROVE  DebtBounded'
  BY <1>4, <1>7, <1>t DEF CreateStore, Update, Remove, Fail, Return, Idle, Started
<1>8. CASE UNCHANGED vars
  BY <1>8 DEF vars, DebtBounded, Spenders
<1> QED
  BY <1>1, <1>2, <1>3, <1>5, <1>6, <1>7, <1>8 DEF Next

(* Whatever the interleaving of N request slots, an account is overdrawn   *)
(* by at most N-1 charges: the balance check of create is stale, but only  *)
(* the requests in flight can have used it.                                *)
THEOREM OverdraftIsBounded == Spec => []OverdraftBounded
<1>1. Init => DebtBounded
  <2> SUFFICES ASSUME Init, NEW u \in Users
               PROVE  balance[u] - Cardinality(Spenders(u)) >=
                        -Cost * (Cardinality(Handlers) - 1)
    BY DEF DebtBounded
  <2>1. Spenders(u) = {} /\ balance[u] \in Nat
    BY MaxCreditIsNat DEF Init, Spenders, Idle, Started
  <2>2. Cardinality(Handlers) \in Nat \ {0}
    BY HandlersFinite, FS_CardinalityType, FS_EmptySet
  <2> QED
    BY <2>1, <2>2, FS_EmptySet DEF Cost
<1>2. TypeOK /\ DebtBounded => OverdraftBounded
  <2> SUFFICES ASSUME TypeOK, DebtBounded, NEW u \in Users
               PROVE  balance[u] >= -Cost * (Cardinality(Handlers) - 1)
    BY DEF OverdraftBounded
  <2>1. Cardinality(Spenders(u)) \in Nat /\ Cardinality(Handlers) \in Nat
    BY HandlersFinite, FS_Subset, FS_CardinalityType DEF Spenders
  <2>2. balance[u] \in Int
    BY DEF TypeOK
  <2> QED
    BY <2>1, <2>2 DEF DebtBounded, Cost
<1> QED
  BY <1>1, <1>2, DebtStep, TypeCorrect, PTL DEF Spec

-----------------------------------------------------------------------------
(* What a request that writes or deletes by id found when it checked.      *)
Writing ==
  \A h \in Handlers :
    req[h].pc \in {"update", "delete"} =>
      /\ req[h].row \in TemplateIds
      /\ owner[req[h].row] = req[h].user

LEMMA WritingStep == TypeOK /\ Writing /\ [Next]_vars => Writing'
<1> SUFFICES ASSUME TypeOK, Writing, [Next]_vars PROVE Writing'
  OBVIOUS
<1>t. req \in [Handlers -> Request]
      /\ \A h \in Handlers : req[h].pc # "idle" => req[h].user \in Users
  BY DEF TypeOK
<1>0. ASSUME NEW h \in Handlers, owner' = owner,
             \A g \in Handlers \ {h} : req'[g] = req[g],
             req'[h].pc \notin {"update", "delete"}
      PROVE  Writing'
  BY <1>0 DEF Writing
<1>1. ASSUME NEW h \in Handlers, CreateCheckSource(h) PROVE Writing'
  BY <1>0, <1>1, <1>t DEF CreateCheckSource, Started, rows
<1>2. ASSUME NEW h \in Handlers, CreateReadUser(h) PROVE Writing'
  BY <1>0, <1>2, <1>t DEF CreateReadUser, Request, rows
<1>3. ASSUME NEW h \in Handlers, CreateCount(h) PROVE Writing'
  BY <1>0, <1>3, <1>t DEF CreateCount, Goto, Return, Request, Idle, Started, rows
<1>4. ASSUME NEW h \in Handlers, Charge(h) \/ RecordCharge(h) PROVE Writing'
  BY <1>0, <1>4, <1>t DEF Charge, RecordCharge, Goto, Request, rows
<1>5. ASSUME NEW h \in Handlers, CreateStore(h) PROVE Writing'
  <2>1. /\ \A g \in Handlers \ {h} : req'[g] = req[g]
        /\ req'[h].pc = "idle"
    BY <1>5, <1>t DEF CreateStore, Return, Idle, Started
  <2>2. \A t \in TemplateIds : owner[t] # None => owner'[t] = owner[t]
    BY <1>5 DEF CreateStore, InsertRow, Unused, rows, TypeOK
  <2>3. ASSUME NEW g \in Handlers, req'[g].pc \in {"update", "delete"}
        PROVE  req'[g].row \in TemplateIds /\ owner'[req'[g].row] = req'[g].user
    <3>1. req'[g] = req[g]
      BY <2>1, <2>3
    <3>2. req[g].row \in TemplateIds /\ owner[req[g].row] = req[g].user
      BY <2>3, <3>1 DEF Writing
    <3>3. req[g].user # None
      BY <2>3, <3>1, <1>t, NoneIsNoRow
    <3> QED
      BY <2>2, <3>1, <3>2, <3>3
  <2> QED
    BY <2>3 DEF Writing
<1>6. ASSUME NEW h \in Handlers, FindOwn(h) PROVE Writing'
  <2>1. PICK t \in stored, l \in {"update", "delete"} :
          req' = [req EXCEPT ![h] = Started(l, owner[t], None, t)]
    BY <1>6 DEF FindOwn
  <2>2. /\ \A g \in Handlers \ {h} : req'[g] = req[g]
        /\ req'[h].row = t /\ req'[h].user = owner[t]
    BY <2>1, <1>t DEF Started
  <2>3. t \in TemplateIds /\ owner' = owner
    BY <1>6 DEF FindOwn, rows, TypeOK
  <2> QED
    BY <2>2, <2>3 DEF Writing
<1>7. ASSUME NEW h \in Handlers, Update(h) \/ Remove(h) \/ Fail(h) PROVE Writing'
  BY <1>0, <1>7, <1>t DEF Update, Remove, Fail, Return, Idle, Started, rows
<1>8. CASE UNCHANGED vars
  BY <1>8 DEF vars, rows, Writing
<1> QED
  BY <1>1, <1>2, <1>3, <1>4, <1>5, <1>6, <1>7, <1>8 DEF Next

LEMMA RefinedStep ==
  TypeOK /\ Writing /\ [Next]_vars => [Owned!ONext]_(Owned!ovars)
<1> SUFFICES ASSUME TypeOK, Writing, [Next]_vars PROVE [Owned!ONext]_(Owned!ovars)
  OBVIOUS
<1> DEFINE st == rowState
<1>t. /\ owner \in [TemplateIds -> Users \cup {None}] /\ stored \subseteq TemplateIds
      /\ \A t \in stored : owner[t] # None
      /\ \A h \in Handlers : req[h].pc # "idle" => req[h].user \in Users
  BY DEF TypeOK
<1>0. ASSUME UNCHANGED <<stored, owner, author>> PROVE UNCHANGED Owned!ovars
  BY <1>0 DEF Owned!ovars, rowState
<1>1. ASSUME NEW h \in Handlers, CreateStore(h) PROVE [Owned!ONext]_(Owned!ovars)
  <2>1. CASE Converted(req[h].source)
    BY <1>0, <1>1, <2>1 DEF CreateStore, rows
  <2>2. CASE ~Converted(req[h].source)
    <3> DEFINE u == req[h].user
    <3>1. u \in Users
      BY <1>1, <1>t DEF CreateStore
    <3>2. PICK t \in Unused : /\ stored' = stored \cup {t}
                              /\ owner'  = [owner  EXCEPT ![t] = u]
                              /\ author' = [author EXCEPT ![t] = u]
      BY <1>1, <2>2 DEF CreateStore, InsertRow
    <3>3. t \in TemplateIds /\ owner[t] = None
      BY DEF Unused
    <3>4. u # None
      BY <3>1, NoneIsNoRow
    <3>5. st[t] = "unused" /\ st' = [st EXCEPT ![t] = "stored"]
      BY <1>t, <3>2, <3>3, <3>4 DEF rowState
    <3> HIDE DEF u
    <3> QED
      BY <3>1, <3>2, <3>3, <3>5 DEF Owned!ONext, Owned!New, rowState
  <2> QED
    BY <2>1, <2>2
<1>2. ASSUME NEW h \in Handlers, Update(h) PROVE [Owned!ONext]_(Owned!ovars)
  <2> DEFINE t == req[h].row
  <2>1. t \in TemplateIds /\ owner[t] = req[h].user
    BY <1>2 DEF Update, Writing
  <2>2. UNCHANGED <<stored, owner>>
    BY <1>2 DEF Update
  <2>3. CASE t \in stored
    <3>1. st[t] = "stored" /\ st' = st
      BY <1>t, <2>1, <2>2, <2>3 DEF rowState
    <3>2. author' = [author EXCEPT ![t] = owner[t]]
      BY <1>2, <2>1, <2>3 DEF Update
    <3> HIDE DEF t
    <3> QED
      BY <2>1, <2>2, <3>1, <3>2 DEF Owned!ONext, Owned!Write, rowState
  <2>4. CASE t \notin stored
    BY <1>0, <1>2, <2>4 DEF Update
  <2> QED
    BY <2>3, <2>4
<1>3. ASSUME NEW h \in Handlers, Remove(h) PROVE [Owned!ONext]_(Owned!ovars)
  <2> DEFINE t == req[h].row
  <2>1. t \in TemplateIds
    BY <1>3 DEF Remove, Writing
  <2>2. stored' = stored \ {t} /\ UNCHANGED <<owner, author>>
    BY <1>3 DEF Remove
  <2>3. CASE t \in stored
    <3>1. /\ st[t] = "stored" /\ owner[t] \in Users
          /\ st' = [r \in TemplateIds |-> IF r \in {t} THEN "removed" ELSE st[r]]
      BY <1>t, <2>1, <2>2, <2>3 DEF rowState
    <3> HIDE DEF t
    <3>2. Owned!Delete(owner[t], {t})
      BY <2>2, <3>1 DEF Owned!Delete, rowState
    <3> QED
      BY <2>1, <3>1, <3>2 DEF Owned!ONext
  <2>4. CASE t \notin stored
    BY <1>0, <2>2, <2>4
  <2> QED
    BY <2>3, <2>4
<1>4. ASSUME NEW h \in Handlers,
             \/ CreateCheckSource(h) \/ CreateReadUser(h) \/ CreateCount(h)
             \/ Charge(h) \/ RecordCharge(h) \/ FindOwn(h) \/ Fail(h)
      PROVE  UNCHANGED Owned!ovars
  BY <1>0, <1>4 DEF CreateCheckSource, CreateReadUser, CreateCount, Charge,
                    RecordCharge, FindOwn, Fail, rows
<1>5. CASE UNCHANGED vars
  BY <1>0, <1>5 DEF vars, rows
<1> QED
  BY <1>1, <1>2, <1>3, <1>4, <1>5 DEF Next

(* The template table is a table of owned rows, for any number of users,   *)
(* templates and requests (templates.service.ts:73-91, 139-265, 284-314).  *)
THEOREM Refinement == Spec => ImplementsOwnedRows
<1>1. Init => Writing /\ Owned!OInit
  BY DEF Init, Writing, Idle, Started, Owned!OInit, rowState
<1> QED
  BY <1>1, WritingStep, RefinedStep, TypeCorrect, PTL
     DEF Spec, ImplementsOwnedRows, Owned!OSpec

-----------------------------------------------------------------------------
(* An archive becomes at most one template: the check of create is stale   *)
(* when the row is inserted, the unique index is not                       *)
(* (templates.service.ts:174-188, 243-263).                                *)
THEOREM ConvertedOnce == Spec => []OneTemplatePerArchive
<1>1. Init => OneTemplatePerArchive
  BY DEF Init, OneTemplatePerArchive
<1>2. TypeOK /\ OneTemplatePerArchive /\ [Next]_vars => OneTemplatePerArchive'
  <2> SUFFICES ASSUME TypeOK, OneTemplatePerArchive, [Next]_vars
               PROVE  OneTemplatePerArchive'
    OBVIOUS
  <2>1. ASSUME NEW h \in Handlers, CreateStore(h) PROVE OneTemplatePerArchive'
    <3>1. CASE Converted(req[h].source)
      BY <2>1, <3>1 DEF CreateStore, rows, OneTemplatePerArchive
    <3>2. CASE ~Converted(req[h].source)
      <4>1. PICK t \in Unused : /\ stored' = stored \cup {t}
                                /\ source' = [source EXCEPT ![t] = req[h].source]
        BY <2>1, <3>2 DEF CreateStore, InsertRow
      <4>2. req[h].source # None => \A s \in stored : source[s] # req[h].source
        BY <3>2 DEF Converted
      <4>3. t \in TemplateIds /\ t \notin stored
        BY DEF Unused, TypeOK
      <4> QED
        BY <4>1, <4>2, <4>3 DEF OneTemplatePerArchive, TypeOK
    <3> QED
      BY <3>1, <3>2
  <2>2. ASSUME stored' \subseteq stored, source' = source PROVE OneTemplatePerArchive'
    BY <2>2 DEF OneTemplatePerArchive
  <2>3. ASSUME NEW h \in Handlers,
               \/ CreateCheckSource(h) \/ CreateReadUser(h) \/ CreateCount(h)
               \/ Charge(h) \/ RecordCharge(h)
               \/ FindOwn(h) \/ Update(h) \/ Remove(h) \/ Fail(h)
        PROVE  OneTemplatePerArchive'
    BY <2>2, <2>3 DEF CreateCheckSource, CreateReadUser, CreateCount, Charge,
                      RecordCharge, FindOwn, Update, Remove, Fail, rows
  <2>4. CASE UNCHANGED vars
    BY <2>2, <2>4 DEF vars, rows
  <2> QED
    BY <2>1, <2>3, <2>4 DEF Next
<1> QED
  BY <1>1, <1>2, TypeCorrect, PTL DEF Spec

-----------------------------------------------------------------------------
(* The requests of u that are about to insert a row for free, those whose  *)
(* charge is not recorded yet, those whose charge is; and the templates of *)
(* u that were paid for.                                                   *)
Storers(u) == {h \in Handlers : /\ req[h].user = u /\ req[h].pc = "store"
                                /\ req[h].creditCharged = 0}
Owing(u)   == {h \in Handlers : req[h].user = u /\ req[h].pc = "ledger"}
Charged(u) == {h \in Handlers : req[h].user = u /\ req[h].creditCharged = Cost}
PaidOf(u)  == {t \in paid : owner[t] = u}

(* Only finitely many rows were created, and no unused id was paid for.    *)
FiniteTable == /\ IsFiniteSet(stored) /\ IsFiniteSet(paid)
               /\ \A t \in paid : owner[t] # None

(* What makes FreeBounded inductive: a request that still has to insert a  *)
(* free row counts as one, and one that saw a free place saw fewer rows    *)
(* than FreeCount.                                                         *)
RoomBounded ==
  \A u \in Users : Cardinality(RowsOf(u) \ paid) + Cardinality(Storers(u))
                     <= FreeCount + Cardinality(Handlers) - 1

(* What makes LedgerCoversPaid inductive: a recorded charge pays for a     *)
(* template or for a request that may yet insert one, and what was taken   *)
(* from the balance is recorded or about to be.                            *)
ChargesRecorded ==
  \A u \in Users :
    /\ Cardinality(PaidOf(u)) + Cardinality(Charged(u)) <= -ledger[u]
    /\ Cardinality(Owing(u)) - ledger[u] <= opening[u] - balance[u]

Counted == FiniteTable /\ RoomBounded /\ ChargesRecorded

LEMMA Counting ==
  ASSUME NEW S, IsFiniteSet(S), NEW x, NEW T
  PROVE  /\ Cardinality(S) \in Nat
         /\ T \subseteq S => IsFiniteSet(T) /\ Cardinality(T) \in Nat
                             /\ Cardinality(T) <= Cardinality(S)
         /\ T \subseteq S \cup {x} => IsFiniteSet(T) /\ Cardinality(T) \in Nat
                                      /\ Cardinality(T) <= Cardinality(S) + 1
         /\ x \in S /\ T \subseteq S \ {x} => Cardinality(T) <= Cardinality(S) - 1
<1>1. Cardinality(S) \in Nat
  BY FS_CardinalityType
<1>2. ASSUME T \subseteq S
      PROVE  IsFiniteSet(T) /\ Cardinality(T) \in Nat /\ Cardinality(T) <= Cardinality(S)
  BY <1>2, FS_Subset, FS_CardinalityType
<1>3. ASSUME T \subseteq S \cup {x}
      PROVE  /\ IsFiniteSet(T) /\ Cardinality(T) \in Nat
             /\ Cardinality(T) <= Cardinality(S) + 1
  <2>1. /\ IsFiniteSet(S \cup {x}) /\ Cardinality(S \cup {x}) \in Nat
        /\ Cardinality(S \cup {x}) <= Cardinality(S) + 1
    BY <1>1, FS_AddElement, FS_CardinalityType
  <2>2. /\ IsFiniteSet(T) /\ Cardinality(T) \in Nat
        /\ Cardinality(T) <= Cardinality(S \cup {x})
    BY <1>3, <2>1, FS_Subset, FS_CardinalityType
  <2> QED
    BY <1>1, <2>1, <2>2
<1>4. ASSUME x \in S, T \subseteq S \ {x} PROVE Cardinality(T) <= Cardinality(S) - 1
  <2>1. IsFiniteSet(S \ {x}) /\ Cardinality(S \ {x}) = Cardinality(S) - 1
    BY <1>4, FS_RemoveElement
  <2> QED
    BY <1>4, <2>1, FS_Subset
<1> QED
  BY <1>1, <1>2, <1>3, <1>4

LEMMA SlotSets ==
  \A u : /\ IsFiniteSet(Storers(u)) /\ Cardinality(Storers(u)) \in Nat
         /\ Cardinality(Storers(u)) <= Cardinality(Handlers)
         /\ IsFiniteSet(Owing(u)) /\ Cardinality(Owing(u)) \in Nat
         /\ IsFiniteSet(Charged(u)) /\ Cardinality(Charged(u)) \in Nat
         /\ Cardinality(Handlers) \in Nat
<1> TAKE u
<1>1. Storers(u) \in SUBSET Handlers /\ Owing(u) \in SUBSET Handlers
      /\ Charged(u) \in SUBSET Handlers
  BY DEF Storers, Owing, Charged
<1> QED
  BY <1>1, HandlersFinite, FS_Subset, FS_CardinalityType

(* A step that only removes rows or gives up requests keeps the counts.    *)
LEMMA NoneCounted ==
  ASSUME TypeOK, Counted, UNCHANGED <<balance, ledger, opening, owner, paid>>,
         stored' \subseteq stored,
         \A u \in Users : /\ Storers(u)' \subseteq Storers(u)
                          /\ Owing(u)'   \subseteq Owing(u)
                          /\ Charged(u)' \subseteq Charged(u)
  PROVE  Counted'
<1>1. FiniteTable'
  BY FS_Subset DEF Counted, FiniteTable
<1>2. RoomBounded'
  <2> SUFFICES ASSUME NEW u \in Users
               PROVE  Cardinality((RowsOf(u) \ paid)') + Cardinality(Storers(u)')
                        <= FreeCount + Cardinality(Handlers) - 1
    BY DEF RoomBounded
  <2>1. IsFiniteSet(RowsOf(u) \ paid)
    BY FS_Subset DEF Counted, FiniteTable, RowsOf
  <2>2. (RowsOf(u) \ paid)' \subseteq RowsOf(u) \ paid
    BY DEF RowsOf
  <2>3. /\ Cardinality((RowsOf(u) \ paid)') <= Cardinality(RowsOf(u) \ paid)
        /\ Cardinality((RowsOf(u) \ paid)') \in Nat /\ Cardinality(RowsOf(u) \ paid) \in Nat
    BY <2>1, <2>2, Counting
  <2>4. /\ Cardinality(Storers(u)') <= Cardinality(Storers(u))
        /\ Cardinality(Storers(u)') \in Nat /\ Cardinality(Storers(u)) \in Nat
        /\ Cardinality(Handlers) \in Nat
    BY SlotSets, Counting
  <2>5. Cardinality(RowsOf(u) \ paid) + Cardinality(Storers(u))
          <= FreeCount + Cardinality(Handlers) - 1
    BY DEF Counted, RoomBounded
  <2> QED
    BY <2>3, <2>4, <2>5, FreeCountIsNat
<1>3. ChargesRecorded'
  <2> SUFFICES ASSUME NEW u \in Users
               PROVE  /\ Cardinality(PaidOf(u)') + Cardinality(Charged(u)') <= -ledger[u]
                      /\ Cardinality(Owing(u)') - ledger[u] <= opening[u] - balance[u]
    BY DEF ChargesRecorded
  <2>1. /\ Cardinality(Charged(u)') <= Cardinality(Charged(u))
        /\ Cardinality(Charged(u)') \in Nat /\ Cardinality(Charged(u)) \in Nat
        /\ Cardinality(Owing(u)') <= Cardinality(Owing(u))
        /\ Cardinality(Owing(u)') \in Nat /\ Cardinality(Owing(u)) \in Nat
    BY SlotSets, Counting
  <2>2. PaidOf(u)' = PaidOf(u)
    BY DEF PaidOf
  <2>3. Cardinality(PaidOf(u)) \in Nat
    BY FS_Subset, FS_CardinalityType DEF Counted, FiniteTable, PaidOf
  <2>4. /\ Cardinality(PaidOf(u)) + Cardinality(Charged(u)) <= -ledger[u]
        /\ Cardinality(Owing(u)) - ledger[u] <= opening[u] - balance[u]
    BY DEF Counted, ChargesRecorded
  <2>5. ledger[u] \in Int /\ balance[u] \in Int /\ opening[u] \in Int
    BY DEF TypeOK
  <2>6. Cardinality(PaidOf(u)) + Cardinality(Charged(u)') <= -ledger[u]
    BY <2>1, <2>3, <2>4, <2>5
  <2>7. Cardinality(Owing(u)') - ledger[u] <= opening[u] - balance[u]
    BY <2>1, <2>4, <2>5
  <2> QED
    BY <2>2, <2>6, <2>7
<1> QED
  BY <1>1, <1>2, <1>3 DEF Counted

(* The policy lets a request that costs nothing through only while fewer   *)
(* than FreeCount rows were counted.                                       *)
LEMMA FreeSawRoom ==
  ASSUME NEW tr \in {"free", "premium"}, NEW n, NEW c,
         canCreateTemplate(tr, n, c).allowed, ~(canCreateTemplate(tr, n, c).cost > 0)
  PROVE  n < FreeCount
<1>1. UnderFreeCount(tr, n)
  BY DEF canCreateTemplate, Cost
<1> QED
  BY <1>1 DEF UnderFreeCount

LEMMA CountStep ==
  ASSUME TypeOK, Counted, NEW h \in Handlers, CreateCount(h)
  PROVE  Counted'
<1> DEFINE v == req[h].user
           p == canCreateTemplate(tier[v], Cardinality(RowsOf(v)), req[h].credit)
<1>t. /\ req \in [Handlers -> Request] /\ tier \in [Users -> {"free", "premium"}]
      /\ req[h].pc = "count" /\ v \in Users
      /\ UNCHANGED <<balance, ledger, opening, stored, owner, paid>>
  BY DEF CreateCount, TypeOK, rows
<1>1. /\ \A g \in Handlers \ {h} : req'[g] = req[g]
      /\ \/ req'[h].user = None /\ req'[h].pc = "idle"
         \/ /\ req'[h].pc \in {"charge", "store"} /\ req'[h].user = v
            /\ req'[h].creditCharged = req[h].creditCharged
      /\ req'[h].pc = "store" => p.allowed /\ ~(p.cost > 0)
  BY <1>t DEF CreateCount, Goto, Return, Request, Idle, Started
<1>2. \A u \in Users : Owing(u)' \subseteq Owing(u) /\ Charged(u)' \subseteq Charged(u)
  BY <1>1, <1>t, NoneIsNoRow DEF Owing, Charged
<1>3. CASE req'[h].pc # "store"
  <2>1. \A u \in Users : Storers(u)' \subseteq Storers(u)
    BY <1>1, <1>3 DEF Storers
  <2> QED
    BY <1>2, <1>t, <2>1, NoneCounted
<1>4. CASE req'[h].pc = "store"
  <2>1. Cardinality(RowsOf(v)) < FreeCount
    BY <1>1, <1>4, <1>t, FreeSawRoom
  <2>2. \A u \in Users : u # v => Storers(u)' \subseteq Storers(u)
    BY <1>1, <1>4 DEF Storers
  <2>3. FiniteTable'
    BY <1>t DEF Counted, FiniteTable
  <2>4. ASSUME NEW u \in Users
        PROVE  Cardinality((RowsOf(u) \ paid)') + Cardinality(Storers(u)')
                 <= FreeCount + Cardinality(Handlers) - 1
    <3>1. Cardinality((RowsOf(u) \ paid)') = Cardinality(RowsOf(u) \ paid)
      BY <1>t, (RowsOf(u) \ paid)' = RowsOf(u) \ paid DEF RowsOf
    <3>2. IsFiniteSet(RowsOf(u))
      BY FS_Subset DEF Counted, FiniteTable, RowsOf
    <3>3. /\ Cardinality(RowsOf(u) \ paid) <= Cardinality(RowsOf(u))
          /\ Cardinality(RowsOf(u) \ paid) \in Nat /\ Cardinality(RowsOf(u)) \in Nat
      BY <3>2, Counting, RowsOf(u) \ paid \subseteq RowsOf(u)
    <3>4. /\ Cardinality(Storers(u)') <= Cardinality(Handlers)
          /\ Cardinality(Storers(u)') \in Nat /\ Cardinality(Handlers) \in Nat
      <4>1. Storers(u)' \in SUBSET Handlers
        BY DEF Storers
      <4> QED
        BY <4>1, HandlersFinite, FS_Subset, FS_CardinalityType
    <3>5. CASE u = v
      BY <2>1, <3>1, <3>3, <3>4, <3>5, FreeCountIsNat
    <3>6. CASE u # v
      <4>1. /\ Cardinality(Storers(u)') <= Cardinality(Storers(u))
            /\ Cardinality(Storers(u)) \in Nat
        BY <2>2, <3>6, SlotSets, Counting
      <4>2. Cardinality(RowsOf(u) \ paid) + Cardinality(Storers(u))
              <= FreeCount + Cardinality(Handlers) - 1
        BY DEF Counted, RoomBounded
      <4> QED
        BY <3>1, <3>3, <3>4, <4>1, <4>2, FreeCountIsNat
    <3> QED
      BY <3>5, <3>6
  <2>5. ChargesRecorded'
    <3> SUFFICES ASSUME NEW u \in Users
                 PROVE  /\ Cardinality(PaidOf(u)') + Cardinality(Charged(u)') <= -ledger[u]
                        /\ Cardinality(Owing(u)') - ledger[u] <= opening[u] - balance[u]
      BY <1>t DEF ChargesRecorded
    <3>1. PaidOf(u)' = PaidOf(u)
      BY <1>t DEF PaidOf
    <3>2. Charged(u)' = Charged(u) /\ Owing(u)' = Owing(u)
      BY <1>1, <1>4, <1>t DEF Charged, Owing
    <3> QED
      BY <3>1, <3>2 DEF Counted, ChargesRecorded
  <2> QED
    BY <2>3, <2>4, <2>5 DEF Counted, RoomBounded
<1> QED
  BY <1>3, <1>4

LEMMA ChargeStep ==
  ASSUME TypeOK, Counted, NEW h \in Handlers, Charge(h) \/ RecordCharge(h)
  PROVE  Counted'
<1> DEFINE v == req[h].user
<1>t. /\ req \in [Handlers -> Request] /\ v \in Users
      /\ balance \in [Users -> Int] /\ ledger \in [Users -> Int] /\ opening \in [Users -> Nat]
      /\ UNCHANGED <<opening, stored, owner, paid>>
  BY DEF Charge, RecordCharge, TypeOK, rows
<1>1. \A g \in Handlers \ {h} : req'[g] = req[g]
  BY <1>t DEF Charge, RecordCharge, Goto
<1>2. /\ req'[h].user = v /\ req'[h].pc \in {"ledger", "store"}
      /\ req'[h].pc = "store" => req'[h].creditCharged = Cost
  BY <1>t DEF Charge, RecordCharge, Goto, Request
<1>3. \A u \in Users : Storers(u)' \subseteq Storers(u)
  BY <1>1, <1>2 DEF Storers, Cost
<1>4. FiniteTable'
  BY <1>t DEF Counted, FiniteTable
<1>5. RoomBounded'
  <2> SUFFICES ASSUME NEW u \in Users
               PROVE  Cardinality((RowsOf(u) \ paid)') + Cardinality(Storers(u)')
                        <= FreeCount + Cardinality(Handlers) - 1
    BY DEF RoomBounded
  <2>1. Cardinality((RowsOf(u) \ paid)') = Cardinality(RowsOf(u) \ paid)
    BY <1>t, (RowsOf(u) \ paid)' = RowsOf(u) \ paid DEF RowsOf
  <2>2. Cardinality(RowsOf(u) \ paid) \in Nat
    BY FS_Subset, FS_CardinalityType DEF Counted, FiniteTable, RowsOf
  <2>3. /\ Cardinality(Storers(u)') <= Cardinality(Storers(u))
        /\ Cardinality(Storers(u)') \in Nat /\ Cardinality(Storers(u)) \in Nat
        /\ Cardinality(Handlers) \in Nat
    BY <1>3, SlotSets, Counting
  <2>4. Cardinality(RowsOf(u) \ paid) + Cardinality(Storers(u))
          <= FreeCount + Cardinality(Handlers) - 1
    BY DEF Counted, RoomBounded
  <2> QED
    BY <2>1, <2>2, <2>3, <2>4, FreeCountIsNat
<1>6. ASSUME NEW u \in Users
      PROVE  /\ Cardinality(PaidOf(u)') + Cardinality(Charged(u)') <= -ledger'[u]
             /\ Cardinality(Owing(u)') - ledger'[u] <= opening[u] - balance'[u]
  <2>1. PaidOf(u)' = PaidOf(u) /\ Cardinality(PaidOf(u)) \in Nat
    BY <1>t, FS_Subset, FS_CardinalityType DEF PaidOf, Counted, FiniteTable
  <2>2. /\ Cardinality(PaidOf(u)) + Cardinality(Charged(u)) <= -ledger[u]
        /\ Cardinality(Owing(u)) - ledger[u] <= opening[u] - balance[u]
        /\ ledger[u] \in Int /\ balance[u] \in Int /\ opening[u] \in Int
    BY <1>t DEF Counted, ChargesRecorded
  <2>3. /\ Cardinality(Charged(u)) \in Nat /\ IsFiniteSet(Charged(u))
        /\ Cardinality(Owing(u)) \in Nat /\ IsFiniteSet(Owing(u))
    BY SlotSets
  <2>4. CASE u # v
    <3>1. Charged(u)' = Charged(u) /\ Owing(u)' = Owing(u)
      BY <1>1, <1>2, <2>4 DEF Charged, Owing
    <3>2. ledger'[u] = ledger[u] /\ balance'[u] = balance[u]
      BY <1>t, <2>4 DEF Charge, RecordCharge
    <3> QED
      BY <2>1, <2>2, <3>1, <3>2
  <2>5. CASE u = v /\ Charge(h)
    <3>1. Charged(u)' = Charged(u)
      BY <1>1, <1>t, <2>5 DEF Charged, Charge, Goto, Request
    <3>2. Owing(u)' \subseteq Owing(u) \cup {h}
      BY <1>1 DEF Owing
    <3>3. Cardinality(Owing(u)') <= Cardinality(Owing(u)) + 1 /\ Cardinality(Owing(u)') \in Nat
      BY <2>3, <3>2, Counting
    <3>4. ledger'[u] = ledger[u] /\ balance'[u] = balance[u] - 1
      BY <1>t, <2>5 DEF Charge, Cost
    <3> QED
      BY <2>1, <2>2, <2>3, <3>1, <3>3, <3>4
  <2>6. CASE u = v /\ RecordCharge(h)
    <3>1. Charged(u)' \subseteq Charged(u) \cup {h}
      BY <1>1 DEF Charged
    <3>2. /\ Cardinality(Charged(u)') <= Cardinality(Charged(u)) + 1
          /\ Cardinality(Charged(u)') \in Nat
      BY <2>3, <3>1, Counting
    <3>3. req[h].pc = "ledger" /\ req'[h].pc = "store"
      BY <1>t, <2>6 DEF RecordCharge, Request
    <3>4. h \in Owing(u) /\ Owing(u)' \subseteq Owing(u) \ {h}
      BY <1>1, <2>6, <3>3 DEF Owing
    <3>5. /\ Cardinality(Owing(u)') <= Cardinality(Owing(u)) - 1
          /\ Cardinality(Owing(u)') \in Nat
      BY <2>3, <3>4, Counting
    <3>6. ledger'[u] = ledger[u] - 1 /\ balance'[u] = balance[u]
      BY <1>t, <2>6 DEF RecordCharge, Cost
    <3> QED
      BY <2>1, <2>2, <2>3, <3>2, <3>5, <3>6
  <2> QED
    BY <2>4, <2>5, <2>6
<1> QED
  BY <1>4, <1>5, <1>6, <1>t DEF Counted, ChargesRecorded

LEMMA StoreStep ==
  ASSUME TypeOK, Counted, NEW h \in Handlers, CreateStore(h), ~Converted(req[h].source)
  PROVE  Counted'
<1> DEFINE v == req[h].user
<1>t. /\ req \in [Handlers -> Request] /\ v \in Users /\ req[h].pc = "store"
      /\ owner \in [TemplateIds -> Users \cup {None}] /\ None \notin Users
      /\ ledger \in [Users -> Int] /\ balance \in [Users -> Int] /\ opening \in [Users -> Nat]
      /\ stored \subseteq TemplateIds /\ paid \subseteq TemplateIds
      /\ UNCHANGED <<balance, ledger, opening>>
  BY NoneIsNoRow DEF CreateStore, TypeOK
<1>1. PICK t \in Unused :
        /\ stored' = stored \cup {t} /\ owner' = [owner EXCEPT ![t] = v]
        /\ paid' = IF req[h].creditCharged > 0 THEN paid \cup {t} ELSE paid
  BY DEF CreateStore, InsertRow
<1>2. t \in TemplateIds /\ owner[t] = None /\ t \notin paid
  BY DEF Unused, Counted, FiniteTable
<1>3. /\ \A g \in Handlers \ {h} : req'[g] = req[g]
      /\ req'[h].pc = "idle" /\ req'[h].user = None
  BY <1>t DEF CreateStore, Return, Idle, Started
<1>4. \A s \in TemplateIds \ {t} : owner'[s] = owner[s]
  BY <1>1, <1>t
<1>5. owner'[t] = v
  BY <1>1, <1>2, <1>t
<1> HIDE DEF v
<1>6. FiniteTable'
  <2>1. IsFiniteSet(stored') /\ IsFiniteSet(paid')
    BY <1>1, FS_AddElement DEF Counted, FiniteTable
  <2>2. \A s \in paid' : owner'[s] # None
    BY <1>1, <1>t, <1>4, <1>5 DEF Counted, FiniteTable
  <2> QED
    BY <2>1, <2>2 DEF FiniteTable
<1>7. req[h].creditCharged \in {0, 1}
  BY <1>t DEF Request, Cost
<1>8. ASSUME NEW u \in Users
      PROVE  Cardinality((RowsOf(u) \ paid)') + Cardinality(Storers(u)')
               <= FreeCount + Cardinality(Handlers) - 1
  <2> DEFINE R == RowsOf(u) \ paid
             Q == (RowsOf(u) \ paid)'
  <2>1. IsFiniteSet(R)
    BY FS_Subset DEF Counted, FiniteTable, RowsOf
  <2>2. /\ Cardinality(R) + Cardinality(Storers(u)) <= FreeCount + Cardinality(Handlers) - 1
        /\ IsFiniteSet(Storers(u)) /\ Cardinality(Storers(u)) \in Nat
        /\ Cardinality(Handlers) \in Nat
    BY SlotSets DEF Counted, RoomBounded
  <2>3. CASE u = v /\ req[h].creditCharged = 0
    <3>1. Q \subseteq R \cup {t}
      BY <1>1, <1>t, <1>4 DEF RowsOf
    <3>2. h \in Storers(u) /\ Storers(u)' \subseteq Storers(u) \ {h}
      BY <1>3, <1>t, <2>3 DEF Storers, v
    <3> HIDE DEF R, Q
    <3>3. Cardinality(Q) <= Cardinality(R) + 1 /\ Cardinality(Q) \in Nat /\ Cardinality(R) \in Nat
      BY <2>1, <3>1, Counting
    <3>4. /\ Cardinality(Storers(u)') <= Cardinality(Storers(u)) - 1
          /\ Cardinality(Storers(u)') \in Nat
      BY <2>2, <3>2, Counting
    <3>5. Cardinality(Q) + Cardinality(Storers(u)') <= FreeCount + Cardinality(Handlers) - 1
      BY <2>2, <3>3, <3>4, FreeCountIsNat
    <3> QED
      BY <3>5 DEF Q
  <2>4. CASE ~(u = v /\ req[h].creditCharged = 0)
    <3>1. Q \subseteq R
      BY <1>1, <1>t, <1>4, <1>5, <1>7, <2>4 DEF RowsOf
    <3>2. Storers(u)' \subseteq Storers(u)
      BY <1>3 DEF Storers
    <3> HIDE DEF R, Q
    <3>3. Cardinality(Q) <= Cardinality(R) /\ Cardinality(Q) \in Nat /\ Cardinality(R) \in Nat
      BY <2>1, <3>1, Counting
    <3>4. /\ Cardinality(Storers(u)') <= Cardinality(Storers(u))
          /\ Cardinality(Storers(u)') \in Nat
      BY <2>2, <3>2, Counting
    <3>5. Cardinality(Q) + Cardinality(Storers(u)') <= FreeCount + Cardinality(Handlers) - 1
      BY <2>2, <3>3, <3>4, FreeCountIsNat
    <3> QED
      BY <3>5 DEF Q
  <2> QED
    BY <2>3, <2>4
<1>9. ASSUME NEW u \in Users
      PROVE  /\ Cardinality(PaidOf(u)') + Cardinality(Charged(u)') <= -ledger[u]
             /\ Cardinality(Owing(u)') - ledger[u] <= opening[u] - balance[u]
  <2>1. IsFiniteSet(PaidOf(u)) /\ Cardinality(PaidOf(u)) \in Nat
    BY FS_Subset, FS_CardinalityType DEF PaidOf, Counted, FiniteTable
  <2>2. /\ Cardinality(PaidOf(u)) + Cardinality(Charged(u)) <= -ledger[u]
        /\ Cardinality(Owing(u)) - ledger[u] <= opening[u] - balance[u]
        /\ ledger[u] \in Int /\ balance[u] \in Int /\ opening[u] \in Int
    BY <1>t DEF Counted, ChargesRecorded
  <2>3. /\ Cardinality(Charged(u)) \in Nat /\ IsFiniteSet(Charged(u))
        /\ Cardinality(Owing(u)) \in Nat /\ IsFiniteSet(Owing(u))
    BY SlotSets
  <2>4. Owing(u)' = Owing(u)
    BY <1>3, <1>t DEF Owing
  <2>5. Charged(u)' \subseteq Charged(u)
    BY <1>3, <1>t DEF Charged
  <2>6. CASE u = v /\ req[h].creditCharged = 1
    <3>1. PaidOf(u)' \subseteq PaidOf(u) \cup {t}
      BY <1>1, <1>t, <1>4 DEF PaidOf
    <3>2. h \in Charged(u) /\ Charged(u)' \subseteq Charged(u) \ {h}
      BY <1>3, <1>t, <2>6 DEF Charged, Cost, v
    <3>3. /\ Cardinality(PaidOf(u)') <= Cardinality(PaidOf(u)) + 1
          /\ Cardinality(PaidOf(u)') \in Nat
      BY <2>1, <3>1, Counting
    <3>4. /\ Cardinality(Charged(u)') <= Cardinality(Charged(u)) - 1
          /\ Cardinality(Charged(u)') \in Nat
      BY <2>3, <2>5, <3>2, Counting
    <3> QED
      BY <2>1, <2>2, <2>3, <2>4, <3>3, <3>4
  <2>7. CASE ~(u = v /\ req[h].creditCharged = 1)
    <3>1. PaidOf(u)' \subseteq PaidOf(u)
      BY <1>1, <1>2, <1>t, <1>4, <1>5, <1>7, <2>7 DEF PaidOf
    <3>2. Cardinality(PaidOf(u)') <= Cardinality(PaidOf(u)) /\ Cardinality(PaidOf(u)') \in Nat
      BY <2>1, <3>1, Counting
    <3>3. Cardinality(Charged(u)') <= Cardinality(Charged(u)) /\ Cardinality(Charged(u)') \in Nat
      BY <2>3, <2>5, Counting
    <3> QED
      BY <2>1, <2>2, <2>3, <2>4, <3>2, <3>3
  <2> QED
    BY <2>6, <2>7
<1> QED
  BY <1>6, <1>8, <1>9, <1>t DEF Counted, RoomBounded, ChargesRecorded

LEMMA CountedStep == TypeOK /\ Counted /\ [Next]_vars => Counted'
<1> SUFFICES ASSUME TypeOK, Counted, [Next]_vars PROVE Counted'
  OBVIOUS
<1>t. req \in [Handlers -> Request] /\ None \notin Users
  BY NoneIsNoRow DEF TypeOK
<1>1. ASSUME NEW h \in Handlers, UNCHANGED <<balance, ledger, opening, owner, paid>>,
             stored' \subseteq stored, \A g \in Handlers \ {h} : req'[g] = req[g],
             \/ req'[h].user = None
             \/ req'[h].pc \notin {"store", "ledger"} /\ req'[h].creditCharged = 0
             \/ /\ req'[h].pc \notin {"store", "ledger"} /\ req'[h].user = req[h].user
                /\ req'[h].creditCharged = req[h].creditCharged
      PROVE  Counted'
  <2>1. \A u \in Users : /\ Storers(u)' \subseteq Storers(u)
                         /\ Owing(u)'   \subseteq Owing(u)
                         /\ Charged(u)' \subseteq Charged(u)
    BY <1>1, <1>t DEF Storers, Owing, Charged, Cost
  <2> QED
    BY <1>1, <2>1, NoneCounted
<1>2. ASSUME NEW h \in Handlers, CreateCheckSource(h) \/ FindOwn(h) PROVE Counted'
  <2>1. PICK l \in {"user", "update", "delete"} : \E u, a, t :
          req' = [req EXCEPT ![h] = Started(l, u, a, t)]
    BY <1>2 DEF CreateCheckSource, FindOwn
  <2>2. /\ \A g \in Handlers \ {h} : req'[g] = req[g]
        /\ req'[h].pc \notin {"store", "ledger"} /\ req'[h].creditCharged = 0
    BY <1>t, <2>1 DEF Started
  <2> QED
    BY <1>1, <1>2, <2>2 DEF CreateCheckSource, FindOwn, rows
<1>3. ASSUME NEW h \in Handlers, CreateReadUser(h) PROVE Counted'
  <2>1. /\ \A g \in Handlers \ {h} : req'[g] = req[g]
        /\ req'[h].pc = "count" /\ req'[h].user = req[h].user
        /\ req'[h].creditCharged = req[h].creditCharged
    BY <1>3, <1>t DEF CreateReadUser, Request
  <2> QED
    BY <1>1, <1>3, <2>1 DEF CreateReadUser, rows
<1>4. ASSUME NEW h \in Handlers, Return(h), UNCHANGED <<balance, ledger, opening, owner, paid>>,
             stored' \subseteq stored
      PROVE  Counted'
  BY <1>1, <1>4, <1>t DEF Return, Idle, Started
<1>5. ASSUME NEW h \in Handlers, Update(h) \/ Remove(h) \/ Fail(h) PROVE Counted'
  BY <1>4, <1>5 DEF Update, Remove, Fail, rows
<1>6. ASSUME NEW h \in Handlers, CreateStore(h) PROVE Counted'
  BY <1>4, <1>6, StoreStep DEF CreateStore, rows
<1>7. CASE UNCHANGED vars
  <2>1. \A u \in Users : /\ Storers(u)' \subseteq Storers(u)
                         /\ Owing(u)'   \subseteq Owing(u)
                         /\ Charged(u)' \subseteq Charged(u)
    BY <1>7 DEF Storers, Owing, Charged, vars
  <2> QED
    BY <1>7, <2>1, NoneCounted DEF vars, rows
<1>8. ASSUME NEW h \in Handlers, CreateCount(h) \/ Charge(h) \/ RecordCharge(h) PROVE Counted'
  BY <1>8, CountStep, ChargeStep
<1> QED
  BY <1>2, <1>3, <1>5, <1>6, <1>7, <1>8 DEF Next

LEMMA CountedInit == Init => Counted
<1> SUFFICES ASSUME Init PROVE Counted
  OBVIOUS
<1>1. FiniteTable
  BY FS_EmptySet DEF Init, FiniteTable
<1>2. ASSUME NEW u \in Users
      PROVE  /\ RowsOf(u) \ paid = {} /\ Storers(u) = {} /\ Owing(u) = {}
             /\ Charged(u) = {} /\ PaidOf(u) = {}
  BY NoneIsNoRow DEF Init, Idle, Started, RowsOf, Storers, Owing, Charged, PaidOf
<1>3. Cardinality({}) = 0
  BY FS_EmptySet
<1>4. Cardinality(Handlers) \in Nat /\ Cardinality(Handlers) # 0
  BY HandlersFinite, FS_CardinalityType, FS_EmptySet
<1>5. RoomBounded
  BY <1>2, <1>3, <1>4, FreeCountIsNat DEF RoomBounded
<1>6. \A u \in Users : ledger[u] = 0 /\ opening[u] = balance[u] /\ opening[u] \in Nat
  BY MaxCreditIsNat DEF Init
<1>7. ChargesRecorded
  <2> SUFFICES ASSUME NEW u \in Users
               PROVE  /\ Cardinality(PaidOf(u)) + Cardinality(Charged(u)) <= -ledger[u]
                      /\ Cardinality(Owing(u)) - ledger[u] <= opening[u] - balance[u]
    BY DEF ChargesRecorded
  <2>1. /\ Cardinality(PaidOf(u)) = 0 /\ Cardinality(Charged(u)) = 0
        /\ Cardinality(Owing(u)) = 0
    BY <1>2, <1>3
  <2> QED
    BY <1>6, <2>1
<1> QED
  BY <1>1, <1>5, <1>7 DEF Counted

(* However many rows the table, and requests the server holds, the         *)
(* uncharged templates of a user exceed the free count by less than the    *)
(* number of slots (templates.service.ts:202-243).                         *)
THEOREM FreeTemplatesBounded == Spec => []FreeBounded
<1>1. TypeOK /\ Counted => FreeBounded
  <2> SUFFICES ASSUME Counted, NEW u \in Users
               PROVE  Cardinality(RowsOf(u) \ paid) <= FreeCount + Cardinality(Handlers) - 1
    BY DEF FreeBounded
  <2>1. Cardinality(RowsOf(u) \ paid) \in Nat
    BY FS_Subset, FS_CardinalityType DEF Counted, FiniteTable, RowsOf
  <2>2. Cardinality(Storers(u)) \in Nat /\ Cardinality(Handlers) \in Nat
    BY SlotSets
  <2>3. Cardinality(RowsOf(u) \ paid) + Cardinality(Storers(u))
          <= FreeCount + Cardinality(Handlers) - 1
    BY DEF Counted, RoomBounded
  <2> QED
    BY <2>1, <2>2, <2>3, FreeCountIsNat
<1> QED
  BY <1>1, CountedInit, CountedStep, TypeCorrect, PTL DEF Spec

(* What was paid for is in the ledger and what is in the ledger was taken  *)
(* from the balance, wherever requests stop (templates.service.ts:217-265).*)
THEOREM LedgerCovers == Spec => []LedgerCoversPaid
<1>1. TypeOK /\ Counted => LedgerCoversPaid
  <2> SUFFICES ASSUME TypeOK, Counted, NEW u \in Users
               PROVE  /\ Cost * Cardinality(PaidOf(u)) <= -ledger[u]
                      /\ -ledger[u] <= opening[u] - balance[u]
    BY DEF LedgerCoversPaid, PaidOf
  <2>1. Cardinality(PaidOf(u)) \in Nat
    BY FS_Subset, FS_CardinalityType DEF PaidOf, Counted, FiniteTable
  <2>2. Cardinality(Charged(u)) \in Nat /\ Cardinality(Owing(u)) \in Nat
    BY SlotSets
  <2>3. /\ Cardinality(PaidOf(u)) + Cardinality(Charged(u)) <= -ledger[u]
        /\ Cardinality(Owing(u)) - ledger[u] <= opening[u] - balance[u]
        /\ ledger[u] \in Int /\ balance[u] \in Int /\ opening[u] \in Int
    BY DEF Counted, ChargesRecorded, TypeOK
  <2> QED
    BY <2>1, <2>2, <2>3 DEF Cost
<1> QED
  BY <1>1, CountedInit, CountedStep, TypeCorrect, PTL DEF Spec

-----------------------------------------------------------------------------
(* template-policy.config.spec.ts:134 is wrong by overlapping requests     *)
(* only: if creations run one after the other nobody spends credit that is *)
(* not there, and nobody gets more free templates than the free count.     *)
THEOREM AloneNoOverdraft ==
  ASSUME NEW one, Handlers = {one}
  PROVE  Spec => [](/\ NoOverdraft
                    /\ \A u \in Users : Cardinality(RowsOf(u) \ paid) <= FreeCount)
<1>1. Cardinality(Handlers) = 1
  BY FS_Singleton
<1>2. OverdraftBounded => NoOverdraft
  BY <1>1 DEF OverdraftBounded, NoOverdraft, Cost
<1>3. FreeBounded => \A u \in Users : Cardinality(RowsOf(u) \ paid) <= FreeCount
  BY <1>1, FreeCountIsNat DEF FreeBounded
<1> QED
  BY <1>2, <1>3, OverdraftIsBounded, FreeTemplatesBounded, PTL
=============================================================================
