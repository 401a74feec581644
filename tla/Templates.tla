----------------------------- MODULE Templates ------------------------------
(***************************************************************************)
(* templates.service.ts: saving, editing and deleting templates, each      *)
(* request a sequence of database statements that nothing groups into a    *)
(* transaction.  Requests of one slot run one after another; those of      *)
(* different slots interleave between any two statements.                  *)
(***************************************************************************)
EXTENDS TemplatePolicy, FiniteSets

CONSTANTS Users,       \* account ids
          TemplateIds, \* the ids a Template row may get (cuid: none twice)
          Archives,    \* archive ids a template may be made from
          Handlers,    \* request slots
          MaxCredit,   \* largest opening balance
          None         \* null

ASSUME HandlersFinite == IsFiniteSet(Handlers) /\ Handlers # {}
ASSUME MaxCreditIsNat == MaxCredit \in Nat
ASSUME NoneIsNoRow == None \notin Users \cup TemplateIds \cup Archives

VARIABLES
  tier,     \* User.tier
  balance,  \* User.creditBalance
  ledger,   \* sum of the amounts of the user's CreditTransaction rows
  stored,   \* ids of the rows of table Template
  owner,    \* Template.userId, None while the id is unused
  source,   \* Template.sourceArchiveId
  author,   \* whose request wrote the row's text last
  req,      \* req[h]: program counter and locals of the request in slot h
  opening,  \* history: each user's opening balance
  paid      \* history: the templates whose creation charged a credit

rows == <<stored, owner, source, author, paid>>
vars == <<tier, balance, ledger, rows, req, opening>>

Request == [pc : {"idle", "user", "count", "charge", "ledger", "store",
                  "update", "delete"},
            user : Users \cup {None}, source : Archives \cup {None},
            row : TemplateIds \cup {None}, credit : Int, creditCharged : {0, Cost}]

Started(label, u, a, t) == [pc |-> label, user |-> u, source |-> a, row |-> t,
                            credit |-> 0, creditCharged |-> 0]

Idle == Started("idle", None, None, None)

Init == /\ tier \in [Users -> {"free", "premium"}]
        /\ opening \in [Users -> 0..MaxCredit]
        /\ balance = opening
        /\ ledger = [u \in Users |-> 0]
        /\ stored = {} /\ paid = {}
        /\ owner  = [t \in TemplateIds |-> None]
        /\ source = [t \in TemplateIds |-> None]
        /\ author = [t \in TemplateIds |-> None]
        /\ req    = [h \in Handlers |-> Idle]

-----------------------------------------------------------------------------
RowsOf(u) == {t \in stored : owner[t] = u}
Unused    == {t \in TemplateIds : owner[t] = None}

(* The unique index on sourceArchiveId; null is not indexed.               *)
Converted(a) == a # None /\ \E t \in stored : source[t] = a

Goto(h, label) == req' = [req EXCEPT ![h].pc = label]
Return(h)      == req' = [req EXCEPT ![h] = Idle]

-----------------------------------------------------------------------------
(* Variant: an empty sourceArchiveId is kept as it is.                     *)
CreateCheckSourceEmpty(h) ==
  /\ req[h].pc = "idle"
  /\ \E u \in Users :
       req' = [req EXCEPT ![h] = Started("user", u, "", None)]
  /\ UNCHANGED <<tier, balance, ledger, rows, opening>>

(* create: is the archive already converted?  (409 if so)                  *)
CreateCheckSource(h) ==
  /\ req[h].pc = "idle"
  /\ \E u \in Users, a \in Archives \cup {None} :
       /\ ~Converted(a)
       /\ req' = [req EXCEPT ![h] = Started("user", u, a, None)]
  /\ UNCHANGED <<tier, balance, ledger, rows, opening>>

CreateReadUser(h) ==
  /\ req[h].pc = "user"
  /\ req' = [req EXCEPT ![h].pc = "count", ![h].credit = balance[req[h].user]]
  /\ UNCHANGED <<tier, balance, ledger, rows, opening>>

(* Counts the rows and applies the policy to what was read.  (403 if not   *)
(* allowed)                                                                *)
CreateCount(h) ==
  LET u == req[h].user
      policy == canCreateTemplate(tier[u], Cardinality(RowsOf(u)), req[h].credit)
  IN
  /\ req[h].pc = "count"
  /\ IF ~policy.allowed THEN Return(h)
     ELSE Goto(h, IF policy.cost > 0 THEN "charge" ELSE "store")
  /\ UNCHANGED <<tier, balance, ledger, rows, opening>>

Charge(h) ==
  /\ req[h].pc = "charge"
  /\ balance' = [balance EXCEPT ![req[h].user] = @ - Cost]
  /\ Goto(h, "ledger")
  /\ UNCHANGED <<tier, ledger, rows, opening>>

(* Variant: the charge leaves no CreditTransaction.                        *)
RecordNothing(h) ==
  /\ req[h].pc = "ledger"
  /\ req' = [req EXCEPT ![h].pc = "store", ![h].creditCharged = Cost]
  /\ UNCHANGED <<tier, balance, ledger, rows, opening>>

RecordCharge(h) ==
  /\ req[h].pc = "ledger"
  /\ ledger' = [ledger EXCEPT ![req[h].user] = @ - Cost]
  /\ req' = [req EXCEPT ![h].pc = "store", ![h].creditCharged = Cost]
  /\ UNCHANGED <<tier, balance, rows, opening>>

InsertRow(h) ==
  \E t \in Unused :
    /\ stored' = stored \cup {t}
    /\ owner'  = [owner  EXCEPT ![t] = req[h].user]
    /\ source' = [source EXCEPT ![t] = req[h].source]
    /\ author' = [author EXCEPT ![t] = req[h].user]
    /\ paid'   = IF req[h].creditCharged > 0 THEN paid \cup {t} ELSE paid

(* Variant: sourceArchiveId is not unique.                                 *)
CreateStoreAlways(h) ==
  /\ req[h].pc = "store"
  /\ InsertRow(h)
  /\ Return(h)
  /\ UNCHANGED <<tier, balance, ledger, opening>>

(* Another request may have converted the archive since it was checked:    *)
(* P2002, answered with 409.                                               *)
CreateStore(h) ==
  /\ req[h].pc = "store"
  /\ IF Converted(req[h].source) THEN UNCHANGED rows ELSE InsertRow(h)
  /\ Return(h)
  /\ UNCHANGED <<tier, balance, ledger, opening>>

-----------------------------------------------------------------------------
(* Variant: findOne does not compare the row's userId.                     *)
FindAny(h) ==
  /\ req[h].pc = "idle"
  /\ \E t \in stored, u \in Users, next \in {"update", "delete"} :
       req' = [req EXCEPT ![h] = Started(next, u, None, t)]
  /\ UNCHANGED <<tier, balance, ledger, rows, opening>>

(* update and remove: findOne checks that the row exists and is the        *)
(* caller's, then the row is written or deleted by its id; if it is gone   *)
(* by then the statement throws.                                           *)
FindOwn(h) ==
  /\ req[h].pc = "idle"
  /\ \E t \in stored, next \in {"update", "delete"} :
       req' = [req EXCEPT ![h] = Started(next, owner[t], None, t)]
  /\ UNCHANGED <<tier, balance, ledger, rows, opening>>

Update(h) ==
  /\ req[h].pc = "update"
  /\ author' = IF req[h].row \in stored
               THEN [author EXCEPT ![req[h].row] = req[h].user] ELSE author
  /\ Return(h)
  /\ UNCHANGED <<tier, balance, ledger, stored, owner, source, paid, opening>>

Remove(h) ==
  /\ req[h].pc = "delete"
  /\ stored' = stored \ {req[h].row}
  /\ Return(h)
  /\ UNCHANGED <<tier, balance, ledger, owner, source, author, paid, opening>>

(* A statement rejects or the process stops; what was committed stays.     *)
Fail(h) ==
  /\ req[h].pc # "idle"
  /\ Return(h)
  /\ UNCHANGED <<tier, balance, ledger, rows, opening>>

Next == \E h \in Handlers :
  \/ CreateCheckSource(h) \/ CreateReadUser(h) \/ CreateCount(h)
  \/ Charge(h) \/ RecordCharge(h) \/ CreateStore(h)
  \/ FindOwn(h) \/ Update(h) \/ Remove(h) \/ Fail(h)

Spec == Init /\ [][Next]_vars

-----------------------------------------------------------------------------
TypeOK ==
  /\ tier \in [Users -> {"free", "premium"}]
  /\ balance \in [Users -> Int]
  /\ ledger \in [Users -> Int]
  /\ opening \in [Users -> Nat]
  /\ stored \subseteq TemplateIds /\ paid \subseteq TemplateIds
  /\ owner  \in [TemplateIds -> Users \cup {None}]
  /\ \A t \in stored : owner[t] # None
  /\ source \in [TemplateIds -> Archives \cup {None}]
  /\ author \in [TemplateIds -> Users \cup {None}]
  /\ req \in [Handlers -> Request]
  /\ \A h \in Handlers : req[h].pc # "idle" => req[h].user \in Users

(* templates.service.ts:190-226 checks a balance it read earlier and then  *)
(* decrements blindly.  N slots can overdraw an account by at most the     *)
(* charges of the N-1 requests that run beside the one that was in credit. *)
OverdraftBounded ==
  \A u \in Users : balance[u] >= -Cost * (Cardinality(Handlers) - 1)

(* templates.service.ts:202-243 counts, then inserts: the uncharged        *)
(* templates of a user exceed the free count by at most the other slots.   *)
FreeBounded ==
  \A u \in Users :
    Cardinality(RowsOf(u) \ paid) <= FreeCount + Cardinality(Handlers) - 1

(* No archive has two templates, although the check (174-188) and the      *)
(* insert (243) are apart.                                                 *)
OneTemplatePerArchive ==
  \A s, t \in stored : (s # t /\ source[s] # None) => source[s] # source[t]

(* Every template that was paid for is in the ledger, and every charge in  *)
(* the ledger was taken from the balance (217-238), even when requests stop*)
(* between the statements.                                                 *)
LedgerCoversPaid ==
  \A u \in Users :
    /\ Cost * Cardinality({t \in paid : owner[t] = u}) <= -ledger[u]
    /\ -ledger[u] <= opening[u] - balance[u]

(* Where a row is in its life.                                             *)
rowState == [t \in TemplateIds |-> IF owner[t] = None THEN "unused"
                                  ELSE IF t \in stored THEN "stored" ELSE "removed"]

(* The template table is a table of owned rows: a row is created once, by  *)
(* its owner, written by its owner's requests only and never after it was  *)
(* removed, although update and remove write by id after the ownership     *)
(* check (templates.service.ts:73-91, 284-314) and the insert comes last of*)
(* six statements (139-265).                                               *)
Owned == INSTANCE OwnedRows WITH
  Rows   <- TemplateIds,
  state  <- rowState,
  holder <- owner,
  writer <- author

ImplementsOwnedRows == Owned!OSpec

-----------------------------------------------------------------------------
(* The requests of u that have seen enough credit and not yet spent it.    *)
Spenders(u) ==
  {h \in Handlers :
     /\ req[h].user = u
     /\ req[h].pc = "charge" \/ (req[h].pc = "count" /\ req[h].credit >= Cost)}

(* What makes OverdraftBounded inductive: even if every spender goes on to *)
(* charge (templates.service.ts:217-226), the bound is kept.               *)
DebtBounded ==
  \A u \in Users :
    balance[u] - Cardinality(Spenders(u)) >= -Cost * (Cardinality(Handlers) - 1)

-----------------------------------------------------------------------------
(* template-policy.config.spec.ts:134: without enough credit a template    *)
(* beyond the free count cannot be created; nobody then spends credit that *)
(* is not there.                                                           *)
NoOverdraft == \A u \in Users : balance[u] >= 0
=============================================================================
