--------------------------- MODULE AccountsProofs ---------------------------
(***************************************************************************)
(* Proofs about Accounts, for any number of addresses, codes, users and    *)
(* request slots and any clock.                                            *)
(***************************************************************************)
EXTENDS Accounts, FiniteSetTheorems, WellFoundedInduction, TLAPS

Labels == {"idle", "check", "issue", "lookup", "delete", "account", "write", "create"}

LEMMA RequestFields ==
  ASSUME NEW r \in Request
  PROVE  /\ r.pc \in Labels /\ r.for \in Purpose /\ r.email \in Emails \cup {None}
         /\ r.code \in Codes \cup {None} /\ r.user \in Users \cup {None}
  BY DEF Request, Labels

LEMMA StartedIsRequest ==
  ASSUME NEW l \in Labels, NEW p \in Purpose, NEW e \in Emails \cup {None},
         NEW c \in Codes \cup {None}, NEW u \in Users \cup {None}
  PROVE  /\ Started(l, p, e, c, u) \in Request
         /\ Started(l, p, e, c, u).pc = l /\ Started(l, p, e, c, u).for = p
         /\ Started(l, p, e, c, u).email = e /\ Started(l, p, e, c, u).code = c
         /\ Started(l, p, e, c, u).user = u
  BY DEF Started, Request, Labels

LEMMA IdleIsRequest == Idle \in Request /\ Idle.pc = "idle"
  BY StartedIsRequest DEF Idle, Labels, Purpose

(* What a step does to the slot of its request, and to the others.         *)
LEMMA Put ==
  ASSUME TypeOK, NEW h \in Handlers, NEW r \in Request, req' = [req EXCEPT ![h] = r]
  PROVE  /\ req' \in [Handlers -> Request] /\ req'[h] = r
         /\ \A g \in Handlers \ {h} : req'[g] = req[g]
  BY DEF TypeOK

LEMMA Returned ==
  ASSUME TypeOK, NEW h \in Handlers, Return(h)
  PROVE  /\ req' \in [Handlers -> Request] /\ req'[h].pc = "idle"
         /\ \A g \in Handlers \ {h} : req'[g] = req[g]
  BY IdleIsRequest, Put DEF Return

LEMMA Went ==
  ASSUME TypeOK, NEW h \in Handlers, NEW l \in Labels, Goto(h, l)
  PROVE  /\ req' \in [Handlers -> Request]
         /\ \A g \in Handlers \ {h} : req'[g] = req[g]
         /\ req'[h].pc = l /\ req'[h].for = req[h].for /\ req'[h].email = req[h].email
         /\ req'[h].code = req[h].code /\ req'[h].user = req[h].user
<1> DEFINE r == Started(l, req[h].for, req[h].email, req[h].code, req[h].user)
<1>1. req[h] \in Request
  BY DEF TypeOK
<1>2. [req[h] EXCEPT !.pc = l] = r
  BY <1>1 DEF Request, Started
<1>a. /\ req[h].for \in Purpose /\ req[h].email \in Emails \cup {None}
      /\ req[h].code \in Codes \cup {None} /\ req[h].user \in Users \cup {None}
  BY <1>1, RequestFields
<1>3. /\ r \in Request /\ r.pc = l /\ r.for = req[h].for /\ r.email = req[h].email
      /\ r.code = req[h].code /\ r.user = req[h].user
  BY <1>a DEF Started, Request, Labels
<1>4. req' = [req EXCEPT ![h] = r]
  BY <1>2 DEF Goto
<1> HIDE DEF r
<1> QED
  BY <1>3, <1>4, Put

-----------------------------------------------------------------------------
LEMMA NatMinimum ==
  ASSUME NEW T \in SUBSET Nat, T # {}
  PROVE  \E x \in T : \A y \in T : x <= y
<1> DEFINE R == {ss \in Nat \X Nat : ss[1] < ss[2]}
<1>1. IsWellFoundedOn(R, Nat)
  BY NatLessThanWellFounded DEF OpToRel
<1>2. \E x \in T : \A y \in T : ~(<<y, x>> \in R)
  <2> HIDE DEF R
  <2> QED
    BY <1>1, WFMin
<1>3. PICK x \in T : \A y \in T : ~(<<y, x>> \in R)
  BY <1>2
<1>4. ASSUME NEW y \in T PROVE x <= y
  <2>1. ~(<<y, x>> \in R) /\ x \in Nat /\ y \in Nat
    BY <1>3
  <2>2. ~(y < x)
    BY <2>1
  <2> QED
    BY <2>1, <2>2
<1> QED
  BY <1>4

-----------------------------------------------------------------------------
(* What the code has established when a request stands at a statement.     *)
Placed(h) ==
  /\ req[h].pc \in {"check", "issue", "create"} => req[h].email \in Emails
  /\ req[h].pc = "lookup" => req[h].for = "change"
  /\ req[h].pc \in {"lookup", "delete"} => req[h].code \in Issued
  /\ req[h].pc = "delete" => email[req[h].code] = req[h].email
  /\ (req[h].pc \in {"lookup", "delete"} /\ req[h].for = "change")
       => req[h].user \in Accounts /\ mail[req[h].user] = req[h].email
  /\ req[h].pc = "write" => req[h].user \in Accounts

AllPlaced == \A h \in Handlers : Placed(h)

(* The slot of the request after each action.                              *)
LEMMA SendPurgeSlot ==
  ASSUME TypeOK, NEW h \in Handlers, SendPurge(h)
  PROVE  /\ req' \in [Handlers -> Request] /\ \A g \in Handlers \ {h} : req'[g] = req[g]
         /\ req'[h].pc = "check" /\ req'[h].email \in Emails
<1>1. PICK e \in Emails : req' = [req EXCEPT ![h] = Started("check", "verify", e, None, None)]
  BY DEF SendPurge
<1> DEFINE r == Started("check", "verify", e, None, None)
<1>2. r \in Request /\ r.pc = "check" /\ r.email = e
  BY DEF Started, Request, Purpose
<1> HIDE DEF r
<1> QED
  BY <1>1, <1>2, Put DEF r

LEMMA PresentCodeSlot ==
  ASSUME TypeOK, NEW h \in Handlers, PresentCode(h)
  PROVE  /\ req' \in [Handlers -> Request] /\ \A g \in Handlers \ {h} : req'[g] = req[g]
         /\ req'[h].pc = "delete" /\ req'[h].for # "change" /\ req'[h].code \in Issued
         /\ email[req'[h].code] = req'[h].email
<1>1. PICK c \in Issued, e \in Emails, purpose \in {"verify", "reset"} :
        /\ Found(c, e)
        /\ req' = [req EXCEPT ![h] = Started("delete", purpose, e, c, None)]
  BY DEF PresentCode
<1> DEFINE r == Started("delete", purpose, e, c, None)
<1>2. c \in Codes /\ email[c] = e
  BY <1>1 DEF Found, RowsOf, Issued
<1>3. /\ r \in Request /\ r.pc = "delete" /\ r.for # "change" /\ r.code = c
      /\ r.email = e
  BY <1>2 DEF Started, Request, Purpose
<1> HIDE DEF r
<1>4. req' = [req EXCEPT ![h] = r]
  BY <1>1 DEF r
<1> QED
  BY <1>1, <1>2, <1>3, <1>4, Put

LEMMA ChangePasswordSlot ==
  ASSUME TypeOK, NEW h \in Handlers, ChangePassword(h)
  PROVE  /\ req' \in [Handlers -> Request] /\ \A g \in Handlers \ {h} : req'[g] = req[g]
         /\ req'[h].pc = "lookup" /\ req'[h].for = "change" /\ req'[h].code \in Issued
         /\ req'[h].user \in Accounts /\ mail[req'[h].user] = req'[h].email
<1>1. PICK c \in Issued, u \in Accounts :
        req' = [req EXCEPT ![h] = Started("lookup", "change", mail[u], c, u)]
  BY DEF ChangePassword
<1> DEFINE r == Started("lookup", "change", mail[u], c, u)
<1>2. c \in Codes /\ u \in Users /\ mail[u] \in Emails \cup {None}
  BY DEF Issued, Accounts, TypeOK
<1>3. /\ r \in Request /\ r.pc = "lookup" /\ r.for = "change" /\ r.code = c
      /\ r.email = mail[u] /\ r.user = u
  BY <1>2 DEF Started, Request, Purpose
<1> HIDE DEF r
<1>4. req' = [req EXCEPT ![h] = r]
  BY <1>1 DEF r
<1> QED
  BY <1>1, <1>3, <1>4, Put

LEMMA ResetFindSlot ==
  ASSUME TypeOK, NEW h \in Handlers, ResetFind(h)
  PROVE  /\ req' \in [Handlers -> Request] /\ \A g \in Handlers \ {h} : req'[g] = req[g]
         /\ \/ req'[h].pc = "idle"
            \/ /\ req'[h].pc = "write" /\ req'[h].user \in Accounts
               /\ mail[req'[h].user] = req[h].email
<1>1. CASE Return(h)
  BY <1>1, Returned
<1>2. ASSUME NEW u \in Accounts, mail[u] = req[h].email,
             req' = [req EXCEPT ![h] =
                       Started("write", req[h].for, req[h].email, req[h].code, u)]
      PROVE  /\ req' \in [Handlers -> Request]
             /\ \A g \in Handlers \ {h} : req'[g] = req[g]
             /\ req'[h].pc = "write" /\ req'[h].user = u
  <2> DEFINE r == Started("write", req[h].for, req[h].email, req[h].code, u)
  <2>1. /\ req[h].for \in Purpose /\ req[h].email \in Emails \cup {None}
        /\ req[h].code \in Codes \cup {None} /\ u \in Users
    BY RequestFields DEF TypeOK, Accounts
  <2>2. r \in Request /\ r.pc = "write" /\ r.user = u
    BY <2>1 DEF Started, Request
  <2> HIDE DEF r
  <2>3. req' = [req EXCEPT ![h] = r]
    BY <1>2 DEF r
  <2> QED
    BY <2>2, <2>3, Put
<1> QED
  BY <1>1, <1>2 DEF ResetFind

LEMMA SignupFindSlot ==
  ASSUME TypeOK, NEW h \in Handlers, SignupFind(h)
  PROVE  /\ req' \in [Handlers -> Request] /\ \A g \in Handlers \ {h} : req'[g] = req[g]
         /\ req'[h].pc = "create" /\ req'[h].email \in Emails
<1>1. PICK e \in Emails : req' = [req EXCEPT ![h] = Started("create", "verify", e, None, None)]
  BY DEF SignupFind
<1> DEFINE r == Started("create", "verify", e, None, None)
<1>2. r \in Request /\ r.pc = "create" /\ r.email = e
  BY DEF Started, Request, Purpose
<1> HIDE DEF r
<1> QED
  BY <1>1, <1>2, Put DEF r

(* A request that goes on or returns: what it carries stays the same.      *)
LEMMA DeleteSlot ==
  ASSUME TypeOK, NEW h \in Handlers, DeleteCode(h)
  PROVE  /\ req' \in [Handlers -> Request] /\ \A g \in Handlers \ {h} : req'[g] = req[g]
         /\ \/ req'[h].pc = "idle"
            \/ /\ req[h].code \in stored
               /\ req'[h].email = req[h].email /\ req'[h].user = req[h].user
               /\ \/ req'[h].pc = "account" /\ req[h].for = "reset"
                  \/ req'[h].pc = "write" /\ req[h].for = "change"
<1>1. CASE Return(h)
  BY <1>1, Returned
<1>2. CASE req[h].code \in stored /\ AfterVerify(h)
  <2>1. req[h].for \in Purpose
    BY RequestFields DEF TypeOK
  <2>2. CASE req[h].for = "verify"
    BY <1>1, <1>2, <2>2 DEF AfterVerify
  <2>3. CASE req[h].for = "reset"
    <3>1. Goto(h, "account")
      BY <1>2, <2>3 DEF AfterVerify
    <3> QED
      BY <1>2, <2>3, <3>1, Went DEF Labels
  <2>4. CASE req[h].for = "change"
    <3>1. Goto(h, "write")
      BY <1>2, <2>4 DEF AfterVerify
    <3> QED
      BY <1>2, <2>4, <3>1, Went DEF Labels
  <2> QED
    BY <2>1, <2>2, <2>3, <2>4 DEF Purpose
<1> QED
  BY <1>1, <1>2 DEF DeleteCode

-----------------------------------------------------------------------------
(* Codes and accounts are given their addresses once.                      *)
Kept == /\ \A c \in Issued : c \in Issued' /\ email'[c] = email[c]
        /\ \A u \in Accounts : u \in Accounts' /\ mail'[u] = mail[u]

Step(h) == \/ SendPurge(h) \/ SendCheck(h) \/ SendIssue(h)
           \/ PresentCode(h) \/ ChangePassword(h) \/ Lookup(h) \/ DeleteCode(h)
           \/ ResetFind(h) \/ WritePassword(h)
           \/ SignupFind(h) \/ SignupCreate(h) \/ Fail(h)

LEMMA KeptStep == TypeOK /\ [Next]_vars => Kept
<1> SUFFICES ASSUME TypeOK, [Next]_vars PROVE Kept
  OBVIOUS
<1>0. ASSUME UNCHANGED <<email, mail>> PROVE Kept
  BY <1>0 DEF Kept, Issued, Accounts
<1>1. ASSUME NEW h \in Handlers, SendIssue(h) PROVE Kept
  <2>1. PICK c \in Codes \ Issued : email' = [email EXCEPT ![c] = req[h].email]
    BY <1>1 DEF SendIssue
  <2>2. UNCHANGED mail
    BY <1>1 DEF SendIssue, users
  <2> QED
    BY <2>1, <2>2 DEF Kept, Issued, Accounts, TypeOK
<1>2. ASSUME NEW h \in Handlers, SignupCreate(h) PROVE Kept
  <2>1. UNCHANGED email
    BY <1>2 DEF SignupCreate, codes
  <2>2. UNCHANGED mail \/ \E u \in Users \ Accounts : mail' = [mail EXCEPT ![u] = req[h].email]
    BY <1>2 DEF SignupCreate
  <2> QED
    BY <2>1, <2>2 DEF Kept, Issued, Accounts, TypeOK
<1>3. ASSUME NEW h \in Handlers, Step(h), ~SendIssue(h), ~SignupCreate(h)
      PROVE  UNCHANGED <<email, mail>>
  BY <1>3 DEF Step, SendPurge, SendCheck, PresentCode, ChangePassword, Lookup, DeleteCode,
              ResetFind, WritePassword, SignupFind, Fail, codes, users
<1>4. CASE CleanupExpiredCodes \/ Tick \/ UNCHANGED vars
  BY <1>0, <1>4 DEF CleanupExpiredCodes, Tick, vars, codes, users
<1> QED
  BY <1>0, <1>1, <1>2, <1>3, <1>4 DEF Next, Step

LEMMA StaysPlaced ==
  ASSUME TypeOK, Kept, NEW g \in Handlers, Placed(g), req'[g] = req[g]
  PROVE  Placed(g)'
  BY DEF Placed, Kept

(* Of every step: the requests stay requests, and where they should be.    *)
LEMMA PlacedStep ==
  TypeOK /\ AllPlaced /\ [Next]_vars => AllPlaced' /\ req' \in [Handlers -> Request]
<1> SUFFICES ASSUME TypeOK, AllPlaced, [Next]_vars
             PROVE  AllPlaced' /\ req' \in [Handlers -> Request]
  OBVIOUS
<1>k. Kept
  BY KeptStep
<1>0. ASSUME NEW h \in Handlers, req' \in [Handlers -> Request],
             \A g \in Handlers \ {h} : req'[g] = req[g], Placed(h)'
      PROVE  AllPlaced' /\ req' \in [Handlers -> Request]
  <2>1. ASSUME NEW g \in Handlers \ {h} PROVE Placed(g)'
    BY <1>0, <1>k, StaysPlaced DEF AllPlaced
  <2> QED
    BY <1>0, <2>1 DEF AllPlaced
<1>i. ASSUME NEW h \in Handlers, Return(h)
      PROVE  AllPlaced' /\ req' \in [Handlers -> Request]
  <2>1. req'[h].pc = "idle"
    BY <1>i, Returned
  <2>2. Placed(h)'
    BY <2>1 DEF Placed
  <2> QED
    BY <1>0, <1>i, <2>2, Returned
<1>1. ASSUME NEW h \in Handlers, SendPurge(h)
      PROVE  AllPlaced' /\ req' \in [Handlers -> Request]
  <2>1. Placed(h)'
    BY <1>1, SendPurgeSlot DEF Placed
  <2> QED
    BY <1>0, <1>1, <2>1, SendPurgeSlot
<1>2. ASSUME NEW h \in Handlers, SendCheck(h)
      PROVE  AllPlaced' /\ req' \in [Handlers -> Request]
  <2>1. CASE Goto(h, "issue")
    <3>1. req[h].email \in Emails
      BY <1>2 DEF SendCheck, AllPlaced, Placed
    <3>2. Placed(h)'
      BY <2>1, <3>1, Went DEF Placed, Labels
    <3> QED
      BY <1>0, <2>1, <3>2, Went DEF Labels
  <2> QED
    BY <1>2, <1>i, <2>1 DEF SendCheck
<1>3. ASSUME NEW h \in Handlers, SendIssue(h) \/ WritePassword(h) \/ SignupCreate(h) \/ Fail(h)
      PROVE  Return(h)
  BY <1>3 DEF SendIssue, WritePassword, SignupCreate, Fail
<1>4. ASSUME NEW h \in Handlers, PresentCode(h)
      PROVE  AllPlaced' /\ req' \in [Handlers -> Request]
  <2>1. Placed(h)'
    BY <1>4, <1>k, PresentCodeSlot DEF Placed, Kept
  <2> QED
    BY <1>0, <1>4, <2>1, PresentCodeSlot
<1>5. ASSUME NEW h \in Handlers, ChangePassword(h)
      PROVE  AllPlaced' /\ req' \in [Handlers -> Request]
  <2>1. Placed(h)'
    BY <1>5, <1>k, ChangePasswordSlot DEF Placed, Kept
  <2> QED
    BY <1>0, <1>5, <2>1, ChangePasswordSlot
<1>6. ASSUME NEW h \in Handlers, Lookup(h)
      PROVE  AllPlaced' /\ req' \in [Handlers -> Request]
  <2>1. CASE Found(req[h].code, req[h].email) /\ Goto(h, "delete")
    <3>1. /\ req[h].for = "change" /\ req[h].code \in Issued
          /\ req[h].user \in Accounts /\ mail[req[h].user] = req[h].email
      BY <1>6 DEF Lookup, AllPlaced, Placed
    <3>2. email[req[h].code] = req[h].email
      BY <2>1 DEF Found, RowsOf
    <3>3. Placed(h)'
      BY <1>k, <2>1, <3>1, <3>2, Went DEF Placed, Labels, Kept
    <3> QED
      BY <1>0, <2>1, <3>3, Went DEF Labels
  <2> QED
    BY <1>6, <1>i, <2>1 DEF Lookup
<1>7. ASSUME NEW h \in Handlers, DeleteCode(h)
      PROVE  AllPlaced' /\ req' \in [Handlers -> Request]
  <2>1. /\ req[h].pc = "delete"
        /\ req[h].for = "change" => req[h].user \in Accounts
    BY <1>7 DEF DeleteCode, AllPlaced, Placed
  <2>2. Placed(h)'
    BY <1>7, <1>k, <2>1, DeleteSlot DEF Placed, Kept
  <2> QED
    BY <1>0, <1>7, <2>2, DeleteSlot
<1>8. ASSUME NEW h \in Handlers, ResetFind(h)
      PROVE  AllPlaced' /\ req' \in [Handlers -> Request]
  <2>1. Placed(h)'
    BY <1>8, <1>k, ResetFindSlot DEF Placed, Kept
  <2> QED
    BY <1>0, <1>8, <2>1, ResetFindSlot
<1>9. ASSUME NEW h \in Handlers, SignupFind(h)
      PROVE  AllPlaced' /\ req' \in [Handlers -> Request]
  <2>1. Placed(h)'
    BY <1>9, SignupFindSlot DEF Placed
  <2> QED
    BY <1>0, <1>9, <2>1, SignupFindSlot
<1>10. ASSUME UNCHANGED req PROVE AllPlaced' /\ req' \in [Handlers -> Request]
  BY <1>10, <1>k, StaysPlaced DEF AllPlaced, TypeOK
<1>11. CASE CleanupExpiredCodes \/ Tick \/ UNCHANGED vars
  BY <1>10, <1>11 DEF CleanupExpiredCodes, Tick, vars
<1> QED
  BY <1>1, <1>2, <1>3, <1>i, <1>4, <1>5, <1>6, <1>7, <1>8, <1>9, <1>11 DEF Next

LEMMA TypeStep == TypeOK /\ AllPlaced /\ [Next]_vars => TypeOK'
<1> SUFFICES ASSUME TypeOK, AllPlaced, [Next]_vars PROVE TypeOK'
  OBVIOUS
<1>r. req' \in [Handlers -> Request]
  BY PlacedStep
<1>u. ASSUME UNCHANGED <<now, codes, users, accepted>> PROVE TypeOK'
  BY <1>r, <1>u DEF codes, users, TypeOK, Issued
<1>1. ASSUME NEW h \in Handlers, SendPurge(h) PROVE TypeOK'
  BY <1>1, <1>r DEF SendPurge, users, TypeOK, Issued
<1>2. ASSUME NEW h \in Handlers, SendIssue(h) PROVE TypeOK'
  <2>1. PICK c \in Codes \ Issued :
          /\ stored' = stored \cup {c}
          /\ email'     = [email EXCEPT ![c] = req[h].email]
          /\ createdAt' = [createdAt EXCEPT ![c] = now]
          /\ by'        = [by EXCEPT ![c] = h]
    BY <1>2 DEF SendIssue
  <2>2. req[h].email \in Emails /\ req[h].email # None
    BY <1>2, NoneIsNoId DEF SendIssue, AllPlaced, Placed
  <2>3. UNCHANGED <<now, mail, changes, accepted>>
    BY <1>2 DEF SendIssue, users
  <2>4. now \in 0..now
    BY ClockAssumption DEF TypeOK
  <2>5. stored' \subseteq Issued'
    BY <2>1, <2>2 DEF TypeOK, Issued
  <2> QED
    BY <1>r, <2>1, <2>2, <2>3, <2>4, <2>5 DEF TypeOK
<1>3. ASSUME NEW h \in Handlers, DeleteCode(h) PROVE TypeOK'
  <2>1. req[h].code \in Codes
    BY <1>3 DEF DeleteCode, AllPlaced, Placed, Issued
  <2>2. accepted' \in [Codes -> Nat]
    BY <1>3, <2>1 DEF DeleteCode, TypeOK
  <2>3. stored' \subseteq stored /\ UNCHANGED <<now, email, createdAt, by, mail, changes>>
    BY <1>3 DEF DeleteCode, users
  <2> QED
    BY <1>r, <2>2, <2>3 DEF TypeOK, Issued
<1>4. ASSUME NEW h \in Handlers, WritePassword(h) PROVE TypeOK'
  <2>1. req[h].user \in Users
    BY <1>4 DEF WritePassword, AllPlaced, Placed, Accounts
  <2> QED
    BY <1>4, <1>r, <2>1 DEF WritePassword, codes, TypeOK, Issued
<1>5. ASSUME NEW h \in Handlers, SignupCreate(h) PROVE TypeOK'
  <2>1. req[h].email \in Emails
    BY <1>5 DEF SignupCreate, AllPlaced, Placed
  <2>2. mail' \in [Users -> Emails \cup {None}]
    BY <1>5, <2>1 DEF SignupCreate, TypeOK
  <2>3. UNCHANGED <<now, stored, email, createdAt, by, changes, accepted>>
    BY <1>5 DEF SignupCreate, codes
  <2> QED
    BY <1>r, <2>2, <2>3 DEF TypeOK, Issued
<1>6. CASE CleanupExpiredCodes
  BY <1>6, <1>r DEF CleanupExpiredCodes, users, TypeOK, Issued
<1>7. CASE Tick
  <2>1. now' \in 0..MaxTime /\ 0..now \subseteq 0..now'
    BY <1>7, ClockAssumption DEF Tick, TypeOK
  <2>2. createdAt' \in [Codes -> 0..now']
    BY <1>7, <2>1 DEF Tick, codes, TypeOK
  <2> QED
    BY <1>7, <1>r, <2>1, <2>2 DEF Tick, codes, users, TypeOK, Issued
<1>8. CASE UNCHANGED vars
  BY <1>u, <1>8 DEF vars
<1> QED
  BY <1>u, <1>1, <1>2, <1>3, <1>4, <1>5, <1>6, <1>7, <1>8
     DEF Next, SendCheck, PresentCode, ChangePassword, Lookup, ResetFind, SignupFind, Fail

-----------------------------------------------------------------------------
(* One code, one request: accepted counts the deletions of the row, and the*)
(* row is created once.                                                    *)
Single == CodePassesOnce /\ \A c \in Codes \ Issued : accepted[c] = 0

LEMMA OtherSteps ==
  ASSUME [Next]_vars
  PROVE  \/ \E h \in Handlers : SendIssue(h) \/ DeleteCode(h)
         \/ UNCHANGED <<accepted, email, createdAt, by>> /\ stored' \subseteq stored
  BY DEF Next, vars, codes, users, SendPurge, SendCheck, PresentCode, ChangePassword, Lookup,
         ResetFind, WritePassword, SignupFind, SignupCreate, Fail, CleanupExpiredCodes, Tick

LEMMA SingleStep == TypeOK /\ AllPlaced /\ Single /\ [Next]_vars => Single'
<1> SUFFICES ASSUME TypeOK, AllPlaced, Single, [Next]_vars PROVE Single'
  OBVIOUS
<1>1. ASSUME NEW h \in Handlers, SendIssue(h) PROVE Single'
  <2>1. PICK c \in Codes \ Issued :
          /\ stored' = stored \cup {c}
          /\ email'  = [email EXCEPT ![c] = req[h].email]
    BY <1>1 DEF SendIssue
  <2>2. UNCHANGED accepted
    BY <1>1 DEF SendIssue
  <2>3. \A d \in Codes \ Issued' : d \in Codes \ Issued
    BY <1>1, KeptStep DEF Kept
  <2> QED
    BY <2>1, <2>2, <2>3 DEF Single, CodePassesOnce
<1>2. ASSUME NEW h \in Handlers, DeleteCode(h) PROVE Single'
  <2> DEFINE c == req[h].code
  <2>1. c \in Issued /\ c \in Codes
    BY <1>2 DEF DeleteCode, AllPlaced, Placed, Issued
  <2>2. stored' = stored \ {c} /\ Issued' = Issued
    BY <1>2 DEF DeleteCode, Issued
  <2>3. CASE c \in stored
    <3>1. accepted' = [accepted EXCEPT ![c] = accepted[c] + 1]
      BY <1>2, <2>3 DEF DeleteCode
    <3>2. accepted[c] = 0
      BY <2>1, <2>3 DEF Single, CodePassesOnce
    <3>3. accepted'[c] = 1 /\ \A d \in Codes \ {c} : accepted'[d] = accepted[d]
      BY <2>1, <3>1, <3>2 DEF TypeOK
    <3> HIDE DEF c
    <3> QED
      BY <2>1, <2>2, <3>3 DEF Single, CodePassesOnce
  <2>4. CASE c \notin stored
    <3>1. UNCHANGED accepted
      BY <1>2, <2>4 DEF DeleteCode
    <3> HIDE DEF c
    <3> QED
      BY <2>2, <3>1 DEF Single, CodePassesOnce
  <2> QED
    BY <2>3, <2>4
<1>3. CASE UNCHANGED <<accepted, email, createdAt, by>> /\ stored' \subseteq stored
  BY <1>3 DEF Single, CodePassesOnce, Issued
<1> QED
  BY <1>1, <1>2, <1>3, OtherSteps

-----------------------------------------------------------------------------
(* A request that is about to store a code has found none of the last      *)
(* minute: its own earlier codes for the address are old enough.           *)
Spaced ==
  \A h \in Handlers : req[h].pc = "issue" =>
    \A c \in stored : (by[c] = h /\ email[c] = req[h].email) => createdAt[c] + Minute <= now

LEMMA NewestIsOld ==
  ASSUME TypeOK, NEW h \in Handlers, SendCheck(h), req'[h].pc # "idle"
  PROVE  \A c \in stored : email[c] = req[h].email => createdAt[c] + Minute <= now
<1> SUFFICES ASSUME NEW c \in stored, email[c] = req[h].email, ~(createdAt[c] + Minute <= now)
             PROVE  FALSE
  OBVIOUS
<1> DEFINE e == req[h].email
           age(d) == now - createdAt[d]
           T == {age(d) : d \in RowsOf(e)}
<1>1. \A d \in RowsOf(e) : createdAt[d] \in 0..now /\ d \in Codes
  BY DEF RowsOf, Issued, TypeOK
<1>2. now \in Nat /\ Minute \in Nat /\ Lifetime \in Nat /\ Minute <= Lifetime
  BY ClockAssumption DEF TypeOK
<1>3. c \in RowsOf(e)
  BY DEF RowsOf
<1>4. T \in SUBSET Nat /\ T # {}
  <2>1. \A d \in RowsOf(e) : age(d) \in Nat
    BY <1>1, <1>2
  <2> QED
    BY <1>3, <2>1
<1>5. PICK x \in T : \A y \in T : x <= y
  <2> HIDE DEF T
  <2> QED
    BY <1>4, NatMinimum
<1>6. PICK d \in RowsOf(e) : x = age(d)
  BY <1>5
<1>7. \A b \in RowsOf(e) : age(d) <= age(b)
  BY <1>5, <1>6
<1>8. \A b \in RowsOf(e) : createdAt[b] <= createdAt[d]
  BY <1>1, <1>2, <1>6, <1>7
<1>9. now - createdAt[d] < Minute /\ createdAt[d] + Lifetime > now
  <2>1. createdAt[c] <= createdAt[d] /\ createdAt[c] \in Nat /\ createdAt[d] \in Nat
    BY <1>1, <1>2, <1>3, <1>6, <1>8
  <2> QED
    BY <1>2, <2>1
<1>10. Newest(d, e) /\ d \in Codes
  BY <1>1, <1>6, <1>8, <1>9 DEF Newest, StillGood
<1>11. Return(h)
  BY <1>9, <1>10 DEF SendCheck
<1> QED
  BY <1>11, Returned

LEMMA SpacedStep ==
  TypeOK /\ TypeOK' /\ Spaced /\ [Next]_vars => Spaced'
<1> SUFFICES ASSUME TypeOK, TypeOK', Spaced, [Next]_vars,
                    NEW g \in Handlers, req'[g].pc = "issue",
                    NEW c \in stored', by'[c] = g, email'[c] = req'[g].email
             PROVE  createdAt'[c] + Minute <= now'
  BY DEF Spaced
<1>n. now \in Nat /\ now' \in Nat /\ now <= now' /\ Minute \in Nat
  BY ClockAssumption
     DEF Next, vars, codes, users, SendPurge, SendCheck, SendIssue, PresentCode, ChangePassword,
         Lookup, DeleteCode, ResetFind, WritePassword, SignupFind, SignupCreate, Fail,
         CleanupExpiredCodes, Tick, TypeOK
<1>c. createdAt'[c] \in Nat /\ c \in Codes
  BY <1>n DEF TypeOK, Issued
<1>0. ASSUME req'[g] = req[g], c \in stored,
             by'[c] = by[c], email'[c] = email[c], createdAt'[c] = createdAt[c]
      PROVE  createdAt'[c] + Minute <= now'
  <2>1. createdAt[c] + Minute <= now
    BY <1>0 DEF Spaced
  <2> QED
    BY <1>0, <1>c, <1>n, <2>1
<1>1. ASSUME NEW h \in Handlers, SendIssue(h) PROVE createdAt'[c] + Minute <= now'
  <2>1. PICK d \in Codes \ Issued :
          /\ stored' = stored \cup {d}
          /\ email'     = [email EXCEPT ![d] = req[h].email]
          /\ createdAt' = [createdAt EXCEPT ![d] = now]
          /\ by'        = [by EXCEPT ![d] = h]
    BY <1>1 DEF SendIssue
  <2>2. g # h /\ req'[g] = req[g]
    BY <1>1, Returned DEF SendIssue
  <2>3. c # d
    BY <2>1, <2>2 DEF TypeOK
  <2> QED
    BY <1>0, <1>c, <2>1, <2>2, <2>3 DEF TypeOK
<1>2. ASSUME UNCHANGED <<email, createdAt, by>>, stored' \subseteq stored, req'[g] = req[g]
      PROVE  createdAt'[c] + Minute <= now'
  BY <1>0, <1>2
<1>3. ASSUME NEW h \in Handlers, SendCheck(h) PROVE createdAt'[c] + Minute <= now'
  <2>1. UNCHANGED <<now, stored, email, createdAt, by>>
    BY <1>3 DEF SendCheck, codes
  <2>2. CASE g # h
    <3>1. req'[g] = req[g]
      BY <1>3, <2>2, Returned, Went DEF SendCheck, Labels
    <3> QED
      BY <1>2, <2>1, <3>1
  <2>3. CASE g = h
    <3>1. Goto(h, "issue")
      BY <1>3, <2>3, Returned DEF SendCheck
    <3>2. req'[h].email = req[h].email
      BY <3>1, Went DEF Labels
    <3> QED
      BY <1>3, <2>1, <2>3, <3>2, NewestIsOld
  <2> QED
    BY <2>2, <2>3
<1>4. ASSUME NEW h \in Handlers, Step(h), ~SendIssue(h), ~SendCheck(h)
      PROVE  createdAt'[c] + Minute <= now'
  <2>1. UNCHANGED <<email, createdAt, by>> /\ stored' \subseteq stored
    BY <1>4 DEF Step, SendPurge, PresentCode, ChangePassword, Lookup, DeleteCode, ResetFind,
                WritePassword, SignupFind, SignupCreate, Fail, codes
  <2>2. /\ req'[h].pc # "issue"
        /\ \A f \in Handlers \ {h} : req'[f] = req[f]
    <3>1. CASE Return(h)
      BY <3>1, Returned
    <3>2. CASE SendPurge(h)
      BY <3>2, SendPurgeSlot
    <3>3. CASE PresentCode(h)
      BY <3>3, PresentCodeSlot
    <3>4. CASE ChangePassword(h)
      BY <3>4, ChangePasswordSlot
    <3>5. CASE Lookup(h)
      BY <3>1, <3>5, Went DEF Lookup, Labels
    <3>6. CASE DeleteCode(h)
      BY <3>6, DeleteSlot
    <3>7. CASE ResetFind(h)
      BY <3>7, ResetFindSlot
    <3>8. CASE SignupFind(h)
      BY <3>8, SignupFindSlot
    <3> QED
      BY <1>4, <3>1, <3>2, <3>3, <3>4, <3>5, <3>6, <3>7, <3>8
         DEF Step, WritePassword, SignupCreate, Fail
  <2>3. g # h
    BY <2>2
  <2> QED
    BY <1>2, <2>1, <2>2, <2>3
<1>5. CASE CleanupExpiredCodes \/ Tick \/ UNCHANGED vars
  BY <1>2, <1>5 DEF CleanupExpiredCodes, Tick, vars, codes
<1> QED
  BY <1>1, <1>3, <1>4, <1>5 DEF Next, Step

LEMMA OverlapStep ==
  TypeOK /\ TypeOK' /\ Spaced /\ RecentCodesOverlap /\ [Next]_vars => RecentCodesOverlap'
<1> SUFFICES ASSUME TypeOK, TypeOK', Spaced, RecentCodesOverlap, [Next]_vars
             PROVE  RecentCodesOverlap'
  OBVIOUS
<1>1. ASSUME NEW h \in Handlers, SendIssue(h) PROVE RecentCodesOverlap'
  <2>1. PICK n \in Codes \ Issued :
          /\ stored' = stored \cup {n}
          /\ email'     = [email EXCEPT ![n] = req[h].email]
          /\ createdAt' = [createdAt EXCEPT ![n] = now]
          /\ by'        = [by EXCEPT ![n] = h]
    BY <1>1 DEF SendIssue
  <2>2. stored \subseteq Codes \ {n}
    BY <2>1 DEF TypeOK, Issued
  <2>3. /\ email'[n] = req[h].email /\ createdAt'[n] = now /\ by'[n] = h
        /\ \A c \in stored : /\ email'[c] = email[c] /\ createdAt'[c] = createdAt[c]
                              /\ by'[c] = by[c]
    BY <2>1, <2>2 DEF TypeOK
  <2>4. \A c \in stored : createdAt[c] \in 0..now
    BY <2>2 DEF TypeOK
  <2>5. now \in Nat /\ Minute \in Nat
    BY ClockAssumption DEF TypeOK
  <2>6. \A c \in stored : (by[c] = h /\ email[c] = req[h].email) => createdAt[c] + Minute <= now
    BY <1>1 DEF SendIssue, Spaced
  <2> SUFFICES ASSUME NEW c \in stored', NEW d \in stored', c # d, email'[c] = email'[d],
                      createdAt'[c] - createdAt'[d] \in 0..(Minute - 1), by'[c] = by'[d]
               PROVE  FALSE
    BY DEF RecentCodesOverlap
  <2>7. CASE c \in stored /\ d \in stored
    BY <2>3, <2>7 DEF RecentCodesOverlap
  <2>8. CASE c = n /\ d \in stored
    <3>1. createdAt[d] + Minute <= now /\ createdAt[d] \in Nat
      BY <2>3, <2>4, <2>5, <2>6, <2>8
    <3>2. now - createdAt[d] \in 0..(Minute - 1)
      BY <2>3, <2>8
    <3> QED
      BY <2>5, <3>1, <3>2
  <2>9. CASE d = n /\ c \in stored
    <3>1. createdAt[c] + Minute <= now /\ createdAt[c] \in Nat
      BY <2>3, <2>4, <2>5, <2>6, <2>9
    <3>2. createdAt[c] - now \in 0..(Minute - 1)
      BY <2>3, <2>9
    <3> QED
      BY <2>5, <3>1, <3>2
  <2> QED
    BY <2>1, <2>7, <2>8, <2>9
<1>2. CASE UNCHANGED <<email, createdAt, by>> /\ stored' \subseteq stored
  BY <1>2 DEF RecentCodesOverlap
<1>3. ASSUME NEW h \in Handlers, DeleteCode(h)
      PROVE  UNCHANGED <<email, createdAt, by>> /\ stored' \subseteq stored
  BY <1>3 DEF DeleteCode
<1> QED
  BY <1>1, <1>2, <1>3, OtherSteps

-----------------------------------------------------------------------------
(* The unique index on email.                                              *)
LEMMA OneAccountStep == TypeOK /\ OneAccountPerEmail /\ [Next]_vars => OneAccountPerEmail'
<1> SUFFICES ASSUME TypeOK, OneAccountPerEmail, [Next]_vars PROVE OneAccountPerEmail'
  OBVIOUS
<1>1. ASSUME NEW h \in Handlers, SignupCreate(h) PROVE OneAccountPerEmail'
  <2>1. CASE UNCHANGED mail
    BY <2>1 DEF OneAccountPerEmail, Accounts
  <2>2. CASE ~(UNCHANGED mail)
    <3>1. /\ \A v \in Users : mail[v] # req[h].email
          /\ \E u \in Users \ Accounts : mail' = [mail EXCEPT ![u] = req[h].email]
      BY <1>1, <2>2 DEF SignupCreate
    <3>2. PICK u \in Users \ Accounts : mail' = [mail EXCEPT ![u] = req[h].email]
      BY <3>1
    <3>3. mail'[u] = req[h].email /\ \A v \in Users \ {u} : mail'[v] = mail[v]
      BY <3>2 DEF TypeOK
    <3> QED
      BY <3>1, <3>3 DEF OneAccountPerEmail, Accounts
  <2> QED
    BY <2>1, <2>2
<1>2. UNCHANGED mail \/ \E h \in Handlers : SignupCreate(h)
  BY DEF Next, vars, codes, users, SendPurge, SendCheck, SendIssue, PresentCode, ChangePassword,
         Lookup, DeleteCode, ResetFind, WritePassword, SignupFind, Fail, CleanupExpiredCodes, Tick
<1> QED
  BY <1>1, <1>2 DEF OneAccountPerEmail, Accounts

-----------------------------------------------------------------------------
(* The requests that still have a password of the address to write, with   *)
(* the passwords already written, are backed by codes that were accepted.  *)
Backlog(e) == {h \in Handlers : \/ req[h].pc = "account" /\ req[h].email = e
                                \/ req[h].pc = "write" /\ mail[req[h].user] = e}

Used(e) == {c \in Issued : accepted[c] > 0 /\ email[c] = e}

Backed == /\ \A e \in Emails : Cardinality(Backlog(e)) <= Cardinality(Used(e))
          /\ \A u \in Accounts :
               changes[u] + Cardinality(Backlog(mail[u])) <= Cardinality(Used(mail[u]))
          /\ \A u \in Users \ Accounts : changes[u] = 0

LEMMA Sizes ==
  ASSUME NEW T, IsFiniteSet(T), NEW S \in SUBSET T
  PROVE  /\ IsFiniteSet(S) /\ Cardinality(S) \in Nat /\ Cardinality(T) \in Nat
         /\ Cardinality(S) <= Cardinality(T)
  BY FS_Subset, FS_CardinalityType

LEMMA BacklogFinite == \A e : IsFiniteSet(Backlog(e)) /\ Cardinality(Backlog(e)) \in Nat
<1> SUFFICES ASSUME NEW e PROVE IsFiniteSet(Backlog(e)) /\ Cardinality(Backlog(e)) \in Nat
  OBVIOUS
<1>1. Backlog(e) \in SUBSET Handlers
  BY DEF Backlog
<1> QED
  BY <1>1, Sizes, FiniteAssumption

LEMMA UsedFinite == \A e : IsFiniteSet(Used(e)) /\ Cardinality(Used(e)) \in Nat
<1> SUFFICES ASSUME NEW e PROVE IsFiniteSet(Used(e)) /\ Cardinality(Used(e)) \in Nat
  OBVIOUS
<1>1. Used(e) \in SUBSET Codes
  BY DEF Used, Issued
<1> QED
  BY <1>1, Sizes, FiniteAssumption

(* The slot of h either leaves the backlog of every address, or goes on to *)
(* write the password of the account it has found.                         *)
LEMMA BacklogShrinks ==
  ASSUME TypeOK, AllPlaced, Kept, NEW h \in Handlers,
         \A g \in Handlers \ {h} : req'[g] = req[g],
         \/ req'[h].pc \notin {"account", "write"}
         \/ /\ req[h].pc = "account" /\ req'[h].pc = "write" /\ req'[h].user \in Accounts
            /\ mail[req'[h].user] = req[h].email,
         NEW e \in Emails
  PROVE  Backlog(e)' \subseteq Backlog(e)
<1> SUFFICES ASSUME NEW g \in Backlog(e)' PROVE g \in Backlog(e)
  OBVIOUS
<1>1. /\ g \in Handlers
      /\ \/ req'[g].pc = "account" /\ req'[g].email = e
         \/ req'[g].pc = "write" /\ mail'[req'[g].user] = e
  BY DEF Backlog
<1>2. CASE g # h
  <2>1. req'[g] = req[g]
    BY <1>1, <1>2
  <2>2. req[g].pc = "write" => mail'[req[g].user] = mail[req[g].user]
    BY <1>1 DEF AllPlaced, Placed, Kept
  <2> QED
    BY <1>1, <2>1, <2>2 DEF Backlog
<1>3. CASE g = h
  BY <1>1, <1>3 DEF Backlog, Kept
<1> QED
  BY <1>2, <1>3

LEMMA UsedFiniteNext == \A e : IsFiniteSet(Used(e)') /\ Cardinality(Used(e)') \in Nat
<1> SUFFICES ASSUME NEW e PROVE IsFiniteSet(Used(e)') /\ Cardinality(Used(e)') \in Nat
  OBVIOUS
<1>1. Used(e)' \in SUBSET Codes
  BY DEF Used, Issued
<1> QED
  BY <1>1, Sizes, FiniteAssumption

LEMMA BacklogFiniteNext == \A e : IsFiniteSet(Backlog(e)') /\ Cardinality(Backlog(e)') \in Nat
<1> SUFFICES ASSUME NEW e PROVE IsFiniteSet(Backlog(e)') /\ Cardinality(Backlog(e)') \in Nat
  OBVIOUS
<1>1. Backlog(e)' \in SUBSET Handlers
  BY DEF Backlog
<1> QED
  BY <1>1, Sizes, FiniteAssumption

(* No password is written, and no address's backlog grows by more than the *)
(* codes accepted for it.                                                  *)
LEMMA BalanceKeeps ==
  ASSUME TypeOK, TypeOK', Kept, Backed, UNCHANGED changes,
         \A e \in Emails : Cardinality(Backlog(e)') + Cardinality(Used(e))
                            <= Cardinality(Backlog(e)) + Cardinality(Used(e)')
  PROVE  Backed'
<1>1. ASSUME NEW e \in Emails
      PROVE  /\ Cardinality(Backlog(e)) \in Nat /\ Cardinality(Backlog(e)') \in Nat
             /\ Cardinality(Used(e)) \in Nat /\ Cardinality(Used(e)') \in Nat
             /\ Cardinality(Backlog(e)') + Cardinality(Used(e))
                  <= Cardinality(Backlog(e)) + Cardinality(Used(e)')
  BY BacklogFinite, BacklogFiniteNext, UsedFinite, UsedFiniteNext
<1>2. \A e \in Emails : Cardinality(Backlog(e)) <= Cardinality(Used(e))
  BY DEF Backed
<1>3. ASSUME NEW e \in Emails PROVE Cardinality(Backlog(e)') <= Cardinality(Used(e)')
  BY <1>1, <1>2
<1>4. ASSUME NEW u \in Accounts'
      PROVE  (changes[u] + Cardinality(Backlog(mail[u])) <= Cardinality(Used(mail[u])))'
  <2>1. u \in Users /\ mail'[u] \in Emails /\ changes'[u] = changes[u] /\ changes[u] \in Nat
    BY NoneIsNoId DEF Accounts, TypeOK
  <2>2. PICK e \in Emails : e = mail'[u]
    BY <2>1
  <2>3. Backlog(mail[u])' = Backlog(e)' /\ Used(mail[u])' = Used(e)'
    BY <2>2 DEF Backlog, Used
  <2>4. CASE u \in Accounts
    <3>1. mail[u] = e
      BY <2>2, <2>4 DEF Kept
    <3>2. changes[u] + Cardinality(Backlog(e)) <= Cardinality(Used(e))
      BY <2>4, <3>1 DEF Backed
    <3>3. changes[u] + Cardinality(Backlog(e)') <= Cardinality(Used(e)')
      BY <1>1, <2>1, <3>2
    <3> QED
      BY <2>1, <2>3, <3>3
  <2>5. CASE u \notin Accounts
    <3>1. changes[u] = 0
      BY <2>1, <2>5 DEF Backed
    <3>2. changes[u] + Cardinality(Backlog(e)') <= Cardinality(Used(e)')
      BY <1>1, <1>3, <3>1
    <3> QED
      BY <2>1, <2>3, <3>2
  <2> QED
    BY <2>4, <2>5
<1>5. ASSUME NEW u \in Users, u \notin Accounts' PROVE changes'[u] = 0
  <2>1. u \notin Accounts
    BY <1>5 DEF Kept
  <2> QED
    BY <2>1 DEF Backed
<1> QED
  BY <1>3, <1>4, <1>5 DEF Backed

LEMMA ShrinkingKeeps ==
  ASSUME TypeOK, TypeOK', Kept, Backed, UNCHANGED <<accepted, changes>>,
         \A e \in Emails : Backlog(e)' \subseteq Backlog(e)
  PROVE  Backed'
<1>1. ASSUME NEW e \in Emails
      PROVE  Cardinality(Backlog(e)') + Cardinality(Used(e))
               <= Cardinality(Backlog(e)) + Cardinality(Used(e)')
  <2> DEFINE B == Backlog(e)
             BB == Backlog(e)'
             U == Used(e)
             UU == Used(e)'
  <2>1. IsFiniteSet(B) /\ BB \in SUBSET B /\ IsFiniteSet(UU)
    BY BacklogFinite, UsedFiniteNext
  <2>2. U \in SUBSET UU
    BY DEF Used, Issued, Kept
  <2> HIDE DEF B, BB, U, UU
  <2>3. Cardinality(BB) <= Cardinality(B) /\ Cardinality(BB) \in Nat /\ Cardinality(B) \in Nat
    BY <2>1, Sizes
  <2>4. Cardinality(U) <= Cardinality(UU) /\ Cardinality(U) \in Nat /\ Cardinality(UU) \in Nat
    BY <2>1, <2>2, Sizes
  <2>5. Cardinality(BB) + Cardinality(U) <= Cardinality(B) + Cardinality(UU)
    BY <2>3, <2>4
  <2> QED
    BY <2>5 DEF B, BB, U, UU
<1> QED
  BY <1>1, BalanceKeeps

(* Accepting a code: the request joins the backlog of the code's address   *)
(* at most, and the code counts from now on.                               *)
LEMMA AcceptingKeeps ==
  ASSUME TypeOK, TypeOK', AllPlaced, Kept, Single, Backed,
         NEW h \in Handlers, DeleteCode(h), req[h].code \in stored
  PROVE  Backed'
<1> DEFINE c == req[h].code
<1>1. c \in Issued /\ c \in Codes /\ email[c] = req[h].email /\ accepted[c] = 0
  BY DEF DeleteCode, AllPlaced, Placed, Issued, Single, CodePassesOnce
<1>2. /\ accepted' = [accepted EXCEPT ![c] = accepted[c] + 1]
      /\ UNCHANGED <<email, mail, changes>>
  BY DEF DeleteCode, users
<1>3. accepted'[c] = 1 /\ \A d \in Codes \ {c} : accepted'[d] = accepted[d]
  BY <1>1, <1>2 DEF TypeOK
<1>4. ASSUME NEW e \in Emails, e # email[c] PROVE Backlog(e)' \subseteq Backlog(e)
  <2> SUFFICES ASSUME NEW g \in Backlog(e)' PROVE g \in Backlog(e)
    OBVIOUS
  <2>1. /\ g \in Handlers
        /\ \/ req'[g].pc = "account" /\ req'[g].email = e
           \/ req'[g].pc = "write" /\ mail[req'[g].user] = e
    BY <1>2 DEF Backlog
  <2>2. g # h
    <3>1. SUFFICES ASSUME g = h PROVE FALSE
      OBVIOUS
    <3>2. req'[h].email = req[h].email /\ req'[h].user = req[h].user
          /\ (req'[h].pc = "write" => req[h].for = "change")
      BY <2>1, <3>1, DeleteSlot
    <3>3. req'[h].pc = "write" => mail[req[h].user] = req[h].email
      BY <3>2 DEF DeleteCode, AllPlaced, Placed
    <3> QED
      BY <1>1, <1>4, <2>1, <3>1, <3>2, <3>3
  <2>3. req'[g] = req[g]
    BY <2>1, <2>2, DeleteSlot
  <2> QED
    BY <2>1, <2>3 DEF Backlog
<1>5. ASSUME NEW e \in Emails
      PROVE  Cardinality(Backlog(e)') + Cardinality(Used(e))
               <= Cardinality(Backlog(e)) + Cardinality(Used(e)')
  <2> DEFINE B == Backlog(e)
             BB == Backlog(e)'
             U == Used(e)
             UU == Used(e)'
  <2>1. /\ IsFiniteSet(B) /\ IsFiniteSet(U) /\ IsFiniteSet(UU)
        /\ Cardinality(B) \in Nat /\ Cardinality(BB) \in Nat
        /\ Cardinality(U) \in Nat /\ Cardinality(UU) \in Nat
    BY BacklogFinite, BacklogFiniteNext, UsedFinite, UsedFiniteNext
  <2>2. CASE e # email[c]
    <3>1. BB \in SUBSET B /\ U \in SUBSET UU
      BY <1>2, <1>3, <1>4, <2>2 DEF Used, Issued
    <3> HIDE DEF B, BB, U, UU
    <3>2. Cardinality(BB) <= Cardinality(B) /\ Cardinality(U) <= Cardinality(UU)
      BY <2>1, <3>1, Sizes
    <3>3. Cardinality(BB) + Cardinality(U) <= Cardinality(B) + Cardinality(UU)
      BY <2>1, <3>2
    <3> QED
      BY <3>3 DEF B, BB, U, UU
  <2>3. CASE e = email[c]
    <3>1. BB \in SUBSET (B \cup {h})
      <4>1. \A g \in Handlers \ {h} : req'[g] = req[g]
        BY DeleteSlot
      <4> QED
        BY <1>2, <4>1 DEF Backlog
    <3>2. c \notin U /\ UU = U \cup {c}
      BY <1>1, <1>2, <1>3, <2>3 DEF Used, Issued
    <3> HIDE DEF B, BB, U, UU, c
    <3>3. Cardinality(UU) = Cardinality(U) + 1
      BY <2>1, <3>2, FS_AddElement
    <3>4. IsFiniteSet(B \cup {h}) /\ Cardinality(B \cup {h}) <= Cardinality(B) + 1
          /\ Cardinality(B \cup {h}) \in Nat
      <4>1. IsFiniteSet(B \cup {h})
            /\ Cardinality(B \cup {h}) = IF h \in B THEN Cardinality(B) ELSE Cardinality(B) + 1
        BY <2>1, FS_AddElement
      <4> QED
        BY <2>1, <4>1
    <3>5. Cardinality(BB) <= Cardinality(B \cup {h})
      BY <3>1, <3>4, Sizes
    <3>6. Cardinality(BB) + Cardinality(U) <= Cardinality(B) + Cardinality(UU)
      BY <2>1, <3>3, <3>4, <3>5
    <3> QED
      BY <3>6 DEF B, BB, U, UU
  <2> QED
    BY <2>2, <2>3
<1> QED
  BY <1>2, <1>5, BalanceKeeps

(* Writing a password takes the request out of the backlog.                *)
LEMMA WritingKeeps ==
  ASSUME TypeOK, TypeOK', AllPlaced, Kept, Backed, NEW h \in Handlers, WritePassword(h)
  PROVE  Backed'
<1> DEFINE w == req[h].user
<1>1. /\ w \in Accounts /\ w \in Users /\ req[h].pc = "write"
  BY DEF WritePassword, AllPlaced, Placed, Accounts
<1>2. /\ changes' = [changes EXCEPT ![w] = changes[w] + 1]
      /\ UNCHANGED <<email, mail, accepted>> /\ Return(h)
  BY DEF WritePassword, codes
<1>3. /\ changes'[w] = changes[w] + 1 /\ changes[w] \in Nat
      /\ \A u \in Users \ {w} : changes'[u] = changes[u] /\ changes[u] \in Nat
  BY <1>1, <1>2 DEF TypeOK
<1>4. \A e : Used(e)' = Used(e) /\ Backlog(e)' = Backlog(e) \ {h}
  <2>1. req'[h].pc = "idle" /\ \A g \in Handlers \ {h} : req'[g] = req[g]
    BY <1>2, Returned
  <2> QED
    BY <1>2, <2>1 DEF Used, Backlog, Issued
<1>5. ASSUME NEW e
      PROVE  /\ Cardinality(Backlog(e)) \in Nat /\ Cardinality(Backlog(e)') \in Nat
             /\ Cardinality(Used(e)) \in Nat
             /\ Cardinality(Backlog(e)') <= Cardinality(Backlog(e))
             /\ h \in Backlog(e) => Cardinality(Backlog(e)') = Cardinality(Backlog(e)) - 1
  <2>1. Cardinality(Backlog(e) \ {h}) = IF h \in Backlog(e) THEN Cardinality(Backlog(e)) - 1
                                        ELSE Cardinality(Backlog(e))
    BY BacklogFinite, FS_RemoveElement
  <2> QED
    BY <1>4, <2>1, BacklogFinite, BacklogFiniteNext, UsedFinite
<1>6. ASSUME NEW e \in Emails PROVE Cardinality(Backlog(e)') <= Cardinality(Used(e)')
  <2>1. Cardinality(Backlog(e)) <= Cardinality(Used(e))
    BY DEF Backed
  <2> QED
    BY <1>4, <1>5, <2>1
<1>7. ASSUME NEW u \in Accounts
      PROVE  changes'[u] + Cardinality(Backlog(mail[u])') <= Cardinality(Used(mail[u])')
  <2>1. PICK e : e = mail[u]
    OBVIOUS
  <2>2. changes[u] + Cardinality(Backlog(e)) <= Cardinality(Used(e)) /\ u \in Users
    BY <2>1 DEF Backed, Accounts
  <2>3. CASE u = w
    <3>1. h \in Backlog(e)
      BY <1>1, <2>1, <2>3 DEF Backlog
    <3>2. changes'[u] + Cardinality(Backlog(e)') <= Cardinality(Used(e)')
      BY <1>3, <1>4, <1>5, <2>2, <2>3, <3>1
    <3> QED
      BY <1>2, <2>1, <3>2 DEF Backlog, Used
  <2>4. CASE u # w
    <3>1. changes'[u] + Cardinality(Backlog(e)') <= Cardinality(Used(e)')
      BY <1>3, <1>4, <1>5, <2>2, <2>4
    <3> QED
      BY <1>2, <2>1, <3>1 DEF Backlog, Used
  <2> QED
    BY <2>3, <2>4
<1>8. Accounts' = Accounts /\ \A u \in Accounts : mail'[u] = mail[u]
  BY <1>2 DEF Accounts
<1>9. \A u \in Users \ Accounts : changes'[u] = 0
  BY <1>1, <1>3 DEF Backed
<1> QED
  BY <1>2, <1>6, <1>7, <1>8, <1>9 DEF Backed

LEMMA BackedStep ==
  TypeOK /\ TypeOK' /\ AllPlaced /\ Single /\ Backed /\ [Next]_vars => Backed'
<1> SUFFICES ASSUME TypeOK, TypeOK', AllPlaced, Single, Backed, [Next]_vars PROVE Backed'
  OBVIOUS
<1>k. Kept
  BY KeptStep
<1>0. ASSUME NEW h \in Handlers, UNCHANGED <<accepted, changes>>,
             \A g \in Handlers \ {h} : req'[g] = req[g],
             \/ req'[h].pc \notin {"account", "write"}
             \/ /\ req[h].pc = "account" /\ req'[h].pc = "write" /\ req'[h].user \in Accounts
                /\ mail[req'[h].user] = req[h].email
      PROVE  Backed'
  <2>1. \A e \in Emails : Backlog(e)' \subseteq Backlog(e)
    BY <1>k, <1>0, BacklogShrinks
  <2> QED
    BY <1>k, <1>0, <2>1, ShrinkingKeeps
<1>1. ASSUME NEW h \in Handlers, DeleteCode(h) PROVE Backed'
  <2>1. CASE req[h].code \in stored
    BY <1>k, <1>1, <2>1, AcceptingKeeps
  <2>2. CASE req[h].code \notin stored
    <3>1. Return(h) /\ UNCHANGED <<accepted, changes>>
      BY <1>1, <2>2 DEF DeleteCode, users
    <3> QED
      BY <1>0, <3>1, Returned
  <2> QED
    BY <2>1, <2>2
<1>2. ASSUME NEW h \in Handlers, WritePassword(h) PROVE Backed'
  BY <1>k, <1>2, WritingKeeps
<1>3. ASSUME NEW h \in Handlers, Step(h), ~DeleteCode(h), ~WritePassword(h) PROVE Backed'
  <2>1. UNCHANGED <<accepted, changes>>
    BY <1>3 DEF Step, SendPurge, SendCheck, SendIssue, PresentCode, ChangePassword, Lookup,
                ResetFind, SignupFind, SignupCreate, Fail, codes, users
  <2>2. CASE Return(h)
    BY <1>0, <2>1, <2>2, Returned
  <2>3. CASE SendPurge(h)
    BY <1>0, <2>1, <2>3, SendPurgeSlot
  <2>4. CASE SendCheck(h)
    BY <1>0, <2>1, <2>2, <2>4, Went DEF SendCheck, Labels
  <2>5. CASE PresentCode(h)
    BY <1>0, <2>1, <2>5, PresentCodeSlot
  <2>6. CASE ChangePassword(h)
    BY <1>0, <2>1, <2>6, ChangePasswordSlot
  <2>7. CASE Lookup(h)
    BY <1>0, <2>1, <2>2, <2>7, Went DEF Lookup, Labels
  <2>8. CASE ResetFind(h)
    <3>1. req[h].pc = "account"
      BY <2>8 DEF ResetFind
    <3> QED
      BY <1>0, <2>1, <2>8, <3>1, ResetFindSlot
  <2>9. CASE SignupFind(h)
    BY <1>0, <2>1, <2>9, SignupFindSlot
  <2> QED
    BY <1>3, <2>2, <2>3, <2>4, <2>5, <2>6, <2>7, <2>8, <2>9
       DEF Step, SendIssue, SignupCreate, Fail
<1>4. CASE CleanupExpiredCodes \/ Tick \/ UNCHANGED vars
  <2>1. UNCHANGED <<accepted, changes, req, mail>>
    BY <1>4 DEF CleanupExpiredCodes, Tick, vars, codes, users
  <2>2. \A e \in Emails : Backlog(e)' \subseteq Backlog(e)
    BY <2>1 DEF Backlog
  <2> QED
    BY <1>k, <2>1, <2>2, ShrinkingKeeps
<1> QED
  BY <1>1, <1>2, <1>3, <1>4 DEF Next, Step

-----------------------------------------------------------------------------
IInv == /\ TypeOK /\ AllPlaced
        /\ Single /\ Spaced /\ RecentCodesOverlap
        /\ OneAccountPerEmail /\ Backed

LEMMA InvInit == Init => IInv
<1> SUFFICES ASSUME Init PROVE IInv
  OBVIOUS
<1>1. TypeOK
  BY IdleIsRequest, ClockAssumption DEF Init, TypeOK
<1>2. \A h \in Handlers : req[h].pc = "idle"
  BY IdleIsRequest DEF Init
<1>3. AllPlaced /\ Spaced
  BY <1>2 DEF AllPlaced, Placed, Spaced
<1>4. Single /\ RecentCodesOverlap
  BY DEF Init, Single, CodePassesOnce, RecentCodesOverlap
<1>5. Accounts = {}
  BY DEF Init, Accounts
<1>6. Backed
  <2>1. \A e : Backlog(e) = {}
    BY <1>2 DEF Backlog
  <2>2. \A e : Cardinality(Backlog(e)) = 0
    BY <2>1, FS_EmptySet
  <2>3. \A u \in Users : changes[u] = 0
    BY DEF Init
  <2> QED
    BY <1>5, <2>2, <2>3, UsedFinite DEF Backed
<1> QED
  BY <1>1, <1>3, <1>4, <1>5, <1>6 DEF IInv, OneAccountPerEmail

(* The strengthened invariant, from which the theorems follow.             *)
THEOREM Invariance == Spec => []IInv
<1>1. IInv /\ [Next]_vars => IInv'
  BY TypeStep, PlacedStep, SingleStep, SpacedStep, OverlapStep, OneAccountStep, BackedStep DEF IInv
<1> QED
  BY InvInit, <1>1, PTL DEF Spec

(* Every variable keeps its type.                                          *)
THEOREM TypeCorrect == Spec => []TypeOK
<1>1. IInv => TypeOK
  BY DEF IInv
<1> QED
  BY <1>1, Invariance, PTL

(* email-verification.service.ts:64-79, for any number of requests that    *)
(* present it: a code lets one request pass, once.                         *)
THEOREM CodesPassOnce == Spec => []CodePassesOnce
<1>1. IInv => CodePassesOnce
  BY DEF IInv, Single
<1> QED
  BY <1>1, Invariance, PTL

(* email-verification.service.ts:30-56: codes of one address less than a   *)
(* minute apart come from requests that overlapped, provided that a code   *)
(* lives no shorter than a minute.                                         *)
THEOREM CodesOverlap == Spec => []RecentCodesOverlap
<1>1. IInv => RecentCodesOverlap
  BY DEF IInv
<1> QED
  BY <1>1, Invariance, PTL

(* auth.controller.ts:95-97, users.service.ts:124-145: resetPassword and   *)
(* changePassword have written an account's password no more often than    *)
(* codes sent to its address have been accepted.  (updateProfile writes it *)
(* without a code and is not counted.)                                     *)
THEOREM ChangesAreBacked == Spec => []PasswordsBacked
<1>1. IInv => PasswordsBacked
  <2> SUFFICES ASSUME IInv, NEW u \in Accounts
               PROVE  changes[u] <= Cardinality({c \in Issued : /\ accepted[c] > 0
                                                                 /\ email[c] = mail[u]})
    BY DEF PasswordsBacked
  <2>1. changes[u] + Cardinality(Backlog(mail[u])) <= Cardinality(Used(mail[u]))
    BY DEF IInv, Backed
  <2>2. changes[u] \in Nat
    BY DEF IInv, TypeOK, Accounts
  <2>3. changes[u] <= Cardinality(Used(mail[u]))
    BY <2>1, <2>2, BacklogFinite, UsedFinite
  <2> QED
    BY <2>3 DEF Used
<1> QED
  BY <1>1, Invariance, PTL

(* auth.service.ts:53-62: concurrent signups give an address one account.  *)
THEOREM EmailsAreUnique == Spec => []OneAccountPerEmail
<1>1. IInv => OneAccountPerEmail
  BY DEF IInv
<1> QED
  BY <1>1, Invariance, PTL
=============================================================================
