------------------------------ MODULE Accounts ------------------------------
(***************************************************************************)
(* E-mail verification codes and what they open: sending and checking a    *)
(* code (email-verification.service.ts), password reset (auth.controller), *)
(* password change (users.service) and signup (auth.service).  Statements  *)
(* of concurrent requests interleave.  A code is known by its row: two     *)
(* codes drawn at random are taken to differ, and a wrong code, a wrong    *)
(* password or a rejected DTO changes nothing and is not an action.        *)
(* Hashing is local, and mailing a code writes nothing: the mail may be    *)
(* lost, then nobody presents the code.                                    *)
(***************************************************************************)
EXTENDS Integers, FiniteSets

CONSTANTS Emails,      \* addresses
          Codes,       \* ids (and codes) an EmailVerification row may get
          Users,       \* ids a User row may get
          Handlers,    \* request slots
          Minute,      \* oneMinute, in ticks of the clock
          Lifetime,    \* CODE_EXPIRY_MINUTES, in ticks
          MaxTime,     \* bound: the clock stops here
          None         \* null

(* A code lives for ten minutes: longer than it blocks the next one.       *)
ASSUME ClockAssumption ==
  /\ Minute \in Nat /\ Lifetime \in Nat /\ MaxTime \in Nat
  /\ Minute <= Lifetime
ASSUME NoneIsNoId == None \notin Emails \cup Codes \cup Users
ASSUME FiniteAssumption == IsFiniteSet(Codes) /\ IsFiniteSet(Handlers)

VARIABLES
  now,       \* the clock
  stored,    \* ids of the rows of table EmailVerification
  email,     \* email[c]: the row's address, None while c is unused
  createdAt, \* createdAt[c]; the row expires at createdAt[c] + Lifetime
  mail,      \* mail[u]: User.email, None while u is unused
  req,       \* req[h]: program counter and locals of the request in slot h
  by,        \* history: by[c] is the slot that issued c
  accepted,  \* history: how many requests verifyCode let pass with code c
  changes    \* history: password writes of u that a code had to allow

codes == <<stored, email, createdAt, by>>
users == <<mail, changes>>
vars == <<now, codes, users, req, accepted>>

Purpose == {"verify", "reset", "change"}

Request == [pc : {"idle", "check", "issue", "lookup", "delete", "account",
                  "write", "create"},
            for : Purpose, email : Emails \cup {None},
            code : Codes \cup {None}, user : Users \cup {None}]

Started(label, purpose, e, c, u) ==
  [pc |-> label, for |-> purpose, email |-> e, code |-> c, user |-> u]

Idle == Started("idle", "verify", None, None, None)

Init == /\ now = 0
        /\ stored = {}
        /\ email     = [c \in Codes |-> None]
        /\ createdAt = [c \in Codes |-> 0]
        /\ by        = [c \in Codes |-> None]
        /\ accepted  = [c \in Codes |-> 0]
        /\ mail      = [u \in Users |-> None]
        /\ changes   = [u \in Users |-> 0]
        /\ req       = [h \in Handlers |-> Idle]

-----------------------------------------------------------------------------
Issued    == {c \in Codes : email[c] # None}
Accounts  == {u \in Users : mail[u] # None}
RowsOf(e) == {c \in stored : email[c] = e}

(* expiresAt < now, and expiresAt > now: on the tick itself, neither.      *)
Expired(c)  == createdAt[c] + Lifetime < now
StillGood(c) == createdAt[c] + Lifetime > now

Goto(h, label) == req' = [req EXCEPT ![h].pc = label]
Return(h)      == req' = [req EXCEPT ![h] = Idle]

-----------------------------------------------------------------------------
(* sendVerificationCode: drop the address's expired codes, look for a code *)
(* of the last minute, store the new one, mail it.                         *)
SendPurge(h) ==
  /\ req[h].pc = "idle"
  /\ \E e \in Emails :
       /\ stored' = stored \ {c \in RowsOf(e) : Expired(c)}
       /\ req' = [req EXCEPT ![h] = Started("check", "verify", e, None, None)]
  /\ UNCHANGED <<now, email, createdAt, by, users, accepted>>

(* findFirst ordered by createdAt, descending.                             *)
Newest(c, e) ==
  /\ c \in RowsOf(e) /\ StillGood(c)
  /\ \A d \in RowsOf(e) : createdAt[d] <= createdAt[c]

(* Variant: ordered by createdAt, ascending.                               *)
SendCheckOldest(h) ==
  LET good == {c \in RowsOf(req[h].email) : StillGood(c)}
      recent == \E c \in good : /\ \A d \in good : createdAt[c] <= createdAt[d]
                                /\ now - createdAt[c] < Minute
  IN /\ req[h].pc = "check"
     /\ IF recent THEN Return(h) ELSE Goto(h, "issue")
     /\ UNCHANGED <<now, codes, users, accepted>>

SendCheck(h) ==
  LET recent == \E c \in Codes : /\ Newest(c, req[h].email)
                                 /\ now - createdAt[c] < Minute
  IN /\ req[h].pc = "check"
     /\ IF recent THEN Return(h) ELSE Goto(h, "issue")
     /\ UNCHANGED <<now, codes, users, accepted>>

(* Variant: the row is stamped with its expiry.                            *)
SendIssueAhead(h) ==
  /\ req[h].pc = "issue"
  /\ \E c \in Codes \ Issued :
       /\ stored' = stored \cup {c}
       /\ email'     = [email EXCEPT ![c] = req[h].email]
       /\ createdAt' = [createdAt EXCEPT ![c] = now + Lifetime]
       /\ by'        = [by EXCEPT ![c] = h]
  /\ Return(h)
  /\ UNCHANGED <<now, users, accepted>>

SendIssue(h) ==
  /\ req[h].pc = "issue"
  /\ \E c \in Codes \ Issued :
       /\ stored' = stored \cup {c}
       /\ email'     = [email EXCEPT ![c] = req[h].email]
       /\ createdAt' = [createdAt EXCEPT ![c] = now]
       /\ by'        = [by EXCEPT ![c] = h]
  /\ Return(h)
  /\ UNCHANGED <<now, users, accepted>>

-----------------------------------------------------------------------------
(* Variant: the address is not part of verifyCode's query.                 *)
FoundAnyEmail(c, e) == c \in stored /\ StillGood(c) /\ e \in Emails

Found(c, e) == c \in RowsOf(e) /\ StillGood(c)

(* verify-email-code and reset-password begin with verifyCode (404 unless  *)
(* the code is found).                                                     *)
PresentCode(h) ==
  /\ req[h].pc = "idle"
  /\ \E c \in Issued, e \in Emails, purpose \in {"verify", "reset"} :
       /\ Found(c, e)
       /\ req' = [req EXCEPT ![h] = Started("delete", purpose, e, c, None)]
  /\ UNCHANGED <<now, codes, users, accepted>>

(* changePassword first reads the user and compares the current password;  *)
(* the code has to be one of the user's own address.                       *)
ChangePassword(h) ==
  /\ req[h].pc = "idle"
  /\ \E c \in Issued, u \in Accounts :
       req' = [req EXCEPT ![h] = Started("lookup", "change", mail[u], c, u)]
  /\ UNCHANGED <<now, codes, users, accepted>>

Lookup(h) ==
  /\ req[h].pc = "lookup"
  /\ IF Found(req[h].code, req[h].email) THEN Goto(h, "delete") ELSE Return(h)
  /\ UNCHANGED <<now, codes, users, accepted>>

AfterVerify(h) ==
  CASE req[h].for = "verify" -> Return(h)
    [] req[h].for = "reset"  -> Goto(h, "account")
    [] req[h].for = "change" -> Goto(h, "write")

(* Variant: deleteMany instead of delete.                                  *)
DeleteCodeIfAny(h) ==
  LET c == req[h].code IN
  /\ req[h].pc = "delete"
  /\ stored' = stored \ {c}
  /\ accepted' = [accepted EXCEPT ![c] = @ + 1]
  /\ AfterVerify(h)
  /\ UNCHANGED <<now, email, createdAt, by, users>>

(* delete by id throws (P2025) when another request deleted the row.       *)
DeleteCode(h) ==
  LET c == req[h].code IN
  /\ req[h].pc = "delete"
  /\ stored' = stored \ {c}
  /\ IF c \in stored
     THEN accepted' = [accepted EXCEPT ![c] = @ + 1] /\ AfterVerify(h)
     ELSE Return(h) /\ UNCHANGED accepted
  /\ UNCHANGED <<now, email, createdAt, by, users>>

(* resetPassword: the code is gone by now, also when nobody has the address*)
ResetFind(h) ==
  /\ req[h].pc = "account"
  /\ \/ \E u \in Accounts :
          /\ mail[u] = req[h].email
          /\ req' = [req EXCEPT ![h] =
                       Started("write", req[h].for, req[h].email, req[h].code, u)]
     \/ /\ \A u \in Accounts : mail[u] # req[h].email
        /\ Return(h)
  /\ UNCHANGED <<now, codes, users, accepted>>

WritePassword(h) ==
  /\ req[h].pc = "write"
  /\ changes' = [changes EXCEPT ![req[h].user] = @ + 1]
  /\ Return(h)
  /\ UNCHANGED <<now, codes, mail, accepted>>

-----------------------------------------------------------------------------
(* signup: no account has the address yet (409 if one has); then the row is*)
(* created, and the unique index on email may still refuse it.             *)
SignupFind(h) ==
  /\ req[h].pc = "idle"
  /\ \E e \in Emails :
       /\ \A u \in Users : mail[u] # e
       /\ req' = [req EXCEPT ![h] = Started("create", "verify", e, None, None)]
  /\ UNCHANGED <<now, codes, users, accepted>>

(* Variant: email is not unique.                                           *)
SignupCreateAlways(h) ==
  /\ req[h].pc = "create"
  /\ \E u \in Users \ Accounts : mail' = [mail EXCEPT ![u] = req[h].email]
  /\ Return(h)
  /\ UNCHANGED <<now, codes, changes, accepted>>

SignupCreate(h) ==
  /\ req[h].pc = "create"
  /\ IF \E u \in Users : mail[u] = req[h].email
     THEN UNCHANGED mail
     ELSE \E u \in Users \ Accounts : mail' = [mail EXCEPT ![u] = req[h].email]
  /\ Return(h)
  /\ UNCHANGED <<now, codes, changes, accepted>>

-----------------------------------------------------------------------------
(* cleanupExpiredCodes; nothing in src schedules it.                       *)
CleanupExpiredCodes ==
  /\ stored' = {c \in stored : ~Expired(c)}
  /\ UNCHANGED <<now, email, createdAt, by, users, req, accepted>>

(* A statement rejects or the process stops; what was committed stays.     *)
Fail(h) ==
  /\ req[h].pc # "idle"
  /\ Return(h)
  /\ UNCHANGED <<now, codes, users, accepted>>

Tick == /\ now < MaxTime
        /\ now' = now + 1
        /\ UNCHANGED <<codes, users, req, accepted>>

Next ==
  \/ \E h \in Handlers :
       \/ SendPurge(h) \/ SendCheck(h) \/ SendIssue(h)
       \/ PresentCode(h) \/ ChangePassword(h) \/ Lookup(h) \/ DeleteCode(h)
       \/ ResetFind(h) \/ WritePassword(h)
       \/ SignupFind(h) \/ SignupCreate(h) \/ Fail(h)
  \/ CleanupExpiredCodes
  \/ Tick

Spec == Init /\ [][Next]_vars

-----------------------------------------------------------------------------
TypeOK ==
  /\ now \in 0..MaxTime
  /\ stored \subseteq Issued
  /\ email \in [Codes -> Emails \cup {None}]
  /\ createdAt \in [Codes -> 0..now]
  /\ by \in [Codes -> Handlers \cup {None}]
  /\ accepted \in [Codes -> Nat]
  /\ mail \in [Users -> Emails \cup {None}]
  /\ changes \in [Users -> Nat]
  /\ req \in [Handlers -> Request]

(* email-verification.service.ts:64-79 find a row and then delete it: one  *)
(* code lets one request pass, however many present it at once, and it does*)
(* not work again afterwards.                                              *)
CodePassesOnce ==
  \A c \in Codes : accepted[c] <= 1 /\ (c \in stored => accepted[c] = 0)

(* email-verification.service.ts:30-56 look for a recent code and then     *)
(* store one: of the codes of one address that are stored and less than a  *)
(* minute apart, no two come from requests that ran one after the other.   *)
RecentCodesOverlap ==
  \A c, d \in stored :
    /\ c # d /\ email[c] = email[d]
    /\ createdAt[c] - createdAt[d] \in 0..(Minute - 1)
    => by[c] # by[d]

(* auth.controller.ts:95-97 and users.service.ts:124-145: every password   *)
(* that resetPassword or changePassword wrote used up a code of its own    *)
(* that had been sent to the account's address.                            *)
PasswordsBacked ==
  \A u \in Accounts :
    changes[u] <= Cardinality({c \in Issued : accepted[c] > 0 /\ email[c] = mail[u]})

(* auth.service.ts:53-62 look an address up and then create its account:   *)
(* two signups at once still give it one account.                          *)
OneAccountPerEmail ==
  \A u, v \in Accounts : u # v => mail[u] # mail[v]

-----------------------------------------------------------------------------
(* email-verification.service.ts:43 says that codes can be requested once  *)
(* a minute only: an address has one code of the last minute at most.      *)
OneCodePerMinute ==
  \A c, d \in Issued :
    /\ c # d /\ email[c] = email[d]
    => createdAt[c] - createdAt[d] \notin 0..(Minute - 1)

(* auth.controller.ts:101 says that signup follows the verification of the *)
(* address: whoever has an account had a code of that address accepted.    *)
SignupVerified ==
  \A u \in Accounts : \E c \in Issued : email[c] = mail[u] /\ accepted[c] > 0
=============================================================================
