------------------------------ MODULE Sessions ------------------------------
(***************************************************************************)
(* Refresh-token sessions: login, refresh, logout and logoutAll of         *)
(* auth.service.ts, run by concurrent request handlers against Redis and   *)
(* the User table.  Every await of the code that touches shared state is a *)
(* step of its own.  Signing and verifying a JWT and writing the response  *)
(* are local: verifying is the guard of the action that starts a request,  *)
(* the jti is drawn in the step that stores its session, and a token may   *)
(* be presented, or never come back, once its session has been stored (its *)
(* cookie may be lost and its JWT may expire: then nobody presents it).  A *)
(* rejected request (bad password, bad or access token) changes nothing    *)
(* and is not an action.                                                   *)
(***************************************************************************)
CONSTANTS Users,     \* account ids
          Jti,       \* the values randomUUID() may return
          Handlers,  \* request slots: how many requests run at once
          None       \* null

ASSUME NoneIsNoId == None \notin Users /\ None \notin Jti

VARIABLES
  accounts,  \* rows of the User table
  live,      \* jtis whose key refresh:<sub>:<jti> is in Redis
  sub,       \* sub[j]: the JWT's subject, None while no token carries j
  req,       \* req[h]: program counter and locals of the request in slot h
  parent,    \* history: parent[j] is the token whose refresh issued j
  by         \* history: by[j] is the slot that issued j

vars == <<accounts, live, sub, req, parent, by>>

(* who and jti are the verified token's sub and jti (logoutAll ignores the *)
(* jti).  toScan and found: the keys a logout has still to look for, and   *)
(* those it is to delete; history: must, those of them that were in Redis  *)
(* when it began, and failed, those whose DEL failed.                      *)
Request == [pc : {"idle", "login", "get", "find", "del", "rotate",
                  "scan", "purge", "done"},
            who : Users \cup {None}, jti : Jti \cup {None},
            toScan : SUBSET Jti, found : SUBSET Jti, must : SUBSET Jti,
            failed : SUBSET Jti]

Idle == [pc |-> "idle", who |-> None, jti |-> None,
         toScan |-> {}, found |-> {}, must |-> {}, failed |-> {}]

Init == /\ accounts = Users
        /\ live = {}
        /\ sub    = [j \in Jti |-> None]
        /\ parent = [j \in Jti |-> None]
        /\ by     = [j \in Jti |-> None]
        /\ req    = [h \in Handlers |-> Idle]

-----------------------------------------------------------------------------
Unused == {j \in Jti : sub[j] = None}      \* randomUUID() repeats nothing
Issued == Jti \ Unused                    \* verifyAsync may accept these

KeysOf(u) == {j \in live : sub[j] = u}     \* what logoutAll scans for

Goto(h, label) == req' = [req EXCEPT ![h].pc = label]
Return(h)      == req' = [req EXCEPT ![h] = Idle]

(* Sign a token with a new jti for user u and store its session.           *)
IssueSession(h, u, from) ==
  \E j \in Unused :
    /\ sub'    = [sub EXCEPT ![j] = u]
    /\ parent' = [parent EXCEPT ![j] = from]
    /\ by'     = [by EXCEPT ![j] = h]
    /\ live'   = live \cup {j}
    /\ Return(h)
    /\ UNCHANGED accounts

-----------------------------------------------------------------------------
(* login: the row is read and the password compared, then the session is   *)
(* stored.                                                                 *)
LoginFind(h) ==
  /\ req[h].pc = "idle"
  /\ \E u \in accounts :
       req' = [req EXCEPT ![h] = [Idle EXCEPT !.pc = "login", !.who = u]]
  /\ UNCHANGED <<accounts, live, sub, parent, by>>

LoginStore(h) ==
  /\ req[h].pc = "login"
  /\ IssueSession(h, req[h].who, None)

-----------------------------------------------------------------------------
(* refresh: verify, redis.get, findById, redis.del, redis.set.             *)
RefreshVerify(h) ==
  /\ req[h].pc = "idle"
  /\ \E j \in Issued :
       req' = [req EXCEPT ![h] =
                 [Idle EXCEPT !.pc = "get", !.jti = j, !.who = sub[j]]]
  /\ UNCHANGED <<accounts, live, sub, parent, by>>

(* Variant: the session's key is not looked up.                            *)
RefreshGetUnchecked(h) ==
  /\ req[h].pc = "get"
  /\ Goto(h, "find")
  /\ UNCHANGED <<accounts, live, sub, parent, by>>

RefreshGet(h) ==
  /\ req[h].pc = "get"
  /\ IF req[h].jti \in live THEN Goto(h, "find") ELSE Return(h)
  /\ UNCHANGED <<accounts, live, sub, parent, by>>

RefreshFind(h) ==
  /\ req[h].pc = "find"
  /\ IF req[h].who \in accounts THEN Goto(h, "del") ELSE Return(h)
  /\ UNCHANGED <<accounts, live, sub, parent, by>>

(* Variant: the old session is left for its TTL.                           *)
RefreshDelForgotten(h) ==
  /\ req[h].pc = "del"
  /\ Goto(h, "rotate")
  /\ UNCHANGED <<accounts, live, sub, parent, by>>

RefreshDel(h) ==
  /\ req[h].pc = "del"
  /\ live' = live \ {req[h].jti}
  /\ Goto(h, "rotate")
  /\ UNCHANGED <<accounts, sub, parent, by>>

RefreshStore(h) ==
  /\ req[h].pc = "rotate"
  /\ IssueSession(h, req[h].who, req[h].jti)

-----------------------------------------------------------------------------
(* Variant: typ is not checked; an access token carries no jti.            *)
LogoutVerifyAnyType(h) ==
  /\ req[h].pc = "idle"
  /\ \E u \in Users :
       req' = [req EXCEPT ![h] =
                 [pc |-> "purge", who |-> u, jti |-> None, toScan |-> {},
                  found |-> {None}, must |-> {}, failed |-> {}]]
  /\ UNCHANGED <<accounts, live, sub, parent, by>>

(* logout deletes the one key it was given.                                *)
LogoutVerify(h) ==
  /\ req[h].pc = "idle"
  /\ \E j \in Issued :
       req' = [req EXCEPT ![h] =
                 [pc |-> "purge", who |-> sub[j], jti |-> j, toScan |-> {},
                  found |-> {j}, must |-> {j} \cap live, failed |-> {}]]
  /\ UNCHANGED <<accounts, live, sub, parent, by>>

(* logoutAll: SCAN returns every key that is there from its beginning to   *)
(* its end, and may or may not return a key that comes or goes meanwhile:  *)
(* each key's place is visited once, at any time and in any order.  The    *)
(* pipeline's commands are not a transaction: one step each.               *)
LogoutAllVerify(h) ==
  /\ req[h].pc = "idle"
  /\ \E j \in Issued :
       req' = [req EXCEPT ![h] =
                 [pc |-> "scan", who |-> sub[j], jti |-> None, toScan |-> Jti,
                  found |-> {}, must |-> KeysOf(sub[j]), failed |-> {}]]
  /\ UNCHANGED <<accounts, live, sub, parent, by>>

(* Variant: each 'data' event replaces the keys found so far.              *)
LogoutAllVisitReplaces(h) ==
  /\ req[h].pc = "scan"
  /\ \E j \in req[h].toScan :
       req' = [req EXCEPT ![h].toScan = @ \ {j},
                          ![h].found  = {j} \cap KeysOf(req[h].who)]
  /\ UNCHANGED <<accounts, live, sub, parent, by>>

LogoutAllVisit(h) ==
  /\ req[h].pc = "scan"
  /\ \E j \in req[h].toScan :
       req' = [req EXCEPT ![h].toScan = @ \ {j},
                          ![h].found  = @ \cup ({j} \cap KeysOf(req[h].who))]
  /\ UNCHANGED <<accounts, live, sub, parent, by>>

LogoutAllScanned(h) ==
  /\ req[h].pc = "scan" /\ req[h].toScan = {}
  /\ Goto(h, "purge")
  /\ UNCHANGED <<accounts, live, sub, parent, by>>

(* Variant: a DEL that deletes nothing is waited for.                      *)
PurgeDelInsists(h) ==
  /\ req[h].pc = "purge"
  /\ \E j \in req[h].found \cap live :
       /\ live' = live \ {j}
       /\ req'  = [req EXCEPT ![h].found = @ \ {j}]
  /\ UNCHANGED <<accounts, sub, parent, by>>

PurgeDel(h) ==
  /\ req[h].pc = "purge"
  /\ \E j \in req[h].found :
       /\ live' = live \ {j}
       /\ req'  = [req EXCEPT ![h].found = @ \ {j}]
  /\ UNCHANGED <<accounts, sub, parent, by>>

(* A DEL that fails does not stop its request: logout catches what it      *)
(* throws, and logoutAll does not look at the errors that exec() collects. *)
(* (One that Redis has run although its answer was lost is a PurgeDel.)    *)
PurgeDelFails(h) ==
  /\ req[h].pc = "purge"
  /\ \E j \in req[h].found :
       req' = [req EXCEPT ![h].found  = @ \ {j},
                          ![h].failed = @ \cup ({j} \cap live)]
  /\ UNCHANGED <<accounts, live, sub, parent, by>>

Purged(h) ==
  /\ req[h].pc = "purge" /\ req[h].found = {}
  /\ Goto(h, "done")
  /\ UNCHANGED <<accounts, live, sub, parent, by>>

LogoutAnswer(h) ==
  /\ req[h].pc = "done"
  /\ Return(h)
  /\ UNCHANGED <<accounts, live, sub, parent, by>>

-----------------------------------------------------------------------------
(* A request stops where it is: an await rejects and nobody catches it, the*)
(* connection breaks or the process dies (then every slot stops).  What it *)
(* wrote stays.                                                            *)
Fail(h) ==
  /\ req[h].pc # "idle"
  /\ Return(h)
  /\ UNCHANGED <<accounts, live, sub, parent, by>>

(* Redis drops a key when its EX runs out.                                 *)
KeyExpires(j) ==
  /\ j \in live
  /\ live' = live \ {j}
  /\ UNCHANGED <<accounts, sub, req, parent, by>>

(* No endpoint deletes a user; an operator may.                            *)
RemoveAccount(u) ==
  /\ u \in accounts
  /\ accounts' = accounts \ {u}
  /\ UNCHANGED <<live, sub, req, parent, by>>

Step(h) ==
  \/ LoginStore(h)
  \/ RefreshGet(h) \/ RefreshFind(h) \/ RefreshDel(h) \/ RefreshStore(h)
  \/ LogoutAllVisit(h) \/ LogoutAllScanned(h) \/ PurgeDel(h)
  \/ Purged(h) \/ LogoutAnswer(h)

Next ==
  \/ \E h \in Handlers : \/ Step(h) \/ PurgeDelFails(h) \/ Fail(h)
                         \/ LoginFind(h) \/ RefreshVerify(h)
                         \/ LogoutVerify(h) \/ LogoutAllVerify(h)
  \/ \E j \in Jti : KeyExpires(j)
  \/ \E u \in Users : RemoveAccount(u)

Spec == Init /\ [][Next]_vars

(* Node runs every request on to its end unless it fails; nobody has to    *)
(* send requests.                                                          *)
FairSpec == Spec /\ \A h \in Handlers : WF_vars(Step(h))

-----------------------------------------------------------------------------
TypeOK ==
  /\ accounts \subseteq Users
  /\ live \subseteq Jti
  /\ sub \in [Jti -> Users \cup {None}]
  /\ parent \in [Jti -> Jti \cup {None}]
  /\ by \in [Jti -> Handlers \cup {None}]
  /\ req \in [Handlers -> Request]

(* auth.service.ts:94-109 read the key, then delete it, then store the     *)
(* successor.  A request slot runs one request after another, so two       *)
(* successors of one token issued from one slot would be a replay of a     *)
(* rotated token; only requests that overlap may both be accepted.         *)
SuccessorsOverlap ==
  \A j, k \in Jti :
    (j # k /\ parent[j] # None /\ parent[j] = parent[k]) => by[j] # by[k]

(* auth.service.ts:115-127 and 157-172: when a logout or logoutAll answers,*)
(* the sessions it was to end (its own; every session of the account that  *)
(* was in Redis when its scan began) have ended, except those whose DEL    *)
(* failed, whatever logins, refreshes, other logouts and expiries ran      *)
(* meanwhile.                                                              *)
LogoutMissesOnlyErrors ==
  \A h \in Handlers : req[h].pc = "done" => req[h].must \cap live \subseteq req[h].failed

(* Sessions implement the life cycle of TokenLifecycle: a rotated, logged  *)
(* out or expired session never comes back, and a successor is stored only *)
(* after its predecessor, of the same user, has ended.                     *)
Abstract == INSTANCE TokenLifecycle WITH
  state  <- [j \in Jti |-> IF sub[j] = None THEN "unused"
                           ELSE IF j \in live THEN "live" ELSE "ended"],
  holder <- sub,
  source <- parent

ImplementsLifecycle == Abstract!ASpec

(* Every request that does not fail is answered: the scan of logoutAll is  *)
(* finite and its 'end' event settles the promise.  (With no jti left the  *)
(* bounded model cannot issue the token the request waits for.)            *)
RequestsEnd ==
  \A h \in Handlers :
    req[h].pc # "idle" ~> (req[h].pc = "idle" \/ Unused = {})

-----------------------------------------------------------------------------
(* The inductive invariant behind the safety properties.                   *)

Refreshing(h) == req[h].pc \in {"get", "find", "del", "rotate"}
Accepted(h)   == req[h].pc \in {"find", "del", "rotate"}
Ending(h)     == req[h].pc \in {"scan", "purge", "done"}

BlankUntilIssued ==
  \A j \in Unused : j \notin live /\ parent[j] = None /\ by[j] = None

VerifiedRequests ==
  \A h \in Handlers :
    /\ req[h].pc = "login" => req[h].who # None
    /\ Refreshing(h) => /\ req[h].jti \in Issued
                        /\ sub[req[h].jti] = req[h].who
    /\ req[h].pc = "rotate" => req[h].jti \notin live

PredecessorsEnded ==
  \A j \in Jti : parent[j] # None =>
    parent[j] \in Issued \ live /\ sub[parent[j]] = sub[j]

AcceptedHasNoSuccessorYet ==
  \A h \in Handlers, j \in Jti :
    (Accepted(h) /\ parent[j] = req[h].jti) => by[j] # h

LogoutProgress ==
  \A h \in Handlers : Ending(h) =>
    /\ req[h].who # None
    /\ req[h].must \subseteq {j \in Jti : sub[j] = req[h].who}
    /\ req[h].must \cap live \subseteq req[h].toScan \cup req[h].found \cup req[h].failed
    /\ req[h].pc \in {"purge", "done"} => req[h].toScan = {}
    /\ req[h].pc = "done" => req[h].found = {}

(* What every reachable state of the session code satisfies; it implies    *)
(* SuccessorsOverlap and LogoutMissesOnlyErrors and is preserved by every  *)
(* action of auth.service.ts.                                              *)
IInv == /\ TypeOK
        /\ BlankUntilIssued
        /\ VerifiedRequests
        /\ PredecessorsEnded
        /\ AcceptedHasNoSuccessorYet
        /\ SuccessorsOverlap
        /\ LogoutProgress

-----------------------------------------------------------------------------
(* Stated, not run: it does not hold.  auth.controller.ts:191 and 217 say  *)
(* that an answered logout has ended its session, and logout-all those of  *)
(* the account; a swallowed error of a DEL (auth.service.ts:125, 171) is   *)
(* enough to leave them, with the answer 200 and the cookie cleared.       *)
LogoutComplete ==
  \A h \in Handlers : req[h].pc = "done" => req[h].must \cap live = {}

(* No session grows out of one that the logout in slot h has ended.        *)
NothingGrows(h) ==
  req[h].pc = "done" =>
    \A k \in live : parent[k] \notin req[h].must \ req[h].failed

(* auth.controller.ts:217 says logout-all ends every session of the        *)
(* account: none of those it ended may go on as its successor.             *)
LogoutAllEndsAll ==
  \A h \in Handlers : req[h].jti = None => NothingGrows(h)

(* Stated, not run: it does not hold either.  auth.controller.ts:191 says  *)
(* logout ends the session of the device: it may not go on as its successor*)
(* (a refresh that has passed its read is enough).                         *)
LogoutEndsDevice ==
  \A h \in Handlers : req[h].jti # None => NothingGrows(h)
=============================================================================
