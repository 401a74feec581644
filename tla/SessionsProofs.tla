--------------------------- MODULE SessionsProofs ---------------------------
(***************************************************************************)
(* Proofs about Sessions, for any number of users, tokens and slots.       *)
(***************************************************************************)
EXTENDS Sessions, TLAPS

(* A request record stays one whatever the code assigns to its fields.     *)
LEMMA RequestFields ==
  ASSUME NEW r \in Request
  PROVE  /\ r.pc \in {"idle", "login", "get", "find", "del", "rotate",
                      "scan", "purge", "done"}
         /\ r.who \in Users \cup {None} /\ r.jti \in Jti \cup {None}
         /\ r.toScan \subseteq Jti /\ r.found \subseteq Jti /\ r.must \subseteq Jti
         /\ r.failed \subseteq Jti
         /\ \A l \in {"idle", "login", "get", "find", "del", "rotate",
                      "scan", "purge", "done"} : [r EXCEPT !.pc = l] \in Request
         /\ \A S \in SUBSET Jti : [r EXCEPT !.found = S] \in Request
         /\ \A S, T \in SUBSET Jti : [r EXCEPT !.toScan = S, !.found = T] \in Request
         /\ \A S, T \in SUBSET Jti : [r EXCEPT !.found = S, !.failed = T] \in Request
  BY DEF Request

LEMMA IdleIsRequest == Idle \in Request
  BY DEF Idle, Request

LEMMA StartedIsRequest ==
  ASSUME NEW u \in Users \cup {None}, NEW j \in Jti \cup {None}, NEW p \in {"get", "login"}
  PROVE  /\ [Idle EXCEPT !.pc = p, !.who = u] \in Request
         /\ [Idle EXCEPT !.pc = p, !.jti = j, !.who = u] \in Request
  BY DEF Idle, Request

LEMMA TypeStep == TypeOK /\ [Next]_vars => TypeOK'
<1> SUFFICES ASSUME TypeOK, [Next]_vars PROVE TypeOK'
  OBVIOUS
<1> USE IdleIsRequest DEF TypeOK
<1>1. ASSUME NEW h \in Handlers, LoginFind(h) PROVE TypeOK'
  <2>1. PICK u \in accounts :
          req' = [req EXCEPT ![h] = [Idle EXCEPT !.pc = "login", !.who = u]]
    BY <1>1 DEF LoginFind
  <2>2. [Idle EXCEPT !.pc = "login", !.who = u] \in Request
    BY StartedIsRequest
  <2>3. req' \in [Handlers -> Request]
    BY <2>1, <2>2
  <2> QED
    BY <1>1, <2>3 DEF LoginFind
<1>2. ASSUME NEW h \in Handlers, NEW u \in Users \cup {None}, NEW from \in Jti \cup {None},
             IssueSession(h, u, from)
      PROVE  TypeOK'
  BY <1>2 DEF IssueSession, Unused, Return
<1>3. ASSUME NEW h \in Handlers, LoginStore(h) PROVE TypeOK'
  BY <1>2, <1>3, RequestFields DEF LoginStore
<1>4. ASSUME NEW h \in Handlers, RefreshVerify(h) PROVE TypeOK'
  <2>1. PICK j \in Issued :
          req' = [req EXCEPT ![h] =
                    [Idle EXCEPT !.pc = "get", !.jti = j, !.who = sub[j]]]
    BY <1>4 DEF RefreshVerify
  <2>2. [Idle EXCEPT !.pc = "get", !.jti = j, !.who = sub[j]] \in Request
    BY StartedIsRequest DEF Issued
  <2>3. req' \in [Handlers -> Request]
    BY <2>1, <2>2
  <2> QED
    BY <1>4, <2>3 DEF RefreshVerify
<1>5. ASSUME NEW h \in Handlers, RefreshGet(h) PROVE TypeOK'
  <2>1. [req[h] EXCEPT !.pc = "find"] \in Request
    BY RequestFields
  <2>2. req' = [req EXCEPT ![h] = [req[h] EXCEPT !.pc = "find"]] \/ req' = [req EXCEPT ![h] = Idle]
    BY <1>5 DEF RefreshGet, Goto, Return
  <2> QED
    BY <1>5, <2>1, <2>2 DEF RefreshGet
<1>6. ASSUME NEW h \in Handlers, RefreshFind(h) PROVE TypeOK'
  <2>1. [req[h] EXCEPT !.pc = "del"] \in Request
    BY RequestFields
  <2>2. req' = [req EXCEPT ![h] = [req[h] EXCEPT !.pc = "del"]] \/ req' = [req EXCEPT ![h] = Idle]
    BY <1>6 DEF RefreshFind, Goto, Return
  <2> QED
    BY <1>6, <2>1, <2>2 DEF RefreshFind
<1>7. ASSUME NEW h \in Handlers, RefreshDel(h) PROVE TypeOK'
  BY <1>7, RequestFields DEF RefreshDel, Goto
<1>8. ASSUME NEW h \in Handlers, RefreshStore(h) PROVE TypeOK'
  BY <1>2, <1>8, RequestFields DEF RefreshStore
<1>9. ASSUME NEW h \in Handlers, LogoutVerify(h) PROVE TypeOK'
  BY <1>9 DEF LogoutVerify, Issued, Request
<1>10. ASSUME NEW h \in Handlers, LogoutAllVerify(h) PROVE TypeOK'
  BY <1>10 DEF LogoutAllVerify, Issued, Request, KeysOf
<1>11. ASSUME NEW h \in Handlers, LogoutAllVisit(h) PROVE TypeOK'
  <2>1. PICK j \in req[h].toScan :
          req' = [req EXCEPT ![h].toScan = @ \ {j},
                             ![h].found  = @ \cup ({j} \cap KeysOf(req[h].who))]
    BY <1>11 DEF LogoutAllVisit
  <2> DEFINE S == req[h].toScan \ {j}
             F == req[h].found \cup ({j} \cap KeysOf(req[h].who))
  <2>2. S \in SUBSET Jti /\ F \in SUBSET Jti
    BY RequestFields
  <2>3. [req[h] EXCEPT !.toScan = S, !.found = F] \in Request
    BY <2>2, RequestFields
  <2>4. req' = [req EXCEPT ![h] = [req[h] EXCEPT !.toScan = S, !.found = F]]
    BY <2>1
  <2> QED
    BY <1>11, <2>3, <2>4 DEF LogoutAllVisit
<1>12. ASSUME NEW h \in Handlers, LogoutAllScanned(h) PROVE TypeOK'
  BY <1>12, RequestFields DEF LogoutAllScanned, Goto
<1>13. ASSUME NEW h \in Handlers, PurgeDel(h) PROVE TypeOK'
  <2>1. PICK j \in req[h].found : /\ live' = live \ {j}
                                  /\ req' = [req EXCEPT ![h].found = @ \ {j}]
    BY <1>13 DEF PurgeDel
  <2>2. [req[h] EXCEPT !.found = req[h].found \ {j}] \in Request
    BY RequestFields
  <2>3. req' = [req EXCEPT ![h] = [req[h] EXCEPT !.found = req[h].found \ {j}]]
    BY <2>1
  <2> QED
    BY <1>13, <2>1, <2>2, <2>3 DEF PurgeDel
<1>pf. ASSUME NEW h \in Handlers, PurgeDelFails(h) PROVE TypeOK'
  <2>1. PICK j \in req[h].found :
          req' = [req EXCEPT ![h].found = @ \ {j}, ![h].failed = @ \cup ({j} \cap live)]
    BY <1>pf DEF PurgeDelFails
  <2> DEFINE S == req[h].found \ {j}
             F == req[h].failed \cup ({j} \cap live)
  <2>2. S \in SUBSET Jti /\ F \in SUBSET Jti
    BY RequestFields
  <2>3. [req[h] EXCEPT !.found = S, !.failed = F] \in Request
    BY <2>2, RequestFields
  <2>4. req' = [req EXCEPT ![h] = [req[h] EXCEPT !.found = S, !.failed = F]]
    BY <2>1
  <2> QED
    BY <1>pf, <2>3, <2>4 DEF PurgeDelFails
<1>14. ASSUME NEW h \in Handlers, Purged(h) PROVE TypeOK'
  BY <1>14, RequestFields DEF Purged, Goto
<1>15. ASSUME NEW h \in Handlers, LogoutAnswer(h) \/ Fail(h) PROVE TypeOK'
  BY <1>15 DEF LogoutAnswer, Fail, Return
<1>16. ASSUME NEW j \in Jti, KeyExpires(j) PROVE TypeOK'
  BY <1>16 DEF KeyExpires
<1>17. ASSUME NEW u \in Users, RemoveAccount(u) PROVE TypeOK'
  BY <1>17 DEF RemoveAccount
<1>18. CASE UNCHANGED vars
  BY <1>18 DEF vars
<1> HIDE DEF TypeOK
<1> QED
  BY <1>1, <1>3, <1>4, <1>5, <1>6, <1>7, <1>8, <1>9, <1>10, <1>11, <1>12,
     <1>13, <1>pf, <1>14, <1>15, <1>16, <1>17, <1>18 DEF Next, Step

(* Every variable keeps its type, whatever is done to the sessions.        *)
THEOREM TypeCorrect == Spec => []TypeOK
<1>1. Init => TypeOK
  BY IdleIsRequest DEF Init, TypeOK
<1>2. QED
  BY <1>1, TypeStep, PTL DEF Spec

-----------------------------------------------------------------------------
(* The invariant holds initially and is preserved by every action.         *)
LEMMA InvInit == Init => IInv
<1> SUFFICES ASSUME Init PROVE IInv
  OBVIOUS
<1>1. TypeOK
  BY IdleIsRequest DEF Init, TypeOK
<1>2. \A h \in Handlers : req[h] = Idle
  BY DEF Init
<1>3. Unused = Jti
  BY DEF Init, Unused
<1> QED
  BY <1>1, <1>2, <1>3 DEF Init, IInv, BlankUntilIssued, VerifiedRequests, PredecessorsEnded,
     AcceptedHasNoSuccessorYet, SuccessorsOverlap, LogoutProgress,
     Refreshing, Accepted, Ending, Idle

(* Issuing a session, after a login (from = None) or in place of a token   *)
(* that has ended, preserves the invariant.                                *)
LEMMA IssueKeeps ==
  ASSUME IInv, TypeOK', NEW h \in Handlers, NEW u \in Users,
         NEW from \in Jti \cup {None},
         from # None => /\ from \in Issued \ live /\ sub[from] = u
                        /\ \A j \in Jti : parent[j] = from => by[j] # h,
         IssueSession(h, u, from)
  PROVE  IInv'
<1> USE NoneIsNoId DEF IInv
<1>v. /\ live \subseteq Jti
      /\ sub \in [Jti -> Users \cup {None}]
      /\ parent \in [Jti -> Jti \cup {None}]
      /\ by \in [Jti -> Handlers \cup {None}]
      /\ req \in [Handlers -> Request]
  BY DEF TypeOK
<1>p. PICK n \in Unused : /\ sub' = [sub EXCEPT ![n] = u]
                          /\ parent' = [parent EXCEPT ![n] = from]
                          /\ by' = [by EXCEPT ![n] = h]
                          /\ live' = live \cup {n}
                          /\ req' = [req EXCEPT ![h] = Idle]
  BY DEF IssueSession, Return
<1>n. n \in Jti /\ sub[n] = None /\ n \notin live /\ parent[n] = None /\ by[n] = None
  BY DEF Unused, BlankUntilIssued
<1>f. /\ \A g \in Handlers \ {h} : req'[g] = req[g]
      /\ req'[h] = Idle
      /\ \A j \in Jti \ {n} : sub'[j] = sub[j] /\ parent'[j] = parent[j] /\ by'[j] = by[j]
      /\ sub'[n] = u /\ parent'[n] = from /\ by'[n] = h
      /\ live' = live \cup {n}
  BY <1>p, <1>n, <1>v
<1>1. BlankUntilIssued'
  BY <1>f, <1>n, <1>v DEF BlankUntilIssued, Unused
<1>2. VerifiedRequests'
  BY <1>f, <1>n, <1>v DEF VerifiedRequests, Refreshing, Issued, Unused, Idle
<1>3. PredecessorsEnded'
  BY <1>f, <1>n, <1>v DEF PredecessorsEnded, Issued, Unused
<1>4. AcceptedHasNoSuccessorYet'
  BY <1>f, <1>n, <1>v DEF AcceptedHasNoSuccessorYet, Accepted, Idle, PredecessorsEnded
<1>5. SuccessorsOverlap'
  BY <1>f, <1>n, <1>v DEF SuccessorsOverlap
<1>6. LogoutProgress'
  BY <1>f, <1>n, <1>v DEF LogoutProgress, Ending, Idle, KeysOf, Issued, Unused
<1> QED
  BY <1>1, <1>2, <1>3, <1>4, <1>5, <1>6

LEMMA InvStep == IInv /\ [Next]_vars => IInv'
<1> SUFFICES ASSUME IInv, [Next]_vars PROVE IInv'
  OBVIOUS
<1> USE NoneIsNoId DEF IInv
<1>t. TypeOK'
  BY TypeStep
<1>v. /\ live \subseteq Jti /\ accounts \subseteq Users
      /\ sub \in [Jti -> Users \cup {None}]
      /\ parent \in [Jti -> Jti \cup {None}]
      /\ by \in [Jti -> Handlers \cup {None}]
      /\ req \in [Handlers -> Request]
  BY DEF TypeOK
<1>1. ASSUME NEW h \in Handlers, LoginFind(h) PROVE IInv'
  <2>f. /\ \A g \in Handlers \ {h} : req'[g] = req[g]
        /\ req[h].pc = "idle"
        /\ req'[h].pc = "login" /\ req'[h].who \in Users
        /\ req'[h].found = {}
        /\ live' = live /\ sub' = sub /\ parent' = parent /\ by' = by
    BY <1>1, <1>v DEF LoginFind, Goto, Return, Issued, Unused, Idle, Request, KeysOf
  <2>1. BlankUntilIssued' /\ PredecessorsEnded' /\ SuccessorsOverlap'
    BY <2>f, <1>v DEF BlankUntilIssued, PredecessorsEnded, SuccessorsOverlap, Issued, Unused
  <2>2. VerifiedRequests' /\ AcceptedHasNoSuccessorYet'
    BY <2>f, <1>v DEF VerifiedRequests, AcceptedHasNoSuccessorYet, PredecessorsEnded,
       Refreshing, Accepted, Issued, Unused, Idle
  <2>3. LogoutProgress'
    BY <2>f, <1>v DEF LogoutProgress, Ending, KeysOf, Issued, Unused, Idle
  <2> QED
    BY <1>t, <2>1, <2>2, <2>3
<1>2. ASSUME NEW h \in Handlers, LoginStore(h) PROVE IInv'
  <2>1. IssueSession(h, req[h].who, None)
    BY <1>2 DEF LoginStore
  <2>2. req[h].who \in Users /\ None \in Jti \cup {None}
    BY <1>2, <1>v DEF LoginStore, Request, VerifiedRequests, Refreshing, Issued, Unused
  <2> QED
    BY <2>1, <2>2, <1>t, IssueKeeps
<1>3. ASSUME NEW h \in Handlers, RefreshVerify(h) PROVE IInv'
  <2>f. /\ \A g \in Handlers \ {h} : req'[g] = req[g]
        /\ req[h].pc = "idle"
        /\ req'[h].pc = "get" /\ req'[h].jti \in Issued
        /\ req'[h].who = sub[req'[h].jti] /\ req'[h].found = {}
        /\ live' = live /\ sub' = sub /\ parent' = parent /\ by' = by
    BY <1>3, <1>v DEF RefreshVerify, Goto, Return, Issued, Unused, Idle, Request, KeysOf
  <2>1. BlankUntilIssued' /\ PredecessorsEnded' /\ SuccessorsOverlap'
    BY <2>f, <1>v DEF BlankUntilIssued, PredecessorsEnded, SuccessorsOverlap, Issued, Unused
  <2>2. VerifiedRequests' /\ AcceptedHasNoSuccessorYet'
    BY <2>f, <1>v DEF VerifiedRequests, AcceptedHasNoSuccessorYet, PredecessorsEnded,
       Refreshing, Accepted, Issued, Unused, Idle
  <2>3. LogoutProgress'
    BY <2>f, <1>v DEF LogoutProgress, Ending, KeysOf, Issued, Unused, Idle
  <2> QED
    BY <1>t, <2>1, <2>2, <2>3
<1>4. ASSUME NEW h \in Handlers, RefreshGet(h) PROVE IInv'
  <2>f. /\ \A g \in Handlers \ {h} : req'[g] = req[g]
        /\ req[h].pc = "get"
        /\ \/ req'[h] = Idle
           \/ /\ req'[h].pc = "find" /\ req[h].jti \in live
              /\ req'[h].who = req[h].who /\ req'[h].jti = req[h].jti
              /\ req'[h].toScan = req[h].toScan /\ req'[h].found = req[h].found
              /\ req'[h].must = req[h].must /\ req'[h].failed = req[h].failed
        /\ live' = live /\ sub' = sub /\ parent' = parent /\ by' = by
    <3>1. CASE req[h].jti \in live
      BY <1>4, <1>v, <3>1 DEF RefreshGet, Goto, Request
    <3>2. CASE ~(req[h].jti \in live)
      BY <1>4, <1>v, <3>2 DEF RefreshGet, Return
    <3> QED
      BY <3>1, <3>2
  <2>1. BlankUntilIssued' /\ PredecessorsEnded' /\ SuccessorsOverlap'
    BY <2>f, <1>v DEF BlankUntilIssued, PredecessorsEnded, SuccessorsOverlap, Issued, Unused
  <2>2. VerifiedRequests' /\ AcceptedHasNoSuccessorYet'
    BY <2>f, <1>v DEF VerifiedRequests, AcceptedHasNoSuccessorYet, PredecessorsEnded,
       Refreshing, Accepted, Issued, Unused, Idle
  <2>3. LogoutProgress'
    BY <2>f, <1>v DEF LogoutProgress, Ending, KeysOf, Issued, Unused, Idle
  <2> QED
    BY <1>t, <2>1, <2>2, <2>3
<1>5. ASSUME NEW h \in Handlers, RefreshFind(h) PROVE IInv'
  <2>f. /\ \A g \in Handlers \ {h} : req'[g] = req[g]
        /\ req[h].pc = "find"
        /\ \/ req'[h] = Idle
           \/ /\ req'[h].pc = "del"
              /\ req'[h].who = req[h].who /\ req'[h].jti = req[h].jti
              /\ req'[h].toScan = req[h].toScan /\ req'[h].found = req[h].found
              /\ req'[h].must = req[h].must /\ req'[h].failed = req[h].failed
        /\ live' = live /\ sub' = sub /\ parent' = parent /\ by' = by
    <3>1. CASE req[h].who \in accounts
      BY <1>5, <1>v, <3>1 DEF RefreshFind, Goto, Request
    <3>2. CASE ~(req[h].who \in accounts)
      BY <1>5, <1>v, <3>2 DEF RefreshFind, Return
    <3> QED
      BY <3>1, <3>2
  <2>1. BlankUntilIssued' /\ PredecessorsEnded' /\ SuccessorsOverlap'
    BY <2>f, <1>v DEF BlankUntilIssued, PredecessorsEnded, SuccessorsOverlap, Issued, Unused
  <2>2. VerifiedRequests' /\ AcceptedHasNoSuccessorYet'
    BY <2>f, <1>v DEF VerifiedRequests, AcceptedHasNoSuccessorYet, PredecessorsEnded,
       Refreshing, Accepted, Issued, Unused, Idle
  <2>3. LogoutProgress'
    BY <2>f, <1>v DEF LogoutProgress, Ending, KeysOf, Issued, Unused, Idle
  <2> QED
    BY <1>t, <2>1, <2>2, <2>3
<1>6. ASSUME NEW h \in Handlers, RefreshDel(h) PROVE IInv'
  <2>f. /\ \A g \in Handlers \ {h} : req'[g] = req[g]
        /\ req[h].pc = "del"
        /\ req'[h].pc = "rotate" /\ req[h].pc # "rotate"
        /\ req'[h].who = req[h].who /\ req'[h].jti = req[h].jti
        /\ req'[h].toScan = req[h].toScan /\ req'[h].found = req[h].found
        /\ req'[h].must = req[h].must /\ req'[h].failed = req[h].failed
        /\ live' = live \ {req[h].jti} /\ sub' = sub /\ parent' = parent /\ by' = by
    BY <1>6, <1>v DEF RefreshDel, Goto, Return, Issued, Unused, Idle, Request, KeysOf
  <2>1. BlankUntilIssued' /\ PredecessorsEnded' /\ SuccessorsOverlap'
    BY <2>f, <1>v DEF BlankUntilIssued, PredecessorsEnded, SuccessorsOverlap, Issued, Unused
  <2>2. VerifiedRequests' /\ AcceptedHasNoSuccessorYet'
    BY <2>f, <1>v DEF VerifiedRequests, AcceptedHasNoSuccessorYet, PredecessorsEnded,
       Refreshing, Accepted, Issued, Unused, Idle
  <2>3. LogoutProgress'
    BY <2>f, <1>v DEF LogoutProgress, Ending, KeysOf, Issued, Unused, Idle
  <2> QED
    BY <1>t, <2>1, <2>2, <2>3
<1>7. ASSUME NEW h \in Handlers, RefreshStore(h) PROVE IInv'
  <2>1. IssueSession(h, req[h].who, req[h].jti)
    BY <1>7 DEF RefreshStore
  <2>2. req[h].who \in Users /\ req[h].jti \in Jti \cup {None}
    BY <1>7, <1>v DEF RefreshStore, Request, VerifiedRequests, Refreshing, Issued, Unused
  <2>3. req[h].jti \in Issued \ live /\ sub[req[h].jti] = req[h].who
    BY <1>7 DEF RefreshStore, VerifiedRequests, Refreshing
  <2>4. \A j \in Jti : parent[j] = req[h].jti => by[j] # h
    BY <1>7 DEF RefreshStore, AcceptedHasNoSuccessorYet, Accepted
  <2> QED
    BY <2>1, <2>2, <2>3, <2>4, <1>t, IssueKeeps
<1>8. ASSUME NEW h \in Handlers, LogoutVerify(h) PROVE IInv'
  <2>f. /\ \A g \in Handlers \ {h} : req'[g] = req[g]
        /\ req[h].pc = "idle"
        /\ req'[h].pc = "purge" /\ req'[h].jti \in Issued
        /\ req'[h].who = sub[req'[h].jti]
        /\ req'[h].toScan = {} /\ req'[h].found = {req'[h].jti}
        /\ req'[h].must = {req'[h].jti} \cap live
        /\ live' = live /\ sub' = sub /\ parent' = parent /\ by' = by
    BY <1>8, <1>v DEF LogoutVerify, Goto, Return, Issued, Unused, Idle, Request, KeysOf
  <2>1. BlankUntilIssued' /\ PredecessorsEnded' /\ SuccessorsOverlap'
    BY <2>f, <1>v DEF BlankUntilIssued, PredecessorsEnded, SuccessorsOverlap, Issued, Unused
  <2>2. VerifiedRequests' /\ AcceptedHasNoSuccessorYet'
    BY <2>f, <1>v DEF VerifiedRequests, AcceptedHasNoSuccessorYet, PredecessorsEnded,
       Refreshing, Accepted, Issued, Unused, Idle
  <2>3. LogoutProgress'
    BY <2>f, <1>v DEF LogoutProgress, Ending, KeysOf, Issued, Unused, Idle
  <2> QED
    BY <1>t, <2>1, <2>2, <2>3
<1>9. ASSUME NEW h \in Handlers, LogoutAllVerify(h) PROVE IInv'
  <2>f. /\ \A g \in Handlers \ {h} : req'[g] = req[g]
        /\ req[h].pc = "idle"
        /\ req'[h].pc = "scan" /\ req'[h].who \in Users
        /\ req'[h].toScan = Jti /\ req'[h].found = {}
        /\ req'[h].must = KeysOf(req'[h].who)
        /\ live' = live /\ sub' = sub /\ parent' = parent /\ by' = by
    BY <1>9, <1>v DEF LogoutAllVerify, Goto, Return, Issued, Unused, Idle, Request, KeysOf
  <2>1. BlankUntilIssued' /\ PredecessorsEnded' /\ SuccessorsOverlap'
    BY <2>f, <1>v DEF BlankUntilIssued, PredecessorsEnded, SuccessorsOverlap, Issued, Unused
  <2>2. VerifiedRequests' /\ AcceptedHasNoSuccessorYet'
    BY <2>f, <1>v DEF VerifiedRequests, AcceptedHasNoSuccessorYet, PredecessorsEnded,
       Refreshing, Accepted, Issued, Unused, Idle
  <2>3. LogoutProgress'
    BY <2>f, <1>v DEF LogoutProgress, Ending, KeysOf, Issued, Unused, Idle
  <2> QED
    BY <1>t, <2>1, <2>2, <2>3
<1>10. ASSUME NEW h \in Handlers, LogoutAllVisit(h) PROVE IInv'
  <2>p. PICK j \in req[h].toScan :
          req' = [req EXCEPT ![h].toScan = @ \ {j},
                             ![h].found  = @ \cup ({j} \cap KeysOf(req[h].who))]
    BY <1>10 DEF LogoutAllVisit
  <2>f. /\ \A g \in Handlers \ {h} : req'[g] = req[g]
        /\ req[h].pc = "scan"
        /\ req'[h].pc = "scan" /\ req'[h].must = req[h].must
        /\ req'[h].failed = req[h].failed
        /\ req'[h].who = req[h].who /\ req'[h].jti = req[h].jti
        /\ req'[h].toScan = req[h].toScan \ {j}
        /\ req'[h].found = req[h].found \cup ({j} \cap KeysOf(req[h].who))
        /\ live' = live /\ sub' = sub /\ parent' = parent /\ by' = by
    BY <1>10, <1>v, <2>p DEF LogoutAllVisit, Goto, Return, Issued, Unused, Idle, Request, KeysOf
  <2>1. BlankUntilIssued' /\ PredecessorsEnded' /\ SuccessorsOverlap'
    BY <2>f, <1>v DEF BlankUntilIssued, PredecessorsEnded, SuccessorsOverlap, Issued, Unused
  <2>2. VerifiedRequests' /\ AcceptedHasNoSuccessorYet'
    BY <2>f, <1>v DEF VerifiedRequests, AcceptedHasNoSuccessorYet, PredecessorsEnded,
       Refreshing, Accepted, Issued, Unused, Idle
  <2>3. LogoutProgress'
    BY <2>f, <1>v DEF LogoutProgress, Ending, KeysOf, Issued, Unused, Idle
  <2> QED
    BY <1>t, <2>1, <2>2, <2>3
<1>11. ASSUME NEW h \in Handlers, LogoutAllScanned(h) PROVE IInv'
  <2>f. /\ \A g \in Handlers \ {h} : req'[g] = req[g]
        /\ req[h].pc = "scan"
        /\ req[h].toScan = {}
        /\ req'[h].pc = "purge" /\ req[h].pc # "purge"
        /\ req'[h].who = req[h].who /\ req'[h].jti = req[h].jti
        /\ req'[h].toScan = req[h].toScan /\ req'[h].found = req[h].found
        /\ req'[h].must = req[h].must /\ req'[h].failed = req[h].failed
        /\ live' = live /\ sub' = sub /\ parent' = parent /\ by' = by
    BY <1>11, <1>v DEF LogoutAllScanned, Goto, Return, Issued, Unused, Idle, Request, KeysOf
  <2>1. BlankUntilIssued' /\ PredecessorsEnded' /\ SuccessorsOverlap'
    BY <2>f, <1>v DEF BlankUntilIssued, PredecessorsEnded, SuccessorsOverlap, Issued, Unused
  <2>2. VerifiedRequests' /\ AcceptedHasNoSuccessorYet'
    BY <2>f, <1>v DEF VerifiedRequests, AcceptedHasNoSuccessorYet, PredecessorsEnded,
       Refreshing, Accepted, Issued, Unused, Idle
  <2>3. LogoutProgress'
    BY <2>f, <1>v DEF LogoutProgress, Ending, KeysOf, Issued, Unused, Idle
  <2> QED
    BY <1>t, <2>1, <2>2, <2>3
<1>12. ASSUME NEW h \in Handlers, PurgeDel(h) PROVE IInv'
  <2>p. PICK j \in req[h].found :
          live' = live \ {j} /\ req' = [req EXCEPT ![h].found = @ \ {j}]
    BY <1>12 DEF PurgeDel
  <2>f. /\ \A g \in Handlers \ {h} : req'[g] = req[g]
        /\ req[h].pc = "purge"
        /\ req'[h].pc = "purge" /\ req'[h].must = req[h].must
        /\ req'[h].failed = req[h].failed
        /\ req'[h].who = req[h].who /\ req'[h].jti = req[h].jti
        /\ req'[h].toScan = req[h].toScan
        /\ req'[h].found = req[h].found \ {j}
        /\ live' = live \ {j} /\ sub' = sub /\ parent' = parent /\ by' = by
    BY <1>12, <1>v, <2>p DEF PurgeDel, Goto, Return, Issued, Unused, Idle, Request, KeysOf
  <2>1. BlankUntilIssued' /\ PredecessorsEnded' /\ SuccessorsOverlap'
    BY <2>f, <1>v DEF BlankUntilIssued, PredecessorsEnded, SuccessorsOverlap, Issued, Unused
  <2>2. VerifiedRequests' /\ AcceptedHasNoSuccessorYet'
    BY <2>f, <1>v DEF VerifiedRequests, AcceptedHasNoSuccessorYet, PredecessorsEnded,
       Refreshing, Accepted, Issued, Unused, Idle
  <2>3. LogoutProgress'
    BY <2>f, <1>v DEF LogoutProgress, Ending, KeysOf, Issued, Unused, Idle
  <2> QED
    BY <1>t, <2>1, <2>2, <2>3
<1>pf. ASSUME NEW h \in Handlers, PurgeDelFails(h) PROVE IInv'
  <2>p. PICK j \in req[h].found :
          req' = [req EXCEPT ![h].found = @ \ {j}, ![h].failed = @ \cup ({j} \cap live)]
    BY <1>pf DEF PurgeDelFails
  <2>f. /\ \A g \in Handlers \ {h} : req'[g] = req[g]
        /\ req[h].pc = "purge"
        /\ req'[h].pc = "purge" /\ req'[h].must = req[h].must
        /\ req'[h].failed = req[h].failed \cup ({j} \cap live)
        /\ req'[h].who = req[h].who /\ req'[h].jti = req[h].jti
        /\ req'[h].toScan = req[h].toScan
        /\ req'[h].found = req[h].found \ {j}
        /\ live' = live /\ sub' = sub /\ parent' = parent /\ by' = by
    BY <1>pf, <1>v, <2>p DEF PurgeDelFails, Request
  <2>1. BlankUntilIssued' /\ PredecessorsEnded' /\ SuccessorsOverlap'
    BY <2>f, <1>v DEF BlankUntilIssued, PredecessorsEnded, SuccessorsOverlap, Issued, Unused
  <2>2. VerifiedRequests' /\ AcceptedHasNoSuccessorYet'
    BY <2>f, <1>v DEF VerifiedRequests, AcceptedHasNoSuccessorYet, PredecessorsEnded,
       Refreshing, Accepted, Issued, Unused, Idle
  <2>3. LogoutProgress'
    BY <2>f, <1>v DEF LogoutProgress, Ending, KeysOf, Issued, Unused, Idle
  <2> QED
    BY <1>t, <2>1, <2>2, <2>3
<1>13. ASSUME NEW h \in Handlers, Purged(h) PROVE IInv'
  <2>f. /\ \A g \in Handlers \ {h} : req'[g] = req[g]
        /\ req[h].pc = "purge"
        /\ req[h].found = {}
        /\ req'[h].pc = "done" /\ req[h].pc # "done"
        /\ req'[h].who = req[h].who /\ req'[h].jti = req[h].jti
        /\ req'[h].toScan = req[h].toScan /\ req'[h].found = req[h].found
        /\ req'[h].must = req[h].must /\ req'[h].failed = req[h].failed
        /\ live' = live /\ sub' = sub /\ parent' = parent /\ by' = by
    BY <1>13, <1>v DEF Purged, Goto, Return, Issued, Unused, Idle, Request, KeysOf
  <2>1. BlankUntilIssued' /\ PredecessorsEnded' /\ SuccessorsOverlap'
    BY <2>f, <1>v DEF BlankUntilIssued, PredecessorsEnded, SuccessorsOverlap, Issued, Unused
  <2>2. VerifiedRequests' /\ AcceptedHasNoSuccessorYet'
    BY <2>f, <1>v DEF VerifiedRequests, AcceptedHasNoSuccessorYet, PredecessorsEnded,
       Refreshing, Accepted, Issued, Unused, Idle
  <2>3. LogoutProgress'
    BY <2>f, <1>v DEF LogoutProgress, Ending, KeysOf, Issued, Unused, Idle
  <2> QED
    BY <1>t, <2>1, <2>2, <2>3
<1>14. ASSUME NEW h \in Handlers, LogoutAnswer(h) PROVE IInv'
  <2>f. /\ \A g \in Handlers \ {h} : req'[g] = req[g]
        /\ req'[h] = Idle
        /\ live' = live /\ sub' = sub /\ parent' = parent /\ by' = by
    BY <1>14, <1>v DEF LogoutAnswer, Goto, Return, Issued, Unused, Idle, Request, KeysOf
  <2>1. BlankUntilIssued' /\ PredecessorsEnded' /\ SuccessorsOverlap'
    BY <2>f, <1>v DEF BlankUntilIssued, PredecessorsEnded, SuccessorsOverlap, Issued, Unused
  <2>2. VerifiedRequests' /\ AcceptedHasNoSuccessorYet'
    BY <2>f, <1>v DEF VerifiedRequests, AcceptedHasNoSuccessorYet, PredecessorsEnded,
       Refreshing, Accepted, Issued, Unused, Idle
  <2>3. LogoutProgress'
    BY <2>f, <1>v DEF LogoutProgress, Ending, KeysOf, Issued, Unused, Idle
  <2> QED
    BY <1>t, <2>1, <2>2, <2>3
<1>15. ASSUME NEW h \in Handlers, Fail(h) PROVE IInv'
  <2>f. /\ \A g \in Handlers \ {h} : req'[g] = req[g]
        /\ req'[h] = Idle
        /\ live' = live /\ sub' = sub /\ parent' = parent /\ by' = by
    BY <1>15, <1>v DEF Fail, Goto, Return, Issued, Unused, Idle, Request, KeysOf
  <2>1. BlankUntilIssued' /\ PredecessorsEnded' /\ SuccessorsOverlap'
    BY <2>f, <1>v DEF BlankUntilIssued, PredecessorsEnded, SuccessorsOverlap, Issued, Unused
  <2>2. VerifiedRequests' /\ AcceptedHasNoSuccessorYet'
    BY <2>f, <1>v DEF VerifiedRequests, AcceptedHasNoSuccessorYet, PredecessorsEnded,
       Refreshing, Accepted, Issued, Unused, Idle
  <2>3. LogoutProgress'
    BY <2>f, <1>v DEF LogoutProgress, Ending, KeysOf, Issued, Unused, Idle
  <2> QED
    BY <1>t, <2>1, <2>2, <2>3
<1>16. ASSUME NEW j \in Jti, KeyExpires(j) PROVE IInv'
  BY <1>16, <1>t DEF KeyExpires, BlankUntilIssued, VerifiedRequests, PredecessorsEnded,
     AcceptedHasNoSuccessorYet, SuccessorsOverlap, LogoutProgress,
     Refreshing, Accepted, Ending, Unused, Issued
<1>17. ASSUME NEW u \in Users, RemoveAccount(u) PROVE IInv'
  BY <1>17, <1>t DEF RemoveAccount, BlankUntilIssued, VerifiedRequests, PredecessorsEnded,
     AcceptedHasNoSuccessorYet, SuccessorsOverlap, LogoutProgress,
     Refreshing, Accepted, Ending, Unused, Issued
<1>18. CASE UNCHANGED vars
  BY <1>18, <1>t DEF vars, BlankUntilIssued, VerifiedRequests, PredecessorsEnded,
     AcceptedHasNoSuccessorYet, SuccessorsOverlap, LogoutProgress,
     Refreshing, Accepted, Ending, Unused, Issued
<1> QED
  BY <1>1, <1>2, <1>3, <1>4, <1>5, <1>6, <1>7, <1>8, <1>9, <1>10, <1>11, <1>12,
     <1>pf, <1>13, <1>14, <1>15, <1>16, <1>17, <1>18 DEF Next, Step

(* The strengthened invariant holds in every reachable state.              *)
THEOREM Invariance == Spec => []IInv
  BY InvInit, InvStep, PTL DEF Spec

(* Two successors of one refresh token were issued by overlapping requests:*)
(* a rotated token presented again later is never accepted.                *)
THEOREM NoReplay == Spec => []SuccessorsOverlap
<1>1. IInv => SuccessorsOverlap
  BY DEF IInv
<1> QED
  BY <1>1, Invariance, PTL

(* What a logout or logoutAll was to end has ended when it answers, unless *)
(* its DEL failed (auth.service.ts:115-127, 157-172), whatever refreshes   *)
(* and logins ran beside it.                                               *)
THEOREM LogoutCorrect == Spec => []LogoutMissesOnlyErrors
<1>1. IInv => LogoutMissesOnlyErrors
  BY DEF IInv, LogoutProgress, LogoutMissesOnlyErrors, Ending
<1> QED
  BY <1>1, Invariance, PTL

-----------------------------------------------------------------------------
(* While a logout runs, its slot issues nothing, and what it is to end has *)
(* no successor before it ends: a successor comes from another slot.       *)
GrownElsewhere ==
  /\ \A j \in Issued : by[j] \in Handlers
  /\ \A h \in Handlers : Ending(h) =>
       \A j \in Jti : parent[j] \in req[h].must => by[j] # h

LEMMA IssueGrows ==
  ASSUME IInv, GrownElsewhere, NEW h \in Handlers, ~Ending(h), NEW u, NEW from,
         IssueSession(h, u, from)
  PROVE  GrownElsewhere'
<1>1. PICK n \in Unused : /\ sub' = [sub EXCEPT ![n] = u]
                          /\ parent' = [parent EXCEPT ![n] = from]
                          /\ by' = [by EXCEPT ![n] = h]
                          /\ req' = [req EXCEPT ![h] = Idle]
  BY DEF IssueSession, Return
<1>2. /\ sub \in [Jti -> Users \cup {None}] /\ parent \in [Jti -> Jti \cup {None}]
      /\ by \in [Jti -> Handlers \cup {None}] /\ req \in [Handlers -> Request]
  BY DEF IInv, TypeOK
<1>3. /\ n \in Jti /\ by'[n] = h /\ req'[h] = Idle
      /\ \A j \in Jti \ {n} : sub'[j] = sub[j] /\ parent'[j] = parent[j] /\ by'[j] = by[j]
      /\ \A g \in Handlers \ {h} : req'[g] = req[g]
  BY <1>1, <1>2 DEF Unused
<1>4. \A j \in Issued' : by'[j] \in Handlers
  <2>1. \A j \in Issued' : j \in Jti /\ (j = n \/ j \in Issued)
    BY <1>3 DEF Issued, Unused
  <2> QED
    BY <1>3, <2>1 DEF GrownElsewhere
<1>5. ASSUME NEW g \in Handlers, Ending(g)', NEW j \in Jti, parent'[j] \in req'[g].must
      PROVE  by'[j] # g
  <2>1. g # h /\ req'[g] = req[g] /\ Ending(g)
    BY <1>3, <1>5 DEF Ending, Idle
  <2>2. CASE j = n
    BY <1>3, <2>1, <2>2
  <2>3. CASE j # n
    BY <1>3, <1>5, <2>1, <2>3 DEF GrownElsewhere
  <2> QED
    BY <2>2, <2>3
<1> QED
  BY <1>4, <1>5 DEF GrownElsewhere

LEMMA GrownStep == IInv /\ GrownElsewhere /\ [Next]_vars => GrownElsewhere'
<1> SUFFICES ASSUME IInv, GrownElsewhere, [Next]_vars PROVE GrownElsewhere'
  OBVIOUS
<1>0. req \in [Handlers -> Request] /\ live \subseteq Jti
  BY DEF IInv, TypeOK
<1>1. ASSUME NEW h \in Handlers, LoginStore(h) \/ RefreshStore(h) PROVE GrownElsewhere'
  BY <1>1, IssueGrows DEF LoginStore, RefreshStore, Ending
<1>2. ASSUME UNCHANGED <<sub, parent, by>>,
             \A g \in Handlers : Ending(g)' => /\ Ending(g)
                                              /\ req'[g].must = req[g].must
      PROVE  GrownElsewhere'
  BY <1>2 DEF GrownElsewhere, Issued, Unused
<1>3. ASSUME NEW h \in Handlers, LogoutVerify(h) \/ LogoutAllVerify(h) PROVE GrownElsewhere'
  <2>1. /\ UNCHANGED <<sub, parent, by>> /\ req'[h].must \subseteq live
        /\ \A g \in Handlers \ {h} : req'[g] = req[g]
    BY <1>0, <1>3 DEF LogoutVerify, LogoutAllVerify, KeysOf
  <2>2. \A j \in Jti : parent[j] \notin req'[h].must
    BY <1>0, <2>1, NoneIsNoId DEF IInv, PredecessorsEnded
  <2> QED
    BY <2>1, <2>2 DEF GrownElsewhere, Ending, Issued, Unused
<1>4. ASSUME NEW h \in Handlers, LoginFind(h) \/ RefreshVerify(h) PROVE GrownElsewhere'
  <2>1. UNCHANGED <<sub, parent, by>> /\ \A g \in Handlers \ {h} : req'[g] = req[g]
    BY <1>0, <1>4 DEF LoginFind, RefreshVerify
  <2>2. ~Ending(h)'
    BY <1>0, <1>4 DEF LoginFind, RefreshVerify, Ending, Idle
  <2> QED
    BY <1>2, <2>1, <2>2 DEF Ending
<1>5. ASSUME NEW h \in Handlers, RefreshGet(h) \/ RefreshFind(h) \/ RefreshDel(h) PROVE GrownElsewhere'
  <2>1. UNCHANGED <<sub, parent, by>> /\ \A g \in Handlers \ {h} : req'[g] = req[g]
    BY <1>0, <1>5 DEF RefreshGet, RefreshFind, RefreshDel, Goto, Return
  <2>2. ~Ending(h)'
    BY <1>0, <1>5 DEF RefreshGet, RefreshFind, RefreshDel, Goto, Return, Ending, Idle, Request
  <2> QED
    BY <1>2, <2>1, <2>2 DEF Ending
<1>6. ASSUME NEW h \in Handlers, \/ LogoutAllVisit(h) \/ LogoutAllScanned(h)
                                \/ PurgeDel(h) \/ PurgeDelFails(h) \/ Purged(h)
      PROVE  GrownElsewhere'
  <2>1. UNCHANGED <<sub, parent, by>> /\ \A g \in Handlers \ {h} : req'[g] = req[g]
    BY <1>0, <1>6 DEF LogoutAllVisit, LogoutAllScanned, PurgeDel, PurgeDelFails, Purged, Goto
  <2>m. req'[h].must = req[h].must
    <3>1. CASE LogoutAllVisit(h)
      BY <1>0, <3>1 DEF LogoutAllVisit, Request
    <3>2. CASE PurgeDel(h) \/ PurgeDelFails(h)
      BY <1>0, <3>2 DEF PurgeDel, PurgeDelFails, Request
    <3>3. CASE LogoutAllScanned(h) \/ Purged(h)
      BY <1>0, <3>3 DEF LogoutAllScanned, Purged, Goto, Request
    <3> QED
      BY <1>6, <3>1, <3>2, <3>3
  <2>2. Ending(h)
    BY <1>6 DEF LogoutAllVisit, LogoutAllScanned, PurgeDel, PurgeDelFails, Purged, Ending
  <2> QED
    BY <1>2, <2>1, <2>m, <2>2 DEF Ending
<1>7. ASSUME NEW h \in Handlers, LogoutAnswer(h) \/ Fail(h) PROVE GrownElsewhere'
  <2>1. UNCHANGED <<sub, parent, by>> /\ \A g \in Handlers \ {h} : req'[g] = req[g]
    BY <1>0, <1>7 DEF LogoutAnswer, Fail, Return
  <2>2. ~Ending(h)'
    BY <1>0, <1>7 DEF LogoutAnswer, Fail, Return, Ending, Idle
  <2> QED
    BY <1>2, <2>1, <2>2 DEF Ending
<1>8. ASSUME NEW j \in Jti, KeyExpires(j) PROVE GrownElsewhere'
  BY <1>2, <1>8 DEF KeyExpires, Ending
<1>9. ASSUME NEW u \in Users, RemoveAccount(u) PROVE GrownElsewhere'
  BY <1>2, <1>9 DEF RemoveAccount, Ending
<1>10. CASE UNCHANGED vars
  BY <1>2, <1>10 DEF vars, Ending
<1> QED
  BY <1>1, <1>3, <1>4, <1>5, <1>6, <1>7, <1>8, <1>9, <1>10 DEF Next, Step

LEMMA GrownAlways == Spec => [](IInv /\ GrownElsewhere)
<1>1. Init => GrownElsewhere
  BY DEF Init, GrownElsewhere, Issued, Unused, Ending, Idle
<1> QED
  BY <1>1, InvInit, InvStep, GrownStep, PTL DEF Spec

(* auth.controller.ts:217 and 191 are wrong by overlapping refreshes only: *)
(* a session that grew out of one a logout has ended was issued by another *)
(* request slot while the logout ran (auth.service.ts:94-110, 141-174).    *)
THEOREM SurvivorsOverlap ==
  Spec => [](\A h \in Handlers : req[h].pc = "done" =>
               \A k \in live : parent[k] \in req[h].must => by[k] \in Handlers \ {h})
<1> DEFINE Survivors ==
      \A h \in Handlers : req[h].pc = "done" =>
        \A k \in live : parent[k] \in req[h].must => by[k] \in Handlers \ {h}
<1>1. IInv /\ GrownElsewhere => Survivors
  <2> SUFFICES ASSUME IInv, GrownElsewhere, NEW h \in Handlers, req[h].pc = "done",
                      NEW k \in live, parent[k] \in req[h].must
               PROVE  by[k] \in Handlers \ {h}
    OBVIOUS
  <2>1. k \in Jti /\ k \in Issued
    BY DEF IInv, TypeOK, BlankUntilIssued, Issued
  <2> QED
    BY <2>1 DEF GrownElsewhere, Ending
<1> HIDE DEF Survivors
<1>2. Spec => []Survivors
  BY <1>1, GrownAlways, PTL
<1> QED
  BY <1>2 DEF Survivors

-----------------------------------------------------------------------------
(* While a logout runs, the keys of its account that were not there when   *)
(* it began were stored by other slots; and its own token's key does not   *)
(* come back.                                                              *)
StoredBeside ==
  \A h \in Handlers : Ending(h) =>
    /\ req[h].jti = None =>
         \A k \in KeysOf(req[h].who) : k \in req[h].must \/ by[k] \in Handlers \ {h}
    /\ req[h].jti # None =>
         req[h].jti \in Issued /\ (req[h].jti \in live => req[h].jti \in req[h].must)

LEMMA StoredInit == Init => StoredBeside
  BY DEF Init, StoredBeside, Ending, Idle

LEMMA StoredStep == IInv /\ StoredBeside /\ [Next]_vars => StoredBeside'
<1> SUFFICES ASSUME IInv, StoredBeside, [Next]_vars PROVE StoredBeside'
  OBVIOUS
<1> USE NoneIsNoId
<1>v. /\ req \in [Handlers -> Request] /\ live \subseteq Jti
      /\ sub \in [Jti -> Users \cup {None}] /\ by \in [Jti -> Handlers \cup {None}]
  BY DEF IInv, TypeOK
<1>1. ASSUME NEW h \in Handlers, LoginStore(h) \/ RefreshStore(h) PROVE StoredBeside'
  <2>1. PICK n \in Unused : /\ sub' = [sub EXCEPT ![n] = req[h].who]
                            /\ by' = [by EXCEPT ![n] = h]
                            /\ live' = live \cup {n}
                            /\ req' = [req EXCEPT ![h] = Idle]
    BY <1>1 DEF LoginStore, RefreshStore, IssueSession, Return
  <2>2. /\ n \in Jti /\ by'[n] = h /\ req'[h] = Idle
        /\ \A j \in Jti \ {n} : sub'[j] = sub[j] /\ by'[j] = by[j]
        /\ \A g \in Handlers \ {h} : req'[g] = req[g]
    BY <1>v, <2>1 DEF Unused
  <2>3. Issued \subseteq Issued' /\ n \notin Issued
    <3>1. req[h].who # None
      BY <1>1, <1>v DEF LoginStore, RefreshStore, IInv, VerifiedRequests, Refreshing, Issued, Unused
    <3> QED
      BY <1>v, <2>1, <2>2, <3>1 DEF Issued, Unused
  <2> SUFFICES ASSUME NEW g \in Handlers, Ending(g)'
               PROVE  /\ req'[g].jti = None =>
                           \A k \in KeysOf(req[g].who)' :
                             k \in req'[g].must \/ by'[k] \in Handlers \ {g}
                      /\ req'[g].jti # None =>
                           /\ req'[g].jti \in Issued'
                           /\ (req'[g].jti \in live' => req'[g].jti \in req'[g].must)
    BY DEF StoredBeside
  <2>4. g # h /\ req'[g] = req[g] /\ Ending(g)
    BY <2>2 DEF Ending, Idle
  <2>5. ASSUME req[g].jti = None, NEW k \in KeysOf(req[g].who)'
        PROVE  k \in req[g].must \/ by'[k] \in Handlers \ {g}
    <3>1. k \in live \cup {n} /\ sub'[k] = req[g].who
      BY <2>1, <2>4, <2>5 DEF KeysOf
    <3>2. CASE k = n
      BY <2>2, <2>4, <3>2
    <3>3. CASE k # n
      <4>1. k \in KeysOf(req[g].who) /\ by'[k] = by[k]
        BY <1>v, <2>2, <3>1, <3>3 DEF KeysOf
      <4> QED
        BY <2>4, <2>5, <4>1 DEF StoredBeside
    <3> QED
      BY <3>2, <3>3
  <2>6. ASSUME req[g].jti # None
        PROVE  /\ req[g].jti \in Issued'
               /\ (req[g].jti \in live' => req[g].jti \in req[g].must)
    BY <2>1, <2>3, <2>4, <2>6 DEF StoredBeside
  <2> QED
    BY <2>4, <2>5, <2>6
<1>2. ASSUME UNCHANGED <<sub, by>>, live' \subseteq live,
             \A g \in Handlers : Ending(g)' =>
               /\ Ending(g) /\ req'[g].must = req[g].must
               /\ req'[g].jti = req[g].jti /\ req'[g].who = req[g].who
      PROVE  StoredBeside'
  BY <1>2 DEF StoredBeside, KeysOf, Issued, Unused
<1>3. ASSUME NEW h \in Handlers, LogoutVerify(h) PROVE StoredBeside'
  <2>1. PICK j \in Issued :
          req' = [req EXCEPT ![h] =
                    [pc |-> "purge", who |-> sub[j], jti |-> j, toScan |-> {},
                     found |-> {j}, must |-> {j} \cap live, failed |-> {}]]
    BY <1>3 DEF LogoutVerify
  <2>2. /\ req'[h].jti = j /\ req'[h].must = {j} \cap live /\ j # None
        /\ \A g \in Handlers \ {h} : req'[g] = req[g]
    BY <1>v, <2>1 DEF Issued
  <2>3. UNCHANGED <<live, sub, by>>
    BY <1>3 DEF LogoutVerify
  <2> QED
    BY <2>2, <2>3 DEF StoredBeside, Ending, KeysOf, Issued, Unused
<1>4. ASSUME NEW h \in Handlers, LogoutAllVerify(h) PROVE StoredBeside'
  <2>1. /\ req'[h].jti = None /\ req'[h].must = KeysOf(req'[h].who)
        /\ \A g \in Handlers \ {h} : req'[g] = req[g]
    BY <1>v, <1>4 DEF LogoutAllVerify
  <2>2. UNCHANGED <<live, sub, by>>
    BY <1>4 DEF LogoutAllVerify
  <2> QED
    BY <2>1, <2>2 DEF StoredBeside, Ending, KeysOf, Issued, Unused
<1>5. ASSUME NEW h \in Handlers,
             \/ LoginFind(h) \/ RefreshVerify(h) \/ RefreshGet(h) \/ RefreshFind(h)
             \/ RefreshDel(h) \/ LogoutAnswer(h) \/ Fail(h)
      PROVE  StoredBeside'
  <2>1. /\ UNCHANGED <<sub, by>> /\ live' \subseteq live
        /\ \A g \in Handlers \ {h} : req'[g] = req[g]
    BY <1>v, <1>5 DEF LoginFind, RefreshVerify, RefreshGet, RefreshFind, RefreshDel,
       LogoutAnswer, Fail, Goto, Return
  <2>2. ~Ending(h)'
    <3>1. CASE LoginFind(h) \/ RefreshVerify(h)
      BY <1>v, <3>1 DEF LoginFind, RefreshVerify, Ending, Idle
    <3>2. CASE RefreshGet(h) \/ RefreshFind(h) \/ RefreshDel(h)
      BY <1>v, <3>2 DEF RefreshGet, RefreshFind, RefreshDel, Goto, Return, Ending, Idle, Request
    <3>3. CASE LogoutAnswer(h) \/ Fail(h)
      BY <1>v, <3>3 DEF LogoutAnswer, Fail, Return, Ending, Idle
    <3> QED
      BY <1>5, <3>1, <3>2, <3>3
  <2> QED
    BY <1>2, <2>1, <2>2 DEF Ending
<1>6. ASSUME NEW h \in Handlers, \/ LogoutAllVisit(h) \/ LogoutAllScanned(h)
                                \/ PurgeDel(h) \/ PurgeDelFails(h) \/ Purged(h)
      PROVE  StoredBeside'
  <2>1. /\ UNCHANGED <<sub, by>> /\ live' \subseteq live
        /\ \A g \in Handlers \ {h} : req'[g] = req[g]
    BY <1>v, <1>6 DEF LogoutAllVisit, LogoutAllScanned, PurgeDel, PurgeDelFails, Purged, Goto
  <2>2. /\ req'[h].must = req[h].must /\ req'[h].jti = req[h].jti
        /\ req'[h].who = req[h].who
    <3>1. CASE LogoutAllVisit(h)
      BY <1>v, <3>1 DEF LogoutAllVisit, Request
    <3>2. CASE PurgeDel(h)
      BY <1>v, <3>2 DEF PurgeDel, Request
    <3>3. CASE PurgeDelFails(h)
      BY <1>v, <3>3 DEF PurgeDelFails, Request
    <3>4. CASE LogoutAllScanned(h) \/ Purged(h)
      BY <1>v, <3>4 DEF LogoutAllScanned, Purged, Goto, Request
    <3> QED
      BY <1>6, <3>1, <3>2, <3>3, <3>4
  <2>3. Ending(h)
    BY <1>6 DEF LogoutAllVisit, LogoutAllScanned, PurgeDel, PurgeDelFails, Purged, Ending
  <2> QED
    BY <1>2, <2>1, <2>2, <2>3 DEF Ending
<1>7. ASSUME NEW j \in Jti, KeyExpires(j) PROVE StoredBeside'
  BY <1>2, <1>7 DEF KeyExpires, Ending
<1>8. ASSUME NEW u \in Users, RemoveAccount(u) PROVE StoredBeside'
  BY <1>2, <1>8 DEF RemoveAccount, Ending
<1>9. CASE UNCHANGED vars
  BY <1>2, <1>9 DEF vars, Ending
<1> QED
  BY <1>1, <1>3, <1>4, <1>5, <1>6, <1>7, <1>8, <1>9 DEF Next, Step

(* auth.controller.ts:217: what logoutAll leaves of its account are the    *)
(* sessions whose DEL failed and those that other slots stored after its   *)
(* scan had begun (auth.service.ts:94-110, 157-172); auth.controller.ts:191*)
(* what logout leaves of its session is what a failed DEL does (115-127).  *)
Remains(h) ==
  /\ req[h].jti = None =>
       \A k \in KeysOf(req[h].who) \ req[h].failed :
         k \notin req[h].must /\ by[k] \in Handlers \ {h}
  /\ req[h].jti \in live => req[h].jti \in req[h].failed

(* Whatever logins, refreshes, other logouts and expiries run beside it, an*)
(* answered logout or logoutAll leaves no more than that.                  *)
THEOREM LogoutLeaves == Spec => [](\A h \in Handlers : req[h].pc = "done" => Remains(h))
<1> DEFINE Left == \A h \in Handlers : req[h].pc = "done" => Remains(h)
<1>1. IInv /\ StoredBeside => Left
  <2> SUFFICES ASSUME IInv, StoredBeside, NEW h \in Handlers, req[h].pc = "done"
               PROVE  Remains(h)
    OBVIOUS
  <2>1. Ending(h) /\ req[h].must \cap live \subseteq req[h].failed
    BY DEF IInv, LogoutProgress, Ending
  <2>2. live \subseteq Jti
    BY DEF IInv, TypeOK
  <2>3. req[h].jti \in live => req[h].jti \in req[h].failed
    BY <2>1, <2>2, NoneIsNoId DEF StoredBeside
  <2>4. ASSUME req[h].jti = None, NEW k \in KeysOf(req[h].who) \ req[h].failed
        PROVE  k \notin req[h].must /\ by[k] \in Handlers \ {h}
    BY <2>1, <2>4 DEF StoredBeside, KeysOf
  <2> QED
    BY <2>3, <2>4 DEF Remains
<1> HIDE DEF Left
<1>2. Spec => []Left
  BY <1>1, InvInit, InvStep, StoredInit, StoredStep, PTL DEF Spec
<1> QED
  BY <1>2 DEF Left

(* What the two lines promise.                                             *)
NothingRemains(h) ==
  IF req[h].jti = None THEN KeysOf(req[h].who) = {} ELSE req[h].jti \notin live

(* So both lines are right of requests that do not overlap, as long as no  *)
(* DEL fails: logoutAll leaves no session of its account, logout not its   *)
(* own.                                                                    *)
THEOREM LogoutAloneEndsAll ==
  ASSUME NEW one, Handlers = {one}
  PROVE  Spec => [](req[one].pc = "done" /\ req[one].failed = {} => NothingRemains(one))
<1> DEFINE Left == \A h \in Handlers : req[h].pc = "done" => Remains(h)
           Over == req[one].pc = "done" /\ req[one].failed = {} => NothingRemains(one)
<1>1. Left => Over
  BY DEF Remains, NothingRemains
<1> HIDE DEF Left, Over
<1>2. Spec => []Left
  BY LogoutLeaves DEF Left
<1>3. Spec => []Over
  BY <1>1, <1>2, PTL
<1> QED
  BY <1>3 DEF Over

-----------------------------------------------------------------------------
(* The session code implements TokenLifecycle.                             *)

LEMMA DeletingEnds ==
  ASSUME IInv, NEW j \in Jti, live' = live \ {j}, sub' = sub, parent' = parent
  PROVE  [Abstract!ANext]_(Abstract!avars)
<1> DEFINE st == [k \in Jti |-> IF sub[k] = None THEN "unused"
                               ELSE IF k \in live THEN "live" ELSE "ended"]
<1>1. CASE j \in live
  <2>1. sub[j] # None
    BY <1>1 DEF IInv, BlankUntilIssued, Unused
  <2>2. st[j] = "live" /\ st' = [st EXCEPT ![j] = "ended"]
    BY <1>1, <2>1
  <2>3. Abstract!End(j)
    BY <2>2 DEF Abstract!End
  <2> QED
    BY <2>3 DEF Abstract!ANext
<1>2. CASE j \notin live
  BY <1>2 DEF Abstract!avars, IInv, TypeOK
<1> QED
  BY <1>1, <1>2

LEMMA IssuingOpens ==
  ASSUME IInv, NEW h \in Handlers, NEW u \in Users, NEW from \in Jti \cup {None},
         from # None => from \in Issued \ live /\ sub[from] = u,
         IssueSession(h, u, from)
  PROVE  Abstract!ANext
<1> DEFINE st == [k \in Jti |-> IF sub[k] = None THEN "unused"
                               ELSE IF k \in live THEN "live" ELSE "ended"]
<1>1. PICK n \in Unused : /\ sub' = [sub EXCEPT ![n] = u]
                          /\ parent' = [parent EXCEPT ![n] = from]
                          /\ live' = live \cup {n}
  BY DEF IssueSession
<1>2. n \in Jti /\ sub[n] = None /\ sub \in [Jti -> Users \cup {None}] /\ u # None
  BY NoneIsNoId DEF Unused, IInv, TypeOK
<1>3. st[n] = "unused" /\ st' = [st EXCEPT ![n] = "live"]
  BY <1>1, <1>2
<1>4. from # None => st[from] = "ended"
  BY DEF Issued, Unused
<1>5. Abstract!Open(n, u, from)
  BY <1>1, <1>3, <1>4 DEF Abstract!Open
<1> QED
  BY <1>2, <1>5 DEF Abstract!ANext

(* Every behaviour of the code is one of the abstract token life cycle.    *)
THEOREM Refinement == Spec => ImplementsLifecycle
<1>1. Init => Abstract!AInit
  BY DEF Init, Abstract!AInit
<1>2. IInv /\ [Next]_vars => [Abstract!ANext]_(Abstract!avars)
  <2> SUFFICES ASSUME IInv, [Next]_vars PROVE [Abstract!ANext]_(Abstract!avars)
    OBVIOUS
  <2>v. req \in [Handlers -> Request]
    BY DEF IInv, TypeOK
  <2>1. ASSUME NEW h \in Handlers, LoginStore(h) PROVE Abstract!ANext
    <3>1. req[h].who \in Users
      BY <2>1, <2>v DEF LoginStore, IInv, VerifiedRequests, Request
    <3> QED
      BY <2>1, <3>1, IssuingOpens DEF LoginStore
  <2>2. ASSUME NEW h \in Handlers, RefreshStore(h) PROVE Abstract!ANext
    <3>1. req[h].jti \in Issued \ live /\ sub[req[h].jti] = req[h].who
      BY <2>2 DEF RefreshStore, IInv, VerifiedRequests, Refreshing
    <3>2. req[h].who \in Users /\ req[h].jti \in Jti
      BY <2>v, <3>1 DEF Request, Issued, Unused
    <3> QED
      BY <2>2, <3>1, <3>2, IssuingOpens DEF RefreshStore
  <2>3. ASSUME NEW h \in Handlers, RefreshDel(h) PROVE [Abstract!ANext]_(Abstract!avars)
    <3>1. req[h].jti \in Jti
      BY <2>3 DEF RefreshDel, IInv, VerifiedRequests, Refreshing, Issued
    <3> QED
      BY <2>3, <3>1, DeletingEnds DEF RefreshDel
  <2>4. ASSUME NEW h \in Handlers, PurgeDel(h) PROVE [Abstract!ANext]_(Abstract!avars)
    <3>1. PICK j \in req[h].found : live' = live \ {j}
      BY <2>4 DEF PurgeDel
    <3>2. j \in Jti
      BY <2>v DEF Request
    <3> QED
      BY <2>4, <3>1, <3>2, DeletingEnds DEF PurgeDel
  <2>5. ASSUME NEW j \in Jti, KeyExpires(j) PROVE [Abstract!ANext]_(Abstract!avars)
    BY <2>5, DeletingEnds DEF KeyExpires
  <2>6. ASSUME live' = live, sub' = sub, parent' = parent
        PROVE  UNCHANGED Abstract!avars
    BY <2>6 DEF Abstract!avars
  <2> QED
    BY <2>1, <2>2, <2>3, <2>4, <2>5, <2>6 DEF Next, Step, vars, LoginFind, RefreshVerify,
       RefreshGet, RefreshFind, LogoutVerify, LogoutAllVerify, LogoutAllVisit,
       LogoutAllScanned, PurgeDelFails, Purged, LogoutAnswer, Fail, RemoveAccount
<1> QED
  BY <1>1, <1>2, Invariance, PTL DEF Spec, ImplementsLifecycle, Abstract!ASpec
=============================================================================
