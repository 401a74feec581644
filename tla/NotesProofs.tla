---------------------------- MODULE NotesProofs -----------------------------
(***************************************************************************)
(* Proofs about Notes, for any number of users, notes and request slots.   *)
(***************************************************************************)
EXTENDS Notes, TLAPS

(* A request in flight has read a row that existed, for its owner, and saw *)
(* no toggle that had not been written.                                    *)
Reading ==
  \A h \in Handlers : req[h].pc # "idle" =>
    /\ req[h].note \in NoteIds
    /\ owner[req[h].note] # None
    /\ req[h].user = owner[req[h].note]
    /\ req[h].seen <= flips[req[h].note]

IInv == TypeOK /\ Reading /\ TogglesCount

Labels == {"idle", "update", "delete", "star"}

LEMMA RequestFields ==
  ASSUME NEW r \in Request
  PROVE  /\ r.pc \in Labels /\ r.user \in Users \cup {None}
         /\ r.note \in NoteIds \cup {None} /\ r.isStarred \in {"yes", "no"}
         /\ r.seen \in 0..MaxFlips
  BY DEF Request, Labels

LEMMA StartedIsRequest ==
  ASSUME NEW l \in Labels, NEW u \in Users \cup {None}, NEW n \in NoteIds \cup {None},
         NEW s \in {"yes", "no"}, NEW k \in 0..MaxFlips
  PROVE  /\ Started(l, u, n, s, k) \in Request
         /\ Started(l, u, n, s, k).pc = l /\ Started(l, u, n, s, k).user = u
         /\ Started(l, u, n, s, k).note = n /\ Started(l, u, n, s, k).isStarred = s
         /\ Started(l, u, n, s, k).seen = k
  BY DEF Started, Request, Labels

LEMMA IdleIsRequest == Idle \in Request /\ Idle.pc = "idle"
  BY StartedIsRequest, NotesAssumption DEF Idle, Labels

-----------------------------------------------------------------------------
(* What each action does to the slot of its request, and to the others.    *)
LEMMA Returned ==
  ASSUME TypeOK, NEW h \in Handlers, Return(h)
  PROVE  /\ req' \in [Handlers -> Request]
         /\ req'[h].pc = "idle"
         /\ \A g \in Handlers \ {h} : req'[g] = req[g]
  BY IdleIsRequest DEF TypeOK, Return

LEMMA Found ==
  ASSUME TypeOK, NEW h \in Handlers, FindOwn(h)
  PROVE  \E n \in stored :
           /\ n \in NoteIds /\ owner[n] # None
           /\ req' \in [Handlers -> Request]
           /\ \A g \in Handlers \ {h} : req'[g] = req[g]
           /\ req'[h].note = n /\ req'[h].user = owner[n]
           /\ req'[h].isStarred = isStarred[n] /\ req'[h].seen = flips[n]
<1>1. PICK n \in stored, next \in {"update", "delete", "star"} :
        req' = [req EXCEPT ![h] = Started(next, owner[n], n, isStarred[n], flips[n])]
  BY DEF FindOwn
<1>2. n \in NoteIds /\ owner[n] # None
  BY DEF TypeOK
<1>3. next \in Labels
  BY DEF Labels
<1>4. /\ owner[n] \in Users \cup {None} /\ isStarred[n] \in {"yes", "no"}
      /\ flips[n] \in 0..MaxFlips
  BY <1>2 DEF TypeOK
<1> DEFINE r == Started(next, owner[n], n, isStarred[n], flips[n])
<1>5. /\ r \in Request /\ r.note = n /\ r.user = owner[n]
      /\ r.isStarred = isStarred[n] /\ r.seen = flips[n]
  BY <1>2, <1>3, <1>4, StartedIsRequest
<1>6. req' = [req EXCEPT ![h] = r]
  BY <1>1
<1> HIDE DEF r
<1>7. req'[h] = r /\ req' \in [Handlers -> Request] /\ \A g \in Handlers \ {h} : req'[g] = req[g]
  BY <1>5, <1>6 DEF TypeOK
<1> QED
  BY <1>2, <1>5, <1>7

-----------------------------------------------------------------------------
LEMMA TypeStep == TypeOK /\ [Next]_vars => TypeOK'
<1> SUFFICES ASSUME TypeOK, [Next]_vars PROVE TypeOK'
  OBVIOUS
<1>1. ASSUME NEW u \in Users, Create(u) PROVE TypeOK'
  BY <1>1, NotesAssumption DEF Create, TypeOK
<1>2. ASSUME NEW h \in Handlers, FindOwn(h) PROVE TypeOK'
  <2>1. req' \in [Handlers -> Request]
    BY <1>2, Found
  <2> QED
    BY <1>2, <2>1 DEF FindOwn, TypeOK, table
<1>3. ASSUME NEW h \in Handlers, Update(h) PROVE TypeOK'
  <2>1. req' \in [Handlers -> Request] /\ req[h].user \in Users \cup {None}
    BY <1>3, Returned, RequestFields DEF Update, TypeOK
  <2> QED
    BY <1>3, <2>1 DEF Update, TypeOK
<1>4. ASSUME NEW h \in Handlers, Remove(h) PROVE TypeOK'
  BY <1>4, Returned DEF Remove, TypeOK
<1>5. ASSUME NEW h \in Handlers, ToggleStar(h) PROVE TypeOK'
  <2>1. req' \in [Handlers -> Request] /\ req[h].user \in Users \cup {None}
    BY <1>5, Returned, RequestFields DEF ToggleStar, TypeOK
  <2>2. CASE req[h].note \in stored
    <3> DEFINE n == req[h].note
    <3>1. n \in NoteIds /\ flips[n] \in 0..MaxFlips /\ flips[n] < MaxFlips
      BY <1>5, <2>2 DEF ToggleStar, TypeOK
    <3>2. flips[n] + 1 \in 0..MaxFlips
      BY <3>1, NotesAssumption
    <3>3. Not(req[h].isStarred) \in {"yes", "no"}
      BY DEF Not
    <3>4. /\ isStarred' = [isStarred EXCEPT ![n] = Not(req[h].isStarred)]
          /\ author' = [author EXCEPT ![n] = req[h].user]
          /\ flips'  = [flips EXCEPT ![n] = flips[n] + 1]
          /\ raced' \in {raced, raced \cup {n}}
          /\ UNCHANGED <<stored, owner>>
      BY <1>5, <2>2 DEF ToggleStar
    <3> HIDE DEF n
    <3> QED
      BY <2>1, <3>1, <3>2, <3>3, <3>4 DEF TypeOK
  <2>3. CASE req[h].note \notin stored
    BY <1>5, <2>1, <2>3 DEF ToggleStar, TypeOK
  <2> QED
    BY <2>2, <2>3
<1>6. ASSUME NEW h \in Handlers, Fail(h) PROVE TypeOK'
  BY <1>6, Returned DEF Fail, TypeOK, table
<1>7. CASE UNCHANGED vars
  BY <1>7 DEF vars, table, TypeOK
<1> QED
  BY <1>1, <1>2, <1>3, <1>4, <1>5, <1>6, <1>7 DEF Next

LEMMA TypeInit == Init => TypeOK
  BY IdleIsRequest, NotesAssumption DEF Init, TypeOK

-----------------------------------------------------------------------------
(* Only creation touches owner, and only of unused ids; toggles are only   *)
(* added.  Hence what a request in flight has read stays true.             *)
LEMMA ReadingStep == TypeOK /\ TypeOK' /\ Reading /\ [Next]_vars => Reading'
<1> SUFFICES ASSUME TypeOK, TypeOK', Reading, [Next]_vars,
                    NEW g \in Handlers, req'[g].pc # "idle"
             PROVE  /\ req'[g].note \in NoteIds
                    /\ owner'[req'[g].note] # None
                    /\ req'[g].user = owner'[req'[g].note]
                    /\ req'[g].seen <= flips'[req'[g].note]
  BY DEF Reading
<1> DEFINE Kept == /\ req'[g] = req[g]
                   /\ \A n \in NoteIds : owner[n] # None => owner'[n] = owner[n]
                   /\ \A n \in NoteIds : flips[n] <= flips'[n]
<1>0. ASSUME Kept PROVE /\ req'[g].note \in NoteIds
                        /\ owner'[req'[g].note] # None
                        /\ req'[g].user = owner'[req'[g].note]
                        /\ req'[g].seen <= flips'[req'[g].note]
  <2> DEFINE n == req[g].note
  <2>1. /\ n \in NoteIds /\ owner[n] # None /\ req[g].user = owner[n]
        /\ req[g].seen <= flips[n]
    BY <1>0 DEF Reading
  <2>2. flips[n] \in Nat /\ flips'[n] \in Nat /\ req[g].seen \in Nat
    BY <2>1, RequestFields, NotesAssumption DEF TypeOK
  <2>3. owner'[n] = owner[n] /\ flips[n] <= flips'[n] /\ req'[g] = req[g]
    BY <1>0, <2>1
  <2> QED
    BY <2>1, <2>2, <2>3
<1>a. \A n \in NoteIds : flips[n] \in Nat
  BY NotesAssumption DEF TypeOK
<1>1. ASSUME NEW u \in Users, Create(u) PROVE Kept
  BY <1>1, <1>a DEF Create, TypeOK
<1>2. ASSUME NEW h \in Handlers, FindOwn(h)
      PROVE  Kept \/ \E n \in NoteIds : /\ owner[n] # None /\ UNCHANGED <<owner, flips>>
                                        /\ req'[g].note = n /\ req'[g].user = owner[n]
                                        /\ req'[g].seen = flips[n]
  <2>1. UNCHANGED <<owner, flips>>
    BY <1>2 DEF FindOwn, table
  <2> QED
    BY <1>2, <1>a, <2>1, Found
<1>3. ASSUME NEW h \in Handlers, Update(h) \/ Remove(h) \/ Fail(h) PROVE Kept
  <2>1. UNCHANGED <<owner, flips>> /\ Return(h)
    BY <1>3 DEF Update, Remove, Fail, table
  <2> QED
    BY <1>a, <2>1, Returned
<1>4. ASSUME NEW h \in Handlers, ToggleStar(h) PROVE Kept
  <2>1. UNCHANGED owner /\ req'[g] = req[g]
    BY <1>4, Returned DEF ToggleStar
  <2>2. \/ UNCHANGED flips
        \/ req[h].note \in NoteIds /\ flips' = [flips EXCEPT ![req[h].note] = @ + 1]
    BY <1>4 DEF ToggleStar, TypeOK
  <2> QED
    BY <1>a, <2>1, <2>2 DEF TypeOK
<1>5. ASSUME UNCHANGED vars PROVE Kept
  BY <1>5, <1>a DEF vars, table
<1>6. CASE Kept
  BY <1>0, <1>6
<1>7. CASE ~Kept
  <2>1. PICK n \in NoteIds : /\ owner[n] # None /\ UNCHANGED <<owner, flips>>
                             /\ req'[g].note = n /\ req'[g].user = owner[n]
                             /\ req'[g].seen = flips[n]
    BY <1>1, <1>2, <1>3, <1>4, <1>5, <1>7 DEF Next
  <2> QED
    BY <1>a, <2>1
<1> QED
  BY <1>6, <1>7

-----------------------------------------------------------------------------
LEMMA ParityFlips ==
  ASSUME NEW k \in Nat
  PROVE  /\ k % 2 = 1 => (k + 1) % 2 # 1
         /\ k % 2 # 1 => (k + 1) % 2 = 1
  OBVIOUS

(* The case that matters: a toggle of n by slot h, with n still stored.    *)
LEMMA ToggleKeeps ==
  ASSUME TypeOK, TypeOK', Reading, TogglesCount,
         NEW h \in Handlers, ToggleStar(h), req[h].note \in stored
  PROVE  TogglesCount'
<1> DEFINE n == req[h].note
<1>1. n \in NoteIds /\ n \in stored
  BY DEF TypeOK
<1>2. /\ isStarred' = [isStarred EXCEPT ![n] = Not(req[h].isStarred)]
      /\ flips'  = [flips EXCEPT ![n] = flips[n] + 1]
      /\ raced'  = IF flips[n] = req[h].seen THEN raced ELSE raced \cup {n}
      /\ req[h].pc = "star" /\ Return(h)
  BY <1>1 DEF ToggleStar
<1>3. /\ flips[n] \in Nat /\ flips'[n] = flips[n] + 1
      /\ isStarred'[n] = Not(req[h].isStarred)
      /\ \A m \in NoteIds \ {n} : flips'[m] = flips[m] /\ isStarred'[m] = isStarred[m]
  BY <1>1, <1>2, NotesAssumption DEF TypeOK
<1>4. ASSUME NEW m \in NoteIds \ raced'
      PROVE  isStarred'[m] = IF flips'[m] % 2 = 1 THEN "yes" ELSE "no"
  <2>1. m \in NoteIds \ raced
    BY <1>2, <1>4
  <2>2. isStarred[m] = IF flips[m] % 2 = 1 THEN "yes" ELSE "no"
    BY <2>1 DEF TogglesCount
  <2>3. CASE m # n
    BY <1>3, <2>2, <2>3
  <2>4. CASE m = n
    <3>1. flips[n] = req[h].seen
      BY <1>2, <1>4, <2>4
    <3>2. req[h].isStarred = isStarred[n]
      BY <1>2, <3>1 DEF TogglesCount
    <3>3. isStarred'[n] = IF isStarred[n] = "yes" THEN "no" ELSE "yes"
      BY <1>3, <3>2 DEF Not
    <3>4. /\ flips[n] % 2 = 1 => flips'[n] % 2 # 1
          /\ flips[n] % 2 # 1 => flips'[n] % 2 = 1
      BY <1>3, ParityFlips
    <3>5. isStarred[n] = IF flips[n] % 2 = 1 THEN "yes" ELSE "no"
      BY <2>2, <2>4
    <3>6. isStarred'[n] = IF flips'[n] % 2 = 1 THEN "yes" ELSE "no"
      <4>1. CASE flips[n] % 2 = 1
        BY <3>3, <3>4, <3>5, <4>1
      <4>2. CASE flips[n] % 2 # 1
        BY <3>3, <3>4, <3>5, <4>2
      <4> QED
        BY <4>1, <4>2
    <3> QED
      BY <2>4, <3>6
  <2> QED
    BY <2>3, <2>4
<1>5. ASSUME NEW g \in Handlers, req'[g].pc = "star",
             req'[g].seen = flips'[req'[g].note]
      PROVE  req'[g].isStarred = isStarred'[req'[g].note]
  <2>1. g # h /\ req'[g] = req[g]
    BY <1>2, <1>5, Returned
  <2>2. req[g].note \in NoteIds /\ req[g].seen <= flips[req[g].note]
    BY <1>5, <2>1 DEF Reading
  <2>3. req[g].seen \in Nat
    BY RequestFields, NotesAssumption DEF TypeOK
  <2>4. req[g].note # n
    BY <1>3, <1>5, <2>1, <2>2, <2>3
  <2>5. req[g].seen = flips[req[g].note]
    BY <1>3, <1>5, <2>1, <2>2, <2>4
  <2> QED
    BY <1>3, <1>5, <2>1, <2>2, <2>4, <2>5 DEF TogglesCount
<1> QED
  BY <1>4, <1>5 DEF TogglesCount

LEMMA TogglesStep ==
  TypeOK /\ TypeOK' /\ Reading /\ TogglesCount /\ [Next]_vars => TogglesCount'
<1> SUFFICES ASSUME TypeOK, TypeOK', Reading, TogglesCount, [Next]_vars
             PROVE  TogglesCount'
  OBVIOUS
<1>0. ASSUME NEW h \in Handlers, UNCHANGED <<isStarred, flips, raced>>,
             \A g \in Handlers \ {h} : req'[g] = req[g],
             req'[h].pc = "idle" \/ req'[h].isStarred = isStarred[req'[h].note]
      PROVE  TogglesCount'
  BY <1>0 DEF TogglesCount
<1>1. ASSUME NEW u \in Users, Create(u) PROVE TogglesCount'
  BY <1>1 DEF Create, TogglesCount
<1>2. ASSUME NEW h \in Handlers, FindOwn(h) PROVE TogglesCount'
  <2>1. UNCHANGED <<isStarred, flips, raced>>
    BY <1>2 DEF FindOwn, table
  <2>2. /\ \A g \in Handlers \ {h} : req'[g] = req[g]
        /\ req'[h].isStarred = isStarred[req'[h].note]
    BY <1>2, Found
  <2> QED
    BY <1>0, <2>1, <2>2
<1>3. ASSUME NEW h \in Handlers, Update(h) \/ Remove(h) \/ Fail(h) PROVE TogglesCount'
  <2>1. UNCHANGED <<isStarred, flips, raced>> /\ Return(h)
    BY <1>3 DEF Update, Remove, Fail, table
  <2> QED
    BY <1>0, <2>1, Returned
<1>4. ASSUME NEW h \in Handlers, ToggleStar(h) PROVE TogglesCount'
  <2>1. CASE req[h].note \in stored
    BY <1>4, <2>1, ToggleKeeps
  <2>2. CASE req[h].note \notin stored
    <3>1. UNCHANGED <<isStarred, flips, raced>> /\ Return(h)
      BY <1>4, <2>2 DEF ToggleStar
    <3> QED
      BY <1>0, <3>1, Returned
  <2> QED
    BY <2>1, <2>2
<1>5. CASE UNCHANGED vars
  BY <1>5 DEF vars, table, TogglesCount
<1> QED
  BY <1>1, <1>2, <1>3, <1>4, <1>5 DEF Next

LEMMA InvInit == Init => IInv
<1> SUFFICES ASSUME Init PROVE IInv
  OBVIOUS
<1>1. \A h \in Handlers : req[h].pc = "idle"
  BY IdleIsRequest DEF Init
<1>2. \A n \in NoteIds : isStarred[n] = "no" /\ flips[n] = 0
  BY DEF Init
<1>3. 0 % 2 # 1
  OBVIOUS
<1>4. \A n \in NoteIds : isStarred[n] = IF flips[n] % 2 = 1 THEN "yes" ELSE "no"
  BY <1>2, <1>3
<1> QED
  BY <1>1, <1>4, TypeInit DEF IInv, Reading, TogglesCount

(* The strengthened invariant, from which the theorems follow.             *)
THEOREM Invariance == Spec => []IInv
<1>1. IInv /\ [Next]_vars => IInv'
  BY TypeStep, ReadingStep, TogglesStep DEF IInv
<1> QED
  BY InvInit, <1>1, PTL DEF Spec

(* Every variable keeps its type.                                          *)
THEOREM TypeCorrect == Spec => []TypeOK
<1>1. IInv => TypeOK
  BY DEF IInv
<1> QED
  BY <1>1, Invariance, PTL

(* notes.service.ts:105-112, for any number of requests: where no two      *)
(* toggles overlapped, the star is the parity of the toggles written.      *)
THEOREM StarIsParity == Spec => []TogglesCount
<1>1. IInv => TogglesCount
  BY DEF IInv
<1> QED
  BY <1>1, Invariance, PTL

-----------------------------------------------------------------------------
(* Every step of the requests is a step of OwnedRows or leaves it alone:   *)
(* the check made at findOne is still right when the write comes by id.    *)
LEMMA RefinedStep ==
  TypeOK /\ TypeOK' /\ Reading /\ [Next]_vars => [Owned!ONext]_(Owned!ovars)
<1> SUFFICES ASSUME TypeOK, TypeOK', Reading, [Next]_vars
             PROVE  [Owned!ONext]_(Owned!ovars)
  OBVIOUS
<1> DEFINE st == rowState
<1>0. ASSUME UNCHANGED <<stored, owner, author>> PROVE UNCHANGED Owned!ovars
  BY <1>0 DEF Owned!ovars, rowState
<1>1. ASSUME NEW u \in Users, Create(u) PROVE Owned!ONext
  <2>1. PICK n \in NoteIds : /\ owner[n] = None
                             /\ stored' = stored \cup {n}
                             /\ owner'  = [owner EXCEPT ![n] = u]
                             /\ author' = [author EXCEPT ![n] = u]
    BY <1>1 DEF Create
  <2>2. st[n] = "unused" /\ st' = [st EXCEPT ![n] = "stored"]
    BY <2>1, NotesAssumption DEF TypeOK, rowState
  <2> QED
    BY <2>1, <2>2 DEF Owned!ONext, Owned!New, rowState
<1>2. ASSUME NEW h \in Handlers, req[h].pc # "idle", req[h].note \in stored,
             author' = [author EXCEPT ![req[h].note] = req[h].user],
             UNCHANGED <<stored, owner>>
      PROVE  Owned!ONext
  <2> DEFINE n == req[h].note
  <2>1. n \in NoteIds /\ owner[n] # None /\ req[h].user = owner[n]
    BY <1>2 DEF Reading
  <2>2. st[n] = "stored" /\ st' = st
    BY <1>2, <2>1 DEF rowState
  <2>3. author' = [author EXCEPT ![n] = owner[n]] /\ owner' = owner
    BY <1>2, <2>1
  <2> HIDE DEF n
  <2> QED
    BY <2>1, <2>2, <2>3 DEF Owned!ONext, Owned!Write, rowState
<1>3. ASSUME NEW h \in Handlers, Update(h) PROVE [Owned!ONext]_(Owned!ovars)
  <2>1. CASE req[h].note \in stored
    BY <1>2, <1>3, <2>1 DEF Update
  <2>2. CASE req[h].note \notin stored
    BY <1>0, <1>3, <2>2 DEF Update
  <2> QED
    BY <2>1, <2>2
<1>4. ASSUME NEW h \in Handlers, ToggleStar(h) PROVE [Owned!ONext]_(Owned!ovars)
  <2>1. CASE req[h].note \in stored
    BY <1>2, <1>4, <2>1 DEF ToggleStar
  <2>2. CASE req[h].note \notin stored
    BY <1>0, <1>4, <2>2 DEF ToggleStar
  <2> QED
    BY <2>1, <2>2
<1>5. ASSUME NEW h \in Handlers, Remove(h) PROVE [Owned!ONext]_(Owned!ovars)
  <2> DEFINE n == req[h].note
  <2>1. n \in NoteIds /\ owner[n] # None
    BY <1>5 DEF Reading, Remove
  <2>2. stored' = stored \ {n} /\ UNCHANGED <<owner, author>>
    BY <1>5 DEF Remove
  <2>3. CASE n \in stored
    <3>1. /\ st[n] = "stored" /\ owner[n] \in Users
          /\ st' = [r \in NoteIds |-> IF r \in {n} THEN "removed" ELSE st[r]]
      BY <2>1, <2>2, <2>3 DEF rowState, TypeOK
    <3> HIDE DEF n
    <3>2. Owned!Delete(owner[n], {n})
      BY <2>2, <3>1 DEF Owned!Delete, rowState
    <3> QED
      BY <2>1, <3>1, <3>2 DEF Owned!ONext
  <2>4. CASE n \notin stored
    BY <1>0, <2>2, <2>4
  <2> QED
    BY <2>3, <2>4
<1>6. ASSUME NEW h \in Handlers, FindOwn(h) \/ Fail(h) PROVE UNCHANGED Owned!ovars
  BY <1>0, <1>6 DEF FindOwn, Fail, table
<1>7. CASE UNCHANGED vars
  BY <1>0, <1>7 DEF vars, table
<1> QED
  BY <1>1, <1>3, <1>4, <1>5, <1>6, <1>7 DEF Next

LEMMA RefinedInit == Init => Owned!OInit
  BY DEF Init, Owned!OInit, rowState

(* The notes table is a table of owned rows, for any number of users,      *)
(* notes and requests (notes.service.ts:62-112).                           *)
THEOREM Refinement == Spec => ImplementsOwnedRows
<1>1. IInv /\ IInv' /\ [Next]_vars => [Owned!ONext]_(Owned!ovars)
  BY RefinedStep DEF IInv
<1> QED
  BY <1>1, RefinedInit, Invariance, PTL DEF Spec, ImplementsOwnedRows, Owned!OSpec
=============================================================================
