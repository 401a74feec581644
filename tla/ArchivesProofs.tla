--------------------------- MODULE ArchivesProofs ---------------------------
(***************************************************************************)
(* Proofs about Archives, for any number of users, archives and request    *)
(* slots, any policy and any calendar.                                     *)
(***************************************************************************)
EXTENDS Archives, FiniteSetTheorems, TLAPS

Labels == {"idle", "expire", "count", "find", "trim", "done", "delete"}

LEMMA RequestFields ==
  ASSUME NEW r \in Request
  PROVE  /\ r.pc \in Labels /\ r.user \in Users \cup {None} /\ r.tier \in Tier
         /\ r.cutoff \in Int /\ r.excess \in 0..MaxRows /\ r.doomed \in SUBSET Row
         /\ r.seen \in SUBSET Row
  BY DEF Request, Labels

LEMMA IdleIsRequest ==
  Idle \in Request /\ Idle.pc = "idle" /\ Idle.doomed = {} /\ Idle.seen = {}
  BY ArchivesAssumption DEF Idle, Started, Request, Tier

LEMMA RowsAreRows == TypeOK => stored \subseteq Row /\ trashed \subseteq Row
<1> SUFFICES ASSUME TypeOK PROVE stored \subseteq Row /\ trashed \subseteq Row
  OBVIOUS
<1>1. 1..created \subseteq Row
  BY ArchivesAssumption DEF TypeOK, Row
<1> QED
  BY <1>1 DEF TypeOK

LEMMA Put ==
  ASSUME TypeOK, NEW h \in Handlers, NEW r \in Request, req' = [req EXCEPT ![h] = r]
  PROVE  /\ req' \in [Handlers -> Request] /\ req'[h] = r
         /\ \A g \in Handlers \ {h} : req'[g] = req[g]
  BY DEF TypeOK

LEMMA Returned ==
  ASSUME TypeOK, NEW h \in Handlers, Return(h)
  PROVE  /\ req' \in [Handlers -> Request] /\ req'[h].pc = "idle" /\ req'[h].doomed = {}
         /\ req'[h].seen = {} /\ \A g \in Handlers \ {h} : req'[g] = req[g]
  BY IdleIsRequest, Put DEF Return

LEMMA Went ==
  ASSUME TypeOK, NEW h \in Handlers, NEW l \in Labels, Goto(h, l)
  PROVE  /\ req' \in [Handlers -> Request]
         /\ \A g \in Handlers \ {h} : req'[g] = req[g]
         /\ req'[h].pc = l /\ req'[h].user = req[h].user /\ req'[h].tier = req[h].tier
         /\ req'[h].cutoff = req[h].cutoff /\ req'[h].excess = req[h].excess
         /\ req'[h].doomed = req[h].doomed /\ req'[h].seen = req[h].seen
<1>1. req[h] \in Request
  BY DEF TypeOK
<1> DEFINE r == [req[h] EXCEPT !.pc = l]
<1>2. /\ r \in Request /\ r.pc = l /\ r.user = req[h].user /\ r.tier = req[h].tier
      /\ r.cutoff = req[h].cutoff /\ r.excess = req[h].excess
      /\ r.doomed = req[h].doomed /\ r.seen = req[h].seen
  BY <1>1 DEF Request, Labels
<1>3. req' = [req EXCEPT ![h] = r]
  BY DEF Goto
<1> HIDE DEF r
<1> QED
  BY <1>2, <1>3, Put

LEMMA FindAllSlot ==
  ASSUME TypeOK, NEW h \in Handlers, FindAll(h)
  PROVE  /\ req' \in [Handlers -> Request] /\ \A g \in Handlers \ {h} : req'[g] = req[g]
         /\ req'[h].pc = "expire" /\ req'[h].doomed = {} /\ req'[h].user \in Users
         /\ req'[h].cutoff <= today /\ req'[h].seen = {}
<1>1. PICK u \in Users :
        req' = [req EXCEPT ![h] =
                  Started("expire", u, tier[u], today - retentionDays[tier[u]], {})]
  BY DEF FindAll
<1> DEFINE r == Started("expire", u, tier[u], today - retentionDays[tier[u]], {})
<1>2. today \in Int /\ tier[u] \in Tier /\ retentionDays[tier[u]] \in Nat
  BY ArchivesAssumption DEF TypeOK, Day
<1>3. /\ today - retentionDays[tier[u]] \in Int
      /\ today - retentionDays[tier[u]] <= today
  BY <1>2
<1>4. /\ r \in Request /\ r.pc = "expire" /\ r.doomed = {} /\ r.user = u /\ r.seen = {}
      /\ r.cutoff = today - retentionDays[tier[u]]
  BY <1>2, <1>3, ArchivesAssumption DEF Started, Request
<1> HIDE DEF r
<1>5. req' = [req EXCEPT ![h] = r]
  BY <1>1 DEF r
<1> QED
  BY <1>3, <1>4, <1>5, Put

LEMMA FindOwnSlot ==
  ASSUME TypeOK, NEW h \in Handlers, FindOwn(h)
  PROVE  /\ req' \in [Handlers -> Request] /\ \A g \in Handlers \ {h} : req'[g] = req[g]
         /\ req'[h].pc = "delete" /\ req'[h].seen = {}
         /\ \E a \in stored : req'[h].doomed = {a} /\ req'[h].user = owner[a]
<1>1. PICK a \in stored :
        req' = [req EXCEPT ![h] =
                  Started("delete", owner[a], "free", 0, {a})]
  BY DEF FindOwn
<1> DEFINE r == Started("delete", owner[a], "free", 0, {a})
<1>2. a \in Row /\ owner[a] \in Users \cup {None}
  BY RowsAreRows DEF TypeOK
<1>3. /\ r \in Request /\ r.pc = "delete" /\ r.doomed = {a} /\ r.user = owner[a]
      /\ r.seen = {}
  BY <1>2, ArchivesAssumption DEF Idle, Started, Request, Tier
<1> HIDE DEF r
<1>4. req' = [req EXCEPT ![h] = r]
  BY <1>1 DEF r
<1> QED
  BY <1>3, <1>4, Put

LEMMA FindOldestSlot ==
  ASSUME TypeOK, NEW h \in Handlers, FindOldest(h)
  PROVE  \E D \in SUBSET RowsOf(req[h].user) :
           /\ \/ Cardinality(D) = req[h].excess
              \/ D = RowsOf(req[h].user) /\ Cardinality(D) < req[h].excess
           /\ IsOldest(D, RowsOf(req[h].user))
           /\ req' \in [Handlers -> Request] /\ \A g \in Handlers \ {h} : req'[g] = req[g]
           /\ req'[h].pc = "trim" /\ req'[h].user = req[h].user /\ req'[h].tier = req[h].tier
           /\ req'[h].cutoff = req[h].cutoff /\ req'[h].seen = req[h].seen
           /\ req'[h].excess = req[h].excess /\ req'[h].doomed = D
<1>1. PICK D \in SUBSET RowsOf(req[h].user) :
        /\ \/ Cardinality(D) = req[h].excess
           \/ D = RowsOf(req[h].user) /\ Cardinality(D) < req[h].excess
        /\ IsOldest(D, RowsOf(req[h].user))
        /\ req' = [req EXCEPT ![h].pc = "trim", ![h].doomed = D]
  BY DEF FindOldest
<1> DEFINE r == [req[h] EXCEPT !.pc = "trim", !.doomed = D]
<1>2. req[h] \in Request /\ D \in SUBSET Row
  BY RowsAreRows DEF TypeOK, RowsOf
<1>3. /\ r \in Request /\ r.pc = "trim" /\ r.user = req[h].user /\ r.tier = req[h].tier
      /\ r.cutoff = req[h].cutoff /\ r.seen = req[h].seen /\ r.doomed = D
      /\ r.excess = req[h].excess
  BY <1>2 DEF Request
<1>4. req' = [req EXCEPT ![h] = r]
  BY <1>1
<1> HIDE DEF r
<1> QED
  BY <1>1, <1>3, <1>4, Put

LEMMA RowsFinite ==
  \A S \in SUBSET Row : /\ IsFiniteSet(S) /\ Cardinality(S) \in 0..MaxRows
                        /\ \A T \in SUBSET S : Cardinality(T) <= Cardinality(S)
<1>1. IsFiniteSet(Row) /\ Cardinality(Row) = MaxRows
  BY FS_Interval, ArchivesAssumption DEF Row
<1>2. ASSUME NEW S \in SUBSET Row PROVE IsFiniteSet(S) /\ Cardinality(S) \in 0..MaxRows
  BY <1>1, <1>2, FS_Subset, FS_CardinalityType
<1>3. ASSUME NEW S \in SUBSET Row, NEW T \in SUBSET S PROVE Cardinality(T) <= Cardinality(S)
  BY <1>2, <1>3, FS_Subset
<1> QED
  BY <1>2, <1>3

LEMMA CountSlot ==
  ASSUME TypeOK, NEW h \in Handlers, Count(h)
  PROVE  /\ req' \in [Handlers -> Request] /\ \A g \in Handlers \ {h} : req'[g] = req[g]
         /\ req'[h].user = req[h].user /\ req'[h].tier = req[h].tier
         /\ req'[h].cutoff = req[h].cutoff /\ req'[h].doomed = req[h].doomed
         /\ req'[h].seen = RowsOf(req[h].user)
         /\ req'[h].pc \in {"find", "done"}
         /\ req'[h].pc = "done" => Cardinality(RowsOf(req[h].user)) <= maxCount[req[h].tier]
         /\ req'[h].pc = "find" =>
              Cardinality(RowsOf(req[h].user)) = maxCount[req[h].tier] + req'[h].excess
<1> DEFINE excess == Cardinality(RowsOf(req[h].user)) - maxCount[req[h].tier]
           l == IF excess > 0 THEN "find" ELSE "done"
           x == IF excess > 0 THEN excess ELSE 0
           r == [req[h] EXCEPT !.pc = l, !.excess = x, !.seen = RowsOf(req[h].user)]
<1>1. req[h] \in Request
  BY DEF TypeOK
<1>2. /\ Cardinality(RowsOf(req[h].user)) \in 0..MaxRows /\ maxCount[req[h].tier] \in Nat
      /\ RowsOf(req[h].user) \in SUBSET Row /\ MaxRows \in Nat
  <2>1. RowsOf(req[h].user) \in SUBSET Row
    BY RowsAreRows DEF RowsOf
  <2> QED
    BY <1>1, <2>1, RowsFinite, RequestFields, ArchivesAssumption DEF TypeOK
<1>3. x \in 0..MaxRows /\ l \in Labels
  BY <1>2 DEF Labels
<1>4. /\ l \in {"find", "done"}
      /\ l = "done" => Cardinality(RowsOf(req[h].user)) <= maxCount[req[h].tier]
      /\ l = "find" => Cardinality(RowsOf(req[h].user)) = maxCount[req[h].tier] + x
  BY <1>2
<1>5. req' = [req EXCEPT ![h] = r]
  BY DEF Count, Counts
<1> HIDE DEF l, x
<1>6. /\ r \in Request /\ r.pc = l /\ r.user = req[h].user /\ r.tier = req[h].tier
      /\ r.cutoff = req[h].cutoff /\ r.seen = RowsOf(req[h].user) /\ r.doomed = req[h].doomed
      /\ r.excess = x
  BY <1>1, <1>2, <1>3 DEF Request, Labels
<1> HIDE DEF r
<1> QED
  BY <1>4, <1>5, <1>6, Put

-----------------------------------------------------------------------------
(* Archives are created in the order of their days, each for somebody.     *)
InOrder == /\ \A a \in 1..created : owner[a] \in Users /\ born[a] <= today
           /\ \A a, b \in 1..created : a < b => born[a] <= born[b]

Counted(h) == RowsOf(req[h].user) \cap req[h].seen

(* What a clean-up counted stays what it was: archives of its user, before *)
(* the excess is deleted the tier's maximum and the excess of them, and no *)
(* more than the excess are about to be deleted.                           *)
Saw(h) ==
  /\ req[h].seen \subseteq 1..created
  /\ \A a \in req[h].seen : owner[a] = req[h].user
  /\ req[h].pc \in {"find", "trim"} =>
       Cardinality(req[h].seen) = maxCount[req[h].tier] + req[h].excess
  /\ req[h].pc = "trim" => Cardinality(req[h].doomed) <= req[h].excess

(* What a request has achieved, statement by statement: nothing older than *)
(* its cutoff is left; of the archives it counted the tier's maximum and   *)
(* the excess are left, with nothing older beside them, and once the excess*)
(* is found, only the maximum without what it is about to delete, which is *)
(* the oldest of the rest.                                                 *)
Working(h) ==
  /\ req[h].doomed \subseteq 1..created
  /\ \A a \in req[h].doomed : owner[a] = req[h].user
  /\ req[h].pc \in {"expire", "count", "find"} => req[h].doomed = {}
  /\ req[h].pc \in {"expire", "count", "find", "trim", "done"} => req[h].cutoff <= today
  /\ req[h].pc \in {"count", "find", "trim", "done"} =>
       \A a \in RowsOf(req[h].user) : born[a] >= req[h].cutoff
  /\ req[h].pc = "find" =>
       /\ Cardinality(Counted(h)) <= maxCount[req[h].tier] + req[h].excess
       /\ \A a \in req[h].seen, b \in RowsOf(req[h].user) \ req[h].seen : a < b
  /\ req[h].pc = "trim" =>
       /\ Cardinality(Counted(h) \ req[h].doomed) <= maxCount[req[h].tier]
       /\ \A a \in req[h].doomed, b \in RowsOf(req[h].user) \ req[h].doomed : a < b
  /\ req[h].pc = "done" => Cardinality(Counted(h)) <= maxCount[req[h].tier]

AllWorking == \A h \in Handlers : Working(h) /\ Saw(h)

IInv == TypeOK /\ InOrder /\ AllWorking /\ OldestGoFirst

(* What any step does to the table: rows go, or one comes at the end.      *)
Aged == /\ created' \in {created, created + 1} /\ today <= today'
        /\ \A a \in 1..created : owner'[a] = owner[a] /\ born'[a] = born[a]
        /\ \A a \in stored' : a \in stored \/ (a = created + 1 /\ created' = created + 1
                                               /\ born'[a] = today)

Step(h) == \/ FindAll(h) \/ Expire(h) \/ Count(h) \/ FindOldest(h) \/ Trim(h)
           \/ CleanedUp(h) \/ FindOwn(h) \/ Remove(h) \/ Fail(h)

LEMMA CreateTable ==
  ASSUME TypeOK, NEW u \in Users, CreateArchive(u)
  PROVE  /\ created' = created + 1 /\ created' \in Row /\ created' \notin 1..created
         /\ created \in Nat /\ 1..created' = 1..created \cup {created'}
         /\ stored' = stored \cup {created'} /\ owner'[created'] = u /\ born'[created'] = today
         /\ \A a \in Row \ {created'} : owner'[a] = owner[a] /\ born'[a] = born[a]
         /\ UNCHANGED <<today, tier, req, trashed>>
<1>1. created \in 0..MaxRows /\ created < MaxRows /\ created' = created + 1 /\ MaxRows \in Nat
  BY ArchivesAssumption DEF CreateArchive, TypeOK
<1>2. created' \in Row
  BY <1>1 DEF Row
<1>3. created' \notin 1..created /\ 1..created' = 1..created \cup {created'}
  BY <1>1
<1>4. PICK n : n = created'
  OBVIOUS
<1>5. owner' = [owner EXCEPT ![n] = u] /\ born' = [born EXCEPT ![n] = today]
  BY <1>4 DEF CreateArchive
<1>6. /\ owner'[n] = u /\ born'[n] = today
      /\ \A a \in Row \ {n} : owner'[a] = owner[a] /\ born'[a] = born[a]
  BY <1>2, <1>4, <1>5 DEF TypeOK
<1> QED
  BY <1>1, <1>2, <1>3, <1>4, <1>6 DEF CreateArchive

LEMMA StepTable ==
  ASSUME TypeOK, NEW h \in Handlers, Step(h)
  PROVE  UNCHANGED <<today, tier, created, owner, born>> /\ stored' \subseteq stored
  BY DEF Step, FindAll, Expire, Count, Counts, FindOldest, Trim, CleanedUp, FindOwn, Remove, Fail, table

LEMMA AgedStep == TypeOK /\ [Next]_vars => Aged
<1> SUFFICES ASSUME TypeOK, [Next]_vars PROVE Aged
  OBVIOUS
<1>0. today \in Int /\ created \in Nat /\ 1..created \subseteq Row
  BY ArchivesAssumption DEF TypeOK, Day, Row
<1>1. ASSUME NEW u \in Users, CreateArchive(u) PROVE Aged
  <2>1. \A a \in 1..created : a # created'
    BY <1>1, CreateTable
  <2> QED
    BY <1>0, <1>1, <2>1, CreateTable DEF Aged
<1>2. ASSUME NEW h \in Handlers, Step(h) PROVE Aged
  BY <1>0, <1>2, StepTable DEF Aged
<1>3. ASSUME NEW u \in Users, UpdateTier(u) PROVE Aged
  BY <1>0, <1>3 DEF UpdateTier, table, Aged
<1>4. CASE Midnight
  BY <1>0, <1>4 DEF Midnight, table, Aged
<1>5. CASE UNCHANGED vars
  BY <1>0, <1>5 DEF vars, table, Aged
<1> QED
  BY <1>1, <1>2, <1>3, <1>4, <1>5 DEF Next, Step

-----------------------------------------------------------------------------
LEMMA InOrderStep == TypeOK /\ InOrder /\ [Next]_vars => InOrder'
<1> SUFFICES ASSUME TypeOK, InOrder, [Next]_vars PROVE InOrder'
  OBVIOUS
<1>0. /\ today \in Int /\ created \in Nat
      /\ \A a \in 1..created : born[a] \in Int /\ a \in Row
  BY ArchivesAssumption DEF TypeOK, Day, Row
<1>1. ASSUME NEW u \in Users, CreateArchive(u) PROVE InOrder'
  <2>1. /\ owner'[created'] = u /\ born'[created'] = today /\ today' = today
        /\ created' = created + 1 /\ 1..created' = 1..created \cup {created'}
        /\ \A a \in 1..created : owner'[a] = owner[a] /\ born'[a] = born[a]
    <3>1. \A a \in 1..created : a \in Row \ {created'}
      BY <1>0, <1>1, CreateTable
    <3> QED
      BY <1>1, <3>1, CreateTable
  <2>2. \A a \in 1..created' : owner'[a] \in Users /\ born'[a] <= today'
    BY <1>0, <2>1 DEF InOrder
  <2>3. ASSUME NEW a \in 1..created', NEW b \in 1..created', a < b PROVE born'[a] <= born'[b]
    <3>1. a \in 1..created
      BY <1>0, <2>1, <2>3
    <3>2. CASE b = created'
      BY <2>1, <3>1, <3>2 DEF InOrder
    <3>3. CASE b \in 1..created
      BY <2>1, <2>3, <3>1, <3>3 DEF InOrder
    <3> QED
      BY <2>1, <3>2, <3>3
  <2> QED
    BY <2>2, <2>3 DEF InOrder
<1>2. CASE UNCHANGED <<created, owner, born>> /\ today <= today' /\ today' \in Int
  <2>1. \A a \in 1..created : born[a] <= today'
    BY <1>0, <1>2 DEF InOrder
  <2> QED
    BY <1>2, <2>1 DEF InOrder
<1>3. ASSUME ~(\E u \in Users : CreateArchive(u))
      PROVE  UNCHANGED <<created, owner, born>> /\ today <= today' /\ today' \in Int
  <2>1. ASSUME NEW h \in Handlers, Step(h) PROVE UNCHANGED <<today, created, owner, born>>
    BY <2>1, StepTable
  <2>2. ASSUME NEW u \in Users, UpdateTier(u) PROVE UNCHANGED <<today, created, owner, born>>
    BY <2>2 DEF UpdateTier, table
  <2>3. CASE Midnight
    BY <1>0, <2>3 DEF Midnight, table
  <2>4. CASE UNCHANGED vars
    BY <1>0, <2>4 DEF vars, table
  <2> QED
    BY <1>0, <1>3, <2>1, <2>2, <2>3, <2>4 DEF Next, Step
<1> QED
  BY <1>1, <1>2, <1>3

LEMMA StaysWorking ==
  ASSUME TypeOK, TypeOK', Aged, NEW g \in Handlers, Working(g), Saw(g), InOrder,
         req'[g] = req[g]
  PROVE  Working(g)' /\ Saw(g)'
<1> DEFINE r == req[g]
<1>1. /\ created \in Nat /\ created' \in Nat /\ created <= created' /\ today \in Int /\ today' \in Int
      /\ 1..created \subseteq 1..created' /\ r.cutoff \in Int /\ r \in Request
      /\ r.doomed \subseteq 1..created /\ r.seen \subseteq 1..created
  <2>1. r \in Request
    BY DEF TypeOK
  <2>2. r.cutoff \in Int
    BY <2>1, RequestFields, ArchivesAssumption
  <2>3. created \in Nat /\ created' \in Nat /\ today \in Int /\ today' \in Int
    BY ArchivesAssumption DEF TypeOK, Day
  <2>4. created <= created' /\ 1..created \subseteq 1..created'
    BY <2>3 DEF Aged
  <2> QED
    BY <2>1, <2>2, <2>3, <2>4 DEF Working, Saw
<1>2. ASSUME NEW a \in RowsOf(r.user)'
      PROVE  \/ a \in RowsOf(r.user) /\ born'[a] = born[a]
             \/ a = created + 1 /\ born'[a] = today
  <2>1. a \in stored' /\ owner'[a] = r.user
    BY DEF RowsOf
  <2>2. CASE a \in stored
    <3>1. a \in 1..created
      BY <2>2 DEF TypeOK
    <3> QED
      BY <2>1, <2>2, <3>1 DEF RowsOf, Aged
  <2> QED
    BY <2>1, <2>2 DEF Aged
<1>3. Counted(g)' \subseteq Counted(g)
  <2> SUFFICES ASSUME NEW a \in Counted(g)' PROVE a \in Counted(g)
    OBVIOUS
  <2>1. a \in RowsOf(r.user)' /\ a \in r.seen
    BY DEF Counted, RowsOf
  <2>2. a # created + 1
    BY <1>1, <2>1
  <2> QED
    BY <1>2, <2>1, <2>2 DEF Counted
<1>4. /\ Counted(g) \in SUBSET Row /\ Counted(g) \ r.doomed \in SUBSET Row
  BY RowsAreRows DEF Counted, RowsOf
<1>5. /\ Cardinality(Counted(g)') <= Cardinality(Counted(g))
      /\ Cardinality(Counted(g)' \ r.doomed) <= Cardinality(Counted(g) \ r.doomed)
      /\ Cardinality(Counted(g)) \in Nat /\ Cardinality(Counted(g)') \in Nat
      /\ Cardinality(Counted(g) \ r.doomed) \in Nat /\ Cardinality(Counted(g)' \ r.doomed) \in Nat
  <2> DEFINE C == Counted(g)
             CC == Counted(g)'
  <2>1. C \in SUBSET Row /\ C \ r.doomed \in SUBSET Row /\ CC \in SUBSET C
        /\ CC \ r.doomed \in SUBSET (C \ r.doomed)
    BY <1>3, <1>4
  <2>2. CC \in SUBSET Row /\ CC \ r.doomed \in SUBSET Row
    BY <2>1
  <2> HIDE DEF C, CC
  <2>3. Cardinality(CC) <= Cardinality(C) /\ Cardinality(C) \in Nat /\ Cardinality(CC) \in Nat
    BY <2>1, <2>2, RowsFinite, ArchivesAssumption
  <2>4. /\ Cardinality(CC \ r.doomed) <= Cardinality(C \ r.doomed)
        /\ Cardinality(C \ r.doomed) \in Nat /\ Cardinality(CC \ r.doomed) \in Nat
    BY <2>1, <2>2, RowsFinite, ArchivesAssumption
  <2> QED
    BY <2>3, <2>4 DEF C, CC
<1>6. maxCount[r.tier] \in Nat /\ r.excess \in Nat
  BY <1>1, RequestFields, ArchivesAssumption
<1>7. r.doomed \subseteq 1..created'
  BY <1>1
<1>8. \A a \in r.doomed : owner'[a] = r.user
  BY <1>1 DEF Working, Aged
<1>9. r.pc \in {"expire", "count", "find", "trim", "done"} => r.cutoff <= today'
  BY <1>1 DEF Working, Aged
<1>10. r.pc \in {"count", "find", "trim", "done"} =>
         \A a \in RowsOf(r.user)' : born'[a] >= r.cutoff
  BY <1>1, <1>2 DEF Working
<1>11. r.pc = "find" =>
         /\ Cardinality(Counted(g)') <= maxCount[r.tier] + r.excess
         /\ \A a \in r.seen, b \in RowsOf(r.user)' \ r.seen : a < b
  <2>1. r.pc = "find" => Cardinality(Counted(g)') <= maxCount[r.tier] + r.excess
    BY <1>5, <1>6 DEF Working
  <2>2. ASSUME r.pc = "find", NEW a \in r.seen, NEW b \in RowsOf(r.user)' \ r.seen
        PROVE  a < b
    <3>1. CASE b \in RowsOf(r.user)
      BY <2>2, <3>1 DEF Working
    <3>2. CASE b = created + 1
      BY <1>1, <3>2
    <3> QED
      BY <1>2, <3>1, <3>2
  <2> QED
    BY <2>1, <2>2
<1>12. r.pc = "trim" =>
         /\ Cardinality(Counted(g)' \ r.doomed) <= maxCount[r.tier]
         /\ \A a \in r.doomed, b \in RowsOf(r.user)' \ r.doomed : a < b
  <2>1. r.pc = "trim" => Cardinality(Counted(g)' \ r.doomed) <= maxCount[r.tier]
    BY <1>5, <1>6 DEF Working
  <2>2. ASSUME r.pc = "trim", NEW a \in r.doomed, NEW b \in RowsOf(r.user)' \ r.doomed
        PROVE  a < b
    <3>1. CASE b \in RowsOf(r.user)
      BY <2>2, <3>1 DEF Working
    <3>2. CASE b = created + 1
      BY <1>1, <3>2
    <3> QED
      BY <1>2, <3>1, <3>2
  <2> QED
    BY <2>1, <2>2
<1>13. r.pc = "done" => Cardinality(Counted(g)') <= maxCount[r.tier]
  BY <1>5, <1>6 DEF Working
<1>14. r.pc \in {"expire", "count", "find"} => r.doomed = {}
  BY DEF Working
<1>15. RowsOf(req[g].user)' = RowsOf(r.user)'
  BY DEF RowsOf
<1>16. Saw(g)'
  <2>1. r.seen \subseteq 1..created' /\ \A a \in r.seen : owner'[a] = r.user
    BY <1>1 DEF Saw, Aged
  <2> QED
    BY <2>1 DEF Saw
<1> QED
  BY <1>7, <1>8, <1>9, <1>10, <1>11, <1>12, <1>13, <1>14, <1>15, <1>16 DEF Working

-----------------------------------------------------------------------------
LEMMA TypeStep == TypeOK /\ [Next]_vars => TypeOK'
<1> SUFFICES ASSUME TypeOK, [Next]_vars PROVE TypeOK'
  OBVIOUS
<1>1. ASSUME NEW u \in Users, CreateArchive(u) PROVE TypeOK'
  <2>1. created' \in 0..MaxRows /\ trashed' \subseteq 1..created' /\ stored' \subseteq 1..created'
    <3>1. /\ created' \in Row /\ trashed' = trashed /\ stored' = stored \cup {created'}
          /\ 1..created' = 1..created \cup {created'}
      BY <1>1, CreateTable
    <3>2. created' \in 0..MaxRows
      BY <3>1, ArchivesAssumption DEF Row
    <3> QED
      BY <3>1, <3>2 DEF TypeOK
  <2>2. owner' \in [Row -> Users \cup {None}] /\ born' \in [Row -> Day]
    <3>1. PICK n : n = created'
      OBVIOUS
    <3>2. owner' = [owner EXCEPT ![n] = u] /\ born' = [born EXCEPT ![n] = today]
      BY <1>1, <3>1 DEF CreateArchive
    <3> QED
      BY <3>2 DEF TypeOK
  <2> QED
    BY <1>1, <2>1, <2>2 DEF CreateArchive, TypeOK
<1>2. ASSUME NEW h \in Handlers, Step(h) PROVE TypeOK'
  <2>1. req' \in [Handlers -> Request]
    <3>1. CASE FindAll(h)
      BY <3>1, FindAllSlot
    <3>2. CASE Count(h)
      BY <3>2, CountSlot
    <3>3. CASE FindOldest(h)
      BY <3>3, FindOldestSlot
    <3>4. CASE FindOwn(h)
      BY <3>4, FindOwnSlot
    <3>5. CASE Expire(h) \/ Trim(h)
      BY <3>5, Went DEF Expire, Trim, Labels
    <3>6. CASE CleanedUp(h) \/ Remove(h) \/ Fail(h)
      BY <3>6, Returned DEF CleanedUp, Remove, Fail
    <3> QED
      BY <1>2, <3>1, <3>2, <3>3, <3>4, <3>5, <3>6 DEF Step
  <2>2. trashed' \subseteq trashed \cup stored
    BY <1>2 DEF Step, FindAll, Expire, Count, Counts, FindOldest, Trim, CleanedUp, FindOwn, Remove,
                Fail, RowsOf
  <2> QED
    BY <1>2, <2>1, <2>2, StepTable DEF TypeOK
<1>3. ASSUME NEW u \in Users, UpdateTier(u) PROVE TypeOK'
  BY <1>3 DEF UpdateTier, table, TypeOK
<1>4. CASE Midnight
  <2>1. today' \in Day
    BY <1>4, ArchivesAssumption DEF Midnight, TypeOK, Day
  <2> QED
    BY <1>4, <2>1 DEF Midnight, table, TypeOK
<1>5. CASE UNCHANGED vars
  BY <1>5 DEF vars, table, TypeOK
<1> QED
  BY <1>1, <1>2, <1>3, <1>4, <1>5 DEF Next, Step

-----------------------------------------------------------------------------
(* Each statement of a request achieves what Working says of the next.     *)
LEMMA NothingToDo ==
  ASSUME TypeOK, NEW h \in Handlers, created' = created, today' = today,
         req'[h].seen = {}, req'[h].pc \in {"idle", "expire"}, req'[h].doomed = {},
         req'[h].pc = "expire" => req'[h].cutoff <= today
  PROVE  Working(h)' /\ Saw(h)'
BY DEF Working, Saw

LEMMA FindOwnWorks ==
  ASSUME TypeOK, NEW h \in Handlers, FindOwn(h)
  PROVE  Working(h)' /\ Saw(h)'
<1>1. PICK a \in stored : req'[h].doomed = {a} /\ req'[h].user = owner[a]
  BY FindOwnSlot
<1>2. req'[h].pc = "delete" /\ req'[h].seen = {}
  BY FindOwnSlot
<1>3. created' = created /\ owner' = owner
  BY DEF FindOwn, table
<1>4. a \in 1..created
  BY DEF TypeOK
<1> QED
  BY <1>1, <1>2, <1>3, <1>4 DEF Working, Saw

LEMMA ExpireWorks ==
  ASSUME TypeOK, NEW h \in Handlers, Expire(h), Working(h), Saw(h)
  PROVE  Working(h)' /\ Saw(h)'
<1>1. /\ req[h].pc = "expire" /\ req'[h].pc = "count" /\ req'[h].user = req[h].user
      /\ req'[h].cutoff = req[h].cutoff /\ req'[h].doomed = req[h].doomed
      /\ req'[h].seen = req[h].seen
  BY Went DEF Expire, Labels
<1>2. /\ UNCHANGED <<today, created, owner, born>>
      /\ stored' = stored \ {a \in RowsOf(req[h].user) : born[a] < req[h].cutoff}
  BY DEF Expire
<1>3. ASSUME NEW a \in RowsOf(req[h].user)' PROVE born[a] >= req[h].cutoff
  <2>1. a \in RowsOf(req[h].user) /\ ~(born[a] < req[h].cutoff)
    BY <1>1, <1>2 DEF RowsOf
  <2>2. a \in Row /\ req[h] \in Request
    BY <2>1, RowsAreRows DEF RowsOf, TypeOK
  <2>3. born[a] \in Int /\ req[h].cutoff \in Int
    BY <2>2, RequestFields DEF TypeOK, Day
  <2> QED
    BY <2>1, <2>3
<1>4. RowsOf(req[h].user)' = {a \in stored' : owner[a] = req'[h].user}
  BY <1>2 DEF RowsOf
<1> QED
  BY <1>1, <1>2, <1>3, <1>4 DEF Working, Saw

LEMMA CountWorks ==
  ASSUME TypeOK, NEW h \in Handlers, Count(h), Working(h), Saw(h)
  PROVE  Working(h)' /\ Saw(h)'
<1>1. req[h].pc = "count" /\ UNCHANGED <<today, created, stored, owner, born>>
  BY DEF Count, Counts, table
<1>2. RowsOf(req[h].user)' = RowsOf(req[h].user)
  BY <1>1, CountSlot DEF RowsOf
<1>3. Counted(h)' = RowsOf(req[h].user)
  BY <1>2, CountSlot DEF Counted, RowsOf
<1>4. req[h] \in Request /\ created \in Nat
  BY ArchivesAssumption DEF TypeOK
<1>5. Cardinality(RowsOf(req[h].user)) \in Nat
  BY RowsFinite, RowsAreRows, ArchivesAssumption DEF RowsOf
<1>6. req'[h].pc = "find" =>
        Cardinality(RowsOf(req[h].user)) <= maxCount[req[h].tier] + req'[h].excess
  BY <1>5, CountSlot
<1>7. req'[h].pc = "done" => Cardinality(RowsOf(req[h].user)) <= maxCount[req[h].tier]
  BY CountSlot
<1>8. /\ req'[h].doomed = {} /\ req'[h].seen = RowsOf(req[h].user) /\ req'[h].tier = req[h].tier
      /\ req'[h].pc \in {"find", "done"} /\ req'[h].cutoff = req[h].cutoff
      /\ req'[h].user = req[h].user /\ req[h].cutoff <= today
  BY <1>1, CountSlot DEF Working
<1>9. \A a \in RowsOf(req[h].user) : born[a] >= req[h].cutoff
  BY <1>1 DEF Working
<1>10. RowsOf(req[h].user) \subseteq 1..created /\ \A a \in RowsOf(req[h].user) : owner[a] = req[h].user
  BY DEF RowsOf, TypeOK
<1>11. req'[h].pc = "find" =>
         Cardinality(RowsOf(req[h].user)) = maxCount[req[h].tier] + req'[h].excess
  BY CountSlot
<1>12. Saw(h)'
  BY <1>1, <1>8, <1>10, <1>11 DEF Saw
<1> QED
  BY <1>1, <1>2, <1>3, <1>4, <1>6, <1>7, <1>8, <1>9, <1>12 DEF Working

LEMMA FindOldestWorks ==
  ASSUME TypeOK, NEW h \in Handlers, FindOldest(h), Working(h), Saw(h)
  PROVE  Working(h)' /\ Saw(h)'
<1> DEFINE R == RowsOf(req[h].user)
           C == Counted(h)
<1>1. PICK D \in SUBSET R :
        /\ \/ Cardinality(D) = req[h].excess
           \/ D = R /\ Cardinality(D) < req[h].excess
        /\ IsOldest(D, R)
        /\ req'[h].pc = "trim" /\ req'[h].user = req[h].user /\ req'[h].tier = req[h].tier
        /\ req'[h].cutoff = req[h].cutoff /\ req'[h].seen = req[h].seen
        /\ req'[h].excess = req[h].excess /\ req'[h].doomed = D
  BY FindOldestSlot
<1>2. req[h].pc = "find" /\ UNCHANGED <<today, created, stored, owner, born>>
  BY DEF FindOldest, table
<1>3. RowsOf(req[h].user)' = R /\ Counted(h)' = C
  BY <1>1, <1>2 DEF RowsOf, Counted
<1>4. /\ R \subseteq 1..created /\ R \subseteq Row /\ C = R \cap req[h].seen
      /\ \A a \in R : owner[a] = req[h].user
  BY RowsAreRows DEF TypeOK, RowsOf, Counted
<1>5. req[h] \in Request /\ created \in Nat
  BY ArchivesAssumption DEF TypeOK
<1>6. /\ maxCount[req[h].tier] \in Nat /\ req[h].excess \in Nat
      /\ req[h].tier = req'[h].tier
  BY <1>1, <1>5, RequestFields, ArchivesAssumption
<1>7. /\ Cardinality(C) <= maxCount[req[h].tier] + req[h].excess
      /\ req[h].cutoff <= today
      /\ \A a \in R : born[a] >= req[h].cutoff
  BY <1>2 DEF Working
<1>11. /\ \A x \in R : x \in Nat
       /\ \A c \in C, d \in R \ C : c < d
  BY <1>2, <1>4, <1>5 DEF Working
<1>12. C \subseteq R
  BY <1>4
<1> HIDE DEF R, C
<1>8. \A a \in D, b \in R \ D : a < b
  BY <1>1 DEF IsOldest
<1>9. Cardinality(C \ D) <= maxCount[req[h].tier]
  <2>1. CASE C \ D = {}
    BY <2>1, <1>6, FS_EmptySet
  <2>2. CASE D \subseteq C /\ Cardinality(D) = req[h].excess
    <3>1. IsFiniteSet(C) /\ Cardinality(C) \in Nat
      BY <1>4, RowsFinite, ArchivesAssumption
    <3>2. Cardinality(C \ D) = Cardinality(C) - Cardinality(C \cap D)
      BY <3>1, FS_Difference
    <3>3. C \cap D = D
      BY <2>2
    <3>4. Cardinality(C \ D) = Cardinality(C) - req[h].excess
      BY <2>2, <3>2, <3>3
    <3>5. PICK c, m, e : c = Cardinality(C) /\ m = maxCount[req[h].tier] /\ e = req[h].excess
      OBVIOUS
    <3>6. c \in Nat /\ m \in Nat /\ e \in Nat /\ c <= m + e
      BY <1>6, <1>7, <3>1, <3>5
    <3>7. c - e <= m
      BY <3>6
    <3> QED
      BY <3>4, <3>5, <3>7
  <2>3. CASE D = R
    BY <1>4, <2>1, <2>3
  <2>4. ASSUME ~(D \subseteq C) PROVE C \ D = {}
    <3>1. PICK d \in D : d \notin C
      BY <2>4
    <3>2. d \in R
      BY <1>1, <3>1
    <3>3. ASSUME NEW c \in C \ D PROVE FALSE
      <4>1. c \in R \ D /\ c \in Nat /\ d \in Nat
        BY <1>11, <1>12, <3>2, <3>3
      <4>2. d < c /\ c < d
        BY <1>8, <1>11, <3>1, <3>2, <3>3, <4>1
      <4> QED
        BY <4>1, <4>2
    <3> QED
      BY <3>3
  <2> QED
    BY <1>1, <2>1, <2>2, <2>3, <2>4
<1>10. D \subseteq 1..created /\ \A a \in D : owner[a] = req[h].user
  BY <1>4
<1>13. Saw(h)'
  <2>1. D \in SUBSET Row
    BY <1>4
  <2>2. Cardinality(D) \in 0..MaxRows
    BY <2>1, RowsFinite
  <2>3. Cardinality(D) <= req[h].excess
    BY <1>1, <1>6, <2>2, ArchivesAssumption
  <2> QED
    BY <1>1, <1>2, <2>3 DEF Saw
<1> QED
  BY <1>1, <1>2, <1>3, <1>6, <1>7, <1>8, <1>9, <1>10, <1>13 DEF Working

LEMMA TrimWorks ==
  ASSUME TypeOK, NEW h \in Handlers, Trim(h), Working(h), Saw(h)
  PROVE  Working(h)' /\ Saw(h)'
<1>1. /\ req[h].pc = "trim" /\ req'[h].pc = "done" /\ req'[h].user = req[h].user
      /\ req'[h].cutoff = req[h].cutoff /\ req'[h].doomed = req[h].doomed
      /\ req'[h].seen = req[h].seen /\ req'[h].tier = req[h].tier
  BY Went DEF Trim, Labels
<1>2. /\ UNCHANGED <<today, created, owner, born>> /\ stored' = stored \ req[h].doomed
  BY DEF Trim
<1>3. RowsOf(req[h].user)' \subseteq RowsOf(req[h].user)
  BY <1>1, <1>2 DEF RowsOf
<1> DEFINE C  == Counted(h)'
           C0 == Counted(h) \ req[h].doomed
<1>4. C \subseteq C0
  BY <1>1, <1>2 DEF RowsOf, Counted
<1>5. C0 \in SUBSET Row /\ C \in SUBSET Row
  BY <1>4, RowsAreRows DEF RowsOf, Counted
<1>6. req[h] \in Request
  BY DEF TypeOK
<1>7. maxCount[req[h].tier] \in Nat
  BY <1>6, RequestFields, ArchivesAssumption
<1>8. Cardinality(C0) <= maxCount[req[h].tier]
  BY <1>1 DEF Working
<1> HIDE DEF C, C0
<1>9. Cardinality(C) <= maxCount[req[h].tier]
  BY <1>4, <1>5, <1>7, <1>8, RowsFinite, ArchivesAssumption
<1>10. Cardinality(Counted(h)') <= maxCount[req[h].tier]
  BY <1>9 DEF C
<1>11. /\ req[h].doomed \subseteq 1..created
       /\ \A a \in req[h].doomed : owner[a] = req[h].user
       /\ req[h].cutoff <= today /\ \A a \in RowsOf(req[h].user) : born[a] >= req[h].cutoff
  BY <1>1 DEF Working
<1>12. Saw(h)'
  BY <1>1, <1>2 DEF Saw
<1> QED
  BY <1>1, <1>2, <1>3, <1>10, <1>11, <1>12 DEF Working

LEMMA WorkingStep ==
  TypeOK /\ TypeOK' /\ InOrder /\ AllWorking /\ [Next]_vars => AllWorking'
<1> SUFFICES ASSUME TypeOK, TypeOK', InOrder, AllWorking, [Next]_vars, NEW g \in Handlers
             PROVE  Working(g)' /\ Saw(g)'
  BY DEF AllWorking
<1>0. Aged /\ Working(g) /\ Saw(g)
  BY AgedStep DEF AllWorking
<1>1. ASSUME req'[g] = req[g] PROVE Working(g)' /\ Saw(g)'
  BY <1>0, <1>1, StaysWorking
<1>2. ASSUME NEW h \in Handlers, Step(h) PROVE Working(g)' /\ Saw(g)'
  <2>1. CASE g # h
    <3>1. \A k \in Handlers \ {h} : req'[k] = req[k]
      <4>1. CASE FindAll(h)
        BY <4>1, FindAllSlot
      <4>2. CASE Count(h)
        BY <4>2, CountSlot
      <4>3. CASE FindOldest(h)
        BY <4>3, FindOldestSlot
      <4>4. CASE FindOwn(h)
        BY <4>4, FindOwnSlot
      <4>5. CASE Expire(h) \/ Trim(h)
        BY <4>5, Went DEF Expire, Trim, Labels
      <4>6. CASE CleanedUp(h) \/ Remove(h) \/ Fail(h)
        BY <4>6, Returned DEF CleanedUp, Remove, Fail
      <4> QED
        BY <1>2, <4>1, <4>2, <4>3, <4>4, <4>5, <4>6 DEF Step
    <3> QED
      BY <1>1, <2>1, <3>1
  <2>2. CASE g = h
    <3>0. today' = today /\ created' = created
      BY <1>2, StepTable
    <3>1. CASE FindAll(h)
      BY <2>2, <3>0, <3>1, FindAllSlot, NothingToDo
    <3>2. CASE Expire(h)
      BY <1>0, <2>2, <3>2, ExpireWorks
    <3>3. CASE Count(h)
      BY <1>0, <2>2, <3>3, CountWorks
    <3>4. CASE FindOldest(h)
      BY <1>0, <2>2, <3>4, FindOldestWorks
    <3>5. CASE Trim(h)
      BY <1>0, <2>2, <3>5, TrimWorks
    <3>6. CASE FindOwn(h)
      BY <2>2, <3>6, FindOwnWorks
    <3>7. CASE CleanedUp(h) \/ Remove(h) \/ Fail(h)
      <4>1. Return(h)
        BY <3>7 DEF CleanedUp, Remove, Fail
      <4>2. req'[h].seen = {} /\ req'[h].pc = "idle" /\ req'[h].doomed = {}
        BY <4>1, Returned
      <4> QED
        BY <2>2, <3>0, <4>2, NothingToDo
    <3> QED
      BY <1>2, <3>1, <3>2, <3>3, <3>4, <3>5, <3>6, <3>7 DEF Step
  <2> QED
    BY <2>1, <2>2
<1>3. ASSUME NEW u \in Users, CreateArchive(u) \/ UpdateTier(u) PROVE Working(g)' /\ Saw(g)'
  BY <1>1, <1>3 DEF CreateArchive, UpdateTier
<1>4. CASE Midnight \/ UNCHANGED vars
  BY <1>1, <1>4 DEF Midnight, vars
<1> QED
  BY <1>2, <1>3, <1>4 DEF Next, Step

-----------------------------------------------------------------------------
(* A row that comes is the newest, a row that Expire keeps is of a later   *)
(* day than one it deletes, and Trim deletes what is oldest even now.      *)
LEMMA OldestStep ==
  TypeOK /\ InOrder /\ AllWorking /\ OldestGoFirst /\ [Next]_vars => OldestGoFirst'
<1> SUFFICES ASSUME TypeOK, InOrder, AllWorking, OldestGoFirst, [Next]_vars
             PROVE  OldestGoFirst'
  OBVIOUS
<1>0. /\ created \in Nat /\ 1..created \subseteq Row
      /\ stored \subseteq 1..created /\ trashed \subseteq 1..created
      /\ \A a \in 1..created : a \in Nat /\ born[a] \in Int
  BY ArchivesAssumption DEF TypeOK, Day, Row
<1>1. ASSUME NEW u \in Users, CreateArchive(u) PROVE OldestGoFirst'
  <2> SUFFICES ASSUME NEW a \in trashed', NEW b \in stored', owner'[a] = owner'[b]
               PROVE  a < b
    BY DEF OldestGoFirst
  <2>1. /\ trashed' = trashed /\ stored' = stored \cup {created'} /\ created' = created + 1
        /\ \A c \in 1..created : c # created' /\ owner'[c] = owner[c]
    BY <1>0, <1>1, CreateTable
  <2>2. CASE b \in stored
    BY <1>0, <2>1, <2>2 DEF OldestGoFirst
  <2>3. CASE b = created'
    <3>1. a \in 1..created
      BY <1>0, <2>1
    <3> QED
      BY <1>0, <2>1, <2>3, <3>1
  <2> QED
    BY <2>1, <2>2, <2>3
<1>2. ASSUME NEW h \in Handlers, Expire(h) PROVE OldestGoFirst'
  <2> SUFFICES ASSUME NEW a \in trashed', NEW b \in stored', owner'[a] = owner'[b]
               PROVE  a < b
    BY DEF OldestGoFirst
  <2> DEFINE old == {c \in RowsOf(req[h].user) : born[c] < req[h].cutoff}
  <2>1. owner' = owner /\ stored' = stored \ old /\ trashed' = trashed \cup old
    BY <1>2 DEF Expire
  <2>2. CASE a \in trashed
    BY <2>1, <2>2 DEF OldestGoFirst
  <2>3. CASE a \in old
    <3>1. a \in 1..created /\ b \in 1..created /\ b \in RowsOf(req[h].user)
      BY <1>0, <2>1, <2>3 DEF RowsOf
    <3>2. born[a] < req[h].cutoff /\ ~(born[b] < req[h].cutoff)
      BY <2>1, <2>3, <3>1
    <3>3. req[h].cutoff \in Int
      BY RequestFields DEF TypeOK
    <3>4. b < a => born[b] <= born[a]
      BY <3>1 DEF InOrder
    <3>5. born[a] \in Int /\ born[b] \in Int /\ a \in Nat /\ b \in Nat /\ a # b
      BY <1>0, <3>1, <3>2
    <3> QED
      BY <3>2, <3>3, <3>4, <3>5
  <2> QED
    BY <2>1, <2>2, <2>3
<1>3. ASSUME NEW h \in Handlers, Trim(h) PROVE OldestGoFirst'
  <2> SUFFICES ASSUME NEW a \in trashed', NEW b \in stored', owner'[a] = owner'[b]
               PROVE  a < b
    BY DEF OldestGoFirst
  <2>1. /\ owner' = owner /\ stored' = stored \ req[h].doomed
        /\ trashed' = trashed \cup (req[h].doomed \cap stored) /\ req[h].pc = "trim"
    BY <1>3 DEF Trim
  <2>2. CASE a \in trashed
    BY <2>1, <2>2 DEF OldestGoFirst
  <2>3. CASE a \in req[h].doomed
    <3>1. Working(h)
      BY DEF AllWorking
    <3>2. owner[a] = req[h].user
      BY <2>3, <3>1 DEF Working
    <3>3. b \in RowsOf(req[h].user) \ req[h].doomed
      BY <2>1, <3>2 DEF RowsOf
    <3> QED
      BY <2>1, <2>3, <3>1, <3>3 DEF Working
  <2> QED
    BY <2>1, <2>2, <2>3
<1>4. ASSUME owner' = owner, stored' \subseteq stored, trashed' = trashed
      PROVE  OldestGoFirst'
  BY <1>4 DEF OldestGoFirst
<1>5. ASSUME NEW h \in Handlers, Step(h) PROVE OldestGoFirst'
  <2>1. CASE Expire(h) \/ Trim(h)
    BY <1>2, <1>3, <2>1
  <2>2. CASE ~(Expire(h) \/ Trim(h))
    <3>1. trashed' = trashed
      BY <1>5, <2>2 DEF Step, FindAll, Count, Counts, FindOldest, CleanedUp, FindOwn, Remove, Fail
    <3> QED
      BY <1>4, <1>5, <3>1, StepTable
  <2> QED
    BY <2>1, <2>2
<1>6. ASSUME NEW u \in Users, UpdateTier(u) PROVE OldestGoFirst'
  BY <1>4, <1>6 DEF UpdateTier, table
<1>7. CASE Midnight \/ UNCHANGED vars
  BY <1>4, <1>7 DEF Midnight, vars, table
<1> QED
  BY <1>1, <1>5, <1>6, <1>7 DEF Next, Step

-----------------------------------------------------------------------------
LEMMA InvInit == Init => IInv
<1> SUFFICES ASSUME Init PROVE IInv
  OBVIOUS
<1>1. TypeOK
  BY IdleIsRequest, ArchivesAssumption DEF Init, TypeOK, Day, Row
<1>2. InOrder
  BY DEF Init, InOrder
<1>3. AllWorking
  BY IdleIsRequest DEF Init, AllWorking, Working, Saw
<1>4. OldestGoFirst
  BY DEF Init, OldestGoFirst
<1> QED
  BY <1>1, <1>2, <1>3, <1>4 DEF IInv

(* The inductive invariant: archives are in the order of their days, and   *)
(* each clean-up has achieved what its statements so far were to achieve.  *)
THEOREM Invariance == Spec => []IInv
<1>1. IInv /\ [Next]_vars => IInv'
  BY TypeStep, InOrderStep, WorkingStep, OldestStep DEF IInv
<1> QED
  BY <1>1, InvInit, PTL DEF Spec

(* The tables and the slots of archives.service.ts have their types.       *)
THEOREM TypeCorrect == Spec => []TypeOK
<1>1. IInv => TypeOK
  BY DEF IInv
<1> QED
  BY <1>1, Invariance, PTL

(* Clean-ups (archives.service.ts:178-208) delete oldest first, whatever   *)
(* runs beside them.                                                       *)
THEOREM OldestFirst == Spec => []OldestGoFirst
<1>1. IInv => OldestGoFirst
  BY DEF IInv
<1> QED
  BY <1>1, Invariance, PTL

(* A clean-up that has ended kept its promise on what it counted.          *)
THEOREM CleansUp == Spec => []CleanupComplete
<1>1. IInv => CleanupComplete
  BY DEF IInv, AllWorking, Working, Counted, CleanupComplete
<1> QED
  BY <1>1, Invariance, PTL

(* What others deleted since the count bounds what a clean-up deletes too  *)
(* many (archives.service.ts:190-208), however many clean-ups and removals *)
(* overlap: of the maximum and the excess that it counted, it deletes the  *)
(* excess at most, and every other one is still there or was deleted by    *)
(* another request.                                                        *)
THEOREM TrimsTheExcess == Spec => []ExcessAsCounted
<1>1. ASSUME IInv, NEW h \in Handlers, req[h].pc = "trim"
      PROVE  Cardinality(RowsOf(req[h].user) \ req[h].doomed)
               + Cardinality(req[h].seen \ stored) >= maxCount[req[h].tier]
  <2> DEFINE S == req[h].seen
             D == req[h].doomed
             K == RowsOf(req[h].user) \ D
             G == S \ stored
             L == S \ G
             m == maxCount[req[h].tier]
             x == req[h].excess
  <2>1. /\ TypeOK /\ req[h] \in Request
        /\ \A a \in S : owner[a] = req[h].user
        /\ Cardinality(S) = m + x /\ Cardinality(D) <= x
    BY <1>1 DEF IInv, TypeOK, AllWorking, Saw
  <2>2. S \in SUBSET Row /\ D \in SUBSET Row /\ x \in Nat /\ m \in Nat
    BY <2>1, RequestFields, ArchivesAssumption
  <2>3. K \in SUBSET Row /\ G \in SUBSET S /\ L \in SUBSET Row /\ L \cap D \in SUBSET D
    BY <2>1, <2>2, RowsAreRows DEF RowsOf
  <2>4. L \ D \in SUBSET K
    BY <2>1 DEF RowsOf
  <2> HIDE DEF S, D, K, G, m, x
  <2>5. /\ IsFiniteSet(S) /\ IsFiniteSet(L)
        /\ Cardinality(S) \in Nat /\ Cardinality(G) \in Nat /\ Cardinality(L) \in Nat
        /\ Cardinality(K) \in Nat /\ Cardinality(D) \in Nat
        /\ Cardinality(L \ D) \in Nat /\ Cardinality(L \cap D) \in Nat
    <3>1. G \in SUBSET Row /\ L \ D \in SUBSET Row /\ L \cap D \in SUBSET Row
      BY <2>2, <2>3
    <3> QED
      BY <2>2, <2>3, <3>1, RowsFinite, ArchivesAssumption
  <2>6. Cardinality(L \ D) <= Cardinality(K) /\ Cardinality(L \cap D) <= Cardinality(D)
    BY <2>2, <2>3, <2>4, RowsFinite
  <2>7. /\ Cardinality(L) = Cardinality(S) - Cardinality(G)
        /\ Cardinality(L \ D) = Cardinality(L) - Cardinality(L \cap D)
    <3>1. S \cap G = G
      BY <2>3
    <3> QED
      BY <2>5, <3>1, FS_Difference
  <2>8. Cardinality(K) + Cardinality(G) >= m
    BY <2>1, <2>2, <2>5, <2>6, <2>7
  <2> QED
    BY <2>8 DEF K, G, S, D, m
<1>2. IInv => ExcessAsCounted
  BY <1>1 DEF ExcessAsCounted
<1> QED
  BY <1>2, Invariance, PTL

-----------------------------------------------------------------------------
(* What a clean-up counted and found, if nothing deletes beside it: the    *)
(* user has at least the tier's maximum and the excess, which it trims.    *)
Untouched(h) ==
  LET rows == RowsOf(req[h].user) IN
  /\ req[h].pc = "find" => Cardinality(rows) >= maxCount[req[h].tier] + req[h].excess
  /\ req[h].pc = "trim" => Cardinality(rows \ req[h].doomed) >= maxCount[req[h].tier]

LEMMA RowsGrow ==
  ASSUME TypeOK, TypeOK', NEW h \in Handlers, Untouched(h), req' = req, UNCHANGED <<tier>>,
         RowsOf(req[h].user) \subseteq RowsOf(req[h].user)'
  PROVE  Untouched(h)'
<1> DEFINE A == RowsOf(req[h].user)
           B == RowsOf(req[h].user)'
<1>1. A \in SUBSET Row /\ B \in SUBSET Row
  <2>1. A \subseteq stored /\ B \subseteq stored'
    BY DEF RowsOf
  <2>2. stored \subseteq Row /\ stored' \subseteq Row
    BY ArchivesAssumption DEF TypeOK, Row
  <2> QED
    BY <2>1, <2>2
<1>2. A \ req[h].doomed \in SUBSET Row /\ B \ req[h].doomed \in SUBSET Row
      /\ A \ req[h].doomed \in SUBSET (B \ req[h].doomed) /\ A \in SUBSET B
  BY <1>1
<1>3. req[h] \in Request
  BY DEF TypeOK
<1>4. maxCount[req[h].tier] \in Nat /\ req[h].excess \in Nat /\ MaxRows \in Nat
  BY <1>3, RequestFields, ArchivesAssumption
<1> HIDE DEF A, B
<1>5. /\ Cardinality(A) \in Nat /\ Cardinality(B) \in Nat /\ Cardinality(A) <= Cardinality(B)
      /\ Cardinality(A \ req[h].doomed) \in Nat /\ Cardinality(B \ req[h].doomed) \in Nat
      /\ Cardinality(A \ req[h].doomed) <= Cardinality(B \ req[h].doomed)
  BY <1>1, <1>2, <1>4, RowsFinite
<1>6. /\ req[h].pc = "find" => Cardinality(A) >= maxCount[req[h].tier] + req[h].excess
      /\ req[h].pc = "trim" => Cardinality(A \ req[h].doomed) >= maxCount[req[h].tier]
  BY DEF Untouched, A
<1>7. /\ req[h].pc = "find" => Cardinality(B) >= maxCount[req[h].tier] + req[h].excess
      /\ req[h].pc = "trim" => Cardinality(B \ req[h].doomed) >= maxCount[req[h].tier]
  BY <1>4, <1>5, <1>6
<1> QED
  BY <1>7 DEF Untouched, B

LEMMA FindOldestUntouched ==
  ASSUME TypeOK, NEW h \in Handlers, Untouched(h), FindOldest(h)
  PROVE  Untouched(h)'
<1> DEFINE rows == RowsOf(req[h].user)
<1>1. PICK D \in SUBSET rows :
        /\ Cardinality(D) = req[h].excess \/ (D = rows /\ Cardinality(D) < req[h].excess)
        /\ req' = [req EXCEPT ![h].pc = "trim", ![h].doomed = D]
  BY DEF FindOldest
<1>2. req[h] \in Request /\ rows \in SUBSET Row
  BY RowsAreRows DEF TypeOK, RowsOf
<1>3. /\ req'[h].pc = "trim" /\ req'[h].doomed = D /\ req'[h].user = req[h].user
      /\ req'[h].tier = req[h].tier
  BY <1>1, <1>2 DEF TypeOK, Request
<1>4. maxCount[req[h].tier] \in Nat /\ req[h].excess \in Nat /\ MaxRows \in Nat
  BY <1>2, RequestFields, ArchivesAssumption
<1>5. RowsOf(req[h].user)' = rows
  <2>1. stored' = stored /\ owner' = owner /\ req[h].user = req'[h].user
    BY <1>3 DEF FindOldest, table
  <2> QED
    BY <2>1 DEF RowsOf
<1> HIDE DEF rows
<1>6. /\ IsFiniteSet(rows) /\ Cardinality(rows) \in Nat
  BY <1>2, <1>4, RowsFinite
<1>7. Cardinality(rows) >= maxCount[req[h].tier] + req[h].excess
  BY DEF FindOldest, Untouched, rows
<1>8. Cardinality(D) = req[h].excess
  BY <1>1, <1>4, <1>6, <1>7
<1>9. Cardinality(rows \ D) = Cardinality(rows) - Cardinality(D)
  <2>1. rows \cap D = D
    OBVIOUS
  <2> QED
    BY <1>6, <2>1, FS_Difference
<1>10. Cardinality(rows \ D) >= maxCount[req[h].tier]
  BY <1>4, <1>6, <1>7, <1>8, <1>9
<1> QED
  BY <1>3, <1>5, <1>10 DEF Untouched, rows

LEMMA UntouchedStep ==
  ASSUME NEW h, Handlers = {h}
  PROVE  TypeOK /\ TypeOK' /\ Untouched(h) /\ [Next]_vars => Untouched(h)'
<1> SUFFICES ASSUME TypeOK, TypeOK', Untouched(h), [Next]_vars PROVE Untouched(h)'
  OBVIOUS
<1>0. h \in Handlers
  OBVIOUS
<1>1. CASE FindAll(h) \/ Expire(h) \/ Trim(h) \/ CleanedUp(h) \/ FindOwn(h) \/ Remove(h) \/ Fail(h)
  <2>1. req'[h].pc \notin {"find", "trim"}
    <3>1. CASE FindAll(h)
      BY <1>0, <3>1, FindAllSlot
    <3>2. CASE FindOwn(h)
      BY <1>0, <3>2, FindOwnSlot
    <3>3. CASE Expire(h)
      BY <1>0, <3>3, Went DEF Expire, Labels
    <3>4. CASE Trim(h)
      BY <1>0, <3>4, Went DEF Trim, Labels
    <3>5. CASE CleanedUp(h) \/ Remove(h) \/ Fail(h)
      BY <1>0, <3>5, Returned DEF CleanedUp, Remove, Fail
    <3> QED
      BY <1>1, <3>1, <3>2, <3>3, <3>4, <3>5
  <2> QED
    BY <2>1 DEF Untouched
<1>2. CASE Count(h)
  <2>1. /\ req'[h].user = req[h].user /\ req'[h].tier = req[h].tier
        /\ req'[h].pc \in {"find", "done"}
        /\ req'[h].pc = "find" =>
             Cardinality(RowsOf(req[h].user)) = maxCount[req[h].tier] + req'[h].excess
    BY <1>0, <1>2, CountSlot
  <2>2. RowsOf(req[h].user)' = RowsOf(req[h].user)
    BY <1>2, <2>1 DEF Count, Counts, table, RowsOf
  <2>3. Cardinality(RowsOf(req[h].user)) \in Nat
    <3>1. RowsOf(req[h].user) \in SUBSET Row
      BY RowsAreRows DEF RowsOf
    <3> QED
      BY <3>1, RowsFinite, ArchivesAssumption
  <2>4. req'[h].pc = "find" =>
          Cardinality(RowsOf(req[h].user)') >= maxCount[req'[h].tier] + req'[h].excess
    BY <2>1, <2>2, <2>3
  <2> QED
    BY <2>1, <2>4 DEF Untouched
<1>3. CASE FindOldest(h)
  BY <1>0, <1>3, FindOldestUntouched
<1>4. ASSUME NEW u \in Users, CreateArchive(u) PROVE Untouched(h)'
  <2>1. req' = req /\ UNCHANGED <<tier>>
    BY <1>4, CreateTable
  <2>2. ASSUME NEW a \in RowsOf(req[h].user) PROVE a \in RowsOf(req[h].user)'
    <3>1. a \in stored /\ a \in 1..created /\ a \in Row /\ owner[a] = req[h].user
      BY RowsAreRows DEF RowsOf, TypeOK
    <3>2. a \in stored' /\ owner'[a] = owner[a]
      BY <1>4, <3>1, CreateTable
    <3> QED
      BY <2>1, <3>1, <3>2 DEF RowsOf
  <2> QED
    BY <1>0, <2>1, <2>2, RowsGrow
<1>5. ASSUME UNCHANGED <<table, req>> PROVE Untouched(h)'
  BY <1>5 DEF Untouched, RowsOf, table
<1>6. ASSUME NEW u \in Users, UpdateTier(u) PROVE Untouched(h)'
  BY <1>5, <1>6 DEF UpdateTier
<1>7. CASE Midnight \/ UNCHANGED vars
  BY <1>5, <1>7 DEF Midnight, vars
<1> QED
  BY <1>1, <1>2, <1>3, <1>4, <1>6, <1>7 DEF Next

(* archives-integration.spec.ts:334 is wrong by overlapping requests only: *)
(* if nothing else of this service runs beside a clean-up, new archives and*)
(* changes of the tier excepted, it deletes by count only the excess, and  *)
(* leaves as many archives as the tier keeps (archives.service.ts:190-208).*)
THEOREM AloneExcessOnly ==
  ASSUME NEW one, Handlers = {one}
  PROVE  Spec => []ExcessOnly
<1>1. Init => Untouched(one)
  BY DEF Init, Untouched, Idle, Started
<1>2. TypeOK /\ TypeOK' /\ Untouched(one) /\ [Next]_vars => Untouched(one)'
  BY UntouchedStep
<1>3. Untouched(one) => ExcessOnly
  BY DEF Untouched, ExcessOnly
<1> QED
  BY <1>1, <1>2, <1>3, TypeCorrect, PTL DEF Spec

-----------------------------------------------------------------------------
(* A step that removes rows of one user only is a step of OwnedRows.       *)
LEMMA DeleteRefines ==
  ASSUME TypeOK, NEW u \in Users, UNCHANGED <<created, owner>>, NEW D,
         stored' = stored \ D, \A a \in D : owner[a] = u
  PROVE  Owned!ONext
<1> DEFINE E == D \cap stored
<1>0. created \in Nat
  BY ArchivesAssumption DEF TypeOK
<1>1. E \in SUBSET Row /\ \A a \in stored : a \in 1..created
  BY RowsAreRows DEF TypeOK
<1>2. \A a \in E : rowState[a] = "stored" /\ owner[a] = u
  BY <1>0, <1>1 DEF rowState
<1>3. rowState' = [a \in Row |-> IF a \in E THEN "removed" ELSE rowState[a]]
  <2>1. \A a \in Row : a \in E => ~(a > created)
    BY <1>0, <1>1
  <2>2. \A a \in Row : a \in stored' <=> a \in stored /\ a \notin E
    OBVIOUS
  <2> HIDE DEF E
  <2> QED
    BY <2>1, <2>2 DEF rowState
<1> HIDE DEF E
<1>4. Owned!Delete(u, E)
  BY <1>2, <1>3 DEF Owned!Delete
<1> QED
  BY <1>1, <1>4 DEF Owned!ONext

LEMMA RefinedStep == IInv /\ [Next]_vars => [Owned!ONext]_(Owned!ovars)
<1> SUFFICES ASSUME IInv, [Next]_vars PROVE [Owned!ONext]_(Owned!ovars)
  OBVIOUS
<1>0. TypeOK /\ InOrder /\ AllWorking
  BY DEF IInv
<1>1. ASSUME UNCHANGED <<created, stored, owner>> PROVE UNCHANGED Owned!ovars
  BY <1>1 DEF Owned!ovars, rowState
<1>2. ASSUME NEW u \in Users, CreateArchive(u) PROVE Owned!ONext
  <2>1. /\ created' = created + 1 /\ created' \in Row /\ created \in Nat
        /\ stored' = stored \cup {created'}
    BY <1>0, <1>2, CreateTable
  <2>2. PICK n \in Row : n = created'
    BY <2>1
  <2>3. owner' = [owner EXCEPT ![n] = u]
    BY <1>2, <2>2 DEF CreateArchive
  <2>4. rowState[n] = "unused" /\ rowState' = [rowState EXCEPT ![n] = "stored"]
    <3>1. n > created /\ ~(n > created')
      BY <2>1, <2>2
    <3>2. \A a \in Row : a # n => (a > created' <=> a > created) /\ (a \in stored' <=> a \in stored)
      BY <2>1, <2>2 DEF Row
    <3>3. n \in stored'
      BY <2>1, <2>2
    <3> QED
      BY <3>1, <3>2, <3>3 DEF rowState
  <2>5. Owned!New(n, u)
    BY <2>3, <2>4 DEF Owned!New
  <2> QED
    BY <2>5 DEF Owned!ONext
<1>3. ASSUME NEW h \in Handlers, NEW D, stored' = stored \ D,
             UNCHANGED <<created, owner>>, \A a \in D : owner[a] = req[h].user
      PROVE  [Owned!ONext]_(Owned!ovars)
  <2>1. CASE req[h].user \in Users
    BY <1>0, <1>3, <2>1, DeleteRefines
  <2>2. CASE req[h].user \notin Users
    <3>1. D \cap stored = {}
      BY <1>0, <1>3, <2>2 DEF TypeOK, InOrder
    <3> QED
      BY <1>1, <1>3, <3>1
  <2> QED
    BY <2>1, <2>2
<1>4. ASSUME NEW h \in Handlers, Expire(h) PROVE [Owned!ONext]_(Owned!ovars)
  <2> DEFINE old == {a \in RowsOf(req[h].user) : born[a] < req[h].cutoff}
  <2>1. stored' = stored \ old /\ UNCHANGED <<created, owner>>
    BY <1>4 DEF Expire
  <2>2. \A a \in old : owner[a] = req[h].user
    BY DEF RowsOf
  <2> HIDE DEF old
  <2> QED
    BY <1>3, <2>1, <2>2
<1>5. ASSUME NEW h \in Handlers, Trim(h) \/ Remove(h) PROVE [Owned!ONext]_(Owned!ovars)
  <2>1. stored' = stored \ req[h].doomed /\ UNCHANGED <<created, owner>>
    BY <1>5 DEF Trim, Remove
  <2>2. \A a \in req[h].doomed : owner[a] = req[h].user
    BY <1>0 DEF AllWorking, Working
  <2> QED
    BY <1>3, <2>1, <2>2
<1>6. ASSUME NEW h \in Handlers,
             FindAll(h) \/ Count(h) \/ FindOldest(h) \/ CleanedUp(h) \/ FindOwn(h) \/ Fail(h)
      PROVE  UNCHANGED Owned!ovars
  BY <1>1, <1>6 DEF FindAll, Count, Counts, FindOldest, CleanedUp, FindOwn, Fail, table
<1>7. ASSUME NEW u \in Users, UpdateTier(u) PROVE UNCHANGED Owned!ovars
  BY <1>1, <1>7 DEF UpdateTier, table
<1>8. CASE Midnight \/ UNCHANGED vars
  BY <1>1, <1>8 DEF Midnight, vars, table
<1> QED
  BY <1>2, <1>4, <1>5, <1>6, <1>7, <1>8 DEF Next

(* The archive table is a table of owned rows, for any number of users,    *)
(* archives and requests: clean-ups, whose last statement deletes by ids,  *)
(* and removals take rows of one user, for good                            *)
(* (archives.service.ts:98-106, 176-218).                                  *)
THEOREM Refinement == Spec => ImplementsOwnedRows
<1>1. Init => Owned!OInit
  BY ArchivesAssumption DEF Init, Owned!OInit, rowState, Row
<1> QED
  BY <1>1, RefinedStep, Invariance, PTL DEF Spec, ImplementsOwnedRows, Owned!OSpec
=============================================================================
