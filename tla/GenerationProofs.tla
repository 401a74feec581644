-------------------------- MODULE GenerationProofs --------------------------
(***************************************************************************)
(* Proofs about Generation, for any number of users and request slots, any *)
(* limits, any length of the day and whatever billing does.                *)
(***************************************************************************)
EXTENDS Generation, FiniteSetTheorems, TLAPS

Labels == {"idle", "today", "create", "archive", "increment"}

LEMMA RequestFields ==
  ASSUME NEW r \in Request
  PROVE  /\ r.pc \in Labels /\ r.user \in Users \cup {None}
         /\ r.kind \in Kind /\ r.day \in Days
         /\ r = Started(r.pc, r.user, r.kind, r.day)
  BY DEF Request, Labels, Started

LEMMA StartedIsRequest ==
  ASSUME NEW l \in Labels, NEW u \in Users \cup {None}, NEW k \in Kind, NEW d \in Days
  PROVE  /\ Started(l, u, k, d) \in Request
         /\ Started(l, u, k, d).pc = l /\ Started(l, u, k, d).user = u
         /\ Started(l, u, k, d).kind = k /\ Started(l, u, k, d).day = d
  BY DEF Started, Request, Labels

DayOf(time) == time \div DayLength

LEMMA DaysPass ==
  \A x, y \in Nat : x <= y => DayOf(x) <= DayOf(y) /\ DayOf(x) \in Nat
<1>1. DayLength \in Nat \ {0}
  BY GenerationAssumption
<1> QED
  BY <1>1 DEF DayOf

LEMMA DayIsDay == 0 \in Days /\ Days \subseteq Nat /\ \A t \in 0..MaxTime : DayOf(t) \in Days
<1>1. MaxTime \in Nat /\ DayLength \in Nat \ {0}
  BY GenerationAssumption
<1>2. DayOf(MaxTime) \in Nat
  BY <1>1, DaysPass
<1>3. ASSUME NEW t \in 0..MaxTime PROVE DayOf(t) \in Nat /\ DayOf(t) <= DayOf(MaxTime)
  BY <1>1, DaysPass
<1>4. Days = 0..DayOf(MaxTime)
  BY DEF Days, DayOf
<1> QED
  BY <1>2, <1>3, <1>4

LEMMA TodayIsDay == now \in 0..MaxTime => Today \in Days /\ 0 \in Days /\ Days \subseteq Nat
<1>1. Today = DayOf(now)
  BY DEF Today, DayOf
<1> QED
  BY <1>1, DayIsDay

LEMMA IdleIsRequest == now \in 0..MaxTime => Idle \in Request /\ Idle.pc = "idle"
  BY StartedIsRequest, TodayIsDay DEF Idle, Labels, Kind

-----------------------------------------------------------------------------
(* What a step does to the slot of its request, and to the others.         *)
LEMMA Went ==
  ASSUME TypeOK, NEW h \in Handlers, NEW l \in Labels, Goto(h, l)
  PROVE  /\ req' \in [Handlers -> Request]
         /\ \A g \in Handlers \ {h} : req'[g] = req[g]
         /\ req'[h].pc = l /\ req'[h].user = req[h].user
         /\ req'[h].kind = req[h].kind /\ req'[h].day = req[h].day
<1> DEFINE r == Started(l, req[h].user, req[h].kind, req[h].day)
<1>1. req[h] \in Request
  BY DEF TypeOK
<1>2. [req[h] EXCEPT !.pc = l] = r
  BY <1>1 DEF Request, Started
<1>3. /\ r \in Request /\ r.pc = l /\ r.user = req[h].user
      /\ r.kind = req[h].kind /\ r.day = req[h].day
  BY <1>1, RequestFields, StartedIsRequest
<1>4. req' = [req EXCEPT ![h] = r]
  BY <1>2 DEF Goto
<1> HIDE DEF r
<1>5. /\ req' \in [Handlers -> Request] /\ req'[h] = r
      /\ \A g \in Handlers \ {h} : req'[g] = req[g]
  BY <1>3, <1>4 DEF TypeOK
<1> QED
  BY <1>3, <1>5

LEMMA Returned ==
  ASSUME TypeOK, NEW h \in Handlers, Return(h)
  PROVE  /\ req' \in [Handlers -> Request]
         /\ \A g \in Handlers \ {h} : req'[g] = req[g]
         /\ req'[h].pc = "idle"
  BY IdleIsRequest DEF TypeOK, Return

LEMMA Began ==
  ASSUME TypeOK, NEW h \in Handlers, Generate(h)
  PROVE  /\ req' \in [Handlers -> Request]
         /\ \A g \in Handlers \ {h} : req'[g] = req[g]
         /\ req'[h].user \in Users
         /\ req'[h].pc = IF Premium(req'[h].user) THEN "archive" ELSE "today"
<1>1. PICK u \in Users, kind \in Kind :
        req' = [req EXCEPT ![h] =
                  Started(IF Premium(u) THEN "archive" ELSE "today", u, kind, 0)]
  BY DEF Generate
<1> DEFINE l == IF Premium(u) THEN "archive" ELSE "today"
           r == Started(l, u, kind, 0)
<1>2. l \in Labels /\ 0 \in Days
  BY TodayIsDay DEF Labels, TypeOK
<1>3. r \in Request /\ r.pc = l /\ r.user = u
  <2> HIDE DEF l
  <2> QED
    BY <1>2, StartedIsRequest
<1>4. req' = [req EXCEPT ![h] = r]
  BY <1>1
<1> HIDE DEF r
<1>5. /\ req' \in [Handlers -> Request] /\ req'[h] = r
      /\ \A g \in Handlers \ {h} : req'[g] = req[g]
  BY <1>3, <1>4 DEF TypeOK
<1> QED
  BY <1>3, <1>5

LEMMA SentToCreate ==
  ASSUME TypeOK, NEW h \in Handlers, FindToday(h), <<req[h].user, Today>> \notin rows
  PROVE  /\ req' \in [Handlers -> Request]
         /\ \A g \in Handlers \ {h} : req'[g] = req[g]
         /\ req'[h].user = req[h].user /\ req'[h].kind = req[h].kind
<1> DEFINE r == Started("create", req[h].user, req[h].kind, Today)
<1>1. req[h] \in Request /\ Today \in Days
  BY TodayIsDay DEF TypeOK
<1>2. r \in Request /\ r.user = req[h].user /\ r.kind = req[h].kind
  BY <1>1, RequestFields, StartedIsRequest DEF Labels
<1>3. req' = [req EXCEPT ![h] = r]
  BY DEF FindToday
<1> HIDE DEF r
<1>4. /\ req' \in [Handlers -> Request] /\ req'[h] = r
      /\ \A g \in Handlers \ {h} : req'[g] = req[g]
  BY <1>2, <1>3 DEF TypeOK
<1> QED
  BY <1>2, <1>4

(* In every step the requests stay requests, and of signed-in users.       *)
LEMMA RequestsStep ==
  ASSUME TypeOK, [Next]_vars
  PROVE  /\ req' \in [Handlers -> Request]
         /\ \A h \in Handlers : req'[h].pc # "idle" => req'[h].user \in Users
<1> DEFINE Typed == /\ req' \in [Handlers -> Request]
                    /\ \A h \in Handlers : req'[h].pc # "idle" => req'[h].user \in Users
<1>0. ASSUME UNCHANGED req PROVE Typed
  BY <1>0 DEF TypeOK
<1>a. \A h \in Handlers : req[h].pc # "idle" => req[h].user \in Users
  BY DEF TypeOK
<1>b. ASSUME NEW h \in Handlers, req[h].pc # "idle", req' \in [Handlers -> Request],
             \A g \in Handlers \ {h} : req'[g] = req[g],
             req'[h].pc = "idle" \/ req'[h].user = req[h].user
      PROVE  Typed
  BY <1>a, <1>b
<1>1. ASSUME NEW h \in Handlers, Generate(h) PROVE Typed
  BY <1>1, <1>a, Began
<1>2. ASSUME NEW h \in Handlers, FindToday(h) PROVE Typed
  <2>1. CASE <<req[h].user, Today>> \notin rows
    BY <1>2, <1>b, <2>1, SentToCreate DEF FindToday
  <2>2. CASE Goto(h, "archive")
    BY <1>2, <1>b, <2>2, Went DEF FindToday, Labels
  <2>3. CASE Return(h)
    BY <1>2, <1>b, <2>3, Returned DEF FindToday
  <2> QED
    BY <1>2, <2>1, <2>2, <2>3 DEF FindToday
<1>3. ASSUME NEW h \in Handlers, CreateToday(h) PROVE Typed
  <2>1. CASE Goto(h, "archive")
    BY <1>3, <1>b, <2>1, Went DEF CreateToday, Labels
  <2>2. CASE Return(h)
    BY <1>3, <1>b, <2>2, Returned DEF CreateToday
  <2> QED
    BY <1>3, <2>1, <2>2 DEF CreateToday
<1>4. ASSUME NEW h \in Handlers, CreateArchive(h) PROVE Typed
  <2>1. Goto(h, "increment") /\ req[h].pc # "idle"
    BY <1>4 DEF CreateArchive
  <2> QED
    BY <1>b, <2>1, Went DEF Labels
<1>5. ASSUME NEW h \in Handlers, IncrementUsage(h) \/ Fail(h) PROVE Typed
  <2>1. Return(h) /\ req[h].pc # "idle"
    BY <1>5 DEF IncrementUsage, Fail
  <2> QED
    BY <1>b, <2>1, Returned
<1>6. ASSUME NEW u \in Users, UpdateTier(u) \/ Billing(u) PROVE Typed
  BY <1>0, <1>6 DEF UpdateTier, Billing
<1>7. CASE TimePasses
  BY <1>0, <1>7 DEF TimePasses
<1>8. ASSUME UNCHANGED vars PROVE Typed
  BY <1>0, <1>8 DEF vars
<1> QED
  BY <1>0, <1>1, <1>2, <1>3, <1>4, <1>5, <1>6, <1>7, <1>8 DEF Next

(* The counts are written by incrementUsage only, for today.               *)
LEMMA UsageStep ==
  ASSUME TypeOK, [Next]_vars
  PROVE  \/ UNCHANGED usage
         \/ \E h \in Handlers : IncrementUsage(h)
  BY DEF Next, vars, usageVars, Generate, FindToday, CreateToday,
         CreateArchive, Fail, UpdateTier, Billing, TimePasses

LEMMA Incremented ==
  ASSUME TypeOK, NEW h \in Handlers, IncrementUsage(h)
  PROVE  /\ req[h].user \in Users /\ req[h].kind \in Kind /\ Today \in Days
         /\ usage' \in [Users -> [Days -> [Kind -> Nat]]]
         /\ usage'[req[h].user][Today][req[h].kind]
              = usage[req[h].user][Today][req[h].kind] + 1
         /\ \A u \in Users, d \in Days, k \in Kind :
              ~(u = req[h].user /\ d = Today /\ k = req[h].kind)
                => usage'[u][d][k] = usage[u][d][k]
<1> DEFINE v == req[h].user
           t == Today
           l == req[h].kind
<1>1. v \in Users /\ l \in Kind /\ t \in Days
  BY RequestFields, TodayIsDay DEF IncrementUsage, TypeOK
<1>2. usage' = [usage EXCEPT ![v][t][l] = usage[v][t][l] + 1]
  BY DEF IncrementUsage
<1>3. usage \in [Users -> [Days -> [Kind -> Nat]]]
  BY DEF TypeOK
<1> HIDE DEF v, t, l
<1>4. /\ usage' \in [Users -> [Days -> [Kind -> Nat]]]
      /\ usage'[v][t][l] = usage[v][t][l] + 1
      /\ \A u \in Users, d \in Days, k \in Kind :
           ~(u = v /\ d = t /\ k = l) => usage'[u][d][k] = usage[u][d][k]
  BY <1>1, <1>2, <1>3
<1> QED
  BY <1>1, <1>4 DEF v, t, l

LEMMA ClockStep ==
  ASSUME now \in 0..MaxTime, [Next]_vars
  PROVE  now' \in 0..MaxTime /\ (now' = now \/ now' = now + 1)
<1>1. now' = now \/ (now < MaxTime /\ now' = now + 1)
  <2>1. ASSUME NEW h \in Handlers,
               \/ Generate(h) \/ FindToday(h) \/ CreateToday(h)
               \/ CreateArchive(h) \/ IncrementUsage(h) \/ Fail(h)
        PROVE  now' = now
    BY <2>1 DEF Generate, FindToday, CreateToday, CreateArchive, IncrementUsage, Fail
  <2>2. ASSUME NEW u \in Users, UpdateTier(u) \/ Billing(u) PROVE now' = now
    BY <2>2 DEF UpdateTier, Billing
  <2>3. CASE TimePasses
    BY <2>3 DEF TimePasses
  <2>4. CASE UNCHANGED vars
    BY <2>4 DEF vars
  <2> QED
    BY <2>1, <2>2, <2>3, <2>4 DEF Next
<1> QED
  BY <1>1, GenerationAssumption

(* The history grows by the users who are premium after the step.          *)
LEMMA HistoryStep ==
  ASSUME [Next]_vars
  PROVE  \/ premiumDays' = premiumDays \cup PremiumToday'
         \/ UNCHANGED <<now, tier, subs, premiumDays>>
  BY DEF Next, vars, tierVars, Generate, FindToday, CreateToday, CreateArchive,
         IncrementUsage, Fail, UpdateTier, Billing, TimePasses

LEMMA TypeStep == TypeOK /\ [Next]_vars => TypeOK'
<1> SUFFICES ASSUME TypeOK, [Next]_vars PROVE TypeOK'
  OBVIOUS
<1>1. now' \in 0..MaxTime
  BY ClockStep, GenerationAssumption DEF TypeOK
<1>2. /\ req' \in [Handlers -> Request]
      /\ \A h \in Handlers : req'[h].pc # "idle" => req'[h].user \in Users
  BY RequestsStep
<1>3. usage' \in [Users -> [Days -> [Kind -> Nat]]]
  <2>1. CASE UNCHANGED usage
    BY <2>1 DEF TypeOK
  <2>2. ASSUME NEW h \in Handlers, IncrementUsage(h)
        PROVE  usage' \in [Users -> [Days -> [Kind -> Nat]]]
    BY <2>2, Incremented
  <2> QED
    BY <2>1, <2>2, UsageStep
<1>4. tier' \in [Users -> UserTier] /\ subs' \in [Users -> SUBSET Plans]
  <2>1. ASSUME NEW u \in Users, UpdateTier(u) \/ Billing(u)
        PROVE  tier' \in [Users -> UserTier] /\ subs' \in [Users -> SUBSET Plans]
    BY <2>1 DEF UpdateTier, Billing, TypeOK
  <2>2. UNCHANGED <<tier, subs>> \/ \E u \in Users : UpdateTier(u) \/ Billing(u)
    BY DEF Next, vars, tierVars, Generate, FindToday, CreateToday, CreateArchive,
           IncrementUsage, Fail, TimePasses
  <2> QED
    BY <2>1, <2>2 DEF TypeOK
<1>t. premiumDays' \subseteq Users \X Days
  <2>1. Today' \in Days
    BY <1>1, DayIsDay DEF Today, DayOf
  <2>2. PremiumToday' \subseteq Users \X Days
    BY <2>1 DEF PremiumToday
  <2> QED
    BY <2>2, HistoryStep DEF TypeOK
<1>5. rows' \subseteq Users \X Days
  <2>1. ASSUME NEW h \in Handlers, CreateToday(h) PROVE rows' \subseteq Users \X Days
    <3>1. req[h].user \in Users /\ req[h].day \in Days
      BY <2>1, RequestFields DEF CreateToday, TypeOK
    <3> QED
      BY <2>1, <3>1 DEF CreateToday, TypeOK
  <2>2. ASSUME NEW h \in Handlers, IncrementUsage(h) PROVE rows' \subseteq Users \X Days
    <3>1. req[h].user \in Users /\ Today \in Days
      BY <2>2, Incremented
    <3>2. rows' = rows \cup {<<req[h].user, Today>>}
      BY <2>2 DEF IncrementUsage
    <3> QED
      BY <3>1, <3>2 DEF TypeOK
  <2>3. \/ UNCHANGED rows
        \/ \E h \in Handlers : CreateToday(h) \/ IncrementUsage(h)
    BY DEF Next, vars, usageVars, Generate, FindToday, CreateArchive,
           Fail, UpdateTier, Billing, TimePasses
  <2> QED
    BY <2>1, <2>2, <2>3 DEF TypeOK
<1>6. archives' \in [Users -> Nat]
  <2>1. ASSUME NEW h \in Handlers, CreateArchive(h) PROVE archives' \in [Users -> Nat]
    BY <2>1 DEF CreateArchive, TypeOK
  <2>2. UNCHANGED archives \/ \E h \in Handlers : CreateArchive(h)
    BY DEF Next, vars, usageVars, Generate, FindToday, CreateToday,
           IncrementUsage, Fail, UpdateTier, Billing, TimePasses
  <2> QED
    BY <2>1, <2>2 DEF TypeOK
<1>7. uncounted' \in [Users -> Nat]
  <2>1. ASSUME NEW h \in Handlers, Fail(h) PROVE uncounted' \in [Users -> Nat]
    BY <2>1 DEF Fail, TypeOK
  <2>2. UNCHANGED uncounted \/ \E h \in Handlers : Fail(h)
    BY DEF Next, vars, Generate, FindToday, CreateToday, CreateArchive, IncrementUsage,
           UpdateTier, Billing, TimePasses
  <2> QED
    BY <2>1, <2>2 DEF TypeOK
<1> QED
  BY <1>1, <1>2, <1>3, <1>4, <1>5, <1>6, <1>7, <1>t DEF TypeOK

LEMMA TypeInit == Init => TypeOK
<1> SUFFICES ASSUME Init PROVE TypeOK
  OBVIOUS
<1>1. now \in 0..MaxTime /\ Today \in Days
  BY GenerationAssumption, TodayIsDay DEF Init
<1>2. req \in [Handlers -> Request] /\ \A h \in Handlers : req[h].pc = "idle"
  BY <1>1, IdleIsRequest DEF Init
<1>3. usage \in [Users -> [Days -> [Kind -> Nat]]]
  BY DEF Init
<1>4. premiumDays \subseteq Users \X Days
  BY <1>1 DEF Init, PremiumToday
<1> QED
  BY <1>1, <1>2, <1>3, <1>4 DEF Init, TypeOK

(* Every variable keeps its type.                                          *)
THEOREM TypeCorrect == Spec => []TypeOK
  BY TypeInit, TypeStep, PTL DEF Spec

-----------------------------------------------------------------------------
(* The requests that were let pass and have not been counted, together with*)
(* those already counted on a day that is not over, exceed a limit by the  *)
(* number of slots at most: when the last of them was let pass, the count  *)
(* was below the limit.  A day to come has no counts, a day without a row  *)
(* has none, and today is a premium day of whoever is premium now.         *)
Limit(k) == IF k = "advanced" THEN FreeAdvanced ELSE FreeRequests

Pending(u, k) == {h \in Handlers : /\ req[h].pc \in {"create", "archive", "increment"}
                                   /\ req[h].user = u /\ req[h].kind = k}

Bounded(u, d, k) ==
  /\ usage[u][d][k] < Limit(k) + Cardinality(Handlers)
  /\ d >= Today =>
       usage[u][d][k] + Cardinality(Pending(u, k)) < Limit(k) + Cardinality(Handlers)

Blank == \A u \in Users, d \in Days, k \in Kind :
           (<<u, d>> \notin rows \/ d > Today) => usage[u][d][k] = 0

Ahead == /\ PremiumToday \subseteq premiumDays
         /\ Blank
         /\ \A u \in Users, d \in Days, k \in Kind :
              <<u, d>> \notin premiumDays => Bounded(u, d, k)

IInv == TypeOK /\ Ahead

LEMMA SlotSets ==
  ASSUME NEW S \in SUBSET Handlers
  PROVE  /\ IsFiniteSet(S) /\ Cardinality(S) \in Nat /\ Cardinality(Handlers) \in Nat
         /\ Cardinality(S) <= Cardinality(Handlers)
         /\ \A T \in SUBSET S : Cardinality(T) \in Nat /\ Cardinality(T) <= Cardinality(S)
         /\ \A h \in S : Cardinality(S \ {h}) = Cardinality(S) - 1
<1>1. IsFiniteSet(Handlers)
  BY GenerationAssumption
<1>2. IsFiniteSet(S) /\ Cardinality(S) <= Cardinality(Handlers)
  BY <1>1, FS_Subset
<1>3. Cardinality(S) \in Nat /\ Cardinality(Handlers) \in Nat
  BY <1>1, <1>2, FS_CardinalityType
<1>4. ASSUME NEW T \in SUBSET S
      PROVE  Cardinality(T) \in Nat /\ Cardinality(T) <= Cardinality(S)
  BY <1>2, FS_Subset, FS_CardinalityType
<1>5. ASSUME NEW h \in S PROVE Cardinality(S \ {h}) = Cardinality(S) - 1
  BY <1>2, FS_RemoveElement
<1> QED
  BY <1>2, <1>3, <1>4, <1>5

LEMMA Limits ==
  ASSUME NEW k \in Kind PROVE Limit(k) \in Nat /\ Limit(k) >= 1
  BY GenerationAssumption DEF Limit

LEMMA TodayMoves ==
  ASSUME now \in 0..MaxTime, [Next]_vars PROVE Today' \in Nat /\ Today' >= Today
<1>1. now \in Nat /\ now' \in Nat /\ now <= now'
  BY ClockStep, GenerationAssumption
<1>2. DayOf(now) <= DayOf(now') /\ DayOf(now') \in Nat /\ DayOf(now) \in Nat
  BY <1>1, DaysPass
<1>3. Today = DayOf(now) /\ Today' = DayOf(now')
  BY DEF Today, DayOf
<1> QED
  BY <1>2, <1>3

-----------------------------------------------------------------------------
(* A step by which nobody is let pass and nothing is counted.              *)
LEMMA NobodyPasses ==
  ASSUME TypeOK, NEW u \in Users, NEW d \in Days, NEW k \in Kind, Bounded(u, d, k),
         UNCHANGED usage, Today' >= Today, Today' \in Nat,
         Pending(u, k)' \subseteq Pending(u, k)
  PROVE  Bounded(u, d, k)'
<1>1. usage[u][d][k] \in Nat /\ usage'[u][d][k] = usage[u][d][k] /\ d \in Nat /\ Today \in Nat
  BY TodayIsDay DEF TypeOK
<1> DEFINE P == Pending(u, k)
           Q == Pending(u, k)'
<1>2. P \in SUBSET Handlers /\ Q \in SUBSET P
  BY DEF Pending
<1>3. Cardinality(P) \in Nat /\ Cardinality(Q) \in Nat /\ Cardinality(Q) <= Cardinality(P)
  <2> HIDE DEF P, Q
  <2> QED
    BY <1>2, SlotSets
<1>4. Cardinality(Handlers) \in Nat /\ Limit(k) \in Nat
  BY <1>2, SlotSets, Limits
<1> QED
  BY <1>1, <1>3, <1>4 DEF Bounded, Limit

(* Below the limit, any number of the slots may be let pass.               *)
LEMMA BelowTheLimit ==
  ASSUME NEW u \in Users, NEW d \in Days, NEW k \in Kind,
         usage'[u][d][k] \in Nat, usage'[u][d][k] < Limit(k)
  PROVE  Bounded(u, d, k)'
<1> DEFINE Q == Pending(u, k)'
<1>1. Q \in SUBSET Handlers
  BY DEF Pending
<1>2. Cardinality(Q) \in Nat /\ Cardinality(Handlers) \in Nat
      /\ Cardinality(Q) <= Cardinality(Handlers)
  <2> HIDE DEF Q
  <2> QED
    BY <1>1, SlotSets
<1>3. Limit(k) \in Nat /\ Limit(k)' = Limit(k)
  BY Limits DEF Limit
<1> QED
  BY <1>2, <1>3 DEF Bounded

LEMMA PassesToday ==
  ASSUME TypeOK, Ahead, NEW h \in Handlers, FindToday(h), req'[h].pc # "idle"
  PROVE  usage[req[h].user][Today][req[h].kind] < Limit(req[h].kind)
<1> DEFINE v == req[h].user
           l == req[h].kind
<1>1. v \in Users /\ l \in Kind /\ Today \in Days
  BY RequestFields, TodayIsDay DEF FindToday, TypeOK
<1>2. CASE <<v, Today>> \notin rows
  <2>1. usage[v][Today][l] = 0
    BY <1>1, <1>2 DEF Ahead, Blank
  <2>2. Limit(l) \in Nat /\ Limit(l) >= 1
    BY <1>1, Limits
  <2> QED
    BY <2>1, <2>2
<1>3. CASE <<v, Today>> \in rows
  <2>1. ~Return(h)
    BY Returned
  <2>2. Allowed(usage[v][Today], l)
    BY <1>3, <2>1 DEF FindToday
  <2>3. usage[v][Today]["basic"] \in Nat /\ usage[v][Today]["advanced"] \in Nat
    BY <1>1 DEF TypeOK, Kind
  <2>4. l = "basic" \/ l = "advanced"
    BY <1>1 DEF Kind
  <2>5. CASE l = "advanced"
    BY <2>2, <2>5 DEF Allowed, Limit
  <2>6. CASE l = "basic"
    <3>1. usage[v][Today]["basic"] + usage[v][Today]["advanced"] < FreeRequests
      BY <2>2, <2>6 DEF Allowed
    <3> QED
      BY <2>3, <2>6, <3>1, GenerationAssumption DEF Limit
  <2> QED
    BY <2>4, <2>5, <2>6
<1> QED
  BY <1>2, <1>3

(* The request in slot h is counted: it was pending, and is no longer.     *)
LEMMA CountingKeeps ==
  ASSUME TypeOK, NEW h \in Handlers, IncrementUsage(h),
         NEW u \in Users, NEW d \in Days, NEW k \in Kind, Bounded(u, d, k)
  PROVE  Bounded(u, d, k)'
<1> DEFINE P == Pending(u, k)
           Q == Pending(u, k)'
<1>0. UNCHANGED now /\ req[h].pc = "increment" /\ Return(h)
  BY DEF IncrementUsage
<1>1. Today' = Today /\ Today \in Nat /\ d \in Nat
  BY <1>0, TodayIsDay DEF Today, TypeOK
<1>2. Q = P \ {h}
  <2>1. req'[h].pc = "idle" /\ \A g \in Handlers \ {h} : req'[g] = req[g]
    BY <1>0, Returned
  <2> QED
    BY <2>1 DEF Pending
<1>3. P \in SUBSET Handlers
  BY DEF Pending
<1>4. CASE u = req[h].user /\ k = req[h].kind /\ d = Today
  <2>1. usage'[u][d][k] = usage[u][d][k] + 1 /\ usage[u][d][k] \in Nat
    BY <1>4, Incremented DEF TypeOK
  <2>2. h \in P
    BY <1>0, <1>4 DEF Pending
  <2>3. /\ Cardinality(P) \in Nat /\ Cardinality(Q) = Cardinality(P) - 1
        /\ Cardinality(Q) \in Nat
    <3> HIDE DEF P, Q
    <3>1. Q \in SUBSET P
      BY <1>2
    <3> QED
      BY <1>2, <1>3, <2>2, <3>1, SlotSets
  <2>4. usage[u][d][k] + Cardinality(P) < Limit(k) + Cardinality(Handlers)
    BY <1>1, <1>4 DEF Bounded
  <2>5. Limit(k) \in Nat /\ Limit(k)' = Limit(k) /\ Cardinality(Handlers) \in Nat
    BY <1>3, Limits, SlotSets DEF Limit
  <2>6. /\ usage'[u][d][k] < Limit(k) + Cardinality(Handlers)
        /\ usage'[u][d][k] + Cardinality(Q) < Limit(k) + Cardinality(Handlers)
    <3> HIDE DEF P, Q
    <3> QED
      BY <2>1, <2>3, <2>4, <2>5
  <2> QED
    BY <2>5, <2>6 DEF Bounded
<1>5. CASE ~(u = req[h].user /\ k = req[h].kind /\ d = Today)
  <2>1. usage'[u][d][k] = usage[u][d][k] /\ usage[u][d][k] \in Nat
    BY <1>5, Incremented DEF TypeOK
  <2>2. /\ Cardinality(P) \in Nat /\ Cardinality(Q) \in Nat
        /\ Cardinality(Q) <= Cardinality(P)
    <3> HIDE DEF P, Q
    <3>1. Q \in SUBSET P
      BY <1>2
    <3> QED
      BY <1>3, <3>1, SlotSets
  <2>3. Limit(k) \in Nat /\ Limit(k)' = Limit(k) /\ Cardinality(Handlers) \in Nat
    BY <1>3, Limits, SlotSets DEF Limit
  <2> QED
    BY <1>1, <2>1, <2>2, <2>3 DEF Bounded
<1> QED
  BY <1>4, <1>5

LEMMA BlankStep == TypeOK /\ TypeOK' /\ Blank /\ [Next]_vars => Blank'
<1> SUFFICES ASSUME TypeOK, TypeOK', Blank, [Next]_vars,
                    NEW u \in Users, NEW d \in Days, NEW k \in Kind,
                    <<u, d>> \notin rows' \/ d > Today'
             PROVE  usage'[u][d][k] = 0
  BY DEF Blank
<1>1. rows \subseteq rows'
  BY DEF Next, vars, usageVars, Generate, FindToday, CreateToday,
         CreateArchive, IncrementUsage, Fail, UpdateTier, Billing, TimePasses
<1>2. Today' >= Today /\ Today' \in Nat /\ Today \in Nat /\ d \in Nat
  BY TodayMoves, TodayIsDay DEF TypeOK
<1>3. usage[u][d][k] = 0
  BY <1>1, <1>2 DEF Blank
<1>4. ASSUME NEW h \in Handlers, IncrementUsage(h) PROVE usage'[u][d][k] = 0
  <2>1. <<req[h].user, Today>> \in rows' /\ Today' = Today
    BY <1>4 DEF IncrementUsage, Today
  <2>2. ~(u = req[h].user /\ d = Today /\ k = req[h].kind)
    BY <1>2, <2>1
  <2> QED
    BY <1>3, <1>4, <2>2, Incremented
<1> QED
  BY <1>3, <1>4, UsageStep

LEMMA PremiumStep == PremiumToday \subseteq premiumDays /\ [Next]_vars
                       => PremiumToday' \subseteq premiumDays' /\ premiumDays \subseteq premiumDays'
<1> SUFFICES ASSUME PremiumToday \subseteq premiumDays, [Next]_vars
             PROVE  PremiumToday' \subseteq premiumDays' /\ premiumDays \subseteq premiumDays'
  OBVIOUS
<1>1. CASE premiumDays' = premiumDays \cup PremiumToday'
  BY <1>1
<1>2. CASE UNCHANGED <<now, tier, subs, premiumDays>>
  <2>1. PremiumToday' = PremiumToday
    BY <1>2 DEF PremiumToday, Premium, Today
  <2> QED
    BY <1>2, <2>1
<1> QED
  BY <1>1, <1>2, HistoryStep

(* On a day that is not today, a request that is let pass today raises     *)
(* nothing, or is the first one.                                           *)
LEMMA OtherDays ==
  ASSUME TypeOK, Blank, NEW u \in Users, NEW d \in Days, NEW k \in Kind, Bounded(u, d, k),
         UNCHANGED <<usage, now>>, d # Today
  PROVE  Bounded(u, d, k)'
<1>1. usage'[u][d][k] = usage[u][d][k] /\ usage[u][d][k] \in Nat /\ Today' = Today
      /\ Today \in Nat /\ d \in Nat
  BY TodayIsDay DEF TypeOK, Today
<1>2. CASE d > Today
  <2>1. usage[u][d][k] = 0 /\ Limit(k) >= 1 /\ Limit(k) \in Nat
    BY <1>2, Limits DEF Blank
  <2> QED
    BY <1>1, <2>1, BelowTheLimit
<1>3. CASE d < Today
  <2>1. Limit(k)' = Limit(k)
    BY DEF Limit
  <2> QED
    BY <1>1, <1>3, <2>1 DEF Bounded
<1> QED
  BY <1>1, <1>2, <1>3

LEMMA AheadStep == TypeOK /\ TypeOK' /\ Ahead /\ [Next]_vars => Ahead'
<1> SUFFICES ASSUME TypeOK, TypeOK', Ahead, [Next]_vars,
                    NEW u \in Users, NEW d \in Days, NEW k \in Kind, <<u, d>> \notin premiumDays'
             PROVE  Bounded(u, d, k)'
  BY BlankStep, PremiumStep DEF Ahead
<1>a. <<u, d>> \notin premiumDays /\ Bounded(u, d, k) /\ Blank
  BY PremiumStep DEF Ahead
<1>b. Today' >= Today /\ Today' \in Nat /\ Today \in Nat /\ d \in Nat
  BY TodayMoves, TodayIsDay DEF TypeOK
<1>0. ASSUME UNCHANGED usage, Pending(u, k)' \subseteq Pending(u, k) PROVE Bounded(u, d, k)'
  BY <1>0, <1>a, <1>b, NobodyPasses
<1>c. ASSUME NEW h \in Handlers, UNCHANGED usage,
             \A g \in Handlers \ {h} : req'[g] = req[g],
             \/ req'[h].pc \in {"idle", "today"}
             \/ req'[h].user # u
             \/ /\ req[h].pc \in {"create", "archive", "increment"}
                /\ req'[h].user = req[h].user /\ req'[h].kind = req[h].kind
      PROVE  Bounded(u, d, k)'
  <2>1. Pending(u, k)' \subseteq Pending(u, k)
    BY <1>a, <1>c DEF Pending
  <2> QED
    BY <1>0, <1>c, <2>1
<1>1. ASSUME NEW h \in Handlers, Generate(h) PROVE Bounded(u, d, k)'
  <2>1. UNCHANGED usage
    BY <1>1 DEF Generate, usageVars
  <2>2. \A g \in Handlers \ {h} : req'[g] = req[g]
    BY <1>1, Began
  <2>3. CASE req'[h].pc = "today" \/ req'[h].user # u
    BY <1>c, <2>1, <2>2, <2>3
  <2>4. CASE req'[h].pc # "today" /\ req'[h].user = u
    <3>1. Premium(u)
      BY <1>1, <2>4, Began
    <3>2. <<u, Today>> \in premiumDays
      BY <3>1 DEF Ahead, PremiumToday
    <3>3. d # Today /\ UNCHANGED now
      BY <1>1, <1>a, <3>2 DEF Generate
    <3> QED
      BY <1>a, <2>1, <3>3, OtherDays
  <2> QED
    BY <2>3, <2>4
<1>2. ASSUME NEW h \in Handlers, FindToday(h) PROVE Bounded(u, d, k)'
  <2>1. UNCHANGED <<usage, now>> /\ req[h].pc = "today"
    BY <1>2 DEF FindToday, usageVars
  <2>2. /\ \A g \in Handlers \ {h} : req'[g] = req[g]
        /\ \/ req'[h].pc = "idle"
           \/ req'[h].user = req[h].user /\ req'[h].kind = req[h].kind
    <3>1. CASE <<req[h].user, Today>> \notin rows
      BY <1>2, <3>1, SentToCreate
    <3>2. CASE Goto(h, "archive")
      BY <3>2, Went DEF Labels
    <3>3. CASE Return(h)
      BY <3>3, Returned
    <3> QED
      BY <1>2, <3>1, <3>2, <3>3 DEF FindToday
  <2>3. CASE req'[h].pc = "idle"
    BY <1>c, <2>1, <2>2, <2>3
  <2>4. CASE req'[h].pc # "idle" /\ ~(u = req[h].user /\ k = req[h].kind)
    <3>1. Pending(u, k)' \subseteq Pending(u, k)
      BY <2>2, <2>4 DEF Pending
    <3> QED
      BY <1>0, <2>1, <3>1
  <2>5. CASE req'[h].pc # "idle" /\ u = req[h].user /\ k = req[h].kind
    <3>1. usage[u][Today][k] < Limit(k)
      BY <1>2, <2>5, PassesToday
    <3>2. usage'[u][d][k] = usage[u][d][k] /\ usage[u][d][k] \in Nat /\ Today' = Today
      BY <1>a, <2>1 DEF TypeOK, Today
    <3>3. CASE d = Today
      BY <1>a, <3>1, <3>2, <3>3, BelowTheLimit
    <3>4. CASE d # Today
      BY <1>a, <2>1, <3>4, OtherDays
    <3> QED
      BY <3>3, <3>4
  <2> QED
    BY <2>3, <2>4, <2>5
<1>3. ASSUME NEW h \in Handlers, CreateToday(h) PROVE Bounded(u, d, k)'
  <2>1. UNCHANGED usage /\ req[h].pc = "create" /\ (Goto(h, "archive") \/ Return(h))
    BY <1>3 DEF CreateToday
  <2>2. CASE Goto(h, "archive")
    BY <1>c, <2>1, <2>2, Went DEF Labels
  <2>3. CASE Return(h)
    BY <1>c, <2>1, <2>3, Returned
  <2> QED
    BY <2>1, <2>2, <2>3
<1>4. ASSUME NEW h \in Handlers, CreateArchive(h) PROVE Bounded(u, d, k)'
  <2>1. UNCHANGED usage /\ req[h].pc = "archive" /\ Goto(h, "increment")
    BY <1>4 DEF CreateArchive
  <2> QED
    BY <1>c, <2>1, Went DEF Labels
<1>5. ASSUME NEW h \in Handlers, IncrementUsage(h) PROVE Bounded(u, d, k)'
  BY <1>5, <1>a, CountingKeeps
<1>6. ASSUME NEW h \in Handlers, Fail(h) PROVE Bounded(u, d, k)'
  <2>1. UNCHANGED usage /\ Return(h)
    BY <1>6 DEF Fail, usageVars
  <2> QED
    BY <1>c, <2>1, Returned
<1>7. CASE UNCHANGED <<usage, req>>
  <2>1. Pending(u, k)' = Pending(u, k)
    BY <1>7 DEF Pending
  <2> QED
    BY <1>0, <1>7, <2>1
<1> QED
  BY <1>1, <1>2, <1>3, <1>4, <1>5, <1>6, <1>7
     DEF Next, vars, usageVars, UpdateTier, Billing, TimePasses

LEMMA AheadInit == Init => Ahead
<1> SUFFICES ASSUME Init PROVE Ahead
  OBVIOUS
<1>1. \A h \in Handlers : req[h].pc = "idle"
  BY TypeInit, IdleIsRequest DEF Init, TypeOK
<1>2. ASSUME NEW u \in Users, NEW d \in Days, NEW k \in Kind
      PROVE  usage[u][d][k] = 0 /\ Bounded(u, d, k)
  <2>1. usage[u][d][k] = 0
    BY DEF Init
  <2>2. Pending(u, k) = {}
    BY <1>1 DEF Pending
  <2>3. Cardinality(Pending(u, k)) = 0
    BY <2>2, FS_EmptySet
  <2>4. {} \in SUBSET Handlers
    OBVIOUS
  <2>5. Cardinality(Handlers) \in Nat /\ Limit(k) \in Nat /\ Limit(k) >= 1
    BY <2>4, SlotSets, Limits
  <2> QED
    BY <2>1, <2>3, <2>5 DEF Bounded
<1> QED
  BY <1>2 DEF Init, Ahead, Blank

(* The strengthened invariant, from which the bound on the overshoot       *)
(* follows.                                                                *)
THEOREM Invariance == Spec => []IInv
<1>1. Init => IInv
  BY TypeInit, AheadInit DEF IInv
<1>2. IInv /\ [Next]_vars => IInv'
  BY TypeStep, AheadStep DEF IInv
<1> QED
  BY <1>1, <1>2, PTL DEF Spec

(* usage-tracking.service.ts:54-88, for any number of request slots, any   *)
(* limits and whatever becomes of tiers and subscriptions: on a day on     *)
(* which a user was never premium each daily limit is exceeded by fewer    *)
(* requests than there are slots.                                          *)
THEOREM OvershootIsBounded == Spec => []OvershootBounded
<1>1. IInv => OvershootBounded
  <2> SUFFICES ASSUME Ahead, NEW u \in Users, NEW d \in Days, <<u, d>> \notin premiumDays
               PROVE  /\ usage[u][d]["basic"] < FreeRequests + Cardinality(Handlers)
                      /\ usage[u][d]["advanced"] < FreeAdvanced + Cardinality(Handlers)
    BY DEF IInv, OvershootBounded
  <2> QED
    BY DEF Ahead, Bounded, Limit, Kind
<1> QED
  BY <1>1, Invariance, PTL
-----------------------------------------------------------------------------
(* The requests of u that are archived and not yet counted.                *)
Archived(u) == {h \in Handlers : req[h].pc = "increment" /\ req[h].user = u}

(* ArchivedAreCounted, with what it takes to count: only finitely many     *)
(* requests were counted.                                                  *)
Balanced(u) ==
  /\ IsFiniteSet(Counted(u))
  /\ Cardinality(Counted(u)) + Cardinality(Archived(u)) + uncounted[u] = archives[u]

AllBalanced == \A u \in Users : Balanced(u)

LEMMA Pairs ==
  ASSUME NEW p, NEW S, NEW y
  PROVE  y \in {p} \X S <=> \E i \in S : y = <<p, i>>
  OBVIOUS

LEMMA Triples ==
  ASSUME NEW n, NEW y
  PROVE  y \in UNION {{p} \X (1..n[p[1]][p[2]]) : p \in Days \X Kind} <=>
           \E d \in Days, k \in Kind : \E i \in 1..n[d][k] : y = << <<d, k>>, i >>
<1> DEFINE T(p) == {p} \X (1..n[p[1]][p[2]])
<1>1. \A p : y \in T(p) <=> \E i \in 1..n[p[1]][p[2]] : y = <<p, i>>
  BY Pairs
<1>2. y \in UNION {T(p) : p \in Days \X Kind} <=> \E p \in Days \X Kind : y \in T(p)
  <2> HIDE DEF T
  <2> QED
    OBVIOUS
<1>3. y \in UNION {T(p) : p \in Days \X Kind} <=>
        \E p \in Days \X Kind : \E i \in 1..n[p[1]][p[2]] : y = <<p, i>>
  <2> HIDE DEF T
  <2> QED
    BY <1>1, <1>2
<1>4. (\E p \in Days \X Kind : \E i \in 1..n[p[1]][p[2]] : y = <<p, i>>) <=>
        \E d \in Days, k \in Kind : \E i \in 1..n[d][k] : y = << <<d, k>>, i >>
  OBVIOUS
<1> QED
  BY <1>3, <1>4

(* The step that counts a request adds a new one to the set of those       *)
(* counted.                                                                *)
LEMMA CountsOne ==
  ASSUME TypeOK, NEW h \in Handlers, IncrementUsage(h), NEW u \in Users
  PROVE  IF u = req[h].user
         THEN \E x : x \notin Counted(u) /\ Counted(u)' = Counted(u) \cup {x}
         ELSE Counted(u)' = Counted(u)
<1> DEFINE n == usage[u][Today][req[h].kind]
           x == << <<Today, req[h].kind>>, n + 1 >>
<1>1. /\ req[h].kind \in Kind /\ Today \in Days
      /\ \A d \in Days, k \in Kind : usage[u][d][k] \in Nat
  BY Incremented DEF TypeOK
<1>2. CASE u = req[h].user
  <2>1. /\ usage'[u][Today][req[h].kind] = n + 1
        /\ \A d \in Days, k \in Kind :
             ~(d = Today /\ k = req[h].kind) => usage'[u][d][k] = usage[u][d][k]
    BY <1>2, Incremented
  <2>2. n \in Nat /\ 1..(n + 1) = 1..n \cup {n + 1}
    BY <1>1
  <2>3. \A y : y \in Counted(u)' <=> y \in Counted(u) \/ y = x
    <3> TAKE y
    <3>1. y \in Counted(u) <=>
            \E d \in Days, k \in Kind : \E i \in 1..usage[u][d][k] : y = << <<d, k>>, i >>
      <4> DEFINE m == usage[u]
      <4>1. Counted(u) = UNION {{p} \X (1..m[p[1]][p[2]]) : p \in Days \X Kind}
        BY DEF Counted
      <4> HIDE DEF m
      <4>2. y \in Counted(u) <=>
              \E d \in Days, k \in Kind : \E i \in 1..m[d][k] : y = << <<d, k>>, i >>
        BY <4>1, Triples
      <4> QED
        BY <4>2 DEF m
    <3>2. y \in Counted(u)' <=>
            \E d \in Days, k \in Kind : \E i \in 1..usage'[u][d][k] : y = << <<d, k>>, i >>
      <4> DEFINE m == usage'[u]
      <4>1. Counted(u)' = UNION {{p} \X (1..m[p[1]][p[2]]) : p \in Days \X Kind}
        BY DEF Counted
      <4> HIDE DEF m
      <4>2. y \in Counted(u)' <=>
              \E d \in Days, k \in Kind : \E i \in 1..m[d][k] : y = << <<d, k>>, i >>
        BY <4>1, Triples
      <4> QED
        BY <4>2 DEF m
    <3>3. ASSUME y \in Counted(u)' PROVE y \in Counted(u) \/ y = x
      <4>1. PICK d \in Days, k \in Kind : \E i \in 1..usage'[u][d][k] : y = << <<d, k>>, i >>
        BY <3>2, <3>3
      <4>2. CASE d = Today /\ k = req[h].kind
        BY <2>1, <2>2, <3>1, <4>1, <4>2
      <4>3. CASE ~(d = Today /\ k = req[h].kind)
        BY <2>1, <3>1, <4>1, <4>3
      <4> QED
        BY <4>2, <4>3
    <3>4. ASSUME y = x PROVE y \in Counted(u)'
      <4>1. n + 1 \in 1..usage'[u][Today][req[h].kind]
        BY <2>1, <2>2
      <4> QED
        BY <1>1, <3>2, <3>4, <4>1
    <3>5. ASSUME y \in Counted(u) PROVE y \in Counted(u)'
      <4>1. PICK d \in Days, k \in Kind : \E i \in 1..usage[u][d][k] : y = << <<d, k>>, i >>
        BY <3>1, <3>5
      <4>2. usage[u][d][k] \in Nat /\ usage'[u][d][k] \in {usage[u][d][k], usage[u][d][k] + 1}
        BY <1>1, <2>1
      <4>3. 1..usage[u][d][k] \subseteq 1..usage'[u][d][k]
        BY <4>2
      <4> QED
        BY <3>2, <4>1, <4>3
    <3> QED
      BY <3>3, <3>4, <3>5
  <2>4. Counted(u)' = Counted(u) \cup {x}
    BY <2>3
  <2>5. x \notin Counted(u)
    <3> DEFINE m == usage[u]
    <3>1. Counted(u) = UNION {{p} \X (1..m[p[1]][p[2]]) : p \in Days \X Kind}
      BY DEF Counted
    <3> HIDE DEF m
    <3>2. SUFFICES ASSUME NEW d \in Days, NEW k \in Kind, NEW i \in 1..m[d][k],
                          x = << <<d, k>>, i >>
                   PROVE  FALSE
      BY <3>1, Triples
    <3>3. d = Today /\ k = req[h].kind /\ i = n + 1
      BY <3>2
    <3>4. m[d][k] = n
      BY <3>3 DEF m
    <3> QED
      BY <2>2, <3>3, <3>4
  <2> QED
    BY <1>2, <2>4, <2>5
<1>3. CASE u # req[h].user
  <2>1. \A d \in Days, k \in Kind : usage'[u][d][k] = usage[u][d][k]
    BY <1>3, Incremented
  <2>2. Counted(u)' = Counted(u)
    BY <2>1 DEF Counted
  <2> QED
    BY <1>3, <2>2
<1> QED
  BY <1>2, <1>3

LEMMA AddsOne ==
  ASSUME NEW S, IsFiniteSet(S), NEW x, x \notin S
  PROVE  IsFiniteSet(S \cup {x}) /\ Cardinality(S \cup {x}) = Cardinality(S) + 1
BY FS_AddElement

(* Nothing that the balance of u adds up changes.                          *)
LEMMA StaysBalanced ==
  ASSUME NEW u \in Users, Balanced(u), UNCHANGED <<usage[u], archives[u], uncounted[u]>>,
         Archived(u)' = Archived(u)
  PROVE  Balanced(u)'
<1>1. Counted(u)' = Counted(u)
  BY DEF Counted
<1> QED
  BY <1>1 DEF Balanced

(* The step that archives an e-mail has its request count it next.         *)
LEMMA ArchiveBalances ==
  ASSUME TypeOK, NEW u \in Users, Balanced(u), NEW h \in Handlers, CreateArchive(h)
  PROVE  Balanced(u)'
<1> DEFINE A == Archived(u)
           B == Archived(u)'
<1>1. /\ UNCHANGED <<usage, uncounted>> /\ req[h].pc = "archive" /\ Goto(h, "increment")
      /\ archives' = [archives EXCEPT ![req[h].user] = @ + 1]
  BY DEF CreateArchive
<1>2. /\ \A g \in Handlers \ {h} : req'[g] = req[g]
      /\ req'[h].pc = "increment" /\ req'[h].user = req[h].user
  BY <1>1, Went DEF Labels
<1>3. CASE u = req[h].user
  <2>1. B = A \cup {h} /\ h \notin A
    BY <1>1, <1>2, <1>3 DEF Archived
  <2>2. A \in SUBSET Handlers
    BY DEF Archived
  <2>3. archives'[u] = archives[u] + 1 /\ archives[u] \in Nat /\ uncounted[u] \in Nat
    BY <1>1, <1>3 DEF TypeOK
  <2>4. /\ IsFiniteSet(Counted(u)) /\ Cardinality(Counted(u)) \in Nat
        /\ Cardinality(Counted(u)) + Cardinality(A) + uncounted[u] = archives[u]
    BY FS_CardinalityType DEF Balanced
  <2>5. Counted(u)' = Counted(u)
    BY <1>1 DEF Counted
  <2> HIDE DEF A, B
  <2>6. IsFiniteSet(A) /\ Cardinality(A) \in Nat
    BY <2>2, SlotSets
  <2>7. Cardinality(B) = Cardinality(A) + 1
    BY <2>1, <2>6, AddsOne
  <2>8. Cardinality(Counted(u)) + Cardinality(B) + uncounted[u] = archives'[u]
    BY <2>3, <2>4, <2>6, <2>7
  <2> QED
    BY <1>1, <2>4, <2>5, <2>8 DEF Balanced, B
<1>4. CASE u # req[h].user
  <2>1. B = A /\ archives'[u] = archives[u]
    BY <1>1, <1>2, <1>4 DEF Archived, TypeOK
  <2> QED
    BY <1>1, <2>1, StaysBalanced
<1> QED
  BY <1>3, <1>4

(* A request that has to count its e-mail leaves one of two ways: by       *)
(* counting it, or by failing to, which the history remembers.             *)
LEMMA LeavesBalance ==
  ASSUME TypeOK, NEW u \in Users, Balanced(u), NEW h \in Handlers,
         req[h].pc = "increment", IncrementUsage(h) \/ Fail(h)
  PROVE  Balanced(u)'
<1> DEFINE A == Archived(u)
           B == Archived(u)'
<1>1. /\ UNCHANGED archives /\ Return(h)
      /\ \/ IncrementUsage(h) /\ UNCHANGED uncounted
         \/ UNCHANGED usage /\ uncounted' = [uncounted EXCEPT ![req[h].user] = @ + 1]
  BY DEF IncrementUsage, Fail, usageVars
<1>2. req'[h].pc = "idle" /\ \A g \in Handlers \ {h} : req'[g] = req[g]
  BY <1>1, Returned
<1>3. CASE u = req[h].user
  <2>1. h \in A /\ B = A \ {h}
    BY <1>2, <1>3 DEF Archived
  <2>2. A \in SUBSET Handlers
    BY DEF Archived
  <2>3. archives'[u] = archives[u] /\ archives[u] \in Nat /\ uncounted[u] \in Nat
    BY <1>1 DEF TypeOK
  <2>4. /\ IsFiniteSet(Counted(u)) /\ Cardinality(Counted(u)) \in Nat
        /\ Cardinality(Counted(u)) + Cardinality(A) + uncounted[u] = archives[u]
    BY FS_CardinalityType DEF Balanced
  <2> HIDE DEF A, B
  <2>5. Cardinality(A) \in Nat /\ Cardinality(B) = Cardinality(A) - 1
    BY <2>1, <2>2, SlotSets, FS_RemoveElement
  <2>6. CASE IncrementUsage(h) /\ UNCHANGED uncounted
    <3>1. PICK x : x \notin Counted(u) /\ Counted(u)' = Counted(u) \cup {x}
      BY <1>3, <2>6, CountsOne
    <3>2. /\ IsFiniteSet(Counted(u)')
          /\ Cardinality(Counted(u)') = Cardinality(Counted(u)) + 1
      BY <2>4, <3>1, AddsOne
    <3>3. Cardinality(Counted(u)') + Cardinality(B) + uncounted'[u] = archives'[u]
      BY <2>3, <2>4, <2>5, <2>6, <3>2
    <3> QED
      BY <3>2, <3>3 DEF Balanced, B
  <2>7. CASE UNCHANGED usage /\ uncounted' = [uncounted EXCEPT ![req[h].user] = @ + 1]
    <3>1. Counted(u)' = Counted(u)
      BY <2>7 DEF Counted
    <3>2. uncounted'[u] = uncounted[u] + 1
      BY <1>3, <2>7 DEF TypeOK
    <3>3. Cardinality(Counted(u)) + Cardinality(B) + uncounted'[u] = archives'[u]
      BY <2>3, <2>4, <2>5, <3>2
    <3> QED
      BY <2>4, <3>1, <3>3 DEF Balanced, B
  <2> QED
    BY <1>1, <2>6, <2>7
<1>4. CASE u # req[h].user
  <2>1. B = A /\ archives'[u] = archives[u] /\ uncounted'[u] = uncounted[u]
    <3>1. B = A
      BY <1>2, <1>4 DEF Archived
    <3>2. uncounted'[u] = uncounted[u]
      BY <1>1, <1>4 DEF TypeOK
    <3> QED
      BY <1>1, <3>1, <3>2
  <2>2. Counted(u)' = Counted(u)
    <3>1. CASE IncrementUsage(h)
      BY <1>4, <3>1, CountsOne
    <3>2. CASE UNCHANGED usage
      BY <3>2 DEF Counted
    <3> QED
      BY <1>1, <3>1, <3>2
  <2> QED
    BY <2>1, <2>2 DEF Balanced
<1> QED
  BY <1>3, <1>4

LEMMA AllBalancedStep == TypeOK /\ AllBalanced /\ [Next]_vars => AllBalanced'
<1> SUFFICES ASSUME TypeOK, AllBalanced, [Next]_vars, NEW u \in Users
             PROVE  Balanced(u)'
  BY DEF AllBalanced
<1>0. Balanced(u)
  BY DEF AllBalanced
<1>1. ASSUME NEW h \in Handlers, UNCHANGED <<usage, archives, uncounted>>,
             \A g \in Handlers \ {h} : req'[g] = req[g],
             req[h].pc # "increment", req'[h].pc # "increment"
      PROVE  Balanced(u)'
  <2>1. Archived(u)' = Archived(u)
    BY <1>1 DEF Archived
  <2> QED
    BY <1>0, <1>1, <2>1, StaysBalanced
<1>2. ASSUME NEW h \in Handlers, CreateArchive(h) PROVE Balanced(u)'
  BY <1>0, <1>2, ArchiveBalances
<1>3. ASSUME NEW h \in Handlers,
             IncrementUsage(h) \/ (Fail(h) /\ req[h].pc = "increment")
      PROVE  Balanced(u)'
  BY <1>0, <1>3, LeavesBalance DEF IncrementUsage
<1>4. ASSUME NEW h \in Handlers, Generate(h) PROVE Balanced(u)'
  <2>1. req'[h].pc # "increment" /\ \A g \in Handlers \ {h} : req'[g] = req[g]
    BY <1>4, Began
  <2>2. req[h].pc # "increment" /\ UNCHANGED <<usage, archives, uncounted>>
    BY <1>4 DEF Generate, usageVars
  <2> QED
    BY <1>1, <2>1, <2>2
<1>5. ASSUME NEW h \in Handlers,
             \/ FindToday(h) \/ CreateToday(h)
             \/ Fail(h) /\ req[h].pc # "increment"
      PROVE  Balanced(u)'
  <2>1. UNCHANGED <<usage, archives, uncounted>> /\ req[h].pc # "increment"
    BY <1>5 DEF FindToday, CreateToday, Fail, usageVars
  <2>2. CASE Goto(h, "archive")
    BY <1>1, <2>1, <2>2, Went DEF Labels
  <2>3. CASE Return(h)
    BY <1>1, <2>1, <2>3, Returned
  <2>4. CASE req' = [req EXCEPT ![h] = Started("create", req[h].user, req[h].kind, Today)]
    <3>1. /\ \A g \in Handlers \ {h} : req'[g] = req[g]
          /\ req'[h].pc = "create"
      BY <2>4 DEF Started, TypeOK
    <3> QED
      BY <1>1, <2>1, <3>1
  <2> QED
    BY <1>5, <2>2, <2>3, <2>4 DEF FindToday, CreateToday, Fail
<1>6. ASSUME UNCHANGED <<usage, archives, req, uncounted>> PROVE Balanced(u)'
  <2>1. Archived(u)' = Archived(u)
    BY <1>6 DEF Archived
  <2> QED
    BY <1>0, <1>6, <2>1, StaysBalanced
<1> QED
  BY <1>2, <1>3, <1>4, <1>5, <1>6
     DEF Next, vars, usageVars, UpdateTier, Billing, TimePasses

LEMMA AllBalancedInit == Init => AllBalanced
<1> SUFFICES ASSUME Init, NEW u \in Users
             PROVE  Balanced(u)
  BY DEF AllBalanced
<1>1. \A d \in Days, k \in Kind : 1..usage[u][d][k] = {}
  BY DEF Init
<1>2. Counted(u) = {}
  BY <1>1 DEF Counted
<1>3. Archived(u) = {}
  BY DEF Init, Idle, Started, Archived
<1>4. archives[u] = 0 /\ uncounted[u] = 0
  BY DEF Init
<1> QED
  BY <1>2, <1>3, <1>4, FS_EmptySet DEF Balanced

(* ai.service.ts:149-157, however many requests run and days pass: every   *)
(* archived e-mail is counted once, is about to be, or its counting failed,*)
(* and no count is lost again.                                             *)
THEOREM ArchivedIsCounted == Spec => []ArchivedAreCounted
<1>1. AllBalanced => ArchivedAreCounted
  BY DEF AllBalanced, Balanced, Archived, ArchivedAreCounted
<1> QED
  BY <1>1, AllBalancedInit, AllBalancedStep, TypeCorrect, PTL DEF Spec
=============================================================================
