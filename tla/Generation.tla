----------------------------- MODULE Generation -----------------------------
(***************************************************************************)
(* POST /v1/ai/generate-email of a signed-in user, from the check of the   *)
(* daily limit on (EmailEntry leads up to it): the rows of UsageTracking,  *)
(* one per user and UTC day (ai.service.ts, usage-tracking.service.ts).    *)
(* Each statement of a request is a step; the call of OpenAI lies between  *)
(* the check and the first write, changes no state and may fail.  Tokens   *)
(* are not counted.                                                        *)
(***************************************************************************)
EXTENDS TierCalculator, FiniteSets

CONSTANTS Users,        \* account ids
          Handlers,     \* request slots
          FreeRequests, \* AI_CONFIG.USER_TIERS.free.maxRequestsPerDay
          FreeAdvanced, \* AI_CONFIG.USER_TIERS.free.maxAdvancedPerDay
          DayLength,    \* a day, in ticks of the clock
          MaxTime,      \* bound: the clock stops here
          Plans,        \* the subscriptions billing may store for a user
          MaxArchives,  \* bound: archive rows per user
          None          \* null

ASSUME GenerationAssumption ==
  /\ DayLength \in Nat \ {0} /\ MaxTime \in Nat
  /\ FreeRequests \in Nat \ {0} /\ FreeAdvanced \in Nat \ {0}
  /\ MaxArchives \in Nat
  /\ Plans \subseteq Subscription(Int)
  /\ IsFiniteSet(Handlers) /\ Handlers # {}
  /\ None \notin Users

VARIABLES
  now,      \* the clock
  tier,     \* tier[u]: the stored tier
  subs,     \* subs[u]: the stored subscriptions
  rows,     \* <<u, d>>: user u has a UsageTracking row for day d
  usage,    \* usage[u][d][kind]: basicRequests and advancedRequests
  archives, \* how many Archive rows each user has been given
  req,      \* req[h]: program counter and locals of the request in slot h
  premiumDays, \* history: <<u, d>>: user u was premium at some time of day d
  uncounted \* history: uncounted[u]: the counting of so many e-mails failed

tierVars  == <<tier, subs, premiumDays>>
usageVars == <<rows, usage, archives>>
vars == <<now, tierVars, usageVars, req, uncounted>>

Days == 0..(MaxTime \div DayLength)

(* Variant: the date of a time zone ahead of UTC.                          *)
TodayLocal == (now + 1) \div DayLength

(* getTodayString.                                                         *)
Today == now \div DayLength

Premium(u) == calculateUserTier(tier[u], subs[u], now) = "premium"

PremiumToday == {<<u, Today>> : u \in {v \in Users : Premium(v)}}

Kind == {"basic", "advanced"}

Request == [pc : {"idle", "today", "create", "archive", "increment"},
            user : Users \cup {None}, kind : Kind, day : Days]

Started(label, u, kind, d) == [pc |-> label, user |-> u, kind |-> kind, day |-> d]

Idle == Started("idle", None, "basic", 0)

Init == /\ now = 0
        /\ tier \in [Users -> UserTier]
        /\ subs \in [Users -> SUBSET Plans]
        /\ premiumDays = PremiumToday
        /\ rows = {}
        /\ usage = [u \in Users |-> [d \in Days |-> [k \in Kind |-> 0]]]
        /\ archives = [u \in Users |-> 0]
        /\ req = [h \in Handlers |-> Idle]
        /\ uncounted = [u \in Users |-> 0]

-----------------------------------------------------------------------------
Goto(h, label) == req' = [req EXCEPT ![h].pc = label]
Return(h)      == req' = [req EXCEPT ![h] = Idle]

(* Variant: the limit itself is let pass.                                  *)
AllowedUpTo(n, kind) ==
  IF kind = "advanced" THEN n["advanced"] <= FreeAdvanced
  ELSE n["basic"] + n["advanced"] <= FreeRequests

(* checkUsageLimit of a free user whose row holds the counts n.  An        *)
(* advanced request is not held against maxRequestsPerDay.                 *)
Allowed(n, kind) ==
  IF kind = "advanced" THEN n["advanced"] < FreeAdvanced
  ELSE n["basic"] + n["advanced"] < FreeRequests

-----------------------------------------------------------------------------
(* The user's row and subscriptions are read; premium is not limited.      *)
Generate(h) ==
  /\ req[h].pc = "idle"
  /\ \E u \in Users, kind \in Kind :
       req' = [req EXCEPT ![h] =
                 Started(IF Premium(u) THEN "archive" ELSE "today", u, kind, 0)]
  /\ UNCHANGED <<now, tierVars, usageVars, uncounted>>

(* getTodayUsage looks the day's row up.                                   *)
FindToday(h) ==
  LET r == req[h] IN
  /\ r.pc = "today"
  /\ IF <<r.user, Today>> \notin rows
     THEN req' = [req EXCEPT ![h] = Started("create", r.user, r.kind, Today)]
     ELSE IF Allowed(usage[r.user][Today], r.kind)
          THEN Goto(h, "archive") ELSE Return(h)
  /\ UNCHANGED <<now, tierVars, usageVars, uncounted>>

(* Variant: the row is written with zeros whether or not it exists.        *)
CreateTodayResets(h) ==
  LET r == req[h] IN
  /\ r.pc = "create"
  /\ rows' = rows \cup {<<r.user, r.day>>}
  /\ usage' = [usage EXCEPT ![r.user][r.day] = [k \in Kind |-> 0]]
  /\ Goto(h, "archive")
  /\ UNCHANGED <<now, tierVars, archives, uncounted>>

(* ... and creates it with zeros, which satisfy both limits; if another    *)
(* request has created it meanwhile, P2002 becomes a 400.                  *)
CreateToday(h) ==
  LET r == req[h] IN
  /\ r.pc = "create"
  /\ IF <<r.user, r.day>> \in rows
     THEN Return(h) /\ UNCHANGED rows
     ELSE /\ rows' = rows \cup {<<r.user, r.day>>}
          /\ Goto(h, "archive")
  /\ UNCHANGED <<now, tierVars, usage, archives, uncounted>>

(* OpenAI has answered.                                                    *)
CreateArchive(h) ==
  LET u == req[h].user IN
  /\ req[h].pc = "archive"
  /\ archives[u] < MaxArchives
  /\ archives' = [archives EXCEPT ![u] = @ + 1]
  /\ Goto(h, "increment")
  /\ UNCHANGED <<now, tierVars, rows, usage, uncounted>>

(* The upsert counts the request on the day on which it ends.              *)
IncrementUsage(h) ==
  LET r == req[h] IN
  /\ r.pc = "increment"
  /\ rows' = rows \cup {<<r.user, Today>>}
  /\ usage' = [usage EXCEPT ![r.user][Today][r.kind] = @ + 1]
  /\ Return(h)
  /\ UNCHANGED <<now, tierVars, archives, uncounted>>

-----------------------------------------------------------------------------
(* PUT /v1/users/me/tier.                                                  *)
UpdateTier(u) ==
  /\ \E t \in UserTier : tier' = [tier EXCEPT ![u] = t]
  /\ UNCHANGED <<now, subs, usageVars, req, uncounted>>
  /\ premiumDays' = premiumDays \cup PremiumToday'

(* A subscription is bought, cancelled or removed.                         *)
Billing(u) ==
  /\ \E S \in SUBSET Plans : subs' = [subs EXCEPT ![u] = S]
  /\ UNCHANGED <<now, tier, usageVars, req, uncounted>>
  /\ premiumDays' = premiumDays \cup PremiumToday'

(* A statement or OpenAI rejects, or the process ends.                     *)
Fail(h) ==
  /\ req[h].pc # "idle"
  /\ uncounted' = IF req[h].pc = "increment"
                  THEN [uncounted EXCEPT ![req[h].user] = @ + 1] ELSE uncounted
  /\ Return(h)
  /\ UNCHANGED <<now, tierVars, usageVars>>

(* Subscriptions begin and end by themselves.                              *)
TimePasses ==
  /\ now < MaxTime
  /\ now' = now + 1
  /\ UNCHANGED <<tier, subs, usageVars, req, uncounted>>
  /\ premiumDays' = premiumDays \cup PremiumToday'

Next ==
  \/ \E h \in Handlers :
       \/ Generate(h) \/ FindToday(h) \/ CreateToday(h)
       \/ CreateArchive(h) \/ IncrementUsage(h) \/ Fail(h)
  \/ \E u \in Users : UpdateTier(u) \/ Billing(u)
  \/ TimePasses

Spec == Init /\ [][Next]_vars

-----------------------------------------------------------------------------
TypeOK ==
  /\ now \in 0..MaxTime
  /\ tier \in [Users -> UserTier]
  /\ subs \in [Users -> SUBSET Plans]
  /\ premiumDays \subseteq Users \X Days
  /\ rows \subseteq Users \X Days
  /\ usage \in [Users -> [Days -> [Kind -> Nat]]]
  /\ archives \in [Users -> Nat] /\ uncounted \in [Users -> Nat]
  /\ req \in [Handlers -> Request]
  /\ \A h \in Handlers : req[h].pc # "idle" => req[h].user \in Users

(* usage-tracking.service.ts:54-88 check a count that ai.service.ts:153    *)
(* raises only after OpenAI has answered: on a day on which a user was     *)
(* never premium, each limit is exceeded by N - 1 requests at most, N the  *)
(* number of slots.  The requests that the user started as premium the day *)
(* before, and those that cross midnight, are counted on that day too.     *)
OvershootBounded ==
  \A u \in Users, d \in Days : <<u, d>> \notin premiumDays =>
    /\ usage[u][d]["basic"] < FreeRequests + Cardinality(Handlers)
    /\ usage[u][d]["advanced"] < FreeAdvanced + Cardinality(Handlers)

(* The requests that were counted, by their day, kind and number.          *)
Counted(u) ==
  UNION {{p} \X (1..usage[u][p[1]][p[2]]) : p \in Days \X Kind}

(* ai.service.ts:149-157: an archived e-mail is counted once, at latest    *)
(* when its request ends, unless the counting failed: over all days, the   *)
(* counts, the requests that have yet to count theirs and the failures make*)
(* up the archived e-mails.  A day's row that two requests create (26-36)  *)
(* loses no count, midnight between check and count neither.               *)
ArchivedAreCounted ==
  \A u \in Users :
    Cardinality(Counted(u))
      + Cardinality({h \in Handlers : req[h].pc = "increment" /\ req[h].user = u})
      + uncounted[u]
      = archives[u]

-----------------------------------------------------------------------------
(* tier-calculator.util.spec.ts:396: the free tier is limited to           *)
(* maxRequestsPerDay e-mails a day (README.md:304 counts both kinds).      *)
FreeDailyLimit ==
  \A u \in Users, d \in Days : <<u, d>> \notin premiumDays =>
    usage[u][d]["basic"] + usage[u][d]["advanced"] <= FreeRequests
=============================================================================
