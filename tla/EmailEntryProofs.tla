-------------------------- MODULE EmailEntryProofs --------------------------
(***************************************************************************)
(* Proofs about EmailEntry and the guard it is composed with, for any      *)
(* number of addresses, users, request slots and patterns, any limits and  *)
(* bodies, and however often the process restarts.                         *)
(***************************************************************************)
EXTENDS EmailEntry, FiniteSetTheorems, WellFoundedInduction, TLAPS

(* The fixed windows of an address do not overlap, a window opens with its *)
(* first call, and no call is counted under a number already given out.    *)
Windows ==
  /\ \A a \in admitted :
       /\ a.until - Window <= a.at /\ a.at <= a.until /\ a.at <= now
       /\ a.nth = 1 => a.at = a.until - Window
  /\ \A a, b \in admitted : a.ip = b.ip =>
       /\ a.until < b.until => a.until < b.until - Window
       /\ (a.until = b.until /\ a.nth = b.nth) => a = b

(* What the guard's record of an address says of the calls it let pass.    *)
Recorded ==
  \A a \in admitted :
    IF a.ip \in tracked
    THEN /\ count[a.ip] >= 1
         /\ \/ a.until = resetAt[a.ip] /\ a.nth <= count[a.ip]
            \/ a.until < resetAt[a.ip] - Window
    ELSE a.until < now

Opened == \A ip \in tracked : count[ip] >= 1 /\ resetAt[ip] <= now + Window

GuardInv == GuardTypeOK /\ Windows /\ Recorded /\ Opened

Call == [ip : Ips, at : 0..MaxTime, until : 0..MaxTime + Window, nth : 1..MaxRequests]

LEMMA CallFields ==
  ASSUME NEW a \in Call
  PROVE  /\ a.ip \in Ips /\ a.at \in Int /\ a.until \in Int /\ a.nth \in Int
         /\ a.at >= 0 /\ a.nth >= 1 /\ a.nth <= MaxRequests
  BY GuardAssumption DEF Call

LEMMA CallsAreCalls == GuardTypeOK => admitted \subseteq Call
  BY GuardAssumption DEF GuardTypeOK, Calls, Call

LEMMA SameCall ==
  ASSUME NEW a \in Call, NEW b \in Call,
         a.ip = b.ip, a.at = b.at, a.until = b.until, a.nth = b.nth
  PROVE  a = b
  BY DEF Call

LEMMA CallsGrow == \A x, y \in Int : x <= y => Calls(x) \subseteq Calls(y)
<1> SUFFICES ASSUME NEW x \in Int, NEW y \in Int, x <= y PROVE Calls(x) \subseteq Calls(y)
  OBVIOUS
<1>1. 0..x \subseteq 0..y
  OBVIOUS
<1> QED
  BY <1>1 DEF Calls

LEMMA GuardTypeStep == GuardTypeOK /\ [GuardNext]_guardVars => GuardTypeOK'
<1> SUFFICES ASSUME GuardTypeOK, [GuardNext]_guardVars PROVE GuardTypeOK'
  OBVIOUS
<1> USE GuardAssumption
<1> DEFINE Life == [calls : SUBSET Calls(MaxTime), endedAt : 0..MaxTime]
<1>1. ASSUME NEW ip \in Ips, NEW n \in 1..MaxRequests, NEW until \in 0..MaxTime + Window,
             Pass(ip, n, until)
      PROVE  GuardTypeOK'
  <2>1. [ip |-> ip, at |-> now, until |-> until, nth |-> n] \in Calls(now)
    BY DEF Calls, GuardTypeOK
  <2>2. admitted' \subseteq Calls(now')
    BY <1>1, <2>1 DEF Pass, GuardTypeOK
  <2> QED
    BY <1>1, <2>2 DEF Pass, GuardTypeOK
<1>2. ASSUME NEW ip \in Ips, CanActivate(ip) PROVE GuardTypeOK'
  <2>1. CASE OpenWindow(ip)
    <3>1. 1 \in 1..MaxRequests /\ now + Window \in 0..MaxTime + Window
      BY DEF GuardTypeOK
    <3> QED
      BY <1>1, <1>2, <2>1, <3>1 DEF CanActivate
  <2>2. CASE ~OpenWindow(ip)
    <3>1. count[ip] + 1 \in 1..MaxRequests /\ resetAt[ip] \in 0..MaxTime + Window
      BY <1>2, <2>2 DEF CanActivate, GuardTypeOK
    <3> QED
      BY <1>1, <1>2, <2>2, <3>1 DEF CanActivate
  <2> QED
    BY <2>1, <2>2
<1>3. CASE ClearExpiredRecords
  BY <1>3 DEF ClearExpiredRecords, GuardTypeOK
<1>4. CASE Tick
  <2>1. now' = now + 1 /\ now' \in 0..MaxTime /\ now \in Int
    BY <1>4 DEF Tick, GuardTypeOK
  <2>2. Calls(now) \subseteq Calls(now')
    BY <2>1, CallsGrow
  <2>3. admitted' \subseteq Calls(now')
    BY <1>4, <2>2 DEF Tick, GuardTypeOK
  <2> QED
    BY <1>4, <2>1, <2>3 DEF Tick, limits, GuardTypeOK
<1>5. CASE Restart
  <2>1. past \in Seq(Life) /\ now \in 0..MaxTime /\ now \in Int /\ now <= MaxTime
    BY DEF GuardTypeOK
  <2>2. admitted \subseteq Calls(MaxTime)
    BY <2>1, CallsGrow DEF GuardTypeOK
  <2>3. [calls |-> admitted, endedAt |-> now] \in Life
    BY <2>1, <2>2
  <2>4. past' \in Seq(Life)
    <3> HIDE DEF Life
    <3> QED
      BY <1>5, <2>1, <2>3 DEF Restart
  <2>5. tracked' \subseteq Ips /\ admitted' \subseteq Calls(now') /\ now' = now
    BY <1>5 DEF Restart
  <2>6. count' \in [Ips -> 0..MaxRequests] /\ resetAt' \in [Ips -> 0..MaxTime + Window]
    BY <1>5 DEF Restart
  <2> QED
    BY <2>1, <2>4, <2>5, <2>6 DEF GuardTypeOK
<1>6. CASE UNCHANGED guardVars
  BY <1>6 DEF guardVars, limits, GuardTypeOK
<1> QED
  BY <1>2, <1>3, <1>4, <1>5, <1>6 DEF GuardNext

-----------------------------------------------------------------------------
(* A call that passes: the new entry keeps clear of the old ones, whether  *)
(* it opens a window (n = 1) or is counted in the one that is open.        *)
LEMMA PassKeeps ==
  ASSUME GuardInv, GuardTypeOK', NEW ip \in Ips, NEW n \in Int, NEW until \in Int,
         Pass(ip, n, until), n >= 1,
         until - Window <= now, now <= until, n = 1 => now = until - Window,
         \A a \in admitted : a.ip = ip =>
           \/ a.until = until /\ a.nth < n
           \/ a.until < until - Window
  PROVE  Windows' /\ Recorded' /\ Opened'
<1> DEFINE new == [ip |-> ip, at |-> now, until |-> until, nth |-> n]
<1>1. /\ admitted' = admitted \cup {new} /\ tracked' = tracked \cup {ip}
      /\ count' = [count EXCEPT ![ip] = n] /\ resetAt' = [resetAt EXCEPT ![ip] = until]
      /\ now' = now
  BY DEF Pass
<1>2. new.ip = ip /\ new.at = now /\ new.until = until /\ new.nth = n
  OBVIOUS
<1>3. admitted \subseteq Call /\ now \in Int /\ Window \in Int
  BY CallsAreCalls, GuardAssumption DEF GuardInv, GuardTypeOK
<1>4. /\ count'[ip] = n /\ resetAt'[ip] = until
      /\ \A i \in Ips \ {ip} : count'[i] = count[i] /\ resetAt'[i] = resetAt[i]
      /\ tracked \subseteq Ips
  BY <1>1 DEF GuardInv, GuardTypeOK
<1>5. \A i \in Ips : resetAt[i] \in Int
  BY GuardAssumption DEF GuardInv, GuardTypeOK
<1> HIDE DEF new
<1>6. Windows'
  <2>1. ASSUME NEW a \in admitted'
        PROVE  /\ a.until - Window <= a.at /\ a.at <= a.until /\ a.at <= now'
               /\ a.nth = 1 => a.at = a.until - Window
    <3>1. CASE a \in admitted
      BY <1>1, <3>1 DEF GuardInv, Windows
    <3>2. CASE a = new
      BY <1>1, <1>2, <1>3, <3>2
    <3> QED
      BY <1>1, <3>1, <3>2
  <2>2. ASSUME NEW a \in admitted', NEW b \in admitted', a.ip = b.ip
        PROVE  /\ a.until < b.until => a.until < b.until - Window
               /\ (a.until = b.until /\ a.nth = b.nth) => a = b
    <3>1. CASE a \in admitted /\ b \in admitted
      BY <2>2, <3>1 DEF GuardInv, Windows
    <3>2. CASE a \in admitted /\ b = new
      <4>1. a.until \in Int /\ a.nth \in Int
        BY <1>3, <3>2, CallFields
      <4>2. (a.until = until /\ a.nth < n) \/ a.until < until - Window
        BY <1>2, <2>2, <3>2
      <4> QED
        BY <1>2, <1>3, <3>2, <4>1, <4>2, GuardAssumption
    <3>3. CASE a = new /\ b \in admitted
      <4>1. b.until \in Int /\ b.nth \in Int
        BY <1>3, <3>3, CallFields
      <4>2. (b.until = until /\ b.nth < n) \/ b.until < until - Window
        BY <1>2, <2>2, <3>3
      <4> QED
        BY <1>2, <1>3, <3>3, <4>1, <4>2, GuardAssumption
    <3>4. CASE a = new /\ b = new
      BY <1>2, <3>4
    <3> QED
      BY <1>1, <3>1, <3>2, <3>3, <3>4
  <2> QED
    BY <2>1, <2>2 DEF Windows
<1>7. Recorded'
  <2> SUFFICES ASSUME NEW a \in admitted'
               PROVE  IF a.ip \in tracked'
                      THEN /\ count'[a.ip] >= 1
                           /\ \/ a.until = resetAt'[a.ip] /\ a.nth <= count'[a.ip]
                              \/ a.until < resetAt'[a.ip] - Window
                      ELSE a.until < now'
    BY DEF Recorded
  <2>1. CASE a = new
    BY <1>1, <1>2, <1>4, <2>1
  <2>2. CASE a \in admitted /\ a.ip = ip
    <3>1. a.nth \in Int
      BY <1>3, <2>2, CallFields
    <3> QED
      BY <1>1, <1>4, <2>2, <3>1
  <2>3. CASE a \in admitted /\ a.ip # ip
    <3>1. a.ip \in Ips
      BY <1>3, <2>3, CallFields
    <3> QED
      BY <1>1, <1>4, <2>3, <3>1 DEF GuardInv, Recorded
  <2> QED
    BY <1>1, <2>1, <2>2, <2>3
<1>8. Opened'
  <2> SUFFICES ASSUME NEW i \in tracked'
               PROVE  count'[i] >= 1 /\ resetAt'[i] <= now' + Window
    BY DEF Opened
  <2>1. CASE i = ip
    BY <1>1, <1>3, <1>4, <2>1
  <2>2. CASE i # ip
    BY <1>1, <1>4, <2>2 DEF GuardInv, Opened
  <2> QED
    BY <2>1, <2>2
<1> QED
  BY <1>6, <1>7, <1>8

LEMMA GuardStep == GuardInv /\ [GuardNext]_guardVars => GuardInv'
<1> SUFFICES ASSUME GuardInv, [GuardNext]_guardVars PROVE GuardInv'
  OBVIOUS
<1>t. GuardTypeOK'
  BY GuardTypeStep DEF GuardInv
<1>a. admitted \subseteq Call /\ now \in Int /\ Window \in Int /\ tracked \subseteq Ips
  BY CallsAreCalls, GuardAssumption DEF GuardInv, GuardTypeOK
<1>b. \A i \in Ips : resetAt[i] \in Int /\ count[i] \in Int
  BY GuardAssumption DEF GuardInv, GuardTypeOK
<1>1. ASSUME NEW ip \in Ips, CanActivate(ip) PROVE Windows' /\ Recorded' /\ Opened'
  <2>1. CASE OpenWindow(ip)
    <3>1. Pass(ip, 1, now + Window)
      BY <1>1, <2>1 DEF CanActivate
    <3>2. \A a \in admitted : a.ip = ip => a.until < (now + Window) - Window
      <4> SUFFICES ASSUME NEW a \in admitted, a.ip = ip PROVE a.until < now
        BY <1>a
      <4>1. a.until \in Int
        BY <1>a, CallFields
      <4>2. CASE ip \in tracked
        BY <1>a, <1>b, <2>1, <4>1, <4>2, GuardAssumption DEF OpenWindow, GuardInv, Recorded
      <4>3. CASE ip \notin tracked
        BY <4>3 DEF GuardInv, Recorded
      <4> QED
        BY <4>2, <4>3
    <3>3. (now + Window) - Window <= now /\ now <= now + Window /\ now + Window \in Int
          /\ now = (now + Window) - Window
      BY <1>a, GuardAssumption
    <3> QED
      BY <1>t, <3>1, <3>2, <3>3, PassKeeps
  <2>2. CASE ~OpenWindow(ip)
    <3>1. Pass(ip, count[ip] + 1, resetAt[ip]) /\ ip \in tracked /\ now <= resetAt[ip]
      BY <1>1, <1>a, <1>b, <2>2 DEF CanActivate, OpenWindow
    <3>2. count[ip] >= 1 /\ resetAt[ip] - Window <= now
      BY <1>a, <1>b, <3>1 DEF GuardInv, Opened
    <3>3. \A a \in admitted : a.ip = ip =>
            \/ a.until = resetAt[ip] /\ a.nth < count[ip] + 1
            \/ a.until < resetAt[ip] - Window
      <4> SUFFICES ASSUME NEW a \in admitted, a.ip = ip
                   PROVE  \/ a.until = resetAt[ip] /\ a.nth < count[ip] + 1
                          \/ a.until < resetAt[ip] - Window
        OBVIOUS
      <4>1. a.nth \in Int
        BY <1>a, CallFields
      <4> QED
        BY <1>b, <3>1, <4>1 DEF GuardInv, Recorded
    <3>4. count[ip] + 1 \in Int /\ count[ip] + 1 >= 1 /\ count[ip] + 1 # 1 /\ resetAt[ip] \in Int
      BY <1>b, <3>2
    <3> QED
      BY <1>t, <3>1, <3>2, <3>3, <3>4, PassKeeps
  <2> QED
    BY <2>1, <2>2
<1>2. CASE ClearExpiredRecords
  <2>1. /\ tracked' = {ip \in tracked : now <= resetAt[ip]}
        /\ UNCHANGED <<now, count, resetAt, admitted>>
    BY <1>2 DEF ClearExpiredRecords
  <2>2. ASSUME NEW a \in admitted, a.ip \in tracked, ~(now <= resetAt[a.ip])
        PROVE  a.until < now
    <3>1. a.until \in Int
      BY <1>a, CallFields
    <3> QED
      BY <1>a, <1>b, <2>2, <3>1, GuardAssumption DEF GuardInv, Recorded
  <2>3. Recorded'
    BY <2>1, <2>2 DEF GuardInv, Recorded
  <2> QED
    BY <1>t, <2>1, <2>3 DEF GuardInv, Windows, Opened
<1>3. CASE Tick
  <2>1. now' = now + 1 /\ UNCHANGED <<tracked, count, resetAt, admitted>>
    BY <1>3 DEF Tick, limits
  <2>2. \A a \in admitted : a.at \in Int /\ a.until \in Int
    BY <1>a, CallFields
  <2>3. Windows'
    BY <1>a, <2>1, <2>2 DEF GuardInv, Windows
  <2>4. Recorded'
    BY <1>a, <2>1, <2>2 DEF GuardInv, Recorded
  <2>5. Opened'
    BY <1>a, <1>b, <2>1 DEF GuardInv, Opened
  <2> QED
    BY <1>t, <2>3, <2>4, <2>5 DEF GuardInv
<1>4. CASE Restart
  BY <1>t, <1>4 DEF Restart, GuardInv, Windows, Recorded, Opened
<1>5. CASE UNCHANGED guardVars
  BY <1>t, <1>5 DEF guardVars, limits, GuardInv, Windows, Recorded, Opened
<1> QED
  BY <1>t, <1>1, <1>2, <1>3, <1>4, <1>5 DEF GuardNext, GuardInv

LEMMA GuardInvInit == GuardInit => GuardInv
  BY GuardAssumption DEF GuardInit, GuardInv, GuardTypeOK, Windows, Recorded, Opened

-----------------------------------------------------------------------------
(* The calls of one address in Window consecutive ticks.  If they belong to*)
(* one fixed window, nth numbers them from 1 to MaxRequests; if to two, the*)
(* first call of the older one lies outside and they can be numbered from 1*)
(* to 2 * MaxRequests - 1; a third window cannot be reached.               *)
LEMMA OneWindow ==
  ASSUME GuardInv, NEW S \in SUBSET admitted, NEW ip \in Ips, NEW U,
         \A a \in S : a.ip = ip /\ a.until = U
  PROVE  Cardinality(S) <= MaxRequests
<1> DEFINE f == [a \in S |-> a.nth]
<1>1. \A a \in S : a.nth \in 1..MaxRequests
  BY CallsAreCalls, CallFields, GuardAssumption DEF GuardInv
<1>2. f \in [S -> 1..MaxRequests]
  BY <1>1
<1>3. \A a, b \in S : f[a] = f[b] => a = b
  BY DEF GuardInv, Windows
<1>4. f \in Injection(S, 1..MaxRequests)
  BY <1>2, <1>3 DEF Injection, IsInjective
<1>5. IsFiniteSet(1..MaxRequests) /\ Cardinality(1..MaxRequests) = MaxRequests
  BY FS_Interval, GuardAssumption
<1> HIDE DEF f
<1> QED
  BY <1>4, <1>5, FS_Injection

LEMMA TwoWindows ==
  ASSUME GuardInv, NEW S \in SUBSET admitted, NEW ip \in Ips, NEW t \in Int,
         \A a \in S : a.ip = ip /\ a.at \in t..(t + Window - 1),
         NEW p \in S, NEW q \in S, p.until < q.until
  PROVE  Cardinality(S) < 2 * MaxRequests
<1>1. \A a \in S : /\ a.nth \in Int /\ a.nth >= 1 /\ a.nth <= MaxRequests
                   /\ a.until \in Int /\ a.at \in Int
  BY CallsAreCalls, CallFields DEF GuardInv
<1>2. \A a \in S : /\ a.until - Window <= a.at /\ a.at <= a.until
                   /\ a.nth = 1 => a.at = a.until - Window
                   /\ t <= a.at /\ a.at <= t + Window - 1
  BY <1>1, GuardAssumption DEF GuardInv, Windows
<1>3. \A a, b \in S : /\ a.until < b.until => a.until < b.until - Window
                      /\ (a.until = b.until /\ a.nth = b.nth) => a = b
  BY DEF GuardInv, Windows
<1>w. Window \in Int /\ Window >= 1
  BY GuardAssumption
<1>a. ASSUME NEW a \in S, NEW b \in S, NEW c \in S, a.until < b.until, b.until < c.until
      PROVE  FALSE
  <2>1. a.until < b.until - Window /\ b.until < c.until - Window
    BY <1>3, <1>a
  <2>2. t <= a.at /\ a.at <= a.until /\ c.until - Window <= c.at /\ c.at <= t + Window - 1
    BY <1>2
  <2>3. a.at \in Int /\ a.until \in Int /\ b.until \in Int /\ c.at \in Int /\ c.until \in Int
    BY <1>1
  <2> QED
    BY <1>w, <2>1, <2>2, <2>3
<1>4. ASSUME NEW a \in S PROVE a.until = p.until \/ a.until = q.until
  <2>1. a.until \in Int /\ p.until \in Int /\ q.until \in Int
    BY <1>1
  <2>2. ~(a.until < p.until) /\ ~(q.until < a.until)
    BY <1>a
  <2>3. ~(p.until < a.until /\ a.until < q.until)
    BY <1>a
  <2> QED
    BY <2>1, <2>2, <2>3
<1>5. ASSUME NEW a \in S, a.until = p.until PROVE a.nth >= 2
  <2>1. a.until < q.until - Window
    BY <1>3, <1>5
  <2>2. q.until - Window <= q.at /\ q.at <= t + Window - 1 /\ t <= a.at
    BY <1>2
  <2>3. a.until \in Int /\ a.at \in Int /\ q.until \in Int /\ q.at \in Int
    BY <1>1
  <2>4. a.at # a.until - Window
    BY <1>w, <2>1, <2>2, <2>3
  <2>5. a.nth # 1 /\ a.nth >= 1 /\ a.nth \in Int
    BY <1>1, <1>2, <2>4
  <2> QED
    BY <2>5
<1> DEFINE number(a) == IF a.until = p.until THEN a.nth - 1 ELSE MaxRequests - 1 + a.nth
           f == [a \in S |-> number(a)]
           T == 1..(2 * MaxRequests - 1)
<1>6. \A a \in S : number(a) \in T
  BY <1>1, <1>5, GuardAssumption
<1>7. ASSUME NEW a \in S, NEW b \in S, number(a) = number(b) PROVE a = b
  <2>1. /\ a.nth \in Int /\ a.nth >= 1 /\ a.nth <= MaxRequests
        /\ b.nth \in Int /\ b.nth >= 1 /\ b.nth <= MaxRequests /\ MaxRequests \in Int
    BY <1>1, GuardAssumption
  <2>2. CASE a.until = p.until /\ b.until = p.until
    BY <1>3, <1>7, <2>1, <2>2
  <2>3. CASE a.until # p.until /\ b.until # p.until
    <3>1. a.until = b.until
      BY <1>4, <2>3
    <3>2. a.nth = b.nth
      BY <1>7, <2>1, <2>3
    <3> QED
      BY <1>3, <3>1, <3>2
  <2>4. CASE (a.until = p.until) # (b.until = p.until)
    BY <1>7, <2>1, <2>4
  <2> QED
    BY <2>2, <2>3, <2>4
<1>8. f \in [S -> T]
  BY <1>6
<1>9. \A a, b \in S : f[a] = f[b] => a = b
  BY <1>7
<1>10. f \in Injection(S, T)
  BY <1>8, <1>9 DEF Injection, IsInjective
<1>11. IsFiniteSet(T) /\ Cardinality(T) = 2 * MaxRequests - 1
  BY FS_Interval, GuardAssumption
<1>12. IsFiniteSet(S) /\ Cardinality(S) <= Cardinality(T)
  <2> HIDE DEF f, T
  <2> QED
    BY <1>10, <1>11, FS_Injection
<1>13. Cardinality(S) \in Nat
  BY <1>12, FS_CardinalityType
<1> QED
  BY <1>11, <1>12, <1>13, GuardAssumption

LEMMA GuardBound == GuardInv => BelowTwiceLimit
<1> SUFFICES ASSUME GuardInv, NEW ip \in Ips, NEW t \in 0..MaxTime
             PROVE  Cardinality({a \in admitted : a.ip = ip /\ a.at \in t..(t + Window - 1)})
                      < 2 * MaxRequests
  BY DEF BelowTwiceLimit, Within, CallsIn, Stretch
<1> DEFINE S == {a \in admitted : a.ip = ip /\ a.at \in t..(t + Window - 1)}
<1>1. t \in Int /\ S \in SUBSET admitted
  BY GuardAssumption
<1>2. \A a \in S : a.ip = ip /\ a.at \in t..(t + Window - 1)
  OBVIOUS
<1>3. \A a \in S : a.until \in Int
  BY CallsAreCalls, CallFields DEF GuardInv
<1> HIDE DEF S
<1>4. CASE S = {}
  <2>1. Cardinality(S) = 0
    BY <1>4, FS_EmptySet
  <2> QED
    BY <2>1, GuardAssumption DEF S
<1>5. CASE \E p, q \in S : p.until < q.until
  <2>1. Cardinality(S) < 2 * MaxRequests
    BY <1>1, <1>2, <1>5, TwoWindows
  <2> QED
    BY <2>1 DEF S
<1>6. CASE S # {} /\ \A p, q \in S : ~(p.until < q.until)
  <2>1. PICK b \in S : TRUE
    BY <1>6
  <2>2. \A a \in S : a.ip = ip /\ a.until = b.until
    BY <1>2, <1>3, <1>6, <2>1
  <2>3. Cardinality(S) <= MaxRequests
    BY <1>1, <2>2, OneWindow
  <2>4. IsFiniteSet(S)
    <3> DEFINE f == [a \in S |-> a.nth]
    <3>1. \A a \in S : a.nth \in 1..MaxRequests
      BY <1>1, CallsAreCalls, CallFields, GuardAssumption DEF GuardInv
    <3>2. \A a, c \in S : f[a] = f[c] => a = c
      BY <1>1, <2>2 DEF GuardInv, Windows
    <3>3. f \in Injection(S, 1..MaxRequests)
      BY <3>1, <3>2 DEF Injection, IsInjective
    <3>4. IsFiniteSet(1..MaxRequests)
      BY FS_Interval, GuardAssumption
    <3> HIDE DEF f
    <3> QED
      BY <3>3, <3>4, FS_Injection
  <2>5. Cardinality(S) \in Nat
    BY <2>4, FS_CardinalityType
  <2> QED
    BY <2>3, <2>5, GuardAssumption DEF S
<1> QED
  BY <1>4, <1>5, <1>6

-----------------------------------------------------------------------------

-----------------------------------------------------------------------------
LEMMA StepsOfTheGuard == [Next]_vars => [GuardNext]_guardVars
<1> SUFFICES ASSUME [Next]_vars PROVE [GuardNext]_guardVars
  OBVIOUS
<1>1. ASSUME NEW h \in Handlers,
             \/ Receive(h) \/ SkipIpGuard(h) \/ RefusedByIpGuard(h) \/ Validate(h)
             \/ Sanitize(h) \/ Leave(h) \/ Fail(h)
      PROVE  UNCHANGED guardVars
  BY <1>1 DEF Receive, SkipIpGuard, RefusedByIpGuard, Validate, Sanitize, Leave, Fail
<1>2. ASSUME NEW h \in Handlers, NEW ip \in Ips, PassIpGuard(h, ip) PROVE GuardNext
  BY <1>2 DEF PassIpGuard, GuardNext
<1>3. CASE ClearExpiredRecords \/ Tick
  BY <1>3 DEF GuardNext
<1>4. CASE ProcessRestarts
  BY <1>4 DEF ProcessRestarts, GuardNext
<1>5. CASE UNCHANGED vars
  BY <1>5 DEF vars
<1> QED
  BY <1>1, <1>2, <1>3, <1>4, <1>5 DEF Next

(* What surrounds the guard uses it as it is: every behaviour of the entry *)
(* is one of the guard alone, which awaits nothing and shares nothing.     *)
THEOREM EntryUsesGuard == Spec => GuardSpec
<1>1. Init => GuardInit
  BY DEF Init
<1> QED
  BY <1>1, StepsOfTheGuard, PTL DEF Spec, GuardSpec

(* ip-rate-limit.guard.ts:46-66, whatever the limits, the window and the   *)
(* restarts: in no stretch as long as the window does one process let      *)
(* 2 * MaxRequests calls of an address pass.                               *)
THEOREM GuardHolds == Spec => []BelowTwiceLimit
<1>1. Init => GuardInv
  BY GuardInvInit DEF Init
<1>2. GuardInv /\ [Next]_vars => GuardInv'
  BY GuardStep, StepsOfTheGuard
<1> QED
  BY <1>1, <1>2, GuardBound, PTL DEF Spec

-----------------------------------------------------------------------------
(* When this process began: the last one before it ended then.             *)
Began == IF past = <<>> THEN 0 ELSE past[Len(past)].endedAt

(* The processes followed one another, each let calls pass in its own time,*)
(* and this one opened its windows itself.                                 *)
Lives ==
  /\ Began <= now /\ IsFiniteSet(admitted)
  /\ \A a \in admitted : Began <= a.at /\ Began + Window <= a.until
  /\ \A ip \in tracked : Began + Window <= resetAt[ip]
  /\ \A i \in DOMAIN past :
       /\ past[i].endedAt <= Began
       /\ \A a \in past[i].calls : a.at <= past[i].endedAt
       /\ IsFiniteSet(past[i].calls)

(* What makes RestartsAddOneLimit inductive: processes that ended before   *)
(* the stretch add nothing to it; the one that runs at its end spoils one  *)
(* limit less, if it began in the stretch.                                 *)
EarlierBounded ==
  \A ip \in Ips, t \in 0..MaxTime :
    /\ IsFiniteSet(Earlier(ip, t))
    /\ Began \in Stretch(t) =>
         Cardinality(Earlier(ip, t)) < (1 + Cardinality(Restarts(t))) * MaxRequests
    /\ t + Window - 1 < Began =>
         Cardinality(Earlier(ip, t)) < (2 + Cardinality(Restarts(t))) * MaxRequests

LivesInv == GuardInv /\ Lives /\ EarlierBounded

Life == [calls : SUBSET Calls(MaxTime), endedAt : 0..MaxTime]

LEMMA LifeTimes ==
  ASSUME GuardTypeOK
  PROVE  /\ past \in Seq(Life) /\ Len(past) \in Nat /\ DOMAIN past = 1..Len(past)
         /\ \A i \in DOMAIN past :
              /\ past[i].endedAt \in Int /\ past[i].endedAt >= 0
              /\ \A a \in past[i].calls : a.at \in Int
         /\ Began \in Int /\ Began >= 0 /\ now \in Int
<1> USE GuardAssumption
<1>1. past \in Seq(Life) /\ now \in Int
  BY DEF GuardTypeOK, Life
<1>2. Len(past) \in Nat /\ DOMAIN past = 1..Len(past)
  BY <1>1
<1>3. \A i \in DOMAIN past : past[i] \in Life
  BY <1>1
<1>4. \A i \in DOMAIN past : /\ past[i].endedAt \in Int /\ past[i].endedAt >= 0
                             /\ \A a \in past[i].calls : a.at \in Int
  BY <1>3 DEF Life, Calls
<1>5. past # <<>> => Len(past) \in DOMAIN past
  BY <1>1
<1> QED
  BY <1>1, <1>2, <1>4, <1>5 DEF Began

(* The history after a restart.                                            *)
LEMMA RestartPast ==
  ASSUME GuardTypeOK, Restart
  PROVE  /\ DOMAIN past' = DOMAIN past \cup {Len(past) + 1} /\ Len(past) + 1 \notin DOMAIN past
         /\ \A i \in DOMAIN past : past'[i] = past[i]
         /\ past'[Len(past) + 1].calls = admitted /\ past'[Len(past) + 1].endedAt = now
         /\ Began' = now
<1> DEFINE life == [calls |-> admitted, endedAt |-> now]
<1>1. past \in Seq(Life) /\ life.calls = admitted /\ life.endedAt = now
  BY LifeTimes
<1>2. past' = Append(past, life)
  BY DEF Restart
<1>3. life \in Life
  <2>1. admitted \subseteq Calls(MaxTime) /\ now \in 0..MaxTime
    BY CallsGrow, GuardAssumption DEF GuardTypeOK
  <2> QED
    BY <2>1 DEF Life
<1> HIDE DEF life
<1>4. /\ Len(past') = Len(past) + 1 /\ Len(past) \in Nat /\ past' \in Seq(Life)
      /\ DOMAIN past = 1..Len(past) /\ DOMAIN past' = 1..(Len(past) + 1)
      /\ \A i \in 1..Len(past) : past'[i] = past[i]
      /\ past'[Len(past) + 1] = life
  BY <1>1, <1>2, <1>3
<1>5. past' # <<>>
  BY <1>4
<1> QED
  BY <1>1, <1>4, <1>5 DEF Began

LEMMA LivesStep == GuardInv /\ Lives /\ [GuardNext]_guardVars => Lives'
<1> SUFFICES ASSUME GuardInv, Lives, [GuardNext]_guardVars PROVE Lives'
  OBVIOUS
<1>t. GuardTypeOK /\ now \in Int /\ Began \in Int /\ Window \in Int
  BY LifeTimes, GuardAssumption DEF GuardInv
<1>0. ASSUME past' = past PROVE Began' = Began
  BY <1>0 DEF Began
<1>1. ASSUME NEW ip \in Ips, NEW n, NEW until \in Int, Pass(ip, n, until),
             Began + Window <= until
      PROVE  Lives'
  <2> DEFINE new == [ip |-> ip, at |-> now, until |-> until, nth |-> n]
  <2>1. /\ admitted' = admitted \cup {new} /\ new.at = now /\ new.until = until
        /\ tracked' = tracked \cup {ip} /\ resetAt' = [resetAt EXCEPT ![ip] = until]
        /\ UNCHANGED <<now, past>>
    BY <1>1 DEF Pass
  <2> HIDE DEF new
  <2>2. IsFiniteSet(admitted')
    BY <2>1, FS_AddElement DEF Lives
  <2>3. \A a \in admitted' : Began <= a.at /\ Began + Window <= a.until
    BY <1>1, <2>1 DEF Lives
  <2>4. \A i \in tracked' : Began + Window <= resetAt'[i]
    BY <1>1, <1>t, <2>1 DEF Lives, GuardTypeOK
  <2> QED
    BY <1>0, <2>1, <2>2, <2>3, <2>4 DEF Lives
<1>2. ASSUME NEW ip \in Ips, CanActivate(ip) PROVE Lives'
  <2>1. CASE OpenWindow(ip)
    <3>1. Pass(ip, 1, now + Window) /\ Began + Window <= now + Window /\ now + Window \in Int
      BY <1>2, <1>t, <2>1 DEF CanActivate, Lives
    <3> QED
      BY <1>1, <3>1
  <2>2. CASE ~OpenWindow(ip)
    <3>1. Pass(ip, count[ip] + 1, resetAt[ip]) /\ Began + Window <= resetAt[ip]
      BY <1>2, <2>2 DEF CanActivate, OpenWindow, Lives
    <3>2. resetAt[ip] \in Int
      BY <1>t, GuardAssumption DEF GuardTypeOK
    <3> QED
      BY <1>1, <3>1, <3>2
  <2> QED
    BY <2>1, <2>2
<1>3. CASE ClearExpiredRecords
  BY <1>0, <1>3 DEF ClearExpiredRecords, Lives
<1>4. CASE Tick
  BY <1>0, <1>4, <1>t DEF Tick, limits, Lives
<1>5. CASE Restart
  <2>1. admitted' = {} /\ tracked' = {} /\ now' = now /\ IsFiniteSet({})
    BY <1>5, FS_EmptySet DEF Restart
  <2>2. ASSUME NEW i \in DOMAIN past'
        PROVE  /\ past'[i].endedAt <= Began' /\ IsFiniteSet(past'[i].calls)
               /\ \A a \in past'[i].calls : a.at <= past'[i].endedAt
    <3>1. CASE i \in DOMAIN past
      BY <1>5, <1>t, <3>1, LifeTimes, RestartPast DEF Lives
    <3>2. CASE i = Len(past) + 1
      BY <1>5, <1>t, <3>2, RestartPast DEF Lives, GuardInv, Windows
    <3> QED
      BY <1>5, <1>t, <3>1, <3>2, RestartPast
  <2>3. Began' <= now'
    BY <1>5, <1>t, <2>1, RestartPast
  <2> QED
    BY <2>1, <2>2, <2>3 DEF Lives
<1>6. CASE UNCHANGED guardVars
  BY <1>0, <1>6 DEF guardVars, limits, Lives
<1> QED
  BY <1>2, <1>3, <1>4, <1>5, <1>6 DEF GuardNext

(* What this process let pass in a stretch: at most one limit if it began  *)
(* in the stretch, since its windows end after it, and nothing before it   *)
(* began.                                                                  *)
LEMMA OwnCalls ==
  ASSUME GuardInv, Lives, NEW ip \in Ips, NEW t \in 0..MaxTime
  PROVE  /\ IsFiniteSet(CallsIn(admitted, ip, t)) /\ Within(admitted, ip, t) \in Nat
         /\ Within(admitted, ip, t) < 2 * MaxRequests
         /\ Began \in Stretch(t) => Within(admitted, ip, t) <= MaxRequests
         /\ t + Window - 1 < Began => Within(admitted, ip, t) = 0
         /\ now < t => Within(admitted, ip, t) = 0
<1> DEFINE S == CallsIn(admitted, ip, t)
<1>t. t \in Int /\ Began \in Int /\ now \in Int /\ Window \in Int /\ Window >= 1
  BY LifeTimes, GuardAssumption DEF GuardInv
<1>1. S \in SUBSET admitted
  BY DEF CallsIn
<1>2. \A a \in S : /\ a.ip = ip /\ a.at \in Int /\ a.until \in Int
                   /\ t <= a.at /\ a.at <= t + Window - 1 /\ a.at <= now
                   /\ Began <= a.at /\ Began + Window <= a.until
                   /\ a.until - Window <= a.at
  BY <1>t, CallsAreCalls, CallFields DEF CallsIn, Stretch, GuardInv, Windows, Lives
<1>3. IsFiniteSet(S) /\ Cardinality(S) \in Nat
  BY <1>1, FS_Subset, FS_CardinalityType DEF Lives
<1>4. Cardinality(S) < 2 * MaxRequests
  BY GuardBound DEF BelowTwiceLimit, Within
<1>5. ASSUME Began \in Stretch(t) PROVE Cardinality(S) <= MaxRequests
  <2>1. t <= Began
    BY <1>5, <1>t DEF Stretch
  <2>2. ASSUME NEW p \in S, NEW q \in S, p.until < q.until PROVE FALSE
    <3>1. p.until < q.until - Window
      BY <1>1, <1>2, <2>2 DEF GuardInv, Windows
    <3>2. /\ p.until \in Int /\ q.until \in Int /\ q.at \in Int
          /\ Began + Window <= p.until /\ q.until - Window <= q.at /\ q.at <= t + Window - 1
      BY <1>2
    <3> QED
      BY <1>t, <2>1, <3>1, <3>2
  <2>3. CASE S = {}
    BY <2>3, FS_EmptySet, GuardAssumption
  <2>4. CASE S # {}
    <3> HIDE DEF S
    <3>1. PICK b \in S : TRUE
      BY <2>4
    <3>2. \A a \in S : a.ip = ip /\ a.until = b.until
      BY <1>2, <2>2, <3>1
    <3> QED
      BY <1>1, <3>2, OneWindow
  <2> QED
    BY <2>3, <2>4
<1>6. ASSUME t + Window - 1 < Began \/ now < t PROVE Cardinality(S) = 0
  <2>1. \A a \in S : FALSE
    BY <1>2, <1>6, <1>t
  <2>2. S = {}
    BY <2>1
  <2> QED
    BY <2>2, FS_EmptySet
<1> QED
  BY <1>3, <1>4, <1>5, <1>6 DEF Within

LEMMA EarlierIsNone ==
  ASSUME GuardInv, Lives, NEW ip \in Ips, NEW t \in 0..MaxTime, Began < t
  PROVE  Earlier(ip, t) = {}
<1>1. t \in Int /\ Began \in Int /\ Window \in Int
  BY LifeTimes, GuardAssumption DEF GuardInv
<1>2. ASSUME NEW i \in DOMAIN past, NEW a \in CallsIn(past[i].calls, ip, t) PROVE FALSE
  <2>1. a \in past[i].calls /\ t <= a.at
    BY <1>1 DEF CallsIn, Stretch
  <2>2. a.at \in Int /\ a.at <= past[i].endedAt /\ past[i].endedAt <= Began
        /\ past[i].endedAt \in Int
    BY <2>1, LifeTimes DEF Lives, GuardInv
  <2> QED
    BY <1>1, <2>1, <2>2
<1> QED
  BY <1>2 DEF Earlier

LEMMA RestartsFinite ==
  ASSUME GuardTypeOK, NEW t
  PROVE  IsFiniteSet(Restarts(t)) /\ Cardinality(Restarts(t)) \in Nat
<1>1. IsFiniteSet(DOMAIN past)
  BY LifeTimes, FS_Interval
<1> QED
  BY <1>1, FS_Subset, FS_CardinalityType DEF Restarts

(* The bound, from the cases of when this process began.                   *)
LEMMA StretchBound ==
  ASSUME LivesInv, NEW ip \in Ips, NEW t \in 0..MaxTime
  PROVE  /\ Cardinality(Earlier(ip, t)) \in Nat
         /\ Within(admitted, ip, t) + Cardinality(Earlier(ip, t))
              < (2 + Cardinality(Restarts(t))) * MaxRequests
<1> DEFINE W == Within(admitted, ip, t)
           E == Cardinality(Earlier(ip, t))
           n == Cardinality(Restarts(t))
<1>1. E \in Nat /\ n \in Nat /\ W \in Nat /\ MaxRequests \in Nat
  BY RestartsFinite, OwnCalls, FS_CardinalityType, GuardAssumption
     DEF LivesInv, EarlierBounded, GuardInv
<1>2. n * MaxRequests \in Nat /\ (2 + n) * MaxRequests = 2 * MaxRequests + n * MaxRequests
      /\ (1 + n) * MaxRequests = MaxRequests + n * MaxRequests
  BY <1>1
<1>t. t \in Int /\ Began \in Int /\ Window \in Int
  BY LifeTimes, GuardAssumption DEF LivesInv, GuardInv
<1>3. CASE Began < t
  <2>1. E = 0
    BY <1>3, EarlierIsNone, FS_EmptySet DEF LivesInv
  <2>2. W < 2 * MaxRequests
    BY OwnCalls DEF LivesInv
  <2> HIDE DEF W, E, n
  <2>3. W + E < (2 + n) * MaxRequests
    BY <1>1, <1>2, <2>1, <2>2
  <2> QED
    BY <1>1, <2>3 DEF W, E, n
<1>4. CASE Began \in Stretch(t)
  <2>1. E < (1 + n) * MaxRequests
    BY <1>4 DEF LivesInv, EarlierBounded
  <2>2. W <= MaxRequests
    BY <1>4, OwnCalls DEF LivesInv
  <2> HIDE DEF W, E, n
  <2>3. W + E < (2 + n) * MaxRequests
    BY <1>1, <1>2, <2>1, <2>2
  <2> QED
    BY <1>1, <2>3 DEF W, E, n
<1>5. CASE t + Window - 1 < Began
  <2>1. E < (2 + n) * MaxRequests
    BY <1>5 DEF LivesInv, EarlierBounded
  <2>2. W = 0
    BY <1>5, OwnCalls DEF LivesInv
  <2> HIDE DEF W, E, n
  <2>3. W + E < (2 + n) * MaxRequests
    BY <1>1, <1>2, <2>1, <2>2
  <2> QED
    BY <1>1, <2>3 DEF W, E, n
<1> QED
  BY <1>3, <1>4, <1>5, <1>t DEF Stretch

LEMMA EarlierStep ==
  ASSUME LivesInv, Lives', [GuardNext]_guardVars
  PROVE  EarlierBounded'
<1>t. /\ GuardTypeOK /\ GuardInv /\ Lives
      /\ now \in Int /\ Began \in Int /\ Window \in Int /\ Began <= now
      /\ Len(past) \in Nat /\ DOMAIN past = 1..Len(past) /\ MaxRequests \in Nat
  BY LifeTimes, GuardAssumption DEF LivesInv, GuardInv, Lives
<1>1. CASE Restart
  <2> SUFFICES ASSUME NEW ip \in Ips, NEW t \in 0..MaxTime
               PROVE  /\ IsFiniteSet(Earlier(ip, t)')
                      /\ Began' \in Stretch(t) =>
                           Cardinality(Earlier(ip, t)') < (1 + Cardinality(Restarts(t)')) * MaxRequests
                      /\ t + Window - 1 < Began' =>
                           Cardinality(Earlier(ip, t)') < (2 + Cardinality(Restarts(t)')) * MaxRequests
    BY DEF EarlierBounded
  <2> DEFINE k == Len(past) + 1
             S == CallsIn(admitted, ip, t)
             W == Within(admitted, ip, t)
             E == Earlier(ip, t)
             n == Cardinality(Restarts(t))
  <2>1. Earlier(ip, t)' = E \cup ({k} \X S)
    BY <1>1, <1>t, RestartPast DEF Earlier, CallsIn
  <2>2. E \cap ({k} \X S) = {}
    BY <1>1, <1>t, RestartPast DEF Earlier
  <2>3. IsFiniteSet(E) /\ Cardinality(E) \in Nat
    BY FS_CardinalityType DEF LivesInv, EarlierBounded
  <2>4. IsFiniteSet(S) /\ W = Cardinality(S) /\ W \in Nat
    BY <1>t, OwnCalls DEF Within
  <2>5. IsFiniteSet({k}) /\ Cardinality({k}) = 1
    BY FS_Singleton
  <2>6. IsFiniteSet({k} \X S) /\ Cardinality({k} \X S) = W
    <3> HIDE DEF k, S, W
    <3> QED
      BY <2>4, <2>5, FS_Product
  <2>7. IsFiniteSet(Earlier(ip, t)') /\ Cardinality(Earlier(ip, t)') = Cardinality(E) + W
    <3> DEFINE P == {k} \X S
    <3>1. /\ Earlier(ip, t)' = E \cup P /\ Cardinality(E \cap P) = 0
          /\ IsFiniteSet(P) /\ Cardinality(P) = W
      BY <2>1, <2>2, <2>6, FS_EmptySet
    <3> HIDE DEF k, S, W, E, P
    <3>2. IsFiniteSet(E \cup P) /\ Cardinality(E \cup P) = Cardinality(E) + W - 0
      BY <2>3, <3>1, FS_Union
    <3> QED
      BY <2>3, <2>4, <3>1, <3>2
  <2>8. W + Cardinality(E) < (2 + n) * MaxRequests
    BY StretchBound
  <2>9. n \in Nat /\ IsFiniteSet(Restarts(t)) /\ k \notin Restarts(t)
    BY <1>1, <1>t, RestartsFinite, RestartPast DEF Restarts
  <2>10. Began' = now /\ t \in Int
    BY <1>1, <1>t, RestartPast
  <2>11. CASE now \in Stretch(t)
    <3>1. Restarts(t)' = Restarts(t) \cup {k}
      BY <1>1, <1>t, <2>11, RestartPast DEF Restarts
    <3>2. Cardinality(Restarts(t)') = n + 1
      BY <2>9, <3>1, FS_AddElement
    <3>3. 1 + (n + 1) = 2 + n /\ ~(t + Window - 1 < now)
      BY <1>t, <2>9, <2>10, <2>11 DEF Stretch
    <3> HIDE DEF W, E, n
    <3> QED
      BY <2>3, <2>4, <2>7, <2>8, <2>10, <3>2, <3>3
  <2>12. CASE now \notin Stretch(t)
    <3>1. Restarts(t)' = Restarts(t)
      BY <1>1, <1>t, <2>12, RestartPast DEF Restarts
    <3> HIDE DEF W, E
    <3> QED
      BY <2>3, <2>4, <2>7, <2>8, <2>10, <2>12, <3>1
  <2> QED
    BY <2>11, <2>12
<1>2. CASE UNCHANGED past
  <2>1. Began' = Began /\ \A t : Restarts(t)' = Restarts(t)
    BY <1>2 DEF Began, Restarts
  <2>2. \A ip, t : Earlier(ip, t)' = Earlier(ip, t)
    BY <1>2 DEF Earlier
  <2> QED
    BY <2>1, <2>2 DEF LivesInv, EarlierBounded
<1> QED
  BY <1>1, <1>2 DEF GuardNext, CanActivate, Pass, ClearExpiredRecords, Tick, guardVars

LEMMA LivesInit == GuardInit => LivesInv
<1> SUFFICES ASSUME GuardInit PROVE LivesInv
  OBVIOUS
<1>1. Began = 0 /\ now = 0 /\ DOMAIN past = {} /\ admitted = {} /\ tracked = {}
  BY DEF GuardInit, Began
<1>2. Lives
  BY <1>1, FS_EmptySet DEF Lives
<1>3. \A ip, t : Earlier(ip, t) = {} /\ Restarts(t) = {}
  BY <1>1 DEF Earlier, Restarts
<1>4. EarlierBounded
  BY <1>3, FS_EmptySet, GuardAssumption DEF EarlierBounded
<1> QED
  BY <1>2, <1>4, GuardInvInit DEF LivesInv

LEMMA LivesInvStep == LivesInv /\ [GuardNext]_guardVars => LivesInv'
  BY GuardStep, LivesStep, EarlierStep DEF LivesInv

(* ip-rate-limit.guard.ts:24: however often the process restarts, an       *)
(* address gains one limit by each restart in the stretch and none by the  *)
(* others.                                                                 *)
THEOREM RestartsBounded == Spec => []RestartsAddOneLimit
<1>1. Init => LivesInv
  BY LivesInit DEF Init
<1>2. LivesInv /\ [Next]_vars => LivesInv'
  BY LivesInvStep, StepsOfTheGuard
<1>3. LivesInv => RestartsAddOneLimit
  BY StretchBound DEF RestartsAddOneLimit
<1> QED
  BY <1>1, <1>2, <1>3, PTL DEF Spec

-----------------------------------------------------------------------------
(* The checks of sanitize-input.util.ts.                                   *)
LEMMA NatMinimum ==
  ASSUME NEW T \in SUBSET Nat, T # {}
  PROVE  \E x \in T : \A y \in T : x <= y
<1> DEFINE R == {ss \in Nat \X Nat : ss[1] < ss[2]}
<1>1. IsWellFoundedOn(R, Nat)
  BY NatLessThanWellFounded DEF OpToRel
<1>2. \E x \in T : \A y \in T : ~(<<y, x>> \in R)
  <2> HIDE DEF R
  <2> QED
    BY <1>1, WFMin
<1>3. PICK x \in T : \A y \in T : ~(<<y, x>> \in R)
  BY <1>2
<1>4. ASSUME NEW y \in T PROVE x <= y
  <2>1. ~(<<y, x>> \in R) /\ x \in Nat /\ y \in Nat
    BY <1>3
  <2>2. ~(y < x)
    BY <2>1
  <2> QED
    BY <2>1, <2>2
<1> QED
  BY <1>4

LEMMA BehindIsNat ==
  ASSUME NEW S \in SUBSET Nat
  PROVE  Behind(S) \in Nat /\ (S = {} => Behind(S) = 0)
<1>1. CASE S = {}
  BY <1>1 DEF Behind
<1>2. CASE S # {}
  <2> DEFINE least == CHOOSE i \in S : \A j \in S : i <= j
  <2>1. least \in S
    BY <1>2, NatMinimum
  <2>2. Behind(S) = 1 + least
    BY <1>2 DEF Behind
  <2> HIDE DEF least
  <2> QED
    BY <1>2, <2>1, <2>2
<1> QED
  BY <1>1, <1>2

LEMMA FoundIsNat ==
  ASSUME NEW text \in Text, NEW p \in Patterns, NEW from \in Nat
  PROVE  /\ Found(text, p, from) \in SUBSET Nat
         /\ Found(text, p, 0) = text.matches[p]
<1>1. text.matches[p] \in SUBSET Nat
  BY PatternsAssumption DEF Text
<1> QED
  BY <1>1 DEF Found

(* A custom input checked with every lastIndex at 0 is judged by what it   *)
(* holds; a lastIndex it leaves behind is that of the pattern it names.    *)
Fine(text) == text.size <= MAX_CUSTOM_INPUT_LENGTH /\ text.plain /\ ~Forbidden(text)

LEMMA CheckedFromUnread ==
  ASSUME NEW text \in Text, NEW c, c = CheckCustomInput(Unread, text)
  PROVE  /\ c.index \in [Patterns -> Nat]
         /\ c.ok <=> text.size # 0 /\ Fine(text)
         /\ c.ok => c.index = Unread /\ c.refusedBy = {}
         /\ \A p \in Patterns : c.index[p] > 0 => p \in c.refusedBy
<1> DEFINE by == {p \in Patterns : Refuses(Unread, text, p)}
           left == [p \in Patterns |->
                      IF \E q \in by : q < p THEN Unread[p]
                      ELSE Behind(Found(text, p, Unread[p]))]
           long == text.size = 0 \/ text.size > MAX_CUSTOM_INPUT_LENGTH
<1>0. Unread \in [Patterns -> Nat] /\ \A p \in Patterns : Unread[p] = 0
  BY DEF Unread
<1>1. \A p \in Patterns : /\ Found(text, p, Unread[p]) = text.matches[p]
                          /\ text.matches[p] \in SUBSET Nat
  BY <1>0, FoundIsNat
<1>2. \A p \in Patterns : /\ left[p] \in Nat
                          /\ text.matches[p] = {} => left[p] = 0
  BY <1>0, <1>1, BehindIsNat
<1>3. by = {} <=> ~Forbidden(text)
  <2>1. by # {} => Forbidden(text)
    BY <1>1 DEF Refuses, Forbidden
  <2>2. ASSUME Forbidden(text) PROVE by # {}
    <3> DEFINE T == {p \in Patterns : text.matches[p] # {}}
    <3>1. T # {} /\ T \in SUBSET Nat
      BY <2>2, PatternsAssumption DEF Forbidden
    <3>2. PICK p \in T : \A q \in T : p <= q
      BY <3>1, NatMinimum
    <3>3. \A q \in Patterns : q < p => text.matches[q] = {}
      BY <3>1, <3>2, PatternsAssumption
    <3>4. Refuses(Unread, text, p)
      BY <1>1, <3>2, <3>3 DEF Refuses
    <3> QED
      BY <3>2, <3>4
  <2> QED
    BY <2>1, <2>2
<1>4. ASSUME NEW p \in Patterns, left[p] > 0 PROVE p \in by
  <2>1. text.matches[p] # {} /\ ~(\E q \in by : q < p)
    BY <1>0, <1>2, <1>4
  <2>2. ASSUME NEW q \in Patterns, q < p PROVE text.matches[q] = {}
    <3> DEFINE T == {i \in Patterns : text.matches[i] # {} /\ i < p}
    <3>1. SUFFICES ASSUME T # {} PROVE FALSE
      BY <2>2
    <3>2. T \in SUBSET Nat
      BY PatternsAssumption
    <3>3. PICK i \in T : \A j \in T : i <= j
      BY <3>1, <3>2, NatMinimum
    <3>4. p \in Nat /\ \A j \in Patterns : j \in Nat
      BY PatternsAssumption
    <3>5. \A j \in Patterns : j < i => text.matches[j] = {}
      BY <3>2, <3>3, <3>4
    <3>6. Refuses(Unread, text, i) /\ i \in Patterns /\ i < p
      BY <1>1, <3>3, <3>5 DEF Refuses
    <3> QED
      BY <2>1, <3>6
  <2> QED
    BY <1>1, <2>1, <2>2 DEF Refuses
<1>5. by = {} => left = Unread
  BY <1>1, <1>2, <1>3 DEF Forbidden, Unread
<1>6. CASE long
  <2>1. c = [index |-> Unread, refusedBy |-> {}, ok |-> FALSE]
    BY <1>6 DEF CheckCustomInput
  <2>2. ~(text.size # 0 /\ Fine(text))
    BY <1>6 DEF Fine, Text, MAX_CUSTOM_INPUT_LENGTH
  <2> QED
    BY <1>0, <2>1, <2>2
<1>7. CASE ~long
  <2> DEFINE kept == by = {} /\ text.plain
  <2>1. c = [index |-> left, refusedBy |-> by, ok |-> kept]
    BY <1>7 DEF CheckCustomInput
  <2>2. text.plain \in BOOLEAN /\ text.size \in Nat
    BY DEF Text
  <2>3. text.size # 0 /\ text.size <= MAX_CUSTOM_INPUT_LENGTH
    BY <1>7, <2>2 DEF MAX_CUSTOM_INPUT_LENGTH
  <2>4. left \in [Patterns -> Nat]
    BY <1>2
  <2> HIDE DEF by, left, kept
  <2>5. c.index = left /\ c.refusedBy = by /\ c.ok = kept
    BY <2>1
  <2>6. c.ok <=> by = {} /\ text.plain
    BY <2>5, Zenon DEF kept
  <2>7. c.ok <=> text.size # 0 /\ Fine(text)
    BY <1>3, <2>3, <2>6, Zenon DEF Fine
  <2>8. c.ok => c.index = Unread /\ c.refusedBy = {}
    BY <1>5, <2>5, <2>6
  <2>9. \A p \in Patterns : c.index[p] > 0 => p \in c.refusedBy
    BY <1>4, <2>5
  <2> QED
    BY <2>4, <2>5, <2>7, <2>8, <2>9, Zenon
<1> QED
  BY <1>6, <1>7

Passable(given) == \A text \in given : text.size # 0 => Fine(text)

LEMMA OptionalFromUnread ==
  ASSUME NEW given \in Optional(Text), NEW c, c = CheckOptional(Unread, given)
  PROVE  /\ c.index \in [Patterns -> Nat]
         /\ c.ok <=> Passable(given)
         /\ c.ok => c.index = Unread /\ c.refusedBy = {}
         /\ \A p \in Patterns : c.index[p] > 0 => p \in c.refusedBy
<1>1. CASE \A text \in given : text.size = 0
  <2>1. c = [index |-> Unread, refusedBy |-> {}, ok |-> TRUE]
    BY <1>1 DEF CheckOptional, Skipped
  <2>2. Passable(given)
    BY <1>1 DEF Passable
  <2>3. Unread \in [Patterns -> Nat] /\ \A p \in Patterns : ~(Unread[p] > 0)
    BY DEF Unread
  <2> QED
    BY <2>1, <2>2, <2>3
<1>2. CASE ~(\A text \in given : text.size = 0)
  <2> DEFINE only == CHOOSE text \in given : TRUE
  <2>1. only \in given /\ only \in Text
    BY <1>2 DEF Optional
  <2>2. \A text \in given : text = only
    BY <2>1 DEF Optional
  <2>3. c = CheckCustomInput(Unread, only)
    BY <1>2 DEF CheckOptional
  <2> HIDE DEF only
  <2>4. only.size # 0
    BY <1>2, <2>2
  <2>5. Passable(given) <=> Fine(only)
    BY <2>1, <2>2, <2>4 DEF Passable
  <2>6. /\ c.index \in [Patterns -> Nat]
        /\ c.ok <=> only.size # 0 /\ Fine(only)
        /\ c.ok => c.index = Unread /\ c.refusedBy = {}
        /\ \A p \in Patterns : c.index[p] > 0 => p \in c.refusedBy
    BY <2>1, <2>3, CheckedFromUnread
  <2> QED
    BY <2>4, <2>5, <2>6, Zenon
<1> QED
  BY <1>1, <1>2

LEMMA DraftChecked ==
  ASSUME NEW index \in [Patterns -> Nat], NEW text \in Text, NEW max,
         NEW c, c = CheckDraft(index, text, max)
  PROVE  /\ c.ok <=> ~(text.size > max \/ text.size < 10)
         /\ c.ok => c.index = Unread
         /\ ~c.ok => c.index = index /\ c.missed = {}
         /\ \A p \in c.missed : p \in Patterns /\ index[p] > 0
<1>1. CASE text.size > max \/ text.size < 10
  <2>1. c = [index |-> index, missed |-> {}, ok |-> FALSE]
    BY <1>1 DEF CheckDraft
  <2> QED
    BY <1>1, <2>1
<1>2. CASE ~(text.size > max \/ text.size < 10)
  <2> DEFINE kept == {p \in Patterns : text.matches[p] # {} /\ Found(text, p, index[p]) = {}}
  <2>1. c = [index |-> Unread, missed |-> kept, ok |-> TRUE]
    BY <1>2 DEF CheckDraft, Unread
  <2>2. ASSUME NEW p \in kept PROVE p \in Patterns /\ index[p] > 0
    <3>1. index[p] \in Nat /\ index[p] # 0
      BY FoundIsNat
    <3> QED
      BY <3>1
  <2> HIDE DEF kept
  <2> QED
    BY <1>2, <2>1, <2>2
<1> QED
  BY <1>1, <1>2

(* The checks of a whole body: the verdict does not depend on the lastIndex*)
(* found, and what is left of it is either as it was, nothing having been  *)
(* looked for, or that of the pattern that refuses.                        *)
LEMMA BodyChecked ==
  ASSUME NEW index \in [Patterns -> Nat], NEW dto \in GenerateEmailDto, NEW max \in Nat,
         NEW s, s = Sanitized(index, dto, max)
  PROVE  /\ s.index \in [Patterns -> Nat]
         /\ s.ok <=> Acceptable(dto, max)
         /\ \A p \in s.missed : p \in Patterns /\ index[p] > 0
         /\ \A p \in Patterns : s.index[p] > 0 =>
              p \in s.refusedBy \/ (p \notin s.missed /\ index[p] > 0)
<1> DEFINE draft == CheckDraft(index, dto.draft, max)
           r == CheckOptional(draft.index, dto.relationship)
           p == CheckOptional(r.index, dto.purpose)
           t == CheckOptional(p.index, dto.tone)
           stop == [Skipped(draft.index) EXCEPT !.ok = FALSE]
           last == IF ~draft.ok THEN stop ELSE IF ~r.ok THEN r ELSE IF ~p.ok THEN p ELSE t
<1>1. s = [index |-> last.index, refusedBy |-> last.refusedBy, ok |-> last.ok,
           missed |-> draft.missed]
  BY DEF Sanitized
<1>2. /\ s.index = last.index /\ s.refusedBy = last.refusedBy /\ s.ok = last.ok
      /\ s.missed = draft.missed
  <2> HIDE DEF last, draft
  <2> QED
    BY <1>1
<1>3. /\ dto.draft \in Text /\ dto.relationship \in Optional(Text)
      /\ dto.purpose \in Optional(Text) /\ dto.tone \in Optional(Text)
  BY DEF GenerateEmailDto
<1>4. /\ draft.ok <=> ~(dto.draft.size > max \/ dto.draft.size < 10)
      /\ draft.ok => draft.index = Unread
      /\ ~draft.ok => draft.index = index /\ draft.missed = {}
      /\ \A q \in draft.missed : q \in Patterns /\ index[q] > 0
  <2> HIDE DEF draft
  <2>1. draft = CheckDraft(index, dto.draft, max)
    BY DEF draft
  <2> QED
    BY <1>3, <2>1, DraftChecked
<1>5. Acceptable(dto, max) <=>
        /\ ~(dto.draft.size > max \/ dto.draft.size < 10)
        /\ Passable(dto.relationship) /\ Passable(dto.purpose) /\ Passable(dto.tone)
  <2>1. dto.draft.size \in Nat
    BY <1>3 DEF Text
  <2>2. MIN_DRAFT <= dto.draft.size /\ dto.draft.size <= max
          <=> ~(dto.draft.size > max \/ dto.draft.size < 10)
    BY <2>1 DEF MIN_DRAFT
  <2> QED
    BY <2>2, Zenon DEF Acceptable, Passable, Fine
<1>a. Acceptable(dto, max) <=>
        /\ draft.ok
        /\ Passable(dto.relationship) /\ Passable(dto.purpose) /\ Passable(dto.tone)
  BY <1>4, <1>5, Zenon
<1>6. CASE ~draft.ok
  <2>1. last = stop
    BY <1>6
  <2>2. stop.index = index /\ stop.ok = FALSE /\ stop.refusedBy = {}
    BY <1>4, <1>6 DEF Skipped
  <2> HIDE DEF draft, last, stop
  <2> QED
    BY <1>2, <1>4, <1>5, <1>6, <2>1, <2>2
<1>7. CASE draft.ok
  <2>1. \A q \in Patterns : ~(Unread[q] > 0)
    BY DEF Unread
  <2>a. r = CheckOptional(Unread, dto.relationship)
    BY <1>4, <1>7
  <2>2. /\ r.index \in [Patterns -> Nat]
        /\ r.ok <=> Passable(dto.relationship)
        /\ r.ok => r.index = Unread /\ r.refusedBy = {}
        /\ \A q \in Patterns : r.index[q] > 0 => q \in r.refusedBy
    <3> HIDE DEF r
    <3> QED
      BY <1>3, <2>a, OptionalFromUnread
  <2>3. CASE ~r.ok
    <3>1. last = r
      BY <1>7, <2>3
    <3> HIDE DEF draft, r, p, t, last
    <3>v. s.ok <=> Acceptable(dto, max)
      BY <1>2, <1>a, <2>2, <2>3, <3>1, Zenon
    <3>j. s.index = r.index /\ s.refusedBy = r.refusedBy
      BY <1>2, <3>1
    <3>i. /\ s.index \in [Patterns -> Nat]
         /\ \A q \in Patterns : s.index[q] > 0 => q \in s.refusedBy
      BY <2>2, <3>j
    <3> QED
      BY <1>2, <1>4, <3>v, <3>i
  <2>4. CASE r.ok
    <3>a. p = CheckOptional(Unread, dto.purpose)
      BY <2>2, <2>4
    <3>2. /\ p.index \in [Patterns -> Nat]
          /\ p.ok <=> Passable(dto.purpose)
          /\ p.ok => p.index = Unread /\ p.refusedBy = {}
          /\ \A q \in Patterns : p.index[q] > 0 => q \in p.refusedBy
      <4> HIDE DEF p
      <4> QED
        BY <1>3, <3>a, OptionalFromUnread
    <3>3. CASE ~p.ok
      <4>1. last = p
        BY <1>7, <2>4, <3>3
      <4> HIDE DEF draft, r, p, t, last
      <4>v. s.ok <=> Acceptable(dto, max)
        BY <1>2, <1>a, <3>2, <3>3, <4>1, Zenon
      <4>j. s.index = p.index /\ s.refusedBy = p.refusedBy
        BY <1>2, <4>1
      <4>i. /\ s.index \in [Patterns -> Nat]
           /\ \A q \in Patterns : s.index[q] > 0 => q \in s.refusedBy
        BY <3>2, <4>j
      <4> QED
        BY <1>2, <1>4, <4>v, <4>i
    <3>4. CASE p.ok
      <4>1. last = t
        BY <1>7, <2>4, <3>4
      <4>a. t = CheckOptional(Unread, dto.tone)
        BY <3>2, <3>4
      <4>2. /\ t.index \in [Patterns -> Nat]
            /\ t.ok <=> Passable(dto.tone)
            /\ t.ok => t.index = Unread /\ t.refusedBy = {}
            /\ \A q \in Patterns : t.index[q] > 0 => q \in t.refusedBy
        <5> HIDE DEF t
        <5> QED
          BY <1>3, <4>a, OptionalFromUnread
      <4> HIDE DEF draft, r, p, t, last
      <4>v. s.ok <=> Acceptable(dto, max)
        BY <1>2, <1>7, <1>a, <2>2, <2>4, <3>2, <3>4, <4>1, <4>2, Zenon
      <4>j. s.index = t.index /\ s.refusedBy = t.refusedBy
        BY <1>2, <4>1
      <4>i. /\ s.index \in [Patterns -> Nat]
           /\ \A q \in Patterns : s.index[q] > 0 => q \in s.refusedBy
        BY <4>2, <4>j
      <4> QED
        BY <1>2, <1>4, <4>v, <4>i
    <3> QED
      BY <3>3, <3>4
  <2> QED
    BY <2>3, <2>4
<1> QED
  BY <1>6, <1>7

-----------------------------------------------------------------------------
(* What holds of a slot, whatever the others do.                           *)
Replies == {NoReply, ErrorReply(400), ErrorReply(429)}
Labels  == {"idle", "guard", "body", "lookup", "accepted", "refused"}
Limits  == {0, 150, 300, 600}

Coherent(r) ==
  /\ r.pc \in {"lookup", "accepted"} => r.body # None
  /\ r.max # 0 => r.body # None /\ r.pc \in {"accepted", "refused"}
  /\ r.pc = "refused" <=> r.reply # NoReply

Exact(r) == r.max # 0 => (r.pc = "accepted" <=> Acceptable(r.body, r.max))

SlotsOK ==
  /\ req \in [Handlers -> Request]
  /\ \A h \in Handlers : Coherent(req[h]) /\ Exact(req[h])

LEMMA Values ==
  /\ {"idle", "guard", "body", "lookup", "accepted", "refused"} \subseteq Labels
  /\ {0, 150, 300, 600} \subseteq Limits
  /\ NoReply \in Replies /\ ErrorReply(400) \in Replies /\ ErrorReply(429) \in Replies
  BY DEF Labels, Limits, Replies

LEMMA RequestFields ==
  ASSUME NEW r \in Request
  PROVE  /\ r.pc \in Labels /\ r.user \in Users \cup {None} /\ r.body \in Bodies \cup {None}
         /\ r.max \in Limits /\ r.reply \in Replies
  BY DEF Request, Labels, Limits, Replies

LEMMA SlotIsRequest ==
  ASSUME NEW l \in Labels, NEW u \in Users \cup {None}, NEW dto \in Bodies \cup {None},
         NEW m \in Limits, NEW reply \in Replies
  PROVE  /\ Slot(l, u, dto, m, reply) \in Request
         /\ Slot(l, u, dto, m, reply).pc = l
         /\ Slot(l, u, dto, m, reply).body = dto
         /\ Slot(l, u, dto, m, reply).max = m
         /\ Slot(l, u, dto, m, reply).reply = reply
  BY DEF Slot, Request, Labels, Limits, Replies

LEMMA RepliesDiffer ==
  /\ NoReply \in Replies /\ ErrorReply(400) \in Replies /\ ErrorReply(429) \in Replies
  /\ ErrorReply(400) # NoReply /\ ErrorReply(429) # NoReply
  BY DEF Replies, NoReply, ErrorReply

(* A new slot that is coherent and exact leaves all of them so.            *)
LEMMA Put ==
  ASSUME SlotsOK, NEW h \in Handlers, NEW r \in Request, Coherent(r), Exact(r), Becomes(h, r)
  PROVE  SlotsOK'
<1>1. req' = [req EXCEPT ![h] = r]
  BY DEF Becomes
<1>2. req' \in [Handlers -> Request]
  BY <1>1 DEF SlotsOK
<1>3. \A g \in Handlers : req'[g] = IF g = h THEN r ELSE req[g]
  BY <1>1 DEF SlotsOK
<1> QED
  BY <1>2, <1>3 DEF SlotsOK, Coherent, Exact, Acceptable

(* A slot that has not been sanitised yet.                                 *)
LEMMA PutEarly ==
  ASSUME SlotsOK, NEW h \in Handlers, NEW l \in {"idle", "guard", "body", "lookup"},
         NEW u \in Users \cup {None}, NEW dto \in Bodies \cup {None},
         l = "lookup" => dto # None,
         Becomes(h, Slot(l, u, dto, 0, NoReply))
  PROVE  SlotsOK'
<1> DEFINE r == Slot(l, u, dto, 0, NoReply)
<1>1. r \in Request /\ r.pc = l /\ r.body = dto /\ r.max = 0 /\ r.reply = NoReply
  <2>1. l \in Labels /\ 0 \in Limits /\ NoReply \in Replies
    BY Values
  <2> QED
    BY <2>1, SlotIsRequest
<1>2. Becomes(h, r)
  OBVIOUS
<1> HIDE DEF r
<1>3. Coherent(r) /\ Exact(r)
  BY <1>1 DEF Coherent, Exact
<1> QED
  BY <1>1, <1>2, <1>3, Put

LEMMA Refused ==
  ASSUME SlotsOK, NEW h \in Handlers, req[h].max = 0,
         Refuse(h, 400) \/ Refuse(h, 429)
  PROVE  SlotsOK'
<1>0. req[h] \in Request
  BY DEF SlotsOK
<1>1. PICK status \in {400, 429} : Refuse(h, status)
  OBVIOUS
<1> DEFINE reply == ErrorReply(status)
           r == Slot("refused", req[h].user, req[h].body, req[h].max, reply)
<1>2. reply \in Replies /\ reply # NoReply
  BY RepliesDiffer
<1>3. Becomes(h, r)
  BY <1>1 DEF Refuse
<1> HIDE DEF reply
<1>4. r \in Request /\ r.pc = "refused" /\ r.max = 0 /\ r.reply # NoReply
  <2>1. "refused" \in Labels
    BY Values
  <2>2. req[h].user \in Users \cup {None} /\ req[h].body \in Bodies \cup {None}
        /\ req[h].max \in Limits
    BY <1>0, RequestFields
  <2>3. /\ r \in Request /\ r.pc = "refused" /\ r.max = req[h].max
        /\ r.reply = reply
    BY <1>2, <2>2 DEF Slot, Request, Limits, Replies
  <2> QED
    BY <1>2, <2>3
<1> HIDE DEF r
<1>5. Coherent(r) /\ Exact(r)
  BY <1>4 DEF Coherent, Exact
<1> QED
  BY <1>3, <1>4, <1>5, Put

(* Sanitised for some limit: the slot and the patterns after the step.     *)
LEMMA Judged ==
  ASSUME SlotsOK, lastIndex \in [Patterns -> Nat], NEW h \in Handlers, Sanitize(h)
  PROVE  /\ SlotsOK'
         /\ \E index \in [Patterns -> Nat] : \E missed, refusedBy :
              /\ lastIndex' = index
              /\ refusals' = Counting(refusals, refusedBy)
              /\ misses' = Counting(misses, missed)
              /\ \A p \in missed : p \in Patterns /\ lastIndex[p] > 0
              /\ \A p \in Patterns : index[p] > 0 =>
                   p \in refusedBy \/ (p \notin missed /\ lastIndex[p] > 0)
<1>0. req[h] \in Request /\ req[h].pc = "lookup" /\ Coherent(req[h])
  BY DEF SlotsOK, Sanitize
<1> DEFINE dto == req[h].body
           u == req[h].user
<1>1. PICK tier \in UserTier \cup {"guest"} :
        LET max  == InputLimit(tier, dto.length)
            done == Sanitized(lastIndex, dto, max)
        IN /\ lastIndex' = done.index
           /\ refusals' = Counting(refusals, done.refusedBy)
           /\ misses' = Counting(misses, done.missed)
           /\ Becomes(h, IF done.ok THEN Slot("accepted", u, dto, max, NoReply)
                         ELSE Slot("refused", u, dto, max, ErrorReply(400)))
  BY DEF Sanitize
<1> DEFINE max  == InputLimit(tier, dto.length)
           done == Sanitized(lastIndex, dto, max)
<1>2. max \in {150, 300, 600}
  BY DEF InputLimit, getInputLimitByTier, UserTier
<1>3. dto \in Bodies /\ dto # None /\ u \in Users \cup {None}
  BY <1>0, RequestFields DEF Coherent
<1>4. dto \in GenerateEmailDto /\ max \in Nat
  BY <1>2, <1>3, EntryAssumption
<1>5. /\ lastIndex' = done.index
      /\ refusals' = Counting(refusals, done.refusedBy)
      /\ misses' = Counting(misses, done.missed)
      /\ Becomes(h, IF done.ok THEN Slot("accepted", u, dto, max, NoReply)
                    ELSE Slot("refused", u, dto, max, ErrorReply(400)))
  BY <1>1
<1> HIDE DEF max, dto, u
<1>6. /\ done.index \in [Patterns -> Nat]
      /\ done.ok <=> Acceptable(dto, max)
      /\ \A p \in done.missed : p \in Patterns /\ lastIndex[p] > 0
      /\ \A p \in Patterns : done.index[p] > 0 =>
           p \in done.refusedBy \/ (p \notin done.missed /\ lastIndex[p] > 0)
  <2> HIDE DEF done
  <2>1. done = Sanitized(lastIndex, dto, max)
    BY DEF done
  <2> QED
    BY <1>4, <2>1, BodyChecked
<1> HIDE DEF done
<1>7. CASE done.ok
  <2> DEFINE r == Slot("accepted", u, dto, max, NoReply)
  <2>1. /\ r \in Request /\ r.pc = "accepted" /\ r.body = dto
        /\ r.max = max /\ r.reply = NoReply
    <3>1. "accepted" \in Labels /\ max \in Limits /\ NoReply \in Replies
      BY <1>2, Values
    <3>2. dto \in Bodies \cup {None}
      BY <1>3
    <3> QED
      BY <1>3, <3>1, <3>2, SlotIsRequest
  <2>2. Becomes(h, r)
    BY <1>5, <1>7
  <2> HIDE DEF r
  <2>3. Coherent(r)
    BY <1>3, <2>1 DEF Coherent
  <2>4. Exact(r)
    BY <1>6, <1>7, <2>1, Zenon DEF Exact
  <2>5. SlotsOK'
    BY <2>1, <2>2, <2>3, <2>4, Put
  <2> QED
    BY <1>5, <1>6, <2>5
<1>8. CASE ~done.ok
  <2> DEFINE r == Slot("refused", u, dto, max, ErrorReply(400))
  <2>1. /\ r \in Request /\ r.pc = "refused" /\ r.body = dto
        /\ r.max = max /\ r.reply = ErrorReply(400)
    <3>1. "refused" \in Labels /\ max \in Limits /\ ErrorReply(400) \in Replies
      BY <1>2, Values
    <3>2. dto \in Bodies \cup {None}
      BY <1>3
    <3> QED
      BY <1>2, <1>3, <3>1, <3>2 DEF Slot, Request, Replies
  <2>2. Becomes(h, r)
    BY <1>5, <1>8
  <2> HIDE DEF r
  <2>3. Coherent(r) /\ r.pc # "accepted"
    BY <1>3, <2>1, RepliesDiffer DEF Coherent
  <2>4. Exact(r)
    BY <1>6, <1>8, <2>1, <2>3, Zenon DEF Exact
  <2>5. SlotsOK'
    BY <2>1, <2>2, <2>3, <2>4, Put
  <2> QED
    BY <1>5, <1>6, <2>5
<1> QED
  BY <1>7, <1>8

LEMMA IdleSlot ==
  Idle \in Request /\ Idle.pc = "idle" /\ Idle.max = 0 /\ Idle.reply = NoReply
<1>1. "idle" \in Labels /\ 0 \in Limits /\ NoReply \in Replies
  BY Values
<1>2. None \in Users \cup {None} /\ None \in Bodies \cup {None}
  OBVIOUS
<1> QED
  BY <1>1, <1>2, SlotIsRequest DEF Idle

LEMMA SlotsInit == Init => SlotsOK
  BY IdleSlot DEF Init, SlotsOK, Coherent, Exact

LEMMA SlotsStep == SlotsOK /\ lastIndex \in [Patterns -> Nat] /\ [Next]_vars => SlotsOK'
<1> SUFFICES ASSUME SlotsOK, lastIndex \in [Patterns -> Nat], [Next]_vars PROVE SlotsOK'
  OBVIOUS
<1>0. ASSUME UNCHANGED req PROVE SlotsOK'
  BY <1>0 DEF SlotsOK, Coherent, Exact, Acceptable
<1>r. ASSUME NEW h \in Handlers
      PROVE  /\ req[h].user \in Users \cup {None} /\ req[h].body \in Bodies \cup {None}
             /\ req[h].pc \in {"guard", "body", "lookup"} =>
                  req[h].max = 0 /\ req[h].reply = NoReply
             /\ req[h].pc = "lookup" => req[h].body # None
  <2>1. req[h] \in Request /\ Coherent(req[h])
    BY DEF SlotsOK
  <2> QED
    BY <2>1, RequestFields DEF Coherent
<1>1. ASSUME NEW h \in Handlers, Receive(h) PROVE SlotsOK'
  <2>1. PICK bearer \in Bearer(Users) :
          Becomes(h, Slot("guard", OptionalUser(bearer), None, 0, NoReply))
    BY <1>1 DEF Receive
  <2>2. OptionalUser(bearer) \in Users \cup {None}
    BY DEF Bearer, OptionalUser
  <2> QED
    BY <2>1, <2>2, PutEarly
<1>2. ASSUME NEW h \in Handlers, req[h].pc = "guard", Proceed(h, "body") PROVE SlotsOK'
  <2>1. Becomes(h, Slot("body", req[h].user, req[h].body, 0, NoReply))
    BY <1>2, <1>r DEF Proceed
  <2> QED
    BY <2>1, <1>r, PutEarly
<1>3. ASSUME NEW h \in Handlers, RefusedByIpGuard(h) \/ Fail(h) PROVE SlotsOK'
  <2>1. req[h].max = 0 /\ (Refuse(h, 400) \/ Refuse(h, 429))
    BY <1>3, <1>r DEF RefusedByIpGuard, Fail
  <2> QED
    BY <2>1, Refused
<1>4. ASSUME NEW h \in Handlers, Validate(h) PROVE SlotsOK'
  <2>1. PICK dto \in Bodies : IF Valid(dto)
                              THEN Becomes(h, Slot("lookup", req[h].user, dto, 0, NoReply))
                              ELSE Refuse(h, 400)
    BY <1>4 DEF Validate
  <2>2. req[h].max = 0 /\ dto # None
    BY <1>4, <1>r, EntryAssumption DEF Validate
  <2>3. CASE Valid(dto)
    BY <1>r, <2>1, <2>2, <2>3, PutEarly
  <2>4. CASE ~Valid(dto)
    BY <2>1, <2>2, <2>4, Refused
  <2> QED
    BY <2>3, <2>4
<1>5. ASSUME NEW h \in Handlers, Leave(h) PROVE SlotsOK'
  BY <1>5, PutEarly DEF Leave, Idle
<1>6. CASE ProcessRestarts
  <2>1. req' = [h \in Handlers |-> Idle]
    BY <1>6 DEF ProcessRestarts
  <2> QED
    BY <2>1, IdleSlot DEF SlotsOK, Coherent, Exact
<1>7. CASE UNCHANGED vars \/ ((ClearExpiredRecords \/ Tick) /\ UNCHANGED <<sanitizerVars, req>>)
  BY <1>0, <1>7 DEF vars
<1>8. ASSUME NEW h \in Handlers, SkipIpGuard(h) \/ \E ip \in Ips : PassIpGuard(h, ip)
      PROVE  SlotsOK'
  BY <1>2, <1>8 DEF SkipIpGuard, PassIpGuard
<1> QED
  BY <1>1, <1>3, <1>4, <1>5, <1>6, <1>7, <1>8, Judged DEF Next

-----------------------------------------------------------------------------
(* A lastIndex that is not 0 stands for a refusal that has not explained a *)
(* missed match yet.                                                       *)
Explained ==
  \A p \in Patterns : misses[p] + (IF lastIndex[p] > 0 THEN 1 ELSE 0) <= refusals[p]

SanitizerTypeOK == /\ lastIndex \in [Patterns -> Nat]
                   /\ refusals \in [Patterns -> Nat] /\ misses \in [Patterns -> Nat]

SanitizerInv == SlotsOK /\ SanitizerTypeOK /\ Explained

LEMMA SanitizerInit == Init => SanitizerInv
  BY SlotsInit DEF Init, Unread, SanitizerInv, SanitizerTypeOK, Explained

LEMMA Counted ==
  ASSUME NEW history \in [Patterns -> Nat], NEW who
  PROVE  /\ Counting(history, who) \in [Patterns -> Nat]
         /\ \A p \in Patterns :
              Counting(history, who)[p] = history[p] + IF p \in who THEN 1 ELSE 0
  BY DEF Counting

LEMMA SanitizerStep == SanitizerInv /\ [Next]_vars => SanitizerInv'
<1> SUFFICES ASSUME SanitizerInv, [Next]_vars PROVE SanitizerInv'
  OBVIOUS
<1>1. SlotsOK'
  BY SlotsStep DEF SanitizerInv, SanitizerTypeOK
<1>2. ASSUME UNCHANGED sanitizerVars PROVE (SanitizerTypeOK /\ Explained)'
  BY <1>2 DEF sanitizerVars, SanitizerInv, SanitizerTypeOK, Explained
<1>3. ASSUME ProcessRestarts PROVE (SanitizerTypeOK /\ Explained)'
  <2>1. lastIndex' = Unread /\ refusals' = refusals /\ misses' = misses
    BY <1>3 DEF ProcessRestarts
  <2>2. Unread \in [Patterns -> Nat] /\ \A p \in Patterns : ~(Unread[p] > 0)
    BY DEF Unread
  <2>3. \A p \in Patterns : misses[p] \in Nat /\ refusals[p] \in Nat
    BY DEF SanitizerInv, SanitizerTypeOK
  <2> QED
    BY <2>1, <2>2, <2>3 DEF SanitizerInv, SanitizerTypeOK, Explained
<1>4. ASSUME NEW h \in Handlers, Sanitize(h) PROVE (SanitizerTypeOK /\ Explained)'
  <2>0. /\ lastIndex \in [Patterns -> Nat] /\ refusals \in [Patterns -> Nat]
        /\ misses \in [Patterns -> Nat] /\ SlotsOK
    BY DEF SanitizerInv, SanitizerTypeOK
  <2> DEFINE Outcome(index, missed, refusedBy) ==
        /\ lastIndex' = index
        /\ refusals' = Counting(refusals, refusedBy)
        /\ misses' = Counting(misses, missed)
        /\ \A p \in missed : p \in Patterns /\ lastIndex[p] > 0
        /\ \A p \in Patterns : index[p] > 0 =>
             p \in refusedBy \/ (p \notin missed /\ lastIndex[p] > 0)
  <2>j. \E index \in [Patterns -> Nat] : \E missed, refusedBy :
          Outcome(index, missed, refusedBy)
    BY <1>4, <2>0, Judged
  <2>i. PICK index \in [Patterns -> Nat] : \E missed, refusedBy : Outcome(index, missed, refusedBy)
    BY <2>j
  <2>1. PICK missed, refusedBy : Outcome(index, missed, refusedBy)
    BY <2>i
  <2>2. /\ refusals' \in [Patterns -> Nat] /\ misses' \in [Patterns -> Nat]
        /\ \A p \in Patterns :
             /\ refusals'[p] = refusals[p] + IF p \in refusedBy THEN 1 ELSE 0
             /\ misses'[p] = misses[p] + IF p \in missed THEN 1 ELSE 0
    BY <2>0, <2>1, Counted
  <2>3. ASSUME NEW p \in Patterns
        PROVE  misses'[p] + (IF lastIndex'[p] > 0 THEN 1 ELSE 0) <= refusals'[p]
    <3>1. misses[p] + (IF lastIndex[p] > 0 THEN 1 ELSE 0) <= refusals[p]
      BY DEF SanitizerInv, Explained
    <3>2. misses[p] \in Nat /\ refusals[p] \in Nat /\ lastIndex[p] \in Nat /\ index[p] \in Nat
      BY <2>0
    <3>3. p \in missed => lastIndex[p] > 0
      BY <2>1
    <3>4. index[p] > 0 => p \in refusedBy \/ (p \notin missed /\ lastIndex[p] > 0)
      BY <2>1
    <3> QED
      BY <2>1, <2>2, <3>1, <3>2, <3>3, <3>4
  <2> QED
    BY <2>1, <2>2, <2>3 DEF SanitizerTypeOK, Explained
<1>5. \/ UNCHANGED sanitizerVars \/ ProcessRestarts
      \/ \E h \in Handlers : Sanitize(h)
  BY DEF Next, vars, Receive, SkipIpGuard, PassIpGuard, RefusedByIpGuard, Validate, Leave, Fail
<1> QED
  BY <1>1, <1>2, <1>3, <1>4, <1>5 DEF SanitizerInv

EntryInv == GuardInv /\ SanitizerInv

LEMMA EntryInitially == Init => EntryInv
  BY GuardInvInit, SanitizerInit DEF Init, EntryInv

LEMMA EntryStep == EntryInv /\ [Next]_vars => EntryInv'
  BY GuardStep, StepsOfTheGuard, SanitizerStep DEF EntryInv

(* Every variable keeps its type, a request that waits for its lookup has  *)
(* passed the ValidationPipe, and exactly the refused ones carry an error. *)
THEOREM TypeCorrect == Spec => []TypeOK
<1>1. EntryInv => TypeOK
  BY DEF EntryInv, GuardInv, SanitizerInv, SanitizerTypeOK, SlotsOK, Coherent, TypeOK
<1> QED
  BY <1>1, EntryInitially, EntryStep, PTL DEF Spec

(* sanitize-input.util.ts, whatever patterns and bodies there are: what    *)
(* other requests left in the shared lastIndex never decides about a body. *)
THEOREM VerdictsHold == Spec => []VerdictsAreExact
<1>1. EntryInv => VerdictsAreExact
  BY DEF EntryInv, SanitizerInv, SlotsOK, Exact, VerdictsAreExact
<1> QED
  BY <1>1, EntryInitially, EntryStep, PTL DEF Spec

(* ... and a pattern overlooks a match in at most as many drafts as it has *)
(* refused custom inputs, also across restarts.                            *)
THEOREM MissesAreExplained == Spec => []MissesFollowRefusals
<1>1. EntryInv => MissesFollowRefusals
  <2> SUFFICES ASSUME EntryInv, NEW p \in Patterns PROVE misses[p] <= refusals[p]
    BY DEF MissesFollowRefusals
  <2>1. /\ misses[p] + (IF lastIndex[p] > 0 THEN 1 ELSE 0) <= refusals[p]
        /\ misses[p] \in Nat /\ refusals[p] \in Nat
    BY DEF EntryInv, SanitizerInv, SanitizerTypeOK, Explained
  <2> QED
    BY <2>1
<1> QED
  BY <1>1, EntryInitially, EntryStep, PTL DEF Spec
=============================================================================
