---------------------------- MODULE IpRateLimit -----------------------------
(***************************************************************************)
(* ip-rate-limit.guard.ts: guests may call the generator MaxRequests times *)
(* per window and IP address.  canActivate does not await, so a call is one*)
(* step.  The Map lives in the process and is lost when it restarts.  Which*)
(* header the address is taken from is left out.                           *)
(***************************************************************************)
EXTENDS Integers, FiniteSets, Sequences

CONSTANTS Ips,          \* client addresses
          MaxRequests,  \* getDailyRequestLimit('guest')
          Window,       \* WINDOW_MS, in ticks of the clock
          MaxTime,      \* bound: the clock stops here
          MaxRestarts   \* bound: so often does the process restart

ASSUME GuardAssumption ==
  /\ MaxRequests \in Nat \ {0} /\ Window \in Nat \ {0} /\ MaxTime \in Nat
  /\ MaxRestarts \in Nat

VARIABLES
  now,      \* Date.now()
  tracked,  \* the keys of the Map limits
  count,    \* count[ip] and
  resetAt,  \* resetAt[ip]: the record of ip
  admitted, \* history: [ip, at, until, nth] of the calls this process let pass
  past      \* history: [calls, endedAt] of every process before this one

limits    == <<tracked, count, resetAt>>
guardVars == <<now, limits, admitted, past>>

GuardInit == /\ now = 0
             /\ tracked = {}
             /\ count   = [ip \in Ips |-> 0]
             /\ resetAt = [ip \in Ips |-> 0]
             /\ admitted = {} /\ past = <<>>

-----------------------------------------------------------------------------
(* Variant: the window is over on its last tick already.                   *)
OpenWindowEarly(ip) == ip \notin tracked \/ now >= resetAt[ip] - 1

OpenWindow(ip) == ip \notin tracked \/ now > resetAt[ip]

Pass(ip, n, until) ==
  /\ tracked' = tracked \cup {ip}
  /\ count'   = [count EXCEPT ![ip] = n]
  /\ resetAt' = [resetAt EXCEPT ![ip] = until]
  /\ admitted' = admitted \cup {[ip |-> ip, at |-> now, until |-> until, nth |-> n]}
  /\ UNCHANGED <<now, past>>

(* Variant: the call that reaches the limit passes too.                    *)
CanActivateInclusive(ip) ==
  IF OpenWindow(ip) THEN Pass(ip, 1, now + Window)
  ELSE /\ count[ip] <= MaxRequests
       /\ Pass(ip, count[ip] + 1, resetAt[ip])

(* canActivate lets a request without a user pass ...                      *)
CanActivate(ip) ==
  IF OpenWindow(ip) THEN Pass(ip, 1, now + Window)
  ELSE /\ count[ip] < MaxRequests
       /\ Pass(ip, count[ip] + 1, resetAt[ip])

(* ... which answers 429 then.                                             *)
LimitReached(ip) == ~OpenWindow(ip) /\ count[ip] >= MaxRequests

(* clearExpiredRecords; nothing in src calls it.                           *)
ClearExpiredRecords ==
  /\ tracked' = {ip \in tracked : now <= resetAt[ip]}
  /\ UNCHANGED <<now, count, resetAt, admitted, past>>

Tick == /\ now < MaxTime
        /\ now' = now + 1
        /\ UNCHANGED <<limits, admitted, past>>

(* The process ends, by a deployment or an error nobody catches, and a new  *)
(* one starts with an empty Map.                                           *)
Restart ==
  /\ Len(past) < MaxRestarts
  /\ past' = Append(past, [calls |-> admitted, endedAt |-> now])
  /\ admitted' = {}
  /\ tracked' = {}
  /\ count' = [ip \in Ips |-> 0] /\ resetAt' = [ip \in Ips |-> 0]
  /\ UNCHANGED now

GuardNext == (\E ip \in Ips : CanActivate(ip)) \/ ClearExpiredRecords \/ Tick \/ Restart

GuardSpec == GuardInit /\ [][GuardNext]_guardVars

-----------------------------------------------------------------------------
Calls(time) == [ip : Ips, at : 0..time, until : 0..MaxTime + Window, nth : 1..MaxRequests]

GuardTypeOK ==
  /\ now \in 0..MaxTime
  /\ tracked \subseteq Ips
  /\ count \in [Ips -> 0..MaxRequests]
  /\ resetAt \in [Ips -> 0..MaxTime + Window]
  /\ admitted \subseteq Calls(now)
  /\ past \in Seq([calls : SUBSET Calls(MaxTime), endedAt : 0..MaxTime])

Stretch(t) == t..(t + Window - 1)

CallsIn(calls, ip, t) == {a \in calls : a.ip = ip /\ a.at \in Stretch(t)}

Within(calls, ip, t) == Cardinality(CallsIn(calls, ip, t))

(* What the processes before this one let pass in the stretch, and those of*)
(* them that ended in it.                                                  *)
Earlier(ip, t) == UNION {{i} \X CallsIn(past[i].calls, ip, t) : i \in DOMAIN past}

Restarts(t) == {i \in DOMAIN past : past[i].endedAt \in Stretch(t)}

(* ip-rate-limit.guard.ts:46-66 count per fixed window, not per sliding    *)
(* window: any Window consecutive ticks of one process see fewer than twice*)
(* MaxRequests calls of one address, wherever they lie and whether or not  *)
(* expired records are cleared.                                            *)
BelowTwiceLimit ==
  \A ip \in Ips, t \in 0..MaxTime : Within(admitted, ip, t) < 2 * MaxRequests

(* ip-rate-limit.guard.ts:24: the Map is lost with the process.  Across     *)
(* processes an address gains MaxRequests calls by each restart that falls *)
(* in the stretch, and none by the others: a process that starts within a  *)
(* stretch as long as the window opens one window in it.                   *)
RestartsAddOneLimit ==
  \A ip \in Ips, t \in 0..MaxTime :
    Within(admitted, ip, t) + Cardinality(Earlier(ip, t))
      < (2 + Cardinality(Restarts(t))) * MaxRequests
=============================================================================
