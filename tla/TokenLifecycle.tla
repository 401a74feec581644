--------------------------- MODULE TokenLifecycle ---------------------------
(***************************************************************************)
(* What the session store promises to the rest of the system, without     *)
(* requests, races or failures: a refresh token is opened once, for one   *)
(* user, either by a login or as the successor of a session of the same   *)
(* user that has already ended; it ends once and never comes back.         *)
(***************************************************************************)
CONSTANTS Users,  \* account ids
          Jti,    \* ids a refresh token may carry
          None    \* "no user", "no predecessor"

VARIABLES state,  \* state[j]: where token j is in its life
          holder, \* holder[j]: the user token j was issued to
          source  \* source[j]: the token j replaced, None after a login

avars == <<state, holder, source>>

AInit == /\ state  = [j \in Jti |-> "unused"]
         /\ holder = [j \in Jti |-> None]
         /\ source = [j \in Jti |-> None]

(* p = None: a login; otherwise j continues the ended session p.           *)
Open(j, u, p) ==
  /\ state[j] = "unused"
  /\ p # None => state[p] = "ended" /\ holder[p] = u
  /\ state'  = [state  EXCEPT ![j] = "live"]
  /\ holder' = [holder EXCEPT ![j] = u]
  /\ source' = [source EXCEPT ![j] = p]

End(j) ==
  /\ state[j] = "live"
  /\ state' = [state EXCEPT ![j] = "ended"]
  /\ UNCHANGED <<holder, source>>

ANext == \/ \E j \in Jti, u \in Users, p \in Jti \cup {None} : Open(j, u, p)
         \/ \E j \in Jti : End(j)

ASpec == AInit /\ [][ANext]_avars
=============================================================================
