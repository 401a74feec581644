----------------------------- MODULE OwnedRows ------------------------------
(***************************************************************************)
(* What a table of user-owned rows promises, without requests and races: a *)
(* row is created once, by its owner; only its owner writes it; what is    *)
(* removed at once is one user's; once a row is removed it never comes back*)
(* and nobody writes it again.                                             *)
(***************************************************************************)
CONSTANTS Users,  \* account ids
          Rows,   \* ids a row may get
          None    \* "nobody"

VARIABLES state,  \* state[r]: "unused", "stored" or "removed"
          holder, \* holder[r]: whose row it is
          writer  \* writer[r]: who wrote it last

ovars == <<state, holder, writer>>

OInit == /\ state  = [r \in Rows |-> "unused"]
         /\ holder = [r \in Rows |-> None]
         /\ writer = [r \in Rows |-> None]

New(r, u) ==
  /\ state[r] = "unused"
  /\ state'  = [state  EXCEPT ![r] = "stored"]
  /\ holder' = [holder EXCEPT ![r] = u]
  /\ writer' = [writer EXCEPT ![r] = u]

(* What is written is left out: a write shows in writer alone.             *)
Write(r) ==
  /\ state[r] = "stored"
  /\ writer' = [writer EXCEPT ![r] = holder[r]]
  /\ UNCHANGED <<state, holder>>

Delete(u, D) ==
  /\ \A r \in D : state[r] = "stored" /\ holder[r] = u
  /\ state' = [r \in Rows |-> IF r \in D THEN "removed" ELSE state[r]]
  /\ UNCHANGED <<holder, writer>>

ONext == \/ \E r \in Rows : Write(r) \/ \E u \in Users : New(r, u)
         \/ \E u \in Users, D \in SUBSET Rows : Delete(u, D)

OSpec == OInit /\ [][ONext]_ovars
=============================================================================
