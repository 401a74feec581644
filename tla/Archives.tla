------------------------------ MODULE Archives ------------------------------
(***************************************************************************)
(* archives.service.ts: every listing of a user's archives starts a clean- *)
(* up (void: nobody waits for it) that deletes by age, counts, looks up the*)
(* oldest and deletes them, each in a statement of its own, beside other   *)
(* clean-ups, removals, new archives and changes of the tier.  An archive  *)
(* is known by its place in the order of creation (createdAt; ties do not  *)
(* matter); of its time only the day counts.                               *)
(***************************************************************************)
EXTENDS Integers, FiniteSets

CONSTANTS Users,          \* account ids
          MaxRows,        \* bound: archives ever created
          Handlers,       \* request slots
          retentionDays,  \* ARCHIVE_POLICY: by tier, days an archive is kept
          maxCount,       \*   and archives that are kept
          MaxDay,         \* bound: the last day
          None            \* null

Tier == {"free", "premium"}
Row  == 1..MaxRows
Day  == 0..MaxDay

ASSUME ArchivesAssumption ==
  /\ MaxRows \in Nat /\ MaxDay \in Nat
  /\ retentionDays \in [Tier -> Nat] /\ maxCount \in [Tier -> Nat]
  /\ None \notin Users

VARIABLES
  today,    \* the date
  tier,     \* User.tier
  created,  \* archives 1..created have been created
  stored,   \* rows of table Archive
  owner,    \* Archive.userId
  born,     \* the day of Archive.createdAt
  req,      \* req[h]: program counter and locals of the request in slot h
  trashed   \* history: the archives a clean-up deleted

table == <<created, stored, owner, born>>
vars  == <<today, tier, table, req, trashed>>

(* seen (history): the archives that the clean-up counted.                 *)
Request == [pc : {"idle", "expire", "count", "find", "trim", "done", "delete"},
            user : Users \cup {None}, tier : Tier, cutoff : Int,
            excess : 0..MaxRows, doomed : SUBSET Row, seen : SUBSET Row]

Started(label, u, t, day, D) ==
  [pc |-> label, user |-> u, tier |-> t, cutoff |-> day,
   excess |-> 0, doomed |-> D, seen |-> {}]

Idle == Started("idle", None, "free", 0, {})

Init == /\ today = 0
        /\ tier \in [Users -> Tier]
        /\ created = 0 /\ stored = {} /\ trashed = {}
        /\ owner = [a \in Row |-> None]
        /\ born  = [a \in Row |-> 0]
        /\ req   = [h \in Handlers |-> Idle]

-----------------------------------------------------------------------------
RowsOf(u) == {a \in stored : owner[a] = u}

Goto(h, label) == req' = [req EXCEPT ![h].pc = label]
Return(h)      == req' = [req EXCEPT ![h] = Idle]

(* Variant: ordered by createdAt, descending.                              *)
IsNewest(D, S) == \A a \in D, b \in S \ D : a > b

(* orderBy createdAt: D comes first in S.                                  *)
IsOldest(D, S) == \A a \in D, b \in S \ D : a < b

-----------------------------------------------------------------------------
(* ai.service.ts stores what it generates.                                 *)
CreateArchive(u) ==
  /\ created < MaxRows
  /\ created' = created + 1
  /\ stored'  = stored \cup {created'}
  /\ owner'   = [owner EXCEPT ![created'] = u]
  /\ born'    = [born EXCEPT ![created'] = today]
  /\ UNCHANGED <<today, tier, req, trashed>>

(* findAll reads the tier and starts the clean-up, which computes its      *)
(* cutoff at once.                                                         *)
FindAll(h) ==
  /\ req[h].pc = "idle"
  /\ \E u \in Users :
       req' = [req EXCEPT ![h] =
                 Started("expire", u, tier[u], today - retentionDays[tier[u]], {})]
  /\ UNCHANGED <<today, tier, table, trashed>>

(* Variant: the old rows of all users.                                     *)
ExpireAll(h) ==
  LET old == {a \in stored : born[a] < req[h].cutoff} IN
  /\ req[h].pc = "expire"
  /\ stored'  = stored \ old
  /\ trashed' = trashed \cup old
  /\ Goto(h, "count")
  /\ UNCHANGED <<today, tier, created, owner, born>>

Expire(h) ==
  LET old == {a \in RowsOf(req[h].user) : born[a] < req[h].cutoff} IN
  /\ req[h].pc = "expire"
  /\ stored'  = stored \ old
  /\ trashed' = trashed \cup old
  /\ Goto(h, "count")
  /\ UNCHANGED <<today, tier, created, owner, born>>

(* Variant: the number in excess is not tested.                            *)
CountUnchecked(h) ==
  LET rows == RowsOf(req[h].user) IN
  /\ req[h].pc = "count"
  /\ req' = [req EXCEPT ![h].pc = "find", ![h].seen = rows,
                        ![h].excess = Cardinality(rows) - maxCount[req[h].tier]]
  /\ UNCHANGED <<today, tier, table, trashed>>

Counts(h, excess) ==
  /\ req[h].pc = "count"
  /\ req' = [req EXCEPT ![h].pc = IF excess > 0 THEN "find" ELSE "done",
                        ![h].excess = IF excess > 0 THEN excess ELSE 0,
                        ![h].seen = RowsOf(req[h].user)]
  /\ UNCHANGED <<today, tier, table, trashed>>

(* Variants: one too many may stay; one too many goes.                     *)
CountLax(h)    == Counts(h, Cardinality(RowsOf(req[h].user)) - maxCount[req[h].tier] - 1)
CountGreedy(h) == Counts(h, Cardinality(RowsOf(req[h].user)) - maxCount[req[h].tier] + 1)

Count(h) == Counts(h, Cardinality(RowsOf(req[h].user)) - maxCount[req[h].tier])

(* The excess oldest rows, or all of them if there are fewer by now.       *)
FindOldest(h) ==
  LET rows == RowsOf(req[h].user) IN
  /\ req[h].pc = "find"
  /\ \E D \in SUBSET rows :
       /\ Cardinality(D) = req[h].excess \/ (D = rows /\ Cardinality(D) < req[h].excess)
       /\ IsOldest(D, rows)
       /\ req' = [req EXCEPT ![h].pc = "trim", ![h].doomed = D]
  /\ UNCHANGED <<today, tier, table, trashed>>

Trim(h) ==
  /\ req[h].pc = "trim"
  /\ stored'  = stored \ req[h].doomed
  /\ trashed' = trashed \cup (req[h].doomed \cap stored)
  /\ Goto(h, "done")
  /\ UNCHANGED <<today, tier, created, owner, born>>

CleanedUp(h) ==
  /\ req[h].pc = "done"
  /\ Return(h)
  /\ UNCHANGED <<today, tier, table, trashed>>

-----------------------------------------------------------------------------
(* remove: findOne checks the owner, then the row is deleted by its id (an *)
(* error if a clean-up was faster).                                        *)
FindOwn(h) ==
  /\ req[h].pc = "idle"
  /\ \E a \in stored :
       req' = [req EXCEPT ![h] =
                 Started("delete", owner[a], "free", 0, {a})]
  /\ UNCHANGED <<today, tier, table, trashed>>

Remove(h) ==
  /\ req[h].pc = "delete"
  /\ stored' = stored \ req[h].doomed
  /\ Return(h)
  /\ UNCHANGED <<today, tier, created, owner, born, trashed>>

-----------------------------------------------------------------------------
(* PUT /v1/users/me/tier                                                   *)
UpdateTier(u) ==
  /\ \E t \in Tier \ {tier[u]} : tier' = [tier EXCEPT ![u] = t]
  /\ UNCHANGED <<today, table, req, trashed>>

(* A statement rejects (nobody handles the clean-up's rejection) or the    *)
(* process stops; what was committed stays.                                *)
Fail(h) ==
  /\ req[h].pc # "idle"
  /\ Return(h)
  /\ UNCHANGED <<today, tier, table, trashed>>

Midnight == /\ today < MaxDay
            /\ today' = today + 1
            /\ UNCHANGED <<tier, table, req, trashed>>

Next ==
  \/ \E u \in Users : CreateArchive(u) \/ UpdateTier(u)
  \/ \E h \in Handlers :
       \/ FindAll(h) \/ Expire(h) \/ Count(h) \/ FindOldest(h) \/ Trim(h)
       \/ CleanedUp(h) \/ FindOwn(h) \/ Remove(h) \/ Fail(h)
  \/ Midnight

Spec == Init /\ [][Next]_vars

-----------------------------------------------------------------------------
TypeOK ==
  /\ today \in Day
  /\ tier \in [Users -> Tier]
  /\ created \in 0..MaxRows
  /\ stored \subseteq 1..created /\ trashed \subseteq 1..created
  /\ owner \in [Row -> Users \cup {None}]
  /\ born \in [Row -> Day]
  /\ req \in [Handlers -> Request]

(* archives.service.ts:178-208: whatever clean-ups, removals, new archives *)
(* and tier changes run at once, clean-ups delete a user's archives oldest *)
(* first: none is kept that is older than one they deleted.                *)
OldestGoFirst ==
  \A a \in trashed, b \in stored : owner[a] = owner[b] => a < b

(* When a clean-up ends, nothing older than its cutoff is left, and of the *)
(* archives it counted (190-195) no more than its tier keeps, although it  *)
(* looks up the rows to delete (197-202) in a later statement.             *)
CleanupComplete ==
  \A h \in Handlers : req[h].pc = "done" =>
    LET rows == RowsOf(req[h].user) IN
    /\ \A a \in rows : born[a] >= req[h].cutoff
    /\ Cardinality(rows \cap req[h].seen) <= maxCount[req[h].tier]

(* A clean-up deletes too many for what it counted only as far as others   *)
(* deleted what it counted: its number of rows to delete is that of 190-195*)
(* while the rows are looked up later (197-202), so each archive removed in*)
(* between, by its owner or by another clean-up, costs the user at most one*)
(* of the archives that the tier keeps.                                    *)
ExcessAsCounted ==
  \A h \in Handlers : req[h].pc = "trim" =>
    LET kept == RowsOf(req[h].user) \ req[h].doomed
        gone == req[h].seen \ stored
    IN  Cardinality(kept) + Cardinality(gone) >= maxCount[req[h].tier]

(* Where an archive is in its life.                                        *)
rowState == [a \in Row |-> IF a > created THEN "unused"
                           ELSE IF a \in stored THEN "stored" ELSE "removed"]

(* The archive table is a table of owned rows that nobody writes again:    *)
(* what is deleted at once is one user's, although a clean-up's last       *)
(* statement deletes by ids alone (204-208), and it never comes back.      *)
Owned == INSTANCE OwnedRows WITH
  Rows   <- Row,
  state  <- rowState,
  holder <- owner,
  writer <- owner

ImplementsOwnedRows == Owned!OSpec

-----------------------------------------------------------------------------
(* Stated, not run: it does not hold.  archives-integration.spec.ts:334    *)
(* says that only the excess is deleted: what a clean-up is about to delete*)
(* by count leaves the user at least as many archives as the tier keeps.   *)
(* A removal between the count (190) and the lookup (197) is enough.       *)
ExcessOnly ==
  \A h \in Handlers : req[h].pc = "trim" =>
    Cardinality(RowsOf(req[h].user) \ req[h].doomed) >= maxCount[req[h].tier]
=============================================================================
