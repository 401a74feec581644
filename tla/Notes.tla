------------------------------- MODULE Notes --------------------------------
(***************************************************************************)
(* notes.service.ts: creating, editing, starring and deleting expression   *)
(* notes.  update, remove and toggleStar read the row and compare its owner*)
(* first and write it, by id, in a second statement: other requests may run*)
(* in between.  The text is left out: a write shows in author.             *)
(***************************************************************************)
EXTENDS Integers, FiniteSets

CONSTANTS Users,     \* account ids
          NoteIds,   \* the ids an ExpressionNote row may get
          Handlers,  \* request slots
          MaxFlips,  \* bound: toggles per note
          None       \* null

ASSUME NotesAssumption == MaxFlips \in Nat /\ None \notin Users \cup NoteIds

VARIABLES
  stored,    \* ids of the rows of table ExpressionNote
  owner,     \* ExpressionNote.userId, None while the id is unused
  isStarred, \* ExpressionNote.isStarred
  author,    \* whose request wrote the row last
  req,       \* req[h]: program counter and locals of the request in slot h
  flips,     \* history: how many toggles of the note have been written
  raced      \* history: notes of which a toggle wrote over another one

table == <<stored, owner, isStarred, author>>
vars  == <<table, req, flips, raced>>

(* seen (history): the toggles written when the request read the row.      *)
Request == [pc : {"idle", "update", "delete", "star"},
            user : Users \cup {None}, note : NoteIds \cup {None},
            isStarred : {"yes", "no"}, seen : 0..MaxFlips]

Started(label, u, n, starred, seen) ==
  [pc |-> label, user |-> u, note |-> n, isStarred |-> starred, seen |-> seen]

Idle == Started("idle", None, None, "no", 0)

Init == /\ stored = {} /\ raced = {}
        /\ owner     = [n \in NoteIds |-> None]
        /\ isStarred = [n \in NoteIds |-> "no"]
        /\ author    = [n \in NoteIds |-> None]
        /\ flips     = [n \in NoteIds |-> 0]
        /\ req       = [h \in Handlers |-> Idle]

-----------------------------------------------------------------------------
Not(starred) == IF starred = "yes" THEN "no" ELSE "yes"

Return(h) == req' = [req EXCEPT ![h] = Idle]

(* Variant: the row does not get its userId.                               *)
CreateUnowned(u) ==
  /\ \E n \in NoteIds :
       /\ owner[n] = None
       /\ stored' = stored \cup {n}
       /\ author' = [author EXCEPT ![n] = u]
  /\ UNCHANGED <<owner, isStarred, req, flips, raced>>

Create(u) ==
  /\ \E n \in NoteIds :
       /\ owner[n] = None
       /\ stored' = stored \cup {n}
       /\ owner'  = [owner EXCEPT ![n] = u]
       /\ author' = [author EXCEPT ![n] = u]
  /\ UNCHANGED <<isStarred, req, flips, raced>>

(* Variant: findOne does not compare the row's userId.                     *)
FindAny(h) ==
  /\ req[h].pc = "idle"
  /\ \E n \in stored, u \in Users, next \in {"update", "delete", "star"} :
       req' = [req EXCEPT ![h] = Started(next, u, n, isStarred[n], flips[n])]
  /\ UNCHANGED <<table, flips, raced>>

(* findOne (404 without the row, 403 unless it is the caller's).           *)
FindOwn(h) ==
  /\ req[h].pc = "idle"
  /\ \E n \in stored, next \in {"update", "delete", "star"} :
       req' = [req EXCEPT ![h] =
                 Started(next, owner[n], n, isStarred[n], flips[n])]
  /\ UNCHANGED <<table, flips, raced>>

(* Each of the three writes throws (P2025) if the row is gone by then.     *)
Update(h) ==
  LET n == req[h].note IN
  /\ req[h].pc = "update"
  /\ author' = IF n \in stored THEN [author EXCEPT ![n] = req[h].user] ELSE author
  /\ Return(h)
  /\ UNCHANGED <<stored, owner, isStarred, flips, raced>>

Remove(h) ==
  /\ req[h].pc = "delete"
  /\ stored' = stored \ {req[h].note}
  /\ Return(h)
  /\ UNCHANGED <<owner, isStarred, author, flips, raced>>

(* Variant: the value read is written back.                                *)
ToggleStarKeeps(h) ==
  LET n == req[h].note IN
  /\ req[h].pc = "star" /\ n \in stored /\ flips[n] < MaxFlips
  /\ isStarred' = [isStarred EXCEPT ![n] = req[h].isStarred]
  /\ author' = [author EXCEPT ![n] = req[h].user]
  /\ flips'  = [flips EXCEPT ![n] = @ + 1]
  /\ raced'  = IF flips[n] = req[h].seen THEN raced ELSE raced \cup {n}
  /\ Return(h)
  /\ UNCHANGED <<stored, owner>>

(* toggleStar writes the opposite of the value it read.                    *)
ToggleStar(h) ==
  LET n == req[h].note IN
  /\ req[h].pc = "star"
  /\ IF n \in stored
     THEN /\ flips[n] < MaxFlips
          /\ isStarred' = [isStarred EXCEPT ![n] = Not(req[h].isStarred)]
          /\ author' = [author EXCEPT ![n] = req[h].user]
          /\ flips'  = [flips EXCEPT ![n] = @ + 1]
          /\ raced'  = IF flips[n] = req[h].seen THEN raced ELSE raced \cup {n}
     ELSE UNCHANGED <<isStarred, author, flips, raced>>
  /\ Return(h)
  /\ UNCHANGED <<stored, owner>>

(* A statement rejects or the process stops; what was committed stays.     *)
Fail(h) ==
  /\ req[h].pc # "idle"
  /\ Return(h)
  /\ UNCHANGED <<table, flips, raced>>

Next ==
  \/ \E u \in Users : Create(u)
  \/ \E h \in Handlers :
       FindOwn(h) \/ Update(h) \/ Remove(h) \/ ToggleStar(h) \/ Fail(h)

Spec == Init /\ [][Next]_vars

-----------------------------------------------------------------------------
TypeOK ==
  /\ stored \subseteq {n \in NoteIds : owner[n] # None} /\ raced \subseteq NoteIds
  /\ owner \in [NoteIds -> Users \cup {None}]
  /\ isStarred \in [NoteIds -> {"yes", "no"}]
  /\ author \in [NoteIds -> Users \cup {None}]
  /\ flips \in [NoteIds -> 0..MaxFlips]
  /\ req \in [Handlers -> Request]

(* notes.service.ts:105-112: as long as no two toggles of a note overlap,  *)
(* its star is set exactly when the number of toggles is odd, whatever     *)
(* updates, removals and failures run beside them; and what a toggle has   *)
(* read still holds when it writes unless another toggle came first.       *)
TogglesCount ==
  /\ \A n \in NoteIds \ raced : isStarred[n] = IF flips[n] % 2 = 1 THEN "yes" ELSE "no"
  /\ \A h \in Handlers :
       (req[h].pc = "star" /\ req[h].seen = flips[req[h].note])
         => req[h].isStarred = isStarred[req[h].note]

(* Where a row is in its life.                                             *)
rowState == [n \in NoteIds |-> IF owner[n] = None THEN "unused"
                               ELSE IF n \in stored THEN "stored" ELSE "removed"]

(* The notes table is a table of owned rows: created once, written by its  *)
(* owner only and never after it was removed, although update, remove and  *)
(* toggleStar write by id after the check (notes.service.ts:70-87, 95-99). *)
Owned == INSTANCE OwnedRows WITH
  Rows   <- NoteIds,
  state  <- rowState,
  holder <- owner,
  writer <- author

ImplementsOwnedRows == Owned!OSpec
=============================================================================
