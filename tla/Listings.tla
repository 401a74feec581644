------------------------------ MODULE Listings ------------------------------
(***************************************************************************)
(* GET /v1/archives, /v1/templates and /v1/notes: a page of the caller's   *)
(* rows and their total number are two statements of a Promise.all, which  *)
(* commit in either order; a client asks for page after page until one is  *)
(* not full.  Beside it rows are created, edited, starred and removed, and *)
(* a clean-up takes the oldest archives.  The rows are those of one user,  *)
(* known by their place in the order of creation.  Of the columns a query  *)
(* can restrict one is modelled, the others are restricted alike.          *)
(***************************************************************************)
EXTENDS Integers, FiniteSets

CONSTANTS MaxRows,     \* bound: rows ever created
          Limit,       \* rows per page, as the client asks for
          Predefined,  \* PREDEFINED_TONES, _RELATIONSHIPS or _PURPOSES
          Custom,      \* other texts
          None         \* null; in a query, no restriction

(* @Min(1) @Max(100) limit.  Notes take any number, of which the model     *)
(* takes these.                                                            *)
Limits == 1..100

ASSUME ListingsAssumption ==
  MaxRows \in Nat /\ Limit \in Limits /\ None \notin Predefined \cup Custom

VARIABLES
  kind,     \* which of the three tables is listed
  created,  \* rows 1..created have been created
  rows,     \* the table: its row ids, mapped to their columns
  walk      \* the client that reads the pages

vars == <<kind, created, rows, walk>>

Kind == {"archives", "templates", "notes"}
Row  == 1..MaxRows
Text == Predefined \cup Custom

Columns(k) == IF k = "notes"
              THEN [column : Text, isStarred : BOOLEAN]
              ELSE [column : Text \cup {None}, isStarred : {FALSE}]

(* from, shown, repeated, came, gone and calm are history: the rows that   *)
(* matched at the start, those that were shown so far, whether one was     *)
(* shown twice, whether a row came or went in the midst of those that      *)
(* match, and whether nothing changed between the two statements.          *)
Walk == [pc : {"off", "between", "asking", "end"}, todo : SUBSET {"page", "total"},
         filter : Text \cup {None, "__other__"}, sort : {"latest", "oldest"},
         page : 0..(MaxRows + 1), items : SUBSET Row, total : 0..MaxRows,
         from : SUBSET Row, shown : SUBSET Row,
         repeated : BOOLEAN, came : BOOLEAN, gone : BOOLEAN, calm : BOOLEAN]

Started(f, s, S) ==
  [pc |-> "asking", todo |-> {"page", "total"}, filter |-> f, sort |-> s, page |-> 1,
   items |-> {}, total |-> 0, from |-> S, shown |-> {},
   repeated |-> FALSE, came |-> FALSE, gone |-> FALSE, calm |-> TRUE]

Off == [Started(None, "latest", {}) EXCEPT !.pc = "off", !.todo = {}, !.page = 0]

Init == /\ kind \in Kind
        /\ created \in 0..MaxRows
        /\ rows \in [1..created -> Columns(kind)]
        /\ walk = Off

-----------------------------------------------------------------------------
(* buildWhereClause of templates.service.ts.  SQL's NOT IN is not true of a*)
(* null column.                                                            *)
TemplateWhere(f, v) ==
  CASE f = None        -> TRUE
    [] f = "__other__" -> v \in Custom
    [] OTHER           -> v = f

(* archives.service.ts repeats that code.                                  *)
ArchiveWhere(f, v) == TemplateWhere(f, v)

(* notes.service.ts searches for a text only.                              *)
NoteWhere(f, v) == f = None \/ v = f

Meets(f, v) == CASE kind = "archives"  -> ArchiveWhere(f, v)
                 [] kind = "templates" -> TemplateWhere(f, v)
                 [] kind = "notes"     -> NoteWhere(f, v)

Matching(f) == {a \in DOMAIN rows : Meets(f, rows[a].column)}

(* Archives and templates come newest first, notes starred ones first, or  *)
(* oldest first.  (Sorting by term is left out.)                           *)
Before(sort, a, b) ==
  IF sort = "oldest" THEN a < b
  ELSE IF rows[a].isStarred # rows[b].isStarred THEN rows[a].isStarred ELSE a > b

Rank(S, sort, a) == Cardinality({b \in S : Before(sort, b, a)})

(* Variant: pages are counted from 0.                                      *)
SkipFromZero(page) == page * Limit

Skip(page) == (page - 1) * Limit

(* Variant: one row more than the page holds.                              *)
TakeOneMore(S, sort, skip) == {a \in S : Rank(S, sort, a) \in skip..(skip + Limit)}

Take(S, sort, skip) == {a \in S : Rank(S, sort, a) \in skip..(skip + Limit - 1)}

-----------------------------------------------------------------------------
(* The client asks for the first page.                                     *)
Ask ==
  /\ walk.pc = "off"
  /\ \E f \in Text \cup {None, "__other__"}, s \in {"latest", "oldest"} :
       /\ kind = "notes" => f # "__other__"
       /\ kind # "notes" => s = "latest"
       /\ walk' = Started(f, s, Matching(f))
  /\ UNCHANGED <<kind, created, rows>>

(* ... or for the next one.                                                *)
AskNext ==
  /\ walk.pc = "between"
  /\ walk' = [walk EXCEPT !.pc = "asking", !.todo = {"page", "total"}, !.page = @ + 1,
                          !.items = {}, !.total = 0, !.calm = TRUE]
  /\ UNCHANGED <<kind, created, rows>>

FindMany ==
  /\ walk.pc = "asking" /\ "page" \in walk.todo
  /\ walk' = [walk EXCEPT !.todo = @ \ {"page"},
                          !.items = Take(Matching(walk.filter), walk.sort, Skip(walk.page))]
  /\ UNCHANGED <<kind, created, rows>>

(* Variant: the number of all rows.                                        *)
CountAll ==
  /\ walk.pc = "asking" /\ "total" \in walk.todo
  /\ walk' = [walk EXCEPT !.todo = @ \ {"total"}, !.total = Cardinality(DOMAIN rows)]
  /\ UNCHANGED <<kind, created, rows>>

Count ==
  /\ walk.pc = "asking" /\ "total" \in walk.todo
  /\ walk' = [walk EXCEPT !.todo = @ \ {"total"},
                          !.total = Cardinality(Matching(walk.filter))]
  /\ UNCHANGED <<kind, created, rows>>

(* Both statements have answered: the page is shown.                       *)
Respond ==
  /\ walk.pc = "asking" /\ walk.todo = {}
  /\ walk' = [walk EXCEPT
       !.pc       = IF Cardinality(walk.items) < Limit THEN "end" ELSE "between",
       !.shown    = @ \cup walk.items,
       !.repeated = @ \/ walk.items \cap walk.shown # {}]
  /\ UNCHANGED <<kind, created, rows>>

(* A statement has rejected: the client asks for the same page again.      *)
Retry ==
  /\ walk.pc = "asking"
  /\ walk' = [walk EXCEPT !.todo = {"page", "total"}, !.items = {}, !.total = 0, !.calm = TRUE]
  /\ UNCHANGED <<kind, created, rows>>

Leave == walk.pc # "off" /\ walk' = Off /\ UNCHANGED <<kind, created, rows>>

-----------------------------------------------------------------------------
(* What a change of the table means for the walk: rows that come, except at*)
(* the end of the order, and rows that go, except from the end, move others*)
(* from page to page.                                                      *)
Noticed(came, gone) ==
  walk' = IF walk.pc = "off" THEN walk
          ELSE [walk EXCEPT !.came = @ \/ came, !.gone = @ \/ gone,
                            !.calm = @ /\ Cardinality(walk.todo) # 1]

InTheMidst(S) ==
  LET M == Matching(walk.filter)
  IN \E a \in S \cap M, b \in M \ S : Before(walk.sort, a, b)

Create ==
  /\ created < MaxRows
  /\ created' = created + 1
  /\ \E r \in Columns(kind) :
       /\ ~r.isStarred
       /\ rows' = [a \in DOMAIN rows \cup {created'} |-> IF a = created' THEN r ELSE rows[a]]
       /\ Noticed(walk.sort = "latest" /\ Meets(walk.filter, r.column), FALSE)
  /\ UNCHANGED kind

Delete(S) ==
  /\ rows' = [a \in DOMAIN rows \ S |-> rows[a]]
  /\ Noticed(FALSE, InTheMidst(S))
  /\ UNCHANGED <<kind, created>>

Remove == \E a \in DOMAIN rows : Delete({a})

(* The clean-up that each listing of archives starts.                      *)
CleanUp ==
  /\ kind = "archives" /\ walk.pc = "asking"
  /\ \E n \in DOMAIN rows : Delete({a \in DOMAIN rows : a <= n})

(* Variant: a text that was cleared is not turned into null.               *)
UpdateAsIs ==
  /\ kind # "archives"
  /\ \E a \in DOMAIN rows, v \in Text \cup {""} :
       rows' = [rows EXCEPT ![a].column = v]
  /\ Noticed(TRUE, TRUE)
  /\ UNCHANGED <<kind, created>>

(* PUT: templates, whose purpose or relationship may be cleared, and notes,*)
(* which keep a term.  The owner check is that of Templates and Notes.     *)
Update ==
  /\ kind # "archives"
  /\ \E a \in DOMAIN rows, v \in Text \cup (IF kind = "notes" THEN {} ELSE {None}) :
       LET met == Meets(walk.filter, rows[a].column)
           meets == Meets(walk.filter, v)
       IN /\ rows' = [rows EXCEPT ![a].column = v]
          /\ Noticed(meets /\ ~met, met /\ ~meets)
  /\ UNCHANGED <<kind, created>>

ToggleStar ==
  /\ kind = "notes"
  /\ \E a \in DOMAIN rows :
       LET moves == walk.sort = "latest" /\ a \in Matching(walk.filter)
       IN rows' = [rows EXCEPT ![a].isStarred = ~@] /\ Noticed(moves, moves)
  /\ UNCHANGED <<kind, created>>

Next == \/ Ask \/ AskNext \/ FindMany \/ Count \/ Respond \/ Retry \/ Leave
        \/ Create \/ Remove \/ CleanUp \/ Update \/ ToggleStar

Spec == Init /\ [][Next]_vars

-----------------------------------------------------------------------------
TypeOK ==
  /\ kind \in Kind
  /\ created \in 0..MaxRows
  /\ DOMAIN rows \subseteq 1..created
  /\ \A a \in DOMAIN rows : rows[a] \in Columns(kind)
  /\ walk \in Walk

(* A client that has read the pages to the end (templates.service.ts:35-56,*)
(* archives.service.ts:41-61, notes.service.ts:16-31) has seen every row   *)
(* that matched all the time, unless one went from the midst of the list:  *)
(* neither new rows nor the clean-ups that the listings start hide any.    *)
PagesMissNothing ==
  walk.pc = "end" /\ ~walk.gone =>
    walk.from \cap Matching(walk.filter) \subseteq walk.shown

(* No row is on two pages, unless one came in the midst of the list, which *)
(* a new row does if the newest come first: removals repeat none.          *)
PagesRepeatNothing == walk.repeated => walk.came

(* A page holds as many rows as its total says are left for it, unless the *)
(* table changed between the two statements of the Promise.all.            *)
TotalFitsPage ==
  walk.pc = "asking" /\ walk.todo = {} /\ walk.calm =>
    LET left == walk.total - Skip(walk.page)
    IN Cardinality(walk.items) = IF left < 0 THEN 0 ELSE IF left < Limit THEN left ELSE Limit
=============================================================================
