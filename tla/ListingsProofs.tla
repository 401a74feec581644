--------------------------- MODULE ListingsProofs ---------------------------
(***************************************************************************)
(* Proofs about Listings, for any number of rows, any texts and any limit  *)
(* that a client may ask for.                                              *)
(***************************************************************************)
EXTENDS Listings, FiniteSetTheorems, TLAPS

(* The rows that match, and those of them that come before row a.          *)
Matches == Matching(walk.filter)
Ahead(a) == {b \in Matches : Before(walk.sort, b, a)}
Place(a) == Cardinality(Ahead(a))

(* The pages the client has read.                                          *)
PagesRead == IF walk.pc = "asking" THEN walk.page - 1 ELSE walk.page

Fetched == walk.pc = "asking" /\ "page" \notin walk.todo

(* The walk knows only rows that were created, its page number is that of  *)
(* a page there can be, and a walk that has not begun repeated nothing.    *)
Sane ==
  /\ walk.from \cup walk.shown \cup walk.items \subseteq 1..created
  /\ walk.pc = "off" => ~walk.repeated /\ walk.todo = {}
  /\ walk.pc # "off" => walk.page >= 1
  /\ walk.pc = "between" => walk.page <= MaxRows
  /\ Fetched /\ walk.items # {} => walk.page <= MaxRows

(* While no row came in the midst of the others, rows only move to earlier *)
(* pages: what was shown is on the pages that were read.                   *)
ShownIsBehind ==
  walk.pc # "off" /\ ~walk.came =>
    /\ ~walk.repeated
    /\ \A a \in walk.shown \cap Matches : Place(a) < PagesRead * Limit
    /\ Fetched =>
         /\ walk.items \cap walk.shown = {}
         /\ \A a \in walk.items \cap Matches : Place(a) < walk.page * Limit

(* While no row went from the midst of the others, rows only move to later *)
(* pages: what is on the pages that were read was shown, and a page that is*)
(* not full is the last.                                                   *)
BehindIsShown ==
  walk.pc # "off" /\ ~walk.gone =>
    /\ walk.from \cap DOMAIN rows \subseteq Matches
    /\ \A a \in walk.from \cap Matches : Place(a) < PagesRead * Limit => a \in walk.shown
    /\ Fetched => \A a \in walk.from \cap Matches :
         Place(a) < walk.page * Limit \/ Cardinality(walk.items) < Limit
           => a \in walk.shown \cup walk.items
    /\ walk.pc = "end" => walk.from \cap Matches \subseteq walk.shown

(* The rows a page holds of n rows.                                        *)
Held(n, skip) == IF n - skip < 0 THEN 0 ELSE IF n - skip < Limit THEN n - skip ELSE Limit

(* While nothing changes between the two statements, the first to answer   *)
(* agrees with the table, and so does the second.                          *)
CalmAgrees ==
  walk.pc = "asking" /\ walk.calm =>
    /\ walk.todo = {"total"} =>
         Cardinality(walk.items) = Held(Cardinality(Matches), Skip(walk.page))
    /\ walk.todo = {"page"} => walk.total = Cardinality(Matches)
    /\ walk.todo = {} => Cardinality(walk.items) = Held(walk.total, Skip(walk.page))

WalkInv == TypeOK /\ Sane /\ ShownIsBehind /\ BehindIsShown /\ CalmAgrees

-----------------------------------------------------------------------------
Filter == Text \cup {None, "__other__"}

Sort == {"latest", "oldest"}

Stage == {"off", "between", "asking", "end"}

LEMMA WalkFields ==
  ASSUME NEW w \in Walk
  PROVE  /\ w.pc \in Stage /\ w.todo \subseteq {"page", "total"}
         /\ w.filter \in Filter /\ w.sort \in Sort
         /\ w.page \in 0..(MaxRows + 1) /\ w.items \subseteq Row /\ w.total \in 0..MaxRows
         /\ w.from \subseteq Row /\ w.shown \subseteq Row
         /\ w.repeated \in BOOLEAN /\ w.came \in BOOLEAN
         /\ w.gone \in BOOLEAN /\ w.calm \in BOOLEAN
  BY DEF Walk, Filter, Sort, Stage

LEMMA StartedIsWalk ==
  ASSUME NEW f \in Filter, NEW s \in Sort, NEW S \in SUBSET Row
  PROVE  /\ Started(f, s, S) \in Walk
         /\ Started(f, s, S).pc = "asking" /\ Started(f, s, S).todo = {"page", "total"}
         /\ Started(f, s, S).filter = f /\ Started(f, s, S).sort = s
         /\ Started(f, s, S).page = 1 /\ Started(f, s, S).items = {}
         /\ Started(f, s, S).total = 0 /\ Started(f, s, S).from = S
         /\ Started(f, s, S).shown = {} /\ Started(f, s, S).repeated = FALSE
         /\ Started(f, s, S).came = FALSE /\ Started(f, s, S).gone = FALSE
         /\ Started(f, s, S).calm = TRUE
<1>1. 1 \in 0..(MaxRows + 1) /\ 0 \in 0..MaxRows /\ {} \subseteq Row
  BY ListingsAssumption
<1> QED
  BY <1>1 DEF Started, Walk, Filter, Sort

LEMMA OffIsWalk ==
  /\ Off \in Walk /\ Off.pc = "off" /\ Off.todo = {} /\ Off.page = 0 /\ Off.items = {}
  /\ Off.from = {} /\ Off.shown = {} /\ Off.repeated = FALSE
<1>1. 0 \in 0..(MaxRows + 1)
  BY ListingsAssumption
<1>2. None \in Filter /\ "latest" \in Sort /\ {} \in SUBSET Row
  BY DEF Filter, Sort
<1> DEFINE r == Started(None, "latest", {})
<1>3. /\ r \in Walk /\ r.items = {} /\ r.from = {} /\ r.shown = {} /\ r.repeated = FALSE
  <2>1. r \in Walk
    BY <1>2, StartedIsWalk
  <2>2. r.items = {} /\ r.from = {} /\ r.shown = {} /\ r.repeated = FALSE
    BY DEF Started
  <2> QED
    BY <2>1, <2>2
<1>4. Off = [r EXCEPT !.pc = "off", !.todo = {}, !.page = 0]
  BY DEF Off
<1> HIDE DEF r
<1>5. /\ Off.pc = "off" /\ Off.todo = {} /\ Off.page = 0 /\ Off.items = {}
      /\ Off.from = {} /\ Off.shown = {} /\ Off.repeated = FALSE
  BY <1>3, <1>4 DEF Walk
<1>6. Off \in Walk
  BY <1>1, <1>3, <1>4 DEF Walk
<1> QED
  BY <1>5, <1>6

LEMMA TableFacts ==
  ASSUME TypeOK
  PROVE  /\ created \in Nat /\ created <= MaxRows /\ MaxRows \in Nat
         /\ DOMAIN rows \subseteq 1..created /\ DOMAIN rows \subseteq Row
         /\ IsFiniteSet(DOMAIN rows) /\ Cardinality(DOMAIN rows) <= MaxRows
         /\ \A f : /\ Matching(f) \subseteq DOMAIN rows /\ IsFiniteSet(Matching(f))
                   /\ Cardinality(Matching(f)) \in Nat /\ Cardinality(Matching(f)) <= MaxRows
<1>1. /\ created \in Nat /\ created <= MaxRows /\ MaxRows \in Nat
      /\ DOMAIN rows \subseteq 1..created /\ DOMAIN rows \subseteq Row
  BY ListingsAssumption DEF TypeOK, Row
<1>2. IsFiniteSet(Row) /\ Cardinality(Row) = MaxRows
  BY <1>1, FS_Interval DEF Row
<1>3. IsFiniteSet(DOMAIN rows) /\ Cardinality(DOMAIN rows) <= MaxRows
  BY <1>1, <1>2, FS_Subset
<1>4. ASSUME NEW f
      PROVE  /\ Matching(f) \subseteq DOMAIN rows /\ IsFiniteSet(Matching(f))
             /\ Cardinality(Matching(f)) \in Nat /\ Cardinality(Matching(f)) <= MaxRows
  <2>1. Matching(f) \subseteq DOMAIN rows
    BY DEF Matching
  <2>2. Matching(f) \subseteq Row
    BY <1>1, <2>1
  <2> QED
    BY <1>2, <2>1, <2>2, FS_Subset, FS_CardinalityType
<1> QED
  BY <1>1, <1>3, <1>4

(* What a change of the table does to the walk.                            *)
LEMMA NoticedFields ==
  ASSUME TypeOK, NEW c \in BOOLEAN, NEW g \in BOOLEAN, Noticed(c, g)
  PROVE  /\ walk' \in Walk
         /\ walk'.pc = walk.pc /\ walk'.todo = walk.todo /\ walk'.filter = walk.filter
         /\ walk'.sort = walk.sort /\ walk'.page = walk.page /\ walk'.items = walk.items
         /\ walk'.total = walk.total /\ walk'.from = walk.from /\ walk'.shown = walk.shown
         /\ walk'.repeated = walk.repeated
         /\ walk.pc # "off" =>
              /\ walk'.came <=> (walk.came \/ c)
              /\ walk'.gone <=> (walk.gone \/ g)
              /\ walk'.calm <=> (walk.calm /\ Cardinality(walk.todo) # 1)
<1>1. walk \in Walk
  BY DEF TypeOK
<1> DEFINE x == walk.came \/ c
           y == walk.gone \/ g
           z == walk.calm /\ Cardinality(walk.todo) # 1
<1>2. x \in BOOLEAN /\ y \in BOOLEAN /\ z \in BOOLEAN
  OBVIOUS
<1>3. walk' = IF walk.pc = "off" THEN walk ELSE [walk EXCEPT !.came = x, !.gone = y, !.calm = z]
  BY DEF Noticed
<1> HIDE DEF x, y, z
<1>4. /\ walk' \in Walk
      /\ walk'.pc = walk.pc /\ walk'.todo = walk.todo /\ walk'.filter = walk.filter
      /\ walk'.sort = walk.sort /\ walk'.page = walk.page /\ walk'.items = walk.items
      /\ walk'.total = walk.total /\ walk'.from = walk.from /\ walk'.shown = walk.shown
      /\ walk'.repeated = walk.repeated
  BY <1>1, <1>2, <1>3 DEF Walk
<1>5. walk.pc # "off" => walk'.came = x /\ walk'.gone = y /\ walk'.calm = z
  BY <1>1, <1>3 DEF Walk
<1> QED
  BY <1>4, <1>5, Zenon DEF x, y, z

-----------------------------------------------------------------------------
(* Before is a strict order of the rows, in which any two are comparable.  *)
LEMMA BeforeIsOrder ==
  ASSUME TypeOK, NEW s \in Sort, NEW a \in DOMAIN rows, NEW b \in DOMAIN rows,
         NEW c \in DOMAIN rows
  PROVE  /\ ~Before(s, a, a)
         /\ a # b => Before(s, a, b) \/ Before(s, b, a)
         /\ Before(s, a, b) /\ Before(s, b, c) => Before(s, a, c)
<1>1. a \in Int /\ b \in Int /\ c \in Int
  BY TableFacts
<1>2. \A d \in DOMAIN rows : rows[d].isStarred \in BOOLEAN
  BY DEF TypeOK, Columns
<1> QED
  BY <1>1, <1>2 DEF Before, Sort

(* The rows of a set have the ranks from 0 on, each row its own.           *)
LEMMA Ranks ==
  ASSUME TypeOK, NEW s \in Sort, NEW S, S \subseteq DOMAIN rows
  PROVE  LET r == [a \in S |-> Rank(S, s, a)]
         IN  r \in Injection(S, 0..(Cardinality(S) - 1))
<1> DEFINE Pre(a) == {b \in S : Before(s, b, a)}
           r == [a \in S |-> Rank(S, s, a)]
<1>1. IsFiniteSet(S)
  BY TableFacts, FS_Subset
<1>2. Cardinality(S) \in Nat
  BY <1>1, FS_CardinalityType
<1>3. ASSUME NEW a \in S
      PROVE  /\ Rank(S, s, a) = Cardinality(Pre(a)) /\ IsFiniteSet(Pre(a))
             /\ Cardinality(Pre(a)) \in Nat /\ a \notin Pre(a)
  <2>1. Pre(a) \subseteq S /\ Rank(S, s, a) = Cardinality(Pre(a))
    BY DEF Rank
  <2>2. a \notin Pre(a)
    BY BeforeIsOrder
  <2>3. IsFiniteSet(Pre(a))
    BY <1>1, <2>1, FS_Subset
  <2> QED
    BY <2>1, <2>2, <2>3, FS_CardinalityType
<1>4. ASSUME NEW a \in S PROVE Cardinality(Pre(a)) < Cardinality(S)
  <2>1. Pre(a) \subseteq S
    OBVIOUS
  <2>2. Cardinality(Pre(a)) <= Cardinality(S) /\ (Cardinality(S) = Cardinality(Pre(a)) => S = Pre(a))
    BY <1>1, <2>1, FS_Subset
  <2>3. a \notin Pre(a) /\ Cardinality(Pre(a)) \in Nat
    BY <1>3
  <2> HIDE DEF Pre
  <2> QED
    BY <1>2, <2>2, <2>3
<1>5. ASSUME NEW a \in S, NEW b \in S, Before(s, a, b)
      PROVE  Cardinality(Pre(a)) < Cardinality(Pre(b))
  <2>1. Pre(a) \subseteq Pre(b)
    BY <1>5, BeforeIsOrder
  <2>2. a \in Pre(b)
    BY <1>5
  <2>3. a \notin Pre(a) /\ IsFiniteSet(Pre(b))
    BY <1>3
  <2>4. Cardinality(Pre(a)) \in Nat /\ Cardinality(Pre(b)) \in Nat
    BY <1>3
  <2> HIDE DEF Pre
  <2>5. /\ Cardinality(Pre(a)) <= Cardinality(Pre(b))
        /\ Cardinality(Pre(b)) = Cardinality(Pre(a)) => Pre(b) = Pre(a)
    BY <2>1, <2>3, FS_Subset
  <2> QED
    BY <2>2, <2>3, <2>4, <2>5
<1>6. r \in [S -> 0..(Cardinality(S) - 1)]
  <2>1. ASSUME NEW a \in S PROVE Rank(S, s, a) \in 0..(Cardinality(S) - 1)
    <3> HIDE DEF Pre
    <3> QED
      BY <1>2, <1>3, <1>4
  <2> QED
    BY <2>1
<1>7. ASSUME NEW a \in S, NEW b \in S, r[a] = r[b] PROVE a = b
  <2>1. Cardinality(Pre(a)) = Cardinality(Pre(b))
    BY <1>3, <1>7
  <2>2. a # b => Before(s, a, b) \/ Before(s, b, a)
    BY BeforeIsOrder
  <2>3. Cardinality(Pre(a)) \in Nat /\ Cardinality(Pre(b)) \in Nat
    BY <1>3
  <2> HIDE DEF Pre
  <2> QED
    BY <1>5, <2>1, <2>2, <2>3
<1> HIDE DEF r
<1>8. r \in Injection(S, 0..(Cardinality(S) - 1))
  BY <1>6, <1>7 DEF Injection, IsInjective
<1> QED
  BY <1>8 DEF r

LEMMA LimitFacts ==
  /\ Limit \in Nat /\ Limit >= 1
  /\ 0 * Limit = 0
  /\ \A p \in Nat : /\ p * Limit \in Nat /\ (p + 1) * Limit = p * Limit + Limit
                    /\ p * Limit >= p
<1>1. Limit \in Nat /\ Limit >= 1
  BY ListingsAssumption DEF Limits
<1>2. ASSUME NEW p \in Nat
      PROVE  /\ p * Limit \in Nat /\ (p + 1) * Limit = p * Limit + Limit
             /\ p * Limit >= p
  <2>1. p * Limit \in Nat /\ (p + 1) * Limit = p * Limit + Limit
    BY <1>1
  <2>2. PICK d \in Nat : Limit = d + 1
    <3>1. Limit - 1 \in Nat /\ Limit = (Limit - 1) + 1
      BY <1>1
    <3> QED
      BY <3>1
  <2>3. p * Limit = p * d + p
    BY <2>2
  <2>4. p * d \in Nat
    OBVIOUS
  <2> QED
    BY <2>1, <2>3, <2>4
<1> QED
  BY <1>1, <1>2

(* Where the rows have the ranks from 0 on, each its own, the number of    *)
(* those between skip and skip + Limit is what Held says.                  *)
LEMMA PageSize ==
  ASSUME NEW S, IsFiniteSet(S), NEW r \in Injection(S, 0..(Cardinality(S) - 1)), NEW k \in Nat
  PROVE  Cardinality({a \in S : r[a] \in k..(k + Limit - 1)}) = Held(Cardinality(S), k)
<1> DEFINE n == Cardinality(S)
           T == 0..(n - 1)
           m == IF k + Limit <= n THEN k + Limit - 1 ELSE n - 1
           J == k..m
           P == {a \in S : r[a] \in k..(k + Limit - 1)}
           f == [a \in P |-> r[a]]
<1>1. n \in Nat /\ Limit \in Nat /\ Limit >= 1
  BY LimitFacts, FS_CardinalityType
<1> HIDE DEF n
<1>2. r \in Injection(S, T)
  BY DEF n
<1>3. IsFiniteSet(T) /\ Cardinality(T) = n
  BY <1>1, FS_Interval
<1>4. r \in Surjection(S, T)
  <2>1. Cardinality(S) = Cardinality(T)
    BY <1>3 DEF n
  <2> HIDE DEF T
  <2> QED
    BY <1>2, <1>3, <2>1, FS_Injection
<1>5. r \in [S -> T] /\ \A a, b \in S : r[a] = r[b] => a = b
  BY <1>2 DEF Injection, IsInjective
<1>6. m \in Int
  BY <1>1
<1>7. f \in [P -> J]
  <2>1. ASSUME NEW a \in P PROVE r[a] \in J
    <3>1. r[a] \in T /\ r[a] \in k..(k + Limit - 1)
      BY <1>5
    <3> QED
      BY <1>1, <3>1
  <2> QED
    BY <2>1
<1>8. \A t \in J : \E a \in P : f[a] = t
  <2> SUFFICES ASSUME NEW t \in J PROVE \E a \in P : f[a] = t
    OBVIOUS
  <2>1. t \in T /\ t \in k..(k + Limit - 1)
    BY <1>1
  <2>2. PICK a \in S : r[a] = t
    BY <1>4, <2>1 DEF Surjection
  <2>3. a \in P
    BY <2>1, <2>2
  <2> QED
    BY <2>2, <2>3
<1>9. \A a, b \in P : f[a] = f[b] => a = b
  BY <1>5
<1>10. IsFiniteSet(P)
  <2>1. P \subseteq S
    OBVIOUS
  <2> HIDE DEF P
  <2> QED
    BY <2>1, FS_Subset
<1>11. Cardinality(J) = Held(n, k)
  <2>1. Cardinality(J) = IF k > m THEN 0 ELSE m - k + 1
    <3> HIDE DEF m
    <3> QED
      BY <1>6, FS_Interval
  <2> HIDE DEF J
  <2> QED
    BY <1>1, <2>1 DEF Held
<1> HIDE DEF f, P, J
<1>12. f \in Bijection(P, J)
  BY <1>7, <1>8, <1>9 DEF Bijection, Injection, Surjection, IsInjective
<1>13. Cardinality(J) = Cardinality(P)
  BY <1>10, <1>12, FS_Bijection DEF ExistsBijection
<1> QED
  BY <1>11, <1>13 DEF P, n

-----------------------------------------------------------------------------
LEMMA PlaceFacts ==
  ASSUME TypeOK
  PROVE  /\ Matches \subseteq DOMAIN rows /\ IsFiniteSet(Matches)
         /\ Cardinality(Matches) \in Nat /\ Cardinality(Matches) <= MaxRows
         /\ \A a : /\ IsFiniteSet(Ahead(a)) /\ Place(a) \in Nat
                  /\ Place(a) = Rank(Matches, walk.sort, a)
         /\ \A a \in Matches : Place(a) < Cardinality(Matches)
         /\ \A p \in Nat : Cardinality({a \in Matches : Place(a) \in p..(p + Limit - 1)})
                             = Held(Cardinality(Matches), p)
<1>1. /\ Matches \subseteq DOMAIN rows /\ IsFiniteSet(Matches)
      /\ Cardinality(Matches) \in Nat /\ Cardinality(Matches) <= MaxRows
  BY TableFacts DEF Matches
<1>2. ASSUME NEW a
      PROVE  /\ IsFiniteSet(Ahead(a)) /\ Place(a) \in Nat
             /\ Place(a) = Rank(Matches, walk.sort, a)
  <2>1. Ahead(a) \subseteq Matches
    BY DEF Ahead
  <2>2. IsFiniteSet(Ahead(a))
    BY <1>1, <2>1, FS_Subset
  <2>3. Place(a) \in Nat
    BY <2>2, FS_CardinalityType DEF Place
  <2> QED
    BY <2>2, <2>3 DEF Place, Rank, Ahead
<1> DEFINE r == [a \in Matches |-> Rank(Matches, walk.sort, a)]
<1>3. r \in Injection(Matches, 0..(Cardinality(Matches) - 1))
  <2>1. walk.sort \in Sort
    BY WalkFields DEF TypeOK
  <2> QED
    BY <1>1, <2>1, Ranks
<1>4. \A a \in Matches : r[a] = Place(a)
  BY <1>2
<1> HIDE DEF r
<1>5. \A a \in Matches : r[a] \in 0..(Cardinality(Matches) - 1)
  BY <1>3 DEF Injection
<1>6. \A a \in Matches : Place(a) < Cardinality(Matches)
  BY <1>1, <1>2, <1>4, <1>5
<1>7. ASSUME NEW p \in Nat
      PROVE  Cardinality({a \in Matches : Place(a) \in p..(p + Limit - 1)})
             = Held(Cardinality(Matches), p)
  <2>1. Cardinality({a \in Matches : r[a] \in p..(p + Limit - 1)}) = Held(Cardinality(Matches), p)
    BY <1>1, <1>3, PageSize
  <2>2. {a \in Matches : r[a] \in p..(p + Limit - 1)}
        = {a \in Matches : Place(a) \in p..(p + Limit - 1)}
    BY <1>4
  <2> QED
    BY <2>1, <2>2
<1> QED
  BY <1>1, <1>2, <1>6, <1>7

LEMMA PlaceAfter ==
  ASSUME TypeOK'
  PROVE  /\ Matches' \subseteq DOMAIN rows'
         /\ \A a : IsFiniteSet(Ahead(a)') /\ Place(a)' \in Nat
<1>1. Matches' \subseteq DOMAIN rows'
  BY DEF Matches, Matching
<1>2. created' \in Int /\ DOMAIN rows' \subseteq 1..created'
  BY ListingsAssumption DEF TypeOK
<1>3. IsFiniteSet(1..created')
  BY <1>2, FS_Interval
<1>4. ASSUME NEW a PROVE IsFiniteSet(Ahead(a)') /\ Place(a)' \in Nat
  <2>1. Ahead(a)' \subseteq 1..created'
    BY <1>1, <1>2 DEF Ahead
  <2>2. IsFiniteSet(Ahead(a)')
    BY <1>3, <2>1, FS_Subset
  <2> QED
    BY <2>2, FS_CardinalityType DEF Place
<1> QED
  BY <1>1, <1>4

(* A change of the table keeps the invariant if no row returns and what it *)
(* does to the order is what the walk notices.                             *)
LEMMA TableStep ==
  ASSUME WalkInv, NEW c \in BOOLEAN, NEW g \in BOOLEAN, Noticed(c, g), TypeOK',
         created <= created', DOMAIN rows' \cap 1..created \subseteq DOMAIN rows,
         ~c => \A a \in Matches' \cap 1..created : a \in Matches /\ Ahead(a)' \subseteq Ahead(a),
         ~g => /\ Matches \cap DOMAIN rows' \subseteq Matches'
               /\ \A a \in Matches \cap Matches' : Ahead(a) \subseteq Ahead(a)'
  PROVE  WalkInv'
<1>1. /\ walk'.pc = walk.pc /\ walk'.todo = walk.todo /\ walk'.filter = walk.filter
      /\ walk'.sort = walk.sort /\ walk'.page = walk.page /\ walk'.items = walk.items
      /\ walk'.total = walk.total /\ walk'.from = walk.from /\ walk'.shown = walk.shown
      /\ walk'.repeated = walk.repeated
      /\ walk.pc # "off" =>
           /\ walk'.came <=> (walk.came \/ c)
           /\ walk'.gone <=> (walk.gone \/ g)
           /\ walk'.calm <=> (walk.calm /\ Cardinality(walk.todo) # 1)
  BY NoticedFields DEF WalkInv
<1>2. TypeOK /\ Sane /\ ShownIsBehind /\ BehindIsShown /\ CalmAgrees
  BY DEF WalkInv
<1>3. created \in Nat /\ created' \in Nat /\ DOMAIN rows \subseteq 1..created
  BY <1>2, TableFacts, ListingsAssumption DEF TypeOK
<1>4. PagesRead' = PagesRead /\ (Fetched' <=> Fetched)
  BY <1>1 DEF PagesRead, Fetched
<1>5. /\ walk.page \in Nat /\ PagesRead \in Int
      /\ walk.page * Limit \in Int /\ PagesRead * Limit \in Int
  <2>1. walk.page \in Nat
    BY <1>2, WalkFields, ListingsAssumption DEF TypeOK
  <2> QED
    BY <2>1, LimitFacts DEF PagesRead
<1>6. Sane'
  BY <1>1, <1>2, <1>3, <1>4 DEF Sane
<1>7. \A a : /\ IsFiniteSet(Ahead(a)) /\ Place(a) \in Nat
           /\ IsFiniteSet(Ahead(a)') /\ Place(a)' \in Nat
  <2>1. \A a : IsFiniteSet(Ahead(a)) /\ Place(a) \in Nat
    BY <1>2, PlaceFacts
  <2>2. \A a : IsFiniteSet(Ahead(a)') /\ Place(a)' \in Nat
    BY PlaceAfter
  <2> QED
    BY <2>1, <2>2
<1>8. ASSUME NEW a, Ahead(a)' \subseteq Ahead(a) PROVE Place(a)' <= Place(a)
  <2>1. Cardinality(Ahead(a)') <= Cardinality(Ahead(a))
    BY <1>7, <1>8, FS_Subset
  <2> QED
    BY <2>1 DEF Place
<1>9. ASSUME NEW a, Ahead(a) \subseteq Ahead(a)' PROVE Place(a) <= Place(a)'
  <2>1. Cardinality(Ahead(a)) <= Cardinality(Ahead(a)')
    BY <1>7, <1>9, FS_Subset
  <2> QED
    BY <2>1 DEF Place
<1>10. ShownIsBehind'
  <2> SUFFICES ASSUME walk.pc # "off", ~walk.came, ~c
               PROVE  /\ ~walk.repeated
                      /\ \A a \in walk.shown \cap Matches' : Place(a)' < PagesRead * Limit
                      /\ Fetched =>
                           /\ walk.items \cap walk.shown = {}
                           /\ \A a \in walk.items \cap Matches' :
                                Place(a)' < walk.page * Limit
    BY <1>1, <1>4 DEF ShownIsBehind
  <2>1. /\ ~walk.repeated
        /\ \A a \in walk.shown \cap Matches : Place(a) < PagesRead * Limit
        /\ Fetched =>
             /\ walk.items \cap walk.shown = {}
             /\ \A a \in walk.items \cap Matches : Place(a) < walk.page * Limit
    BY <1>2 DEF ShownIsBehind
  <2>2. ASSUME NEW a \in Matches', a \in walk.shown \/ a \in walk.items
        PROVE  a \in Matches /\ Place(a)' <= Place(a)
    <3>1. a \in 1..created
      BY <1>2, <2>2 DEF Sane
    <3> QED
      BY <1>8, <3>1
  <2>3. ASSUME NEW a \in walk.shown \cap Matches' PROVE Place(a)' < PagesRead * Limit
    BY <1>5, <1>7, <2>1, <2>2
  <2>4. ASSUME Fetched, NEW a \in walk.items \cap Matches' PROVE Place(a)' < walk.page * Limit
    BY <1>5, <1>7, <2>1, <2>2, <2>4
  <2> QED
    BY <2>1, <2>3, <2>4
<1>11. BehindIsShown'
  <2> SUFFICES ASSUME walk.pc # "off", ~walk.gone, ~g
               PROVE  /\ walk.from \cap DOMAIN rows' \subseteq Matches'
                      /\ \A a \in walk.from \cap Matches' :
                           Place(a)' < PagesRead * Limit => a \in walk.shown
                      /\ Fetched => \A a \in walk.from \cap Matches' :
                           Place(a)' < walk.page * Limit \/ Cardinality(walk.items) < Limit
                             => a \in walk.shown \cup walk.items
                      /\ walk.pc = "end" => walk.from \cap Matches' \subseteq walk.shown
    BY <1>1, <1>4 DEF BehindIsShown
  <2>1. /\ walk.from \cap DOMAIN rows \subseteq Matches
        /\ \A a \in walk.from \cap Matches : Place(a) < PagesRead * Limit => a \in walk.shown
        /\ Fetched => \A a \in walk.from \cap Matches :
             Place(a) < walk.page * Limit \/ Cardinality(walk.items) < Limit
               => a \in walk.shown \cup walk.items
        /\ walk.pc = "end" => walk.from \cap Matches \subseteq walk.shown
    BY <1>2 DEF BehindIsShown
  <2>2. walk.from \subseteq 1..created
    BY <1>2 DEF Sane
  <2>3. walk.from \cap DOMAIN rows' \subseteq Matches'
    BY <2>1, <2>2
  <2>4. Matches' \subseteq DOMAIN rows'
    BY PlaceAfter
  <2>5. ASSUME NEW a \in walk.from \cap Matches'
        PROVE  a \in Matches /\ Place(a) <= Place(a)'
    <3>1. a \in Matches
      BY <2>1, <2>2, <2>4
    <3> QED
      BY <1>9, <3>1
  <2>6. ASSUME NEW a \in walk.from \cap Matches', Place(a)' < PagesRead * Limit
        PROVE  a \in walk.shown
    <3>1. a \in walk.from \cap Matches /\ Place(a) < PagesRead * Limit
      BY <1>5, <1>7, <2>5, <2>6
    <3> QED
      BY <2>1, <3>1
  <2>7. ASSUME Fetched, NEW a \in walk.from \cap Matches',
               Place(a)' < walk.page * Limit \/ Cardinality(walk.items) < Limit
        PROVE  a \in walk.shown \cup walk.items
    <3>1. a \in walk.from \cap Matches
      BY <2>5
    <3>2. Place(a) < walk.page * Limit \/ Cardinality(walk.items) < Limit
      <4>1. CASE Cardinality(walk.items) < Limit
        BY <4>1
      <4>2. CASE Place(a)' < walk.page * Limit
        BY <1>5, <1>7, <2>5, <4>2
      <4> QED
        BY <2>7, <4>1, <4>2
    <3> QED
      BY <2>1, <2>7, <3>1, <3>2
  <2>8. walk.pc = "end" => walk.from \cap Matches' \subseteq walk.shown
    BY <2>1, <2>5
  <2> QED
    BY <2>3, <2>6, <2>7, <2>8
<1>12. CalmAgrees'
  <2>1. Cardinality({"total"}) = 1 /\ Cardinality({"page"}) = 1
    BY FS_Singleton
  <2>2. walk.pc = "asking" /\ walk'.calm => walk.calm /\ Cardinality(walk.todo) # 1
    BY <1>1
  <2>3. walk.pc = "asking" /\ walk'.calm =>
          walk.calm /\ walk.todo # {"total"} /\ walk.todo # {"page"}
    BY <2>1, <2>2
  <2> QED
    BY <1>1, <1>2, <2>3 DEF CalmAgrees, Skip, Held
<1> QED
  BY <1>2, <1>6, <1>10, <1>11, <1>12 DEF WalkInv

-----------------------------------------------------------------------------
(* The changes of the table, each as TableStep asks for it.                *)
LEMMA CreateStep ==
  ASSUME WalkInv, Create
  PROVE  WalkInv'
<1>1. TypeOK /\ Sane
  BY DEF WalkInv
<1> DEFINE c(r) == walk.sort = "latest" /\ Meets(walk.filter, r.column)
<1>2. PICK r \in Columns(kind) :
        /\ ~r.isStarred
        /\ rows' = [a \in DOMAIN rows \cup {created'} |-> IF a = created' THEN r ELSE rows[a]]
        /\ Noticed(c(r), FALSE)
  BY DEF Create
<1>3. created < MaxRows /\ created' = created + 1 /\ kind' = kind
  BY DEF Create
<1>4. /\ created \in Nat /\ MaxRows \in Nat /\ DOMAIN rows \subseteq 1..created
      /\ created + 1 \notin 1..created
  BY <1>1, TableFacts
<1>5. c(r) \in BOOLEAN
  OBVIOUS
<1>6. /\ walk' \in Walk /\ walk'.filter = walk.filter /\ walk'.sort = walk.sort
  BY <1>1, <1>2, <1>5, NoticedFields
<1>7. /\ DOMAIN rows' = DOMAIN rows \cup {created + 1}
      /\ rows'[created + 1] = r
      /\ \A a \in DOMAIN rows : rows'[a] = rows[a] /\ a < created + 1 /\ a # created + 1
  BY <1>2, <1>3, <1>4
<1>8. TypeOK'
  BY <1>1, <1>2, <1>3, <1>4, <1>6, <1>7 DEF TypeOK
<1>9. \A f, v : Meets(f, v)' = Meets(f, v)
  BY <1>3 DEF Meets
<1>10. \A a \in DOMAIN rows : a \in Matches' <=> a \in Matches
  BY <1>6, <1>7, <1>9 DEF Matches, Matching
<1>11. \A a \in Matches' : a \in Matches \/ (a = created + 1 /\ Meets(walk.filter, r.column))
  BY <1>6, <1>7, <1>9 DEF Matches, Matching
<1>12. \A a, b \in DOMAIN rows : Before(walk.sort, a, b)' <=> Before(walk.sort, a, b)
  BY <1>6, <1>7 DEF Before
<1>13. Matches \subseteq DOMAIN rows
  BY DEF Matches, Matching
<1>14. ASSUME ~c(r), NEW a \in Matches' \cap 1..created
       PROVE  a \in Matches /\ Ahead(a)' \subseteq Ahead(a)
  <2>1. a \in Matches /\ a \in DOMAIN rows
    BY <1>4, <1>11, <1>13, <1>14
  <2>2. ASSUME NEW b \in Ahead(a)' PROVE b \in Ahead(a)
    <3>1. b \in Matches' /\ Before(walk.sort, b, a)'
      BY <2>2, <1>6 DEF Ahead
    <3>2. CASE b \in Matches
      BY <1>12, <1>13, <2>1, <3>1, <3>2 DEF Ahead
    <3>3. CASE b = created + 1 /\ Meets(walk.filter, r.column)
      <4>1. walk.sort = "oldest"
        BY <1>1, <1>14, <3>3, WalkFields DEF TypeOK, Sort
      <4>2. b < a
        BY <1>6, <3>1, <4>1 DEF Before
      <4> QED
        BY <1>4, <1>7, <2>1, <3>3, <4>2
    <3> QED
      BY <1>11, <3>1, <3>2, <3>3
  <2> QED
    BY <2>1, <2>2
<1>15. Matches \cap DOMAIN rows' \subseteq Matches'
  BY <1>10, <1>13
<1>16. ASSUME NEW a \in Matches \cap Matches' PROVE Ahead(a) \subseteq Ahead(a)'
  BY <1>6, <1>10, <1>12, <1>13 DEF Ahead
<1>17. created <= created' /\ DOMAIN rows' \cap 1..created \subseteq DOMAIN rows
  BY <1>3, <1>4, <1>7
<1> HIDE DEF c
<1> QED
  BY <1>2, <1>5, <1>8, <1>14, <1>15, <1>16, <1>17, TableStep

LEMMA DeleteStep ==
  ASSUME WalkInv, NEW S \in SUBSET DOMAIN rows, Delete(S)
  PROVE  WalkInv'
<1>1. TypeOK
  BY DEF WalkInv
<1>2. /\ rows' = [a \in DOMAIN rows \ S |-> rows[a]]
      /\ Noticed(FALSE, InTheMidst(S)) /\ kind' = kind /\ created' = created
  BY DEF Delete
<1>3. InTheMidst(S) \in BOOLEAN
  BY DEF InTheMidst
<1>4. /\ walk' \in Walk /\ walk'.filter = walk.filter /\ walk'.sort = walk.sort
  BY <1>1, <1>2, <1>3, NoticedFields
<1>5. DOMAIN rows' = DOMAIN rows \ S /\ \A a \in DOMAIN rows' : rows'[a] = rows[a]
  BY <1>2
<1>6. TypeOK'
  BY <1>1, <1>2, <1>4, <1>5 DEF TypeOK
<1>7. Matches' = Matches \ S
  BY <1>2, <1>4, <1>5 DEF Matches, Matching, Meets
<1>8. Matches \subseteq DOMAIN rows
  BY DEF Matches, Matching
<1>9. \A a, b \in DOMAIN rows' : Before(walk.sort, a, b)' <=> Before(walk.sort, a, b)
  BY <1>4, <1>5 DEF Before
<1>10. ASSUME NEW a \in Matches' \cap 1..created
       PROVE  a \in Matches /\ Ahead(a)' \subseteq Ahead(a)
  BY <1>4, <1>5, <1>7, <1>8, <1>9 DEF Ahead
<1>11. ASSUME ~InTheMidst(S), NEW a \in Matches \cap Matches'
       PROVE  Ahead(a) \subseteq Ahead(a)'
  <2>1. ASSUME NEW b \in Ahead(a) PROVE b \in Ahead(a)'
    <3>1. b \in Matches /\ Before(walk.sort, b, a)
      BY <2>1 DEF Ahead
    <3>2. b \notin S
      BY <1>7, <1>11, <3>1 DEF InTheMidst, Matches
    <3> QED
      BY <1>4, <1>5, <1>7, <1>8, <1>9, <3>1, <3>2 DEF Ahead
  <2> QED
    BY <2>1
<1>12. Matches \cap DOMAIN rows' \subseteq Matches'
  BY <1>5, <1>7
<1>13. created <= created' /\ DOMAIN rows' \cap 1..created \subseteq DOMAIN rows
  BY <1>1, <1>2, <1>5, TableFacts
<1> QED
  BY <1>2, <1>3, <1>6, <1>10, <1>11, <1>12, <1>13, TableStep

LEMMA UpdateStep ==
  ASSUME WalkInv, Update
  PROVE  WalkInv'
<1>1. TypeOK
  BY DEF WalkInv
<1> DEFINE met(a)   == Meets(walk.filter, rows[a].column)
           meets(v) == Meets(walk.filter, v)
<1>2. PICK a \in DOMAIN rows, v \in Text \cup (IF kind = "notes" THEN {} ELSE {None}) :
        /\ rows' = [rows EXCEPT ![a].column = v]
        /\ Noticed(meets(v) /\ ~met(a), met(a) /\ ~meets(v))
  BY DEF Update
<1>3. kind' = kind /\ created' = created
  BY DEF Update
<1> DEFINE c == meets(v) /\ ~met(a)
           g == met(a) /\ ~meets(v)
<1>4. c \in BOOLEAN /\ g \in BOOLEAN /\ Noticed(c, g)
  BY <1>2
<1> HIDE DEF c, g
<1>5. /\ walk' \in Walk /\ walk'.filter = walk.filter /\ walk'.sort = walk.sort
  BY <1>1, <1>4, NoticedFields
<1>6. \A b \in DOMAIN rows : rows[b] \in Columns(kind)
  BY <1>1 DEF TypeOK
<1>7. DOMAIN rows' = DOMAIN rows /\ \A b \in DOMAIN rows : b # a => rows'[b] = rows[b]
  BY <1>2
<1>8. rows'[a].column = v /\ rows'[a].isStarred = rows[a].isStarred
  BY <1>2, <1>6 DEF Columns
<1>9. rows'[a] \in Columns(kind)
  BY <1>2, <1>6 DEF Columns
<1>10. TypeOK'
  BY <1>1, <1>3, <1>5, <1>6, <1>7, <1>9 DEF TypeOK
<1>11. \A f, x : Meets(f, x)' = Meets(f, x)
  BY <1>3 DEF Meets
<1>12. /\ Matches \subseteq DOMAIN rows /\ Matches' \subseteq DOMAIN rows
       /\ \A b \in DOMAIN rows : b # a => (b \in Matches' <=> b \in Matches)
       /\ a \in Matches <=> met(a)
       /\ a \in Matches' <=> meets(v)
  BY <1>5, <1>7, <1>8, <1>11 DEF Matches, Matching
<1>13. \A b, d \in DOMAIN rows : Before(walk.sort, b, d)' <=> Before(walk.sort, b, d)
  <2>1. \A b \in DOMAIN rows : rows'[b].isStarred = rows[b].isStarred
    BY <1>7, <1>8
  <2> QED
    BY <1>5, <2>1 DEF Before
<1> HIDE DEF met, meets
<1>14. ASSUME ~c PROVE Matches' \subseteq Matches
  BY <1>12, <1>14 DEF c
<1>15. ASSUME ~g PROVE Matches \subseteq Matches'
  BY <1>12, <1>15 DEF g
<1>16. ASSUME ~c, NEW b \in Matches' \cap 1..created
       PROVE  b \in Matches /\ Ahead(b)' \subseteq Ahead(b)
  BY <1>5, <1>12, <1>13, <1>14, <1>16 DEF Ahead
<1>17. ASSUME ~g, NEW b \in Matches \cap Matches' PROVE Ahead(b) \subseteq Ahead(b)'
  BY <1>5, <1>12, <1>13, <1>15, <1>17 DEF Ahead
<1>18. created <= created' /\ DOMAIN rows' \cap 1..created \subseteq DOMAIN rows
  BY <1>1, <1>3, <1>7, TableFacts
<1>19. ~g => Matches \cap DOMAIN rows' \subseteq Matches'
  BY <1>15
<1> QED
  BY <1>4, <1>10, <1>16, <1>17, <1>18, <1>19, TableStep

LEMMA ToggleStarStep ==
  ASSUME WalkInv, ToggleStar
  PROVE  WalkInv'
<1>1. TypeOK
  BY DEF WalkInv
<1> DEFINE moves(a) == walk.sort = "latest" /\ a \in Matching(walk.filter)
<1>2. PICK a \in DOMAIN rows :
        rows' = [rows EXCEPT ![a].isStarred = ~@] /\ Noticed(moves(a), moves(a))
  BY DEF ToggleStar
<1>3. kind' = kind /\ created' = created /\ kind = "notes"
  BY DEF ToggleStar
<1> DEFINE c == moves(a)
<1>4. c \in BOOLEAN /\ Noticed(c, c)
  BY <1>2
<1>5. /\ walk' \in Walk /\ walk'.filter = walk.filter /\ walk'.sort = walk.sort
  <2> HIDE DEF c
  <2> QED
    BY <1>1, <1>4, NoticedFields
<1>6. \A b \in DOMAIN rows : rows[b] \in Columns(kind)
  BY <1>1 DEF TypeOK
<1>7. DOMAIN rows' = DOMAIN rows /\ \A b \in DOMAIN rows : b # a => rows'[b] = rows[b]
  BY <1>2
<1>8. rows'[a].column = rows[a].column
  BY <1>2, <1>6 DEF Columns
<1>9. rows'[a] \in Columns(kind)
  BY <1>2, <1>3, <1>6 DEF Columns
<1>10. TypeOK'
  BY <1>1, <1>3, <1>5, <1>6, <1>7, <1>9 DEF TypeOK
<1>11. \A f, x : Meets(f, x)' = Meets(f, x)
  BY <1>3 DEF Meets
<1>12. Matches' = Matches /\ Matches \subseteq DOMAIN rows
  BY <1>5, <1>7, <1>8, <1>11 DEF Matches, Matching
<1>13. ASSUME ~c, NEW b \in Matches, NEW d \in Matches
       PROVE  Before(walk.sort, b, d)' <=> Before(walk.sort, b, d)
  <2>1. CASE walk.sort = "oldest"
    BY <1>5, <2>1 DEF Before
  <2>2. CASE a \notin Matches
    BY <1>5, <1>7, <1>12, <2>2 DEF Before
  <2>3. walk.sort \in Sort
    BY <1>1, WalkFields DEF TypeOK
  <2> QED
    BY <1>13, <2>1, <2>2, <2>3 DEF Sort, Matches
<1>14. ASSUME ~c, NEW b \in Matches PROVE Ahead(b)' = Ahead(b)
  BY <1>5, <1>12, <1>13, <1>14 DEF Ahead
<1> HIDE DEF c, moves
<1>15. created <= created' /\ DOMAIN rows' \cap 1..created \subseteq DOMAIN rows
  BY <1>1, <1>3, <1>7, TableFacts
<1>16. ~c => \A b \in Matches' \cap 1..created : b \in Matches /\ Ahead(b)' \subseteq Ahead(b)
  BY <1>12, <1>14
<1>17. ~c => /\ Matches \cap DOMAIN rows' \subseteq Matches'
             /\ \A b \in Matches \cap Matches' : Ahead(b) \subseteq Ahead(b)'
  BY <1>12, <1>14
<1> QED
  BY <1>4, <1>10, <1>15, <1>16, <1>17, TableStep

-----------------------------------------------------------------------------
(* The steps of the walk leave the table alone.                            *)
LEMMA TableKept ==
  ASSUME UNCHANGED <<kind, created, rows>>,
         walk'.filter = walk.filter, walk'.sort = walk.sort
  PROVE  /\ Matches' = Matches
         /\ \A a : Ahead(a)' = Ahead(a) /\ Place(a)' = Place(a)
<1>1. Matches' = Matches
  BY DEF Matches, Matching, Meets
<1>2. ASSUME NEW a PROVE Ahead(a)' = Ahead(a) /\ Place(a)' = Place(a)
  <2>1. Ahead(a)' = Ahead(a)
    BY <1>1 DEF Ahead, Before
  <2> QED
    BY <2>1 DEF Place
<1> QED
  BY <1>1, <1>2

LEMMA WalkNumbers ==
  ASSUME TypeOK
  PROVE  /\ walk.page \in Nat /\ PagesRead \in Int /\ Skip(walk.page) \in Int
         /\ walk.page * Limit \in Nat /\ PagesRead * Limit \in Int
         /\ walk.page * Limit = Skip(walk.page) + Limit
         /\ walk.pc = "asking" => PagesRead * Limit = Skip(walk.page)
         /\ walk.pc # "asking" => PagesRead = walk.page
         /\ walk.page >= 1 => Skip(walk.page) \in Nat /\ Skip(walk.page) >= walk.page - 1
<1>1. walk.page \in Nat
  BY WalkFields, ListingsAssumption DEF TypeOK
<1>2. walk.page >= 1 => Skip(walk.page) \in Nat /\ Skip(walk.page) >= walk.page - 1
  <2> SUFFICES ASSUME walk.page >= 1
               PROVE  Skip(walk.page) \in Nat /\ Skip(walk.page) >= walk.page - 1
    OBVIOUS
  <2>1. walk.page - 1 \in Nat
    BY <1>1
  <2> QED
    BY <2>1, LimitFacts DEF Skip
<1>3. walk.page * Limit = Skip(walk.page) + Limit
  BY <1>1, LimitFacts DEF Skip
<1> QED
  BY <1>1, <1>2, <1>3, LimitFacts DEF PagesRead, Skip

LEMMA AskStep ==
  ASSUME WalkInv, Ask
  PROVE  WalkInv'
<1>1. TypeOK
  BY DEF WalkInv
<1>2. PICK f \in Filter, s \in Sort : walk' = Started(f, s, Matching(f))
  BY Zenon DEF Ask, Filter, Sort
<1>3. UNCHANGED <<kind, created, rows>>
  BY DEF Ask
<1>4. Matching(f) \subseteq DOMAIN rows /\ Matching(f) \subseteq Row /\ Matching(f) \subseteq 1..created
  BY <1>1, TableFacts
<1>5. /\ walk' \in Walk /\ walk'.pc = "asking" /\ walk'.todo = {"page", "total"}
      /\ walk'.filter = f /\ walk'.page = 1 /\ walk'.items = {} /\ walk'.from = Matching(f)
      /\ walk'.shown = {} /\ ~walk'.repeated
  <2> DEFINE S == Matching(f)
  <2>1. S \in SUBSET Row /\ walk' = Started(f, s, S)
    BY <1>2, <1>4
  <2> HIDE DEF S
  <2>2. Started(f, s, S) \in Walk
    BY <2>1, StartedIsWalk
  <2>3. /\ walk'.pc = "asking" /\ walk'.todo = {"page", "total"}
        /\ walk'.filter = f /\ walk'.page = 1 /\ walk'.items = {} /\ walk'.from = S
        /\ walk'.shown = {} /\ ~walk'.repeated
    BY <2>1 DEF Started
  <2> QED
    BY <2>1, <2>2, <2>3 DEF S
<1>6. TypeOK'
  BY <1>1, <1>3, <1>5 DEF TypeOK
<1>7. ~Fetched' /\ PagesRead' = 0 /\ PagesRead' * Limit = 0
  BY <1>5, LimitFacts DEF Fetched, PagesRead
<1>8. Matches' = Matching(f)
  BY <1>3, <1>5 DEF Matches, Matching, Meets
<1>9. Sane'
  BY <1>3, <1>4, <1>5, <1>7 DEF Sane
<1>10. ShownIsBehind'
  BY <1>5, <1>7 DEF ShownIsBehind
<1>11. \A a : Place(a)' \in Nat
  BY <1>6, PlaceAfter
<1>12. BehindIsShown'
  <2>1. \A a : ~(Place(a)' < PagesRead' * Limit)
    BY <1>7, <1>11
  <2> QED
    BY <1>5, <1>7, <1>8, <2>1 DEF BehindIsShown
<1>13. CalmAgrees'
  BY <1>5 DEF CalmAgrees
<1> QED
  BY <1>6, <1>9, <1>10, <1>12, <1>13 DEF WalkInv

LEMMA AskNextStep ==
  ASSUME WalkInv, AskNext
  PROVE  WalkInv'
<1>1. TypeOK /\ Sane /\ ShownIsBehind /\ BehindIsShown
  BY DEF WalkInv
<1>2. /\ walk.pc = "between" /\ UNCHANGED <<kind, created, rows>>
      /\ walk' = [walk EXCEPT !.pc = "asking", !.todo = {"page", "total"}, !.page = @ + 1,
                              !.items = {}, !.total = 0, !.calm = TRUE]
  BY DEF AskNext
<1>3. walk \in Walk /\ walk.page <= MaxRows /\ walk.page \in Nat /\ MaxRows \in Nat
  BY <1>1, <1>2, WalkNumbers, ListingsAssumption DEF TypeOK, Sane
<1>4. walk.page + 1 \in 0..(MaxRows + 1) /\ 0 \in 0..MaxRows
  BY <1>3
<1>5. /\ walk' \in Walk /\ walk'.pc = "asking" /\ walk'.todo = {"page", "total"}
      /\ walk'.page = walk.page + 1 /\ walk'.items = {} /\ walk'.from = walk.from
      /\ walk'.shown = walk.shown /\ walk'.repeated = walk.repeated
      /\ walk'.came = walk.came /\ walk'.gone = walk.gone
      /\ walk'.filter = walk.filter /\ walk'.sort = walk.sort
  BY <1>2, <1>3, <1>4 DEF Walk
<1>6. TypeOK'
  BY <1>1, <1>2, <1>5 DEF TypeOK
<1>7. ~Fetched' /\ PagesRead' = PagesRead
  BY <1>2, <1>3, <1>5 DEF Fetched, PagesRead
<1>8. Matches' = Matches /\ \A a : Place(a)' = Place(a)
  BY <1>2, <1>5, TableKept
<1>9. Sane'
  BY <1>1, <1>2, <1>3, <1>5, <1>7 DEF Sane
<1>10. ShownIsBehind'
  BY <1>1, <1>2, <1>5, <1>7, <1>8 DEF ShownIsBehind
<1>11. BehindIsShown'
  BY <1>1, <1>2, <1>5, <1>7, <1>8 DEF BehindIsShown
<1>12. CalmAgrees'
  BY <1>5 DEF CalmAgrees
<1> QED
  BY <1>6, <1>9, <1>10, <1>11, <1>12 DEF WalkInv

LEMMA FindManyStep ==
  ASSUME WalkInv, FindMany
  PROVE  WalkInv'
<1>1. TypeOK /\ Sane /\ ShownIsBehind /\ BehindIsShown /\ CalmAgrees
  BY DEF WalkInv
<1> DEFINE items == Take(Matching(walk.filter), walk.sort, Skip(walk.page))
           n     == Cardinality(Matches)
<1>2. /\ walk.pc = "asking" /\ "page" \in walk.todo /\ UNCHANGED <<kind, created, rows>>
      /\ walk' = [walk EXCEPT !.todo = @ \ {"page"}, !.items = items]
  BY DEF FindMany
<1>3. /\ walk.page \in Nat /\ walk.page >= 1 /\ Skip(walk.page) \in Nat
      /\ walk.page * Limit = Skip(walk.page) + Limit
      /\ PagesRead * Limit = Skip(walk.page) /\ Skip(walk.page) >= walk.page - 1
  BY <1>1, <1>2, WalkNumbers DEF Sane
<1>4. items = {a \in Matches : Place(a) \in Skip(walk.page)..(Skip(walk.page) + Limit - 1)}
  BY <1>1, PlaceFacts DEF Take, Matches
<1>5. Cardinality(items) = Held(n, Skip(walk.page))
  BY <1>1, <1>3, <1>4, PlaceFacts
<1> HIDE DEF items
<1>6. /\ n \in Nat /\ n <= MaxRows /\ MaxRows \in Nat /\ Limit \in Nat /\ Limit >= 1
      /\ Matches \subseteq DOMAIN rows /\ DOMAIN rows \subseteq 1..created /\ DOMAIN rows \subseteq Row
      /\ \A a : Place(a) \in Nat
      /\ \A a \in Matches : Place(a) < n
  BY <1>1, PlaceFacts, TableFacts, LimitFacts
<1> HIDE DEF n
<1>7. items \subseteq Matches /\ items \subseteq 1..created /\ items \subseteq Row
  BY <1>4, <1>6
<1>8. walk \in Walk /\ walk.todo \subseteq {"page", "total"}
  BY <1>1, WalkFields DEF TypeOK
<1>9. /\ walk' \in Walk /\ walk'.pc = "asking" /\ walk'.todo = walk.todo \ {"page"}
      /\ walk'.page = walk.page /\ walk'.items = items /\ walk'.from = walk.from
      /\ walk'.shown = walk.shown /\ walk'.repeated = walk.repeated
      /\ walk'.came = walk.came /\ walk'.gone = walk.gone /\ walk'.calm = walk.calm
      /\ walk'.total = walk.total
      /\ walk'.filter = walk.filter /\ walk'.sort = walk.sort
  BY <1>2, <1>7, <1>8 DEF Walk
<1>10. TypeOK'
  BY <1>1, <1>2, <1>9 DEF TypeOK
<1>11. Fetched' /\ PagesRead' = PagesRead
  BY <1>2, <1>9 DEF Fetched, PagesRead
<1>12. Matches' = Matches /\ \A a : Place(a)' = Place(a)
  BY <1>2, <1>9, TableKept
<1>13. Sane'
  <2>1. items # {} => walk.page <= MaxRows
    BY <1>3, <1>4, <1>6
  <2> QED
    BY <1>1, <1>2, <1>7, <1>9, <1>11, <2>1 DEF Sane
<1>14. ShownIsBehind'
  <2> SUFFICES ASSUME ~walk.came
               PROVE  /\ ~walk.repeated
                      /\ \A a \in walk.shown \cap Matches : Place(a) < PagesRead * Limit
                      /\ items \cap walk.shown = {}
                      /\ \A a \in items \cap Matches : Place(a) < walk.page * Limit
    BY <1>9, <1>11, <1>12 DEF ShownIsBehind
  <2>1. /\ ~walk.repeated
        /\ \A a \in walk.shown \cap Matches : Place(a) < PagesRead * Limit
    BY <1>1, <1>2 DEF ShownIsBehind
  <2>2. \A a \in items : Place(a) >= Skip(walk.page) /\ Place(a) < Skip(walk.page) + Limit
    BY <1>3, <1>4, <1>6
  <2>3. items \cap walk.shown = {}
    <3> SUFFICES ASSUME NEW a \in items \cap walk.shown PROVE FALSE
      OBVIOUS
    <3>1. Place(a) < Skip(walk.page)
      BY <1>3, <1>7, <2>1
    <3> QED
      BY <1>3, <1>6, <2>2, <3>1
  <2>4. \A a \in items \cap Matches : Place(a) < walk.page * Limit
    BY <1>3, <2>2
  <2> QED
    BY <2>1, <2>3, <2>4
<1>15. BehindIsShown'
  <2> SUFFICES ASSUME ~walk.gone
               PROVE  /\ walk.from \cap DOMAIN rows \subseteq Matches
                      /\ \A a \in walk.from \cap Matches :
                           Place(a) < PagesRead * Limit => a \in walk.shown
                      /\ \A a \in walk.from \cap Matches :
                           Place(a) < walk.page * Limit \/ Cardinality(items) < Limit
                             => a \in walk.shown \cup items
    BY <1>2, <1>9, <1>11, <1>12 DEF BehindIsShown
  <2>1. /\ walk.from \cap DOMAIN rows \subseteq Matches
        /\ \A a \in walk.from \cap Matches : Place(a) < PagesRead * Limit => a \in walk.shown
    BY <1>1, <1>2 DEF BehindIsShown
  <2>2. ASSUME NEW a \in walk.from \cap Matches, Place(a) < walk.page * Limit
        PROVE  a \in walk.shown \cup items
    <3>1. CASE Place(a) < PagesRead * Limit
      BY <2>1, <3>1
    <3>2. CASE ~(Place(a) < PagesRead * Limit)
      <4>1. Place(a) \in Skip(walk.page)..(Skip(walk.page) + Limit - 1)
        BY <1>3, <1>6, <2>2, <3>2
      <4> QED
        BY <1>4, <4>1
    <3> QED
      BY <3>1, <3>2
  <2>3. Cardinality(items) < Limit => n <= walk.page * Limit
    BY <1>3, <1>5, <1>6 DEF Held
  <2>4. ASSUME NEW a \in walk.from \cap Matches, Cardinality(items) < Limit
        PROVE  Place(a) < walk.page * Limit
    BY <1>3, <1>6, <2>3, <2>4
  <2> QED
    BY <2>1, <2>2, <2>4
<1>16. CalmAgrees'
  <2> SUFFICES ASSUME walk.calm
               PROVE  /\ Cardinality(items) = Held(Cardinality(Matches), Skip(walk.page))
                      /\ walk.todo \ {"page"} = {} =>
                           Cardinality(items) = Held(walk.total, Skip(walk.page))
    BY <1>9, <1>12 DEF CalmAgrees, Skip, Held
  <2>1. walk.todo \ {"page"} = {} => walk.todo = {"page"}
    BY <1>2
  <2>2. walk.todo = {"page"} => walk.total = Cardinality(Matches)
    BY <1>1, <1>2 DEF CalmAgrees
  <2> QED
    BY <1>5, <2>1, <2>2 DEF n
<1> QED
  BY <1>10, <1>13, <1>14, <1>15, <1>16 DEF WalkInv

LEMMA CountStep ==
  ASSUME WalkInv, Count
  PROVE  WalkInv'
<1>1. TypeOK /\ Sane /\ ShownIsBehind /\ BehindIsShown /\ CalmAgrees
  BY DEF WalkInv
<1> DEFINE n == Cardinality(Matches)
<1>2. /\ walk.pc = "asking" /\ "total" \in walk.todo /\ UNCHANGED <<kind, created, rows>>
      /\ walk' = [walk EXCEPT !.todo = @ \ {"total"}, !.total = n]
  BY DEF Count, Matches
<1>3. n \in 0..MaxRows
  BY <1>1, PlaceFacts, ListingsAssumption
<1>4. walk \in Walk /\ walk.todo \subseteq {"page", "total"}
  BY <1>1, WalkFields DEF TypeOK
<1> HIDE DEF n
<1>5. /\ walk' \in Walk /\ walk'.pc = "asking" /\ walk'.todo = walk.todo \ {"total"}
      /\ walk'.page = walk.page /\ walk'.items = walk.items /\ walk'.from = walk.from
      /\ walk'.shown = walk.shown /\ walk'.repeated = walk.repeated
      /\ walk'.came = walk.came /\ walk'.gone = walk.gone /\ walk'.calm = walk.calm
      /\ walk'.total = n
      /\ walk'.filter = walk.filter /\ walk'.sort = walk.sort
  BY <1>2, <1>3, <1>4 DEF Walk
<1>6. TypeOK'
  BY <1>1, <1>2, <1>5 DEF TypeOK
<1>7. (Fetched' <=> Fetched) /\ PagesRead' = PagesRead
  BY <1>2, <1>5 DEF Fetched, PagesRead
<1>8. Matches' = Matches /\ \A a : Place(a)' = Place(a)
  BY <1>2, <1>5, TableKept
<1>9. Sane'
  BY <1>1, <1>2, <1>5, <1>7 DEF Sane
<1>10. ShownIsBehind'
  BY <1>1, <1>2, <1>5, <1>7, <1>8 DEF ShownIsBehind
<1>11. BehindIsShown'
  BY <1>1, <1>2, <1>5, <1>7, <1>8 DEF BehindIsShown
<1>12. CalmAgrees'
  <2>1. walk.todo \ {"total"} = {} => walk.todo = {"total"}
    BY <1>2
  <2>2. walk.calm /\ walk.todo = {"total"} =>
          Cardinality(walk.items) = Held(Cardinality(Matches), Skip(walk.page))
    BY <1>1, <1>2 DEF CalmAgrees
  <2> QED
    BY <1>5, <1>8, <2>1, <2>2 DEF CalmAgrees, Skip, Held, n
<1> QED
  BY <1>6, <1>9, <1>10, <1>11, <1>12 DEF WalkInv

LEMMA RespondStep ==
  ASSUME WalkInv, Respond
  PROVE  WalkInv'
<1>1. TypeOK /\ Sane /\ ShownIsBehind /\ BehindIsShown
  BY DEF WalkInv
<1> DEFINE p == IF Cardinality(walk.items) < Limit THEN "end" ELSE "between"
           x == walk.repeated \/ walk.items \cap walk.shown # {}
<1>2. /\ walk.pc = "asking" /\ walk.todo = {} /\ UNCHANGED <<kind, created, rows>>
      /\ walk' = [walk EXCEPT !.pc = p, !.shown = @ \cup walk.items, !.repeated = x]
  BY DEF Respond
<1>3. p \in {"between", "end"} /\ x \in BOOLEAN
  OBVIOUS
<1>4. walk \in Walk /\ walk.items \cup walk.shown \subseteq Row
  BY <1>1, WalkFields DEF TypeOK
<1>5. /\ walk.page \in Nat /\ walk.page >= 1 /\ walk.page * Limit \in Nat
      /\ Skip(walk.page) \in Nat /\ walk.page * Limit = Skip(walk.page) + Limit
      /\ PagesRead * Limit = Skip(walk.page) /\ Limit \in Nat /\ Limit >= 1
      /\ \A a : Place(a) \in Nat
  BY <1>1, <1>2, WalkNumbers, LimitFacts, PlaceFacts DEF Sane
<1> HIDE DEF p, x
<1>6. /\ walk' \in Walk /\ walk'.pc = p /\ walk'.todo = {}
      /\ walk'.page = walk.page /\ walk'.items = walk.items /\ walk'.from = walk.from
      /\ walk'.shown = walk.shown \cup walk.items /\ walk'.repeated = x
      /\ walk'.came = walk.came /\ walk'.gone = walk.gone
      /\ walk'.filter = walk.filter /\ walk'.sort = walk.sort
  BY <1>2, <1>3, <1>4 DEF Walk
<1>7. TypeOK'
  BY <1>1, <1>2, <1>6 DEF TypeOK
<1>8. Fetched /\ ~Fetched' /\ PagesRead' = walk.page
  BY <1>2, <1>3, <1>6 DEF Fetched, PagesRead
<1>9. Matches' = Matches /\ \A a : Place(a)' = Place(a)
  BY <1>2, <1>6, TableKept
<1>10. Sane'
  <2>1. Cardinality({}) < Limit
    BY <1>5, FS_EmptySet
  <2>2. p = "between" => walk.items # {}
    BY <2>1 DEF p
  <2> QED
    BY <1>1, <1>2, <1>3, <1>6, <1>8, <2>2 DEF Sane
<1>11. ShownIsBehind'
  <2> SUFFICES ASSUME ~walk.came
               PROVE  /\ ~x
                      /\ \A a \in (walk.shown \cup walk.items) \cap Matches :
                           Place(a) < walk.page * Limit
    BY <1>6, <1>8, <1>9 DEF ShownIsBehind
  <2>1. /\ ~walk.repeated /\ walk.items \cap walk.shown = {}
        /\ \A a \in walk.shown \cap Matches : Place(a) < PagesRead * Limit
        /\ \A a \in walk.items \cap Matches : Place(a) < walk.page * Limit
    BY <1>1, <1>2, <1>8 DEF ShownIsBehind
  <2>2. \A a \in walk.shown \cap Matches : Place(a) < walk.page * Limit
    BY <1>5, <2>1
  <2> QED
    BY <2>1, <2>2 DEF x
<1>12. BehindIsShown'
  <2> SUFFICES ASSUME ~walk.gone
               PROVE  /\ walk.from \cap DOMAIN rows \subseteq Matches
                      /\ \A a \in walk.from \cap Matches :
                           Place(a) < walk.page * Limit \/ p = "end"
                             => a \in walk.shown \cup walk.items
    BY <1>2, <1>6, <1>8, <1>9 DEF BehindIsShown
  <2>1. /\ walk.from \cap DOMAIN rows \subseteq Matches
        /\ \A a \in walk.from \cap Matches :
             Place(a) < walk.page * Limit \/ Cardinality(walk.items) < Limit
               => a \in walk.shown \cup walk.items
    BY <1>1, <1>2, <1>8 DEF BehindIsShown
  <2> QED
    BY <2>1 DEF p
<1>13. CalmAgrees'
  BY <1>3, <1>6 DEF CalmAgrees
<1> QED
  BY <1>7, <1>10, <1>11, <1>12, <1>13 DEF WalkInv

LEMMA RetryStep ==
  ASSUME WalkInv, Retry
  PROVE  WalkInv'
<1>1. TypeOK /\ Sane /\ ShownIsBehind /\ BehindIsShown
  BY DEF WalkInv
<1>2. /\ walk.pc = "asking" /\ UNCHANGED <<kind, created, rows>>
      /\ walk' = [walk EXCEPT !.todo = {"page", "total"}, !.items = {}, !.total = 0,
                              !.calm = TRUE]
  BY DEF Retry
<1>3. walk \in Walk /\ 0 \in 0..MaxRows
  BY <1>1, ListingsAssumption DEF TypeOK
<1>4. /\ walk' \in Walk /\ walk'.pc = "asking" /\ walk'.todo = {"page", "total"}
      /\ walk'.page = walk.page /\ walk'.items = {} /\ walk'.from = walk.from
      /\ walk'.shown = walk.shown /\ walk'.repeated = walk.repeated
      /\ walk'.came = walk.came /\ walk'.gone = walk.gone
      /\ walk'.filter = walk.filter /\ walk'.sort = walk.sort
  BY <1>2, <1>3 DEF Walk
<1>5. TypeOK'
  BY <1>1, <1>2, <1>4 DEF TypeOK
<1>6. ~Fetched' /\ PagesRead' = PagesRead
  BY <1>2, <1>4 DEF Fetched, PagesRead
<1>7. Matches' = Matches /\ \A a : Place(a)' = Place(a)
  BY <1>2, <1>4, TableKept
<1>8. Sane'
  BY <1>1, <1>2, <1>4, <1>6 DEF Sane
<1>9. ShownIsBehind'
  BY <1>1, <1>2, <1>4, <1>6, <1>7 DEF ShownIsBehind
<1>10. BehindIsShown'
  BY <1>1, <1>2, <1>4, <1>6, <1>7 DEF BehindIsShown
<1>11. CalmAgrees'
  BY <1>4 DEF CalmAgrees
<1> QED
  BY <1>5, <1>8, <1>9, <1>10, <1>11 DEF WalkInv

(* A client that is not reading.                                           *)
LEMMA OffInv ==
  ASSUME walk = Off, kind \in Kind, created \in 0..MaxRows, DOMAIN rows \subseteq 1..created,
         \A a \in DOMAIN rows : rows[a] \in Columns(kind)
  PROVE  WalkInv
<1>1. /\ walk \in Walk /\ walk.pc = "off" /\ walk.todo = {} /\ walk.items = {}
      /\ walk.from = {} /\ walk.shown = {} /\ ~walk.repeated
  BY OffIsWalk
<1>2. TypeOK
  BY <1>1 DEF TypeOK
<1>3. Sane
  BY <1>1 DEF Sane, Fetched
<1> QED
  BY <1>1, <1>2, <1>3 DEF WalkInv, ShownIsBehind, BehindIsShown, CalmAgrees

LEMMA OffInvNext ==
  (/\ walk = Off /\ kind \in Kind /\ created \in 0..MaxRows /\ DOMAIN rows \subseteq 1..created
   /\ \A a \in DOMAIN rows : rows[a] \in Columns(kind))' => WalkInv'
<1>1. (/\ walk = Off /\ kind \in Kind /\ created \in 0..MaxRows /\ DOMAIN rows \subseteq 1..created
       /\ \A a \in DOMAIN rows : rows[a] \in Columns(kind)) => WalkInv
  BY OffInv
<1> QED
  BY <1>1, PTL

LEMMA LeaveStep ==
  ASSUME WalkInv, Leave
  PROVE  WalkInv'
<1>1. TypeOK
  BY DEF WalkInv
<1>2. walk' = Off /\ UNCHANGED <<kind, created, rows>>
  BY DEF Leave
<1>3. Off' = Off
  BY DEF Off, Started
<1> QED
  BY <1>1, <1>2, <1>3, OffInvNext DEF TypeOK, Columns

LEMMA WalkInit == Init => WalkInv
<1> SUFFICES ASSUME Init PROVE WalkInv
  OBVIOUS
<1> QED
  BY OffInv DEF Init

LEMMA WalkStep == WalkInv /\ [Next]_vars => WalkInv'
<1> SUFFICES ASSUME WalkInv, [Next]_vars PROVE WalkInv'
  OBVIOUS
<1>1. CASE Ask
  BY <1>1, AskStep
<1>2. CASE AskNext
  BY <1>2, AskNextStep
<1>3. CASE FindMany
  BY <1>3, FindManyStep
<1>4. CASE Count
  BY <1>4, CountStep
<1>5. CASE Respond
  BY <1>5, RespondStep
<1>6. CASE Retry
  BY <1>6, RetryStep
<1>7. CASE Leave
  BY <1>7, LeaveStep
<1>8. CASE Create
  BY <1>8, CreateStep
<1>9. CASE Remove
  <2>1. PICK a \in DOMAIN rows : Delete({a})
    BY <1>9 DEF Remove
  <2> QED
    BY <2>1, DeleteStep
<1>10. CASE CleanUp
  <2>1. PICK n \in DOMAIN rows : Delete({a \in DOMAIN rows : a <= n})
    BY <1>10 DEF CleanUp
  <2> QED
    BY <2>1, DeleteStep
<1>11. CASE Update
  BY <1>11, UpdateStep
<1>12. CASE ToggleStar
  BY <1>12, ToggleStarStep
<1>13. CASE UNCHANGED vars
  <2>1. UNCHANGED <<kind, created, rows>> /\ walk' = walk
    BY <1>13 DEF vars
  <2>2. Matches' = Matches /\ \A a : Place(a)' = Place(a)
    BY <2>1, TableKept
  <2>3. /\ TypeOK => TypeOK'
        /\ Sane => Sane'
    BY <2>1 DEF TypeOK, Sane, Fetched
  <2>4. ShownIsBehind => ShownIsBehind'
    BY <2>1, <2>2 DEF ShownIsBehind, Fetched, PagesRead
  <2>5. BehindIsShown => BehindIsShown'
    BY <2>1, <2>2 DEF BehindIsShown, Fetched, PagesRead
  <2>6. CalmAgrees => CalmAgrees'
    BY <2>1, <2>2 DEF CalmAgrees, Held, Skip
  <2> QED
    BY <2>3, <2>4, <2>5, <2>6 DEF WalkInv
<1> QED
  BY <1>1, <1>2, <1>3, <1>4, <1>5, <1>6, <1>7, <1>8, <1>9, <1>10, <1>11, <1>12, <1>13 DEF Next

LEMMA WalkAlways == Spec => []WalkInv
  BY WalkInit, WalkStep, PTL DEF Spec

(* Every statement of the listings sees and leaves rows, pages and totals  *)
(* of their types; no page beyond the one that follows the last is asked.  *)
THEOREM TypeCorrect == Spec => []TypeOK
<1>1. WalkInv => TypeOK
  BY DEF WalkInv
<1> QED
  BY <1>1, WalkAlways, PTL

(* The pages that templates.service.ts:35-56, archives.service.ts:41-61 and*)
(* notes.service.ts:16-31 answer leave no row out that matched all the     *)
(* time, if none went from the midst of the list: neither new rows nor the *)
(* clean-ups that the listings start (archives.service.ts:36) hide one.    *)
THEOREM PagesMissNone == Spec => []PagesMissNothing
<1>1. WalkInv => PagesMissNothing
  BY DEF WalkInv, BehindIsShown, PagesMissNothing, Matches
<1> QED
  BY <1>1, WalkAlways, PTL

(* Those pages show no row twice, if none came in the midst of the list:   *)
(* rows that are removed or cleaned up while a client reads repeat none.   *)
THEOREM PagesRepeatNone == Spec => []PagesRepeatNothing
<1>1. WalkInv => PagesRepeatNothing
  BY DEF WalkInv, Sane, ShownIsBehind, PagesRepeatNothing
<1> QED
  BY <1>1, WalkAlways, PTL

(* The page and the total of one answer are two statements of a            *)
(* Promise.all (archives.service.ts:41-61), in either order; unless the    *)
(* table changes between them, they agree on how many rows the page has.   *)
THEOREM TotalAgrees == Spec => []TotalFitsPage
<1>1. WalkInv => TotalFitsPage
  BY DEF WalkInv, CalmAgrees, TotalFitsPage, Held
<1> QED
  BY <1>1, WalkAlways, PTL
=============================================================================
