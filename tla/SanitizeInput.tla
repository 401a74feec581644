--------------------------- MODULE SanitizeInput ----------------------------
(***************************************************************************)
(* sanitize-input.util.ts.  The FORBIDDEN_PATTERNS are RegExp objects of   *)
(* the module with the flag g: test() starts at the pattern's lastIndex,   *)
(* leaves it behind the match it finds and sets it to 0 when it finds      *)
(* none; replace() replaces every match and sets it to 0.  So a check      *)
(* depends on the checks before it, whoever asked for them.                *)
(*                                                                         *)
(* A text is [sent, size, plain, matches]: its length, its length without  *)
(* the blanks around it, whether all its characters are allowed, and where *)
(* each pattern matches it, after the clean-up of blanks and control       *)
(* characters.  Matches of two patterns do not overlap, and replacing one  *)
(* does not move the other.                                                *)
(***************************************************************************)
EXTENDS Integers, FiniteSets

CONSTANTS Patterns,   \* the indices 1..n of FORBIDDEN_PATTERNS
          Positions   \* where in a text a pattern can match

ASSUME PatternsAssumption == Patterns \subseteq Nat \ {0} /\ Positions \subseteq Nat

MAX_CUSTOM_INPUT_LENGTH == 50

Text == [sent : Nat, size : Nat, plain : BOOLEAN, matches : [Patterns -> SUBSET Positions]]

Forbidden(text) == \E p \in Patterns : text.matches[p] # {}

(* What test() finds from lastIndex on, and where it leaves lastIndex.     *)
Found(text, p, from) == {i \in text.matches[p] : from <= i}

Behind(S) == IF S = {} THEN 0 ELSE 1 + (CHOOSE i \in S : \A j \in S : i <= j)

(* sanitizeCustomInput: the first pattern that finds something refuses the *)
(* input; the patterns after it are not asked.                             *)
Refuses(index, text, p) ==
  /\ Found(text, p, index[p]) # {}
  /\ \A q \in Patterns : q < p => Found(text, q, index[q]) = {}

(* One input, checked with the given lastIndex of every pattern: what the  *)
(* check leaves, and why it refuses.                                       *)
CheckCustomInput(index, text) ==
  IF text.size = 0 \/ text.size > MAX_CUSTOM_INPUT_LENGTH
  THEN [index |-> index, refusedBy |-> {}, ok |-> FALSE]
  ELSE LET by == {p \in Patterns : Refuses(index, text, p)}
       IN [index |-> [p \in Patterns |->
                        IF \E q \in by : q < p THEN index[p]
                        ELSE Behind(Found(text, p, index[p]))],
           refusedBy |-> by,
           ok |-> by = {} /\ text.plain]

Skipped(index) == [index |-> index, refusedBy |-> {}, ok |-> TRUE]

(* sanitizeCustomInputs passes over what is missing or blank.              *)
CheckOptional(index, given) ==
  IF \A text \in given : text.size = 0 THEN Skipped(index)
  ELSE CheckCustomInput(index, CHOOSE text \in given : TRUE)

(* Variant: a pattern is replaced without its lastIndex being reset.       *)
CheckDraftKeeping(index, text, maxLength) ==
  IF text.size > maxLength \/ text.size < 10
  THEN [index |-> index, missed |-> {}, ok |-> FALSE]
  ELSE [index  |-> [p \in Patterns |-> Behind(Found(text, p, index[p]))],
        missed |-> {p \in Patterns : text.matches[p] # {} /\ Found(text, p, index[p]) = {}},
        ok     |-> TRUE]

(* sanitizeDraft: a pattern that finds something is replaced everywhere,   *)
(* also where test() did not look; missed are the matches that stay.       *)
CheckDraft(index, text, maxLength) ==
  IF text.size > maxLength \/ text.size < 10
  THEN [index |-> index, missed |-> {}, ok |-> FALSE]
  ELSE [index  |-> [p \in Patterns |-> 0],
        missed |-> {p \in Patterns : text.matches[p] # {} /\ Found(text, p, index[p]) = {}},
        ok     |-> TRUE]
=============================================================================
