---------------------------- MODULE MCEmailEntry ----------------------------
(* EmailEntry with two patterns and a few bodies: drafts with one match,   *)
(* custom inputs that match both patterns, that match late, or that hold   *)
(* characters that are not allowed, a draft too long for a guest, a blank  *)
(* input, and a body that the DTO refuses.                                 *)
EXTENDS EmailEntry, TLC

MCText(size, plain, first, second) ==
  [sent |-> size, size |-> size, plain |-> plain,
   matches |-> [p \in Patterns |-> IF p = 1 THEN first ELSE second]]

MCBlank == [MCText(0, TRUE, {}, {}) EXCEPT !.sent = 1]

MCBody(draft, relationship, tone, length) ==
  [draft |-> draft, relationship |-> relationship, purpose |-> {},
   tone |-> tone, length |-> length]

MCBodies ==
  {MCBody(MCText(100, TRUE, {0}, {}), {MCBlank}, {}, {}),
   MCBody(MCText(100, TRUE, {}, {}), {}, {MCText(20, TRUE, {0}, {0})}, {"short"}),
   MCBody(MCText(400, TRUE, {}, {0}), {MCText(20, TRUE, {}, {1})}, {}, {"long"}),
   MCBody(MCText(200, TRUE, {}, {}), {MCText(3, FALSE, {}, {})}, {}, {}),
   MCBody(MCText(9, TRUE, {}, {}), {}, {}, {})}

Symmetry == Permutations(Users) \cup Permutations(Handlers) \cup Permutations(Ips)
=============================================================================
