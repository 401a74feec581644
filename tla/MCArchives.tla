----------------------------- MODULE MCArchives -----------------------------
(* Archives on small sets.                                                 *)
EXTENDS Archives, TLC

MCretentionDays == [free |-> 0, premium |-> 1]
MCmaxCount      == [free |-> 1, premium |-> 2]

Symmetry == Permutations(Users) \cup Permutations(Handlers)
=============================================================================
