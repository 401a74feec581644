----------------------------- MODULE MCSessions -----------------------------
(* Sessions on small sets.                                                 *)
EXTENDS Sessions, TLC

Symmetry == Permutations(Jti) \cup Permutations(Handlers) \cup Permutations(Users)
=============================================================================
