---------------------------- MODULE MCTemplates -----------------------------
(* Templates on small sets.                                                *)
EXTENDS Templates, TLC

Symmetry == Permutations(TemplateIds) \cup Permutations(Handlers)
            \cup Permutations(Users) \cup Permutations(Archives)
=============================================================================
