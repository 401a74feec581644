------------------------------ MODULE MCNotes -------------------------------
(* Notes on small sets.                                                    *)
EXTENDS Notes, TLC

Symmetry == Permutations(Users) \cup Permutations(NoteIds) \cup Permutations(Handlers)
=============================================================================
