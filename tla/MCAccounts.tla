----------------------------- MODULE MCAccounts -----------------------------
(* Accounts on small sets.                                                 *)
EXTENDS Accounts, TLC

Symmetry == Permutations(Emails) \cup Permutations(Codes)
            \cup Permutations(Users) \cup Permutations(Handlers)

(* No step and no invariant of the safety run looks at createdAt or by of  *)
(* a row that is gone.                                                     *)
View == <<now, stored, [c \in stored |-> <<createdAt[c], by[c]>>],
          email, users, req, accepted>>
=============================================================================
