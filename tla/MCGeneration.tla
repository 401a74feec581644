---------------------------- MODULE MCGeneration ----------------------------
(* Generation on small sets: a subscription that ends with the first day,  *)
(* and one that has been cancelled.                                        *)
EXTENDS Generation, TLC

MCPlans == {[status |-> "active", startAt |-> 1, endAt |-> 2],
            [status |-> "canceled", startAt |-> 0, endAt |-> 9]}

Symmetry == Permutations(Users) \cup Permutations(Handlers)
=============================================================================
