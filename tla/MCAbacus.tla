------------------------------- MODULE MCAbacus -------------------------------
(* Abacus on small instances. *)
EXTENDS Abacus, TLC

CONSTANTS f1, f2, x1, alice, bob

OneTarget == [r \in Rules |-> x1]
Symmetric == Permutations(Files) \cup Permutations(Accounts)

\* The collection replicas take longer histories to disturb.
Bounds == [account |-> 4, collection |-> 6]

=============================================================================
