------------------------------ MODULE MCTopology ------------------------------
(* Topology on small instances: five RSEs and a file that is on some of them. *)
EXTENDS Topology

CONSTANTS a, b, c, h, d   \* sources, a hop, and the destination

Expressions == [hop |-> {h}, sites |-> {b, h}]

\* d is not reached by davs from a; b can only be read by it.
Schemes ==
  LET p(s, r, w) == [scheme |-> s, read |-> r, write |-> w]
  IN [r \in Rses |-> CASE r = a -> {p("root", 1, 1)}
                       [] r = b -> {p("davs", 1, 1), p("root", 2, 2)}
                       [] OTHER -> {p("davs", 1, 1), p("root", 2, 2), p("gsiftp", NoUse, 3)}]
Families == [root |-> "root", davs |-> "davs", https |-> "davs", gsiftp |-> "gsiftp"]
Penalties == [r \in Rses |-> IF r = h THEN 2 ELSE 1]

Request == [dst |-> d, sources |-> {a, b}, allowed |-> Rses, tape |-> TRUE, limit |-> {}]
AllRequests == {[Request EXCEPT !.sources = {a, b, c, h}],
                [Request EXCEPT !.tape = FALSE, !.limit = {"davs"}],
                [Request EXCEPT !.tape = FALSE, !.sources = {a}]}

\* All graphs of the links that may serve the request, and two that change
\* while two threads search.
Links == {<<a, b>>, <<b, a>>, <<a, h>>, <<b, h>>, <<a, d>>, <<b, d>>, <<h, d>>}
Graph(f) == [p \in Pairs |-> IF p \in DOMAIN f THEN f[p] ELSE NoDistance]
Static == {[db |-> Graph(f), changes |-> 0, others |-> 0, searches |-> 1] : f \in [Links -> Distances \cup {NoDistance}]}
Changing == {[db |-> Graph(f), changes |-> 2, others |-> 2, searches |-> 2] :
               f \in {[p \in {<<a, h>>, <<h, d>>, <<b, d>>} |-> 1], [p \in {<<a, d>>, <<a, b>>} |-> 3]}}
\* Four sources beside the destination.
Star == {[db |-> Graph(f), changes |-> 0, others |-> 0, searches |-> 1] : f \in [{a, b, c, h} \X {d} -> 1 .. 3]}
TwoPairs == {<<h, d>>, <<a, d>>}
AllStarts == Static \cup Changing \cup Star

=============================================================================
