------------------------------- MODULE MCHermes -------------------------------
(* Hermes on small instances. *)
EXTENDS Hermes

\* Two workers on two hosts.
TwoWorkers == {1, 2}
TwoHosts == [w \in TwoWorkers |-> w]

\* Both rows fall to the same one of two workers.
SameShare == [i \in 1 .. 2 |-> 2 * i]

=============================================================================
