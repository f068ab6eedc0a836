----------------------------- MODULE MCNamespace -----------------------------
(* Namespace on small instances. *)
EXTENDS Namespace

CONSTANTS c1, c2, d1, f1, u1, u2

\* A dataset in a container in a container.
Chain == {{<<c1, c2>>, <<c2, d1>>}}

=============================================================================
