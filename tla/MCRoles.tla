------------------------------ MODULE MCRoles -------------------------------
(***************************************************************************)
(* Model values and bounds for the runs of Roles.  The policy package      *)
(* defines the reserved role, which it must not touch, and one of the two  *)
(* others.  The account owns scope x, and DID y:n in the scope of another  *)
(* one; the patterns stand for x:*, *:* and y:m.                           *)
(***************************************************************************)
EXTENDS Roles, TLC

CONSTANTS admin, kept, loose, a1, other, x, y, m, n

OwnsOneScope == (x :> a1) @@ (y :> other)
OwnsOneDid == [d \in Scopes \X Names |-> IF d = <<y, n>> THEN a1 ELSE other]
SomePatterns ==
  {[scopes |-> {x}, names |-> Names, whole |-> TRUE],
   [scopes |-> {x, y}, names |-> Names, whole |-> TRUE],
   [scopes |-> {y}, names |-> {m}, whole |-> FALSE]}
=============================================================================
