----------------------------- MODULE Transfers ------------------------------
(***************************************************************************)
(* What the conveyor promises to the rule engine about one destination: a  *)
(* wanted copy has a pending request, and the request ends once, with the  *)
(* file there, not there, or cancelled.                                    *)
(*                                                                         *)
(* Two actions say where the promise is weaker than one would like.  The   *)
(* outcome of an earlier request may be applied late, to a row that is by  *)
(* then wanted again or gone (Late), but only if there was an earlier      *)
(* request; and a request may be dropped without an outcome (Dropped).     *)
(***************************************************************************)
VARIABLES
  replica,  \* state of the replica row, or "ABSENT"
  pending,  \* there is a request for this destination
  past      \* an earlier request for this destination has ended

vars == <<replica, pending, past>>

Init == replica = "ABSENT" /\ pending = FALSE /\ past = FALSE

\* A rule wants the copy.
Want ==
  /\ replica \in {"ABSENT", "UNAVAILABLE"}
  /\ replica' = "COPYING"
  /\ pending' = TRUE
  /\ past' = past

\* The request ends.
Succeed == pending /\ replica' = "AVAILABLE" /\ pending' = FALSE /\ past' = TRUE
Fail ==
  /\ pending
  /\ replica' = IF replica = "ABSENT" THEN "ABSENT" ELSE "UNAVAILABLE"
  /\ pending' = FALSE
  /\ past' = TRUE

\* Another attempt takes the place of this one.
Retry == pending /\ pending' = TRUE /\ past' = TRUE /\ replica' = replica

\* No rule wants the copy any more.
Cancel ==
  /\ replica = "COPYING"
  /\ replica' = "UNAVAILABLE"
  /\ pending' = FALSE
  /\ past' = (past \/ pending)

\* The reaper deletes a row that nobody locks.
Reap ==
  /\ replica \in {"AVAILABLE", "UNAVAILABLE"}
  /\ replica' = "ABSENT"
  /\ UNCHANGED <<pending, past>>

Late ==
  /\ past
  /\ \/ replica' = "AVAILABLE"
     \/ replica # "ABSENT" /\ replica' = "UNAVAILABLE"
  /\ UNCHANGED <<pending, past>>

Dropped == pending /\ pending' = FALSE /\ past' = TRUE /\ replica' = replica

Next ==
  \/ Want \/ Succeed \/ Fail \/ Retry \/ Cancel \/ Reap
  \/ Late \/ Dropped

Spec == Init /\ [][Next]_vars
=============================================================================
