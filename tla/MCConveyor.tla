---------------------------- MODULE MCConveyor ------------------------------
(***************************************************************************)
(* Model values and bounds for the runs of Conveyor.  The workers of one   *)
(* daemon are alike.                                                       *)
(***************************************************************************)
EXTENDS Conveyor, TLC

CONSTANTS p1, p2, s1, f1

WorkerSymmetry ==
  Permutations(Preparers) \cup Permutations(Submitters) \cup Permutations(Finishers)

\* Bounds on the environment: every kind of event once; or the copy wanted
\* three times, with a slow submitter.
EachOnce == [k \in EventKinds |-> 1]
WantedThrice == [k \in EventKinds |-> CASE k = "want" -> 3 [] k = "slow" -> 1 [] OTHER -> 0]
=============================================================================
