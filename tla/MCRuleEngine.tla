---------------------------- MODULE MCRuleEngine ----------------------------
(***************************************************************************)
(* Small instances of RuleEngine.  Every file is uploaded to x1.  With     *)
(* MCGrouping rule r1 draws its RSEs file by file and the others dataset   *)
(* by dataset; with MCByDataset all rules are alike, and the runs that     *)
(* check invariants and properties of single steps may take them as        *)
(* symmetric.  Edits, Bads, Temps and Updates bound the events of the      *)
(* environment.                                                            *)
(***************************************************************************)
EXTENDS RuleEngine, TLC

CONSTANTS r1, r2, f1, f2, x1, x2, Edits, Bads, Temps, Updates

MCOrigin == [f \in Files |-> x1]
MCGrouping == [r \in Rules |-> IF r = r1 THEN "NONE" ELSE "DATASET"]
MCByDataset == [r \in Rules |-> "DATASET"]
MCMaxEvents == {[bad |-> Bads, temporary |-> Temps, edit |-> Edits, update |-> Updates]}
\* Any two events of different kinds.
TwoKinds == {b \in [EventKinds -> 0 .. 1] : Cardinality({k \in EventKinds : b[k] = 1}) = 2}
RuleSymmetry == Permutations(Rules)
=============================================================================
