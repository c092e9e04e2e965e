----------------------------- MODULE MCDueLedger -----------------------------
(* Due intents on a small instance: one workgraph whose two assignments can  *)
(* each have a due.                                                          *)
EXTENDS DueLedger, TLC

CONSTANTS a1, a2, g1

OneGraph == (a1 :> g1) @@ (a2 :> g1)
AssignmentSymmetry == Permutations({a1, a2})
=============================================================================
