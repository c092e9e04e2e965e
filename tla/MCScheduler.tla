----------------------------- MODULE MCScheduler ----------------------------
(* Small instances of the scheduler's life cycle. *)
EXTENDS Scheduler

OneIntent == {1}
TwoIntents == 1..2
Interactive == {"INTERACTIVE"}
TwoClasses == {"INTERACTIVE", "NORMAL"}
PrincipalSymmetry == Permutations(Principals)
=============================================================================
