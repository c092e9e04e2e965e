---- MODULE MCConcernWatch ----
(* A plain source and one with a grave unknown, which cross the threshold  *)
(* only together, one that crosses it alone, and a model that claims as    *)
(* much.                                                                   *)
EXTENDS ConcernWatch, TLC

CONSTANTS o1, o2, plain, doubt, alarm, guess, d1

Plain == [model |-> FALSE, certainty |-> 2, impact |-> 2, reversibility |-> 0,
          critical |-> FALSE, deadline |-> 0, change |-> 0, pressure |-> 0,
          incident |-> 0, waiting |-> 2, falseAlarm |-> 1, unknown |-> FALSE, human |-> FALSE]
Doubt == [Plain EXCEPT !.impact = 3, !.unknown = TRUE]
Alarm == [Plain EXCEPT !.certainty = 3, !.impact = 4, !.reversibility = 3,
                       !.critical = TRUE, !.incident = 2]
Guess == [Alarm EXCEPT !.model = TRUE, !.human = TRUE]

MCGrade == (plain :> Plain) @@ (doubt :> Doubt) @@ (alarm :> Alarm)
           @@ (guess :> Guess)

\* The operators are interchangeable.
Symmetry == Permutations({o1, o2})
====
