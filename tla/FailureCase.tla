----------------------------- MODULE FailureCase -----------------------------
(***************************************************************************)
(* What runtime recovery promises of the failures of one work node: they   *)
(* are handled one after the other, each in a cycle of its own.  An open   *)
(* cycle ends by being closed, by being held, or by the failure of its     *)
(* retry, which opens the next one; an ended cycle stays as it is, and a   *)
(* held one is the last.                                                   *)
(***************************************************************************)
EXTENDS Naturals, Sequences

VARIABLE fates   \* the fate of each cycle, in the order they opened

Newest == Len(fates)
Open == Newest > 0 /\ fates[Newest] = "open"

Init == fates = <<>>

\* A failure while nothing is being recovered.
Failed ==
  /\ Newest > 0 => fates[Newest] = "closed"
  /\ fates' = Append(fates, "open")

\* The retry of the open cycle fails.
FailedAgain ==
  /\ Open
  /\ fates' = Append([fates EXCEPT ![Newest] = "failed"], "open")

Ended ==
  /\ Open
  /\ \E fate \in {"closed", "held"} : fates' = [fates EXCEPT ![Newest] = fate]

Next == Failed \/ FailedAgain \/ Ended

Spec == Init /\ [][Next]_fates
=============================================================================
