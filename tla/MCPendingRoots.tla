--------------------------- MODULE MCPendingRoots ---------------------------
(* The pending-root queue with four intents and four principals, one more    *)
(* than the queue admits at a time, and two classes.                         *)
EXTENDS PendingRoots, TLC

MCIntents == 1..4
MCClasses == {"INTERACTIVE", "NORMAL"}
MCSymmetry == Permutations(Principals)
=============================================================================
