---------------------------- MODULE NodeFairness ----------------------------
(***************************************************************************)
(* Fairness among the work nodes of one workgraph: how an admission of     *)
(* src/core/intent-scheduler.mjs selects one of the READY nodes and ages   *)
(* the others (admitIntentSchedulerQueue, selectNextAdmittedNode,          *)
(* advanceFairnessLedger).                                                 *)
(*                                                                         *)
(* A node is READY or not; every transition of any node makes another      *)
(* snapshot of the graph, with another fingerprint, numbered by `graph`.   *)
(* Which READY nodes the leases, occupancy and resources of the moment     *)
(* admit is the environment's choice.  What is leased afterwards is the    *)
(* Scheduler module's business.                                            *)
(***************************************************************************)
EXTENDS Integers, FiniteSets

CONSTANTS
  Nodes,            \* work node refs, numbered in their localeCompare order
  ClassOf,          \* the scheduling class of each
  MaxDeferrals,     \* fairnessPolicy.maxDeferrals
  MaxGeneration,    \* bound of the model on the scheduler generation
  MaxGraphs         \* bound of the model on the graph's snapshots

\* CLASS_ORDER
ClassRank == [INTERACTIVE |-> 0, EXPEDITE |-> 1, RECOVERY |-> 2,
              NORMAL |-> 3, BACKGROUND |-> 4]

ASSUME FairnessAssumption ==
  /\ Nodes \subseteq Nat
  /\ ClassOf \in [Nodes -> DOMAIN ClassRank]
  /\ MaxDeferrals \in Nat \ {0} /\ MaxGeneration \in Nat /\ MaxGraphs \in Nat \ {0}

VARIABLES
  generation,   \* the scheduler generation
  graph,        \* the graph snapshot
  ready,        \* its READY nodes with met dependencies
  aging,        \* fairnessLedger: node -> [readySince, deferral, graph]
  passed        \* observer: how often a node in line was passed over,
                \* [same: by this snapshot, all: by any]

vars == <<generation, graph, ready, aging, passed>>

Nobody == [same |-> 0, all |-> 0]

\* fairnessForNode: an entry counts for the snapshot it was written for.
Fairness(n, g) ==
  IF n \in DOMAIN aging /\ aging[n].graph = graph THEN aging[n]
  ELSE [readySince |-> g, deferral |-> 0, graph |-> graph]

\* No background work is a candidate while an interactive turn waits.
Candidates(A, waiting) == {n \in A : ~(ClassOf[n] = "BACKGROUND" /\ waiting)}

Interactive(A) == {n \in A : ClassOf[n] = "INTERACTIVE"}

\* Interactive candidates are served before all others.
Pool(A, waiting) ==
  LET C == Candidates(A, waiting)
  IN  IF Interactive(C) # {} THEN Interactive(C) ELSE C

Starved(P, g) ==
  {n \in P : Fairness(n, g).deferral >= MaxDeferrals
             \/ g - Fairness(n, g).readySince >= MaxDeferrals}

\* Defective variant: without the tie-break by workNodeRef.
OlderUntied(n, m, g) == Fairness(n, g).readySince < Fairness(m, g).readySince

Older(n, m, g) ==
  \/ Fairness(n, g).readySince < Fairness(m, g).readySince
  \/ Fairness(n, g).readySince = Fairness(m, g).readySince /\ n < m

HigherClass(n, m) == ClassRank[ClassOf[n]] < ClassRank[ClassOf[m]]
SameClass(n, m) == ClassRank[ClassOf[n]] = ClassRank[ClassOf[m]]

\* The two orders: by class, and among the starved by deferral and age first.
BeforeByClass(n, m, g) ==
  HigherClass(n, m) \/ (SameClass(n, m) /\ Older(n, m, g))

\* Defective variant: class goes before deferral among the starved.
BeforeStarvedByClass(n, m, g) == BeforeByClass(n, m, g)

BeforeStarved(n, m, g) ==
  LET f == Fairness(n, g)  h == Fairness(m, g)
  IN  \/ f.deferral > h.deferral
      \/ /\ f.deferral = h.deferral
         /\ \/ f.readySince < h.readySince
            \/ /\ f.readySince = h.readySince
               /\ HigherClass(n, m) \/ (SameClass(n, m) /\ n < m)

\* selectNextAdmittedNode: the nodes that come first, of the starved if any.
FirstOf(A, waiting, g) ==
  LET P == Pool(A, waiting)
      S == Starved(P, g)
  IN  IF S # {}
      THEN {n \in S : \A m \in S \ {n} : BeforeStarved(n, m, g)}
      ELSE {n \in P : \A m \in P \ {n} : BeforeByClass(n, m, g)}

\* advanceFairnessLedger: the ledger is the READY nodes of this admission.
Aged(A, chosen, g) ==
  [n \in ready |->
     [Fairness(n, g) EXCEPT !.deferral =
        IF n \in chosen THEN 0 ELSE IF n \in A THEN @ + 1 ELSE @]]

\* A node is in line while it is admitted; being passed over counts when it is
\* a candidate and nobody interactive is.
Passed(A, waiting, chosen) ==
  [n \in Nodes |->
     IF n \notin A \/ n \in chosen THEN Nobody
     ELSE IF n \in Pool(A, waiting) /\ ClassOf[n] # "INTERACTIVE"
     THEN [same |-> passed[n].same + 1, all |-> passed[n].all + 1]
     ELSE passed[n]]

-----------------------------------------------------------------------------
Init ==
  /\ generation = 0
  /\ graph = 1
  /\ ready \in SUBSET Nodes
  /\ aging = [n \in {} |-> 0]
  /\ passed = [n \in Nodes |-> Nobody]

\* Any admission, under a fresh generation: of the nodes A that are admitted
\* one is selected, or the queue is BLOCKED or IDLE.
Admit(g, A, waiting) ==
  LET chosen == FirstOf(A, waiting, g)
  IN  /\ g > generation
      /\ generation' = g
      /\ aging' = Aged(A, chosen, g)
      /\ passed' = Passed(A, waiting, chosen)
      /\ UNCHANGED <<graph, ready>>

\* recordIntentTransition: a node becomes READY or stops being so.
Transition(R) ==
  /\ graph < MaxGraphs
  /\ graph' = graph + 1
  /\ ready' = R
  /\ passed' = [n \in Nodes |-> IF n \in R THEN [same |-> 0, all |-> passed[n].all] ELSE Nobody]
  /\ UNCHANGED <<generation, aging>>

Next ==
  \/ \E g \in 1..MaxGeneration, A \in SUBSET ready, waiting \in BOOLEAN : Admit(g, A, waiting)
  \/ \E n \in ready : Transition(ready \ {n})
  \/ \E n \in Nodes \ ready : Transition(ready \cup {n})
  \/ Transition(ready)

Spec == Init /\ [][Next]_vars

-----------------------------------------------------------------------------
\* Type invariant.
TypeOK ==
  /\ generation \in 0..MaxGeneration
  /\ graph \in 1..MaxGraphs
  /\ ready \subseteq Nodes
  /\ DOMAIN aging \subseteq Nodes
  /\ aging \in [DOMAIN aging -> [readySince: 1..MaxGeneration, deferral: 0..MaxGeneration,
                                 graph: 1..MaxGraphs]]
  /\ passed \in [Nodes -> [same: Nat, all: Nat]]

\* Whatever is admitted, one node is selected unless there is no candidate: the
\* tie-breaks leave no two nodes level, starved or not.
OneSelection ==
  \A A \in SUBSET ready, waiting \in BOOLEAN :
    Cardinality(FirstOf(A, waiting, generation + 1)) =
      IF Candidates(A, waiting) = {} THEN 0 ELSE 1

\* How often a node in line can be passed over: until it is starved, and then
\* once by each other node but the one that was served last.
Patience == MaxDeferrals + Cardinality({n \in Nodes : ClassOf[n] # "INTERACTIVE"}) - 2

\* While the graph does not change, aging overcomes priority: a node in line is
\* passed over a bounded number of times, whatever else is admitted or not and
\* however often interactive turns come between.
AgingWins == \A n \in Nodes : passed[n].same <= Patience

\* The same when the graph changes as the selected work makes progress.
AgingWinsAcrossTransitions == \A n \in Nodes : passed[n].all <= Patience
=============================================================================
