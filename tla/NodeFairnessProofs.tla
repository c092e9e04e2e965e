-------------------------- MODULE NodeFairnessProofs --------------------------
(***************************************************************************)
(* The selection of one work node, for every set of nodes, every patience, *)
(* every number of admissions and transitions: whatever the leases and     *)
(* resources of the moment admit, one node comes first, and a node that    *)
(* stays admitted is passed over a bounded number of times.                *)
(***************************************************************************)
EXTENDS NodeFairness, FiniteSetTheorems, WellFoundedInduction, TLAPS

Entry == [readySince: Nat, deferral: Nat, graph: Nat]

\* The part of the type invariant that the orders need, and why the deferrals
\* are bounded: each admission takes a new generation and adds one at most.
FairInv ==
  /\ generation \in Nat /\ graph \in Nat
  /\ ready \subseteq Nodes
  /\ aging \in [DOMAIN aging -> Entry]
  /\ \A n \in DOMAIN aging : aging[n].deferral <= generation

-----------------------------------------------------------------------------
(* Minima.                                                                 *)

\* A natural number of each element of a set has a least one.
LEMMA LeastExists ==
  ASSUME NEW X, X # {}, NEW f \in [X -> Nat]
  PROVE  \E x \in X : \A y \in X : f[x] <= f[y]
<1> DEFINE S == {f[x] : x \in X}
<1>1. S \in SUBSET Nat /\ S # {}
  OBVIOUS
<1>2. PICK s \in S : \A t \in S : ~(<<t, s>> \in OpToRel(<, Nat))
  BY <1>1, NatLessThanWellFounded, WFMin
<1>3. \A t \in S : ~(t < s)
  BY <1>1, <1>2, Zenon DEF OpToRel
<1>4. PICK x \in X : f[x] = s
  BY <1>2
<1>5. \A y \in X : f[x] <= f[y]
  BY <1>3, <1>4
<1>6. QED
  BY <1>5

\* The elements with the least number.
Lowest(X, f) == {x \in X : \A y \in X : f[x] <= f[y]}

\* The lowest elements are level, and below all the others.
LEMMA LowestOf ==
  ASSUME NEW X, X # {}, NEW f \in [X -> Nat]
  PROVE  /\ Lowest(X, f) \subseteq X
         /\ Lowest(X, f) # {}
         /\ \A x \in Lowest(X, f), y \in X : f[x] <= f[y]
         /\ \A x \in Lowest(X, f), y \in X \ Lowest(X, f) : f[x] < f[y]
         /\ \A x, y \in Lowest(X, f) : f[x] = f[y]
<1>1. Lowest(X, f) # {}
  BY LeastExists DEF Lowest
<1>2. ASSUME NEW x \in Lowest(X, f), NEW y \in X \ Lowest(X, f)
      PROVE  f[x] < f[y]
  <2>1. PICK z \in X : ~(f[y] <= f[z])
    BY DEF Lowest
  <2>2. f[x] <= f[z] /\ f[x] \in Nat /\ f[y] \in Nat /\ f[z] \in Nat
    BY DEF Lowest
  <2>3. QED
    BY <2>1, <2>2
<1>3. ASSUME NEW x \in Lowest(X, f), NEW y \in Lowest(X, f)
      PROVE  f[x] = f[y]
  <2>1. f[x] <= f[y] /\ f[y] <= f[x] /\ f[x] \in Nat /\ f[y] \in Nat
    BY DEF Lowest
  <2>2. QED
    BY <2>1
<1>4. QED
  BY <1>1, <1>2, <1>3 DEF Lowest

-----------------------------------------------------------------------------
(* The keys of the orders.                                                 *)

\* Classes have ranks, and nodes are numbers.
LEMMA RankIsNatural == \A n \in Nodes : n \in Nat /\ ClassRank[ClassOf[n]] \in Nat
BY FairnessAssumption DEF ClassRank

\* The fairness of a node at an admission.
LEMMA FairnessTyped ==
  ASSUME FairInv, NEW g \in Nat, NEW n
  PROVE  Fairness(n, g) \in Entry /\ Fairness(n, g).deferral <= generation
BY DEF FairInv, Fairness, Entry

\* By class, then by age, then by number: one node is before all the others.
LEMMA FirstByClass ==
  ASSUME FairInv, NEW g \in Nat, NEW S \in SUBSET Nodes, S # {}
  PROVE  \E x \in S : {n \in S : \A m \in S \ {n} : BeforeByClass(n, m, g)} = {x}
<1> DEFINE rank == [n \in S |-> ClassRank[ClassOf[n]]]
           since == [n \in S |-> Fairness(n, g).readySince]
           A == Lowest(S, rank)
           sinceA == [n \in A |-> since[n]]
           B == Lowest(A, sinceA)
           id == [n \in B |-> n]
<1>1. /\ rank \in [S -> Nat] /\ since \in [S -> Nat]
      /\ \A n \in S : n \in Nat
  BY RankIsNatural, FairnessTyped DEF Entry
<1>a. \A n, m \in S : /\ HigherClass(n, m) <=> rank[n] < rank[m]
                      /\ SameClass(n, m) <=> rank[n] = rank[m]
                      /\ Older(n, m, g) <=> \/ since[n] < since[m]
                                            \/ since[n] = since[m] /\ n < m
  BY DEF HigherClass, SameClass, Older
<1> HIDE DEF rank, since
<1>2. /\ A \subseteq S /\ A # {}
      /\ \A x \in A, y \in S \ A : rank[x] < rank[y]
      /\ \A x, y \in A : rank[x] = rank[y]
  BY <1>1, LowestOf
<1> HIDE DEF A
<1>3. sinceA \in [A -> Nat]
  BY <1>1, <1>2
<1>4. /\ B \subseteq A /\ B # {}
      /\ \A x \in B, y \in A \ B : since[x] < since[y]
      /\ \A x, y \in B : since[x] = since[y]
  <2>1. /\ B \subseteq A /\ B # {}
        /\ \A x \in B, y \in A \ B : sinceA[x] < sinceA[y]
        /\ \A x, y \in B : sinceA[x] = sinceA[y]
    BY <1>2, <1>3, LowestOf
  <2>2. QED
    BY <2>1
<1> HIDE DEF B
<1>5. id \in [B -> Nat]
  BY <1>1, <1>2, <1>4
<1>6. PICK x \in B : \A y \in B : id[x] <= id[y]
  BY <1>4, <1>5, LeastExists
<1>7. \A y \in B : x <= y
  BY <1>6
<1>8. x \in S /\ \A y \in S : y \in Nat /\ rank[y] \in Nat /\ since[y] \in Nat
  BY <1>1, <1>2, <1>4
<1>9. ASSUME NEW y \in S \ {x}
      PROVE  BeforeByClass(x, y, g) /\ ~BeforeByClass(y, x, g)
  <2>1. CASE y \notin A
    BY <1>2, <1>4, <1>8, <1>a, <2>1 DEF BeforeByClass
  <2>2. CASE y \in A /\ y \notin B
    BY <1>2, <1>4, <1>8, <1>a, <2>2 DEF BeforeByClass
  <2>3. CASE y \in B
    <3>1. rank[x] = rank[y] /\ since[x] = since[y] /\ x < y
      BY <1>2, <1>4, <1>7, <1>8, <2>3
    <3>2. QED
      BY <1>8, <1>a, <3>1 DEF BeforeByClass
  <2>4. QED
    BY <2>1, <2>2, <2>3
<1>10. QED
  BY <1>8, <1>9

\* By deferral, then by age, then by class, then by number: the same.
LEMMA FirstStarved ==
  ASSUME FairInv, NEW g \in Nat, NEW S \in SUBSET Nodes, S # {}
  PROVE  \E x \in S : {n \in S : \A m \in S \ {n} : BeforeStarved(n, m, g)} = {x}
<1> DEFINE def == [n \in S |-> Fairness(n, g).deferral]
           since == [n \in S |-> Fairness(n, g).readySince]
           patience == [n \in S |-> generation - def[n]]
           D == Lowest(S, patience)
           sinceD == [n \in D |-> since[n]]
           B == Lowest(D, sinceD)
<1>1. /\ def \in [S -> Nat] /\ since \in [S -> Nat]
      /\ \A n \in S : def[n] <= generation
      /\ generation \in Nat
  BY FairnessTyped DEF Entry, FairInv
<1>a. \A n, m \in S :
        BeforeStarved(n, m, g) <=>
          \/ def[n] > def[m]
          \/ /\ def[n] = def[m]
             /\ \/ since[n] < since[m]
                \/ /\ since[n] = since[m]
                   /\ HigherClass(n, m) \/ (SameClass(n, m) /\ n < m)
  BY DEF BeforeStarved
<1> HIDE DEF def, since
<1>2. patience \in [S -> Nat] /\ \A n \in S : patience[n] = generation - def[n]
  BY <1>1
<1> HIDE DEF patience
<1>3. /\ D \subseteq S /\ D # {}
      /\ \A x \in D, y \in S \ D : def[x] > def[y]
      /\ \A x, y \in D : def[x] = def[y]
  <2>1. /\ D \subseteq S /\ D # {}
        /\ \A x \in D, y \in S \ D : patience[x] < patience[y]
        /\ \A x, y \in D : patience[x] = patience[y]
    BY <1>2, LowestOf
  <2>2. QED
    BY <1>1, <1>2, <2>1
<1> HIDE DEF D
<1>4. sinceD \in [D -> Nat]
  BY <1>1, <1>3
<1>5. /\ B \subseteq D /\ B # {}
      /\ \A x \in B, y \in D \ B : since[x] < since[y]
      /\ \A x, y \in B : since[x] = since[y]
  <2>1. /\ B \subseteq D /\ B # {}
        /\ \A x \in B, y \in D \ B : sinceD[x] < sinceD[y]
        /\ \A x, y \in B : sinceD[x] = sinceD[y]
    BY <1>3, <1>4, LowestOf
  <2>2. QED
    BY <2>1
<1> HIDE DEF B
<1> DEFINE rank == [n \in B |-> ClassRank[ClassOf[n]]]
           C == Lowest(B, rank)
           id == [n \in C |-> n]
<1>6. rank \in [B -> Nat] /\ \A n \in B : rank[n] = ClassRank[ClassOf[n]]
  BY <1>3, <1>5, RankIsNatural
<1> HIDE DEF rank
<1>7. /\ C \subseteq B /\ C # {}
      /\ \A x \in C, y \in B \ C : rank[x] < rank[y]
      /\ \A x, y \in C : rank[x] = rank[y]
  BY <1>5, <1>6, LowestOf
<1> HIDE DEF C
<1>8. id \in [C -> Nat]
  BY <1>3, <1>5, <1>7, RankIsNatural
<1>9. PICK x \in C : \A y \in C : id[x] <= id[y]
  BY <1>7, <1>8, LeastExists
<1>10. \A y \in C : x <= y
  BY <1>9
<1>11. /\ x \in S /\ x \in D /\ x \in B
       /\ \A y \in S : y \in Nat /\ def[y] \in Nat /\ since[y] \in Nat
       /\ \A y \in B : rank[y] \in Nat
  BY <1>1, <1>3, <1>5, <1>6, <1>7, RankIsNatural
<1>12. ASSUME NEW y \in S \ {x}
       PROVE  BeforeStarved(x, y, g) /\ ~BeforeStarved(y, x, g)
  <2>1. CASE y \notin D
    BY <1>3, <1>11, <1>a, <2>1
  <2>2. CASE y \in D /\ y \notin B
    BY <1>3, <1>5, <1>11, <1>a, <2>2
  <2>3. CASE y \in B
    <3>1. def[x] = def[y] /\ since[x] = since[y]
      BY <1>3, <1>5, <1>11, <2>3
    <3>2. rank[x] < rank[y] \/ (rank[x] = rank[y] /\ x < y)
      BY <1>7, <1>10, <1>11, <2>3
    <3>3. /\ HigherClass(x, y) <=> rank[x] < rank[y]
          /\ HigherClass(y, x) <=> rank[y] < rank[x]
          /\ SameClass(x, y) <=> rank[x] = rank[y]
          /\ SameClass(y, x) <=> rank[y] = rank[x]
      BY <1>6, <1>11, <2>3 DEF HigherClass, SameClass
    <3>4. QED
      BY <1>11, <1>a, <2>3, <3>1, <3>2, <3>3
  <2>4. QED
    BY <2>1, <2>2, <2>3
<1>13. QED
  BY <1>11, <1>12

-----------------------------------------------------------------------------
(* The invariant.                                                          *)

\* Nothing has aged at first.
LEMMA InitFair == Init => FairInv
<1> SUFFICES ASSUME Init PROVE FairInv
  OBVIOUS
<1>1. DOMAIN aging = {} /\ aging = [n \in {} |-> 0]
  BY DEF Init
<1>2. aging \in [DOMAIN aging -> Entry]
  BY <1>1
<1>3. QED
  BY <1>1, <1>2 DEF Init, FairInv

\* An admission ages every node by one at most, under a larger generation.
LEMMA AdmitFair ==
  ASSUME FairInv, NEW g \in Nat, NEW A, NEW waiting, Admit(g, A, waiting)
  PROVE  FairInv'
<1> DEFINE chosen == FirstOf(A, waiting, g)
<1>1. /\ g > generation /\ generation' = g /\ aging' = Aged(A, chosen, g)
      /\ graph' = graph /\ ready' = ready /\ generation \in Nat
  BY DEF Admit, FairInv
<1> HIDE DEF chosen
<1>2. ASSUME NEW n \in ready
      PROVE  /\ Aged(A, chosen, g)[n] \in Entry
             /\ Aged(A, chosen, g)[n].deferral <= g
  <2>1. Fairness(n, g) \in Entry /\ Fairness(n, g).deferral <= generation
    BY FairnessTyped
  <2>2. QED
    BY <1>1, <2>1 DEF Aged, Entry
<1>3. DOMAIN aging' = ready
  BY <1>1 DEF Aged
<1>4. aging' \in [DOMAIN aging' -> Entry]
  BY <1>1, <1>2, <1>3 DEF Aged
<1>5. QED
  BY <1>1, <1>2, <1>3, <1>4 DEF FairInv

\* A transition of the graph leaves the ledger.
LEMMA TransitionFair ==
  ASSUME FairInv, NEW R \in SUBSET Nodes, Transition(R)
  PROVE  FairInv'
BY DEF FairInv, Transition

\* The invariant is inductive.
LEMMA StepFair == FairInv /\ [Next]_vars => FairInv'
<1> SUFFICES ASSUME FairInv, [Next]_vars PROVE FairInv'
  OBVIOUS
<1>1. CASE \E g \in 1..MaxGeneration, A \in SUBSET ready, waiting \in BOOLEAN : Admit(g, A, waiting)
  <2>1. PICK g \in 1..MaxGeneration, A \in SUBSET ready, waiting \in BOOLEAN : Admit(g, A, waiting)
    BY <1>1
  <2>2. g \in Nat
    BY FairnessAssumption
  <2>3. QED
    BY <2>1, <2>2, AdmitFair
<1>2. CASE \E R \in SUBSET Nodes : Transition(R)
  BY <1>2, TransitionFair
<1>3. CASE UNCHANGED vars
  BY <1>3 DEF vars, FairInv
<1>4. QED
  BY <1>1, <1>2, <1>3 DEF Next, FairInv

-----------------------------------------------------------------------------
(* The selection.                                                          *)

\* selectNextAdmittedNode leaves no two admitted nodes level: whatever is
\* admitted, one is selected unless there is no candidate at all, starved or not.
THEOREM OneNodeIsSelected == Spec => []OneSelection
<1>1. ASSUME FairInv PROVE OneSelection
  <2> SUFFICES ASSUME NEW A \in SUBSET ready, NEW waiting \in BOOLEAN
               PROVE  Cardinality(FirstOf(A, waiting, generation + 1)) =
                        IF Candidates(A, waiting) = {} THEN 0 ELSE 1
    BY DEF OneSelection
  <2> DEFINE g == generation + 1
             P == Pool(A, waiting)
             S == Starved(P, g)
  <2>1. g \in Nat /\ P \in SUBSET Nodes /\ S \in SUBSET P
    BY <1>1 DEF FairInv, Pool, Candidates, Interactive, Starved
  <2>2. P = {} <=> Candidates(A, waiting) = {}
    BY DEF Pool, Interactive
  <2>3. FirstOf(A, waiting, g) =
          IF S # {} THEN {n \in S : \A m \in S \ {n} : BeforeStarved(n, m, g)}
          ELSE {n \in P : \A m \in P \ {n} : BeforeByClass(n, m, g)}
    BY DEF FirstOf
  <2> HIDE DEF P, S, g
  <2>4. CASE P = {}
    <3>1. FirstOf(A, waiting, g) = {}
      BY <2>1, <2>3, <2>4
    <3>2. QED
      BY <2>2, <2>4, <3>1, FS_EmptySet DEF g
  <2>5. CASE P # {}
    <3>1. \E x : FirstOf(A, waiting, g) = {x}
      <4>1. CASE S # {}
        <5>1. S \in SUBSET Nodes
          BY <2>1
        <5>2. \E x \in S : {n \in S : \A m \in S \ {n} : BeforeStarved(n, m, g)} = {x}
          BY <1>1, <2>1, <4>1, <5>1, FirstStarved
        <5>3. QED
          BY <2>3, <4>1, <5>2
      <4>2. CASE S = {}
        <5>1. \E x \in P : {n \in P : \A m \in P \ {n} : BeforeByClass(n, m, g)} = {x}
          BY <1>1, <2>1, <2>5, FirstByClass
        <5>2. QED
          BY <2>3, <4>2, <5>1
      <4>3. QED
        BY <4>1, <4>2
    <3>2. QED
      BY <2>2, <2>5, <3>1, FS_Singleton DEF g
  <2>6. QED
    BY <2>4, <2>5
<1>2. QED
  BY <1>1, InitFair, StepFair, PTL DEF Spec

-----------------------------------------------------------------------------
(* Aging.                                                                  *)

NonInteractive == {n \in Nodes : ClassOf[n] # "INTERACTIVE"}

\* The deferrals of a node, at whatever generation it is looked at.
Deferrals(n) == Fairness(n, 0).deferral

\* The generation an entry is looked at only matters to its age.
LEMMA DeferralsTyped ==
  ASSUME FairInv, NEW n, NEW g \in Nat
  PROVE  Deferrals(n) \in Nat /\ Fairness(n, g).deferral = Deferrals(n)
<1>1. Fairness(n, 0) \in Entry
  BY FairnessTyped
<1>2. Fairness(n, g).deferral = Fairness(n, 0).deferral
  BY DEF Fairness
<1>3. QED
  BY <1>1, <1>2 DEF Deferrals, Entry

\* The nodes behind n.  Whoever is served while n is in line falls behind it and
\* cannot catch up: n gains a deferral with every admission, and they gain one
\* at most.
Behind(n) == {m \in NonInteractive : Deferrals(m) < Deferrals(n)}

\* A node that was passed over has as many deferrals, and once it is starved each
\* further node that is served before it was not behind it until then.
LineInv ==
  /\ passed \in [Nodes -> [same: Nat, all: Nat]]
  /\ \A n \in Nodes :
       passed[n].same > 0 =>
         /\ n \in NonInteractive
         /\ passed[n].same <= Deferrals(n)
         /\ Behind(n) # {}
         /\ passed[n].same <= MaxDeferrals - 1 + Cardinality(Behind(n))

\* The selected node is a candidate, there is one whenever the pool is not
\* empty, and no node it is chosen over is starved with more deferrals.
LEMMA FirstExists ==
  ASSUME FairInv, NEW A \in SUBSET ready, NEW waiting, NEW g \in Nat,
         NEW n \in Pool(A, waiting), n \notin FirstOf(A, waiting, g)
  PROVE  \E c \in FirstOf(A, waiting, g) :
           /\ c \in Pool(A, waiting)
           /\ Deferrals(n) >= MaxDeferrals => Deferrals(c) >= Deferrals(n)
<1> DEFINE P == Pool(A, waiting)
           S == Starved(P, g)
<1>1. P \in SUBSET Nodes /\ S \in SUBSET P /\ S \in SUBSET Nodes /\ P # {}
  BY DEF FairInv, Pool, Candidates, Interactive, Starved
<1>2. FirstOf(A, waiting, g) =
        IF S # {} THEN {m \in S : \A k \in S \ {m} : BeforeStarved(m, k, g)}
        ELSE {m \in P : \A k \in P \ {m} : BeforeByClass(m, k, g)}
  BY DEF FirstOf
<1>3. Deferrals(n) >= MaxDeferrals => n \in S
  BY DeferralsTyped DEF Starved
<1> HIDE DEF P, S
<1>4. CASE S # {}
  <2>1. PICK c \in S : {m \in S : \A k \in S \ {m} : BeforeStarved(m, k, g)} = {c}
    BY <1>1, <1>4, FirstStarved
  <2>2. FirstOf(A, waiting, g) = {c}
    BY <1>2, <1>4, <2>1
  <2>3. n \in S => BeforeStarved(c, n, g)
    BY <2>1, <2>2
  <2>4. n \in S => Deferrals(c) >= Deferrals(n)
    <3>1. /\ Fairness(c, g).deferral = Deferrals(c) /\ Deferrals(c) \in Nat
          /\ Fairness(n, g).deferral = Deferrals(n) /\ Deferrals(n) \in Nat
      BY DeferralsTyped
    <3>2. QED
      BY <2>3, <3>1 DEF BeforeStarved
  <2>5. QED
    BY <1>1, <1>3, <2>2, <2>4 DEF P
<1>5. CASE S = {}
  <2>1. PICK c \in P : {m \in P : \A k \in P \ {m} : BeforeByClass(m, k, g)} = {c}
    BY <1>1, FirstByClass
  <2>2. QED
    BY <1>2, <1>3, <1>5, <2>1 DEF P
<1>6. QED
  BY <1>4, <1>5

\* What an admission does to the deferrals.
LEMMA AdmitDeferrals ==
  ASSUME FairInv, NEW A \in SUBSET ready, NEW waiting, NEW g \in Nat, Admit(g, A, waiting)
  PROVE  /\ \A m \in Nodes : Deferrals(m)' \in Nat /\ Deferrals(m)' <= Deferrals(m) + 1
         /\ \A m \in FirstOf(A, waiting, g) : Deferrals(m)' = 0
         /\ \A m \in A \ FirstOf(A, waiting, g) : Deferrals(m)' = Deferrals(m) + 1
<1> DEFINE chosen == FirstOf(A, waiting, g)
<1>1. aging' = Aged(A, chosen, g) /\ graph' = graph
  BY DEF Admit
<1>2. chosen \subseteq A
  BY DEF FirstOf, Starved, Pool, Candidates, Interactive
<1> HIDE DEF chosen
<1>3. \A m : /\ Fairness(m, g) \in Entry /\ Fairness(m, g).graph = graph
            /\ Fairness(m, g).deferral = Deferrals(m) /\ Deferrals(m) \in Nat
  BY FairnessTyped, DeferralsTyped DEF Fairness
<1>4. ASSUME NEW m \in ready
      PROVE  Deferrals(m)' = IF m \in chosen THEN 0
                             ELSE IF m \in A THEN Deferrals(m) + 1 ELSE Deferrals(m)
  <2>1. m \in DOMAIN aging' /\ aging'[m] =
          [Fairness(m, g) EXCEPT !.deferral =
             IF m \in chosen THEN 0 ELSE IF m \in A THEN @ + 1 ELSE @]
    BY <1>1, <1>4 DEF Aged
  <2>2. aging'[m].graph = graph' /\
        aging'[m].deferral = IF m \in chosen THEN 0
                             ELSE IF m \in A THEN Deferrals(m) + 1 ELSE Deferrals(m)
    BY <1>1, <1>3, <2>1 DEF Entry
  <2>3. QED
    BY <2>1, <2>2 DEF Deferrals, Fairness
<1>5. ASSUME NEW m \in Nodes \ ready PROVE Deferrals(m)' = 0
  BY <1>1, <1>5 DEF Deferrals, Fairness, Aged
<1>6. QED
  BY <1>2, <1>3, <1>4, <1>5 DEF chosen

\* Whoever is behind a node in line stays behind it, and the one that is served
\* before it falls behind.
LEMMA BehindGrows ==
  ASSUME FairInv, NEW A \in SUBSET ready, NEW waiting, NEW g \in Nat, Admit(g, A, waiting),
         NEW n \in A, n \notin FirstOf(A, waiting, g)
  PROVE  /\ Behind(n) \subseteq Behind(n)'
         /\ \A c \in FirstOf(A, waiting, g) : c \in NonInteractive => c \in Behind(n)'
<1>1. Deferrals(n)' = Deferrals(n) + 1 /\ Deferrals(n) \in Nat
  BY AdmitDeferrals, DeferralsTyped
<1>2. \A m \in NonInteractive : /\ Deferrals(m) \in Nat /\ Deferrals(m)' \in Nat
                                /\ Deferrals(m)' <= Deferrals(m) + 1
  BY AdmitDeferrals, DeferralsTyped DEF NonInteractive
<1>3. \A c \in FirstOf(A, waiting, g) : Deferrals(c)' = 0
  BY AdmitDeferrals
<1>4. NonInteractive' = NonInteractive
  BY DEF NonInteractive
<1>5. QED
  BY <1>1, <1>2, <1>3, <1>4 DEF Behind

\* An admission passes a node over by serving one that was not behind it.
LEMMA AdmitLine ==
  ASSUME IsFiniteSet(Nodes), FairInv, LineInv, NEW A \in SUBSET ready, NEW waiting \in BOOLEAN,
         NEW g \in Nat, Admit(g, A, waiting)
  PROVE  LineInv'
<1> DEFINE chosen == FirstOf(A, waiting, g)
<1>1. passed' = Passed(A, waiting, chosen) /\ A \subseteq Nodes
  BY DEF Admit, FairInv
<1>2. passed' \in [Nodes -> [same: Nat, all: Nat]]
  BY <1>1 DEF Passed, LineInv, Nobody
<1>3. ASSUME NEW n \in Nodes, passed'[n].same > 0
      PROVE  /\ n \in NonInteractive
             /\ passed'[n].same <= Deferrals(n)'
             /\ Behind(n)' # {}
             /\ passed'[n].same <= MaxDeferrals - 1 + Cardinality(Behind(n)')
  <2>1. n \in A /\ n \notin chosen
    BY <1>1, <1>3 DEF Passed, Nobody
  <2>2. /\ Deferrals(n)' = Deferrals(n) + 1 /\ Deferrals(n) \in Nat
        /\ Behind(n) \subseteq Behind(n)'
        /\ \A c \in chosen : c \in NonInteractive => c \in Behind(n)'
    BY <2>1, AdmitDeferrals, DeferralsTyped, BehindGrows
  <2>3. /\ IsFiniteSet(Behind(n)) /\ IsFiniteSet(Behind(n)')
        /\ Cardinality(Behind(n)) \in Nat /\ Cardinality(Behind(n)') \in Nat
        /\ Cardinality(Behind(n)) <= Cardinality(Behind(n)')
    <3>1. Behind(n)' \in SUBSET Nodes /\ Behind(n) \in SUBSET Behind(n)'
      BY <2>2 DEF Behind, NonInteractive
    <3>2. QED
      BY <3>1, FS_Subset, FS_CardinalityType
  <2>4. passed[n].same \in Nat /\ MaxDeferrals \in Nat \ {0}
    BY FairnessAssumption DEF LineInv
  <2>5. CASE n \in Pool(A, waiting) /\ n \in NonInteractive
    <3>1. passed'[n].same = passed[n].same + 1
      BY <1>1, <2>1, <2>5 DEF Passed, NonInteractive
    <3>2. PICK c \in chosen :
            /\ c \in Pool(A, waiting)
            /\ Deferrals(n) >= MaxDeferrals => Deferrals(c) >= Deferrals(n)
      BY <2>1, <2>5, FirstExists
    <3>3. c \in NonInteractive
      BY <1>1, <2>5, <3>2 DEF Pool, Candidates, Interactive, NonInteractive
    <3>4. c \in Behind(n)'
      BY <2>2, <3>3
    <3>5. Cardinality(Behind(n)') >= 1
      BY <2>3, <3>4, FS_EmptySet
    <3>6. passed[n].same <= Deferrals(n)
      BY <2>2, <2>4 DEF LineInv
    <3>7. CASE Deferrals(n) >= MaxDeferrals
      <4>1. c \notin Behind(n)
        <5>1. Deferrals(c) \in Nat
          BY DeferralsTyped
        <5>2. QED
          BY <2>2, <3>2, <3>7, <5>1 DEF Behind
      <4>2. Cardinality(Behind(n) \cup {c}) = Cardinality(Behind(n)) + 1
        BY <2>3, <4>1, FS_AddElement
      <4>3. Behind(n) \cup {c} \in SUBSET Behind(n)'
        BY <2>2, <3>4
      <4>4. Cardinality(Behind(n)) + 1 <= Cardinality(Behind(n)')
        BY <2>3, <4>2, <4>3, FS_Subset
      <4>5. passed[n].same > 0 => passed[n].same <= MaxDeferrals - 1 + Cardinality(Behind(n))
        BY DEF LineInv
      <4>6. QED
        BY <2>2, <2>3, <2>4, <2>5, <3>1, <3>4, <3>5, <3>6, <4>4, <4>5
    <3>8. CASE Deferrals(n) < MaxDeferrals
      BY <2>2, <2>3, <2>4, <2>5, <3>1, <3>4, <3>5, <3>6, <3>8
    <3>9. QED
      BY <2>2, <2>4, <3>7, <3>8
  <2>6. CASE ~(n \in Pool(A, waiting) /\ n \in NonInteractive)
    <3>1. passed'[n] = passed[n]
      BY <1>1, <2>1, <2>6 DEF Passed, NonInteractive
    <3>2. /\ n \in NonInteractive /\ passed[n].same <= Deferrals(n) /\ Behind(n) # {}
          /\ passed[n].same <= MaxDeferrals - 1 + Cardinality(Behind(n))
      BY <1>3, <3>1 DEF LineInv
    <3>3. QED
      BY <2>2, <2>3, <2>4, <3>1, <3>2
  <2>7. QED
    BY <2>5, <2>6
<1>4. NonInteractive' = NonInteractive
  BY DEF NonInteractive
<1>5. QED
  BY <1>2, <1>3, <1>4 DEF LineInv

\* A transition of the graph begins a new count.
LEMMA TransitionLine ==
  ASSUME LineInv, NEW R \in SUBSET Nodes, Transition(R)
  PROVE  LineInv'
<1>1. passed' = [n \in Nodes |-> IF n \in R THEN [same |-> 0, all |-> passed[n].all] ELSE Nobody]
  BY DEF Transition
<1>2. passed' \in [Nodes -> [same: Nat, all: Nat]] /\ \A n \in Nodes : passed'[n].same = 0
  BY <1>1 DEF LineInv, Nobody
<1>3. QED
  BY <1>2 DEF LineInv

\* Being passed over is accounted for in every step.
LEMMA LineNext ==
  ASSUME IsFiniteSet(Nodes), FairInv, LineInv, [Next]_vars
  PROVE  LineInv'
<1>1. ASSUME NEW g \in 1..MaxGeneration, NEW A \in SUBSET ready, NEW waiting \in BOOLEAN,
             Admit(g, A, waiting)
      PROVE  LineInv'
  <2>1. g \in Nat
    BY FairnessAssumption
  <2>2. QED
    BY <1>1, <2>1, AdmitLine
<1>2. ASSUME NEW R \in SUBSET Nodes, Transition(R) PROVE LineInv'
  BY <1>2, TransitionLine
<1>3. CASE UNCHANGED vars
  BY <1>3 DEF vars, LineInv, Behind, NonInteractive, Deferrals, Fairness
<1>4. QED
  BY <1>1, <1>2, <1>3 DEF Next, FairInv

\* While the graph stays as it is, a node in line is passed over a bounded number
\* of times, for any finite set of nodes that are not all interactive.
THEOREM AgingAlwaysWins ==
  ASSUME IsFiniteSet(Nodes), NonInteractive # {}
  PROVE  Spec => []AgingWins
<1>1. ASSUME FairInv, LineInv PROVE AgingWins
  <2> SUFFICES ASSUME NEW n \in Nodes PROVE passed[n].same <= Patience
    BY DEF AgingWins
  <2>1. IsFiniteSet(NonInteractive) /\ Cardinality(NonInteractive) \in Nat
        /\ Cardinality(NonInteractive) # 0
    BY FS_Subset, FS_CardinalityType, FS_EmptySet DEF NonInteractive
  <2>2. Patience = MaxDeferrals + Cardinality(NonInteractive) - 2
    BY DEF Patience, NonInteractive
  <2>3. passed[n].same \in Nat /\ MaxDeferrals \in Nat \ {0}
    BY <1>1, FairnessAssumption DEF LineInv
  <2>4. CASE passed[n].same > 0
    <3>1. /\ n \in NonInteractive
          /\ passed[n].same <= MaxDeferrals - 1 + Cardinality(Behind(n))
      BY <1>1, <2>4 DEF LineInv
    <3>2. Behind(n) \in SUBSET (NonInteractive \ {n})
      <4>1. Deferrals(n) \in Nat
        BY <1>1, DeferralsTyped
      <4>2. QED
        BY <4>1 DEF Behind
    <3>3. /\ Cardinality(Behind(n)) <= Cardinality(NonInteractive \ {n})
          /\ Cardinality(NonInteractive \ {n}) = Cardinality(NonInteractive) - 1
          /\ Cardinality(Behind(n)) \in Nat
      BY <2>1, <3>1, <3>2, FS_Subset, FS_RemoveElement, FS_CardinalityType
    <3>4. QED
      BY <2>1, <2>2, <2>3, <3>1, <3>3
  <2>5. CASE passed[n].same = 0
    BY <2>1, <2>2, <2>3, <2>5
  <2>6. QED
    BY <2>3, <2>4, <2>5
<1>2. Init => LineInv
  BY DEF Init, LineInv, Nobody
<1>3. FairInv /\ LineInv /\ [Next]_vars => LineInv'
  BY LineNext
<1>4. QED
  BY <1>1, <1>2, <1>3, InitFair, StepFair, PTL DEF Spec
=============================================================================
