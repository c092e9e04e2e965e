--------------------------- MODULE DueLedgerProofs ---------------------------
(***************************************************************************)
(* What holds of the due intents for every set of assignments, workgraphs  *)
(* and tags, every number of dues and restarts and every clock, whether or *)
(* not callers present stale workgraphs.                                   *)
(***************************************************************************)
EXTENDS DueLedger, TLAPS

\* The part of the type invariant that the argument needs.
LedgerTyped ==
  /\ dues \in [DOMAIN dues -> Record]
  /\ DOMAIN dues \subseteq Due
  /\ clock \in Times \cup {Never}
  /\ untouched \in BOOLEAN
  /\ restarts \in Nat

\* An aggregate is untouched only after a restart.
UntouchedAfterRestart == untouched => restarts > 0

DueInv == LedgerTyped /\ UntouchedAfterRestart /\ OneLiveDue /\ NeverEarly

-----------------------------------------------------------------------------
(* Every step moves the records in one of three ways and forms dues that   *)
(* have their assignment to themselves.                                    *)

Moved(d) ==
  \/ dues'[d] = dues[d]
  \/ /\ dues[d].life \in Live
     /\ dues'[d].life \in Terminal
     /\ dues'[d].observedAt = clock'
  \/ /\ dues[d].life = "SCHEDULED"
     /\ dues'[d] = [life |-> "DUE", observedAt |-> clock']
     /\ d.dueAt <= clock'

Formed(e) ==
  /\ dues'[e] = [life |-> "SCHEDULED", observedAt |-> clock']
  /\ clock' < e.dueAt
  /\ \A d \in DOMAIN dues' :
       dues'[d].life \in Live /\ d.assignment = e.assignment => d = e

DueMoves ==
  /\ LedgerTyped'
  /\ clock <= clock'
  /\ DOMAIN dues \subseteq DOMAIN dues'
  /\ \A d \in DOMAIN dues : Moved(d)
  /\ \A e \in DOMAIN dues' \ DOMAIN dues : Formed(e)

\* The lifecycles are five different strings.
LEMMA LivesApart ==
  /\ "SCHEDULED" \in Live /\ "DUE" \in Live /\ "SCHEDULED" # "DUE"
  /\ \A s \in Terminal : s \notin Live
  /\ "SUPERSEDED" \in Terminal /\ "CANCELLED" \in Terminal /\ "SETTLED" \in Terminal
BY DEF Live, Terminal

\* The clock is a natural number and the bound of the model is one.
LEMMA ClockIsNatural ==
  ASSUME LedgerTyped
  PROVE  clock \in Nat /\ \A t \in Times : t \in Nat
BY DueAssumption DEF LedgerTyped, Times, Never

-----------------------------------------------------------------------------
(* One lemma per operation.                                                *)

\* A step that leaves the dues alone and does not turn the clock back.
LEMMA StillMoves ==
  ASSUME LedgerTyped, dues' = dues, clock' \in Times \cup {Never}, clock <= clock',
         untouched' \in BOOLEAN, restarts' \in Nat
  PROVE  DueMoves
BY DEF DueMoves, Moved, LedgerTyped

\* formDueIntent
LEMMA FormMoves ==
  ASSUME LedgerTyped, UNCHANGED restarts,
         NEW g, NEW d \in Due, FormDue(g, d)
  PROVE  DueMoves
<1>1. /\ clock \in Times /\ d.dueAt > clock /\ d.dueAt \in Nat
      /\ d \notin DOMAIN dues
      /\ \A e \in DOMAIN dues : dues[e].life \in Live => e.assignment # d.assignment
      /\ dues' = WithDue(dues, d, clock) /\ clock' = clock /\ untouched' = FALSE
  BY DueAssumption DEF FormDue, Formable, Commit, LedgerTyped, Due, Times
<1>2. /\ DOMAIN dues' = DOMAIN dues \cup {d}
      /\ dues'[d] = [life |-> "SCHEDULED", observedAt |-> clock]
      /\ \A e \in DOMAIN dues : dues'[e] = dues[e]
  BY <1>1 DEF WithDue
<1>3. LedgerTyped'
  <2>1. \A e \in DOMAIN dues' : dues'[e] \in Record
    BY <1>1, <1>2 DEF LedgerTyped, Record, Live
  <2>2. dues' \in [DOMAIN dues' -> Record]
    BY <1>1, <2>1 DEF WithDue
  <2>3. QED
    BY <1>1, <1>2, <2>2 DEF LedgerTyped
<1>4. Formed(d)
  BY <1>1, <1>2 DEF Formed
<1>5. clock <= clock'
  BY <1>1, ClockIsNatural
<1>6. QED
  BY <1>2, <1>3, <1>4, <1>5 DEF DueMoves, Moved

\* rescheduleDueIntent
LEMMA RescheduleMoves ==
  ASSUME LedgerTyped, UNCHANGED restarts,
         NEW g, NEW d \in LiveDues, NEW e \in Due, RescheduleDue(g, d, e)
  PROVE  DueMoves
<1> DEFINE D == Closed(dues, d, "SUPERSEDED", clock)
<1>1. /\ clock \in Times /\ e.dueAt > clock
      /\ e \notin DOMAIN D
      /\ \A f \in DOMAIN D : D[f].life \in Live => f.assignment # e.assignment
      /\ dues' = WithDue(D, e, clock) /\ clock' = clock /\ untouched' = FALSE
  BY DueAssumption DEF RescheduleDue, Formable, Commit, Due
<1>2. /\ d \in DOMAIN dues /\ dues[d].life \in Live
      /\ DOMAIN D = DOMAIN dues
      /\ D[d] = [life |-> "SUPERSEDED", observedAt |-> clock]
      /\ \A f \in DOMAIN dues \ {d} : D[f] = dues[f]
  BY DEF Closed, LiveDues, LedgerTyped
<1>3. /\ DOMAIN dues' = DOMAIN dues \cup {e}
      /\ dues'[e] = [life |-> "SCHEDULED", observedAt |-> clock]
      /\ \A f \in DOMAIN dues : dues'[f] = D[f]
  BY <1>1, <1>2 DEF WithDue
<1>4. LedgerTyped'
  <2>1. \A f \in DOMAIN dues' : dues'[f] \in Record
    BY <1>1, <1>2, <1>3 DEF LedgerTyped, Record, Live, Terminal
  <2>2. dues' \in [DOMAIN dues' -> Record]
    BY <1>1, <2>1 DEF WithDue
  <2>3. QED
    BY <1>1, <1>3, <2>2 DEF LedgerTyped
<1>5. Formed(e)
  BY <1>1, <1>2, <1>3 DEF Formed
<1>6. \A f \in DOMAIN dues : Moved(f)
  <2>1. Moved(d)
    BY <1>1, <1>2, <1>3, LivesApart DEF Moved
  <2>2. QED
    BY <1>2, <1>3, <2>1 DEF Moved
<1>7. clock <= clock'
  BY <1>1, ClockIsNatural
<1>8. QED
  BY <1>2, <1>3, <1>4, <1>5, <1>6, <1>7 DEF DueMoves

\* cancelDueIntent
LEMMA CancelMoves ==
  ASSUME LedgerTyped, UNCHANGED restarts, OneLiveDue, NeverEarly,
         NEW g, NEW d \in LiveDues, CancelDue(g, d)
  PROVE  DueMoves
<1>1. /\ dues' = Closed(dues, d, "CANCELLED", clock) /\ clock' = clock /\ untouched' = FALSE
  BY DEF CancelDue, Commit
<1>2. /\ d \in DOMAIN dues /\ dues[d].life \in Live
      /\ DOMAIN dues' = DOMAIN dues
      /\ dues'[d] = [life |-> "CANCELLED", observedAt |-> clock]
      /\ \A f \in DOMAIN dues \ {d} : dues'[f] = dues[f]
  BY <1>1 DEF Closed, LiveDues, LedgerTyped
<1>3. clock \in Times
  BY <1>2, DueAssumption DEF NeverEarly, LedgerTyped, Record, Times, Never
<1>4. LedgerTyped'
  <2>1. \A f \in DOMAIN dues' : dues'[f] \in Record
    BY <1>2, <1>3 DEF LedgerTyped, Record, Live, Terminal
  <2>2. dues' \in [DOMAIN dues' -> Record]
    BY <1>1, <2>1 DEF Closed
  <2>3. QED
    BY <1>1, <1>2, <2>2 DEF LedgerTyped
<1>5. \A f \in DOMAIN dues : Moved(f)
  <2>1. Moved(d)
    BY <1>1, <1>2, LivesApart DEF Moved
  <2>2. QED
    BY <1>2, <2>1 DEF Moved
<1>6. clock <= clock'
  BY <1>1, ClockIsNatural
<1>7. QED
  BY <1>2, <1>4, <1>5, <1>6 DEF DueMoves

\* What settlement, and then the clock, does to each due.
LEMMA SettlementMoves ==
  ASSUME LedgerTyped, NEW g, NEW t \in Times
  PROVE  /\ AfterSettlement(g, t) \in [DOMAIN dues -> Record]
         /\ \A d \in DOMAIN dues :
              \/ AfterSettlement(g, t)[d] = dues[d]
              \/ /\ dues[d].life \in Live
                 /\ AfterSettlement(g, t)[d] = [life |-> "SETTLED", observedAt |-> t]
BY DEF AfterSettlement, LedgerTyped, LiveDues, Record, Terminal

\* Marking due moves no record to another assignment or time.
LEMMA MarkingMoves ==
  ASSUME NEW D, D \in [DOMAIN D -> Record], NEW t \in Times, NEW S \in SUBSET Reached(D, t)
  PROVE  /\ MarkDue(D, S, t) \in [DOMAIN D -> Record]
         /\ \A d \in DOMAIN D :
              \/ MarkDue(D, S, t)[d] = D[d]
              \/ /\ D[d].life = "SCHEDULED" /\ d.dueAt <= t
                 /\ MarkDue(D, S, t)[d] = [life |-> "DUE", observedAt |-> t]
BY DEF MarkDue, Reached, Record, Live

\* reconcileDueAssignments
LEMMA ReconcileMoves ==
  ASSUME LedgerTyped, UNCHANGED restarts, NEW g, ReconcileAssignments(g)
  PROVE  DueMoves
<1>1. /\ clock \in Times /\ dues' = AfterSettlement(g, clock)
      /\ clock' = clock /\ untouched' = FALSE
  BY DEF ReconcileAssignments, Commit, LedgerTyped
<1>2. /\ dues' \in [DOMAIN dues -> Record]
      /\ \A d \in DOMAIN dues :
           \/ dues'[d] = dues[d]
           \/ /\ dues[d].life \in Live
              /\ dues'[d] = [life |-> "SETTLED", observedAt |-> clock]
  BY <1>1, SettlementMoves
<1>3. \A d \in DOMAIN dues : Moved(d)
  BY <1>1, <1>2, LivesApart DEF Moved
<1>4. clock <= clock'
  BY <1>1, ClockIsNatural
<1>5. LedgerTyped'
  BY <1>1, <1>2 DEF LedgerTyped
<1>6. QED
  BY <1>2, <1>3, <1>4, <1>5 DEF DueMoves

\* advanceObservedClock with a graph
LEMMA AdvanceMoves ==
  ASSUME LedgerTyped, UNCHANGED restarts, NEW g, NEW t \in Times, AdvanceClock(g, t)
  PROVE  DueMoves
<1> DEFINE D == AfterSettlement(g, t)
<1>1. /\ dues' = MarkDue(D, Reached(D, t), t) /\ clock' = t /\ clock <= t
      /\ untouched' \in BOOLEAN
  BY ClockIsNatural DEF AdvanceClock, AfterAdvance, LedgerTyped
<1>2. /\ D \in [DOMAIN dues -> Record]
      /\ \A d \in DOMAIN dues :
           \/ D[d] = dues[d]
           \/ /\ dues[d].life \in Live
              /\ D[d] = [life |-> "SETTLED", observedAt |-> t]
  BY SettlementMoves
<1> HIDE DEF D
<1>3. /\ DOMAIN D = DOMAIN dues
      /\ dues' \in [DOMAIN dues -> Record]
      /\ \A d \in DOMAIN dues :
           \/ dues'[d] = D[d]
           \/ /\ D[d].life = "SCHEDULED" /\ d.dueAt <= t
              /\ dues'[d] = [life |-> "DUE", observedAt |-> t]
  BY <1>1, <1>2, MarkingMoves
<1>4. ASSUME NEW d \in DOMAIN dues PROVE Moved(d)
  <2>1. CASE D[d] = dues[d]
    BY <1>1, <1>3, <2>1 DEF Moved
  <2>2. CASE dues[d].life \in Live /\ D[d] = [life |-> "SETTLED", observedAt |-> t]
    <3>1. D[d].life # "SCHEDULED"
      BY <2>2
    <3>2. dues'[d] = D[d]
      BY <1>3, <3>1
    <3>3. QED
      BY <1>1, <2>2, <3>2, LivesApart DEF Moved
  <2>3. QED
    BY <1>2, <2>1, <2>2
<1>5. LedgerTyped'
  BY <1>1, <1>3 DEF LedgerTyped
<1>6. QED
  BY <1>1, <1>3, <1>4, <1>5 DEF DueMoves

\* reconcileMissedHost
LEMMA MissedHostMoves ==
  ASSUME LedgerTyped, UNCHANGED restarts, NEW g, NEW t \in Times, ReconcileMissedHost(g, t)
  PROVE  DueMoves
<1> DEFINE S == {d \in Reached(dues, t) : clock < d.dueAt}
<1>1. /\ dues' = MarkDue(dues, S, t) /\ clock' = t /\ clock <= t /\ untouched' = FALSE
  BY ClockIsNatural DEF ReconcileMissedHost, Commit
<1>2. S \in SUBSET Reached(dues, t)
  OBVIOUS
<1>3. /\ dues' \in [DOMAIN dues -> Record]
      /\ \A d \in DOMAIN dues :
           \/ dues'[d] = dues[d]
           \/ /\ dues[d].life = "SCHEDULED" /\ d.dueAt <= t
              /\ dues'[d] = [life |-> "DUE", observedAt |-> t]
  BY <1>1, <1>2, MarkingMoves DEF LedgerTyped
<1>4. \A d \in DOMAIN dues : Moved(d)
  BY <1>1, <1>3 DEF Moved
<1>5. LedgerTyped'
  BY <1>1, <1>3 DEF LedgerTyped
<1>6. QED
  BY <1>1, <1>3, <1>4, <1>5 DEF DueMoves

\* Every step of the specification.
LEMMA EveryStepMoves ==
  ASSUME DueInv, [Next]_vars
  PROVE  DueMoves
<1> USE DEF DueInv
<1>1. /\ clock \in Nat /\ clock <= clock /\ \A t \in Times : t \in Nat
      /\ clock \in Times \cup {Never} /\ restarts \in Nat /\ untouched \in BOOLEAN
  BY ClockIsNatural DEF LedgerTyped
<1>2. CASE DueStep /\ UNCHANGED <<restarts, graphVars>>
  <2>1. CASE \E g \in Presented, d \in Due : FormDue(g, d)
    BY <1>2, <2>1, FormMoves
  <2>2. CASE \E g \in Presented, d \in LiveDues, e \in Due : RescheduleDue(g, d, e)
    BY <1>2, <2>2, RescheduleMoves
  <2>3. CASE \E g \in Presented, d \in LiveDues : CancelDue(g, d)
    BY <1>2, <2>3, CancelMoves
  <2>4. CASE \E g \in Presented : ReconcileAssignments(g)
    BY <1>2, <2>4, ReconcileMoves
  <2>5. CASE \E g \in Presented, t \in Times : AdvanceClock(g, t)
    BY <1>2, <2>5, AdvanceMoves
  <2>6. CASE \E t \in Times : AdvanceBareClock(t) \/ ClockMovedByWork(t)
    <3>1. PICK t \in Times : AdvanceBareClock(t) \/ ClockMovedByWork(t)
      BY <2>6
    <3>2. /\ dues' = dues /\ clock' = t /\ clock <= t /\ untouched' \in BOOLEAN
          /\ restarts' \in Nat
      BY <1>1, <1>2, <3>1 DEF AdvanceBareClock, ClockMovedByWork
    <3>3. QED
      BY <3>2, StillMoves
  <2>7. CASE \E g \in Presented, t \in Times : ReconcileMissedHost(g, t)
    BY <1>2, <2>7, MissedHostMoves
  <2>8. QED
    BY <1>2, <2>1, <2>2, <2>3, <2>4, <2>5, <2>6, <2>7 DEF DueStep
<1>3. CASE GraphStep
  <2>1. UNCHANGED <<dueVars, restarts>>
    BY <1>3 DEF GraphStep, AcceptAssignment, SettleAssignments, NewSnapshot
  <2>2. QED
    BY <1>1, <2>1, StillMoves DEF dueVars
<1>4. CASE Restart
  BY <1>1, <1>4, StillMoves DEF Restart
<1>5. CASE UNCHANGED vars
  BY <1>1, <1>5, StillMoves DEF vars
<1>6. QED
  BY <1>2, <1>3, <1>4, <1>5 DEF Next

-----------------------------------------------------------------------------
(* The invariant.                                                          *)

\* The empty ledger.
LEMMA InitDueInv == Init => DueInv
<1> SUFFICES ASSUME Init PROVE DueInv
  OBVIOUS
<1>1. DOMAIN dues = {} /\ dues = [d \in {} |-> 0]
  BY DEF Init
<1>2. dues \in [DOMAIN dues -> Record]
  BY <1>1
<1>3. LedgerTyped
  BY <1>1, <1>2 DEF Init, LedgerTyped, Never
<1>4. OneLiveDue /\ NeverEarly
  BY <1>1 DEF OneLiveDue, NeverEarly, LiveDues
<1>5. QED
  BY <1>3, <1>4 DEF Init, DueInv, UntouchedAfterRestart

\* Records that moved and dues that were formed leave one live due each.
LEMMA MovesKeepOne ==
  ASSUME DueInv, DueMoves
  PROVE  OneLiveDue'
<1> SUFFICES ASSUME NEW d \in DOMAIN dues', NEW e \in DOMAIN dues',
                    dues'[d].life \in Live, dues'[e].life \in Live,
                    d.assignment = e.assignment
             PROVE  d = e
  BY DEF OneLiveDue, LiveDues
<1>1. CASE d \in DOMAIN dues /\ e \in DOMAIN dues
  <2>1. dues[d].life \in Live /\ dues[e].life \in Live
    BY <1>1, LivesApart DEF DueMoves, Moved
  <2>2. QED
    BY <1>1, <2>1 DEF DueInv, OneLiveDue, LiveDues
<1>2. CASE d \notin DOMAIN dues
  BY <1>2 DEF DueMoves, Formed
<1>3. CASE e \notin DOMAIN dues
  BY <1>3 DEF DueMoves, Formed
<1>4. QED
  BY <1>1, <1>2, <1>3

\* They are also never early.
LEMMA MovesKeepTime ==
  ASSUME DueInv, DueMoves
  PROVE  NeverEarly'
<1> SUFFICES ASSUME NEW d \in DOMAIN dues'
             PROVE  /\ dues'[d].observedAt <= clock'
                    /\ dues'[d].life = "DUE" => d.dueAt <= dues'[d].observedAt
                    /\ dues'[d].life = "SCHEDULED" => dues'[d].observedAt < d.dueAt
  BY DEF NeverEarly
<1>1. /\ clock \in Nat /\ clock' \in Nat /\ clock <= clock'
  BY DueAssumption DEF DueInv, DueMoves, LedgerTyped, Times, Never
<1>2. CASE d \notin DOMAIN dues
  BY <1>1, <1>2 DEF DueMoves, Formed
<1>3. CASE d \in DOMAIN dues
  <2>1. /\ dues[d].observedAt \in Nat /\ dues[d].observedAt <= clock
        /\ dues[d].life = "DUE" => d.dueAt <= dues[d].observedAt
        /\ dues[d].life = "SCHEDULED" => dues[d].observedAt < d.dueAt
    BY <1>3, DueAssumption DEF DueInv, NeverEarly, LedgerTyped, Record, Times
  <2>2. CASE dues'[d] = dues[d]
    BY <1>1, <2>1, <2>2
  <2>3. CASE /\ dues[d].life \in Live /\ dues'[d].life \in Terminal
             /\ dues'[d].observedAt = clock'
    BY <1>1, <2>3, LivesApart
  <2>4. CASE /\ dues'[d] = [life |-> "DUE", observedAt |-> clock']
             /\ d.dueAt <= clock'
    BY <1>1, <2>4
  <2>5. QED
    BY <1>3, <2>2, <2>3, <2>4 DEF DueMoves, Moved
<1>4. QED
  BY <1>2, <1>3

\* Only a restart makes an aggregate untouched.
LEMMA StepKeepsUntouched ==
  ASSUME DueInv, [Next]_vars
  PROVE  UntouchedAfterRestart'
<1>1. restarts \in Nat /\ (untouched => restarts > 0)
  BY DEF DueInv, LedgerTyped, UntouchedAfterRestart
<1>2. CASE DueStep /\ UNCHANGED <<restarts, graphVars>>
  <2>1. (untouched' = FALSE \/ untouched' = untouched) /\ restarts' = restarts
    BY <1>2 DEF DueStep, FormDue, RescheduleDue, CancelDue, ReconcileAssignments, AdvanceClock,
       AdvanceBareClock, ClockMovedByWork, ReconcileMissedHost, Commit
  <2>2. QED
    BY <1>1, <2>1 DEF UntouchedAfterRestart
<1>3. CASE GraphStep
  <2>1. UNCHANGED <<dueVars, restarts>>
    BY <1>3 DEF GraphStep, AcceptAssignment, SettleAssignments, NewSnapshot
  <2>2. QED
    BY <1>1, <2>1 DEF dueVars, UntouchedAfterRestart
<1>4. CASE Restart
  BY <1>1, <1>4 DEF Restart, UntouchedAfterRestart
<1>5. CASE UNCHANGED vars
  BY <1>1, <1>5 DEF vars, UntouchedAfterRestart
<1>6. QED
  BY <1>2, <1>3, <1>4, <1>5 DEF Next

\* The invariant is inductive.
LEMMA StepDueInv == DueInv /\ [Next]_vars => DueInv'
<1> SUFFICES ASSUME DueInv, [Next]_vars PROVE DueInv'
  OBVIOUS
<1>1. DueMoves
  BY EveryStepMoves
<1>2. LedgerTyped'
  BY <1>1 DEF DueMoves
<1>3. QED
  BY <1>1, <1>2, MovesKeepOne, MovesKeepTime, StepKeepsUntouched DEF DueInv

\* The inductive invariant of the due ledger: the records are well typed, an
\* untouched aggregate was restored, and the two properties below.
THEOREM DueInvariant == Spec => []DueInv
BY InitDueInv, StepDueInv, PTL DEF Spec

\* One assignment never has two live dues (formDueIntent, rescheduleDueIntent).
THEOREM LiveDueIsOne == Spec => []OneLiveDue
BY DueInvariant, PTL DEF DueInv

\* No due is exposed before its time or overlooked at it (advanceObservedClock,
\* reconcileMissedHost).
THEOREM DuesAreNeverEarly == Spec => []NeverEarly
BY DueInvariant, PTL DEF DueInv

-----------------------------------------------------------------------------
(* What a step may never do.                                               *)

\* The replay of the ledger never reopens a closed due.
THEOREM ClosedStaysClosed == Spec => ClosedForever
<1>1. ASSUME DueInv, [Next]_vars
      PROVE  [\A d \in DOMAIN dues :
                dues[d].life \in Terminal => d \in DOMAIN dues' /\ dues'[d] = dues[d]]_vars
  BY <1>1, EveryStepMoves, LivesApart DEF DueMoves, Moved
<1>2. QED
  BY <1>1, DueInvariant, PTL DEF Spec, ClosedForever

\* A due that is DUE stays as it was exposed until it is closed.
THEOREM ExposedStaysExposed == Spec => DueKeptUntilClosed
<1>1. ASSUME DueInv, [Next]_vars
      PROVE  [\A d \in DOMAIN dues :
                dues[d].life = "DUE" => dues'[d] = dues[d] \/ dues'[d].life \in Terminal]_vars
  BY <1>1, EveryStepMoves, LivesApart DEF DueMoves, Moved
<1>2. QED
  BY <1>1, DueInvariant, PTL DEF Spec, DueKeptUntilClosed

\* The receipts of a step: none, or those of reconcileMissedHost.
LEMMA ReceiptsOfStep ==
  ASSUME [Next]_vars
  PROVE  \/ receipts' = receipts
         \/ \E t \in Times :
              /\ untouched
              /\ \A r \in receipts : r.due \notin {d \in Reached(dues, t) : clock < d.dueAt}
              /\ receipts' = receipts \cup
                   {[due |-> d, prior |-> clock, restored |-> t] :
                      d \in {e \in Reached(dues, t) : clock < e.dueAt}}
<1>1. CASE DueStep /\ UNCHANGED <<restarts, graphVars>>
  <2>1. CASE \E g \in Presented, t \in Times : ReconcileMissedHost(g, t)
    BY <2>1 DEF ReconcileMissedHost, Commit
  <2>2. CASE ~ \E g \in Presented, t \in Times : ReconcileMissedHost(g, t)
    BY <1>1, <2>2 DEF DueStep, FormDue, RescheduleDue, CancelDue, ReconcileAssignments,
       AdvanceClock, AdvanceBareClock, ClockMovedByWork, Commit
  <2>3. QED
    BY <2>1, <2>2
<1>2. CASE GraphStep
  BY <1>2 DEF GraphStep, AcceptAssignment, SettleAssignments, NewSnapshot, dueVars
<1>3. CASE Restart
  BY <1>3 DEF Restart
<1>4. CASE UNCHANGED vars
  BY <1>4 DEF vars
<1>5. QED
  BY <1>1, <1>2, <1>3, <1>4 DEF Next

\* A missed-host receipt is never withdrawn or rewritten.
THEOREM ReceiptsAreKept == Spec => ReceiptsKept
<1>1. [Next]_vars => [receipts \subseteq receipts']_vars
  BY ReceiptsOfStep
<1>2. QED
  BY <1>1, PTL DEF Spec, ReceiptsKept

\* A receipt is written once, by the first commit after a restore, for a due that
\* no observation has reached (reconcileMissedHost).
THEOREM ReceiptsAreForGaps == Spec => ReceiptOnlyForGap
<1>1. ASSUME DueInv, [Next]_vars
      PROVE  [\A r \in receipts' \ receipts :
                /\ r.due \in LiveDues /\ dues[r.due].life = "SCHEDULED"
                /\ restarts > 0 /\ untouched
                /\ r.prior = clock /\ clock < r.due.dueAt
                /\ \A q \in receipts : q.due # r.due]_vars
  BY <1>1, ReceiptsOfStep, LivesApart DEF DueInv, UntouchedAfterRestart, Reached, LiveDues
<1>2. QED
  BY <1>1, DueInvariant, PTL DEF Spec, ReceiptOnlyForGap

-----------------------------------------------------------------------------
(* Settlement comes before the clock, for who presents the latest graph.   *)

\* The latest snapshot of each root is that root's, and no assignment of it is
\* both accepted and settled.
GraphInv ==
  /\ latest \in [Roots -> Snapshot]
  /\ \A r \in Roots : latest[r].root = r /\ latest[r].current \cap latest[r].settled = {}

\* A new snapshot of one root.
LEMMA SnapshotKeeps ==
  ASSUME GraphInv, NEW r \in Roots, NEW g \in Snapshot,
         g.root = r, g.current \cap g.settled = {}, latest' = [latest EXCEPT ![r] = g]
  PROVE  GraphInv'
BY DEF GraphInv

\* acceptIntentAssignment and the transitions that settle assignments keep them apart.
LEMMA StepKeepsGraphs == GraphInv /\ [Next]_vars => GraphInv'
<1> SUFFICES ASSUME GraphInv, [Next]_vars PROVE GraphInv'
  OBVIOUS
<1>1. CASE latest' = latest
  BY <1>1 DEF GraphInv
<1>2. ASSUME NEW a \in Assignments, AcceptAssignment(a) PROVE GraphInv'
  <2>1. PICK r \in Roots : r = RootOf[a]
    BY DueAssumption
  <2>2. PICK o \in Snapshot : o = latest[r] /\ o.root = r /\ o.current \cap o.settled = {}
    BY DEF GraphInv
  <2> DEFINE g == [o EXCEPT !.current = @ \cup {a}]
  <2>3. g \in Snapshot /\ g.root = r /\ g.current = o.current \cup {a} /\ g.settled = o.settled
    BY <2>2 DEF Snapshot
  <2>4. latest' = [latest EXCEPT ![r] = g] /\ a \notin o.settled
    BY <1>2, <2>1, <2>2, <2>3 DEF AcceptAssignment, NewSnapshot, Resolves
  <2> HIDE DEF g
  <2>5. g.current \cap g.settled = {}
    BY <2>2, <2>3, <2>4
  <2>6. QED
    BY <2>3, <2>4, <2>5, SnapshotKeeps
<1>3. ASSUME NEW S \in SUBSET Assignments, SettleAssignments(S) PROVE GraphInv'
  <2>1. PICK r \in Roots :
          NewSnapshot([latest[r] EXCEPT !.current = @ \ S, !.settled = @ \cup S])
    BY <1>3 DEF SettleAssignments
  <2>2. PICK o \in Snapshot : o = latest[r] /\ o.root = r /\ o.current \cap o.settled = {}
    BY DEF GraphInv
  <2> DEFINE g == [o EXCEPT !.current = @ \ S, !.settled = @ \cup S]
  <2>3. /\ g \in Snapshot /\ g.root = r
        /\ g.current = o.current \ S /\ g.settled = o.settled \cup S
    BY <2>2 DEF Snapshot
  <2>4. latest' = [latest EXCEPT ![r] = g]
    BY <2>1, <2>2, <2>3 DEF NewSnapshot
  <2> HIDE DEF g
  <2>5. g.current \cap g.settled = {}
    BY <2>2, <2>3
  <2>6. QED
    BY <2>3, <2>4, <2>5, SnapshotKeeps
<1>4. QED
  BY <1>1, <1>2, <1>3 DEF Next, GraphStep, Restart, graphVars, vars

\* A due that settlement leaves SCHEDULED has its assignment in the graph.
LEMMA ExposedIsCurrent ==
  ASSUME LedgerTyped, NEW g, NEW t \in Times, AdvanceClock(g, t) \/ ReconcileMissedHost(g, t),
         NEW d \in DOMAIN dues, dues[d].life = "SCHEDULED", dues'[d].life = "DUE"
  PROVE  Current(g, d.assignment)
<1>1. d \in LiveDues
  BY LivesApart DEF LiveDues
<1>2. CASE ReconcileMissedHost(g, t)
  BY <1>1, <1>2 DEF ReconcileMissedHost
<1>3. CASE AdvanceClock(g, t)
  <2>1. SUFFICES ASSUME ~Current(g, d.assignment) PROVE FALSE
    OBVIOUS
  <2> DEFINE D == AfterSettlement(g, t)
  <2>2. D \in [DOMAIN dues -> Record]
    BY SettlementMoves
  <2>3. D[d] = [life |-> "SETTLED", observedAt |-> t]
    BY <1>1, <2>1 DEF AfterSettlement
  <2>4. dues' = MarkDue(D, Reached(D, t), t)
    BY <1>3 DEF AdvanceClock, AfterAdvance
  <2> HIDE DEF D
  <2>5. dues'[d] = D[d]
    BY <2>2, <2>3, <2>4 DEF MarkDue, Reached
  <2>6. QED
    BY <2>3, <2>5
<1>4. QED
  BY <1>2, <1>3

\* The due of a settled assignment is not made DUE by a caller with the latest
\* graph (advanceObservedClock, reconcileMissedHost).
THEOREM SettledIsNeverDue == Spec => SettledNeverDue
<1>1. Init => GraphInv
  BY DEF Init, GraphInv, Snapshot
<1>2. Spec => []GraphInv
  BY <1>1, StepKeepsGraphs, PTL DEF Spec
<1>3. ASSUME LedgerTyped, GraphInv, NEW r \in Roots, NEW t \in Times,
             AdvanceClock(latest[r], t) \/ ReconcileMissedHost(latest[r], t),
             NEW d \in DOMAIN dues, dues[d].life = "SCHEDULED", dues'[d].life = "DUE"
      PROVE  d.assignment \notin latest[RootOf[d.assignment]].settled
  <2>1. Current(latest[r], d.assignment)
    BY <1>3, ExposedIsCurrent
  <2>2. r = RootOf[d.assignment] /\ d.assignment \in latest[r].current
    BY <1>3, <2>1 DEF Current, GraphInv
  <2>3. QED
    BY <1>3, <2>2 DEF GraphInv
<1>4. ASSUME DueInv, GraphInv
      PROVE  [\A r \in Roots, t \in Times :
                AdvanceClock(latest[r], t) \/ ReconcileMissedHost(latest[r], t) =>
                  \A d \in DOMAIN dues :
                    dues[d].life = "SCHEDULED" /\ dues'[d].life = "DUE" =>
                      d.assignment \notin latest[RootOf[d.assignment]].settled]_vars
  BY <1>3, <1>4 DEF DueInv
<1>5. QED
  BY <1>2, <1>4, DueInvariant, PTL DEF SettledNeverDue
=============================================================================
