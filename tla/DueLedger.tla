------------------------------ MODULE DueLedger ------------------------------
(***************************************************************************)
(* The due intents of the scheduler (src/core/intent-scheduler.mjs) with   *)
(* the validators that the aggregate runs on every due event and on every  *)
(* restore (src/core/state.mjs), and the part of the intent workgraph they *)
(* are bound to (src/core/intent-workgraph.mjs).                           *)
(*                                                                         *)
(* A due says when the work of one accepted assignment is due.  It is      *)
(* formed SCHEDULED, becomes DUE when the scheduler's clock is advanced    *)
(* across its time, and is closed by a reschedule, a cancellation or the   *)
(* settlement of its assignment.  A due is known by the content its dueRef *)
(* is the hash of, so `dues` maps that content to the record's mutable     *)
(* part: it is dueRecords, the replay of the transition ledger.  A receipt *)
(* of `receipts` says that the boundary was crossed while the host was     *)
(* away.                                                                   *)
(*                                                                         *)
(* A workgraph is an immutable value: the scheduler is handed a snapshot   *)
(* by its caller and cannot tell whether it is the latest one.  A node     *)
(* accepts one assignment in its life (a settled node accepts none and     *)
(* never leaves its settled states), so a node and its assignment are one. *)
(***************************************************************************)
EXTENDS Integers, FiniteSets

CONSTANTS
  Assignments,      \* accepted assignments
  Roots,            \* root intents: each is the root of a workgraph
  RootOf,           \* the workgraph that holds an assignment
  Tags,             \* what else a caller states of a due: its sourceRefs
  MaxTime,          \* bound of the model on the clock
  MaxDues,          \* bound of the model on the dues ever formed
  MaxRestarts,      \* bound of the model on restarts
  StaleReads        \* may a caller present a graph that is not the latest?

ASSUME DueAssumption ==
  /\ RootOf \in [Assignments -> Roots]
  /\ MaxTime \in Nat /\ MaxDues \in Nat /\ MaxRestarts \in Nat
  /\ StaleReads \in BOOLEAN

VARIABLES
  dues,         \* dueRecords: due -> [life, observedAt]
  receipts,     \* missedHostReconciliationLedger
  clock,        \* observedClock; Never before the first observation
  untouched,    \* nothing was committed since the aggregate was restored
  restarts,     \* how often the host came back
  latest,       \* root -> the latest snapshot of its workgraph
  snapshots     \* every workgraph snapshot a caller may still hold

dueVars   == <<dues, receipts, clock, untouched>>
graphVars == <<latest, snapshots>>
vars == <<dues, receipts, clock, untouched, restarts, latest, snapshots>>

Never == 0
Times == 1..MaxTime

\* formedAt is the observation a due was formed on.  A caller may state an earlier
\* time of formation, never a later one: that is content like a tag, for no check
\* tells it from the observation.
Due == [assignment: Assignments, tag: Tags, dueAt: Times, formedAt: Times]
Live == {"SCHEDULED", "DUE"}
Terminal == {"SUPERSEDED", "CANCELLED", "SETTLED"}
Record == [life: Live \cup Terminal, observedAt: Times]
Receipt == [due: Due, prior: Times, restored: Times]
Snapshot == [root: Roots, current: SUBSET Assignments, settled: SUBSET Assignments]

LiveDues == {d \in DOMAIN dues : dues[d].life \in Live}

\* A caller's graph: the latest snapshot or, with StaleReads, an earlier one.
Presented == IF StaleReads THEN snapshots ELSE {latest[r] : r \in Roots}

\* resolveSchedulerDueAssignment: the graph holds the assignment, and it is
\* its own root's (a graph of another root does not hold it).
Current(g, a)  == g.root = RootOf[a] /\ a \in g.current
Resolves(g, a) == g.root = RootOf[a] /\ a \in g.current \cup g.settled

\* Every live due resolves in the one graph that the caller presented.
LineageHolds(g) == \A d \in LiveDues : Resolves(g, d.assignment)

-----------------------------------------------------------------------------
(* The validators that guard every commit of a due event, and a restore.   *)

\* validateMissedHostReconciliationLedger: a receipt stays bound to its due as
\* it was when the receipt was written.
ReceiptBound(r, D) ==
  /\ r.due \in DOMAIN D
  /\ D[r.due] = [life |-> "DUE", observedAt |-> r.restored]
  /\ r.due.formedAt <= r.prior
  /\ r.prior < r.due.dueAt /\ r.due.dueAt <= r.restored

Accepted(D, R) ==
  /\ \A r \in R : ReceiptBound(r, D)
  /\ \A r, q \in R : r.due = q.due => r = q

\* Defective variants of Formable: a second live due for an assignment, and a
\* due formed again over its closed record.
FormableBeside(d, D) == d \notin DOMAIN D
FormableAgain(d, D) ==
  \A e \in DOMAIN D : D[e].life \in Live => e.assignment # d.assignment

\* replaySchedulerDueLedger on a FORMED transition.
Formable(d, D) ==
  /\ d \notin DOMAIN D
  /\ \A e \in DOMAIN D : D[e].life \in Live => e.assignment # d.assignment

Closed(D, d, life, t) == [D EXCEPT ![d] = [life |-> life, observedAt |-> t]]

WithDue(D, d, t) ==
  [e \in DOMAIN D \cup {d} |->
     IF e = d THEN [life |-> "SCHEDULED", observedAt |-> t] ELSE D[e]]

Commit(D, R, t) ==
  /\ Accepted(D, R)
  /\ dues' = D
  /\ receipts' = R
  /\ clock' = t
  /\ untouched' = FALSE

-----------------------------------------------------------------------------
Init ==
  /\ dues = [d \in {} |-> 0]
  /\ receipts = {}
  /\ clock = Never
  /\ untouched = FALSE
  /\ restarts = 0
  /\ latest = [r \in Roots |-> [root |-> r, current |-> {}, settled |-> {}]]
  /\ snapshots = {[root |-> r, current |-> {}, settled |-> {}] : r \in Roots}

NewSnapshot(g) ==
  /\ latest' = [latest EXCEPT ![g.root] = g]
  /\ snapshots' = snapshots \cup {g}
  /\ UNCHANGED <<dueVars, restarts>>

\* acceptIntentAssignment: the node is not settled and has no current assignment.
AcceptAssignment(a) ==
  LET g == latest[RootOf[a]]
  IN  /\ ~Resolves(g, a)
      /\ NewSnapshot([g EXCEPT !.current = @ \cup {a}])

\* recordIntentTransition or cancelIntentBranch move work nodes to a settled
\* state: their assignments settle with them.
SettleAssignments(S) ==
  \E r \in Roots :
    /\ S # {} /\ S \subseteq latest[r].current
    /\ NewSnapshot([latest[r] EXCEPT !.current = @ \ S, !.settled = @ \cup S])

\* formDueIntent
FormDue(g, d) ==
  /\ clock # Never
  /\ d.formedAt = clock /\ d.dueAt > clock
  /\ Current(g, d.assignment)
  /\ Formable(d, dues)
  /\ Cardinality(DOMAIN dues) < MaxDues
  /\ Commit(WithDue(dues, d, clock), receipts, clock)

\* rescheduleDueIntent: supersession and successor are one commit.
RescheduleDue(g, d, e) ==
  LET D == Closed(dues, d, "SUPERSEDED", clock)
  IN  /\ d \in LiveDues
      /\ Current(g, d.assignment)
      /\ e.assignment = d.assignment
      /\ e.formedAt = clock /\ e.dueAt > clock /\ e.dueAt # d.dueAt
      /\ Formable(e, D)
      /\ Cardinality(DOMAIN dues) < MaxDues
      /\ Commit(WithDue(D, e, clock), receipts, clock)

\* cancelDueIntent
CancelDue(g, d) ==
  /\ d \in LiveDues
  /\ Current(g, d.assignment)
  /\ Commit(Closed(dues, d, "CANCELLED", clock), receipts, clock)

\* What a settled assignment does to its live due.
AfterSettlement(g, t) ==
  [d \in DOMAIN dues |->
     IF d \in LiveDues /\ ~Current(g, d.assignment)
     THEN [life |-> "SETTLED", observedAt |-> t] ELSE dues[d]]

\* reconcileDueAssignments: nothing to settle is no commit.
ReconcileAssignments(g) ==
  /\ clock # Never
  /\ LineageHolds(g)
  /\ AfterSettlement(g, clock) # dues
  /\ Commit(AfterSettlement(g, clock), receipts, clock)

\* Defective variant: due one tick early.
ReachedEarly(D, t) == {d \in DOMAIN D : D[d].life = "SCHEDULED" /\ d.dueAt <= t + 1}

\* The dues of D that a clock at t finds scheduled at or before t.
Reached(D, t) == {d \in DOMAIN D : D[d].life = "SCHEDULED" /\ d.dueAt <= t}

MarkDue(D, S, t) ==
  [d \in DOMAIN D |-> IF d \in S THEN [life |-> "DUE", observedAt |-> t] ELSE D[d]]

\* Defective variant: the clock crossing is looked for before the settlement.
AfterAdvanceUnsettled(g, t) ==
  MarkDue(AfterSettlement(g, t), Reached(dues, t), t)

AfterAdvance(g, t) ==
  MarkDue(AfterSettlement(g, t), Reached(AfterSettlement(g, t), t), t)

\* advanceObservedClock with a graph.  A repeated observation that finds
\* nothing to do may commit an aggregate equal to the restored one (the same
\* eventRef) or one that differs in its last transition only.
AdvanceClock(g, t) ==
  /\ t >= clock
  /\ LineageHolds(g)
  /\ Accepted(AfterAdvance(g, t), receipts)
  /\ dues' = AfterAdvance(g, t)
  /\ clock' = t
  /\ \/ untouched' = FALSE
     \/ t = clock /\ dues' = dues /\ untouched' = untouched
  /\ UNCHANGED receipts

\* advanceObservedClock without a graph: only while no due is live.
AdvanceBareClock(t) ==
  /\ t >= clock
  /\ LiveDues = {}
  /\ clock' = t
  /\ untouched' \in {FALSE} \cup (IF t = clock THEN {untouched} ELSE {})
  /\ UNCHANGED <<dues, receipts>>

\* admit, checkpoint, resume, completeActive and cancelActive move the clock
\* with their own evidence; they look at no due.
ClockMovedByWork(t) ==
  /\ t >= clock
  /\ clock' = t
  /\ untouched' = FALSE
  /\ UNCHANGED <<dues, receipts>>

\* Defective variant: a gap is claimed without a restore.
ReconcileAnyGap(g, t) ==
  LET S == {d \in Reached(dues, t) : clock < d.dueAt}
  IN  /\ clock # Never /\ t > clock
      /\ \A d \in LiveDues : dues[d].life = "SCHEDULED" => Current(g, d.assignment)
      /\ S # {}
      /\ Commit(MarkDue(dues, S, t),
                receipts \cup {[due |-> d, prior |-> clock, restored |-> t] : d \in S}, t)

\* reconcileMissedHost: the first commit after a restore, over the dues that
\* were scheduled ahead of the last observation and are behind the new one.
ReconcileMissedHost(g, t) ==
  LET S == {d \in Reached(dues, t) : clock < d.dueAt}
  IN  /\ untouched /\ clock # Never /\ t > clock
      /\ \A d \in LiveDues : dues[d].life = "SCHEDULED" => Current(g, d.assignment)
      /\ S # {}
      /\ \A r \in receipts : r.due \notin S
      /\ Commit(MarkDue(dues, S, t),
                receipts \cup {[due |-> d, prior |-> clock, restored |-> t] : d \in S}, t)

\* The host goes away and a scheduler is constructed from the persisted
\* aggregate, which createIntentSchedulerState validates first.
Restart ==
  /\ restarts < MaxRestarts
  /\ Accepted(dues, receipts)
  /\ restarts' = restarts + 1
  /\ untouched' = TRUE
  /\ UNCHANGED <<dues, receipts, clock, graphVars>>

DueStep ==
  \/ \E g \in Presented, d \in Due : FormDue(g, d)
  \/ \E g \in Presented, d \in LiveDues, e \in Due : RescheduleDue(g, d, e)
  \/ \E g \in Presented, d \in LiveDues : CancelDue(g, d)
  \/ \E g \in Presented : ReconcileAssignments(g)
  \/ \E g \in Presented, t \in Times : AdvanceClock(g, t)
  \/ \E t \in Times : AdvanceBareClock(t)
  \/ \E t \in Times : ClockMovedByWork(t)
  \/ \E g \in Presented, t \in Times : ReconcileMissedHost(g, t)

GraphStep ==
  \/ \E a \in Assignments : AcceptAssignment(a)
  \/ \E S \in SUBSET Assignments : SettleAssignments(S)

Next ==
  \/ DueStep /\ UNCHANGED <<restarts, graphVars>>
  \/ GraphStep
  \/ Restart

Spec == Init /\ [][Next]_vars

-----------------------------------------------------------------------------
\* Type invariant.
TypeOK ==
  /\ dues \in [DOMAIN dues -> Record] /\ DOMAIN dues \subseteq Due
  /\ receipts \subseteq Receipt
  /\ clock \in Times \cup {Never}
  /\ untouched \in BOOLEAN /\ restarts \in 0..MaxRestarts
  /\ latest \in [Roots -> Snapshot] /\ snapshots \subseteq Snapshot

\* Whatever is rescheduled, cancelled and formed again, an assignment has at
\* most one live due.
OneLiveDue ==
  \A d, e \in LiveDues : d.assignment = e.assignment => d = e

\* A due is exposed as DUE only at or after its time, on an observation the
\* clock has made, and is never still SCHEDULED on a record written at or
\* after its time.
NeverEarly ==
  \A d \in DOMAIN dues :
    /\ dues[d].observedAt <= clock
    /\ dues[d].life = "DUE" => d.dueAt <= dues[d].observedAt
    /\ dues[d].life = "SCHEDULED" => dues[d].observedAt < d.dueAt

\* A due that was closed stays closed as it was: not even forming it again with
\* the same content reopens it.
ClosedForever ==
  [][\A d \in DOMAIN dues :
       dues[d].life \in Terminal => d \in DOMAIN dues' /\ dues'[d] = dues[d]]_vars

\* A DUE due is not scheduled again, and its record keeps the observation that
\* exposed it until it is closed.
DueKeptUntilClosed ==
  [][\A d \in DOMAIN dues :
       dues[d].life = "DUE" => dues'[d] = dues[d] \/ dues'[d].life \in Terminal]_vars

\* A receipt is written only for a boundary that the host's absence hid: there
\* was a restore and nothing was committed since, and the last observation before
\* it was earlier than the due's time. No boundary gets a second receipt.
ReceiptOnlyForGap ==
  [][\A r \in receipts' \ receipts :
       /\ r.due \in LiveDues /\ dues[r.due].life = "SCHEDULED"
       /\ restarts > 0 /\ untouched
       /\ r.prior = clock /\ clock < r.due.dueAt
       /\ \A q \in receipts : q.due # r.due]_vars

\* A receipt is never withdrawn or rewritten.
ReceiptsKept == [][receipts \subseteq receipts']_vars

\* A caller that presents the latest graph never makes the due of a settled
\* assignment DUE: settling comes before the crossing of the clock, whatever
\* earlier callers presented.
SettledNeverDue ==
  [][\A r \in Roots, t \in Times :
       AdvanceClock(latest[r], t) \/ ReconcileMissedHost(latest[r], t) =>
         \A d \in DOMAIN dues :
           dues[d].life = "SCHEDULED" /\ dues'[d].life = "DUE" =>
             d.assignment \notin latest[RootOf[d.assignment]].settled]_vars

\* Assignment settlement can close the due: there is a graph to present with
\* which reconcileDueAssignments commits.
SettlementCanClose ==
  \A d \in LiveDues :
    d.assignment \in latest[RootOf[d.assignment]].settled =>
      \E g \in Presented :
        /\ LineageHolds(g) /\ ~Current(g, d.assignment)
        /\ Accepted(AfterSettlement(g, clock), receipts)
=============================================================================
