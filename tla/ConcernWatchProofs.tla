------------------------- MODULE ConcernWatchProofs -------------------------
(***************************************************************************)
(* A concern's work is earned and stays in sight, for any sources, dues,   *)
(* operators and limits of the threshold policy.  The table of legal       *)
(* transitions alone does not give it: from ADMITTED_WORK it allows        *)
(* HELD_UNKNOWN, and a threshold evaluation may lead there.  It does not,  *)
(* because a concern on its way to work has observations that cross the    *)
(* threshold, because every step that adds one leaves that way, and        *)
(* because the threshold receipts that are still current say what these    *)
(* observations amount to.                                                 *)
(***************************************************************************)
EXTENDS ConcernWatch, TLAPS

\* A concern on its way to work: its observations cross the threshold, and the
\* receipt on record was made of all of them.
Backed ==
  watch.state \in Earned =>
    /\ Outcome(watch.observations) \in Crossing
    /\ watch.receipt.outcome \in Crossing
    /\ watch.receipt.count = Len(watch.observations)

\* A threshold receipt in somebody's hand says what the observations amount to.
DraftsCurrent ==
  \A o \in Operators : drafts[o].kind = "THRESHOLD" =>
    /\ drafts[o].says = Outcome(watch.observations)
    /\ drafts[o].count = Len(watch.observations)

\* Work that has not completed is in the state that shows it.
WorkShown == watch.admitted /\ work # "COMPLETED" => watch.state = "ADMITTED_WORK"

ConcernInv ==
  /\ TypeOK
  /\ Backed
  /\ DraftsCurrent
  /\ WorkShown
  /\ QueueShowsWork

-----------------------------------------------------------------------------
(* The threshold.                                                           *)

\* The decision is one of the outcomes.
LEMMA OutcomeType == \A seq : Outcome(seq) \in Outcomes
  BY DEF Outcome, Outcomes, Crossing

\* Only a due, a critical report or enough independent sources cross it.
LEMMA CrossingHasEvidence ==
  ASSUME NEW seq, Outcome(seq) \in Crossing
  PROVE  \/ \E i \in DOMAIN seq : IsDue(seq[i])
         \/ \E i \in Eligible(seq) : Grade[seq[i].of].critical
         \/ Cardinality(Independent(seq)) >= MinIndependent
  BY DEF Outcome, Crossing, DueAttention, HighConsequence, StandardCrossed

\* Where a threshold receipt may lead, from the states it is legal in.
LEMMA ThresholdLeads ==
  ASSUME NEW outcome \in Outcomes,
         LegalTransition(watch.state, AfterThreshold(outcome)),
         watch.state \in Earned => outcome \in Crossing
  PROVE  /\ watch.state \notin Earned /\ watch.state \notin Terminal
         /\ AfterThreshold(outcome) \in {"THRESHOLD_MET", "HELD_UNKNOWN",
                                         "ACCUMULATING", "DORMANT_WATCH"}
         /\ AfterThreshold(outcome) = "THRESHOLD_MET" => outcome \in Crossing
  BY DEF LegalTransition, Watching, AfterThreshold, Earned, Terminal, Crossing, Outcomes

-----------------------------------------------------------------------------
(* The parts of a step.                                                     *)

\* An event that keeps the observations and the receipt, and does not lead into
\* the way to work from outside it, keeps the work backed.
LEMMA BackedKept ==
  ASSUME Backed,
         watch'.state \in Earned => watch.state \in Earned,
         watch'.observations = watch.observations,
         watch'.receipt = watch.receipt
  PROVE  Backed'
  BY DEF Backed

\* After an event nobody holds a receipt that is current.
LEMMA NoneCurrent ==
  ASSUME TypeOK, drafts' = Stale(drafts)
  PROVE  /\ drafts' \in [Operators -> Draft]
         /\ DraftsCurrent'
  BY DEF TypeOK, Stale, NoDraft, Draft, DraftsCurrent

\* What an event leaves: the concern it was given, in its state, at its time.
LEMMA Appended ==
  ASSUME TypeOK, NEW next \in States, NEW concern \in Concern,
         NEW time \in 0..MaxTime, AppendEvent(next, concern, time)
  PROVE  /\ LegalTransition(watch.state, next)
         /\ watch' \in Concern
         /\ watch'.state = next
         /\ watch'.observations = concern.observations
         /\ watch'.receipt = concern.receipt
         /\ watch'.admitted = concern.admitted
         /\ watch'.queued = concern.queued
         /\ watch'.active = concern.active
         /\ drafts' \in [Operators -> Draft]
         /\ DraftsCurrent'
<1>1. watch' = [concern EXCEPT !.state = next, !.last = time]
  BY DEF AppendEvent
<1> QED
  BY <1>1, NoneCurrent DEF AppendEvent, Concern

\* An observation, or a due, leaves the concern watched and no work behind.
LEMMA ObservedStep ==
  ASSUME ConcernInv, NEW observation \in Observation, Observed(observation)
  PROVE  ConcernInv'
<1> DEFINE next == IF watch.observations = <<>> THEN "DORMANT_WATCH" ELSE "ACCUMULATING"
           concern == [watch EXCEPT !.observations = Append(@, observation)]
<1>1. next \in {"DORMANT_WATCH", "ACCUMULATING"} /\ next \in States
  BY DEF States
<1>2. observation.at \in 0..MaxTime
  BY DEF Observation
<1>3. /\ concern \in Concern
      /\ concern.receipt = watch.receipt /\ concern.admitted = watch.admitted
      /\ concern.queued = watch.queued /\ concern.active = watch.active
  <2>1. watch \in Concern
    BY DEF ConcernInv, TypeOK
  <2>2. Append(watch.observations, observation) \in Seq(Observation)
    BY <2>1 DEF Concern
  <2> QED
    BY <2>1, <2>2 DEF Concern
<1>4. AppendEvent(next, concern, observation.at) /\ UNCHANGED <<dues, work>>
  BY DEF Observed
<1> HIDE DEF next, concern
<1>5. /\ LegalTransition(watch.state, next)
      /\ watch' \in Concern /\ watch'.state = next
      /\ watch'.admitted = watch.admitted
      /\ watch'.queued = watch.queued /\ watch'.active = watch.active
      /\ drafts' \in [Operators -> Draft] /\ DraftsCurrent'
  BY <1>1, <1>2, <1>3, <1>4, Appended DEF ConcernInv
<1>6. watch.state \in {"OBSERVED", "DORMANT_WATCH", "ACCUMULATING", "HELD_UNKNOWN"}
  BY <1>1, <1>5 DEF LegalTransition, Watching
<1>7. Backed' /\ WorkShown' /\ QueueShowsWork'
  BY <1>1, <1>4, <1>5, <1>6
  DEF ConcernInv, Backed, WorkShown, QueueShowsWork, Earned, Terminal
<1> QED
  BY <1>4, <1>5, <1>7 DEF ConcernInv, TypeOK

\* A receipt that is formed says what is true of the concern now.
LEMMA FormStep ==
  ASSUME ConcernInv, NEW o \in Operators, NEW kind, NEW says, NEW count \in Nat,
         [kind |-> kind, count |-> count, says |-> says] \in Draft,
         kind = "THRESHOLD" => /\ says = Outcome(watch.observations)
                               /\ count = Len(watch.observations),
         Form(o, kind, says, count)
  PROVE  ConcernInv'
<1>1. /\ drafts' = [drafts EXCEPT ![o] = [kind |-> kind, count |-> count, says |-> says]]
      /\ UNCHANGED <<watch, dues, work>>
  BY DEF Form
<1>2. TypeOK'
  BY <1>1 DEF ConcernInv, TypeOK
<1>3. DraftsCurrent'
  BY <1>1 DEF ConcernInv, TypeOK, DraftsCurrent
<1> QED
  BY <1>1, <1>2, <1>3 DEF ConcernInv, Backed, WorkShown, QueueShowsWork

\* The end of a concern, or its hold, takes the queue priority away, and is
\* reached with admitted work only when that has completed.
LEMMA ClosedStep ==
  ASSUME ConcernInv, NEW disposition, ClosureAccepted,
         NEW time \in 0..MaxTime,
         AppendEvent(StateAfter(disposition), Closed(disposition), time),
         UNCHANGED <<dues, work>>
  PROVE  ConcernInv'
<1>1. /\ StateAfter(disposition) \in {"HELD_UNKNOWN", "SUPERSEDED", "RESOLVED"}
      /\ StateAfter(disposition) \in States
      /\ StateAfter(disposition) = "HELD_UNKNOWN" <=> disposition = "HELD_UNKNOWN"
  BY DEF StateAfter, States
<1>2. /\ Closed(disposition) \in Concern
      /\ Closed(disposition).admitted = watch.admitted
      /\ Closed(disposition).queued = FALSE
      /\ Closed(disposition).active = (disposition = "HELD_UNKNOWN")
  BY DEF Closed, ConcernInv, TypeOK, Concern
<1>3. /\ watch' \in Concern /\ watch'.state = StateAfter(disposition)
      /\ watch'.admitted = watch.admitted
      /\ watch'.queued = FALSE /\ watch'.active = (disposition = "HELD_UNKNOWN")
      /\ drafts' \in [Operators -> Draft] /\ DraftsCurrent'
  BY <1>1, <1>2, Appended DEF ConcernInv
<1>4. Backed' /\ WorkShown' /\ QueueShowsWork'
  BY <1>1, <1>3 DEF Backed, WorkShown, QueueShowsWork, Earned, Terminal, ClosureAccepted
<1> QED
  BY <1>3, <1>4 DEF ConcernInv, TypeOK

\* An event that adds nothing to the evidence and admits no work: what has to be
\* shown of it is where it leads.
LEMMA KeptStep ==
  ASSUME ConcernInv, NEW next \in States, NEW concern \in Concern,
         NEW time \in 0..MaxTime, AppendEvent(next, concern, time),
         UNCHANGED <<dues, work>>,
         concern.observations = watch.observations,
         concern.admitted = watch.admitted,
         next \in Earned => /\ Outcome(watch.observations) \in Crossing
                            /\ concern.receipt.outcome \in Crossing
                            /\ concern.receipt.count = Len(watch.observations),
         watch.state = "ADMITTED_WORK" <=> next = "ADMITTED_WORK",
         concern.queued = watch.queued,
         concern.active <=> next \notin Terminal
  PROVE  ConcernInv'
<1>1. /\ watch' \in Concern /\ watch'.state = next
      /\ watch'.observations = watch.observations
      /\ watch'.receipt = concern.receipt /\ watch'.admitted = watch.admitted
      /\ watch'.queued = watch.queued /\ watch'.active = concern.active
      /\ drafts' \in [Operators -> Draft] /\ DraftsCurrent'
  BY Appended DEF ConcernInv
<1>2. Backed'
  BY <1>1 DEF Backed
<1>3. WorkShown' /\ QueueShowsWork'
  BY <1>1 DEF ConcernInv, WorkShown, QueueShowsWork
<1> QED
  BY <1>1, <1>2, <1>3 DEF ConcernInv, TypeOK

-----------------------------------------------------------------------------
(* Recording the receipts.                                                  *)

\* A threshold that is recorded was said of the observations there are, so a
\* concern on its way to work is not taken off it.
LEMMA ThresholdStep ==
  ASSUME ConcernInv, NEW o \in Operators, RecordThreshold(o)
  PROVE  ConcernInv'
<1> DEFINE outcome == drafts[o].says
           next == AfterThreshold(outcome)
           receipt == [outcome |-> outcome, count |-> drafts[o].count]
           concern == [watch EXCEPT !.evaluated = TRUE, !.receipt = receipt]
<1>1. /\ drafts[o].kind = "THRESHOLD"
      /\ AppendEvent(next, concern, watch.last)
      /\ UNCHANGED <<dues, work>>
  BY DEF RecordThreshold, Record
<1>2. /\ outcome = Outcome(watch.observations) /\ outcome \in Outcomes
      /\ drafts[o].count = Len(watch.observations)
  BY <1>1, OutcomeType DEF ConcernInv, DraftsCurrent
<1>3. watch \in Concern /\ receipt \in Receipt
  BY <1>2 DEF ConcernInv, TypeOK, Receipt, Draft
<1>4. /\ concern \in Concern /\ concern.receipt = receipt
      /\ concern.observations = watch.observations
      /\ concern.admitted = watch.admitted
      /\ concern.queued = watch.queued /\ concern.active = watch.active
  BY <1>3 DEF Concern
<1>5. LegalTransition(watch.state, next)
  BY <1>1 DEF AppendEvent
<1>6. watch.state \in Earned => outcome \in Crossing
  BY <1>2 DEF ConcernInv, Backed
<1>7. /\ watch.state \notin Earned /\ watch.state \notin Terminal
      /\ next \in {"THRESHOLD_MET", "HELD_UNKNOWN", "ACCUMULATING", "DORMANT_WATCH"}
      /\ next = "THRESHOLD_MET" => outcome \in Crossing
  BY <1>2, <1>5, <1>6, ThresholdLeads
<1>8. next \in States /\ watch.last \in 0..MaxTime
  BY <1>3, <1>7 DEF States, Concern
<1>9. next \in Earned => /\ Outcome(watch.observations) \in Crossing
                         /\ concern.receipt.outcome \in Crossing
                         /\ concern.receipt.count = Len(watch.observations)
  BY <1>2, <1>4, <1>7 DEF Earned
<1>10. /\ watch.state = "ADMITTED_WORK" <=> next = "ADMITTED_WORK"
       /\ concern.active <=> next \notin Terminal
  BY <1>4, <1>7 DEF ConcernInv, QueueShowsWork, Earned, Terminal
<1> HIDE DEF next, concern
<1> QED
  BY <1>1, <1>4, <1>8, <1>9, <1>10, KeptStep

\* A review of a concern that met its threshold.
LEMMA ReviewStep ==
  ASSUME ConcernInv, NEW o \in Operators, RecordReview(o)
  PROVE  ConcernInv'
<1>1. /\ watch.state = "THRESHOLD_MET"
      /\ AppendEvent("ADMISSION_REVIEW", watch, watch.last)
      /\ UNCHANGED <<dues, work>>
  BY DEF RecordReview, Record
<1>2. watch \in Concern /\ watch.last \in 0..MaxTime /\ "ADMISSION_REVIEW" \in States
  BY DEF ConcernInv, TypeOK, Concern, States
<1>3. /\ Outcome(watch.observations) \in Crossing
      /\ watch.receipt.outcome \in Crossing
      /\ watch.receipt.count = Len(watch.observations)
      /\ watch.active
  BY <1>1 DEF ConcernInv, Backed, Earned, QueueShowsWork, Terminal
<1>4. "ADMISSION_REVIEW" \notin Terminal
  BY DEF Terminal
<1> QED
  BY <1>1, <1>2, <1>3, <1>4, KeptStep

\* The one event that admits work: it shows the work in the queue.
LEMMA AdmissionStep ==
  ASSUME ConcernInv, NEW o \in Operators, RecordAdmission(o)
  PROVE  ConcernInv'
<1> DEFINE concern == [watch EXCEPT !.admitted = TRUE, !.queued = TRUE]
<1>1. /\ watch.state = "ADMISSION_REVIEW"
      /\ AppendEvent("ADMITTED_WORK", concern, watch.last)
      /\ UNCHANGED <<dues, work>>
  BY DEF RecordAdmission, Record
<1>2. watch.last \in 0..MaxTime /\ "ADMITTED_WORK" \in States
  BY DEF ConcernInv, TypeOK, Concern, States
<1>3. /\ concern \in Concern /\ concern.queued = TRUE
      /\ concern.observations = watch.observations
      /\ concern.receipt = watch.receipt /\ concern.active = watch.active
  BY DEF ConcernInv, TypeOK, Concern
<1> HIDE DEF concern
<1>4. /\ watch' \in Concern /\ watch'.state = "ADMITTED_WORK"
      /\ watch'.observations = watch.observations
      /\ watch'.receipt = watch.receipt /\ watch'.queued = TRUE
      /\ watch'.active = watch.active
      /\ drafts' \in [Operators -> Draft] /\ DraftsCurrent'
  BY <1>1, <1>2, <1>3, Appended DEF ConcernInv
<1>5. Backed' /\ WorkShown' /\ QueueShowsWork'
  BY <1>1, <1>4
  DEF ConcernInv, Backed, WorkShown, QueueShowsWork, Earned, Terminal
<1> QED
  BY <1>1, <1>4, <1>5 DEF ConcernInv, TypeOK

\* A person is asked before there is work, never while it runs.
LEMMA RequestStep ==
  ASSUME ConcernInv, NEW o \in Operators, RecordRequest(o)
  PROVE  ConcernInv'
<1> DEFINE concern == [watch EXCEPT !.asked = watch.last]
<1>1. /\ watch.state \in Askable
      /\ AppendEvent("WAITING_HUMAN", concern, watch.last)
      /\ UNCHANGED <<dues, work>>
  BY DEF RecordRequest, Record
<1>2. watch.last \in 0..MaxTime /\ "WAITING_HUMAN" \in States
  BY DEF ConcernInv, TypeOK, Concern, States
<1>3. /\ concern \in Concern /\ concern.queued = watch.queued
      /\ concern.observations = watch.observations
      /\ concern.admitted = watch.admitted /\ concern.active = watch.active
  BY DEF ConcernInv, TypeOK, Concern
<1>4. /\ "WAITING_HUMAN" \notin Earned
      /\ watch.state = "ADMITTED_WORK" <=> "WAITING_HUMAN" = "ADMITTED_WORK"
      /\ concern.active <=> "WAITING_HUMAN" \notin Terminal
  BY <1>1, <1>3 DEF ConcernInv, QueueShowsWork, Earned, Terminal, Askable
<1> HIDE DEF concern
<1> QED
  BY <1>1, <1>2, <1>3, <1>4, KeptStep

\* A recovery is recorded on the concern as it is.
LEMMA RecoveryStep ==
  ASSUME ConcernInv, NEW o \in Operators, RecordRecovery(o)
  PROVE  ConcernInv'
<1> DEFINE concern == watch
<1>1. /\ AppendEvent(watch.state, concern, watch.last)
      /\ UNCHANGED <<dues, work>>
  BY DEF RecordRecovery, Record
<1>2. watch.last \in 0..MaxTime /\ watch.state \in States
  BY DEF ConcernInv, TypeOK, Concern
<1>3. /\ concern \in Concern /\ concern.queued = watch.queued
      /\ concern.observations = watch.observations
      /\ concern.receipt = watch.receipt
      /\ concern.admitted = watch.admitted /\ concern.active = watch.active
  BY DEF ConcernInv, TypeOK, Concern
<1>4. concern.active <=> watch.state \notin Terminal
  BY <1>3 DEF ConcernInv, QueueShowsWork
<1> HIDE DEF concern
<1>5. watch.state \in Earned => /\ Outcome(watch.observations) \in Crossing
                                /\ concern.receipt.outcome \in Crossing
                                /\ concern.receipt.count = Len(watch.observations)
  BY <1>3 DEF ConcernInv, Backed
<1> QED
  BY <1>1, <1>2, <1>3, <1>4, <1>5, KeptStep

\* An archived concern was closed before.
LEMMA ArchiveStep ==
  ASSUME ConcernInv, ArchiveConcern
  PROVE  ConcernInv'
<1> DEFINE concern == [watch EXCEPT !.active = FALSE, !.queued = FALSE]
<1>1. /\ watch.state \in {"RESOLVED", "SUPERSEDED"}
      /\ AppendEvent("ARCHIVED", concern, watch.last)
      /\ UNCHANGED <<dues, work>>
  BY DEF ArchiveConcern
<1>2. watch.last \in 0..MaxTime /\ "ARCHIVED" \in States
  BY DEF ConcernInv, TypeOK, Concern, States
<1>3. /\ concern \in Concern /\ concern.queued = FALSE /\ concern.active = FALSE
      /\ concern.observations = watch.observations
      /\ concern.admitted = watch.admitted
  BY DEF ConcernInv, TypeOK, Concern
<1>4. /\ "ARCHIVED" \notin Earned /\ "ARCHIVED" \in Terminal
      /\ watch.state # "ADMITTED_WORK" /\ watch.queued = FALSE
  BY <1>1 DEF ConcernInv, TypeOK, Concern, QueueShowsWork, Earned, Terminal
<1> HIDE DEF concern
<1> QED
  BY <1>1, <1>2, <1>3, <1>4, KeptStep

\* A recurrence begins a new cycle, with its own evidence and no work.
LEMMA ReopenStep ==
  ASSUME ConcernInv, NEW s \in Sources, Reopen(s)
  PROVE  ConcernInv'
<1>1. PICK t \in 0..watch.last :
        watch' = [NewConcern(watch.cycle + 1) EXCEPT
                    !.state = "DORMANT_WATCH", !.last = t,
                    !.observations = <<[of |-> s, at |-> t, again |-> FALSE]>>]
  BY DEF Reopen
<1>2. work' = "OPEN" /\ drafts' = Stale(drafts) /\ UNCHANGED dues
  BY DEF Reopen
<1>3. watch.cycle + 1 \in Nat /\ t \in 0..MaxTime
  BY <1>1, ConcernAssumption DEF ConcernInv, TypeOK, Concern
<1>4. <<[of |-> s, at |-> t, again |-> FALSE]>> \in Seq(Observation)
  BY <1>3 DEF Observation
<1>5. NoReceipt \in Receipt /\ "DORMANT_WATCH" \in States
  BY DEF NoReceipt, Receipt, States, Outcomes
<1>6. 0 \in 0..MaxTime
  BY ConcernAssumption
<1>7. watch' = [cycle |-> watch.cycle + 1, state |-> "DORMANT_WATCH",
                observations |-> <<[of |-> s, at |-> t, again |-> FALSE]>>,
                evaluated |-> FALSE, receipt |-> NoReceipt, admitted |-> FALSE,
                asked |-> 0, recurs |-> FALSE,
                active |-> TRUE, queued |-> FALSE, last |-> t]
  BY <1>1 DEF NewConcern
<1>8. watch' \in Concern
  BY <1>3, <1>4, <1>5, <1>6, <1>7 DEF Concern
<1>9. Backed' /\ WorkShown' /\ QueueShowsWork'
  BY <1>7 DEF Backed, WorkShown, QueueShowsWork, Earned, Terminal
<1> QED
  BY <1>2, <1>8, <1>9, NoneCurrent DEF ConcernInv, TypeOK

-----------------------------------------------------------------------------
(* The invariant.                                                           *)

\* A concern that nobody observed.
LEMMA InitConcern == Init => ConcernInv
<1> SUFFICES ASSUME Init PROVE ConcernInv
  OBVIOUS
<1>1. NoReceipt \in Receipt /\ <<>> \in Seq(Observation) /\ 0 \in 0..MaxTime
  BY ConcernAssumption DEF NoReceipt, Receipt, Outcomes
<1>2. watch \in Concern
  BY <1>1 DEF Init, NewConcern, Concern, States
<1>3. drafts \in [Operators -> Draft] /\ dues \in [Dues -> Due]
  BY <1>1 DEF Init, NoDraft, Draft, Due
<1>4. Backed /\ DraftsCurrent /\ WorkShown /\ QueueShowsWork
  BY DEF Init, NewConcern, NoDraft, Backed, DraftsCurrent, WorkShown,
         QueueShowsWork, Earned, Terminal
<1> QED
  BY <1>2, <1>3, <1>4 DEF ConcernInv, TypeOK, Init

\* Reports and dues.
LEMMA EvidenceStep ==
  ASSUME ConcernInv,
         \/ \E s \in Sources : RecordObservation(s) \/ Reopen(s)
         \/ \E d \in Dues : RecordDue(d)
  PROVE  ConcernInv'
<1>1. ASSUME NEW s \in Sources, RecordObservation(s) PROVE ConcernInv'
  <2>1. PICK t \in Later, again \in BOOLEAN : Observed([of |-> s, at |-> t, again |-> again])
    BY <1>1 DEF RecordObservation
  <2>2. [of |-> s, at |-> t, again |-> again] \in Observation
    BY DEF Later, Observation, ConcernInv, TypeOK, Concern
  <2> QED
    BY <2>1, <2>2, ObservedStep
<1>2. ASSUME NEW s \in Sources, Reopen(s) PROVE ConcernInv'
  BY <1>2, ReopenStep
<1>3. ASSUME NEW d \in Dues, RecordDue(d) PROVE ConcernInv'
  <2>1. PICK t \in dues[d].reached : Observed([of |-> d, at |-> t, again |-> FALSE])
    BY <1>3 DEF RecordDue
  <2>2. [of |-> d, at |-> t, again |-> FALSE] \in Observation
    BY DEF Observation, ConcernInv, TypeOK, Due
  <2> QED
    BY <2>1, <2>2, ObservedStep
<1> QED
  BY <1>1, <1>2, <1>3

\* Operators with their receipts.
LEMMA OperatorStep ==
  ASSUME ConcernInv, NEW o \in Operators,
         \/ FormThreshold(o) \/ FormReview(o) \/ FormAdmission(o)
         \/ FormRequest(o) \/ FormRecovery(o) \/ FormClosure(o) \/ GiveUp(o)
         \/ RecordThreshold(o) \/ RecordReview(o) \/ RecordAdmission(o)
         \/ RecordRequest(o) \/ RecordRecovery(o) \/ RecordClosure(o)
  PROVE  ConcernInv'
<1>1. CASE FormThreshold(o)
  <2>1. Len(watch.observations) \in Nat
    BY DEF ConcernInv, TypeOK, Concern
  <2>2. [kind |-> "THRESHOLD", count |-> Len(watch.observations),
         says |-> Outcome(watch.observations)] \in Draft
    BY <2>1, OutcomeType DEF Draft
  <2> QED
    BY <1>1, <2>1, <2>2, FormStep DEF FormThreshold
<1>2. CASE FormReview(o) \/ FormAdmission(o) \/ FormRequest(o) \/ FormRecovery(o)
  <2>1. ASSUME NEW kind \in {"REVIEW", "ADMISSION", "REQUEST", "RECOVERY"},
               Form(o, kind, "NONE", 0)
        PROVE  ConcernInv'
    <3>1. [kind |-> kind, count |-> 0, says |-> "NONE"] \in Draft
      BY DEF Draft
    <3> QED
      BY <2>1, <3>1, FormStep
  <2> QED
    BY <1>2, <2>1 DEF FormReview, FormAdmission, FormRequest, FormRecovery
<1>3. CASE FormClosure(o)
  <2>1. PICK disposition \in Dispositions : Form(o, "CLOSURE", disposition, 0)
    BY <1>3 DEF FormClosure
  <2>2. [kind |-> "CLOSURE", count |-> 0, says |-> disposition] \in Draft
    BY DEF Draft
  <2> QED
    BY <2>1, <2>2, FormStep
<1>4. CASE GiveUp(o)
  <2>1. /\ drafts' = [drafts EXCEPT ![o] = NoDraft]
        /\ UNCHANGED <<watch, dues, work>>
    BY <1>4 DEF GiveUp
  <2>2. TypeOK' /\ DraftsCurrent'
    BY <2>1 DEF ConcernInv, TypeOK, DraftsCurrent, NoDraft, Draft
  <2> QED
    BY <2>1, <2>2 DEF ConcernInv, Backed, WorkShown, QueueShowsWork
<1>5. CASE RecordClosure(o)
  <2> DEFINE disposition == drafts[o].says
  <2>1. /\ ClosureAccepted
        /\ AppendEvent(StateAfter(disposition), Closed(disposition), watch.last)
        /\ drafts[o].kind = "CLOSURE"
        /\ UNCHANGED <<dues, work>>
    BY <1>5 DEF RecordClosure, Record
  <2>2. watch.last \in 0..MaxTime
    BY DEF ConcernInv, TypeOK, Concern
  <2> QED
    BY <2>1, <2>2, ClosedStep
<1> QED
  BY <1>1, <1>2, <1>3, <1>4, <1>5, ThresholdStep, ReviewStep, AdmissionStep,
     RequestStep, RecoveryStep

\* A due that ends closes a concern that has no work.
LEMMA ReconcileStep ==
  ASSUME ConcernInv, NEW d \in Dues, Reconcile(d)
  PROVE  ConcernInv'
<1> DEFINE disposition == "RESOLVED_NO_RECURRENCE_EXPECTED"
<1>1. /\ ~watch.admitted
      /\ AppendEvent("RESOLVED", Closed(disposition), dues[d].since)
      /\ UNCHANGED <<dues, work>>
  BY DEF Reconcile
<1>2. StateAfter(disposition) = "RESOLVED" /\ ClosureAccepted
  BY <1>1 DEF StateAfter, ClosureAccepted
<1>3. dues[d].since \in 0..MaxTime
  BY DEF ConcernInv, TypeOK, Due
<1> QED
  BY <1>1, <1>2, <1>3, ClosedStep

\* The scheduler and the workgraph leave the concern as it is.
LEMMA SchedulerStep ==
  ASSUME ConcernInv,
         WorkEnds \/ \E d \in Dues : DueReached(d) \/ DueEnded(d)
  PROVE  ConcernInv'
<1>1. watch.last \in 0..MaxTime /\ dues \in [Dues -> Due]
  BY DEF ConcernInv, TypeOK, Concern
<1>2. dues' \in [Dues -> Due] /\ UNCHANGED <<watch, drafts>>
  <2>1. CASE WorkEnds
    BY <1>1, <2>1 DEF WorkEnds
  <2>2. ASSUME NEW d \in Dues, DueReached(d)
        PROVE  dues' \in [Dues -> Due] /\ UNCHANGED <<watch, drafts>>
    <3>1. [phase |-> "DUE", since |-> watch.last, reached |-> {watch.last}] \in Due
      BY <1>1 DEF Due
    <3> QED
      BY <1>1, <2>2, <3>1 DEF DueReached
  <2>3. ASSUME NEW d \in Dues, DueEnded(d)
        PROVE  dues' \in [Dues -> Due] /\ UNCHANGED <<watch, drafts>>
    <3>1. [dues[d] EXCEPT !.phase = "TERMINAL", !.since = watch.last] \in Due
      BY <1>1 DEF Due
    <3> QED
      BY <1>1, <2>3, <3>1 DEF DueEnded
  <2> QED
    BY <2>1, <2>2, <2>3
<1>3. /\ work' \in {"OPEN", "COMPLETED", "FAILED"}
      /\ work' # "COMPLETED" => work # "COMPLETED"
  BY DEF ConcernInv, TypeOK, WorkEnds, DueReached, DueEnded
<1> QED
  BY <1>2, <1>3
  DEF ConcernInv, TypeOK, Backed, DraftsCurrent, WorkShown, QueueShowsWork

\* ConcernInv holds for any sources, dues, operators and limits.
THEOREM ConcernInvariant == Spec => []ConcernInv
<1>1. ConcernInv /\ [Next]_vars => ConcernInv'
  <2> SUFFICES ASSUME ConcernInv, [Next]_vars PROVE ConcernInv'
    OBVIOUS
  <2>1. CASE UNCHANGED vars
    BY <2>1 DEF vars, ConcernInv, TypeOK, Backed, DraftsCurrent, WorkShown,
                QueueShowsWork
  <2>2. CASE Next
    BY <2>2, EvidenceStep, OperatorStep, ReconcileStep, ArchiveStep, SchedulerStep
    DEF Next
  <2> QED
    BY <2>1, <2>2
<1> QED
  BY <1>1, InitConcern, PTL DEF Spec

\* Nothing is on its way to work, or worked on, but on evidence that crosses the
\* threshold and that the last receipt was made of.
THEOREM WorkIsAlwaysEarned == Spec => []WorkIsEarned
<1>1. ConcernInv => WorkIsEarned
  BY CrossingHasEvidence DEF ConcernInv, Backed, WorkIsEarned
<1> QED
  BY <1>1, ConcernInvariant, PTL

\* No closure, hold, request or receipt takes a concern off work that has not
\* completed.
THEOREM WorkNeverOutOfSight == Spec => []WorkStaysInSight
<1>1. ConcernInv => WorkStaysInSight
  BY DEF ConcernInv, WorkShown, QueueShowsWork, WorkStaysInSight, Terminal
<1> QED
  BY <1>1, ConcernInvariant, PTL

\* The two flags that the queue and the projection go by are what the state says.
THEOREM QueueAlwaysShowsWork == Spec => []QueueShowsWork
<1>1. ConcernInv => QueueShowsWork
  BY DEF ConcernInv
<1> QED
  BY <1>1, ConcernInvariant, PTL
=============================================================================
