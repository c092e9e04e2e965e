---------------------------- MODULE ConcernWatch ----------------------------
(***************************************************************************)
(* One watched concern: evidence about one subject accumulates until a     *)
(* threshold turns it into work or into a question for a person, and it    *)
(* is then closed, archived or reopened when the evidence recurs.  The     *)
(* aggregate is the replay of its events, and every receipt that an event  *)
(* carries was formed earlier, by some operator, against the fingerprint   *)
(* that the aggregate had then.  A fingerprint is of the whole history, so *)
(* the next event leaves every other receipt stale, for ever: it can only  *)
(* be refused, and the model forgets it.                                   *)
(*                                                                         *)
(* Time is told only as finely as the code tells it: a unit is the spacing *)
(* that the threshold policy asks for, and it passes when a report is far  *)
(* enough from the event before it.  What happens in between has the time  *)
(* of the last event, as it may in the code, where equal times are legal.  *)
(***************************************************************************)
EXTENDS Integers, Sequences, FiniteSets, FiniteSetsExt

CONSTANTS
  Sources,          \* who reports: a source with its observer and its origin
  Grade,            \* what a source's reports say, by the policy's scores
  MinIndependent,   \* standardActivation: independent sources needed,
  MinRecurrence,    \* the reports needed of them,
  MinScore,         \* and the score they need together
  Dues,             \* the scheduler's dues that the concern may be about
  Operators,        \* callers that form receipts and record them later
  MaxCycles,        \* bound: recurrences
  MaxObservations,  \* bound: observations in one cycle
  MaxTime           \* bound: the times of the reports

\* The scores are those of thresholdPolicy.  critical: the signal class is one
\* that the single-observation rule allows.  deadline to falseAlarm: the policy
\* signals that make up the context score.  human: a decision or a safety matter.
Grades == [model : BOOLEAN, certainty : 0..3, impact : 1..4,
           reversibility : 0..3, critical : BOOLEAN, deadline : 0..2,
           change : 0..2, pressure : 0..2, incident : {0, 2}, waiting : 0..3,
           falseAlarm : 0..2, unknown : BOOLEAN, human : BOOLEAN]

ASSUME ConcernAssumption ==
  /\ Grade \in [Sources -> Grades]
  /\ Sources \cap Dues = {}
  /\ MinIndependent \in Nat \ {0} /\ MinRecurrence \in Nat /\ MinScore \in Nat
  /\ MaxCycles \in Nat \ {0} /\ MaxObservations \in Nat \ {0}
  /\ MaxTime \in Nat

VARIABLES
  watch,   \* the concern aggregate of the current cycle
  drafts,  \* the current receipt each operator has formed and not recorded
  dues,    \* the scheduler's record of each due
  work     \* the state, in the workgraph, of the node that was admitted

vars == <<watch, drafts, dues, work>>

States == {"OBSERVED", "DORMANT_WATCH", "ACCUMULATING", "THRESHOLD_MET",
           "ADMISSION_REVIEW", "ADMITTED_WORK", "WAITING_HUMAN",
           "HELD_UNKNOWN", "RESOLVED", "SUPERSEDED", "ARCHIVED"}
Terminal == {"RESOLVED", "SUPERSEDED", "ARCHIVED"}
Crossing == {"THRESHOLD_MET_ADMISSION_REVIEW", "HUMAN_ATTENTION_REQUIRED"}
Outcomes == Crossing \cup {"WATCH_DORMANT", "EVIDENCE_REQUIRED", "HELD_UNKNOWN"}

\* lifecycleContract.legalTransitions: the states that may follow each state.
Watching == {"DORMANT_WATCH", "ACCUMULATING", "THRESHOLD_MET", "HELD_UNKNOWN"}
LegalTransition(prior, next) ==
  \/ prior \in {"OBSERVED", "DORMANT_WATCH", "ACCUMULATING"} /\ next \in Watching
  \/ prior = "THRESHOLD_MET"
     /\ next \in {"ADMISSION_REVIEW", "WAITING_HUMAN", "HELD_UNKNOWN"}
  \/ prior = "ADMISSION_REVIEW"
     /\ next \in {"ADMITTED_WORK", "WAITING_HUMAN", "HELD_UNKNOWN"}
  \/ prior = "ADMITTED_WORK"
     /\ next \in {"ADMITTED_WORK", "WAITING_HUMAN", "HELD_UNKNOWN", "RESOLVED",
                  "SUPERSEDED"}
  \/ prior = "WAITING_HUMAN"
     /\ next \in {"ADMISSION_REVIEW", "ADMITTED_WORK", "HELD_UNKNOWN",
                  "RESOLVED", "SUPERSEDED"}
  \/ prior = "HELD_UNKNOWN"
     /\ next \in {"ACCUMULATING", "ADMISSION_REVIEW", "WAITING_HUMAN",
                  "RESOLVED", "SUPERSEDED"}
  \/ prior \in {"RESOLVED", "SUPERSEDED"} /\ next = "ARCHIVED"

\* again: it reports anew what its source has reported before (the same recurrence
\* identity under another evidence reference).
Observation == [of : Sources \cup Dues, at : 0..MaxTime, again : BOOLEAN]
\* count: how many observations the statistics of a receipt were made of.
Receipt == [outcome : Outcomes, count : Nat]
NoReceipt == [outcome |-> "WATCH_DORMANT", count |-> 0]

\* A false positive and an accepted risk close a concern as the first does.
Dispositions == {"RESOLVED_NO_RECURRENCE_EXPECTED", "RESOLVED_WATCH_FOR_RECURRENCE",
                 "SUPERSEDED_BY_EXACT_SUCCESSOR", "HELD_UNKNOWN"}

\* evaluated: there is a threshold receipt, and receipt is the last one.
\* admitted: there is a scheduler admission.  asked: when the last request for
\* attention was formed.  recurs: the last closure watches for a recurrence.
\* queued: queuePriorityActive.
Concern == [cycle : Nat, state : States, observations : Seq(Observation),
            evaluated : BOOLEAN, receipt : Receipt, admitted : BOOLEAN,
            asked : 0..MaxTime, recurs : BOOLEAN, active : BOOLEAN, queued : BOOLEAN,
            last : 0..MaxTime]

\* A receipt in an operator's hand: what it is, what it says, and how many
\* observations that rests on.  Its time is that of the last event before it.
Draft == [kind : {"NONE", "THRESHOLD", "REVIEW", "ADMISSION", "REQUEST",
                  "RECOVERY", "CLOSURE"},
          count : Nat, says : Outcomes \cup Dispositions \cup {"NONE"}]
NoDraft == [kind |-> "NONE", count |-> 0, says |-> "NONE"]
\* since: when the due came into its phase.  reached: when it became DUE, if it did.
Due == [phase : {"SCHEDULED", "DUE", "TERMINAL"}, since : 0..MaxTime,
        reached : SUBSET (0..MaxTime)]

TypeOK ==
  /\ watch \in Concern
  /\ drafts \in [Operators -> Draft]
  /\ dues \in [Dues -> Due]
  /\ work \in {"OPEN", "COMPLETED", "FAILED"}

-----------------------------------------------------------------------------
(* What the observations amount to.  Reports of a model never count as      *)
(* evidence; its reports still raise unknowns and still ask for a person.   *)

IsDue(observation) == observation.of \in Dues
Reports(seq) == {i \in DOMAIN seq : ~IsDue(seq[i])}
Eligible(seq) == {i \in Reports(seq) : ~Grade[seq[i].of].model}
Independent(seq) == {seq[i].of : i \in Eligible(seq)}
Best(score, seq) == Max({Grade[seq[i].of][score] : i \in Eligible(seq)})

\* Repeated evidence is no recurrence: the first report of it counts.
Recurrent(seq) == {i \in Eligible(seq) : ~seq[i].again}

\* Every report is an event of its own: two of the same tick are too close.
Spaced(seq) ==
  \A i, j \in Recurrent(seq) : i < j => seq[i].at < seq[j].at

ContextScore(seq) ==
  Best("deadline", seq) + Best("change", seq) + Best("pressure", seq)
    + Best("incident", seq) + Best("waiting", seq) - Best("falseAlarm", seq)

StandardCrossed(seq) ==
  /\ Cardinality(Independent(seq)) >= MinIndependent
  /\ Cardinality(Recurrent(seq)) >= MinRecurrence
  /\ Spaced(seq)
  /\ Best("certainty", seq) >= 2
  /\ Best("impact", seq) >= 2
  /\ Cardinality(Independent(seq)) + Best("certainty", seq) + Best("impact", seq)
       + Best("reversibility", seq) + ContextScore(seq) >= MinScore

\* One verified report of something critical that cannot be undone.
HighConsequence(seq) ==
  \E i \in Eligible(seq) :
    /\ Grade[seq[i].of].critical
    /\ Grade[seq[i].of].certainty >= 3
    /\ Grade[seq[i].of].impact >= 4
    /\ Grade[seq[i].of].reversibility \in {2, 3}

DueAttention(seq) == \E i \in DOMAIN seq : IsDue(seq[i])
HumanRequired(seq) == \E i \in Reports(seq) : Grade[seq[i].of].human
UnknownAndHigh(seq) ==
  /\ \E i \in Reports(seq) : Grade[seq[i].of].unknown
  /\ \E i \in Eligible(seq) : Grade[seq[i].of].impact >= 3

\* thresholdDecision: the first rule that applies.
Outcome(seq) ==
  IF DueAttention(seq) THEN "HUMAN_ATTENTION_REQUIRED"
  ELSE IF HighConsequence(seq) \/ StandardCrossed(seq)
       THEN IF HumanRequired(seq) THEN "HUMAN_ATTENTION_REQUIRED"
            ELSE "THRESHOLD_MET_ADMISSION_REVIEW"
  ELSE IF UnknownAndHigh(seq) THEN "HELD_UNKNOWN"
  ELSE IF Len(seq) > 1 THEN "EVIDENCE_REQUIRED"
  ELSE "WATCH_DORMANT"

-----------------------------------------------------------------------------
(* Appending an event: replay accepts it when the transition is legal and   *)
(* its time is not before that of the last event.                           *)

\* Defective variant: a receipt formed before an event is still accepted.
StaleKept(held) == held

\* The fingerprint checks: no receipt held by an operator is current after an
\* event.
Stale(held) == [o \in DOMAIN held |-> NoDraft]

AppendEvent(next, concern, time) ==
  /\ LegalTransition(watch.state, next)
  /\ time >= watch.last
  /\ watch' = [concern EXCEPT !.state = next, !.last = time]
  /\ drafts' = Stale(drafts)

Observed(observation) ==
  /\ Len(watch.observations) < MaxObservations
  /\ AppendEvent(IF watch.observations = <<>> THEN "DORMANT_WATCH" ELSE "ACCUMULATING",
                 [watch EXCEPT !.observations = Append(@, observation)],
                 observation.at)
  /\ UNCHANGED <<dues, work>>

\* createConcernAggregate.
NewConcern(cycle) ==
  [cycle |-> cycle, state |-> "OBSERVED", observations |-> <<>>,
   evaluated |-> FALSE, receipt |-> NoReceipt, admitted |-> FALSE, asked |-> 0,
   recurs |-> FALSE, active |-> TRUE, queued |-> FALSE,
   last |-> 0]

Init ==
  /\ watch = NewConcern(1)
  /\ drafts = [o \in Operators |-> NoDraft]
  /\ dues = [d \in Dues |-> [phase |-> "SCHEDULED", since |-> 0, reached |-> {}]]
  /\ work = "OPEN"

\* Times count from the first report.
Later == IF watch.observations = <<>> THEN {watch.last}
         ELSE {watch.last, watch.last + 1} \cap 0..MaxTime

\* recordConcernObservation: a report soon after the last event, or later.  One
\* from before that event is refused; the same report again, or one without new
\* evidence, changes nothing.
RecordObservation(s) ==
  \E t \in Later, again \in BOOLEAN :
    /\ again => \E i \in DOMAIN watch.observations : watch.observations[i].of = s
    /\ Observed([of |-> s, at |-> t, again |-> again])

\* recordSchedulerDueConcernObservation: the due has to be DUE in the scheduler
\* aggregate presented, be it an old one, and is observed at the time it was
\* reached.  Every aggregate is new evidence, so it may be recorded again.
RecordDue(d) ==
  \E t \in dues[d].reached : Observed([of |-> d, at |-> t, again |-> FALSE])

-----------------------------------------------------------------------------
(* Receipts: formed against the aggregate of the moment, recorded later.    *)

Form(o, kind, says, count) ==
  /\ drafts[o] = NoDraft
  /\ drafts' = [drafts EXCEPT ![o] =
       [kind |-> kind, count |-> count, says |-> says]]
  /\ UNCHANGED <<watch, dues, work>>

\* evaluateConcernThreshold.
FormThreshold(o) ==
  Form(o, "THRESHOLD", Outcome(watch.observations), Len(watch.observations))

\* formConcernAdmissionReview.
FormReview(o) == watch.state = "THRESHOLD_MET" /\ Form(o, "REVIEW", "NONE", 0)

\* createConcernSchedulerAdmissionReceipt, with a scheduler queue that selects
\* the reviewed node.
FormAdmission(o) == watch.state = "ADMISSION_REVIEW" /\ Form(o, "ADMISSION", "NONE", 0)

\* createHumanAttentionRequest.
Askable == {"THRESHOLD_MET", "ADMISSION_REVIEW", "HELD_UNKNOWN"}
FormRequest(o) ==
  /\ watch.evaluated /\ watch.state \in Askable
  /\ Form(o, "REQUEST", "NONE", 0)

\* createRecoveryConcernEvidence, of a failure of the admitted work.  What it and a
\* closure say of the work is stated by the caller: the model's callers, here and
\* in ClosureAccepted, say what is so.
FormRecovery(o) ==
  /\ watch.admitted /\ work # "COMPLETED"
  /\ Form(o, "RECOVERY", "NONE", 0)

\* Defective variant: failed work counts as ended, and its concern may be closed.
ClosureAcceptedWhenEnded == watch.admitted => work # "OPEN"

\* validateClosure: admitted work has to be completed, whatever the disposition.
ClosureAccepted == watch.admitted => work = "COMPLETED"

\* createConcernClosureReceipt.
FormClosure(o) ==
  \E disposition \in Dispositions :
    ClosureAccepted /\ Form(o, "CLOSURE", disposition, 0)

\* An operator gives its receipt up.
GiveUp(o) ==
  /\ drafts[o] # NoDraft
  /\ drafts' = [drafts EXCEPT ![o] = NoDraft]
  /\ UNCHANGED <<watch, dues, work>>

Record(o, kind) ==
  /\ drafts[o].kind = kind
  /\ UNCHANGED <<dues, work>>

\* applyThreshold: where an outcome leads.
AfterThreshold(outcome) ==
  IF outcome \in Crossing THEN "THRESHOLD_MET"
  ELSE IF outcome = "HELD_UNKNOWN" THEN "HELD_UNKNOWN"
  ELSE IF outcome = "EVIDENCE_REQUIRED" /\ Len(watch.observations) > 1
       THEN "ACCUMULATING"
  ELSE "DORMANT_WATCH"

\* assertThresholdReceipt forms the receipt again from the current aggregate,
\* which gives the same for a receipt that is current.
RecordThreshold(o) ==
  LET draft == drafts[o] IN
  /\ Record(o, "THRESHOLD")
  /\ AppendEvent(AfterThreshold(draft.says),
                 [watch EXCEPT !.evaluated = TRUE,
                    !.receipt = [outcome |-> draft.says, count |-> draft.count]],
                 watch.last)

RecordReview(o) ==
  /\ watch.state = "THRESHOLD_MET"
  /\ Record(o, "REVIEW")
  /\ AppendEvent("ADMISSION_REVIEW", watch, watch.last)

\* applySchedulerAdmission: one admission for each cycle.
RecordAdmission(o) ==
  /\ watch.state = "ADMISSION_REVIEW" /\ ~watch.admitted
  /\ Record(o, "ADMISSION")
  /\ AppendEvent("ADMITTED_WORK", [watch EXCEPT !.admitted = TRUE, !.queued = TRUE],
                 watch.last)

RecordRequest(o) ==
  /\ watch.state \in Askable
  /\ Record(o, "REQUEST")
  /\ AppendEvent("WAITING_HUMAN", [watch EXCEPT !.asked = watch.last], watch.last)

\* A failure that is on record already changes nothing; the work may have others.
RecordRecovery(o) ==
  /\ watch.state \in {"ADMITTED_WORK", "WAITING_HUMAN", "HELD_UNKNOWN"}
  /\ watch.admitted
  /\ Record(o, "RECOVERY")
  /\ AppendEvent(watch.state, watch, watch.last)

\* applyClosure.
StateAfter(disposition) ==
  IF disposition = "HELD_UNKNOWN" THEN "HELD_UNKNOWN"
  ELSE IF disposition = "SUPERSEDED_BY_EXACT_SUCCESSOR" THEN "SUPERSEDED"
  ELSE "RESOLVED"

\* Defective variant: closing leaves the queue priority as it is.
ClosedQueued(disposition) ==
  [watch EXCEPT !.recurs = disposition = "RESOLVED_WATCH_FOR_RECURRENCE",
                !.active = disposition = "HELD_UNKNOWN"]

Closed(disposition) ==
  [watch EXCEPT !.recurs = disposition = "RESOLVED_WATCH_FOR_RECURRENCE",
                !.active = disposition = "HELD_UNKNOWN", !.queued = FALSE]

RecordClosure(o) ==
  LET disposition == drafts[o].says IN
  /\ watch.state \notin Terminal
  /\ ClosureAccepted
  /\ Record(o, "CLOSURE")
  /\ AppendEvent(StateAfter(disposition), Closed(disposition), watch.last)

-----------------------------------------------------------------------------
(* Operations that form and record at once.                                 *)

\* reconcileSchedulerDueConcern: the due that the last due observation is about
\* has ended, and not before the person was asked.
Reconcile(d) ==
  /\ watch.state = "WAITING_HUMAN"
  /\ \E i \in DOMAIN watch.observations :
       /\ watch.observations[i].of = d
       /\ \A j \in DOMAIN watch.observations :
            j > i => ~IsDue(watch.observations[j])
  /\ dues[d].phase = "TERMINAL"
  /\ dues[d].since >= watch.asked
  /\ ~watch.admitted   \* it presents no completion
  /\ AppendEvent("RESOLVED", Closed("RESOLVED_NO_RECURRENCE_EXPECTED"), dues[d].since)
  /\ UNCHANGED <<dues, work>>

ArchiveConcern ==
  /\ watch.state \in {"RESOLVED", "SUPERSEDED"}
  /\ AppendEvent("ARCHIVED", [watch EXCEPT !.active = FALSE, !.queued = FALSE], watch.last)
  /\ UNCHANGED <<dues, work>>

\* reopenConcernFromRecurrence: a new aggregate, of the next cycle, that begins
\* with the report; its times are compared with nothing of the prior cycle.  Its
\* work is another node.
Reopen(s) ==
  /\ watch.state = "RESOLVED" /\ watch.recurs
  /\ watch.cycle < MaxCycles
  /\ \E t \in 0..watch.last :
       watch' = [NewConcern(watch.cycle + 1) EXCEPT
                   !.state = "DORMANT_WATCH", !.last = t,
                   !.observations = <<[of |-> s, at |-> t, again |-> FALSE]>>]
  /\ work' = "OPEN"
  /\ drafts' = Stale(drafts)
  /\ UNCHANGED <<dues>>

-----------------------------------------------------------------------------
(* The scheduler and the workgraph.                                         *)

DueReached(d) ==
  /\ dues[d].phase = "SCHEDULED"
  /\ dues' = [dues EXCEPT ![d] = [phase |-> "DUE", since |-> watch.last,
                                  reached |-> {watch.last}]]
  /\ UNCHANGED <<watch, drafts, work>>

\* Settled, cancelled or superseded.
DueEnded(d) ==
  /\ dues[d].phase # "TERMINAL"
  /\ dues' = [dues EXCEPT ![d].phase = "TERMINAL", ![d].since = watch.last]
  /\ UNCHANGED <<watch, drafts, work>>

WorkEnds ==
  /\ watch.admitted /\ work = "OPEN"
  /\ work' \in {"COMPLETED", "FAILED"}
  /\ UNCHANGED <<watch, drafts, dues>>

Next ==
  \/ \E s \in Sources : RecordObservation(s) \/ Reopen(s)
  \/ \E d \in Dues :
       RecordDue(d) \/ Reconcile(d) \/ DueReached(d) \/ DueEnded(d)
  \/ \E o \in Operators :
       \/ FormThreshold(o) \/ FormReview(o) \/ FormAdmission(o)
       \/ FormRequest(o) \/ FormRecovery(o) \/ FormClosure(o) \/ GiveUp(o)
       \/ RecordThreshold(o) \/ RecordReview(o) \/ RecordAdmission(o)
       \/ RecordRequest(o) \/ RecordRecovery(o) \/ RecordClosure(o)
  \/ ArchiveConcern \/ WorkEnds

Spec == Init /\ [][Next]_vars

-----------------------------------------------------------------------------
(* What has to hold.                                                        *)

Earned == {"THRESHOLD_MET", "ADMISSION_REVIEW", "ADMITTED_WORK"}

\* Work is admitted only on evidence: while a concern is on its way to work, the
\* last receipt crossed the threshold on every observation there is, and these
\* include a due, one critical report or enough independent sources, none of them
\* a model.  No receipt that was formed before an observation counts.
WorkIsEarned ==
  watch.state \in Earned =>
    /\ watch.receipt.outcome \in Crossing
    /\ watch.receipt.count = Len(watch.observations)
    /\ \/ \E i \in DOMAIN watch.observations : IsDue(watch.observations[i])
       \/ \E i \in Eligible(watch.observations) :
            Grade[watch.observations[i].of].critical
       \/ Cardinality(Independent(watch.observations)) >= MinIndependent

\* Admitted work that has not completed is never out of sight: no closure, hold,
\* request or receipt of another operator takes the concern away from it.
WorkStaysInSight ==
  watch.admitted /\ work # "COMPLETED" =>
    watch.state = "ADMITTED_WORK" /\ watch.queued /\ watch.active

\* A concern has priority in the queue exactly while it has admitted work, and it
\* is active exactly until it is resolved, superseded or archived.
QueueShowsWork ==
  /\ watch.queued <=> watch.state = "ADMITTED_WORK"
  /\ watch.active <=> watch.state \notin Terminal
=============================================================================
