----------------------------- MODULE Scheduler ------------------------------
(***************************************************************************)
(* The life cycle of SingleWorkerIntentScheduler                           *)
(* (src/core/intent-scheduler.mjs) over the aggregate that                 *)
(* reduceSchedulerAggregate (src/core/state.mjs) maintains: admission,     *)
(* lease, preemption, checkpoint, resume, recovery claims, completion,     *)
(* cancellation and restart, with the pending roots of PendingRoots.       *)
(*                                                                         *)
(* One action is one method call that commits.  A call that throws before  *)
(* it changes anything is no step; a call that throws after it has changed *)
(* the worker authority, which lives outside the aggregate, is a step of   *)
(* its own (the actions named Rejected).                                   *)
(*                                                                         *)
(* Abstracted: a Workgraph is the intent whose node its admission selects; *)
(* the six leases move together and are one entry of `leases`, `expires`   *)
(* being the earliest of their expiries; an admission that selects nothing *)
(* is BLOCKED (IDLE, its other name, is treated alike by every method).    *)
(* Tool calls and due records are separate components, and the byte        *)
(* budgets of the claim ledger are left out.                               *)
(***************************************************************************)
EXTENDS PendingRoots, Sequences, SequencesExt

CONSTANTS
  MaxTime,                  \* bound of the model on the canonical clock
  MaxCheckpoints,           \* bound of the model on the checkpoints formed
  RejectsCheckpoints,       \* callers may present a malformed checkpoint input
  Restarts,                 \* the host may restart
  Recovers,                 \* runtime recovery claims checkpoints
  None                      \* null

ASSUME SchedulerAssumption ==
  /\ MaxTime \in Nat
  /\ MaxCheckpoints \in Nat
  /\ {RejectsCheckpoints, Restarts, Recovers} \subseteq BOOLEAN

VARIABLES
  phase,
  queue,            \* the admission in force [state, gen, work, at, root], or None
  active,           \* the active worker lease [gen, work, expires], or None
  pending,          \* pendingPreemption [gen, work, at, root], or None
  checkpoints,      \* canonicalCheckpoints with their current pointers, in order
  continuations,    \* the checkpoints of preempted work, oldest first
  claims,           \* recoveryClaimLedger
  clock,            \* observedClock [at, event]
  leases,           \* leaseLedger: generation -> the worker lease's lifecycle
  held              \* WorkerLeaseAuthority (in memory): generation held, or 0

aggregateVars == <<phase, generation, queue, active, pending, checkpoints,
                   continuations, claims, clock, leases, roots, ledger>>
lifeVars == <<phase, queue, active, pending, checkpoints, continuations,
              claims, clock, leases>>
vars == <<aggregateVars, held>>

Times == 0..MaxTime
Queue == [state: {"ADMITTED", "BLOCKED", "PAUSED", "COMPLETED", "CANCELLED"},
          gen: 1..MaxGeneration, work: Intents, at: Times, root: Root \cup {None}]
Preemption == [gen: 1..MaxGeneration, work: Intents, at: Times, root: Root \cup {None}]
Lease == [gen: 1..MaxGeneration, work: Intents, expires: 1..MaxTime + 1]
Checkpointed == [work: Intents, gen: 1..MaxGeneration, at: Times,
                 pointer: {"PAUSED_AT_CHECKPOINT", "RESUMED", "RECOVERY_TERMINALLY_HELD"}]
Edge == [type: {"CLAIMED_CURRENT", "RESUMED_CONSUMED", "TERMINAL_CONSUMED",
                "INVALIDATED_OR_ABANDONED"},
         cp: 1..MaxCheckpoints, gen: 1..MaxGeneration, at: Times]

\* null is none of the records it stands in for.
ASSUME NoneAssumption ==
  /\ None \notin Queue /\ None \notin Preemption /\ None \notin Lease /\ None \notin Root

-----------------------------------------------------------------------------
(* Guards shared by several methods. *)

\* A defective variant that lets a generation be used again.
FreshAgain(g) == g >= generation

\* A generation passed by the caller, or the next one by default.
Fresh(g) == g > generation

\* WorkerLeaseAuthority.claim admits the lease it already holds again.
Claimable(g) == held \in {0, g}

\* A defective variant that takes a resumed checkpoint for a paused one.
PausedUnlessHeld(c) ==
  c \in DOMAIN checkpoints /\ checkpoints[c].pointer # "RECOVERY_TERMINALLY_HELD"

Paused(c) ==
  c \in DOMAIN checkpoints /\ checkpoints[c].pointer = "PAUSED_AT_CHECKPOINT"

\* #transitionActiveLeases: every lease is current at t and the authority
\* holds the worker lease; otherwise it throws.
Releasable(t) ==
  /\ active # None
  /\ t >= clock.at
  /\ t < active.expires
  /\ held = active.gen

-----------------------------------------------------------------------------
(* The recovery claim ledger and its replay.                               *)

\* The positions of the edges of c, and the last of them.
EdgesOf(c) == {k \in DOMAIN claims : claims[k].cp = c}
LastEdge(c) == claims[CHOOSE k \in EdgesOf(c) : \A j \in EdgesOf(c) : j <= k]
ClaimState(c) == IF EdgesOf(c) = {} THEN "NONE" ELSE LastEdge(c).type
ClaimTime(c) == LastEdge(c).at

\* What the replay requires of the state that follows the edge e: the state
\* slice, taken for the checkpoint c, of the next edge or of a restore.
Follows(e, c) ==
  LET pointer == checkpoints[e.cp].pointer
      clockIs(event) == clock = [at |-> e.at, event |-> event]
  IN  \/ /\ e.type = "CLAIMED_CURRENT"
         /\ c = e.cp
         /\ pointer = "PAUSED_AT_CHECKPOINT"
      \/ /\ e.type = "RESUMED_CONSUMED"
         /\ c = e.cp
         /\ phase = "RUNNING"
         /\ active.gen = e.gen
         /\ clockIs("resume")
      \/ /\ e.type = "TERMINAL_CONSUMED"
         /\ phase \in {"COMPLETED", "CONTINUATION_READY"}
         /\ queue.gen = e.gen
         /\ clockIs("complete")
      \/ /\ e.type = "INVALIDATED_OR_ABANDONED"
         /\ c = e.cp
         /\ phase = "BLOCKED"
         /\ clockIs("disposition")

\* The ledger takes another edge for the checkpoint c.
Appendable(c) == claims # <<>> => Follows(Last(claims), c)

\* The aggregate is one that createIntentSchedulerState restores.
Restorable == claims # <<>> => Follows(Last(claims), Last(claims).cp)

\* The resumed recovery claim that the active lease belongs to.
Matched ==
  {c \in DOMAIN checkpoints :
     /\ ClaimState(c) = "RESUMED_CONSUMED"
     /\ LastEdge(c).gen = active.gen
     /\ checkpoints[c].work = active.work}

NewEdge(type, c, g, t) ==
  claims' = Append(claims, [type |-> type, cp |-> c, gen |-> g, at |-> t])

-----------------------------------------------------------------------------
(* Pending roots.                                                          *)

\* What an admission of w's graph is bound to: the root selected now, which
\* must be w's, and nothing when no root is pending.
Bindings(w) ==
  IF roots = {} THEN {None}
  ELSE {r \in roots : IsCurrentSelection(r) /\ r.intent = w}

\* resolvePendingRootQueueBinding: the root is still queued exactly as it was
\* when it was bound, and it is still the one selected.
StillSelected(root) == root \in roots /\ IsCurrentSelection(root)

\* consumePendingRootSelection of the root that the admission is bound to.
ConsumeBound(root) ==
  IF root = None THEN UNCHANGED <<roots, ledger>> ELSE Consume(root)

EnqueueRoot(i, p, c) ==
  /\ Enqueue(i, p, c)
  /\ UNCHANGED <<lifeVars, generation, held>>

CancelQueuedRoot(r, requester) ==
  /\ CancelQueued(r, requester)
  /\ UNCHANGED <<lifeVars, generation, held>>

-----------------------------------------------------------------------------
(* Admission and lease.                                                    *)

\* A defective variant that takes the root out of the queue on admission.
AdmitConsuming(g, w, t, outcome, root) ==
  /\ active = None
  /\ phase # "PAUSED"
  /\ t >= clock.at
  /\ Fresh(g)
  /\ root \in Bindings(w)
  /\ phase' = outcome
  /\ generation' = g
  /\ queue' = [state |-> outcome, gen |-> g, work |-> w, at |-> t, root |-> root]
  /\ pending' = None
  /\ clock' = [at |-> t, event |-> "admit"]
  /\ ConsumeBound(root)
  /\ UNCHANGED <<active, checkpoints, continuations, claims, leases, held>>

Admit(g, w, t, outcome, root) ==
  /\ active = None
  /\ phase # "PAUSED"
  /\ t >= clock.at
  /\ Fresh(g)
  /\ root \in Bindings(w)
  /\ phase' = outcome
  /\ generation' = g
  /\ queue' = [state |-> outcome, gen |-> g, work |-> w, at |-> t, root |-> root]
  /\ pending' = None
  /\ clock' = [at |-> t, event |-> "admit"]
  /\ UNCHANGED <<active, checkpoints, continuations, claims, leases, roots, ledger, held>>

\* #formActive claims the worker, and LEASED or RESUMED records the lease.
Occupy(g, w, expires) ==
  /\ Claimable(g)
  /\ held' = g
  /\ active' = [gen |-> g, work |-> w, expires |-> expires]
  /\ leases' = [leases EXCEPT ![g] = "ACTIVE"]
  /\ phase' = "RUNNING"

\* A defective variant that leases an admission made before the roots queued.
LeaseSelectedUnbound(expires) ==
  /\ active = None
  /\ queue # None
  /\ queue.state = "ADMITTED"
  /\ queue.root # None => StillSelected(queue.root)
  /\ expires > queue.at
  /\ Occupy(queue.gen, queue.work, expires)
  /\ ConsumeBound(queue.root)
  /\ UNCHANGED <<generation, queue, pending, checkpoints, continuations, claims, clock>>

\* The lease is checked against the time of the admission, not the clock's.
LeaseSelected(expires) ==
  /\ active = None
  /\ queue # None
  /\ queue.state = "ADMITTED"
  /\ IF queue.root = None THEN roots = {} ELSE StillSelected(queue.root)
  /\ expires > queue.at
  /\ Occupy(queue.gen, queue.work, expires)
  /\ ConsumeBound(queue.root)
  /\ UNCHANGED <<generation, queue, pending, checkpoints, continuations, claims, clock>>

\* requestPreemption with an interactive admission of w's graph made at t, and
\* requestPendingRootPreemption when it is bound to the selected root.
RequestPreemption(g, w, t, root) ==
  /\ active # None
  /\ Fresh(g)
  /\ root # None =>
       /\ root \in Bindings(w)
       /\ root.class = "INTERACTIVE"
       /\ t >= clock.at
  /\ pending' = [gen |-> g, work |-> w, at |-> t, root |-> root]
  /\ UNCHANGED <<phase, generation, queue, active, checkpoints, continuations,
                 claims, clock, leases, roots, ledger, held>>

-----------------------------------------------------------------------------
(* The active lease ends.                                                  *)

\* A defective variant that does not update the lease ledger.
EndLeaseUnrecorded(lifecycle, state, t, event) ==
  /\ Releasable(t)
  /\ held' = 0
  /\ active' = None
  /\ leases' = leases
  /\ queue' = [queue EXCEPT !.state = state]
  /\ clock' = [at |-> t, event |-> event]

\* The worker is given up and the admission consumed.
EndLease(lifecycle, state, t, event) ==
  /\ Releasable(t)
  /\ held' = 0
  /\ active' = None
  /\ leases' = [leases EXCEPT ![active.gen] = lifecycle]
  /\ queue' = [queue EXCEPT !.state = state]
  /\ clock' = [at |-> t, event |-> event]

Checkpoint(t) ==
  /\ Len(checkpoints) < MaxCheckpoints
  /\ EndLease("RELEASED", "PAUSED", t, "checkpoint")
  /\ phase' = "PAUSED"
  /\ checkpoints' = Append(checkpoints,
       [work |-> active.work, gen |-> active.gen, at |-> t,
        pointer |-> "PAUSED_AT_CHECKPOINT"])
  /\ continuations' = IF pending = None THEN continuations
                      ELSE Append(continuations, Len(checkpoints) + 1)
  /\ UNCHANGED <<generation, pending, claims, roots, ledger>>

\* A defective variant that forgets the preempted work.
ExposedNothing(state) == state

\* What phase the end of the foreground work exposes.
Exposed(state) == IF continuations = <<>> THEN state ELSE "CONTINUATION_READY"

\* completeActive closes the recovery claim of the work it ends; the ledger
\* must take the edge.
ClaimCloses(t) == \A c \in Matched : Appendable(c) /\ t > ClaimTime(c)

CompleteActive(t) ==
  /\ EndLease("RELEASED", "COMPLETED", t, "complete")
  /\ ClaimCloses(t)
  /\ phase' = Exposed("COMPLETED")
  /\ IF Matched = {} THEN UNCHANGED claims
     ELSE \E c \in Matched : NewEdge("TERMINAL_CONSUMED", c, active.gen, t)
  /\ UNCHANGED <<generation, pending, checkpoints, continuations, roots, ledger>>

\* cancelActive.  The edge it forms for a recovery claim carries a queue whose
\* lifecycle is CANCELLED, and the replay accepts only CLOSED.
CancelActive(t) ==
  /\ EndLease("CANCELLED", "CANCELLED", t, "cancel")
  /\ Matched = {}
  /\ phase' = Exposed("CANCELLED")
  /\ UNCHANGED <<generation, pending, checkpoints, continuations, claims, roots, ledger>>

\* The three methods throw after the authority has released the worker, and
\* the aggregate keeps the active lease: the checkpoint input is malformed, or
\* the ledger refuses the edge of a completion or a cancellation.
ReleaseRejected(t) ==
  /\ Releasable(t)
  /\ held' = 0
  /\ UNCHANGED aggregateVars

CheckpointRejected(t) == RejectsCheckpoints /\ ReleaseRejected(t)
CompleteRejected(t) == ReleaseRejected(t) /\ ~ClaimCloses(t)
CancelRejected(t) == ReleaseRejected(t) /\ Matched # {}

-----------------------------------------------------------------------------
(* Paused work goes on.                                                    *)

Resumable(c, g, t) ==
  /\ active = None
  /\ phase \in {"PAUSED", "CONTINUATION_READY"}
  /\ t >= clock.at
  /\ Paused(c)
  /\ Fresh(g)

\* The commit RESUMED of an admission of w's graph.
Run(g, w, t, root, expires) ==
  /\ expires > t
  /\ Occupy(g, w, expires)
  /\ generation' = g
  /\ queue' = [state |-> "ADMITTED", gen |-> g, work |-> w, at |-> t, root |-> root]
  /\ pending' = None
  /\ clock' = [at |-> t, event |-> "resume"]
  /\ ConsumeBound(root)

\* The list without c, which stands in it once at most.
Without(list, c) ==
  IF \E k \in DOMAIN list : list[k] = c
  THEN LET here == CHOOSE k \in DOMAIN list : list[k] = c
       IN  [k \in 1..Len(list) - 1 |-> list[IF k < here THEN k ELSE k + 1]]
  ELSE list

\* A defective variant that leaves the resumed work among the continuations.
AdvanceKeeping(c, g, t, expires) ==
  /\ Resumable(c, g, t)
  /\ t > checkpoints[c].at
  /\ Run(g, checkpoints[c].work, t, None, expires)
  /\ checkpoints' = [checkpoints EXCEPT ![c].pointer = "RESUMED", ![c].at = t]
  /\ UNCHANGED continuations

\* The checkpoint's own work runs again and its pointer moves, strictly later.
Advance(c, g, t, expires) ==
  /\ Resumable(c, g, t)
  /\ t > checkpoints[c].at
  /\ Run(g, checkpoints[c].work, t, None, expires)
  /\ checkpoints' = [checkpoints EXCEPT ![c].pointer = "RESUMED", ![c].at = t]
  /\ continuations' = Without(continuations, c)

\* resume and resumeContinuation without recovery evidence.
Resume(c, g, t, expires) ==
  /\ Advance(c, g, t, expires)
  /\ UNCHANGED claims

\* resume with the evidence of the claim that owns the checkpoint.
RecoveryAccepts(c, t) ==
  /\ ClaimState(c) = "CLAIMED_CURRENT"
  /\ phase = "PAUSED"
  /\ Appendable(c)
  /\ t > ClaimTime(c)

RecoveryResume(c, g, t, expires) ==
  /\ RecoveryAccepts(c, t)
  /\ Advance(c, g, t, expires)
  /\ NewEdge("RESUMED_CONSUMED", c, g, t)

\* resume with completePreemption: the retained admission is presented again,
\* unchanged, and takes the place of the preempted work.
CompletePreemption(c, expires) ==
  /\ pending # None
  /\ Resumable(c, pending.gen, pending.at)
  /\ pending.root # None => StillSelected(pending.root)
  /\ Run(pending.gen, pending.work, pending.at, pending.root, expires)
  /\ UNCHANGED <<checkpoints, continuations, claims>>

\* resume claims the worker and then throws in #commit: the authority holds a
\* lease that the aggregate does not have.
ResumeRejected(c, g, t) ==
  /\ Resumable(c, g, t)
  /\ Claimable(g)
  /\ \/ t <= checkpoints[c].at
     \/ ClaimState(c) = "CLAIMED_CURRENT" /\ ~RecoveryAccepts(c, t)
  /\ held' = g
  /\ UNCHANGED aggregateVars

-----------------------------------------------------------------------------
(* Recovery claims on paused checkpoints.                                  *)

ClaimRecoveryCheckpoint(c, t) ==
  /\ Recovers
  /\ phase = "PAUSED"
  /\ Paused(c)
  /\ ClaimState(c) = "NONE"
  /\ t >= checkpoints[c].at
  /\ t >= clock.at
  /\ Appendable(c)
  /\ NewEdge("CLAIMED_CURRENT", c, checkpoints[c].gen, t)
  /\ UNCHANGED <<phase, generation, queue, active, pending, checkpoints,
                 continuations, clock, leases, roots, ledger, held>>

\* A defective variant that leaves the checkpoint paused.
AbandonLoosely(c, t) ==
  /\ phase = "PAUSED"
  /\ Paused(c)
  /\ ClaimState(c) = "CLAIMED_CURRENT"
  /\ t > ClaimTime(c)
  /\ t >= clock.at
  /\ Appendable(c)
  /\ phase' = "BLOCKED"
  /\ queue' = [queue EXCEPT !.state = "BLOCKED"]
  /\ clock' = [at |-> t, event |-> "disposition"]
  /\ NewEdge("INVALIDATED_OR_ABANDONED", c, checkpoints[c].gen, t)
  /\ UNCHANGED <<generation, active, pending, checkpoints, continuations, leases,
                 roots, ledger, held>>

AbandonRecoveryClaim(c, t) ==
  /\ phase = "PAUSED"
  /\ Paused(c)
  /\ ClaimState(c) = "CLAIMED_CURRENT"
  /\ t > ClaimTime(c)
  /\ t >= clock.at
  /\ Appendable(c)
  /\ phase' = "BLOCKED"
  /\ queue' = [queue EXCEPT !.state = "BLOCKED"]
  /\ checkpoints' = [checkpoints EXCEPT ![c].pointer = "RECOVERY_TERMINALLY_HELD",
                                        ![c].at = t]
  /\ clock' = [at |-> t, event |-> "disposition"]
  /\ NewEdge("INVALIDATED_OR_ABANDONED", c, checkpoints[c].gen, t)
  /\ UNCHANGED <<generation, active, pending, continuations, leases, roots, ledger, held>>

-----------------------------------------------------------------------------
AdvanceObservedClock(t) ==
  /\ t >= clock.at
  /\ clock' = [at |-> t, event |-> "advance"]
  /\ UNCHANGED <<phase, generation, queue, active, pending, checkpoints,
                 continuations, claims, leases, roots, ledger, held>>

\* The host restarts: the constructor restores the aggregate and makes a new,
\* empty worker authority.
Restart ==
  /\ Restarts
  /\ Restorable
  /\ held' = 0
  /\ UNCHANGED aggregateVars

-----------------------------------------------------------------------------
Init ==
  /\ phase = "IDLE"
  /\ generation = 0
  /\ queue = None /\ active = None /\ pending = None
  /\ checkpoints = <<>> /\ continuations = <<>> /\ claims = <<>>
  /\ clock = [at |-> 0, event |-> "none"]
  /\ leases = [g \in 1..MaxGeneration |-> "NONE"]
  /\ roots = {} /\ ledger = [p \in {} |-> 0]
  /\ held = 0

Generations == 1..MaxGeneration
Expiries == 1..MaxTime + 1

RootStep ==
  \/ \E i \in Intents, p \in Principals, c \in Classes : EnqueueRoot(i, p, c)
  \/ \E r \in roots, p \in Principals : CancelQueuedRoot(r, p)

StartStep ==
  \/ \E g \in Generations, w \in Intents, t \in Times, o \in {"ADMITTED", "BLOCKED"} :
       \E root \in Bindings(w) : Admit(g, w, t, o, root)
  \/ \E x \in Expiries : LeaseSelected(x)
  \/ \E g \in Generations, w \in Intents, t \in Times :
       \E root \in Bindings(w) \cup {None} : RequestPreemption(g, w, t, root)

EndStep ==
  \E t \in Times :
    \/ Checkpoint(t) \/ CompleteActive(t) \/ CancelActive(t)
    \/ CheckpointRejected(t) \/ CompleteRejected(t) \/ CancelRejected(t)

ResumeStep ==
  \E c \in DOMAIN checkpoints :
    \/ \E g \in Generations, t \in Times, x \in Expiries :
         Resume(c, g, t, x) \/ RecoveryResume(c, g, t, x)
    \/ \E g \in Generations, t \in Times : ResumeRejected(c, g, t)
    \/ \E x \in Expiries : CompletePreemption(c, x)

ClaimStep ==
  \E c \in DOMAIN checkpoints, t \in Times :
    ClaimRecoveryCheckpoint(c, t) \/ AbandonRecoveryClaim(c, t)

Next ==
  \/ RootStep
  \/ StartStep
  \/ EndStep
  \/ ResumeStep
  \/ ClaimStep
  \/ \E t \in Times : AdvanceObservedClock(t)
  \/ Restart

Spec == Init /\ [][Next]_vars

-----------------------------------------------------------------------------
\* Type invariant.
TypeOK ==
  /\ phase \in {"IDLE", "ADMITTED", "BLOCKED", "RUNNING", "PAUSED",
                "COMPLETED", "CANCELLED", "CONTINUATION_READY"}
  /\ generation \in 0..MaxGeneration
  /\ queue \in Queue \cup {None}
  /\ active \in Lease \cup {None}
  /\ pending \in Preemption \cup {None}
  /\ checkpoints \in Seq(Checkpointed)
  /\ continuations \in Seq(DOMAIN checkpoints)
  /\ claims \in Seq(Edge)
  /\ clock \in [at: Times, event: {"none", "admit", "checkpoint", "resume",
                  "complete", "cancel", "disposition", "advance"}]
  /\ leases \in [Generations -> {"NONE", "ACTIVE", "RELEASED", "CANCELLED"}]
  /\ held \in 0..MaxGeneration
  /\ RootsTypeOK

\* The worker slot that this scheduler implements: the owner is the active
\* lease, and a generation has been served once its lease is in the ledger.
Slot == INSTANCE WorkerSlot WITH
  owner  <- IF active = None THEN 0 ELSE active.gen,
  served <- {g \in Generations : leases[g] # "NONE"}

\* Refinement: at most one lease is active, it ends before the next begins, and
\* no generation is ever leased twice, through preemption, resume, rejected
\* calls and restarts.
OneOwner == Slot!Spec

\* The lease ledger and the aggregate agree: the one lease that is ACTIVE in
\* the ledger is the active one, and the phase is RUNNING exactly then.
LedgerAgrees ==
  /\ {g \in Generations : leases[g] = "ACTIVE"} =
       IF active = None THEN {} ELSE {active.gen}
  /\ phase = "RUNNING" <=> active # None

\* Preempted work is never lost: until recovery gives its checkpoint up, a
\* continuation can be resumed, and it stands in the list once.
ContinuationsResumable ==
  /\ IsInjective(continuations)
  /\ \A k \in DOMAIN continuations :
       Paused(continuations[k]) \/ ClaimState(continuations[k]) = "INVALIDATED_OR_ABANDONED"

\* A scheduler that stopped for a checkpoint can resume that very one, and one
\* that ended its work has no continuation left over.
StopsAreResumable ==
  /\ phase = "PAUSED" => Paused(Len(checkpoints))
  /\ phase = "CONTINUATION_READY" => continuations # <<>>
  /\ phase \in {"IDLE", "COMPLETED", "CANCELLED"} => continuations = <<>>

\* A queued root leaves the queue only by its principal's cancellation or by a
\* lease of the worker that runs its intent, whatever is admitted, preempted,
\* checkpointed, rejected or restarted meanwhile.
RootsWaitForTheWorker ==
  [][\A r \in roots :
       (\A q \in roots' : q.intent # r.intent) =>
         \/ active = None /\ active' # None /\ active'.work = r.intent
         \/ CancelQueued(r, r.principal)]_vars

\* The worker is never leased past the queue: while roots are pending a new
\* admission runs only if it is the root selected at that very moment.
NoLeasePastTheQueue ==
  [][(phase = "ADMITTED" /\ phase' = "RUNNING" /\ roots # {}) =>
       \E r \in roots : IsCurrentSelection(r) /\ active'.work = r.intent]_vars

\* A checkpoint is resumed at most once, and one that recovery gave up is never
\* resumed or claimed again, whichever of resume, recovery and preemption races.
PointersOnlyAdvance ==
  [][\A c \in DOMAIN checkpoints :
       checkpoints[c].pointer # "PAUSED_AT_CHECKPOINT" =>
         /\ checkpoints'[c] = checkpoints[c]
         /\ ClaimState(c) = "INVALIDATED_OR_ABANDONED" => EdgesOf(c)' = EdgesOf(c)]_vars

\* The recovery claims tell the same story as the pointers and the leases: a
\* claim that resumed has a resumed checkpoint, a terminal one a lease that was
\* released, and an abandoned one a checkpoint that stays held.
ClaimsAgree ==
  \A c \in DOMAIN checkpoints :
    LET s == ClaimState(c)
        p == checkpoints[c].pointer
    IN  /\ s \in {"RESUMED_CONSUMED", "TERMINAL_CONSUMED"} => p = "RESUMED"
        /\ s = "TERMINAL_CONSUMED" => leases[LastEdge(c).gen] = "RELEASED"
        /\ s = "INVALIDATED_OR_ABANDONED" <=> p = "RECOVERY_TERMINALLY_HELD"

\* The active lease can still be ended: the authority that must release it
\* holds it.
ActiveLeaseHeld == active # None => held = active.gen

\* Work whose lease can be released can be cancelled: cancelActive either
\* rejects the time or commits.
Cancellable == \A t \in Times : Releasable(t) => ENABLED CancelActive(t)

\* The aggregate of work that recovery resumed can be restored for as long as
\* the work runs.
RecoveredWorkRestorable == (active # None /\ Matched # {}) => Restorable

\* The interactive admission retained at a preemption can still be presented
\* once the preempted work is paused.
PreemptionCompletable == (phase = "PAUSED" /\ pending # None) => pending.at >= clock.at
=============================================================================
