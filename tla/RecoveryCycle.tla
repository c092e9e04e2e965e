---------------------------- MODULE RecoveryCycle ----------------------------
(***************************************************************************)
(* Runtime recovery: how one failed attempt of a work node is recovered.   *)
(*                                                                         *)
(* A recovery aggregate (runtime-recovery.mjs) and a scheduler             *)
(* (intent-scheduler.mjs) are two values that know each other only through *)
(* the receipts a caller carries between them.  A failure opens a cycle;   *)
(* the scheduler pauses the work and grants the cycle a claim on the       *)
(* checkpoint; the aggregate admits the checkpoint, records the claim,     *)
(* decides, acts; the scheduler resumes the work under a new generation;   *)
(* the aggregate continues, retries, converges; the scheduler completes    *)
(* the work; the aggregate closes the cycle.  Each operation of either     *)
(* side is one action.  An operation of the aggregate is given a scheduler *)
(* aggregate by its caller, and nothing makes that the latest: what counts *)
(* is that the claim was once in the recorded state.                       *)
(***************************************************************************)
EXTENDS Integers, FiniteSets, Sequences, SequencesExt

CONSTANTS
  Classes,             \* the failure classes that occur
  MaximumAttemptCount, \* retryPolicy.maximumAttemptCount
  MaximumRepeated,     \* retryPolicy.maximumRepeatedIdenticalFailureCount
  MaxRuns,             \* bound: attempts of the work
  MaxGeneration,       \* bound: scheduler generations
  MaxCheckpoints,      \* bound: checkpoints of all schedulers
  MaxSchedulers,       \* bound: scheduler instances, one after the other
  None

VARIABLES
  aggregate,    \* the recovery aggregate of the work node
  terminals,    \* the terminal recovery receipts it issued
  scheduler,    \* the current scheduler instance and the generation it leases
  checkpoints   \* the checkpoints, each with the story of its recovery claim

vars == <<aggregate, terminals, scheduler, checkpoints>>

-----------------------------------------------------------------------------
(* The registry: what a failure calls for and what an action consumes.     *)

BaseAction ==
  [PARTIAL_WRITE   |-> "ROLLBACK_TO_BEFORE_IMAGE",
   ROLLBACK_FAILED |-> "QUARANTINE_ADAPTER_OR_ARTIFACT",
   NETWORK         |-> "CHECKPOINT_AND_WAIT",
   TERMINATED      |-> "RESTORE_LAST_KNOWN_GOOD",
   CONTEXT_BUDGET  |-> "CONDENSE_CONTEXT_AND_REACQUIRE",
   TIMEOUT         |-> "RETRY_SAME_BUDGET",
   RESOURCE        |-> "RETRY_REDUCED_BUDGET",
   REPLAYED        |-> "TERMINAL_BLOCK",
   UNKNOWN         |-> "REQUEST_HUMAN_DECISION"]

\* recoveryActionEvidenceMatrix: the roles an action requires; the others are
\* forbidden, but for the last known good that a rollback may fall back to.
Required ==
  [RETRY_SAME_BUDGET              |-> {},
   RETRY_REDUCED_BUDGET           |-> {"resource"},
   CHECKPOINT_AND_WAIT            |-> {"externalWait", "externalResume"},
   CONDENSE_CONTEXT_AND_REACQUIRE |-> {"context"},
   SPLIT_WORK_NODE                |-> {"context", "splitRoute"},
   ROLLBACK_TO_BEFORE_IMAGE       |-> {"transaction"},
   RESTORE_LAST_KNOWN_GOOD        |-> {"transaction", "lastKnownGood"},
   QUARANTINE_ADAPTER_OR_ARTIFACT |-> {"transaction", "quarantine"},
   REQUEST_HUMAN_DECISION         |-> {"humanGate"},
   TERMINAL_BLOCK                 |-> {}]

ASSUME ClassesAssumption == Classes \subseteq DOMAIN BaseAction

ASSUME BoundsAssumption ==
  /\ MaximumAttemptCount \in Nat /\ MaximumRepeated \in Nat
  /\ MaxRuns \in Nat /\ MaxCheckpoints \in Nat
  /\ MaxGeneration \in Nat \ {0} /\ MaxSchedulers \in Nat \ {0}

Disposition(action) ==
  CASE action = "QUARANTINE_ADAPTER_OR_ARTIFACT" -> "QUARANTINED"
    [] action = "REQUEST_HUMAN_DECISION"         -> "WAITING_HUMAN"
    [] action = "TERMINAL_BLOCK"                 -> "BLOCKED"
    [] OTHER                                     -> "RECOVERING"

Holds == {"QUARANTINED", "WAITING_HUMAN", "BLOCKED"}

Effects == {"NONE", "POSSIBLE", "IRREVERSIBLE"}   \* partialEffectState

\* policyAction: a partial effect outweighs what the class calls for, unless the
\* class speaks of the effect itself.
PolicyAction(failure) ==
  IF failure.class \in {"PARTIAL_WRITE", "ROLLBACK_FAILED", "NETWORK", "TERMINATED"}
  THEN BaseAction[failure.class]
  ELSE CASE failure.effect = "IRREVERSIBLE" -> "QUARANTINE_ADAPTER_OR_ARTIFACT"
         [] failure.effect = "POSSIBLE"     -> "ROLLBACK_TO_BEFORE_IMAGE"
         [] OTHER                           -> BaseAction[failure.class]

\* Actions that need the admitted checkpoint among the inputs of the decision.
Consequent == DOMAIN Required \
  {"CHECKPOINT_AND_WAIT", "REQUEST_HUMAN_DECISION", "TERMINAL_BLOCK"}

\* The classes whose humanAttentionClass is NONE: their exhausted budget asks nobody.
Unattended == {"CONTEXT_BUDGET", "REPLAYED"}

Exhausted(failure) ==
  IF failure.class \in Unattended THEN "TERMINAL_BLOCK" ELSE "REQUEST_HUMAN_DECISION"

\* resolveRecoveryPolicy.  overtime says that the total wall time is exceeded,
\* context is the action of the context receipt, None when absent.  The budget
\* counts the attempts of the active cycle, one of which has failed.
Resolve(failure, tried, input) ==
  LET limited ==
        IF input.authorityChanged THEN "TERMINAL_BLOCK"
        ELSE IF input.overtime \/ tried >= MaximumAttemptCount THEN Exhausted(failure)
        ELSE IF 1 >= MaximumRepeated
          THEN IF failure.effect = "NONE" THEN "REQUEST_HUMAN_DECISION"
               ELSE "QUARANTINE_ADAPTER_OR_ARTIFACT"
        ELSE PolicyAction(failure)
      sourced ==
        CASE failure.class = "RESOURCE" ->
               IF input.resource THEN "RETRY_REDUCED_BUDGET" ELSE "CHECKPOINT_AND_WAIT"
          [] failure.class = "CONTEXT_BUDGET" ->
               IF input.context = None THEN "CHECKPOINT_AND_WAIT" ELSE input.context
          [] OTHER -> limited
  IN  IF sourced \in Consequent /\ ~input.admission THEN "CHECKPOINT_AND_WAIT" ELSE sourced

PolicyInput ==
  [authorityChanged: BOOLEAN,
   overtime: BOOLEAN,
   resource: BOOLEAN,
   context: {None, "CONDENSE_CONTEXT_AND_REACQUIRE", "SPLIT_WORK_NODE",
             "REQUEST_HUMAN_DECISION", "TERMINAL_BLOCK", "NO_RECOVERY_REQUIRED"},
   admission: BOOLEAN]

-----------------------------------------------------------------------------
(* State formulae.                                                         *)

Generations == 1..MaxGeneration
Runs == 1..MaxRuns       \* an attempt or a cycle, by its number
Lifecycles == {"CLAIMED_CURRENT", "RESUMED_CONSUMED", "TERMINAL_CONSUMED",
               "INVALIDATED_OR_ABANDONED"}
Decisions == DOMAIN Required \cup {"NO_RECOVERY_REQUIRED"}
Roles == UNION {Required[action] : action \in DOMAIN Required}

\* The receipts an aggregate keeps, as far as the properties tell them apart.
Failure == [class: Classes, effect: Effects, gen: Generations]
ClaimLifecycle == [cycle: Runs, state: Lifecycles]
Admission == [checkpoint: 1..MaxCheckpoints, next: Generations]
Continuation == [cycle: Runs, gen: Generations]
Success == [cycle: {0} \cup Runs, gen: Generations, run: Runs]
Convergence == [cycle: Runs, run: Runs]

ASSUME NoneAssumption ==
  None \notin Decisions \cup Failure \cup ClaimLifecycle \cup Admission
             \cup Continuation \cup Success \cup Convergence

Aggregate ==
  [phase: Holds \cup {"READY", "FAILURE_ACTIVE", "CHECKPOINTED", "RECOVERING", "COMPLETED"},
   generation: Generations, runs: 0..MaxRuns, cycle: 0..MaxRuns, tried: 0..MaxRuns,
   failure: Failure \cup {None}, claim: ClaimLifecycle \cup {None},
   admission: Admission \cup {None}, decision: Decisions \cup {None},
   evidence: SUBSET Roles, action: DOMAIN Required \cup {None},
   continuation: Continuation \cup {None}, success: Success \cup {None},
   convergence: Convergence \cup {None}]

TerminalReceipt ==
  [cycle: Runs, failedAt: Generations, action: DOMAIN Required, evidence: SUBSET Roles,
   success: Success, convergence: Convergence, checkpoint: 1..MaxCheckpoints]

SchedulerInstance ==
  [instance: 1..MaxSchedulers, state: {"RUNNING", "PAUSED", "COMPLETED", "BLOCKED"},
   gen: Generations]

SchedulerCheckpoint ==
  [instance: 1..MaxSchedulers, gen: Generations, pointer: {"PAUSED", "RESUMED", "HELD"},
   cycle: 0..MaxRuns, story: Seq(Lifecycles), leased: 0..MaxGeneration]

\* The claim on c stands in state s.
ClaimIs(c, s) == checkpoints[c].story # <<>> /\ Last(checkpoints[c].story) = s

\* assertRecoveryClaimLifecycle: the recorded claim is the active cycle's.
Recorded(s) ==
  /\ aggregate.failure # None
  /\ aggregate.claim = [cycle |-> aggregate.cycle, state |-> s]

\* The lifecycles that may be recorded after the recorded one.
AllowedNext ==
  IF aggregate.claim = None THEN {"CLAIMED_CURRENT"}
  ELSE CASE aggregate.claim.state = "CLAIMED_CURRENT" ->
              {"RESUMED_CONSUMED", "INVALIDATED_OR_ABANDONED"}
         [] aggregate.claim.state = "RESUMED_CONSUMED" ->
              {"TERMINAL_CONSUMED", "INVALIDATED_OR_ABANDONED"}
         [] OTHER -> {}

\* The continuation of the active cycle, if there is one.
Continued ==
  /\ aggregate.continuation # None
  /\ aggregate.continuation.cycle = aggregate.cycle

-----------------------------------------------------------------------------
(* The executor boundary: an attempt starts and ends in one call.          *)

\* A defective variant that takes the applied action for the continuation.
StartOnAction ==
  \/ aggregate.failure = None
  \/ /\ Recorded("CLAIMED_CURRENT") \/ Recorded("RESUMED_CONSUMED")
     /\ aggregate.action # None

StartReady ==
  \/ aggregate.failure = None
  \/ /\ Recorded("RESUMED_CONSUMED")
     /\ aggregate.action # None
     /\ Continued
     /\ aggregate.continuation.gen = aggregate.generation
     /\ aggregate.generation > aggregate.failure.gen

\* ATTEMPT_STARTED: the first attempt after a closed cycle forgets that cycle.
Started ==
  IF aggregate.phase = "COMPLETED"
  THEN [aggregate EXCEPT !.claim = None, !.admission = None, !.decision = None,
          !.action = None, !.success = None, !.convergence = None]
  ELSE aggregate

Succeed ==
  /\ aggregate.runs < MaxRuns
  /\ StartReady
  /\ aggregate' = [Started EXCEPT
       !.runs = @ + 1,
       !.tried = IF aggregate.failure = None THEN @ ELSE @ + 1,
       !.success = [cycle |-> IF aggregate.failure = None THEN 0 ELSE aggregate.cycle,
                    gen |-> aggregate.generation, run |-> aggregate.runs + 1],
       !.phase = "RECOVERING"]
  /\ UNCHANGED <<terminals, scheduler, checkpoints>>

\* ATTEMPT_FAILED and FAILURE_ACTIVATED: a new cycle.  The failed attempt is
\* counted in the new cycle, and the recorded claim stays that of the old one.
Fail(class, effect) ==
  /\ aggregate.runs < MaxRuns
  /\ StartReady
  /\ aggregate' = [Started EXCEPT
       !.runs = @ + 1, !.tried = 1,
       !.cycle = @ + 1,
       !.failure = [class |-> class, effect |-> effect, gen |-> aggregate.generation],
       !.admission = None, !.decision = None, !.action = None, !.evidence = {},
       !.success = None, !.convergence = None,
       !.phase = "FAILURE_ACTIVE"]
  /\ UNCHANGED <<terminals, scheduler, checkpoints>>

-----------------------------------------------------------------------------
(* The aggregate takes the checkpoint, decides and acts.                   *)

\* The consumption receipt of the claim is admitted once, whatever became of
\* the claim since.
AdmitCheckpoint(c, next) ==
  /\ aggregate.failure # None
  /\ aggregate.admission = None
  /\ checkpoints[c].cycle = aggregate.cycle
  /\ checkpoints[c].gen = aggregate.generation
  /\ next > aggregate.generation
  /\ aggregate' = [aggregate EXCEPT !.admission = [checkpoint |-> c, next |-> next],
                                    !.phase = "CHECKPOINTED"]
  /\ UNCHANGED <<terminals, scheduler, checkpoints>>

\* recordSchedulerRecoveryClaimLifecycle with a state s that the claim has had.
RecordClaim(s) ==
  /\ aggregate.failure # None
  /\ aggregate.admission # None
  /\ s \in ToSet(checkpoints[aggregate.admission.checkpoint].story)
  /\ s \in AllowedNext
  /\ aggregate' = [aggregate EXCEPT
       !.claim = [cycle |-> aggregate.cycle, state |-> s],
       !.phase = IF s = "INVALIDATED_OR_ABANDONED" THEN "BLOCKED" ELSE @]
  /\ UNCHANGED <<terminals, scheduler, checkpoints>>

\* POLICY_DECIDED: the decision on these receipts, and the phase it implies.
Decided(input) ==
  LET action == Resolve(aggregate.failure, aggregate.tried, input)
  IN  [aggregate EXCEPT
         !.decision = action,
         !.evidence = @ \cup (IF input.resource THEN {"resource"} ELSE {})
                        \cup (IF input.context # None THEN {"context"} ELSE {}),
         !.phase = IF Disposition(action) \in Holds THEN Disposition(action)
                   ELSE "CHECKPOINTED"]

\* A defective variant that lets a decided failure be decided once more.
DecideAgain(input) ==
  /\ Recorded("CLAIMED_CURRENT")
  /\ aggregate.action = None
  /\ aggregate' = Decided(input)
  /\ UNCHANGED <<terminals, scheduler, checkpoints>>

\* recordRecoveryPolicyDecision with the receipts it is given.
Decide(input) ==
  /\ Recorded("CLAIMED_CURRENT")
  /\ aggregate.decision = None
  /\ aggregate' = Decided(input)
  /\ UNCHANGED <<terminals, scheduler, checkpoints>>

\* applyRecoveryAction: the evidence given completes the matrix of the decided
\* action exactly, or the call throws.
ApplyAction(given) ==
  /\ Recorded("CLAIMED_CURRENT")
  /\ aggregate.decision \in DOMAIN Required
  /\ aggregate.action = None
  /\ LET roles == aggregate.evidence \cup given
     IN  /\ \/ roles = Required[aggregate.decision]
            \/ /\ aggregate.decision = "ROLLBACK_TO_BEFORE_IMAGE"
               /\ roles = {"transaction", "lastKnownGood"}
         /\ aggregate' = [aggregate EXCEPT !.action = aggregate.decision,
                            !.evidence = roles, !.phase = Disposition(aggregate.decision)]
  /\ UNCHANGED <<terminals, scheduler, checkpoints>>

\* What a caller can bring to an action besides the receipts of the decision.
Givens ==
  {{}, {"transaction"}, {"transaction", "lastKnownGood"}, {"transaction", "quarantine"},
   {"humanGate"}, {"externalWait", "externalResume"}, {"splitRoute"}}

-----------------------------------------------------------------------------
(* The aggregate goes on under the generation the scheduler resumed.       *)

Continue ==
  /\ Recorded("RESUMED_CONSUMED")
  /\ aggregate.action # None
  /\ aggregate.admission # None
  /\ aggregate.phase \notin Holds
  /\ aggregate.admission.next > aggregate.generation
  /\ checkpoints[aggregate.admission.checkpoint].leased = aggregate.admission.next
  /\ aggregate' = [aggregate EXCEPT
       !.generation = aggregate.admission.next,
       !.continuation = [cycle |-> aggregate.cycle, gen |-> aggregate.admission.next],
       !.phase = "RECOVERING"]
  /\ UNCHANGED <<terminals, scheduler, checkpoints>>

\* A convergence receipt is formed for the success of the moment, and a later one
\* takes its place.
Converge ==
  /\ Recorded("RESUMED_CONSUMED")
  /\ aggregate.action # None
  /\ Disposition(aggregate.action) = "RECOVERING"
  /\ aggregate.success # None
  /\ Continued
  /\ aggregate.phase \notin Holds
  /\ aggregate' = [aggregate EXCEPT
       !.convergence = [cycle |-> aggregate.cycle, run |-> aggregate.success.run],
       !.phase = "RECOVERING"]
  /\ UNCHANGED <<terminals, scheduler, checkpoints>>

Terminal ==
  [cycle |-> aggregate.cycle, failedAt |-> aggregate.failure.gen,
   action |-> aggregate.action, evidence |-> aggregate.evidence,
   success |-> aggregate.success, convergence |-> aggregate.convergence,
   checkpoint |-> aggregate.admission.checkpoint]

\* What closeRecoveredExecution asks of the aggregate.
Converged ==
  /\ aggregate.convergence # None
  /\ aggregate.action # None
  /\ aggregate.evidence \cap {"quarantine", "humanGate"} = {}
  /\ aggregate.success # None

Closed ==
  /\ terminals' = terminals \cup {Terminal}
  /\ aggregate' = [aggregate EXCEPT !.failure = None, !.phase = "COMPLETED"]
  /\ UNCHANGED <<scheduler, checkpoints>>

\* A defective variant that closes on the convergence alone.
CloseOnConvergence ==
  /\ Recorded("RESUMED_CONSUMED")
  /\ Converged
  /\ Closed

\* closeRecoveredExecution: the scheduler consumed the claim for good.  The evidence
\* of the completion is the caller's, who forms it against this aggregate.
Close ==
  /\ Recorded("TERMINAL_CONSUMED")
  /\ Converged
  /\ Closed

-----------------------------------------------------------------------------
(* The scheduler of the work.                                              *)

\* Another scheduler instance leases the work: the aggregate outlives it.
NewScheduler(g) ==
  /\ scheduler.instance < MaxSchedulers
  /\ scheduler' = [instance |-> scheduler.instance + 1, state |-> "RUNNING", gen |-> g]
  /\ UNCHANGED <<aggregate, terminals, checkpoints>>

\* checkpoint: the leases are released and the work is paused.
PauseWork ==
  /\ scheduler.state = "RUNNING"
  /\ Len(checkpoints) < MaxCheckpoints
  /\ scheduler' = [scheduler EXCEPT !.state = "PAUSED"]
  /\ checkpoints' = Append(checkpoints,
       [instance |-> scheduler.instance, gen |-> scheduler.gen, pointer |-> "PAUSED",
        cycle |-> 0, story |-> <<>>, leased |-> 0])
  /\ UNCHANGED <<aggregate, terminals>>

\* The paused pointer a claim, a resume or an abandonment needs.
PausedHere(c) ==
  /\ scheduler.state = "PAUSED"
  /\ checkpoints[c].instance = scheduler.instance
  /\ checkpoints[c].pointer = "PAUSED"

\* createSchedulerRecoveryClaimReceipt and claimRecoveryCheckpoint.
Claim(c) ==
  /\ PausedHere(c)
  /\ aggregate.failure # None
  /\ aggregate.phase = "FAILURE_ACTIVE"
  /\ checkpoints[c].gen = aggregate.generation
  /\ checkpoints[c].story = <<>>
  /\ checkpoints' = [checkpoints EXCEPT ![c].cycle = aggregate.cycle,
                                        ![c].story = <<"CLAIMED_CURRENT">>]
  /\ UNCHANGED <<aggregate, terminals, scheduler>>

Resumed(c, g, story) ==
  /\ g > scheduler.gen
  /\ scheduler' = [scheduler EXCEPT !.state = "RUNNING", !.gen = g]
  /\ checkpoints' = [checkpoints EXCEPT ![c].pointer = "RESUMED", ![c].leased = g,
                                        ![c].story = story]
  /\ UNCHANGED <<aggregate, terminals>>

\* resume without recovery evidence: a claim on the checkpoint is left behind.
ResumePlain(c, g) ==
  /\ PausedHere(c)
  /\ Resumed(c, g, checkpoints[c].story)

\* resume with the admission and the action of the cycle that owns the claim.
ResumeRecovery(c, g) ==
  /\ PausedHere(c)
  /\ ClaimIs(c, "CLAIMED_CURRENT")
  /\ aggregate.admission # None
  /\ aggregate.admission.checkpoint = c
  /\ aggregate.action # None
  /\ Disposition(aggregate.action) = "RECOVERING"
  /\ checkpoints[c].cycle = aggregate.cycle
  /\ Resumed(c, g, Append(checkpoints[c].story, "RESUMED_CONSUMED"))

\* completeActive: the claim that resumed this generation is consumed, converged
\* or not.
CompleteWork ==
  /\ scheduler.state = "RUNNING"
  /\ scheduler' = [scheduler EXCEPT !.state = "COMPLETED"]
  /\ checkpoints' = [c \in DOMAIN checkpoints |->
       IF /\ ClaimIs(c, "RESUMED_CONSUMED")
          /\ checkpoints[c].leased = scheduler.gen
          /\ checkpoints[c].instance = scheduler.instance
       THEN [checkpoints[c] EXCEPT !.story = Append(@, "TERMINAL_CONSUMED")]
       ELSE checkpoints[c]]
  /\ UNCHANGED <<aggregate, terminals>>

\* abandonRecoveryClaim: the claim is given up before any resume.
AbandonClaim(c) ==
  /\ PausedHere(c)
  /\ ClaimIs(c, "CLAIMED_CURRENT")
  /\ scheduler' = [scheduler EXCEPT !.state = "BLOCKED"]
  /\ checkpoints' = [checkpoints EXCEPT ![c].pointer = "HELD",
                        ![c].story = Append(@, "INVALIDATED_OR_ABANDONED")]
  /\ UNCHANGED <<aggregate, terminals>>

-----------------------------------------------------------------------------
Init ==
  /\ aggregate = [phase |-> "READY", generation |-> 1, runs |-> 0, cycle |-> 0, tried |-> 0,
                  failure |-> None, claim |-> None, admission |-> None, decision |-> None,
                  evidence |-> {}, action |-> None, continuation |-> None,
                  success |-> None, convergence |-> None]
  /\ terminals = {}
  /\ scheduler = [instance |-> 1, state |-> "RUNNING", gen |-> 1]
  /\ checkpoints = <<>>

Attempt == Succeed \/ \E class \in Classes, effect \in Effects : Fail(class, effect)

RecoveryStep ==
  \/ \E c \in DOMAIN checkpoints, next \in Generations : AdmitCheckpoint(c, next)
  \/ \E s \in Lifecycles : RecordClaim(s)
  \/ \E input \in PolicyInput : Decide(input)
  \/ \E given \in Givens : ApplyAction(given)
  \/ Continue
  \/ Converge
  \/ Close

SchedulerStep ==
  \/ \E g \in Generations : NewScheduler(g)
  \/ PauseWork
  \/ \E c \in DOMAIN checkpoints :
       \/ Claim(c)
       \/ AbandonClaim(c)
       \/ \E g \in Generations : ResumePlain(c, g) \/ ResumeRecovery(c, g)
  \/ CompleteWork

Next == Attempt \/ RecoveryStep \/ SchedulerStep

Spec == Init /\ [][Next]_vars

-----------------------------------------------------------------------------
\* Type invariant.  Cycles and attempts are bounded by the runs, and a record of
\* the aggregate never names a checkpoint or a cycle that does not exist.
TypeOK ==
  /\ aggregate \in Aggregate
  /\ terminals \subseteq TerminalReceipt
  /\ scheduler \in SchedulerInstance
  /\ checkpoints \in Seq(SchedulerCheckpoint) /\ Len(checkpoints) <= MaxCheckpoints
  /\ aggregate.cycle <= aggregate.runs /\ aggregate.tried <= aggregate.runs
  /\ aggregate.action \in {None, aggregate.decision}
  /\ aggregate.claim # None => aggregate.claim.cycle <= aggregate.cycle
  /\ aggregate.admission # None => aggregate.admission.checkpoint \in DOMAIN checkpoints
  /\ \A c \in DOMAIN checkpoints : checkpoints[c].cycle <= aggregate.cycle

\* A cycle is closed once, by what happened in it and on both sides: its action
\* had its evidence, the success it closes on ran after the action on the very
\* generation that the scheduler leased for the cycle's claim, the convergence
\* is the cycle's, and the scheduler consumed the claim for good.
ClosureIsEarned ==
  \A t \in terminals :
    /\ \A u \in terminals : u.cycle = t.cycle => u = t
    /\ Required[t.action] \subseteq t.evidence
    /\ t.success.cycle = t.cycle /\ t.convergence.cycle = t.cycle
    /\ t.convergence.run <= t.success.run
    /\ t.success.gen > t.failedAt
    /\ t.success.gen = checkpoints[t.checkpoint].leased
    /\ checkpoints[t.checkpoint].cycle = t.cycle
    /\ ClaimIs(t.checkpoint, "TERMINAL_CONSUMED")

\* The work of a failed cycle runs again only on a generation that a scheduler
\* leased by resuming that cycle's own claim, whatever schedulers paused,
\* resumed or replaced meanwhile.
RetriesAreLeased ==
  [][(aggregate.failure # None /\ aggregate'.runs > aggregate.runs) =>
       \E c \in DOMAIN checkpoints :
         /\ checkpoints[c].cycle = aggregate.cycle
         /\ "RESUMED_CONSUMED" \in ToSet(checkpoints[c].story)
         /\ checkpoints[c].leased = aggregate.generation]_vars

\* The fate of a cycle: a later one took its place, it was closed, it is held
\* for a human, a quarantine or a block, or it goes on.
Fate(k) ==
  IF \E t \in terminals : t.cycle = k THEN "closed"
  ELSE IF k < aggregate.cycle THEN "failed"
  ELSE IF aggregate.phase \in Holds THEN "held"
  ELSE "open"

Case == INSTANCE FailureCase WITH
  fates <- [k \in 1..aggregate.cycle |-> Fate(k)]

\* Refinement: cycles follow one another, a closed, failed or held one is never
\* taken up again, and no cycle follows a held one.
FatesAreFinal == Case!Spec

\* "active pointers move to the newest cycle": once the scheduler has granted
\* the claim of a new cycle and its checkpoint is admitted, the claim can be
\* recorded, so that the failure of a retry can be recovered in its turn.
FailedRetryRecoverable ==
  (/\ aggregate.failure # None
   /\ aggregate.admission # None
   /\ ClaimIs(aggregate.admission.checkpoint, "CLAIMED_CURRENT")
   /\ ~Recorded("CLAIMED_CURRENT")) => "CLAIMED_CURRENT" \in AllowedNext
=============================================================================
