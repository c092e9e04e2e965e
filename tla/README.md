# VexLife: TLA+ models, checks and proofs

VexLife is a local-first companion. Humans' requests become *intents*; an intent's
workgraph holds work nodes; one physical worker (one model inference at a time) runs
them. Around that scheduler the repository keeps durable things by hand, in files:
conversation channels, Families with their invitations, the receipts of native worker
processes; and in memory replayed aggregates: tool calls, recovery cycles, watched
concerns. This directory models those parts in TLA+, checks them with TLC on small
instances and proves the most important properties with TLAPS for every value of the
constants.

Paths below are relative to the repository. `PROJECT.json` maps every definition that
models code to the lines it models, and lists the runs, the mutants, the hazards, the
findings and the theorems.

## 1. Inventory

| Component (code in `src/core/`) | State it keeps | Operations | Interacts with | What makes it correct |
|---|---|---|---|---|
| Principal queue (`intent-scheduler.mjs` 402-783) | pending roots, principal fairness ledger | enqueue, cancel, select, consume | life cycle: admission binds the selection, a lease consumes it | limits hold, one selection, bounded bypass, age kept |
| Life cycle and aggregate (`intent-scheduler.mjs`, `state.mjs` reducer, `intent-checkpoint.mjs`) | phase, generation, queue, active lease, pending preemption, checkpoints and pointers, continuations, lease ledger, clock | admit, lease, preempt, checkpoint, resume (plain, recovery, completing a preemption), complete, cancel, advance the clock, restart | everything below | one owner of the worker, fresh generations, no preempted work lost, no double resume |
| Worker authority (`scheduler-runtime-trust.mjs`) | in-memory owner per worker | claim, release | called by the life cycle before it commits | agrees with the aggregate |
| Recovery claims (`state.mjs` 547-1009) | append-only claim ledger | claim, resume, terminate, abandon | life cycle, runtime recovery | ledger, pointers and leases tell one story; replay accepts what was written |
| Due intents (`intent-scheduler.mjs` 1227-1688, `state.mjs` 1057-1325) | due transition ledger, missed-host receipts, clock | form, reschedule, cancel, settle, mark due, reconcile a gap | workgraph snapshots, restart, concern watch | never early, at most one live, closed for ever, receipts only for gaps |
| Node fairness (`intent-scheduler.mjs` 785-875) | aging ledger | age and select on admission | workgraph snapshots | one selection, aging overcomes priority |
| Tool relay (`tool-result-relay.mjs`) | tool calls and their receipts, in memory and on file | register, accept, reinject, hold, cancel, dispose of a held call | life cycle at checkpoint, resume, completion | a request is answered and used at most once; what a checkpoint names waits for it; ended work owes nothing |
| Runtime recovery (`runtime-recovery.mjs`, `runtime-failure.mjs`, `recovery-policy.mjs`) | recovery aggregate, its cycles, terminal receipts | classify, admit a checkpoint, record a claim, decide, act, continue, retry, converge, hold, close | recovery claims | closure is earned, retries run under the leased claim, fates are final |
| Concern watch (`concern-watch.mjs`) | a concern's events, threshold and review receipts | observe, evaluate, review, admit, request, recover, close, archive, reopen | due intents, admitted workgraph nodes | work only on current evidence, no silent closure |
| Conversation store (`conversation-store.mjs`) | event files, head, channel record, writer lock | append, materialize, read, recover a writer | Families, browser bridges | one writer, one lineage, answers only for what is durable |
| Families (`family-space-store.mjs`, `family-invitation-store.mjs`, `family-host-runtime.mjs`, `family-join-runtime.mjs`, `family-membership-runtime.mjs`) | space record, invitations, GROUP channels | host, join, leave, direct changes, issue, revoke, expire | conversation store | one successor channel per generation, honest invitations, always an owner |
| Native worker supervisor (`native-worker-supervisor.mjs`) | current receipt, control file, completion file, mutation lock | prepare, reserve, start, adopt, spawn, observe, control, settle, consume | command-line processes, hosts, payloads | one payload at a time, no stale or lost control |
| Workgraph (`intent-workgraph.mjs`, `intent-validation.mjs`) | immutable snapshots of nodes and assignments | accept, transition, cancel a branch, settle | scheduler, due intents | node life cycle, dependencies, one assignment per node |
| Context, resource, effect leases (`context-lease.mjs`, `resource-admission.mjs`) | leases in the ledger | form, release, transfer | life cycle | current at use, budget kept |
| Relationships (`relationships-store.mjs`) | records, transitions, heads, receipts, lease | create, transition, recover | browser bridges | linear revisions under crashes |
| Home bridge sessions, heretic runtime, lived companion, browser bridges | sessions, server process, request state | open, authorise, re-enter | stores above | currentness |
| Score and continuity, daily autonomy, capability runtime, project planning, navigation, experience | content-addressed records | many | few | mostly validation, one caller |
| Build, registries, generators | none at run time | run to completion | none | not a subject for model checking |

### What is hard in this code

Inside one process everything is synchronous, so there are no data races; two things are
hard instead.

The in-memory parts are *protocols*: a dozen public methods each, called in any order by
hosts that hold old admissions, old snapshots, old receipts and old checkpoints, over a
state that is restored from disk while part of it (the worker authority, the relay) is
not. The durable parts are *files shared by processes*: a lock file, write-once files and
a pointer that is renamed into place, with any process stopping between any two of them.
The hazards, each at its line, are in `PROJECT.json`; they group as

* stale state: an admission whose selection is no longer current, a graph that is not the
  latest, a receipt formed before the last event, an answer for a generation that ended;
* sequences: cancel and queue again, preempt, resume, claim, abandon, complete, fail again;
* partial failure: a method that has changed the relay or the authority and then throws; a
  Family changed in one store and not yet in the next;
* crash and restart: with work running, with recovered work running, with dues that came
  up while the host was away, with an event written and the head not moved, with a lock
  left behind;
* interleavings of processes: two writers, an operator removing a lock, a control request
  while a payload starts or ends;
* fairness among principals and among nodes, and its tie-breaks.

## 2. Modules and how they correspond to the code

| Module | Models | Checked by | Proved in |
|---|---|---|---|
| `PendingRoots` | the principal queue | `pending_roots` | `SchedulerProofs` |
| `Scheduler` | the life cycle, recovery claims, worker authority; EXTENDS `PendingRoots` | `lifecycle`, `life_with_roots` | `SchedulerProofs` |
| `WorkerSlot` | abstract: who owns a worker; implemented by `Scheduler` and by `NativeWorker` | `OneOwner`, `OnePayload` | `OneOwnerAlways`, `OnePayloadAlways` |
| `DueLedger` | due intents, receipts, workgraph snapshots, restart | `due_ledger` | `DueLedgerProofs` |
| `NodeFairness` | selection and aging of nodes | `node_fairness` | `NodeFairnessProofs` |
| `ToolRelay` | tool calls; EXTENDS `Scheduler` | `tool_relay` | `SchedulerProofs` |
| `OneAnswer` | abstract: the life of a tool request; implemented by `ToolRelay` | `OneAnswerEach` | `RequestsAnsweredOnce` |
| `NativeWorker` | supervisor hosts, payloads and commands of one worker | `native_worker` | `NativeWorkerProofs` |
| `ConversationStore` | one channel's files, several processes | `conversation_store` | `ConversationStoreProofs` |
| `ChannelLog` | abstract: an append-only log with a meaning; implemented by `ConversationStore` | `KeepsItsPromise` | `StoreKeepsItsPromise` |
| `FamilyRoom` | a Family over the space, invitation and conversation stores | `family_room` | `FamilyRoomProofs` |
| `RecoveryCycle` | the recovery aggregate with the scheduler's claims | `recovery_cycle`, `failed_retry` | `RecoveryCycleProofs` |
| `FailureCase` | abstract: the fate of each failure; implemented by `RecoveryCycle` | `FatesAreFinal` | `RecoveryKeepsItsPromise` |
| `ConcernWatch` | one watched concern, dues and admitted work | `concern_watch` | `ConcernWatchProofs` |

**PendingRoots.** `roots` is `pendingRootIntents`, `ledger` is `principalFairnessLedger`,
`generation` the scheduler generation that stamps `readySinceGeneration`. `Enqueue`,
`CancelQueued` and `Consume` are `appendPendingRootState`, `cancelPendingRootState` and
`consumePendingRootSelection`; all three end in `Install`, which is
`rebuildPrincipalFairness` followed by `mirrorPrincipalDeferrals`. `IsCurrentSelection` is
`selectNextPendingRoot`, stated as "nobody else wins" instead of as a sort.
`submittedGeneration` always equals `readySinceGeneration`, and
`lastConsideredGeneration` and `lastDisposition` are read by no code; they are left out.
The byte budget of the queue only adds a reason to throw and is left out too. So is the order
of the array: `roots` is a set, because selection compares keys. The validator sorts by code
unit (`intent-scheduler.mjs:479`) and the operations by locale (596, 631), so names on which
the two orders differ make a queue that its own validator refuses; the model has no such names.

**Scheduler.** One action is one public method that commits. A method that throws before
it changes anything is no step. A method that throws after `WorkerLeaseAuthority.claim` or
`release` is an action of its own (`CheckpointRejected`, `CompleteRejected`,
`CancelRejected`, `ResumeRejected`), because the authority is in memory and keeps the
change. `queue`, `active`, `pending`, `checkpoints`, `continuations`, `claims`, `clock` and
`leases` are the fields of the aggregate; `held` is the authority. A workgraph is
represented by its root intent, and an admission selects that intent's node. The six
leases are formed, released and consumed together, so the ledger is a function of the
generation and `expires` is the earliest expiry. `Follows` is the part of
`replayRecoveryClaimLedger` that compares the state after an edge with the edge:
`Appendable` applies it to the next edge, `Restorable` to a restore.
Left out: due records and tool calls (modules of their own), byte budgets of the claim
ledger, and the evidence a caller presents, which is assumed to be well formed except
where an action is named Rejected.

**WorkerSlot.** An owner is a generation of the active lease, or a launch of a native
worker, and `served` is every one there has been. The refinements say: the worker is given
up before it is taken again, and each ownership is of a larger number than all before.

**DueLedger.** `dues` is the replay of the due transition ledger, keyed by the content
that `dueRef` is the hash of. `latest` and `snapshots` stand for the workgraphs: a caller
presents any snapshot it ever held (`StaleReads`) or only the latest ones. `Accepted` is
the receipt validator that runs on each due event and on a restore; an action whose result
it refuses does not happen. `untouched` is the comparison with the restored aggregate's
fingerprint that `reconcileMissedHost` makes. `ClockMovedByWork` stands for the other
methods that move the clock. `formedAt` is the clock's time at the observation that the due is
formed on: an earlier one is content like any other of the due (`Tags`), since it is only
compared with the observation, and a later one is refused (`state.mjs:1091-1096`).

**NodeFairness.** `aging` is `fairnessLedger`; an entry counts for the snapshot whose
fingerprint it carries. `graph` numbers the snapshots, `Transition` is any
`recordIntentTransition`. What the leases and resources of the moment admit is a free
choice, and so is the fresh generation. `passed` is an observer that no code has: it counts
how often a node that stayed admitted was passed over.

**ToolRelay.** `calls` is the relay's ledger in memory and `filed` the aggregate's copy of
it; they part when a method changes the relay and then throws, or before the scheduler
synchronises. Every `Scheduler` action that touches the relay is conjoined with what it
does there (`checkpoint` holds the named call, `resume` may take an answer over,
`completeActive` and `cancelActive` close what is open), including the Rejected ones.
`names` is `pendingToolCallRef` of each checkpoint. The relay asks a host for leases and never
whether the scheduler still has them: `until` is the expiry of every lease the host was given
and `authorized` the answer its context may take over, and a host registers calls and puts
answers into contexts under any of them until it expires, whatever runs by then. A result
arrives late, twice, or for an ended generation, and is accepted only as the relay's guards
allow. `late` is an observer: a call registered after its scheduler had nothing left to run.
`Careful` is the caller the documents describe: it names only calls it has just seen pending,
and never asks to resume a checkpoint that names a call when the resume would throw, be it for
its time or for a recovery claim. The property that needs a careless one is checked apart
(section 3).

**NativeWorker.** `receipt` is the receipt `current.json` points at, with its state, launch
and control generation floor; `control` and `completion` are the two files; `lock` is the
mutation lock, free, held by a slow process or left by a dead one. Each mutation is one
step taken under the lock. What a host does between two mutations, or reads without the
lock, is a step of its own: `StartHost`, `Adopt`, `SpawnPayload`, `Watch` (the poll and the
close event), `SettleUnretired`, `OutcomeLost`. `child` is the payload process. `Crash` and
`CrashSpawning` stop a host and leave its payload alive. `faults` counts file operations
that fail.

**ConversationStore.** Every file operation is one step of one process: take the lock
(exclusive create, then its content), read the head and the event, write the event, replace
the head, write the channel record, release. `proc` holds what each process has read. Any
process may stop between any two steps, any write may be torn or refused; `Recoverers` are
the processes an operator asks to remove an abandoned lock. `ChannelLog` reads the log off
the head backwards, as a reader of the channel does.

**FamilyRoom.** `space` is the current Family record, `channels` the GROUP channel of each
revision, `invitation` the invitation records, `request` the HOST, JOIN or LEAVE each
person has in progress with what it has done so far. One store write is one step;
`Interrupt` drops the process and leaves the stores, and the same request sent again has
to find where it stopped. Direct changes (roles, removal, companion binding, retirement)
use the space store's own guards. `bound` is whose device a membership is bound to: the space
store takes any, another member's too (`Devices` lists what direct changes give), while a
record in which two members share one has no channel (`Distinct`). `origin`, `joiners` and
`meddled` are observers.

**RecoveryCycle.** `aggregate` is the recovery aggregate of one work node, `scheduler` and
`checkpoints` the scheduler and the story of the claim on each checkpoint. Neither side
calls the other: receipts are carried between them by a caller, and an operation accepts
any scheduler state whose claim was recorded, so an old one is a legal input. The policy
(`Resolve`) is the registry's table with the registry's attempt limits; an exhausted budget
blocks the classes that ask no human and asks for a decision in the others. The evidence of
completion that closes a cycle is the caller's: `Close` asks what the code compares, the claim
consumed and the aggregate converged. That a claim is recorded at a later time than the receipt
before it (`runtime-recovery.mjs:1242-1247`) is left out with time itself, so the model
accepts more.

**ConcernWatch.** `watch` is the replay of the concern's events; `drafts` are receipts an
operator formed and has not recorded, which the next event makes stale. `dues` and `work`
are what the scheduler and the workgraph say of the due and of the admitted node; they move
on their own, because the concern only learns of them by a call. The scheduler aggregate that
proves a due may be an old one (`reached`). The thresholds and scores are constants
(`MinIndependent`, `MinRecurrence`, `MinScore`, `Grade`); a report that repeats its source's
recurrence identity (`again`) counts once. What recovery evidence and completion say of the
admitted work is the caller's statement in the code (`concern-watch.mjs:1398-1410`,
1452-1466), compared with nothing; the model's callers say what is so, and `WorkStaysInSight`
is a property of the code under that assumption.

Every defective variant in the modules (each commented as such) is a plausible bug of the
definition that follows it; `PROJECT.json` says which property catches which.

## 3. What the runs check

Passing runs (sizes are distinct states):

| Run | Instance | States | Shows |
|---|---|---|---|
| `pending_roots` | 4 intents, 4 principals, 2 classes; at most 4 roots, 3 principals, 2 roots each; generation to 2 | 220,995 | `ValidState`: the queue's validator accepts every state; `SelectionTotal`: one selection; `BoundedBypass`; `AgeKeptUntilServed`: age is lost only when served, and grows only by one and only when a competitor is served |
| `due_ledger` | 2 assignments of one graph, clock to 3, 3 dues, 1 restart, stale snapshots | 136,079 | `OneLiveDue`, `NeverEarly`, `ClosedForever`, `ReceiptOnlyForGap`, and `SettledNeverDue`, which holds for a caller with the latest graph whatever other callers presented before |
| `lifecycle` | 1 intent, generation to 4, clock to 3, 2 checkpoints, recovery, restarts, rejected calls | 444,026 | `OneOwner` (refinement), `LedgerAgrees`, `ContinuationsResumable`, `StopsAreResumable`, `ClaimsAgree`, `PointersOnlyAdvance` |
| `life_with_roots` | 2 intents, 2 principals, 2 classes, generation to 2, 1 checkpoint | 208,853 | the composition of queue and life cycle: `RootsWaitForTheWorker`, `NoLeasePastTheQueue` |
| `node_fairness` | 4 nodes (two NORMAL, INTERACTIVE, BACKGROUND), patience 2, generation to 6, 2 snapshots | 63,434 | `OneSelection`, and `AgingWins` with the exact bound: one less is violated |
| `tool_relay` | 1 intent, generation to 2, time to 1, 1 checkpoint, 2 calls, registration under old leases while the work is paused or over, rejected calls, restarts, a careful host | 727,315 | `NamedCallsHeld`: the call that a checkpoint names waits as long as work waits at that checkpoint; `EndedWorkOwesNothing`: an end leaves no call open that was registered before it; `OneAnswerEach` (refinement of `OneAnswer`) |
| `native_worker` | 3 hosts, 2 launches, 2 control requests, 1 slow holder, 1 fault, cooperative pause | 408,356 | `RestIsTrue`: no payload lives while the receipt rests; `OwnControlsOnly`; `StartsUncontrolled`; `OnePayload` (refinement of `WorkerSlot`); `CancelTakenUp` (liveness) |
| `conversation_store` | 2 writers and 1 recoverer, 2 messages, 2 meanings, sequence 0 and 1, 3 faults | 315,890 | `OneWriter`, `LineageWhole`, `KeepsItsPromise` (refinement of `ChannelLog`) |
| `family_room` | 3 people, 1 invitation, revision to 3, time to 1, 2 direct changes, which may give a member the device of either joiner or an unknown one | 1,284,000 | `RoomContinues`: a lifecycle operation can go on to its successor channel, save for the exceptions it names ("Behaviours" below); `OneSegmentPerGeneration`, `InvitationsHonest`, `OwnersDecide` |
| `recovery_cycle` | 3 failure classes, attempts 3, repeats 2, 3 runs, generation to 3, 3 checkpoints, 2 schedulers | 505,927 | `ClosureIsEarned`, `RetriesAreLeased`, `FatesAreFinal` (refinement of `FailureCase`) |
| `concern_watch` | 4 kinds of source, 1 due, 2 operators, 2 cycles, 2 observations, time to 1 | 884,824 | `WorkIsEarned`, `WorkStaysInSight`, `QueueShowsWork` |

Why the bounds are enough. The bounds on generations, clocks, checkpoints, faults and
requests cut behaviours short and never enable anything.

* `pending_roots`: each limit binds on its own (a fourth principal, a third root of one
  principal, a fifth root), and three principals in the queue are the fewest for which a
  principal can be passed over by two different others.
* `lifecycle`: two checkpoints and four generations are what a preemption, its completion
  and the resume of the continuation need, and three ticks separate checkpoint, resume and
  end. Roots are absent there and present in `life_with_roots`, where two generations
  allow an admission to go stale, be repeated and be leased.
* `due_ledger`: three dues allow a due, its successor and one of another assignment.
* `node_fairness`: the bound is reached within six generations and stays the same to eight.
* `tool_relay`: two calls are a call and its successor, or a named and an unnamed one; two
  generations are the work and its resume, or work and what follows its end. `StrayPhases`
  lists the phases in which calls are registered under leases that are not in force: paused,
  completed and cancelled, after which an answer, a resume and a further end all follow. The
  instance has one checkpoint; the theorems of section 4 cover any number, and any phase, and
  what two checkpoints make possible is under "Behaviours" below.
* `native_worker`: three hosts for two launches allow a host left from the first launch, a
  second one, and one that adopts; two requests allow a cancellation after a pause. The
  fault bound is a real restriction, see below.
* `conversation_store`: two messages compete for one number, or follow one another; three
  faults allow a crash with the lock, a torn write and a crash of the recovery. A larger
  instance (1,325,700 states) is clean as well.
* `family_room`: the four records of revisions 0 to 3 allow establishing and three of joining,
  leaving and direct changes, in every order; the host differs from the other two, who are
  symmetric. The devices that direct changes give are those of the two who join, on which a
  JOIN can collide, and one that is nobody's.
* `recovery_cycle`: three runs are a failure, a failed retry and one more; two schedulers
  let a claim outlive the instance that granted it. The classes are one of each policy
  family that the aggregate distinguishes (retry, resource, context).
* `concern_watch`: two observations reach the thresholds 2, 2 and 8, which stand for the
  registry's 3, 3 and 9; of an instance with three, the first
  7,383,445 states were searched, not the rest, and nothing was violated.

The deadlock check is off where the bounds leave no step at the end: `node_fairness`,
`native_worker`, `conversation_store`, `family_room`, `recovery_cycle`, `concern_watch`
and `failed_retry`. Type invariants are stated in every module; they are part of
the proved invariants (section 4). `DeferralLadder`, `DueKeptUntilClosed` and `ReceiptsKept`
are likewise left to the proofs.

### Fairness and liveness

`CancelTakenUp` says that a cancellation is taken up: the payload is told to stop, or the
run ends without it. It assumes weak fairness of `Watch(h)` for each host, which is the
host's own poll (`setInterval`) and its handler of the payload's close event
(`native-worker-supervisor.mjs`); nothing is assumed of commands, payloads, crashes or
the lock, and a host that stopped is excused, because `Watch` is then disabled.

No liveness is claimed of the other parts. Nothing under `src/` drives the scheduler, the
recovery aggregate, a concern or a store periodically: each step is a call by a host or a
person, who may stop calling. What waits for progress is stated as safety instead: bounded
bypass (`BoundedBypass`, `AgingWins`), resumability (`ContinuationsResumable`,
`StopsAreResumable`), and that an interrupted operation still can go on (`RoomContinues`).

### Disagreements between documents and code

One is a run of its own, quoted under "findings": `failed_retry` (`FailedRetryRecoverable`,
about 16,000 states). After a recovered retry fails, the new cycle's claim cannot be recorded,
because the lifecycle of the old cycle's claim was not reset.

The configurations below each check one statement of the documents that a behaviour of the
code breaks; they are kept beside the runs and are checked by hand
(`tlc -config MCHeld.cfg MCScheduler`, and so on).

| Configuration | Property | What happens |
|---|---|---|
| `MCDueSettlement` | `SettlementCanClose` | after missed-host reconciliation a due can never be settled, cancelled or superseded: the receipt must stay bound to a due that is DUE |
| `MCHeld` | `ActiveLeaseHeld` | the constructor makes an empty authority: a lease that is active in the restored aggregate can never be released (a host that keeps the authority and passes it as `runtimeAuthority` is safe, and no restore path in `src/core` does) |
| `MCCancel` | `Cancellable` | cancelling recovered work throws after the release, because the replay requires lifecycle CLOSED and the method writes CANCELLED |
| `MCRestore` | `RecoveredWorkRestorable` | a clock observation while recovered work runs makes the aggregate unrestorable |
| `MCPreempt` | `PreemptionCompletable` | the retained admission's time is older than the checkpoint's, and resume requires a monotonic clock and the identical admission |
| `MCNodeStarvation` | `AgingWinsAcrossTransitions` | every transition of the graph resets the aging of all its nodes |
| `MCToolDisposition` | `DispositionIsAtomic` | a held call's disposition is recorded in the relay before the step that may still be refused |
| `MCOrphanRetry` | `RetryFindsTheEvent` | an event whose head was never moved is found by a retry only while no other message took its number (`docs/VEX-FAMILY-CONVERSATION-BRIDGE.md:98`) |

Behaviours that the models have, that no listed property excludes, and that a maintainer
should know of:

* Native worker: with *two* failed writes `RestIsTrue` fails (a receipt that says the worker
  rests over a payload that lives), so run and proofs allow one; a PAUSE requested after a
  CANCEL overwrites it; an outcome is lost when the lock is held past the deadline.
* Conversation store: two operators who recover at once can remove a lock that is no longer
  the abandoned one, so `OneWriter` is for one; a torn lock can never be recovered, and a
  torn event file can never be appended.
* Families: a JOIN interrupted before the revocation or the expiry of its invitation cannot
  be finished (`docs/VEX-FAMILY-INVITATIONS.md:143`); a HOST retried after a JOIN
  conflicts (`docs/VEX-FAMILY-HOST-ESTABLISHMENT.md:87`); direct changes of a Family form no
  successor channel. The space store gives a member any device
  (`family-space-store.mjs:543-553`, 623-625) and a channel refuses members that share one
  (`family-conversation.mjs:131-135`). So once a direct change gave somebody the device of a
  person who then joins, the JOIN commits the membership and every retry of it throws at the
  channel, which nobody can form until the membership changes again. `RoomContinues` names
  both exceptions (an invitation that ended, a borrowed device), and for HOST the direct changes
  after which it is not recognized or its channel is refused (`meddled`).
* Tool relay: a checkpoint may name a call that is answered already. `register`
  (`tool-result-relay.mjs:594-607`) asks for leases and not whether they are in force: a call
  formed before `completeActive` and registered after it is PENDING in an ended life cycle, and
  stays so until it is answered, cancelled or the next end closes it. `EndedWorkOwesNothing`
  excepts exactly the calls registered after the latest end.
* Life cycle: while the foreground is paused, `resume` and `resumeContinuation` accept an
  older continuation (`intent-scheduler.mjs:2573`, 2907). The checkpoint that is passed over
  is in no list: when the resumed work ends, the call it names is closed and, with no
  continuation left, the phase does not allow it to be resumed. `NamedCallsHeld` and
  `StopsAreResumable` are about the checkpoints that work still waits at.
* Recovery: attempts are counted within a cycle and every failure opens a new one, so the
  budgets are never reached; receipts about resources and context override an earlier policy
  decision, a changed authority included; an old scheduler aggregate is accepted.
* Concern watch: the registry's `changedEvidenceRequiredForRepeatAlert` is read by no code
  and repeated alerts happen; a threshold that asks for a person can still be admitted
  automatically; admitted work that failed can never leave ADMITTED_WORK; admission twice in
  a cycle, and a HELD_UNKNOWN closure before the first observation, are dead ends; two
  reports too close block the standard rule for ever; evidence is refused once the threshold
  is met; a due reached before the last event, or ended before its request, cannot be
  recorded; archiving ends the recurrence watch; a changed threshold policy makes stored
  aggregates unusable; the runtime snapshot is checked and then written without a lock.

## 4. What is proved

The eight proof modules are checked by TLAPS from the assumptions named in the modules
(types of the constants, that null is no record, what `multiRootPolicy` requires of the
registry) and, where a theorem says so, from one restriction of the environment. They hold
for any number of principals, intents, nodes, processes, people, generations and ticks.

*The queue* (the beginning of `SchedulerProofs`). The inductive invariant is `RootsInv`: type,
`ValidState` and `DeferralLadder`. The ladder is what makes `BoundedBypass` inductive: that
each count stays below the number of principals is not preserved by itself, because a
principal at the bound could be passed over once more. That at most
`MaxPendingPrincipals - k` principals have been passed over `k` times is preserved: a lease
serves, within a class, a principal with the largest count (`ServedIsMostDeferred`), so a
competitor that climbs to rung `k` leaves behind one that returns to 0 (`RungDescends`,
`LadderDescends`). Theorems: `StateAlwaysValid`, `BypassIsBounded`, `SelectionIsUnique`,
`AgeIsKept`.

*The scheduler* (`SchedulerProofs`, which goes on from there). `WorkerInv` is `RootsInv`
with `SlotInv` (the ledger agrees with the active lease and no lease is of a future generation), `AdmissionInv` (an
admission that waits for its lease is of the current generation, which nobody has leased; a
bound admission is of its root's intent) and `PastInv` (checkpoints name real work). It is
what each lease needs in order to be a fresh `Take` of the worker slot; the part about
unleased admissions is the strengthening that `LedgerAgrees` lacks. `ClaimInv` adds that
each edge of the claim ledger names a checkpoint, that each story has a last edge, and that
this edge, the pointer and the leases agree; `ContInv` that each continuation names a
checkpoint that is paused or was given up, and no two the same one. Theorems:
`LedgerAlwaysAgrees`, `RootsStayValid`, `OneOwnerAlways` (the refinement),
`LeasesFollowTheQueue`, `RootsWait`, `ClaimsAlwaysAgree`, `PointersAlwaysAdvance`,
`ContinuationsStayResumable`, `StopsStayResumable`, `TypesHold`.

*The tool relay* (at the end of `SchedulerProofs`, because it stands on `WorkerInv` and
`ContInv`, which hold under `RelaySpec` since the relay moves under the scheduler's own
steps). `RelayTyped` says, beyond types, that a checkpoint names only calls that are on
file, so that a restart does not lose them. `HoldInv` states `NamedCallsHeld` of both
ledgers, in memory and on file: the two are apart after a method that threw, and a restart
puts the second in the place of the first. A step keeps it because it leaves held calls
alone, or closes only calls that no continuation names, or disposes of the call of the very
checkpoint that resumes. `AnswerInv` is what the refinement of `OneAnswer` needs: in both
ledgers each call that has a predecessor succeeds an earlier call, which was closed for it,
and no two succeed the same one; and the ledger in memory grew out of the one on file. So
a request's calls form one line of which only the last can be open, and a restart takes a
request back to a state it has been in, never to another answer. That the origin of a call
is defined at all (it is a recursive function over predecessors) is shown by the choice of
a least call for which it is not. Theorems: `RelayTypesHold`, `NamedCallsStayHeld` (for a
careful host), `EndedWorkNeverOwes` and `RequestsAnsweredOnce` (for a careless one too; a
host may use every lease it was given until it expires).

*Due intents* (`DueLedgerProofs`). `DueInv` is the type, that records are untouched between
a restart and its reconciliation, `OneLiveDue` and `NeverEarly`. The latter carries its own
strengthening: a record's observation is not after the clock, so that marking a due at the
clock's time cannot leave an observation in the future. `GraphInv` says that the latest
graph of a root never calls an assignment both accepted and settled. Theorems:
`LiveDueIsOne`, `DuesAreNeverEarly`, `ClosedStaysClosed`, `ExposedStaysExposed`,
`ReceiptsAreKept`, `ReceiptsAreForGaps`, `SettledIsNeverDue`.

*Node fairness* (`NodeFairnessProofs`). `OneNodeIsSelected` is that the comparison of
admissions is a strict total order, so a finite set has exactly one minimum (each key of the
lexicographic order is minimised over the ties of the one before). `AgingAlwaysWins` is the
bound on bypass: whoever is served while a node is in line falls behind it and cannot catch
up (`LineInv`), so the servers ahead of it are used up one by one.

*The native worker* (`NativeWorkerProofs`), under `MaxFaults <= 1`. The invariant orders
launches: the receipt's launch, the hosts' launches and the payloads' launches, that
at most one host is between adopting and settling, and that the control floor
of the receipt separates requests of this launch from all earlier ones. It is proved over
four kinds of steps (of the receipt, of a host, of a payload, of a control). One fault is
needed because a second failed write can hide the first (section 3). Theorems:
`AtRestNothingRuns`, `ControlsStayWithTheirRun`, `NoStaleRequest`, `OnePayloadAlways`.

*The conversation store* (`ConversationStoreProofs`), under "at most one recoverer".
`LockInvariant`: a process between acquire and release works under its own lock, and a lock
found abandoned stays so until it is removed; two recoverers break exactly that. From it
`OneWriterAlways`; `EventsAreLinked` (each durable event is a root or succeeds a durable
event by one number), which needs that what a writer has read is still what is there; and
`LogGrowsAtTheEnd` (no event is rewritten; the head moves only to its exact successor).
`LineageWhole` and the refinement of `ChannelLog` speak of the walk from the head to the
root, a recursive function over sequence numbers. `Linked` makes each step of that walk
defined; that the function exists and reaches the root through durable events, one number
at a time, is shown by taking a least number for which it fails (`LeastNumber`), which is the
induction that the prover's own theorems do not offer. With it every step that moves the head
is one append to the log as its readers see it (`LineageNeverBreaks`,
`StoreKeepsItsPromise`).

*Families* (`FamilyRoomProofs`). The channel named 0 fixes the distance between the
space's revision and its generation; every later channel, and every request in progress, is
at that distance, so two channels of one generation would be channels of one revision.
`CanGoOn` says that what the author of the current record needs to send the request again
stays as it is, unless the joiner's device is somebody else's. It rests on `Behind`: channels
and requests are of past records, and where a channel was formed no two members shared a
device, so a LEAVE, which starts from a channel, leads to a record that can have one.
`Unmeddled` is the same for HOST before its channel. Theorems: `GenerationsHaveOneSegment`, `InvitationsStayHonest`,
`OwnersDecideAlways`, `RoomContinuesAlways`.

*Runtime recovery* (`RecoveryCycleProofs`). `RecoveryInv` relates two sides that never read
each other. The aggregate believes what a claim's story once told, and a scheduler may have
moved on since; what makes that safe is that a story only grows and that a checkpoint which
was resumed, with or without its claim, is never paused again, so the generation leased for
it is fixed (`StoriesHold`, `ClaimKnown`). From that a cycle that continued did so on the
leased generation (`ContinuationLeased`), its success ran there (`SuccessEarned`), its
convergence is of that success or an earlier one (`ConvergenceEarned`), and a receipt that
was issued keeps saying what is so (`ReceiptsKnown`). `HoldsHeld` is the strengthening that
the finality of a hold needs: a held cycle never continued, so no attempt can start in it.
Theorems: `RecoveryTyped`, `ClosuresAreEarned`, `RetriesRunLeased`,
`RecoveryKeepsItsPromise` (the refinement of `FailureCase`). They hold for any number of
attempts, which matters because the retry budgets are never reached (section 3).

*Concern watch* (`ConcernWatchProofs`). A concern on its way to work has observations that
cross the threshold, and a current threshold draft says what the observations amount to; so
the transition from ADMITTED_WORK to HELD_UNKNOWN, which the table of legal transitions
allows, never happens. Theorems: `WorkIsAlwaysEarned`, `WorkNeverOutOfSight`,
`QueueAlwaysShowsWork`.

*Only model-checked.* Of the properties of the passing runs, `CancelTakenUp`: it is a
liveness property under fairness, which the prover does not reach. The statements of the
documents that the code breaks (section 3) are counterexamples, hence TLC's; several of
them speak of what is ENABLED. That the bound of `AgingWins` is exact, and the
figures of section 3, are facts about the instances.

## 5. Plan

What is left, in this order:

1. `Workgraph`: nodes, dependencies and settlement, replacing the free snapshots of
   `DueLedger` and `NodeFairness`.
2. The relationships store, as a second user of the file protocol of `ConversationStore`,
   with revisions and receipts.
3. The home bridge's sessions, and the manual part of the daily dream (its phase receipts).
4. The scheduler's snapshot and pointer files, which `Restart` takes as one step.

## 6. Not modelled

Pure I/O, hashing, rendering, translation, registries, build checks and generators have no
state that changes in steps. The automatic branch of daily autonomy is not reachable
today: its document (`docs/SCHEDULED-DAILY-AUTONOMY.md`) and its code hold every background
admission. The completion verifier is a pure function whose acceptance `CompleteActive`
assumes. The components with status `not_modelled` in `PROJECT.json` that do have state are
those of the plan above and the heretic runtime and lived companion, whose behaviour depends
on processes and sockets outside the repository. Within modelled components, the parts left
out are named in section 2 and in the notes of `PROJECT.json`; the main ones are the DIRECT
channels of a Family, the adoption of external events and the projections of runtime
recovery, the snapshot files of concern watch, the bridge from an intent to a native worker's
manifest, and the separate budgets of context, resource and effect leases.
