------------------------- MODULE RecoveryCycleProofs -------------------------
(***************************************************************************)
(* Theorems about runtime recovery for any number of attempts, schedulers, *)
(* checkpoints and generations, any failure classes and any retry policy.  *)
(*                                                                         *)
(* The aggregate and the scheduler never look at each other's present      *)
(* state, so the invariant is about what the one may still believe of the  *)
(* other: a recorded claim is one the checkpoint has had, and what a cycle *)
(* continued on stays leased, because a checkpoint's story only grows and  *)
(* a resumed one is never resumed again.                                   *)
(***************************************************************************)
EXTENDS RecoveryCycle, SequenceTheorems, TLAPS

-----------------------------------------------------------------------------
(* The invariant.                                                          *)

\* A claim is granted, and then either given up or resumed and consumed.
Stories ==
  {<<>>, <<"CLAIMED_CURRENT">>,
   <<"CLAIMED_CURRENT", "RESUMED_CONSUMED">>,
   <<"CLAIMED_CURRENT", "RESUMED_CONSUMED", "TERMINAL_CONSUMED">>,
   <<"CLAIMED_CURRENT", "INVALIDATED_OR_ABANDONED">>}

Told(c, s) == s \in ToSet(checkpoints[c].story)

\* A checkpoint has a claim if it has a cycle, and one that was resumed, with or
\* without its claim, is no longer paused.
StoriesHold ==
  \A c \in DOMAIN checkpoints :
    /\ checkpoints[c].story \in Stories
    /\ checkpoints[c].cycle = 0 <=> checkpoints[c].story = <<>>
    /\ Told(c, "RESUMED_CONSUMED") \/ checkpoints[c].leased # 0
         => checkpoints[c].pointer = "RESUMED"

\* The admitted checkpoint was claimed for the active cycle.
AdmissionKnown ==
  aggregate.admission # None =>
    /\ aggregate.admission.checkpoint \in DOMAIN checkpoints
    /\ checkpoints[aggregate.admission.checkpoint].cycle = aggregate.cycle
    /\ aggregate.cycle # 0

\* The claim recorded for the active cycle is one the admitted checkpoint has had.
ClaimKnown ==
  aggregate.claim # None =>
    /\ aggregate.claim.cycle <= aggregate.cycle
    /\ \/ aggregate.claim.cycle < aggregate.cycle
       \/ /\ aggregate.admission # None
          /\ Told(aggregate.admission.checkpoint, aggregate.claim.state)

\* An applied action is the decided one and has its evidence.
ActionEvident ==
  aggregate.action # None =>
    /\ aggregate.action = aggregate.decision
    /\ Required[aggregate.action] \subseteq aggregate.evidence

\* A recovered cycle that went on did so by its action, on the generation that
\* the scheduler leased when it resumed the claim of the cycle.
Leased ==
  /\ aggregate.action # None
  /\ aggregate.admission # None
  /\ aggregate.admission.next = aggregate.generation
  /\ checkpoints[aggregate.admission.checkpoint].leased = aggregate.generation
  /\ aggregate.continuation.gen = aggregate.generation
  /\ aggregate.claim # None
  /\ aggregate.claim.cycle = aggregate.cycle
  /\ aggregate.claim.state \in {"RESUMED_CONSUMED", "TERMINAL_CONSUMED"}

ContinuationLeased ==
  /\ aggregate.continuation # None => aggregate.continuation.cycle <= aggregate.cycle
  /\ aggregate.failure # None /\ Continued => Leased

\* The success of a failed cycle ran on the generation it continued on.
SuccessEarned ==
  aggregate.success # None =>
    /\ aggregate.success.run <= aggregate.runs
    /\ aggregate.failure # None =>
         /\ Continued
         /\ aggregate.success.cycle = aggregate.cycle
         /\ aggregate.success.gen = aggregate.generation
         /\ aggregate.success.gen > aggregate.failure.gen

ConvergenceEarned ==
  aggregate.convergence # None =>
    /\ aggregate.success # None
    /\ aggregate.convergence.run <= aggregate.success.run
    /\ aggregate.convergence.cycle = aggregate.cycle
    /\ aggregate.failure # None => Continued

\* A held cycle has been admitted, did not go on, and is held by its decision or
\* because its claim was given up.  A completed aggregate has no active failure.
HoldsHeld ==
  /\ aggregate.phase = "COMPLETED" => aggregate.failure = None
  /\ aggregate.phase \in Holds =>
       /\ aggregate.failure # None
       /\ aggregate.admission # None
       /\ ~Continued
       /\ \/ /\ aggregate.claim # None
             /\ aggregate.claim.cycle = aggregate.cycle
             /\ aggregate.claim.state = "INVALIDATED_OR_ABANDONED"
          \/ aggregate.decision # None /\ Disposition(aggregate.decision) \in Holds

\* A failure is active until its cycle is closed, and no later cycle is closed.
CyclesClosed ==
  /\ \A t \in terminals : t.cycle <= aggregate.cycle
  /\ aggregate.failure # None =>
       aggregate.cycle # 0 /\ \A t \in terminals : t.cycle # aggregate.cycle
  /\ aggregate.failure = None =>
       aggregate.cycle = 0 \/ \E t \in terminals : t.cycle = aggregate.cycle

\* A closed cycle names a checkpoint whose claim was consumed, on the generation
\* leased for it.
ReceiptsKnown ==
  \A t \in terminals :
    /\ t.checkpoint \in DOMAIN checkpoints
    /\ Told(t.checkpoint, "TERMINAL_CONSUMED")
    /\ checkpoints[t.checkpoint].cycle = t.cycle
    /\ checkpoints[t.checkpoint].leased = t.success.gen

ReceiptsEarned ==
  \A t \in terminals :
    /\ \A u \in terminals : u.cycle = t.cycle => u = t
    /\ Required[t.action] \subseteq t.evidence
    /\ t.success.cycle = t.cycle /\ t.convergence.cycle = t.cycle
    /\ t.convergence.run <= t.success.run
    /\ t.success.gen > t.failedAt

CycleInv ==
  /\ AdmissionKnown /\ ClaimKnown /\ ActionEvident /\ ContinuationLeased
  /\ SuccessEarned /\ ConvergenceEarned /\ HoldsHeld

RecoveryInv ==
  /\ TypeOK /\ StoriesHold /\ CycleInv
  /\ CyclesClosed /\ ReceiptsKnown /\ ReceiptsEarned

USE ClassesAssumption, BoundsAssumption, NoneAssumption

-----------------------------------------------------------------------------
(* Stories and checkpoints.                                                *)

\* The stories are sequences of lifecycles, and this is what they tell.
LEMMA StoriesAreTold ==
  /\ Stories \subseteq Seq(Lifecycles)
  /\ Append(<<"CLAIMED_CURRENT">>, "RESUMED_CONSUMED")
       = <<"CLAIMED_CURRENT", "RESUMED_CONSUMED">>
  /\ Append(<<"CLAIMED_CURRENT", "RESUMED_CONSUMED">>, "TERMINAL_CONSUMED")
       = <<"CLAIMED_CURRENT", "RESUMED_CONSUMED", "TERMINAL_CONSUMED">>
  /\ Append(<<"CLAIMED_CURRENT">>, "INVALIDATED_OR_ABANDONED")
       = <<"CLAIMED_CURRENT", "INVALIDATED_OR_ABANDONED">>
  /\ ToSet(<<>>) = {}
  /\ ToSet(<<"CLAIMED_CURRENT">>) = {"CLAIMED_CURRENT"}
  /\ ToSet(<<"CLAIMED_CURRENT", "RESUMED_CONSUMED">>)
       = {"CLAIMED_CURRENT", "RESUMED_CONSUMED"}
  /\ ToSet(<<"CLAIMED_CURRENT", "RESUMED_CONSUMED", "TERMINAL_CONSUMED">>)
       = {"CLAIMED_CURRENT", "RESUMED_CONSUMED", "TERMINAL_CONSUMED"}
  /\ ToSet(<<"CLAIMED_CURRENT", "INVALIDATED_OR_ABANDONED">>)
       = {"CLAIMED_CURRENT", "INVALIDATED_OR_ABANDONED"}
<1>1. Stories \subseteq Seq(Lifecycles)
  BY DEF Stories, Lifecycles
<1>2. Append(<<"CLAIMED_CURRENT">>, "RESUMED_CONSUMED")
        = <<"CLAIMED_CURRENT", "RESUMED_CONSUMED">>
  <2>1. <<"CLAIMED_CURRENT">> \in Seq(Lifecycles) /\ "RESUMED_CONSUMED" \in Lifecycles
    BY DEF Lifecycles
  <2>2. <<"CLAIMED_CURRENT", "RESUMED_CONSUMED">> \in Seq(Lifecycles)
    BY DEF Lifecycles
  <2>3. Append(<<"CLAIMED_CURRENT">>, "RESUMED_CONSUMED") \in Seq(Lifecycles)
    BY <2>1
  <2>4. /\ Len(Append(<<"CLAIMED_CURRENT">>, "RESUMED_CONSUMED")) = 2
        /\ \A i \in 1..2 : Append(<<"CLAIMED_CURRENT">>, "RESUMED_CONSUMED")[i]
             = <<"CLAIMED_CURRENT", "RESUMED_CONSUMED">>[i]
    BY <2>1
  <2>5. QED
    BY <2>2, <2>3, <2>4, SeqEqual
<1>3. Append(<<"CLAIMED_CURRENT", "RESUMED_CONSUMED">>, "TERMINAL_CONSUMED")
        = <<"CLAIMED_CURRENT", "RESUMED_CONSUMED", "TERMINAL_CONSUMED">>
  <2>1. <<"CLAIMED_CURRENT", "RESUMED_CONSUMED">> \in Seq(Lifecycles) /\ "TERMINAL_CONSUMED" \in Lifecycles
    BY DEF Lifecycles
  <2>2. <<"CLAIMED_CURRENT", "RESUMED_CONSUMED", "TERMINAL_CONSUMED">> \in Seq(Lifecycles)
    BY DEF Lifecycles
  <2>3. Append(<<"CLAIMED_CURRENT", "RESUMED_CONSUMED">>, "TERMINAL_CONSUMED") \in Seq(Lifecycles)
    BY <2>1
  <2>4. /\ Len(Append(<<"CLAIMED_CURRENT", "RESUMED_CONSUMED">>, "TERMINAL_CONSUMED")) = 3
        /\ \A i \in 1..3 : Append(<<"CLAIMED_CURRENT", "RESUMED_CONSUMED">>, "TERMINAL_CONSUMED")[i]
             = <<"CLAIMED_CURRENT", "RESUMED_CONSUMED", "TERMINAL_CONSUMED">>[i]
    BY <2>1
  <2>5. QED
    BY <2>2, <2>3, <2>4, SeqEqual
<1>4. Append(<<"CLAIMED_CURRENT">>, "INVALIDATED_OR_ABANDONED")
        = <<"CLAIMED_CURRENT", "INVALIDATED_OR_ABANDONED">>
  <2>1. <<"CLAIMED_CURRENT">> \in Seq(Lifecycles) /\ "INVALIDATED_OR_ABANDONED" \in Lifecycles
    BY DEF Lifecycles
  <2>2. <<"CLAIMED_CURRENT", "INVALIDATED_OR_ABANDONED">> \in Seq(Lifecycles)
    BY DEF Lifecycles
  <2>3. Append(<<"CLAIMED_CURRENT">>, "INVALIDATED_OR_ABANDONED") \in Seq(Lifecycles)
    BY <2>1
  <2>4. /\ Len(Append(<<"CLAIMED_CURRENT">>, "INVALIDATED_OR_ABANDONED")) = 2
        /\ \A i \in 1..2 : Append(<<"CLAIMED_CURRENT">>, "INVALIDATED_OR_ABANDONED")[i]
             = <<"CLAIMED_CURRENT", "INVALIDATED_OR_ABANDONED">>[i]
    BY <2>1
  <2>5. QED
    BY <2>2, <2>3, <2>4, SeqEqual
<1>5. ToSet(<<>>) = {}
  BY DEF ToSet
<1>6. ToSet(<<"CLAIMED_CURRENT">>) = {"CLAIMED_CURRENT"}
  BY DEF ToSet
<1>7. ToSet(<<"CLAIMED_CURRENT", "RESUMED_CONSUMED">>)
        = {"CLAIMED_CURRENT", "RESUMED_CONSUMED"}
  BY DEF ToSet
<1>8. ToSet(<<"CLAIMED_CURRENT", "RESUMED_CONSUMED", "TERMINAL_CONSUMED">>)
        = {"CLAIMED_CURRENT", "RESUMED_CONSUMED", "TERMINAL_CONSUMED"}
  BY DEF ToSet
<1>9. ToSet(<<"CLAIMED_CURRENT", "INVALIDATED_OR_ABANDONED">>)
        = {"CLAIMED_CURRENT", "INVALIDATED_OR_ABANDONED"}
  BY DEF ToSet
<1>10. QED
  BY <1>1, <1>2, <1>3, <1>4, <1>5, <1>6, <1>7, <1>8, <1>9

\* The last word of each story.
LEMMA StoriesEnd ==
  /\ Last(<<"CLAIMED_CURRENT">>) = "CLAIMED_CURRENT"
  /\ Last(<<"CLAIMED_CURRENT", "RESUMED_CONSUMED">>) = "RESUMED_CONSUMED"
  /\ Last(<<"CLAIMED_CURRENT", "RESUMED_CONSUMED", "TERMINAL_CONSUMED">>)
       = "TERMINAL_CONSUMED"
  /\ Last(<<"CLAIMED_CURRENT", "INVALIDATED_OR_ABANDONED">>) = "INVALIDATED_OR_ABANDONED"
BY DEF Last

\* A claim stands in the state its story ends with.
LEMMA ClaimStands ==
  ASSUME StoriesHold, NEW c \in DOMAIN checkpoints
  PROVE  /\ ClaimIs(c, "CLAIMED_CURRENT") <=>
              checkpoints[c].story = <<"CLAIMED_CURRENT">>
         /\ ClaimIs(c, "RESUMED_CONSUMED") <=>
              checkpoints[c].story = <<"CLAIMED_CURRENT", "RESUMED_CONSUMED">>
         /\ Told(c, "TERMINAL_CONSUMED") => ClaimIs(c, "TERMINAL_CONSUMED")
<1>1. checkpoints[c].story \in Stories
  BY DEF StoriesHold
<1>2. PICK s : s = checkpoints[c].story
  OBVIOUS
<1>3. /\ s # <<>> /\ Last(s) = "CLAIMED_CURRENT" <=> s = <<"CLAIMED_CURRENT">>
      /\ s # <<>> /\ Last(s) = "RESUMED_CONSUMED" <=>
           s = <<"CLAIMED_CURRENT", "RESUMED_CONSUMED">>
      /\ "TERMINAL_CONSUMED" \in ToSet(s) => s # <<>> /\ Last(s) = "TERMINAL_CONSUMED"
  BY <1>1, <1>2, StoriesAreTold, StoriesEnd DEF Stories
<1>4. QED
  BY <1>2, <1>3 DEF ClaimIs, Told

-----------------------------------------------------------------------------
(* The scheduler's steps.                                                  *)

\* What the aggregate relies on when the scheduler moves: a checkpoint's story
\* grows, and neither its claim nor its lease changes hands.
Advance ==
  \A c \in DOMAIN checkpoints :
    /\ c \in DOMAIN checkpoints'
    /\ ToSet(checkpoints[c].story) \subseteq ToSet(checkpoints'[c].story)
    /\ checkpoints[c].cycle # 0 => checkpoints'[c].cycle = checkpoints[c].cycle
    /\ checkpoints[c].leased # 0 => checkpoints'[c].leased = checkpoints[c].leased

\* A checkpoint k that StoriesHold allows.
Sound(k) ==
  /\ k \in SchedulerCheckpoint
  /\ k.story \in Stories
  /\ k.cycle = 0 <=> k.story = <<>>
  /\ "RESUMED_CONSUMED" \in ToSet(k.story) \/ k.leased # 0 => k.pointer = "RESUMED"

\* The checkpoint k may follow the checkpoint j.
Follows(j, k) ==
  /\ ToSet(j.story) \subseteq ToSet(k.story)
  /\ j.cycle # 0 => k.cycle = j.cycle
  /\ j.leased # 0 => k.leased = j.leased

\* The checkpoints of a state, and what a step does to them.
LEMMA CheckpointsSound ==
  ASSUME TypeOK, StoriesHold, NEW c \in DOMAIN checkpoints
  PROVE  Sound(checkpoints[c]) /\ checkpoints[c].cycle <= aggregate.cycle
BY DEF TypeOK, StoriesHold, Sound, Told

LEMMA CheckpointsAdvance ==
  ASSUME TypeOK, UNCHANGED <<aggregate, terminals>>, scheduler' \in SchedulerInstance,
         NEW n \in Nat, n <= MaxCheckpoints, DOMAIN checkpoints' = 1..n,
         checkpoints' \in Seq(SchedulerCheckpoint), Len(checkpoints') = n,
         \A c \in 1..n : Sound(checkpoints'[c]) /\ checkpoints'[c].cycle <= aggregate.cycle,
         \A c \in DOMAIN checkpoints : c \in 1..n /\ Follows(checkpoints[c], checkpoints'[c])
  PROVE  TypeOK' /\ StoriesHold' /\ Advance
<1>1. TypeOK'
  BY DEF TypeOK
<1>2. StoriesHold'
  BY DEF StoriesHold, Sound, Told
<1>3. Advance
  BY DEF Advance, Follows
<1>4. QED
  BY <1>1, <1>2, <1>3

\* One checkpoint is replaced.
LEMMA CheckpointReplaced ==
  ASSUME TypeOK, StoriesHold, UNCHANGED <<aggregate, terminals>>,
         scheduler' \in SchedulerInstance,
         NEW c \in DOMAIN checkpoints, NEW k,
         checkpoints' = [checkpoints EXCEPT ![c] = k],
         Sound(k), k.cycle <= aggregate.cycle, Follows(checkpoints[c], k)
  PROVE  TypeOK' /\ StoriesHold' /\ Advance
<1>1. PICK n \in Nat : /\ n = Len(checkpoints) /\ n <= MaxCheckpoints
                       /\ DOMAIN checkpoints = 1..n
  BY DEF TypeOK
<1>2. /\ checkpoints' \in Seq(SchedulerCheckpoint) /\ Len(checkpoints') = n
      /\ DOMAIN checkpoints' = 1..n
      /\ \A d \in 1..n : checkpoints'[d] = IF d = c THEN k ELSE checkpoints[d]
  BY <1>1, ExceptSeq DEF TypeOK, Sound
<1>3. \A d \in 1..n : Sound(checkpoints'[d]) /\ checkpoints'[d].cycle <= aggregate.cycle
  BY <1>1, <1>2, CheckpointsSound
<1>4. \A d \in DOMAIN checkpoints : d \in 1..n /\ Follows(checkpoints[d], checkpoints'[d])
  BY <1>1, <1>2 DEF Follows
<1>5. QED
  BY <1>1, <1>2, <1>3, <1>4, CheckpointsAdvance

LEMMA NewSchedulerAdvances ==
  ASSUME TypeOK, StoriesHold, NEW g \in Generations, NewScheduler(g)
  PROVE  TypeOK' /\ StoriesHold' /\ Advance
<1>1. scheduler' \in SchedulerInstance
  BY DEF TypeOK, NewScheduler, SchedulerInstance
<1>2. UNCHANGED <<aggregate, terminals, checkpoints>>
  BY DEF NewScheduler
<1>3. TypeOK'
  BY <1>1, <1>2 DEF TypeOK
<1>4. QED
  BY <1>2, <1>3 DEF StoriesHold, Told, Advance

LEMMA PauseAdvances ==
  ASSUME TypeOK, StoriesHold, PauseWork
  PROVE  TypeOK' /\ StoriesHold' /\ Advance
<1> DEFINE k == [instance |-> scheduler.instance, gen |-> scheduler.gen,
                 pointer |-> "PAUSED", cycle |-> 0, story |-> <<>>, leased |-> 0]
<1>1. PICK n \in Nat : n = Len(checkpoints) /\ DOMAIN checkpoints = 1..n
  BY DEF TypeOK
<1>2. UNCHANGED <<aggregate, terminals>> /\ checkpoints' = Append(checkpoints, k)
      /\ n + 1 <= MaxCheckpoints
  BY <1>1 DEF PauseWork
<1>3. scheduler' \in SchedulerInstance
  BY DEF TypeOK, PauseWork, SchedulerInstance
<1>4. Sound(k) /\ k.cycle <= aggregate.cycle
  <2>1. k \in SchedulerCheckpoint
    BY DEF TypeOK, SchedulerInstance, SchedulerCheckpoint
  <2>2. aggregate.cycle \in Nat
    BY DEF TypeOK, Aggregate
  <2>3. QED
    BY <2>1, <2>2, StoriesAreTold DEF Sound, Stories
<1>5. /\ checkpoints' \in Seq(SchedulerCheckpoint) /\ Len(checkpoints') = n + 1
      /\ DOMAIN checkpoints' = 1..n + 1
      /\ \A c \in 1..n + 1 : checkpoints'[c] = IF c = n + 1 THEN k ELSE checkpoints[c]
  <2> HIDE DEF k
  <2>1. checkpoints \in Seq(SchedulerCheckpoint) /\ k \in SchedulerCheckpoint
    BY <1>4 DEF TypeOK, Sound
  <2>2. QED
    BY <1>1, <1>2, <2>1
<1>6. ASSUME NEW c \in 1..n + 1
      PROVE  Sound(checkpoints'[c]) /\ checkpoints'[c].cycle <= aggregate.cycle
  <2> HIDE DEF k
  <2>1. CASE c = n + 1
    BY <1>4, <1>5, <2>1
  <2>2. CASE c \in 1..n
    BY <1>1, <1>5, <2>2, CheckpointsSound
  <2>3. QED
    BY <2>1, <2>2
<1>7. \A c \in DOMAIN checkpoints : c \in 1..n + 1 /\ Follows(checkpoints[c], checkpoints'[c])
  BY <1>1, <1>5 DEF Follows
<1>8. QED
  <2> HIDE DEF k
  <2>1. PICK m \in Nat : m = n + 1
    OBVIOUS
  <2>2. /\ m <= MaxCheckpoints /\ DOMAIN checkpoints' = 1..m
        /\ checkpoints' \in Seq(SchedulerCheckpoint) /\ Len(checkpoints') = m
    BY <1>2, <1>5, <2>1
  <2>3. \A c \in 1..m : Sound(checkpoints'[c]) /\ checkpoints'[c].cycle <= aggregate.cycle
    BY <1>6, <2>1
  <2>4. \A c \in DOMAIN checkpoints : c \in 1..m /\ Follows(checkpoints[c], checkpoints'[c])
    BY <1>7, <2>1
  <2>5. QED
    BY <1>2, <1>3, <2>2, <2>3, <2>4, CheckpointsAdvance

LEMMA ClaimAdvances ==
  ASSUME RecoveryInv, NEW c \in DOMAIN checkpoints, Claim(c)
  PROVE  TypeOK' /\ StoriesHold' /\ Advance
<1> DEFINE k == [checkpoints[c] EXCEPT !.cycle = aggregate.cycle,
                                       !.story = <<"CLAIMED_CURRENT">>]
<1>1. /\ UNCHANGED <<aggregate, terminals, scheduler>>
      /\ checkpoints' = [checkpoints EXCEPT ![c] = k]
      /\ checkpoints[c].story = <<>>
      /\ aggregate.failure # None
  BY DEF Claim
<1>2. Sound(checkpoints[c])
  BY CheckpointsSound DEF RecoveryInv
<1>3. aggregate.cycle \in 1..MaxRuns
  BY <1>1 DEF RecoveryInv, CyclesClosed, TypeOK, Aggregate
<1>4. /\ k.cycle = aggregate.cycle /\ k.story = <<"CLAIMED_CURRENT">>
      /\ k.leased = checkpoints[c].leased /\ k.pointer = checkpoints[c].pointer
      /\ k \in SchedulerCheckpoint
  <2>1. <<"CLAIMED_CURRENT">> \in Seq(Lifecycles)
    BY StoriesAreTold DEF Stories
  <2>2. PICK s : s = <<"CLAIMED_CURRENT">>
    OBVIOUS
  <2>3. PICK j \in 0..MaxRuns : j = aggregate.cycle
    BY <1>3
  <2>4. k = [checkpoints[c] EXCEPT !.cycle = j, !.story = s]
    BY <2>2, <2>3
  <2> HIDE DEF k
  <2>5. QED
    BY <1>2, <2>1, <2>2, <2>3, <2>4 DEF Sound, SchedulerCheckpoint
<1>5. Sound(k)
  <2> HIDE DEF k
  <2>1. k.story \in Stories /\ k.story # <<>> /\ k.cycle # 0
    BY <1>3, <1>4, StoriesEnd DEF Stories
  <2>2. "RESUMED_CONSUMED" \notin ToSet(k.story)
    BY <1>4, StoriesAreTold
  <2>3. QED
    BY <1>2, <1>4, <2>1, <2>2 DEF Sound
<1>6. Follows(checkpoints[c], k)
  <2> HIDE DEF k
  <2>1. checkpoints[c].cycle = 0 /\ ToSet(checkpoints[c].story) = {}
    BY <1>1, <1>2, StoriesAreTold DEF Sound
  <2>2. QED
    BY <1>4, <2>1 DEF Follows
<1>7. k.cycle <= aggregate.cycle
  BY <1>3, <1>4
<1>8. QED
  <2> HIDE DEF k
  <2>1. scheduler' \in SchedulerInstance
    BY <1>1 DEF RecoveryInv, TypeOK
  <2>2. QED
    BY <1>1, <1>5, <1>6, <1>7, <2>1, CheckpointReplaced DEF RecoveryInv

\* A resume, with the story it leaves: the same one, or one that consumes the claim.
LEMMA ResumeAdvances ==
  ASSUME RecoveryInv, NEW c \in DOMAIN checkpoints, NEW g \in Generations, NEW story \in Stories,
         PausedHere(c), Resumed(c, g, story),
         \/ story = checkpoints[c].story
         \/ /\ checkpoints[c].story = <<"CLAIMED_CURRENT">>
            /\ story = <<"CLAIMED_CURRENT", "RESUMED_CONSUMED">>
  PROVE  TypeOK' /\ StoriesHold' /\ Advance
<1> DEFINE k == [checkpoints[c] EXCEPT !.pointer = "RESUMED", !.leased = g, !.story = story]
<1>1. /\ UNCHANGED <<aggregate, terminals>>
      /\ checkpoints' = [checkpoints EXCEPT ![c] = k]
      /\ checkpoints[c].pointer = "PAUSED"
  BY DEF Resumed, PausedHere
<1>2. scheduler' \in SchedulerInstance
  BY DEF RecoveryInv, TypeOK, Resumed, SchedulerInstance
<1>3. Sound(checkpoints[c]) /\ checkpoints[c].cycle <= aggregate.cycle
  BY CheckpointsSound DEF RecoveryInv
<1>4. /\ k.cycle = checkpoints[c].cycle /\ k.story = story
      /\ k.leased = g /\ k.pointer = "RESUMED"
      /\ k \in SchedulerCheckpoint
  <2>1. story \in Seq(Lifecycles)
    BY StoriesAreTold
  <2>2. g \in 0..MaxGeneration
    BY DEF Generations
  <2>3. QED
    BY <1>3, <2>1, <2>2 DEF Sound, SchedulerCheckpoint
<1>5. Sound(k) /\ Follows(checkpoints[c], k)
  <2> HIDE DEF k
  <2>1. checkpoints[c].story = <<>> <=> story = <<>>
    BY StoriesEnd DEF Stories
  <2>2. checkpoints[c].leased = 0
    BY <1>1, <1>3 DEF Sound
  <2>3. ToSet(checkpoints[c].story) \subseteq ToSet(story)
    BY StoriesAreTold
  <2>4. QED
    BY <1>3, <1>4, <2>1, <2>2, <2>3 DEF Sound, Follows
<1>6. QED
  <2> HIDE DEF k
  <2>1. k.cycle <= aggregate.cycle
    BY <1>3, <1>4
  <2>2. QED
    BY <1>1, <1>2, <1>5, <2>1, CheckpointReplaced DEF RecoveryInv

LEMMA AbandonAdvances ==
  ASSUME RecoveryInv, NEW c \in DOMAIN checkpoints, AbandonClaim(c)
  PROVE  TypeOK' /\ StoriesHold' /\ Advance
<1> DEFINE k == [checkpoints[c] EXCEPT !.pointer = "HELD",
                    !.story = <<"CLAIMED_CURRENT", "INVALIDATED_OR_ABANDONED">>]
<1>1. /\ checkpoints[c].story = <<"CLAIMED_CURRENT">> /\ checkpoints[c].pointer = "PAUSED"
      /\ UNCHANGED <<aggregate, terminals>>
  BY ClaimStands DEF RecoveryInv, AbandonClaim, PausedHere
<1>2. checkpoints' = [checkpoints EXCEPT ![c] = k]
  <2>1. checkpoints' = [checkpoints EXCEPT ![c] =
          [checkpoints[c] EXCEPT !.pointer = "HELD",
             !.story = Append(checkpoints[c].story, "INVALIDATED_OR_ABANDONED")]]
    BY DEF AbandonClaim
  <2>2. QED
    BY <1>1, <2>1, StoriesAreTold
<1>3. scheduler' \in SchedulerInstance
  BY DEF RecoveryInv, TypeOK, AbandonClaim, SchedulerInstance
<1>4. Sound(checkpoints[c]) /\ checkpoints[c].cycle <= aggregate.cycle
  BY CheckpointsSound DEF RecoveryInv
<1>5. /\ k.cycle = checkpoints[c].cycle
      /\ k.story = <<"CLAIMED_CURRENT", "INVALIDATED_OR_ABANDONED">>
      /\ k.leased = checkpoints[c].leased /\ k \in SchedulerCheckpoint
  <2>1. <<"CLAIMED_CURRENT", "INVALIDATED_OR_ABANDONED">> \in Seq(Lifecycles)
    BY StoriesAreTold DEF Stories
  <2>2. QED
    BY <1>4, <2>1 DEF Sound, SchedulerCheckpoint
<1>6. Sound(k) /\ Follows(checkpoints[c], k)
  <2> HIDE DEF k
  <2>1. k.story \in Stories /\ k.story # <<>> /\ checkpoints[c].story # <<>>
    BY <1>1, <1>5, StoriesEnd DEF Stories
  <2>2. /\ "RESUMED_CONSUMED" \notin ToSet(k.story)
        /\ ToSet(checkpoints[c].story) \subseteq ToSet(k.story)
    BY <1>1, <1>5, StoriesAreTold
  <2>3. checkpoints[c].leased = 0
    BY <1>1, <1>4 DEF Sound
  <2>4. QED
    BY <1>4, <1>5, <2>1, <2>2, <2>3 DEF Sound, Follows
<1>7. QED
  <2> HIDE DEF k
  <2>1. k.cycle <= aggregate.cycle
    BY <1>4, <1>5
  <2>2. QED
    BY <1>1, <1>2, <1>3, <1>6, <2>1, CheckpointReplaced DEF RecoveryInv

LEMMA CompleteAdvances ==
  ASSUME RecoveryInv, CompleteWork
  PROVE  TypeOK' /\ StoriesHold' /\ Advance
<1> DEFINE Consumes(c) == /\ ClaimIs(c, "RESUMED_CONSUMED")
                          /\ checkpoints[c].leased = scheduler.gen
                          /\ checkpoints[c].instance = scheduler.instance
           k(c) == [checkpoints[c] EXCEPT
                      !.story = Append(checkpoints[c].story, "TERMINAL_CONSUMED")]
<1>1. /\ UNCHANGED <<aggregate, terminals>>
      /\ checkpoints' = [c \in DOMAIN checkpoints |->
                           IF Consumes(c) THEN k(c) ELSE checkpoints[c]]
  BY DEF CompleteWork
<1>2. scheduler' \in SchedulerInstance
  BY DEF RecoveryInv, TypeOK, CompleteWork, SchedulerInstance
<1>3. PICK n \in Nat : /\ n = Len(checkpoints) /\ n <= MaxCheckpoints
                       /\ DOMAIN checkpoints = 1..n
  BY DEF RecoveryInv, TypeOK
<1>4. ASSUME NEW c \in 1..n
      PROVE  /\ Sound(checkpoints'[c]) /\ checkpoints'[c].cycle <= aggregate.cycle
             /\ Follows(checkpoints[c], checkpoints'[c])
  <2>1. Sound(checkpoints[c]) /\ checkpoints[c].cycle <= aggregate.cycle
    BY <1>3, CheckpointsSound DEF RecoveryInv
  <2>2. CASE Consumes(c)
    <3>1. checkpoints[c].story = <<"CLAIMED_CURRENT", "RESUMED_CONSUMED">>
      BY <1>3, <2>2, ClaimStands DEF RecoveryInv
    <3>2. PICK j : j = k(c)
      OBVIOUS
    <3>3. checkpoints'[c] = j
      BY <1>1, <1>3, <2>2, <3>2
    <3>4. /\ j.cycle = checkpoints[c].cycle /\ j.leased = checkpoints[c].leased
          /\ j.pointer = checkpoints[c].pointer /\ j \in SchedulerCheckpoint
          /\ j.story = <<"CLAIMED_CURRENT", "RESUMED_CONSUMED", "TERMINAL_CONSUMED">>
      <4>2. <<"CLAIMED_CURRENT", "RESUMED_CONSUMED", "TERMINAL_CONSUMED">> \in Seq(Lifecycles)
        BY StoriesAreTold DEF Stories
      <4>3. Append(checkpoints[c].story, "TERMINAL_CONSUMED")
              = <<"CLAIMED_CURRENT", "RESUMED_CONSUMED", "TERMINAL_CONSUMED">>
        BY <3>1, StoriesAreTold
      <4>4. j = [checkpoints[c] EXCEPT
                   !.story = <<"CLAIMED_CURRENT", "RESUMED_CONSUMED", "TERMINAL_CONSUMED">>]
        BY <3>2, <4>3
      <4> HIDE DEF k
      <4>5. QED
        BY <2>1, <4>2, <4>4 DEF Sound, SchedulerCheckpoint
    <3>5. /\ j.story \in Stories /\ j.story # <<>> /\ checkpoints[c].story # <<>>
          /\ "RESUMED_CONSUMED" \in ToSet(checkpoints[c].story)
          /\ ToSet(checkpoints[c].story) \subseteq ToSet(j.story)
      BY <3>1, <3>4, StoriesEnd, StoriesAreTold DEF Stories
    <3>6. QED
      BY <2>1, <3>3, <3>4, <3>5 DEF Sound, Follows
  <2>3. CASE ~Consumes(c)
    <3>1. checkpoints'[c] = checkpoints[c]
      BY <1>1, <1>3, <2>3
    <3>2. QED
      BY <2>1, <3>1 DEF Follows
  <2>4. QED
    BY <2>2, <2>3
<1>5. checkpoints' \in Seq(SchedulerCheckpoint) /\ Len(checkpoints') = n
      /\ DOMAIN checkpoints' = 1..n
  <2> HIDE DEF Consumes, k
  <2>1. DOMAIN checkpoints' = 1..n
    BY <1>1, <1>3
  <2>2. checkpoints' \in [1..n -> SchedulerCheckpoint]
    BY <1>1, <1>3, <1>4 DEF Sound
  <2>3. QED
    BY <1>3, <2>1, <2>2
<1>6. QED
  <2> HIDE DEF Consumes, k
  <2>1. \A c \in DOMAIN checkpoints : c \in 1..n /\ Follows(checkpoints[c], checkpoints'[c])
    BY <1>3, <1>4
  <2>2. QED
    BY <1>1, <1>2, <1>3, <1>4, <1>5, <2>1, CheckpointsAdvance DEF RecoveryInv

\* Every step of the scheduler leaves the aggregate alone and lets the checkpoints
\* advance.
LEMMA SchedulerAdvances ==
  ASSUME RecoveryInv, SchedulerStep
  PROVE  TypeOK' /\ StoriesHold' /\ Advance /\ UNCHANGED <<aggregate, terminals>>
<1>1. ASSUME NEW g \in Generations, NewScheduler(g)
      PROVE  TypeOK' /\ StoriesHold' /\ Advance /\ UNCHANGED <<aggregate, terminals>>
  BY <1>1, NewSchedulerAdvances DEF RecoveryInv, NewScheduler
<1>2. CASE PauseWork
  BY <1>2, PauseAdvances DEF RecoveryInv, PauseWork
<1>3. ASSUME NEW c \in DOMAIN checkpoints, Claim(c)
      PROVE  TypeOK' /\ StoriesHold' /\ Advance /\ UNCHANGED <<aggregate, terminals>>
  BY <1>3, ClaimAdvances DEF Claim
<1>4. ASSUME NEW c \in DOMAIN checkpoints, AbandonClaim(c)
      PROVE  TypeOK' /\ StoriesHold' /\ Advance /\ UNCHANGED <<aggregate, terminals>>
  BY <1>4, AbandonAdvances DEF AbandonClaim
<1>5. ASSUME NEW c \in DOMAIN checkpoints, NEW g \in Generations, ResumePlain(c, g)
      PROVE  TypeOK' /\ StoriesHold' /\ Advance /\ UNCHANGED <<aggregate, terminals>>
  <2>1. checkpoints[c].story \in Stories
    BY DEF RecoveryInv, StoriesHold
  <2>2. QED
    BY <1>5, <2>1, ResumeAdvances DEF ResumePlain, Resumed
<1>6. ASSUME NEW c \in DOMAIN checkpoints, NEW g \in Generations, ResumeRecovery(c, g)
      PROVE  TypeOK' /\ StoriesHold' /\ Advance /\ UNCHANGED <<aggregate, terminals>>
  <2>1. checkpoints[c].story = <<"CLAIMED_CURRENT">>
    BY <1>6, ClaimStands DEF ResumeRecovery, RecoveryInv
  <2>2. Resumed(c, g, <<"CLAIMED_CURRENT", "RESUMED_CONSUMED">>)
    BY <1>6, <2>1, StoriesAreTold DEF ResumeRecovery
  <2>3. <<"CLAIMED_CURRENT", "RESUMED_CONSUMED">> \in Stories
    BY DEF Stories
  <2>4. QED
    BY <1>6, <2>1, <2>2, <2>3, ResumeAdvances DEF ResumeRecovery, Resumed
<1>7. ASSUME CompleteWork
      PROVE  TypeOK' /\ StoriesHold' /\ Advance /\ UNCHANGED <<aggregate, terminals>>
  BY <1>7, CompleteAdvances DEF CompleteWork
<1>8. QED
  BY <1>1, <1>2, <1>3, <1>4, <1>5, <1>6, <1>7 DEF SchedulerStep

\* What the aggregate and the terminal receipts say stays true when the
\* checkpoints advance.
LEMMA AdvanceKeeps ==
  ASSUME RecoveryInv, TypeOK', StoriesHold', Advance, UNCHANGED <<aggregate, terminals>>
  PROVE  RecoveryInv'
<1> USE DEF RecoveryInv
<1>1. AdmissionKnown'
  BY DEF CycleInv, AdmissionKnown, Advance
<1>2. ClaimKnown'
  BY DEF CycleInv, ClaimKnown, AdmissionKnown, Advance, Told
<1>3. ActionEvident'
  BY DEF CycleInv, ActionEvident
<1>4. ContinuationLeased'
  <2>1. Continued' = Continued
    BY DEF Continued
  <2>2. ASSUME Leased PROVE Leased'
    <3>1. /\ aggregate.admission.checkpoint \in DOMAIN checkpoints
          /\ checkpoints[aggregate.admission.checkpoint].leased = aggregate.generation
          /\ aggregate.generation # 0
      BY <2>2 DEF Leased, CycleInv, AdmissionKnown, TypeOK, Aggregate, Generations
    <3>2. checkpoints'[aggregate.admission.checkpoint].leased = aggregate.generation
      BY <3>1 DEF Advance
    <3>3. QED
      BY <2>2, <3>2 DEF Leased
  <2>3. QED
    BY <2>1, <2>2 DEF CycleInv, ContinuationLeased
<1>5. SuccessEarned' /\ ConvergenceEarned' /\ HoldsHeld'
  BY DEF CycleInv, SuccessEarned, ConvergenceEarned, HoldsHeld, Continued
<1>6. CyclesClosed' /\ ReceiptsEarned'
  BY DEF CyclesClosed, ReceiptsEarned
<1>7. ReceiptsKnown'
  <2> SUFFICES ASSUME NEW t \in terminals
               PROVE  /\ t.checkpoint \in DOMAIN checkpoints'
                      /\ "TERMINAL_CONSUMED" \in ToSet(checkpoints'[t.checkpoint].story)
                      /\ checkpoints'[t.checkpoint].cycle = t.cycle
                      /\ checkpoints'[t.checkpoint].leased = t.success.gen
    BY DEF ReceiptsKnown, Told
  <2>1. t.cycle # 0 /\ t.success.gen # 0
    BY DEF TypeOK, TerminalReceipt, Success, Runs, Generations
  <2>2. QED
    BY <2>1 DEF ReceiptsKnown, Told, Advance
<1>8. QED
  BY <1>1, <1>2, <1>3, <1>4, <1>5, <1>6, <1>7 DEF CycleInv

-----------------------------------------------------------------------------
(* The aggregate's steps within a cycle.                                   *)

\* Steps of the aggregate that neither run the work nor open or close a cycle.
SameCycle ==
  /\ aggregate' \in Aggregate
  /\ UNCHANGED <<terminals, scheduler, checkpoints>>
  /\ aggregate'.cycle = aggregate.cycle /\ aggregate'.failure = aggregate.failure
  /\ aggregate'.runs = aggregate.runs /\ aggregate'.tried = aggregate.tried
  /\ aggregate'.success = aggregate.success

LEMMA SameCycleKeeps ==
  ASSUME RecoveryInv, SameCycle, aggregate'.action \in {None, aggregate'.decision}, CycleInv'
  PROVE  RecoveryInv'
<1>1. TypeOK'
  BY DEF RecoveryInv, TypeOK, SameCycle, CycleInv, ClaimKnown, AdmissionKnown
<1>2. StoriesHold'
  BY DEF RecoveryInv, StoriesHold, SameCycle, Told
<1>3. CyclesClosed' /\ ReceiptsKnown' /\ ReceiptsEarned'
  BY DEF RecoveryInv, CyclesClosed, ReceiptsKnown, ReceiptsEarned, SameCycle, Told
<1>4. QED
  BY <1>1, <1>2, <1>3 DEF RecoveryInv

LEMMA AdmitKeeps ==
  ASSUME RecoveryInv, NEW c \in DOMAIN checkpoints, NEW next \in Generations,
         AdmitCheckpoint(c, next)
  PROVE  RecoveryInv'
<1> USE DEF RecoveryInv
<1>1. /\ SameCycle
      /\ aggregate'.admission = [checkpoint |-> c, next |-> next]
      /\ aggregate'.phase = "CHECKPOINTED"
      /\ aggregate'.generation = aggregate.generation /\ aggregate'.claim = aggregate.claim
      /\ aggregate'.decision = aggregate.decision /\ aggregate'.action = aggregate.action
      /\ aggregate'.evidence = aggregate.evidence
      /\ aggregate'.continuation = aggregate.continuation
      /\ aggregate'.convergence = aggregate.convergence
  <2>1. [checkpoint |-> c, next |-> next] \in Admission
    BY DEF TypeOK, Admission
  <2>2. PICK r \in Admission : r = [checkpoint |-> c, next |-> next]
    BY <2>1
  <2>3. /\ aggregate' = [aggregate EXCEPT !.admission = r, !.phase = "CHECKPOINTED"]
        /\ UNCHANGED <<terminals, scheduler, checkpoints>>
    BY <2>2 DEF AdmitCheckpoint
  <2>4. aggregate \in Aggregate
    BY DEF TypeOK
  <2>5. aggregate' \in Aggregate
    BY <2>3, <2>4 DEF Aggregate
  <2>6. QED
    BY <2>2, <2>3, <2>4, <2>5 DEF SameCycle, Aggregate
<1>2. /\ aggregate.failure # None /\ aggregate.admission = None
      /\ checkpoints[c].cycle = aggregate.cycle
  BY DEF AdmitCheckpoint
<1>3. ~Continued
  BY <1>2 DEF CycleInv, ContinuationLeased, Leased
<1>4. AdmissionKnown'
  BY <1>1, <1>2 DEF SameCycle, AdmissionKnown, CyclesClosed
<1>5. ClaimKnown'
  BY <1>1, <1>2 DEF SameCycle, CycleInv, ClaimKnown, Told
<1>6. ActionEvident'
  BY <1>1 DEF CycleInv, ActionEvident
<1>7. ContinuationLeased'
  BY <1>1, <1>3 DEF SameCycle, CycleInv, ContinuationLeased, Continued
<1>8. SuccessEarned' /\ ConvergenceEarned'
  BY <1>1, <1>2, <1>3 DEF SameCycle, CycleInv, SuccessEarned, ConvergenceEarned
<1>9. HoldsHeld'
  BY <1>1 DEF HoldsHeld, Holds
<1>10. aggregate'.action \in {None, aggregate'.decision}
  BY <1>1 DEF TypeOK
<1>11. QED
  BY <1>1, <1>4, <1>5, <1>6, <1>7, <1>8, <1>9, <1>10, SameCycleKeeps DEF CycleInv

\* A recorded claim is the next state of the last one, and both are in the story
\* of the admitted checkpoint when the last one is of the active cycle: a claim
\* that resumed the work was not given up.
LEMMA NotGivenUp ==
  ASSUME RecoveryInv, Leased, NEW s \in Lifecycles, s \in AllowedNext,
         Told(aggregate.admission.checkpoint, s)
  PROVE  s = "TERMINAL_CONSUMED"
<1>1. PICK c \in DOMAIN checkpoints : c = aggregate.admission.checkpoint
  BY DEF RecoveryInv, CycleInv, AdmissionKnown, Leased
<1>2. Told(c, aggregate.claim.state) /\ Told(c, s)
  BY <1>1 DEF RecoveryInv, CycleInv, ClaimKnown, Leased, TypeOK, Aggregate, ClaimLifecycle
<1>3. checkpoints[c].story \in Stories
  BY DEF RecoveryInv, StoriesHold
<1>4. PICK w : w = ToSet(checkpoints[c].story)
  OBVIOUS
<1>5. "INVALIDATED_OR_ABANDONED" \in w =>
        w = {"CLAIMED_CURRENT", "INVALIDATED_OR_ABANDONED"}
  BY <1>3, <1>4, StoriesAreTold DEF Stories
<1>6. aggregate.claim.state \in w /\ s \in w
  BY <1>2, <1>4 DEF Told
<1>7. s # "INVALIDATED_OR_ABANDONED"
  BY <1>5, <1>6 DEF Leased
<1>8. QED
  BY <1>7 DEF AllowedNext, Leased

LEMMA RecordKeeps ==
  ASSUME RecoveryInv, NEW s \in Lifecycles, RecordClaim(s)
  PROVE  RecoveryInv'
<1> USE DEF RecoveryInv
<1>1. /\ SameCycle
      /\ aggregate'.claim = [cycle |-> aggregate.cycle, state |-> s]
      /\ aggregate'.phase = IF s = "INVALIDATED_OR_ABANDONED" THEN "BLOCKED"
                            ELSE aggregate.phase
      /\ aggregate'.generation = aggregate.generation
      /\ aggregate'.admission = aggregate.admission
      /\ aggregate'.decision = aggregate.decision /\ aggregate'.action = aggregate.action
      /\ aggregate'.evidence = aggregate.evidence
      /\ aggregate'.continuation = aggregate.continuation
      /\ aggregate'.convergence = aggregate.convergence
  <2>1. aggregate.cycle \in Runs
    BY DEF RecordClaim, CyclesClosed, TypeOK, Aggregate, Runs
  <2>2. [cycle |-> aggregate.cycle, state |-> s] \in ClaimLifecycle
    BY <2>1 DEF ClaimLifecycle
  <2>3. PICK r \in ClaimLifecycle : r = [cycle |-> aggregate.cycle, state |-> s]
    BY <2>2
  <2>4. PICK p \in Holds \cup {aggregate.phase} :
          p = IF s = "INVALIDATED_OR_ABANDONED" THEN "BLOCKED" ELSE aggregate.phase
    BY DEF Holds
  <2>5. /\ aggregate' = [aggregate EXCEPT !.claim = r, !.phase = p]
        /\ UNCHANGED <<terminals, scheduler, checkpoints>>
    BY <2>3, <2>4 DEF RecordClaim
  <2>6. aggregate \in Aggregate
    BY DEF TypeOK
  <2>7. aggregate' \in Aggregate
    BY <2>5, <2>6 DEF Aggregate
  <2>8. QED
    BY <2>3, <2>4, <2>5, <2>6, <2>7 DEF SameCycle, Aggregate
<1>2. /\ aggregate.failure # None /\ aggregate.admission # None /\ s \in AllowedNext
      /\ Told(aggregate.admission.checkpoint, s)
  BY DEF RecordClaim, Told
<1>3. aggregate'.claim # None /\ aggregate'.claim.cycle = aggregate.cycle
      /\ aggregate'.claim.state = s
  <2>1. aggregate.cycle \in Runs
    BY DEF RecordClaim, CyclesClosed, TypeOK, Aggregate, Runs
  <2>2. [cycle |-> aggregate.cycle, state |-> s] \in ClaimLifecycle
    BY <2>1 DEF ClaimLifecycle
  <2>3. [cycle |-> aggregate.cycle, state |-> s] # None
    BY <2>2
  <2>4. QED
    BY <1>1, <2>3
<1>4. Continued' = Continued
  BY <1>1 DEF Continued, SameCycle
<1>5. Continued => Leased /\ s = "TERMINAL_CONSUMED"
  BY <1>2, NotGivenUp DEF CycleInv, ContinuationLeased
<1>6. AdmissionKnown'
  BY <1>1 DEF SameCycle, CycleInv, AdmissionKnown
<1>7. ClaimKnown'
  BY <1>1, <1>2, <1>3 DEF SameCycle, ClaimKnown, Told, TypeOK, Aggregate
<1>8. ActionEvident'
  BY <1>1 DEF CycleInv, ActionEvident
<1>9. ContinuationLeased'
  <2>1. Leased /\ s = "TERMINAL_CONSUMED" => Leased'
    BY <1>1, <1>3 DEF SameCycle, Leased
  <2>2. QED
    BY <1>1, <1>4, <1>5, <2>1 DEF SameCycle, CycleInv, ContinuationLeased
<1>10. SuccessEarned' /\ ConvergenceEarned'
  BY <1>1, <1>4 DEF SameCycle, CycleInv, SuccessEarned, ConvergenceEarned
<1>11. HoldsHeld'
  <2>1. CASE s = "INVALIDATED_OR_ABANDONED"
    BY <1>1, <1>2, <1>3, <1>4, <1>5, <2>1 DEF SameCycle, HoldsHeld, Holds
  <2>2. CASE s # "INVALIDATED_OR_ABANDONED"
    <3> SUFFICES ASSUME aggregate.phase \in Holds PROVE HoldsHeld'
      BY <1>1, <1>2, <2>2 DEF SameCycle, CycleInv, HoldsHeld
    <3>1. ~(aggregate.claim # None /\ aggregate.claim.state = "INVALIDATED_OR_ABANDONED")
      BY <1>2 DEF AllowedNext
    <3>2. aggregate.decision # None /\ Disposition(aggregate.decision) \in Holds /\ ~Continued
      BY <3>1 DEF CycleInv, HoldsHeld
    <3>3. aggregate'.phase # "COMPLETED"
      BY <1>1, <2>2 DEF Holds
    <3>4. QED
      BY <1>1, <1>2, <1>4, <3>2, <3>3 DEF SameCycle, HoldsHeld
  <2>3. QED
    BY <2>1, <2>2
<1>12. aggregate'.action \in {None, aggregate'.decision}
  BY <1>1 DEF TypeOK
<1>13. QED
  BY <1>1, <1>6, <1>7, <1>8, <1>9, <1>10, <1>11, <1>12, SameCycleKeeps DEF CycleInv

\* The roles the matrix speaks of, and the actions it has an entry for.
LEMMA RolesAreNamed ==
  {"resource", "context", "transaction", "lastKnownGood", "quarantine", "humanGate",
   "externalWait", "externalResume", "splitRoute"} \subseteq Roles
<1> DEFINE all == {Required[action] : action \in DOMAIN Required}
<1>1. /\ Required["RETRY_REDUCED_BUDGET"] \in all
      /\ Required["RESTORE_LAST_KNOWN_GOOD"] \in all
      /\ Required["QUARANTINE_ADAPTER_OR_ARTIFACT"] \in all
      /\ Required["REQUEST_HUMAN_DECISION"] \in all
      /\ Required["CHECKPOINT_AND_WAIT"] \in all
      /\ Required["SPLIT_WORK_NODE"] \in all
  BY DEF Required
<1>2. Roles = UNION all
  BY DEF Roles
<1> HIDE DEF all
<1>3. {"resource"} \cup {"transaction", "lastKnownGood"} \cup {"transaction", "quarantine"}
      \cup {"humanGate"} \cup {"externalWait", "externalResume"} \cup {"context", "splitRoute"}
        \subseteq UNION all
  BY <1>1 DEF Required
<1>4. QED
  BY <1>2, <1>3

\* A resolved policy is a decision.
LEMMA PolicyResolves ==
  ASSUME NEW failure \in Failure, NEW tried, NEW input \in PolicyInput
  PROVE  Resolve(failure, tried, input) \in Decisions
<1>1. failure.class \in DOMAIN BaseAction
  BY DEF Failure
<1>2. BaseAction[failure.class] \in Decisions
  BY <1>1 DEF BaseAction, Decisions, Required
<1>3. PolicyAction(failure) \in Decisions
  BY <1>2 DEF PolicyAction, Decisions, Required
<1>4. {"TERMINAL_BLOCK", "REQUEST_HUMAN_DECISION", "QUARANTINE_ADAPTER_OR_ARTIFACT",
       "RETRY_REDUCED_BUDGET", "CHECKPOINT_AND_WAIT", "CONDENSE_CONTEXT_AND_REACQUIRE",
       "SPLIT_WORK_NODE", "NO_RECOVERY_REQUIRED"} \subseteq Decisions
  BY DEF Decisions, Required
<1>5. /\ Exhausted(failure) \in Decisions
      /\ input.context # None => input.context \in Decisions
  BY <1>4 DEF PolicyInput, Exhausted
<1> HIDE DEF Decisions
<1>6. QED
  BY <1>3, <1>4, <1>5 DEF Resolve

\* A recorded claim of the active cycle is the admitted checkpoint's, and a cycle
\* that went on has a claim that resumed the work.
LEMMA ClaimOfCycle ==
  ASSUME RecoveryInv, Recorded("CLAIMED_CURRENT")
  PROVE  aggregate.failure # None /\ aggregate.admission # None /\ ~Continued
<1>1. aggregate.cycle \in Runs
  BY DEF RecoveryInv, CyclesClosed, Recorded, TypeOK, Aggregate, Runs
<1>2. [cycle |-> aggregate.cycle, state |-> "CLAIMED_CURRENT"] \in ClaimLifecycle
  BY <1>1 DEF ClaimLifecycle, Lifecycles
<1>3. /\ aggregate.claim # None /\ aggregate.claim.cycle = aggregate.cycle
      /\ aggregate.claim.state = "CLAIMED_CURRENT"
  BY <1>2 DEF Recorded
<1>4. aggregate.admission # None
  BY <1>1, <1>3 DEF RecoveryInv, CycleInv, ClaimKnown, Runs
<1>5. QED
  BY <1>3, <1>4 DEF RecoveryInv, CycleInv, ContinuationLeased, Leased, Recorded

\* A step that decides or acts keeps the invariant when what it records is sound.
LEMMA PolicyKeeps ==
  ASSUME RecoveryInv, Recorded("CLAIMED_CURRENT"), SameCycle,
         UNCHANGED <<aggregate.generation, aggregate.claim, aggregate.admission,
                     aggregate.continuation, aggregate.convergence>>,
         aggregate'.decision \in Decisions,
         aggregate'.action \in {None, aggregate'.decision},
         aggregate'.action # None => Required[aggregate'.action] \subseteq aggregate'.evidence,
         aggregate'.phase # "COMPLETED",
         aggregate'.phase \in Holds => aggregate'.phase = Disposition(aggregate'.decision)
  PROVE  RecoveryInv'
<1> USE DEF RecoveryInv, CycleInv, SameCycle
<1>1. aggregate.failure # None /\ aggregate.admission # None /\ ~Continued
  BY ClaimOfCycle
<1>2. Continued' = Continued
  BY DEF Continued
<1>3. AdmissionKnown' /\ ClaimKnown'
  BY DEF AdmissionKnown, ClaimKnown, Told
<1>4. ActionEvident'
  BY DEF ActionEvident
<1>5. ContinuationLeased' /\ SuccessEarned' /\ ConvergenceEarned'
  BY <1>1, <1>2 DEF ContinuationLeased, SuccessEarned, ConvergenceEarned
<1>6. HoldsHeld'
  <2>1. aggregate'.decision # None
    OBVIOUS
  <2>2. QED
    BY <1>1, <1>2, <2>1 DEF HoldsHeld
<1>7. QED
  BY <1>3, <1>4, <1>5, <1>6, SameCycleKeeps

LEMMA DecideKeeps ==
  ASSUME RecoveryInv, NEW input \in PolicyInput, Decide(input)
  PROVE  RecoveryInv'
<1>1. aggregate \in Aggregate /\ aggregate.failure \in Failure
  BY DEF RecoveryInv, TypeOK, Decide, Recorded, Aggregate
<1>2. PICK d \in Decisions : d = Resolve(aggregate.failure, aggregate.tried, input)
  BY <1>1, PolicyResolves
<1>3. PICK e \in SUBSET Roles :
        e = aggregate.evidence \cup (IF input.resource THEN {"resource"} ELSE {})
                               \cup (IF input.context # None THEN {"context"} ELSE {})
  BY ZenonT(40), <1>1, RolesAreNamed DEF Aggregate
<1>4. PICK p \in Holds \cup {"CHECKPOINTED"} :
        p = IF Disposition(d) \in Holds THEN Disposition(d) ELSE "CHECKPOINTED"
  OBVIOUS
<1>5. /\ aggregate' = [aggregate EXCEPT !.decision = d, !.evidence = e, !.phase = p]
      /\ UNCHANGED <<terminals, scheduler, checkpoints>>
  BY <1>2, <1>3, <1>4 DEF Decide, Decided
<1>6. aggregate' \in Aggregate
  BY <1>1, <1>5 DEF Aggregate
<1>7. /\ SameCycle
      /\ UNCHANGED <<aggregate.generation, aggregate.claim, aggregate.admission,
                     aggregate.continuation, aggregate.convergence>>
      /\ aggregate'.decision = d /\ aggregate'.phase = p
      /\ aggregate'.action = aggregate.action
  BY <1>1, <1>5, <1>6 DEF SameCycle, Aggregate
<1>8. aggregate'.action = None /\ Recorded("CLAIMED_CURRENT")
  BY <1>7 DEF Decide, RecoveryInv, TypeOK
<1>9. "CHECKPOINTED" \notin Holds /\ p # "COMPLETED"
  BY DEF Holds
<1>10. QED
  BY <1>4, <1>7, <1>8, <1>9, PolicyKeeps

LEMMA ActionKeeps ==
  ASSUME RecoveryInv, NEW given \in Givens, ApplyAction(given)
  PROVE  RecoveryInv'
<1>1. aggregate \in Aggregate
  BY DEF RecoveryInv, TypeOK
<1>2. PICK d \in DOMAIN Required : d = aggregate.decision
  BY DEF ApplyAction
<1>3. PICK e \in SUBSET Roles : e = aggregate.evidence \cup given
  BY <1>1, RolesAreNamed DEF Aggregate, Givens
<1>4. PICK p \in Holds \cup {"RECOVERING"} : p = Disposition(d)
  BY DEF Disposition, Holds
<1>5. /\ aggregate' = [aggregate EXCEPT !.action = d, !.evidence = e, !.phase = p]
      /\ UNCHANGED <<terminals, scheduler, checkpoints>>
  BY <1>2, <1>3, <1>4 DEF ApplyAction
<1>6. aggregate' \in Aggregate
  <2>1. d \in DOMAIN Required \cup {None} /\ p \in Holds \cup {"RECOVERING"}
    OBVIOUS
  <2>2. QED
    BY <1>1, <1>5, <2>1 DEF Aggregate
<1>7. /\ SameCycle
      /\ UNCHANGED <<aggregate.generation, aggregate.claim, aggregate.admission,
                     aggregate.continuation, aggregate.convergence>>
      /\ aggregate'.decision = d /\ aggregate'.phase = p
      /\ aggregate'.action = d /\ aggregate'.evidence = e
  BY <1>1, <1>2, <1>5, <1>6 DEF SameCycle, Aggregate
<1>8. Required[d] \subseteq e
  <2>1. \/ e = Required[d]
        \/ d = "ROLLBACK_TO_BEFORE_IMAGE" /\ e = {"transaction", "lastKnownGood"}
    BY <1>2, <1>3 DEF ApplyAction
  <2>2. QED
    BY <2>1 DEF Required
<1>9. Recorded("CLAIMED_CURRENT") /\ d \in Decisions /\ p # "COMPLETED"
  BY DEF ApplyAction, Decisions, Holds
<1>10. QED
  BY <1>4, <1>7, <1>8, <1>9, PolicyKeeps

LEMMA ContinueKeeps ==
  ASSUME RecoveryInv, Continue
  PROVE  RecoveryInv'
<1> USE DEF RecoveryInv, CycleInv
<1>1. aggregate \in Aggregate /\ aggregate.cycle \in Runs
  BY DEF TypeOK, Continue, Recorded, CyclesClosed, Aggregate, Runs
<1>2. PICK g \in Generations : g = aggregate.admission.next
  BY <1>1 DEF Continue, Aggregate, Admission
<1>3. PICK r \in Continuation : r = [cycle |-> aggregate.cycle, gen |-> g]
  BY <1>1 DEF Continuation
<1>4. /\ aggregate' = [aggregate EXCEPT !.generation = g, !.continuation = r,
                                        !.phase = "RECOVERING"]
      /\ UNCHANGED <<terminals, scheduler, checkpoints>>
  BY <1>2, <1>3 DEF Continue
<1>5. aggregate' \in Aggregate
  BY <1>1, <1>4 DEF Aggregate
<1>6. /\ SameCycle
      /\ UNCHANGED <<aggregate.claim, aggregate.admission, aggregate.decision,
                     aggregate.action, aggregate.evidence, aggregate.convergence>>
      /\ aggregate'.generation = g /\ aggregate'.continuation = r
      /\ aggregate'.phase = "RECOVERING"
  BY <1>1, <1>4, <1>5 DEF SameCycle, Aggregate
<1>7. /\ aggregate.action # None /\ aggregate.admission # None /\ aggregate.failure # None
      /\ checkpoints[aggregate.admission.checkpoint].leased = g
      /\ g > aggregate.generation
      /\ aggregate.claim = [cycle |-> aggregate.cycle, state |-> "RESUMED_CONSUMED"]
  BY <1>2 DEF Continue, Recorded
<1>8. /\ aggregate.claim # None /\ aggregate.claim.cycle = aggregate.cycle
      /\ aggregate.claim.state = "RESUMED_CONSUMED"
  <2>1. [cycle |-> aggregate.cycle, state |-> "RESUMED_CONSUMED"] \in ClaimLifecycle
    BY <1>1 DEF ClaimLifecycle, Lifecycles
  <2>2. QED
    BY <1>7, <2>1
<1>9. ~Continued
  BY <1>1, <1>2, <1>7 DEF ContinuationLeased, Leased, Aggregate, Generations
<1>10. aggregate.success = None /\ aggregate.convergence = None
  BY <1>7, <1>9 DEF SuccessEarned, ConvergenceEarned
<1>11. AdmissionKnown' /\ ClaimKnown' /\ ActionEvident'
  BY <1>6 DEF SameCycle, AdmissionKnown, ClaimKnown, ActionEvident, Told
<1>12. Leased'
  BY <1>2, <1>3, <1>6, <1>7, <1>8 DEF SameCycle, Leased
<1>13. ContinuationLeased'
  BY <1>1, <1>3, <1>6, <1>12 DEF SameCycle, ContinuationLeased, Runs
<1>14. SuccessEarned' /\ ConvergenceEarned'
  BY <1>6, <1>10 DEF SameCycle, SuccessEarned, ConvergenceEarned
<1>15. HoldsHeld'
  BY <1>6 DEF HoldsHeld, Holds
<1>16. aggregate'.action \in {None, aggregate'.decision}
  BY <1>6 DEF TypeOK
<1>17. QED
  BY <1>6, <1>11, <1>13, <1>14, <1>15, <1>16, SameCycleKeeps

LEMMA ConvergeKeeps ==
  ASSUME RecoveryInv, Converge
  PROVE  RecoveryInv'
<1> USE DEF RecoveryInv, CycleInv
<1>1. aggregate \in Aggregate /\ aggregate.cycle \in Runs /\ aggregate.success \in Success
  BY DEF TypeOK, Converge, Recorded, CyclesClosed, Aggregate, Runs
<1>3. PICK r \in Convergence :
        r = [cycle |-> aggregate.cycle, run |-> aggregate.success.run]
  BY <1>1 DEF Convergence, Success
<1>4. /\ aggregate' = [aggregate EXCEPT !.convergence = r, !.phase = "RECOVERING"]
      /\ UNCHANGED <<terminals, scheduler, checkpoints>>
  BY <1>3 DEF Converge
<1>5. aggregate' \in Aggregate
  BY <1>1, <1>4 DEF Aggregate
<1>6. /\ SameCycle
      /\ UNCHANGED <<aggregate.generation, aggregate.claim, aggregate.admission,
                     aggregate.decision, aggregate.action, aggregate.evidence,
                     aggregate.continuation>>
      /\ aggregate'.convergence = r /\ aggregate'.phase = "RECOVERING"
  BY <1>1, <1>4, <1>5 DEF SameCycle, Aggregate
<1>7. Continued /\ Continued' = Continued
  BY <1>6 DEF Converge, SameCycle, Continued
<1>8. AdmissionKnown' /\ ClaimKnown' /\ ActionEvident'
  BY <1>6 DEF SameCycle, AdmissionKnown, ClaimKnown, ActionEvident, Told
<1>9. Leased' = Leased
  BY <1>6 DEF SameCycle, Leased
<1>10. ContinuationLeased' /\ SuccessEarned'
  BY <1>6, <1>7, <1>9 DEF SameCycle, ContinuationLeased, SuccessEarned
<1>11. ConvergenceEarned'
  <2>1. aggregate.success # None /\ aggregate.success.run \in Int
    BY <1>1 DEF Converge, Success, Runs
  <2>2. QED
    BY <1>3, <1>6, <1>7, <2>1 DEF SameCycle, ConvergenceEarned
<1>12. HoldsHeld'
  BY <1>6 DEF HoldsHeld, Holds
<1>13. aggregate'.action \in {None, aggregate'.decision}
  BY <1>6 DEF TypeOK
<1>14. QED
  BY <1>6, <1>8, <1>10, <1>11, <1>12, <1>13, SameCycleKeeps

-----------------------------------------------------------------------------
(* Attempts and the end of a cycle.                                        *)

\* An attempt forgets the closed cycle, and nothing of an active one.
LEMMA StartForgets ==
  ASSUME RecoveryInv
  PROVE  \E s \in Aggregate :
    /\ s = Started
    /\ s.generation = aggregate.generation /\ s.runs = aggregate.runs
    /\ s.cycle = aggregate.cycle /\ s.tried = aggregate.tried
    /\ s.failure = aggregate.failure /\ s.continuation = aggregate.continuation
    /\ s.evidence = aggregate.evidence
    /\ s.claim \in {None, aggregate.claim} /\ s.admission \in {None, aggregate.admission}
    /\ s.convergence \in {None, aggregate.convergence}
    /\ \/ s.action = None /\ s.decision = None /\ s.claim = None
       \/ s.action = aggregate.action /\ s.decision = aggregate.decision
          /\ s.admission = aggregate.admission
    /\ aggregate.failure # None => s = aggregate
<1>1. aggregate \in Aggregate
  BY DEF RecoveryInv, TypeOK
<1>2. CASE aggregate.phase = "COMPLETED"
  <2>1. PICK s : s = [aggregate EXCEPT !.claim = None, !.admission = None, !.decision = None,
                        !.action = None, !.success = None, !.convergence = None]
    OBVIOUS
  <2>2. s = Started
    BY <1>2, <2>1 DEF Started
  <2>3. s \in Aggregate
    BY <1>1, <2>1 DEF Aggregate
  <2>4. aggregate.failure = None
    BY <1>2 DEF RecoveryInv, CycleInv, HoldsHeld
  <2>5. /\ s.generation = aggregate.generation /\ s.runs = aggregate.runs
        /\ s.cycle = aggregate.cycle /\ s.tried = aggregate.tried
        /\ s.failure = aggregate.failure /\ s.continuation = aggregate.continuation
        /\ s.evidence = aggregate.evidence
        /\ s.claim = None /\ s.admission = None /\ s.convergence = None
        /\ s.action = None /\ s.decision = None
    BY <1>1, <2>1 DEF Aggregate
  <2>6. QED
    BY <2>2, <2>3, <2>4, <2>5
<1>3. CASE aggregate.phase # "COMPLETED"
  BY <1>1, <1>3 DEF Started
<1>4. QED
  BY <1>2, <1>3

LEMMA SucceedKeeps ==
  ASSUME RecoveryInv, Succeed
  PROVE  RecoveryInv'
<1> USE DEF RecoveryInv, CycleInv
<1>1. PICK s \in Aggregate :
        /\ s = Started
        /\ s.generation = aggregate.generation /\ s.runs = aggregate.runs
        /\ s.cycle = aggregate.cycle /\ s.tried = aggregate.tried
        /\ s.failure = aggregate.failure /\ s.continuation = aggregate.continuation
        /\ s.evidence = aggregate.evidence
        /\ s.claim \in {None, aggregate.claim} /\ s.admission \in {None, aggregate.admission}
        /\ s.convergence \in {None, aggregate.convergence}
        /\ \/ s.action = None /\ s.decision = None /\ s.claim = None
           \/ s.action = aggregate.action /\ s.decision = aggregate.decision
              /\ s.admission = aggregate.admission
        /\ aggregate.failure # None => s = aggregate
  BY StartForgets
<1>2. PICK n \in Runs : n = s.runs + 1 /\ n = aggregate.runs + 1
  BY <1>1 DEF Succeed, Aggregate, Runs
<1>3. PICK k \in {0} \cup Runs :
        k = IF aggregate.failure = None THEN 0 ELSE aggregate.cycle
  BY <1>1 DEF Aggregate, Runs
<1>4. PICK t \in 0..MaxRuns : /\ t = IF aggregate.failure = None THEN s.tried ELSE s.tried + 1
                              /\ t <= n
  BY <1>1, <1>2 DEF TypeOK, Aggregate, Runs
<1>5. PICK r \in Success : r = [cycle |-> k, gen |-> aggregate.generation, run |-> n]
  BY <1>1 DEF Success, Aggregate
<1>6. /\ aggregate' = [s EXCEPT !.runs = n, !.tried = t, !.success = r, !.phase = "RECOVERING"]
      /\ UNCHANGED <<terminals, scheduler, checkpoints>>
  BY <1>1, <1>2, <1>3, <1>4, <1>5 DEF Succeed
<1>7. aggregate' \in Aggregate
  <2>1. n \in 0..MaxRuns
    BY DEF Runs
  <2>2. QED
    BY <1>6, <2>1 DEF Aggregate
<1>8. /\ aggregate'.runs = n /\ aggregate'.tried = t /\ aggregate'.success = r
      /\ aggregate'.phase = "RECOVERING"
      /\ aggregate'.generation = aggregate.generation /\ aggregate'.cycle = aggregate.cycle
      /\ aggregate'.failure = aggregate.failure
      /\ aggregate'.continuation = aggregate.continuation
      /\ aggregate'.evidence = aggregate.evidence
      /\ aggregate'.claim = s.claim /\ aggregate'.admission = s.admission
      /\ aggregate'.decision = s.decision /\ aggregate'.action = s.action
      /\ aggregate'.convergence = s.convergence
  BY <1>1, <1>6 DEF Aggregate
<1>9. r.cycle = k /\ r.gen = aggregate.generation /\ r.run = n
  BY <1>5
<1>10. aggregate.failure # None =>
         /\ Continued /\ aggregate.generation > aggregate.failure.gen
         /\ s = aggregate
  BY <1>1 DEF Succeed, StartReady
<1>11. Continued' = Continued
  BY <1>8 DEF Continued
<1>12. TypeOK'
  <2>1. aggregate'.cycle <= n
    BY <1>2, <1>8 DEF TypeOK, Aggregate
  <2>2. aggregate'.action \in {None, aggregate'.decision}
    BY <1>1, <1>8 DEF TypeOK
  <2>3. /\ aggregate'.claim # None => aggregate'.claim.cycle <= aggregate'.cycle
        /\ aggregate'.admission # None => aggregate'.admission.checkpoint \in DOMAIN checkpoints
    BY <1>1, <1>8 DEF TypeOK
  <2>4. QED
    BY <1>4, <1>6, <1>7, <1>8, <2>1, <2>2, <2>3 DEF TypeOK
<1>13. StoriesHold' /\ ReceiptsKnown' /\ ReceiptsEarned'
  BY <1>6 DEF StoriesHold, ReceiptsKnown, ReceiptsEarned, Told
<1>14. CyclesClosed'
  BY <1>6, <1>8 DEF CyclesClosed
<1>15. AdmissionKnown'
  BY <1>1, <1>6, <1>8 DEF AdmissionKnown
<1>16. ClaimKnown'
  BY <1>1, <1>6, <1>8 DEF ClaimKnown, Told
<1>17. ActionEvident'
  BY <1>1, <1>8 DEF ActionEvident
<1>18. ContinuationLeased'
  BY <1>6, <1>8, <1>10, <1>11 DEF ContinuationLeased, Leased
<1>19. SuccessEarned'
  BY <1>3, <1>8, <1>9, <1>10, <1>11 DEF SuccessEarned, Runs
<1>20. ConvergenceEarned'
  <2>1. r # None
    OBVIOUS
  <2>2. ASSUME aggregate'.convergence # None
        PROVE  /\ aggregate'.convergence.run <= r.run
               /\ aggregate'.convergence.cycle = aggregate'.cycle
    <3>1. /\ aggregate'.convergence = aggregate.convergence
          /\ aggregate.convergence \in Convergence
      BY <1>1, <1>8, <2>2 DEF TypeOK, Aggregate
    <3>2. aggregate.success \in Success /\ aggregate.runs \in Int
      BY <2>2, <3>1 DEF ConvergenceEarned, TypeOK, Aggregate
    <3>3. /\ aggregate.convergence.run <= aggregate.success.run
          /\ aggregate.success.run <= aggregate.runs
          /\ aggregate.convergence.cycle = aggregate.cycle
      BY <2>2, <3>1, <3>2 DEF ConvergenceEarned, SuccessEarned
    <3>4. QED
      BY <1>2, <1>8, <1>9, <3>1, <3>2, <3>3 DEF Convergence, Success, Runs
  <2>3. QED
    BY <1>8, <1>10, <1>11, <2>1, <2>2 DEF ConvergenceEarned
<1>21. HoldsHeld'
  BY <1>8 DEF HoldsHeld, Holds
<1>22. QED
  BY <1>12, <1>13, <1>14, <1>15, <1>16, <1>17, <1>18, <1>19, <1>20, <1>21

LEMMA FailKeeps ==
  ASSUME RecoveryInv, NEW class \in Classes, NEW effect \in Effects, Fail(class, effect)
  PROVE  RecoveryInv'
<1> USE DEF RecoveryInv, CycleInv
<1>1. PICK s \in Aggregate :
        /\ s = Started
        /\ s.generation = aggregate.generation /\ s.runs = aggregate.runs
        /\ s.cycle = aggregate.cycle
        /\ s.continuation = aggregate.continuation
        /\ s.claim \in {None, aggregate.claim}
  BY StartForgets
<1>2. PICK n \in Runs : n = s.runs + 1 /\ n = aggregate.runs + 1
  BY <1>1 DEF Fail, Aggregate, Runs
<1>3. PICK k \in Runs : k = s.cycle + 1 /\ k = aggregate.cycle + 1 /\ k <= n
  BY <1>1, <1>2 DEF TypeOK, Aggregate, Runs
<1>4. PICK r \in Failure :
        r = [class |-> class, effect |-> effect, gen |-> aggregate.generation]
  BY <1>1 DEF Failure, Aggregate
<1>5. /\ aggregate' = [s EXCEPT !.runs = n, !.tried = 1, !.cycle = k, !.failure = r,
                         !.admission = None, !.decision = None, !.action = None,
                         !.evidence = {}, !.success = None, !.convergence = None,
                         !.phase = "FAILURE_ACTIVE"]
      /\ UNCHANGED <<terminals, scheduler, checkpoints>>
  BY <1>1, <1>2, <1>3, <1>4 DEF Fail
<1>6. aggregate' \in Aggregate
  <2>1. n \in 0..MaxRuns /\ k \in 0..MaxRuns /\ 1 \in 0..MaxRuns
    BY DEF Runs
  <2>2. QED
    BY <1>5, <2>1 DEF Aggregate
<1>7. /\ aggregate'.runs = n /\ aggregate'.tried = 1 /\ aggregate'.cycle = k
      /\ aggregate'.failure = r /\ aggregate'.phase = "FAILURE_ACTIVE"
      /\ aggregate'.continuation = aggregate.continuation
      /\ aggregate'.claim = s.claim /\ aggregate'.admission = None
      /\ aggregate'.decision = None /\ aggregate'.action = None
      /\ aggregate'.success = None /\ aggregate'.convergence = None
  BY <1>1, <1>5 DEF Aggregate
<1>8. aggregate.cycle < k /\ aggregate.cycle \in Nat
  BY <1>3 DEF TypeOK, Aggregate
<1>9. aggregate'.claim # None =>
        aggregate'.claim.cycle < k /\ aggregate'.claim.cycle <= k
  <2> SUFFICES ASSUME aggregate'.claim # None
               PROVE  aggregate'.claim.cycle < k
    BY <1>6, <1>7 DEF Aggregate, ClaimLifecycle, Runs
  <2>1. aggregate'.claim = aggregate.claim /\ aggregate.claim \in ClaimLifecycle
    BY <1>1, <1>7 DEF TypeOK, Aggregate
  <2>2. QED
    BY <1>8, <2>1 DEF TypeOK, ClaimLifecycle, Runs
<1>10. TypeOK'
  <2>1. \A c \in DOMAIN checkpoints : checkpoints[c].cycle <= k
    <3> SUFFICES ASSUME NEW c \in DOMAIN checkpoints PROVE checkpoints[c].cycle <= k
      OBVIOUS
    <3>1. checkpoints[c].cycle \in Nat /\ checkpoints[c].cycle <= aggregate.cycle
      BY CheckpointsSound DEF Sound, SchedulerCheckpoint
    <3>2. QED
      BY <1>8, <3>1 DEF Runs
  <2>2. 1 <= n
    BY DEF Runs
  <2>3. QED
    BY <1>3, <1>5, <1>6, <1>7, <1>9, <2>1, <2>2 DEF TypeOK
<1>11. StoriesHold' /\ ReceiptsKnown' /\ ReceiptsEarned'
  BY <1>5 DEF StoriesHold, ReceiptsKnown, ReceiptsEarned, Told
<1>12. CyclesClosed'
  <2>1. \A t \in terminals : t.cycle <= k /\ t.cycle # k
    <3> SUFFICES ASSUME NEW t \in terminals PROVE t.cycle < k
      BY DEF TypeOK, TerminalReceipt, Runs
    <3>1. t.cycle \in Nat /\ t.cycle <= aggregate.cycle
      BY DEF TypeOK, TerminalReceipt, Runs, CyclesClosed
    <3>2. QED
      BY <1>8, <3>1 DEF Runs
  <2>2. r # None /\ k # 0
    BY DEF Runs
  <2>3. QED
    BY <1>5, <1>7, <2>1, <2>2 DEF CyclesClosed
<1>13. AdmissionKnown' /\ ActionEvident' /\ SuccessEarned' /\ ConvergenceEarned'
  BY <1>7 DEF AdmissionKnown, ActionEvident, SuccessEarned, ConvergenceEarned
<1>14. ClaimKnown'
  BY <1>7, <1>9 DEF ClaimKnown
<1>15. ContinuationLeased'
  <2>1. aggregate'.continuation # None => aggregate'.continuation.cycle < k
    BY <1>7, <1>8 DEF ContinuationLeased, TypeOK, Aggregate, Continuation, Runs
  <2>2. aggregate'.continuation # None => aggregate'.continuation.cycle <= k
    BY <1>6, <2>1 DEF Aggregate, Continuation, Runs
  <2>3. ~Continued'
    BY <1>6, <1>7, <2>1 DEF Continued, Aggregate, Continuation, Runs
  <2>4. QED
    BY <1>7, <2>2, <2>3 DEF ContinuationLeased
<1>16. HoldsHeld'
  BY <1>7 DEF HoldsHeld, Holds
<1>17. QED
  BY <1>10, <1>11, <1>12, <1>13, <1>14, <1>15, <1>16

\* What the closing of a cycle has earned, and the receipt that says so.
LEMMA TerminalEarned ==
  ASSUME RecoveryInv, Close
  PROVE  /\ Terminal \in TerminalReceipt
         /\ Terminal.cycle = aggregate.cycle
         /\ Terminal.checkpoint \in DOMAIN checkpoints
         /\ Told(Terminal.checkpoint, "TERMINAL_CONSUMED")
         /\ checkpoints[Terminal.checkpoint].cycle = Terminal.cycle
         /\ checkpoints[Terminal.checkpoint].leased = Terminal.success.gen
         /\ Required[Terminal.action] \subseteq Terminal.evidence
         /\ Terminal.success.cycle = Terminal.cycle
         /\ Terminal.convergence.cycle = Terminal.cycle
         /\ Terminal.convergence.run <= Terminal.success.run
         /\ Terminal.success.gen > Terminal.failedAt
<1> USE DEF RecoveryInv, CycleInv
<1>1. /\ aggregate.failure # None /\ aggregate.convergence # None
      /\ aggregate.action # None /\ aggregate.success # None
      /\ aggregate.claim = [cycle |-> aggregate.cycle, state |-> "TERMINAL_CONSUMED"]
      /\ aggregate.generation = checkpoints[aggregate.admission.checkpoint].leased
  BY DEF Close, Recorded, Converged, ConvergenceEarned, ContinuationLeased, Leased
<1>2. aggregate \in Aggregate /\ aggregate.cycle \in Runs
  BY <1>1 DEF TypeOK, CyclesClosed, Aggregate, Runs
<1>3. /\ aggregate.claim # None /\ aggregate.claim.cycle = aggregate.cycle
      /\ aggregate.claim.state = "TERMINAL_CONSUMED"
  <2>1. [cycle |-> aggregate.cycle, state |-> "TERMINAL_CONSUMED"] \in ClaimLifecycle
    BY <1>2 DEF ClaimLifecycle, Lifecycles
  <2>2. QED
    BY <1>1, <2>1
<1>4. /\ aggregate.admission # None
      /\ Told(aggregate.admission.checkpoint, "TERMINAL_CONSUMED")
  BY <1>2, <1>3 DEF ClaimKnown, Runs
<1>5. /\ aggregate.admission.checkpoint \in DOMAIN checkpoints
      /\ checkpoints[aggregate.admission.checkpoint].cycle = aggregate.cycle
  BY <1>4 DEF AdmissionKnown
<1>6. /\ aggregate.failure \in Failure /\ aggregate.action \in DOMAIN Required
      /\ aggregate.evidence \in SUBSET Roles /\ aggregate.success \in Success
      /\ aggregate.convergence \in Convergence /\ aggregate.admission \in Admission
  BY <1>1, <1>2, <1>4 DEF Aggregate
<1>7. /\ aggregate.success.cycle = aggregate.cycle
      /\ aggregate.success.gen = aggregate.generation
      /\ aggregate.success.gen > aggregate.failure.gen
      /\ aggregate.convergence.run <= aggregate.success.run
      /\ aggregate.convergence.cycle = aggregate.cycle
      /\ Required[aggregate.action] \subseteq aggregate.evidence
  BY <1>1 DEF SuccessEarned, ConvergenceEarned, ActionEvident
<1>8. PICK t : t = Terminal
  OBVIOUS
<1>9. /\ t.cycle = aggregate.cycle /\ t.failedAt = aggregate.failure.gen
      /\ t.action = aggregate.action /\ t.evidence = aggregate.evidence
      /\ t.success = aggregate.success /\ t.convergence = aggregate.convergence
      /\ t.checkpoint = aggregate.admission.checkpoint
  BY <1>8 DEF Terminal
<1>10. t \in TerminalReceipt
  <2>1. /\ aggregate.failure.gen \in Generations
        /\ aggregate.admission.checkpoint \in 1..MaxCheckpoints
    BY <1>6 DEF Failure, Admission
  <2>2. QED
    BY <1>2, <1>6, <1>8, <2>1 DEF Terminal, TerminalReceipt
<1>11. QED
  BY <1>1, <1>4, <1>5, <1>7, <1>8, <1>9, <1>10

LEMMA CloseKeeps ==
  ASSUME RecoveryInv, Close
  PROVE  RecoveryInv'
<1> USE DEF RecoveryInv, CycleInv
<1>1. PICK r : r = Terminal
  OBVIOUS
<1>2. /\ r \in TerminalReceipt /\ r.cycle = aggregate.cycle
      /\ r.checkpoint \in DOMAIN checkpoints
      /\ Told(r.checkpoint, "TERMINAL_CONSUMED")
      /\ checkpoints[r.checkpoint].cycle = r.cycle
      /\ checkpoints[r.checkpoint].leased = r.success.gen
      /\ Required[r.action] \subseteq r.evidence
      /\ r.success.cycle = r.cycle /\ r.convergence.cycle = r.cycle
      /\ r.convergence.run <= r.success.run
      /\ r.success.gen > r.failedAt
  BY <1>1, TerminalEarned
<1>3. /\ terminals' = terminals \cup {r}
      /\ aggregate' = [aggregate EXCEPT !.failure = None, !.phase = "COMPLETED"]
      /\ UNCHANGED <<scheduler, checkpoints>>
  BY <1>1 DEF Close, Closed
<1>4. aggregate \in Aggregate /\ aggregate.failure # None /\ aggregate.success # None
  BY DEF TypeOK, Close, Recorded, Converged
<1>5. aggregate' \in Aggregate
  BY <1>3, <1>4 DEF Aggregate
<1>6. /\ aggregate'.failure = None /\ aggregate'.phase = "COMPLETED"
      /\ UNCHANGED <<aggregate.generation, aggregate.runs, aggregate.cycle, aggregate.tried,
                     aggregate.claim, aggregate.admission, aggregate.decision,
                     aggregate.evidence, aggregate.action, aggregate.continuation,
                     aggregate.success, aggregate.convergence>>
  BY <1>3, <1>4 DEF Aggregate
<1>7. TypeOK'
  BY <1>2, <1>3, <1>5, <1>6 DEF TypeOK
<1>8. StoriesHold'
  BY <1>3 DEF StoriesHold, Told
<1>9. CyclesClosed'
  <2>1. aggregate.cycle <= aggregate.cycle
    BY <1>4 DEF Aggregate
  <2>2. QED
    BY <1>2, <1>3, <1>6, <2>1 DEF CyclesClosed
<1>10. ReceiptsKnown'
  BY <1>2, <1>3 DEF ReceiptsKnown, Told
<1>11. ReceiptsEarned'
  <2>1. \A t \in terminals : t.cycle # r.cycle
    BY <1>2, <1>4 DEF CyclesClosed
  <2>2. QED
    BY <1>2, <1>3, <2>1 DEF ReceiptsEarned
<1>12. AdmissionKnown' /\ ClaimKnown' /\ ActionEvident'
  BY <1>3, <1>6 DEF AdmissionKnown, ClaimKnown, ActionEvident, Told
<1>13. ContinuationLeased' /\ SuccessEarned' /\ ConvergenceEarned'
  BY <1>4, <1>6 DEF ContinuationLeased, SuccessEarned, ConvergenceEarned
<1>14. HoldsHeld'
  BY <1>6 DEF HoldsHeld, Holds
<1>15. QED
  BY <1>7, <1>8, <1>9, <1>10, <1>11, <1>12, <1>13, <1>14

-----------------------------------------------------------------------------
(* The invariant and what follows from it.                                 *)

LEMMA InitKeeps == Init => RecoveryInv
<1> SUFFICES ASSUME Init PROVE RecoveryInv
  OBVIOUS
<1>1. /\ aggregate.phase = "READY" /\ aggregate.generation = 1 /\ aggregate.runs = 0
      /\ aggregate.cycle = 0 /\ aggregate.tried = 0 /\ aggregate.failure = None
      /\ aggregate.claim = None /\ aggregate.admission = None
      /\ aggregate.decision = None /\ aggregate.action = None
      /\ aggregate.continuation = None /\ aggregate.success = None
      /\ aggregate.convergence = None
      /\ terminals = {} /\ checkpoints = <<>>
  BY DEF Init
<1>2. aggregate \in Aggregate
  <2>1. 1 \in Generations /\ 0 \in 0..MaxRuns /\ {} \in SUBSET Roles
    BY DEF Generations
  <2>2. QED
    BY <2>1 DEF Init, Aggregate
<1>3. scheduler \in SchedulerInstance
  BY DEF Init, SchedulerInstance, Generations
<1>4. checkpoints \in Seq(SchedulerCheckpoint) /\ Len(checkpoints) = 0
      /\ DOMAIN checkpoints = {}
  BY <1>1
<1>5. TypeOK
  BY <1>1, <1>2, <1>3, <1>4 DEF TypeOK
<1>6. StoriesHold /\ CyclesClosed /\ ReceiptsKnown /\ ReceiptsEarned
  BY <1>1, <1>4 DEF StoriesHold, CyclesClosed, ReceiptsKnown, ReceiptsEarned
<1>7. CycleInv
  BY <1>1 DEF CycleInv, AdmissionKnown, ClaimKnown, ActionEvident, ContinuationLeased,
              SuccessEarned, ConvergenceEarned, HoldsHeld, Holds
<1>8. QED
  BY <1>5, <1>6, <1>7 DEF RecoveryInv

LEMMA NextKeeps == RecoveryInv /\ [Next]_vars => RecoveryInv'
<1> SUFFICES ASSUME RecoveryInv, [Next]_vars PROVE RecoveryInv'
  OBVIOUS
<1>1. CASE Succeed
  BY <1>1, SucceedKeeps
<1>2. ASSUME NEW class \in Classes, NEW effect \in Effects, Fail(class, effect)
      PROVE  RecoveryInv'
  BY <1>2, FailKeeps
<1>3. ASSUME NEW c \in DOMAIN checkpoints, NEW next \in Generations, AdmitCheckpoint(c, next)
      PROVE  RecoveryInv'
  BY <1>3, AdmitKeeps
<1>4. ASSUME NEW s \in Lifecycles, RecordClaim(s) PROVE RecoveryInv'
  BY <1>4, RecordKeeps
<1>5. ASSUME NEW input \in PolicyInput, Decide(input) PROVE RecoveryInv'
  BY <1>5, DecideKeeps
<1>6. ASSUME NEW given \in Givens, ApplyAction(given) PROVE RecoveryInv'
  BY <1>6, ActionKeeps
<1>7. CASE Continue
  BY <1>7, ContinueKeeps
<1>8. CASE Converge
  BY <1>8, ConvergeKeeps
<1>9. CASE Close
  BY <1>9, CloseKeeps
<1>10. CASE SchedulerStep
  BY <1>10, SchedulerAdvances, AdvanceKeeps
<1>11. CASE UNCHANGED vars
  BY <1>11 DEF vars, RecoveryInv, TypeOK, StoriesHold, CycleInv, CyclesClosed, ReceiptsKnown,
       ReceiptsEarned, AdmissionKnown, ClaimKnown, ActionEvident, ContinuationLeased, Leased,
       SuccessEarned, ConvergenceEarned, HoldsHeld, Continued, Told
<1>12. QED
  BY <1>1, <1>2, <1>3, <1>4, <1>5, <1>6, <1>7, <1>8, <1>9, <1>10, <1>11
     DEF Next, Attempt, RecoveryStep

\* The inductive invariant: what the aggregate believes of the checkpoints is so.
THEOREM RecoveryInvariant == Spec => []RecoveryInv
BY InitKeeps, NextKeeps, PTL DEF Spec

\* The aggregate, its receipts, the scheduler and the checkpoints keep their
\* types, and no receipt names a checkpoint or a cycle that does not exist.
THEOREM RecoveryTyped == Spec => []TypeOK
<1>1. RecoveryInv => TypeOK
  BY DEF RecoveryInv
<1>2. QED
  BY <1>1, RecoveryInvariant, PTL

\* closeRecoveredExecution: a cycle is closed once, by what happened in it and
\* on both sides, and its claim stays consumed.
THEOREM ClosuresAreEarned == Spec => []ClosureIsEarned
<1>1. RecoveryInv => ClosureIsEarned
  <2> SUFFICES ASSUME RecoveryInv, NEW t \in terminals
               PROVE  /\ t.success.gen = checkpoints[t.checkpoint].leased
                      /\ checkpoints[t.checkpoint].cycle = t.cycle
                      /\ ClaimIs(t.checkpoint, "TERMINAL_CONSUMED")
    BY DEF RecoveryInv, ReceiptsEarned, ClosureIsEarned
  <2>1. PICK c \in DOMAIN checkpoints :
          /\ c = t.checkpoint /\ Told(c, "TERMINAL_CONSUMED")
          /\ checkpoints[c].cycle = t.cycle /\ checkpoints[c].leased = t.success.gen
    BY DEF RecoveryInv, ReceiptsKnown
  <2>2. ClaimIs(c, "TERMINAL_CONSUMED")
    BY <2>1, ClaimStands DEF RecoveryInv
  <2>3. QED
    BY <2>1, <2>2
<1>2. QED
  BY <1>1, RecoveryInvariant, PTL

-----------------------------------------------------------------------------
(* What each step does to the runs, the cycle and the phase.               *)

\* Only an attempt runs the work, and what it runs on.
LEMMA OnlyAttemptsRun ==
  ASSUME RecoveryInv, [Next]_vars, aggregate'.runs # aggregate.runs
  PROVE  StartReady
<1>1. aggregate \in Aggregate
  BY DEF RecoveryInv, TypeOK
<1>2. ASSUME NEW c, NEW next, AdmitCheckpoint(c, next) PROVE FALSE
  BY <1>1, <1>2 DEF AdmitCheckpoint, Aggregate
<1>3. ASSUME NEW s, RecordClaim(s) PROVE FALSE
  BY <1>1, <1>3 DEF RecordClaim, Aggregate
<1>4. ASSUME NEW input, Decide(input) PROVE FALSE
  <2>1. PICK d, e, p : aggregate' = [aggregate EXCEPT !.decision = d, !.evidence = e, !.phase = p]
    BY <1>4 DEF Decide, Decided
  <2>2. QED
    BY <1>1, <2>1 DEF Aggregate
<1>5. ASSUME NEW given, ApplyAction(given) PROVE FALSE
  <2>1. PICK d, e, p : aggregate' = [aggregate EXCEPT !.action = d, !.evidence = e, !.phase = p]
    BY <1>5 DEF ApplyAction
  <2>2. QED
    BY <1>1, <2>1 DEF Aggregate
<1>6. CASE Continue
  BY <1>1, <1>6 DEF Continue, Aggregate
<1>7. CASE Converge
  BY <1>1, <1>7 DEF Converge, Aggregate
<1>8. CASE Close
  BY <1>1, <1>8 DEF Close, Closed, Aggregate
<1>9. CASE SchedulerStep
  BY <1>9, SchedulerAdvances
<1>10. CASE UNCHANGED vars
  BY <1>10 DEF vars
<1>11. CASE Attempt
  BY <1>11 DEF Attempt, Succeed, Fail
<1>12. QED
  BY <1>2, <1>3, <1>4, <1>5, <1>6, <1>7, <1>8, <1>9, <1>10, <1>11 DEF Next, RecoveryStep

\* An attempt of an active cycle runs on the generation leased for its claim.
LEMMA RetryLeased ==
  ASSUME RecoveryInv, StartReady, aggregate.failure # None
  PROVE  \E c \in DOMAIN checkpoints :
           /\ checkpoints[c].cycle = aggregate.cycle
           /\ "RESUMED_CONSUMED" \in ToSet(checkpoints[c].story)
           /\ checkpoints[c].leased = aggregate.generation
<1>1. Leased
  BY DEF StartReady, RecoveryInv, CycleInv, ContinuationLeased
<1>2. /\ aggregate.claim = [cycle |-> aggregate.cycle, state |-> "RESUMED_CONSUMED"]
      /\ aggregate.cycle \in Int
  BY DEF StartReady, Recorded, RecoveryInv, TypeOK, Aggregate
<1>3. /\ aggregate.claim # None /\ aggregate.claim.cycle = aggregate.cycle
      /\ aggregate.claim.state = "RESUMED_CONSUMED"
  BY <1>1, <1>2 DEF Leased
<1>4. Told(aggregate.admission.checkpoint, "RESUMED_CONSUMED")
  BY <1>2, <1>3 DEF RecoveryInv, CycleInv, ClaimKnown
<1>5. QED
  BY <1>1, <1>4 DEF RecoveryInv, CycleInv, AdmissionKnown, Leased, Told

\* The executor boundary: a retry runs on a generation that a scheduler leased by
\* resuming the claim of the very cycle.
THEOREM RetriesRunLeased == Spec => RetriesAreLeased
<1>1. RecoveryInv /\ [Next]_vars =>
        [(aggregate.failure # None /\ aggregate'.runs > aggregate.runs) =>
           \E c \in DOMAIN checkpoints :
             /\ checkpoints[c].cycle = aggregate.cycle
             /\ "RESUMED_CONSUMED" \in ToSet(checkpoints[c].story)
             /\ checkpoints[c].leased = aggregate.generation]_vars
  <2> SUFFICES ASSUME RecoveryInv, [Next]_vars, aggregate.failure # None,
                      aggregate'.runs > aggregate.runs
               PROVE  \E c \in DOMAIN checkpoints :
                        /\ checkpoints[c].cycle = aggregate.cycle
                        /\ "RESUMED_CONSUMED" \in ToSet(checkpoints[c].story)
                        /\ checkpoints[c].leased = aggregate.generation
    OBVIOUS
  <2>1. aggregate.runs \in Int
    BY DEF RecoveryInv, TypeOK, Aggregate
  <2>2. aggregate'.runs # aggregate.runs
    BY <2>1
  <2>3. QED
    BY <2>2, OnlyAttemptsRun, RetryLeased
<1>2. QED
  BY <1>1, RecoveryInvariant, PTL DEF Spec, RetriesAreLeased

-----------------------------------------------------------------------------
(* Runtime recovery keeps the promise of FailureCase.                      *)

FateNames == {"closed", "failed", "held", "open"}
Fates == [k \in 1..aggregate.cycle |-> Fate(k)]

\* The fates of a state, for the cycles there have been.
LEMMA FatesAre ==
  ASSUME NEW n \in Nat, n = aggregate.cycle
  PROVE  Fates \in [1..n -> FateNames] /\ Fates \in Seq(FateNames) /\ Len(Fates) = n
<1>1. \A k : Fate(k) \in FateNames
  BY DEF Fate, FateNames
<1>2. PICK f : f = Fates
  OBVIOUS
<1>3. f \in [1..n -> FateNames]
  BY <1>1, <1>2 DEF Fates
<1>4. f \in Seq(FateNames) /\ Len(f) = n
  BY <1>3
<1>5. QED
  BY <1>2, <1>3, <1>4

\* A fate is added to n fates.
LEMMA FateAdded ==
  ASSUME NEW n \in Nat, NEW f \in [1..n -> FateNames], NEW g \in [1..n + 1 -> FateNames],
         \A k \in 1..n : g[k] = f[k]
  PROVE  g = Append(f, g[n + 1])
<1>1. f \in Seq(FateNames) /\ Len(f) = n
  OBVIOUS
<1>2. g \in Seq(FateNames) /\ Len(g) = n + 1
  OBVIOUS
<1>3. g[n + 1] \in FateNames
  OBVIOUS
<1>4. /\ Append(f, g[n + 1]) \in Seq(FateNames) /\ Len(Append(f, g[n + 1])) = n + 1
      /\ \A k \in 1..n + 1 : Append(f, g[n + 1])[k] = g[k]
  BY <1>1, <1>3
<1>5. QED
  BY <1>2, <1>4, SeqEqual

\* A step that closes nothing and keeps the cycle and its being held.
LEMMA FatesStay ==
  ASSUME RecoveryInv, UNCHANGED terminals, aggregate'.cycle = aggregate.cycle,
         aggregate'.phase \in Holds <=> aggregate.phase \in Holds
  PROVE  Fates' = Fates
BY DEF Fates, Fate

\* The open cycle of an active failure that is not held, and what is settled.
LEMMA FatesNow ==
  ASSUME RecoveryInv, aggregate.phase \notin Holds,
         NEW n \in Nat, n = aggregate.cycle
  PROVE  /\ aggregate.failure # None => n # 0 /\ Fate(n) = "open"
         /\ aggregate.failure = None => n = 0 \/ Fate(n) = "closed"
BY DEF RecoveryInv, CyclesClosed, Fate

\* A step that ends the open cycle, by a closure or by a hold.
LEMMA FateEnds ==
  ASSUME RecoveryInv, aggregate.phase \notin Holds, aggregate.failure # None,
         aggregate'.cycle = aggregate.cycle,
         \/ UNCHANGED terminals /\ aggregate'.phase \in Holds
         \/ \E r : terminals' = terminals \cup {r} /\ r.cycle = aggregate.cycle
  PROVE  Case!Ended
<1>1. PICK n \in Nat : n = aggregate.cycle
  BY DEF RecoveryInv, TypeOK, Aggregate
<1>2. n # 0 /\ Fate(n) = "open"
  BY <1>1, FatesNow
<1>3. PICK f : f = Fates
  OBVIOUS
<1>4. f \in [1..n -> FateNames] /\ Len(f) = n
  BY <1>1, <1>3, FatesAre
<1>5. f[n] = "open"
  BY <1>1, <1>2, <1>3 DEF Fates
<1>6. PICK g : g = Fates'
  OBVIOUS
<1>7. g \in [1..n -> FateNames]
  <2>1. (\A k : Fate(k) \in FateNames)'
    BY DEF Fate, FateNames
  <2>2. QED
    BY <1>1, <1>6, <2>1 DEF Fates
<1>8. \A k \in 1..n : k # n => g[k] = f[k]
  BY <1>1, <1>3, <1>6 DEF Fates, Fate
<1>9. g[n] \in {"closed", "held"}
  <2>1. ~(\E t \in terminals : t.cycle = n)
    BY <1>1 DEF RecoveryInv, CyclesClosed
  <2>2. n \in 1..n /\ ~(n < n)
    BY <1>2
  <2>3. g[n] = Fate(n)'
    BY <1>1, <1>6, <2>2 DEF Fates
  <2>4. QED
    BY <1>1, <2>1, <2>2, <2>3 DEF Fate
<1>10. g = [f EXCEPT ![n] = g[n]]
  BY <1>4, <1>7, <1>8
<1>11. n > 0
  BY <1>2
<1>12. QED
  BY <1>3, <1>4, <1>5, <1>6, <1>9, <1>10, <1>11 DEF Fates, Case!Ended, Case!Open, Case!Newest

\* A step that opens a cycle.
LEMMA FateFails ==
  ASSUME RecoveryInv, aggregate.phase \notin Holds, UNCHANGED terminals,
         aggregate'.cycle = aggregate.cycle + 1, aggregate'.phase \notin Holds
  PROVE  Case!Failed \/ Case!FailedAgain
<1>1. PICK n \in Nat : n = aggregate.cycle
  BY DEF RecoveryInv, TypeOK, Aggregate
<1>2. PICK f : f = Fates
  OBVIOUS
<1>3. f \in [1..n -> FateNames] /\ Len(f) = n
  BY <1>1, <1>2, FatesAre
<1>4. PICK g : g = Fates'
  OBVIOUS
<1>5. g \in [1..n + 1 -> FateNames]
  <2>1. (\A k : Fate(k) \in FateNames)'
    BY DEF Fate, FateNames
  <2>2. QED
    BY <1>1, <1>4, <2>1 DEF Fates
<1>6. \A k \in 1..n : k # n => g[k] = f[k]
  BY <1>1, <1>2, <1>4 DEF Fates, Fate
<1>7. g[n + 1] = "open"
  <2>1. ~(\E t \in terminals : t.cycle = n + 1)
    <3> SUFFICES ASSUME NEW t \in terminals PROVE t.cycle # n + 1
      OBVIOUS
    <3>1. t.cycle \in Nat /\ t.cycle <= n
      BY <1>1 DEF RecoveryInv, CyclesClosed, TypeOK, TerminalReceipt, Runs
    <3>2. QED
      BY <3>1
  <2>2. n + 1 \in 1..n + 1 /\ ~(n + 1 < n + 1)
    OBVIOUS
  <2>3. g[n + 1] = Fate(n + 1)'
    BY <1>1, <1>4, <2>2 DEF Fates
  <2>4. QED
    BY <1>1, <2>1, <2>2, <2>3 DEF Fate
<1>8. CASE aggregate.failure = None
  <2>1. n > 0 => f[n] = "closed" /\ g[n] = "closed"
    <3> SUFFICES ASSUME n > 0 PROVE f[n] = "closed" /\ g[n] = "closed"
      OBVIOUS
    <3>1. \E t \in terminals : t.cycle = n
      BY <1>1, <1>8 DEF RecoveryInv, CyclesClosed
    <3>2. f[n] = Fate(n) /\ g[n] = Fate(n)'
      BY <1>1, <1>2, <1>4 DEF Fates
    <3>3. QED
      BY <3>1, <3>2 DEF Fate
  <2>2. \A k \in 1..n : g[k] = f[k]
    BY <1>6, <2>1
  <2>3. g = Append(f, "open")
    BY <1>3, <1>5, <1>7, <2>2, FateAdded
  <2>4. QED
    BY <1>2, <1>3, <1>4, <2>1, <2>3 DEF Fates, Case!Failed, Case!Newest
<1>9. CASE aggregate.failure # None
  <2>1. n > 0 /\ f[n] = "open"
    <3>1. n # 0 /\ Fate(n) = "open"
      BY <1>1, <1>9, FatesNow
    <3>2. QED
      BY <1>1, <1>2, <3>1 DEF Fates
  <2>2. g[n] = "failed"
    <3>1. ~(\E t \in terminals : t.cycle = n)
      BY <1>1, <1>9 DEF RecoveryInv, CyclesClosed
    <3>2. g[n] = Fate(n)' /\ n < n + 1
      BY <1>1, <1>4, <2>1 DEF Fates
    <3>3. QED
      BY <1>1, <3>1, <3>2 DEF Fate
  <2>3. PICK h : h = [f EXCEPT ![n] = "failed"]
    OBVIOUS
  <2>4. h \in [1..n -> FateNames] /\ \A k \in 1..n : g[k] = h[k]
    BY <1>3, <1>6, <2>2, <2>3 DEF FateNames
  <2>5. g = Append(h, "open")
    BY <1>5, <1>7, <2>4, FateAdded
  <2>6. QED
    BY <1>2, <1>3, <1>4, <2>1, <2>3, <2>5
    DEF Fates, Case!FailedAgain, Case!Open, Case!Newest
<1>10. QED
  BY <1>8, <1>9

\* The steps that keep a cycle, and whether it is held after them.
LEMMA HeldStaysHeld ==
  ASSUME RecoveryInv,
         \/ \E c \in DOMAIN checkpoints, next \in Generations : AdmitCheckpoint(c, next)
         \/ \E s \in Lifecycles : RecordClaim(s)
         \/ \E input \in PolicyInput : Decide(input)
         \/ \E given \in Givens : ApplyAction(given)
         \/ Continue \/ Converge
  PROVE  /\ UNCHANGED terminals /\ aggregate'.cycle = aggregate.cycle
         /\ aggregate.failure # None
         /\ aggregate.phase \in Holds => aggregate'.phase \in Holds
<1> USE DEF RecoveryInv, CycleInv
<1>1. aggregate \in Aggregate
  BY DEF TypeOK
<1>2. ASSUME NEW c, NEW next, AdmitCheckpoint(c, next)
      PROVE  /\ UNCHANGED terminals /\ aggregate'.cycle = aggregate.cycle
             /\ aggregate.failure # None
             /\ aggregate.phase \in Holds => aggregate'.phase \in Holds
  BY <1>1, <1>2 DEF AdmitCheckpoint, Aggregate, HoldsHeld
<1>3. ASSUME NEW s, RecordClaim(s)
      PROVE  /\ UNCHANGED terminals /\ aggregate'.cycle = aggregate.cycle
             /\ aggregate.failure # None
             /\ aggregate.phase \in Holds => aggregate'.phase \in Holds
  BY <1>1, <1>3 DEF RecordClaim, Aggregate, Holds
<1>4. ASSUME Recorded("CLAIMED_CURRENT"), aggregate.phase \in Holds
      PROVE  aggregate.decision # None /\ Disposition(aggregate.decision) \in Holds
  <2>1. [cycle |-> aggregate.cycle, state |-> "CLAIMED_CURRENT"].state # "INVALIDATED_OR_ABANDONED"
    OBVIOUS
  <2>2. aggregate.claim.state # "INVALIDATED_OR_ABANDONED"
    BY <1>4, <2>1 DEF Recorded
  <2>3. QED
    BY <1>4, <2>2 DEF HoldsHeld
<1>5. ASSUME NEW input, Decide(input)
      PROVE  /\ UNCHANGED terminals /\ aggregate'.cycle = aggregate.cycle
             /\ aggregate.failure # None
             /\ aggregate.phase \in Holds => aggregate'.phase \in Holds
  <2>1. PICK d, e, p : aggregate' = [aggregate EXCEPT !.decision = d, !.evidence = e, !.phase = p]
    BY <1>5 DEF Decide, Decided
  <2>2. aggregate'.cycle = aggregate.cycle
    BY <1>1, <2>1 DEF Aggregate
  <2>3. Recorded("CLAIMED_CURRENT") /\ aggregate.decision = None /\ UNCHANGED terminals
    BY <1>5 DEF Decide
  <2>4. QED
    BY <1>4, <2>2, <2>3 DEF Recorded
<1>6. ASSUME NEW given, ApplyAction(given)
      PROVE  /\ UNCHANGED terminals /\ aggregate'.cycle = aggregate.cycle
             /\ aggregate.failure # None
             /\ aggregate.phase \in Holds => aggregate'.phase \in Holds
  <2>1. PICK d, e, p : /\ aggregate' = [aggregate EXCEPT !.action = d, !.evidence = e, !.phase = p]
                       /\ p = Disposition(aggregate.decision)
    BY <1>6 DEF ApplyAction
  <2>2. aggregate'.cycle = aggregate.cycle /\ aggregate'.phase = Disposition(aggregate.decision)
    BY <1>1, <2>1 DEF Aggregate
  <2>3. Recorded("CLAIMED_CURRENT") /\ UNCHANGED terminals
    BY <1>6 DEF ApplyAction
  <2>4. QED
    BY <1>4, <2>2, <2>3 DEF Recorded
<1>7. CASE Continue
  BY <1>1, <1>7 DEF Continue, Recorded, Aggregate
<1>8. CASE Converge
  BY <1>1, <1>8 DEF Converge, Recorded, Aggregate
<1>9. QED
  BY <1>2, <1>3, <1>5, <1>6, <1>7, <1>8

\* The work of a held cycle does not run, and a held cycle is not closed.
LEMMA HeldIsLast ==
  ASSUME RecoveryInv, StartReady \/ Close
  PROVE  aggregate.phase \notin Holds
BY DEF RecoveryInv, CycleInv, StartReady, Close, Converged, SuccessEarned, HoldsHeld, Recorded

LEMMA FatesStep ==
  ASSUME RecoveryInv, [Next]_vars
  PROVE  Case!Next \/ UNCHANGED Fates
<1> USE DEF RecoveryInv
<1>1. aggregate \in Aggregate
  BY DEF TypeOK
<1>2. CASE Succeed
  <2>1. PICK s \in Aggregate : s = Started /\ s.cycle = aggregate.cycle
    BY StartForgets
  <2>2. PICK n, t, r : /\ aggregate' = [s EXCEPT !.runs = n, !.tried = t, !.success = r,
                                                 !.phase = "RECOVERING"]
                       /\ UNCHANGED terminals
    BY <1>2, <2>1 DEF Succeed
  <2>3. aggregate'.cycle = aggregate.cycle /\ aggregate'.phase = "RECOVERING"
    BY <2>1, <2>2 DEF Aggregate
  <2>4. aggregate.phase \notin Holds /\ aggregate'.phase \notin Holds
    BY <1>2, <2>3, HeldIsLast DEF Succeed, Holds
  <2>5. QED
    BY <2>2, <2>3, <2>4, FatesStay
<1>3. ASSUME NEW class \in Classes, NEW effect \in Effects, Fail(class, effect)
      PROVE  Case!Next
  <2>1. PICK s \in Aggregate : s = Started /\ s.cycle = aggregate.cycle
    BY StartForgets
  <2>2. PICK n, r : /\ aggregate' = [s EXCEPT !.runs = n, !.tried = 1, !.cycle = s.cycle + 1,
                         !.failure = r, !.admission = None, !.decision = None,
                         !.action = None, !.evidence = {}, !.success = None,
                         !.convergence = None, !.phase = "FAILURE_ACTIVE"]
                    /\ UNCHANGED terminals
    BY <1>3, <2>1 DEF Fail
  <2>3. aggregate'.cycle = aggregate.cycle + 1 /\ aggregate'.phase = "FAILURE_ACTIVE"
    BY <2>1, <2>2 DEF Aggregate
  <2>4. aggregate.phase \notin Holds /\ aggregate'.phase \notin Holds
    BY <1>3, <2>3, HeldIsLast DEF Fail, Holds
  <2>5. QED
    BY <2>2, <2>3, <2>4, FateFails DEF Case!Next
<1>4. CASE \/ \E c \in DOMAIN checkpoints, next \in Generations : AdmitCheckpoint(c, next)
           \/ \E s \in Lifecycles : RecordClaim(s)
           \/ \E input \in PolicyInput : Decide(input)
           \/ \E given \in Givens : ApplyAction(given)
           \/ Continue \/ Converge
  <2>1. /\ UNCHANGED terminals /\ aggregate'.cycle = aggregate.cycle
        /\ aggregate.failure # None
        /\ aggregate.phase \in Holds => aggregate'.phase \in Holds
    BY <1>4, HeldStaysHeld
  <2>2. CASE aggregate.phase \notin Holds /\ aggregate'.phase \in Holds
    BY <2>1, <2>2, FateEnds DEF Case!Next
  <2>3. CASE aggregate'.phase \in Holds <=> aggregate.phase \in Holds
    BY <2>1, <2>3, FatesStay
  <2>4. QED
    BY <2>1, <2>2, <2>3
<1>5. CASE Close
  <2>1. PICK r : /\ terminals' = terminals \cup {r} /\ r.cycle = aggregate.cycle
                 /\ aggregate' = [aggregate EXCEPT !.failure = None, !.phase = "COMPLETED"]
    BY <1>5, TerminalEarned DEF Close, Closed
  <2>2. aggregate'.cycle = aggregate.cycle
    BY <1>1, <2>1 DEF Aggregate
  <2>3. aggregate.phase \notin Holds /\ aggregate.failure # None
    BY <1>5, HeldIsLast DEF Close, Recorded
  <2>4. QED
    BY <2>1, <2>2, <2>3, FateEnds DEF Case!Next
<1>6. CASE SchedulerStep
  BY <1>6, SchedulerAdvances, FatesStay
<1>7. CASE UNCHANGED vars
  BY <1>7, FatesStay DEF vars
<1>8. QED
  BY <1>2, <1>3, <1>4, <1>5, <1>6, <1>7 DEF Next, Attempt, RecoveryStep

\* Refinement: the aggregate and the scheduler handle failures as FailureCase
\* says; an ended cycle stays ended, and no cycle follows a held one.
THEOREM RecoveryKeepsItsPromise == Spec => FatesAreFinal
<1>1. Init => Case!Init
  <2> SUFFICES ASSUME Init PROVE Fates = <<>>
    BY DEF Fates, Case!Init
  <2>1. 0 \in Nat /\ 0 = aggregate.cycle
    BY DEF Init
  <2>2. Fates \in Seq(FateNames) /\ Len(Fates) = 0
    BY <2>1, FatesAre
  <2>3. QED
    BY <2>2
<1>2. RecoveryInv /\ [Next]_vars => [Case!Next]_[k \in 1..aggregate.cycle |-> Fate(k)]
  BY FatesStep DEF Fates
<1>3. QED
  BY <1>1, <1>2, RecoveryInvariant, PTL DEF Spec, FatesAreFinal, Case!Spec

=============================================================================
