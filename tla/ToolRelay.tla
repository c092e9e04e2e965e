----------------------------- MODULE ToolRelay ------------------------------
(***************************************************************************)
(* The tool relay (src/core/tool-result-relay.mjs) and the scheduler that  *)
(* owns it.  The relay changes at once, in memory; the aggregate's copy of *)
(* its ledger follows when the scheduler commits, and the two methods that *)
(* touch the relay before they look at the leases, or throw afterwards,    *)
(* leave them apart.                                                       *)
(*                                                                         *)
(* Results that match their call in every field are the only ones that can *)
(* change anything and the only ones modelled; receipts are their states   *)
(* and times.  The relay asks a host for leases, and never whether the     *)
(* scheduler still has them: a host registers calls, and puts answers into *)
(* contexts, under any lease it was ever given, until that lease expires.  *)
(* (When a lease was formed is its caller's choice, and is left out.)      *)
(***************************************************************************)
EXTENDS Scheduler

CONSTANTS
  MaxCalls,     \* bounds the calls, successors included
  StrayPhases,  \* bound of the model: the phases in which the host still
                \* registers calls under leases that are not in force
  Careful       \* the host names only calls it has just seen pending, tries a
                \* failed checkpoint again under the same name, and never asks
                \* to resume a checkpoint that names a call when the resume
                \* would throw, for its time or for a recovery claim

ASSUME RelayAssumption == MaxCalls \in Nat /\ Careful \in BOOLEAN

VARIABLES
  calls,        \* the relay's ledger, in memory, in the order of registration
  filed,        \* aggregate.relayLedger
  names,        \* pendingToolCallRef of each checkpoint, or 0
  until,        \* the leases the host was given: generation -> expiry, or 0
  authorized    \* generation -> the call whose answer its context may take over

relayVars == <<calls, filed, names, until, authorized>>

Open == {"PENDING", "HELD", "ACCEPTED"}
Call == [state: Open \cup {"REINJECTED", "CLOSED"}, gen: 1..MaxGeneration,
         last: Times, timeout: 1..MaxTime + 1,
         cp: 0..MaxCheckpoints, pred: 0..MaxCalls,
         late: 0..MaxGeneration]   \* history: registered when this generation had ended

RelayTypeOK ==
  /\ calls \in Seq(Call) /\ Len(calls) <= MaxCalls
  /\ filed \in Seq(Call) /\ Len(filed) <= Len(calls)
  /\ names \in Seq(0..MaxCalls) /\ Len(names) = Len(checkpoints)
  /\ until \in [Generations -> 0..MaxTime + 1]
  /\ authorized \in [Generations -> 0..MaxCalls]

In(state) == {i \in DOMAIN calls : calls[i].state = state}

\* The entry after its next receipt; nothing reads the times of one that has ended.
Entry(i, state, t) ==
  [calls[i] EXCEPT !.state = state,
                   !.last = IF state \in Open THEN t ELSE 0,
                   !.timeout = 1,
                   !.cp = IF state = "HELD" THEN @ ELSE 0,
                   !.late = IF state \in Open THEN @ ELSE 0]

\* One entry is replaced; transition times never go back.
Move(i, state, t) ==
  /\ t >= calls[i].last
  /\ calls' = [calls EXCEPT ![i] = Entry(i, state, t)]

\* createToolCall: a pending call of the generation g.
NewCall(g, t, timeout, pred, late) ==
  [state |-> "PENDING", gen |-> g, last |-> t, timeout |-> timeout, cp |-> 0, pred |-> pred,
   late |-> late]

\* The work is over: nothing runs and nothing is left to continue.
Over == phase \in {"COMPLETED", "CANCELLED"}

InForce(g) == active # None /\ active.gen = g

\* The leases that the scheduler hands to the host when it runs something.
Grants == until' = IF active' = None THEN until
                   ELSE [until EXCEPT ![active'.gen] = active'.expires]

-----------------------------------------------------------------------------
(* The relay on its own.                                                   *)

\* A call under the leases of the generation g, whatever runs now.
Register(g, t, timeout) ==
  /\ t < until[g] /\ t < timeout
  /\ InForce(g) \/ phase \in StrayPhases
  /\ Len(calls) < MaxCalls
  /\ calls' = Append(calls, NewCall(g, t, timeout, 0, IF Over THEN generation ELSE 0))
  /\ UNCHANGED <<vars, filed, names, until, authorized>>

\* A defective variant that answers a call that is held.
AcceptHeld(i, t) ==
  /\ calls[i].state \in {"PENDING", "HELD"}
  /\ Move(i, IF t < calls[i].timeout THEN "ACCEPTED" ELSE "CLOSED", t)
  /\ UNCHANGED <<vars, filed, names, until, authorized>>

\* accept: the answer is in time, or it closes the call.
Accept(i, t) ==
  /\ calls[i].state = "PENDING"
  /\ Move(i, IF t < calls[i].timeout THEN "ACCEPTED" ELSE "CLOSED", t)
  /\ UNCHANGED <<vars, filed, names, until, authorized>>

\* reinject into the context of the generation g: it asked, or it has the
\* scheduler's authorization to take the answer over.
Reinject(i, g, t) ==
  /\ calls[i].state = "ACCEPTED"
  /\ t < until[g]
  /\ calls[i].gen = g \/ i = authorized[g]
  /\ Move(i, "REINJECTED", t)
  /\ UNCHANGED <<vars, filed, names, until, authorized>>

\* cancel by the host; a held call is the scheduler's.
CancelCall(i, t) ==
  /\ calls[i].state \in {"PENDING", "ACCEPTED"}
  /\ Move(i, "CLOSED", t)
  /\ UNCHANGED <<vars, filed, names, until, authorized>>

SyncRelayState ==
  /\ filed' = calls
  /\ UNCHANGED <<vars, calls, names, until, authorized>>

-----------------------------------------------------------------------------
(* checkpoint holds the call it names before it looks at the leases.       *)

\* hold; one that is not pending is left alone, and nobody hears of it.
Hold(i, t, cp) ==
  IF i # 0 /\ calls[i].state = "PENDING"
  THEN /\ t >= calls[i].last /\ t < calls[i].timeout
       /\ calls' = [calls EXCEPT ![i] = [Entry(i, "HELD", t) EXCEPT !.cp = cp]]
  ELSE UNCHANGED calls

Nameable ==
  {0} \cup IF Careful
           THEN {i \in DOMAIN calls :
                   calls[i].state = "PENDING" \/
                   (calls[i].state = "HELD" /\ calls[i].cp = Len(checkpoints) + 1)}
           ELSE DOMAIN calls

CheckpointNaming(t, i) ==
  /\ i \in Nameable
  /\ Hold(i, t, Len(checkpoints) + 1)
  /\ Checkpoint(t)
  /\ names' = Append(names, i)
  /\ filed' = calls'
  /\ UNCHANGED <<until, authorized>>

\* The call is held, and then the leases or the input are refused.
CheckpointThrows(t, i) ==
  /\ i \in Nameable \ {0}
  /\ active # None
  /\ Len(checkpoints) < MaxCheckpoints
  /\ Hold(i, t, Len(checkpoints) + 1)
  /\ CheckpointRejected(t) \/ (~Releasable(t) /\ UNCHANGED vars)
  /\ UNCHANGED <<filed, names, until, authorized>>

-----------------------------------------------------------------------------
(* The end of the work closes the calls that nobody will ask for.          *)

Retained == {names[continuations[k]] : k \in DOMAIN continuations}

\* Two defective variants, which forget the preempted work's held calls and
\* which leave the accepted answers.
UnownedAll == UNION {In(s) : s \in Open}
UnownedUnanswered == In("PENDING") \cup (In("HELD") \ Retained)

Unowned == In("PENDING") \cup In("ACCEPTED") \cup (In("HELD") \ Retained)

Close(S, t) ==
  calls' = [i \in DOMAIN calls |->
              IF i \in S THEN Entry(i, "CLOSED", t) ELSE calls[i]]

\* Calls with a later receipt refuse the time.
TooLate(t) == {i \in Unowned : t < calls[i].last}

EndNaming(t) ==
  /\ TooLate(t) = {}
  /\ Close(Unowned, t)
  /\ CompleteActive(t) \/ CancelActive(t)
  /\ filed' = calls'
  /\ UNCHANGED <<names, until, authorized>>

\* The calls are closed and then the method throws; or one call refuses, and
\* those that came before it are closed.
EndThrows(t) ==
  /\ active # None
  /\ \/ /\ TooLate(t) = {}
        /\ Close(Unowned, t)
        /\ CompleteRejected(t) \/ CancelRejected(t) \/ (~Releasable(t) /\ UNCHANGED vars)
     \/ /\ TooLate(t) # {}
        /\ \E S \in SUBSET (Unowned \ TooLate(t)) : Close(S, t)
        /\ UNCHANGED vars
  /\ UNCHANGED <<filed, names, until, authorized>>

-----------------------------------------------------------------------------
(* resume disposes of the call its checkpoint names.                       *)

\* A defective variant that issues the successor and leaves the held call.
DisposeTwice(k, g, t) ==
  LET i == names[k]
  IN  \/ i = 0 /\ UNCHANGED calls
      \/ /\ i # 0 /\ calls[i].state = "HELD" /\ calls[i].cp = k /\ t >= calls[i].last
         /\ Len(calls) < MaxCalls
         /\ \E timeout \in t+1..MaxTime + 1 :
              calls' = Append([calls EXCEPT ![i].state = "PENDING"], NewCall(g, t, timeout, i, 0))

\* #applyHeldToolDisposition: CLOSE, or one of the three that issue a successor
\* (they differ in the semantic purpose only).
Dispose(k, g, t) ==
  LET i == names[k]
      closed == [calls EXCEPT ![i] = Entry(i, "CLOSED", t)]
  IN  \/ i = 0 /\ UNCHANGED calls
      \/ /\ i # 0 /\ calls[i].state = "HELD" /\ calls[i].cp = k /\ t >= calls[i].last
         /\ \/ calls' = closed
            \/ /\ Len(calls) < MaxCalls
               /\ \E timeout \in t+1..MaxTime + 1 :
                    calls' = Append(closed, NewCall(g, t, timeout, i, 0))

\* #successorAuthorization: an answer to the checkpointed generation.
Authorizable(k) ==
  {0} \cup {i \in In("ACCEPTED") \cup In("REINJECTED") : calls[i].gen = checkpoints[k].gen}

ResumeNaming(k, g, t, x) ==
  /\ calls = filed
  /\ Resume(k, g, t, x) \/ RecoveryResume(k, g, t, x)
  /\ Dispose(k, g, t)
  /\ filed' = calls'
  /\ Grants
  /\ \E i \in Authorizable(k) : authorized' = [authorized EXCEPT ![g] = i]
  /\ UNCHANGED names

\* The relay disposes of the call, and then resume throws.
ResumeThrows(k, g, t) ==
  /\ calls = filed
  /\ Careful => names[k] = 0
  /\ ResumeRejected(k, g, t)
  /\ Dispose(k, g, t)
  /\ UNCHANGED <<filed, names, until, authorized>>

CompletePreemptionNaming(k, x) ==
  /\ calls = filed
  /\ CompletePreemption(k, x)
  /\ Grants
  /\ UNCHANGED <<calls, filed, names, authorized>>

-----------------------------------------------------------------------------
\* The host restarts with the relay that the aggregate has on file; what it
\* knows of its leases it may have kept.
RestartWithRelay ==
  /\ Restart
  /\ calls' = filed
  /\ UNCHANGED <<filed, names, until, authorized>>

\* The methods that do not know the relay.
Others ==
  /\ RootStep \/ StartStep \/ ClaimStep \/ \E t \in Times : AdvanceObservedClock(t)
  /\ Grants
  /\ UNCHANGED <<calls, filed, names, authorized>>

RelayInit ==
  /\ Init
  /\ calls = <<>> /\ filed = <<>> /\ names = <<>>
  /\ until = [g \in Generations |-> 0]
  /\ authorized = [g \in Generations |-> 0]

RelayNext ==
  \/ Others \/ SyncRelayState \/ RestartWithRelay
  \/ \E t \in Times :
       \/ EndNaming(t) \/ EndThrows(t)
       \/ \E g \in Generations :
            \/ \E timeout \in 1..MaxTime + 1 : Register(g, t, timeout)
            \/ \E i \in DOMAIN calls : Reinject(i, g, t)
       \/ \E i \in DOMAIN calls : Accept(i, t) \/ CancelCall(i, t)
       \/ \E i \in 0..MaxCalls : CheckpointNaming(t, i) \/ CheckpointThrows(t, i)
  \/ \E k \in DOMAIN checkpoints, x \in Expiries :
       \/ CompletePreemptionNaming(k, x)
       \/ \E g \in Generations, t \in Times : ResumeNaming(k, g, t, x)
  \/ \E k \in DOMAIN checkpoints, g \in Generations, t \in Times : ResumeThrows(k, g, t)

RelaySpec == RelayInit /\ [][RelayNext]_<<vars, relayVars>>

-----------------------------------------------------------------------------
(* Properties.                                                             *)

\* The requests of the filed ledger: a call and all its successors are one.
Origin[i \in DOMAIN filed] == IF filed[i].pred = 0 THEN i ELSE Origin[filed[i].pred]
Status(r) ==
  LET lineage == {i \in DOMAIN filed : Origin[i] = r}
      current == {i \in lineage : filed[i].state # "CLOSED"}
  IN  IF lineage = {} THEN "none"
      ELSE IF current = {} THEN "dropped"
      ELSE IF \E i, j \in current : i # j THEN "answered twice"
      ELSE LET state == filed[CHOOSE i \in current : TRUE].state
           IN  CASE state = "ACCEPTED"   -> "answered"
                 [] state = "REINJECTED" -> "used"
                 [] OTHER                -> "open"

\* A request that is held, issued again and answered late, twice, or across a
\* restart has at most one answer on file, used at most once.
Request == INSTANCE OneAnswer WITH
  Requests <- 1..MaxCalls,
  status <- [r \in 1..MaxCalls |-> Status(r)]
OneAnswerEach == Request!Spec

\* The checkpoints that work waits at: what was preempted, and what was paused
\* last.  (An older paused checkpoint is not waited for: resuming a continuation
\* in its place ends with its call closed.)
Awaited ==
  {continuations[k] : k \in DOMAIN continuations}
    \cup (IF phase = "PAUSED" THEN {Len(checkpoints)} ELSE {})

\* A paused checkpoint that work waits at and that names a call still holds it,
\* so it can be resumed, whatever preempted it, ended meanwhile, failed or
\* restarted.
NamedCallsHeld ==
  \A k \in Awaited :
    Paused(k) /\ names[k] # 0 => calls[names[k]].state = "HELD" /\ calls[names[k]].cp = k

\* Work that ended, with nothing left to continue, leaves no call that an answer
\* could still reach: whatever is open then was registered after that very end,
\* by a host that still had the leases.
EndedWorkOwesNothing ==
  Over => \A i \in DOMAIN calls : calls[i].state \in Open => calls[i].late = generation

\* A held call leaves a paused checkpoint only when that checkpoint resumes: the
\* disposition and the resume are one step.
DispositionIsAtomic ==
  [][\A k \in DOMAIN checkpoints :
       Paused(k) /\ names[k] # 0 /\ calls[names[k]].state = "HELD"
         /\ calls'[names[k]].state # "HELD" => checkpoints'[k].pointer # "PAUSED_AT_CHECKPOINT"
    ]_<<vars, relayVars>>
=============================================================================
