---------------------------- MODULE NativeWorker ----------------------------
(***************************************************************************)
(* One native worker (src/core/native-worker-supervisor.mjs): the durable  *)
(* receipt current.json points at, the control file, the completion file   *)
(* and the mutation lock, shared by command-line processes, by detached    *)
(* supervisor hosts and by the payloads the hosts own.                     *)
(*                                                                         *)
(* Every mutation runs under the lock and is one step here, taken while    *)
(* the lock is free; SlowHolder is a process that is seen holding it.      *)
(* What a host does between two mutations, and what it reads without the   *)
(* lock, are steps of their own.  Receipt generations and file names are   *)
(* left out: no decision is taken on them.                                 *)
(***************************************************************************)
EXTENDS Naturals, FiniteSets

CONSTANTS
  Hosts,          \* the supervisor host processes that are ever started
  Cooperative,    \* manifest.pauseMode is CHECKPOINT_BOUND_COOPERATIVE
  MaxLaunches,    \* bounds the run reservations
  MaxControls,    \* bounds the control requests
  MaxHolds,       \* bounds how often a slow process is seen with the lock
  MaxFaults,      \* bounds the file operations that fail
  None

ASSUME NativeAssumption ==
  /\ Cooperative \in BOOLEAN
  /\ MaxLaunches \in Nat /\ MaxControls \in Nat /\ MaxHolds \in Nat /\ MaxFaults \in Nat

VARIABLES
  receipt,      \* the current receipt: its state, launchRef and control generation floor
  control,      \* control.json; run is an observer: the launch it was requested of
  completion,   \* completion.json exists
  lock,         \* .mutation-lock: free, held by a slow process, or left by a dead one
  host,         \* what each host process holds in memory
  child,        \* the payload of each host
  launches,     \* run reservations so far: launch refs are 1..launches
  requests, holds, faults

nwsVars == <<receipt, control, completion, lock, host, child, launches, requests,
             holds, faults>>

Running == {"WORKING", "PAUSE_REQUESTED", "CANCEL_REQUESTED"}
States == Running \cup {"STANDING_BY", "STARTING", "WAITING", "PAUSED", "CANCELLED",
                        "WRAPPING_UP", "DONE", "NEEDS_ATTENTION"}
Exited == {"exit 0", "exit 75", "exit 1"}
Launches == 1..MaxLaunches
Control == [gen: 1..MaxControls, action: {"PAUSE", "CANCEL"}, run: Launches]
Host == [pc: {"idle", "started", "adopted", "watching", "gone"}, launch: {0} \cup Launches,
         floor: 0..MaxControls, read: Control \cup {None},
         cancel: BOOLEAN, pause: BOOLEAN]
IdleHost == [pc |-> "idle", launch |-> 0, floor |-> 0, read |-> None,
             cancel |-> FALSE, pause |-> FALSE]

TypeOK ==
  /\ receipt \in [state: States, launch: {0} \cup Launches, floor: 0..MaxControls]
  /\ control \in Control \cup {None}
  /\ completion \in BOOLEAN
  /\ lock \in {"free", "held", "abandoned"}
  /\ host \in [Hosts -> Host]
  /\ child \in [Hosts -> {"none", "running"} \cup Exited]
  /\ launches \in 0..MaxLaunches
  /\ requests \in 0..MaxControls /\ holds \in 0..MaxHolds /\ faults \in 0..MaxFaults

Init ==
  /\ receipt = [state |-> "STANDING_BY", launch |-> 0, floor |-> 0]
  /\ control = None
  /\ completion = FALSE
  /\ lock = "free"
  /\ host = [h \in Hosts |-> IdleHost]
  /\ child = [h \in Hosts |-> "none"]
  /\ launches = 0
  /\ requests = 0 /\ holds = 0 /\ faults = 0

-----------------------------------------------------------------------------
(* Steps shared by the mutations.                                          *)

\* A mutation finds the lock free and writes a receipt of this state.
Write(state, launch) ==
  /\ lock = "free"
  /\ receipt' = [receipt EXCEPT !.state = state, !.launch = launch]

Fail == faults < MaxFaults /\ faults' = faults + 1

Exits(h) == host' = [host EXCEPT ![h].pc = "gone", ![h].read = None]

OwnsStart(launch) == receipt.state = "STARTING" /\ receipt.launch = launch

\* reserveNativeWorkerRun: the reservation precedes every process.
Reserve ==
  /\ receipt.state \in {"STANDING_BY", "PAUSED"}
  /\ lock = "free"
  /\ launches < MaxLaunches
  /\ launches' = launches + 1
  /\ receipt' = [state |-> "STARTING", launch |-> launches + 1,
                 floor |-> IF control = None THEN 0 ELSE control.gen]
  /\ UNCHANGED <<control, completion, lock, host, child, requests, holds, faults>>

\* A host process comes up for a launch ref: the one that
\* launchDetachedNativeWorkerHost spawned, or another one given the same ref.
StartHost(h, launch) ==
  /\ host[h].pc = "idle"
  /\ launch <= launches
  /\ host' = [host EXCEPT ![h].pc = "started", ![h].launch = launch]
  /\ UNCHANGED <<receipt, control, completion, lock, child, launches, requests,
                 holds, faults>>

\* markLaunchFailure: the host process could not be spawned.
LaunchFails(launch) ==
  /\ OwnsStart(launch)
  /\ Write("NEEDS_ATTENTION", launch)
  /\ UNCHANGED <<control, completion, lock, host, child, launches, requests, holds, faults>>

-----------------------------------------------------------------------------
(* A host: runPreparedNativeWorker.                                        *)

\* The host adopts the reservation; one that lost it throws.
Adopt(h) ==
  /\ host[h].pc = "started"
  /\ lock = "free"
  /\ \/ /\ OwnsStart(host[h].launch)
        /\ host' = [host EXCEPT ![h].pc = "adopted", ![h].floor = receipt.floor]
     \/ ~OwnsStart(host[h].launch) /\ Exits(h)
  /\ UNCHANGED <<receipt, control, completion, lock, child, launches, requests,
                 holds, faults>>

\* markPrePayloadFailure: the logs cannot be opened.
PrePayloadFails(h) ==
  /\ host[h].pc = "adopted"
  /\ \/ OwnsStart(host[h].launch) /\ Write("NEEDS_ATTENTION", host[h].launch)
     \/ ~OwnsStart(host[h].launch) /\ lock = "free" /\ UNCHANGED receipt
  /\ Exits(h)
  /\ UNCHANGED <<control, completion, lock, child, launches, requests, holds, faults>>

\* A defective variant that trusts the adoption and reads the receipt no more.
SpawnUnchecked(h) ==
  /\ host[h].pc = "adopted"
  /\ Write("WORKING", host[h].launch)
  /\ child' = [child EXCEPT ![h] = "running"]
  /\ host' = [host EXCEPT ![h].pc = "watching"]
  /\ UNCHANGED <<control, completion, lock, launches, requests, holds, faults>>

\* spawnReservedPayload: the final check, the spawn and the WORKING receipt are
\* one critical section.
SpawnPayload(h) ==
  /\ host[h].pc = "adopted"
  /\ OwnsStart(host[h].launch)
  /\ Write("WORKING", host[h].launch)
  /\ child' = [child EXCEPT ![h] = "running"]
  /\ host' = [host EXCEPT ![h].pc = "watching"]
  /\ UNCHANGED <<control, completion, lock, launches, requests, holds, faults>>

\* spawnReservedPayload without a payload: the reservation is lost, which
\* throws, or the spawn itself fails.
SpawnNothing(h) ==
  /\ host[h].pc = "adopted"
  /\ \/ ~OwnsStart(host[h].launch) /\ lock = "free" /\ UNCHANGED receipt
     \/ OwnsStart(host[h].launch) /\ Write("NEEDS_ATTENTION", host[h].launch)
  /\ Exits(h)
  /\ UNCHANGED <<control, completion, lock, child, launches, requests, holds, faults>>

\* A defective variant that gives up without a recovery receipt.
SpawnUnrecorded(h) ==
  /\ host[h].pc = "adopted"
  /\ OwnsStart(host[h].launch)
  /\ lock = "free"
  /\ Fail
  /\ UNCHANGED receipt
  /\ child' = [child EXCEPT ![h] = "running"]
  /\ Exits(h)
  /\ UNCHANGED <<control, completion, lock, launches, requests, holds>>

\* The payload runs and its WORKING receipt cannot be written: it is asked to
\* stop, which it need not do, and a recovery receipt is written past every
\* receipt file there is.  When that fails too the receipt still says STARTING.
SpawnUnpersisted(h) ==
  /\ host[h].pc = "adopted"
  /\ OwnsStart(host[h].launch)
  /\ lock = "free"
  /\ \/ Fail /\ Write("NEEDS_ATTENTION", host[h].launch)
     \/ /\ faults + 2 <= MaxFaults
        /\ faults' = faults + 2
        /\ UNCHANGED receipt
  /\ child' = [child EXCEPT ![h] = "running"]
  /\ Exits(h)
  /\ UNCHANGED <<control, completion, lock, launches, requests, holds>>

\* A defective variant without the floor of the reservation.
UnseenBefore(h) == control # None /\ (host[h].cancel \/ host[h].pause => control.gen > host[h].floor)

\* A control the host has not obeyed yet.
Unseen(h) == control # None /\ control.gen > host[h].floor

\* observeControl, first half: the control file and the receipt are read
\* without the lock.
ReadControl(h) ==
  /\ host[h].pc = "watching"
  /\ host[h].read = None
  /\ Unseen(h)
  /\ receipt.launch = host[h].launch
  /\ host' = [host EXCEPT ![h].read = control]
  /\ UNCHANGED <<receipt, control, completion, lock, child, launches, requests,
                 holds, faults>>

Requested(c) == IF c.action = "PAUSE" THEN "PAUSE_REQUESTED" ELSE "CANCEL_REQUESTED"

\* The receipt has to move.  Only the host moves it while its payload runs, so it
\* is the one read with the control.
Moves(c) ==
  \/ receipt.state = "WORKING"
  \/ c.action = "CANCEL" /\ receipt.state = "PAUSE_REQUESTED"

\* observeControl, second half: the receipt moves unless it has moved before,
\* and the request is remembered.
Obey(h) ==
  /\ host[h].read # None
  /\ LET c == host[h].read
     IN  /\ \/ Moves(c) /\ Write(Requested(c), host[h].launch)
            \/ ~Moves(c) /\ UNCHANGED receipt
         /\ host' = [host EXCEPT ![h].read = None, ![h].floor = c.gen,
                                 ![h].pause = @ \/ c.action = "PAUSE",
                                 ![h].cancel = @ \/ c.action = "CANCEL"]
  /\ UNCHANGED <<control, completion, lock, child, launches, requests, holds, faults>>

\* A defective variant that counts the control as seen although it was not obeyed.
ForgetControl(h) ==
  /\ host[h].read # None
  /\ Moves(host[h].read)
  /\ lock # "free"
  /\ host' = [host EXCEPT ![h].read = None, ![h].floor = host[h].read.gen]
  /\ UNCHANGED <<receipt, control, completion, lock, child, launches, requests,
                 holds, faults>>

\* The lock was not free in time (NWS_MUTATION_LOCKED): the next poll tries again.
RetryControl(h) ==
  /\ host[h].read # None
  /\ Moves(host[h].read)
  /\ lock # "free"
  /\ host' = [host EXCEPT ![h].read = None]
  /\ UNCHANGED <<receipt, control, completion, lock, child, launches, requests,
                 holds, faults>>

\* A defective variant with a state that writeReceiptUnlocked does not know.
OutcomeUnknown(h) == IF child[h] = "exit 0" THEN "WRAPPING_UP" ELSE "FAILED"

\* What the end of the payload means.
Outcome(h) ==
  CASE host[h].cancel -> "CANCELLED"
    [] ~host[h].cancel /\ host[h].pause /\ child[h] = "exit 75" -> "PAUSED"
    [] ~host[h].cancel /\ child[h] = "exit 0" -> "WRAPPING_UP"
    [] OTHER -> "NEEDS_ATTENTION"

\* A defective variant that leaves the control file of a finished run behind.
SettleKeeping(h) ==
  /\ host[h].pc = "watching" /\ host[h].read = None
  /\ child[h] \in Exited
  /\ Write(Outcome(h), host[h].launch)
  /\ Exits(h)
  /\ UNCHANGED <<control, completion, lock, child, launches, requests, holds, faults>>

\* writeRunReceipt of the outcome; PAUSED and CANCELLED retire the control file.
Settle(h) ==
  /\ host[h].pc = "watching" /\ host[h].read = None
  /\ child[h] \in Exited
  /\ Write(Outcome(h), host[h].launch)
  /\ control' = IF Outcome(h) \in {"PAUSED", "CANCELLED"} THEN None ELSE control
  /\ Exits(h)
  /\ UNCHANGED <<completion, lock, child, launches, requests, holds, faults>>

\* The receipt of the outcome is written and the control file cannot be removed.
SettleUnretired(h) ==
  /\ host[h].pc = "watching" /\ host[h].read = None
  /\ child[h] \in Exited
  /\ Fail
  /\ Write(Outcome(h), host[h].launch)
  /\ Exits(h)
  /\ UNCHANGED <<control, completion, lock, child, launches, requests, holds>>

\* The outcome cannot be written, because the lock is not free in time or the
\* write fails: the host throws and nobody tries again.
OutcomeLost(h) ==
  /\ host[h].pc = "watching" /\ host[h].read = None
  /\ child[h] \in Exited
  /\ \/ lock # "free" /\ UNCHANGED faults
     \/ lock = "free" /\ Fail
  /\ Exits(h)
  /\ UNCHANGED <<receipt, control, completion, lock, child, launches, requests, holds>>

\* The payload emits an error and need not have ended.
ChildError(h) ==
  /\ host[h].pc = "watching" /\ host[h].read = None
  /\ child[h] = "running"
  /\ Write("NEEDS_ATTENTION", host[h].launch)
  /\ Exits(h)
  /\ UNCHANGED <<control, completion, lock, child, launches, requests, holds, faults>>

\* The payload ends, on its own or because it was asked to, owned or not.
ChildEnds(h) ==
  /\ child[h] = "running"
  /\ \E code \in Exited : child' = [child EXCEPT ![h] = code]
  /\ UNCHANGED <<receipt, control, completion, lock, host, launches, requests,
                 holds, faults>>

\* A host dies between mutations; its payload goes on.
Crash(h) ==
  /\ host[h].pc \in {"started", "adopted", "watching"}
  /\ Exits(h)
  /\ UNCHANGED <<receipt, control, completion, lock, child, launches, requests,
                 holds, faults>>

\* A host dies inside the critical section of the spawn, with the payload up and
\* no WORKING receipt; nobody ever removes the lock.
CrashSpawning(h) ==
  /\ host[h].pc = "adopted"
  /\ OwnsStart(host[h].launch)
  /\ lock = "free"
  /\ lock' = "abandoned"
  /\ child' = [child EXCEPT ![h] = "running"]
  /\ Exits(h)
  /\ UNCHANGED <<receipt, control, completion, launches, requests, holds, faults>>

-----------------------------------------------------------------------------
(* Commands.                                                               *)

\* requestNativeWorkerControl while no payload runs: the receipt itself moves.
ControlUnstarted(action) ==
  /\ action = "PAUSE" => Cooperative
  /\ \/ action = "PAUSE" /\ receipt.state = "STANDING_BY" /\ Write("PAUSED", 0)
     \/ action = "PAUSE" /\ receipt.state = "STARTING" /\ Write("PAUSED", receipt.launch)
     \/ action = "CANCEL" /\ receipt.state = "STARTING" /\ Write("CANCELLED", receipt.launch)
  /\ UNCHANGED <<control, completion, lock, host, child, launches, requests, holds, faults>>

\* requestNativeWorkerControl of a running payload: the control file is replaced.
RequestControl(action) ==
  /\ action = "PAUSE" => Cooperative
  /\ receipt.state \in {"WORKING", "PAUSE_REQUESTED"}
  /\ lock = "free"
  /\ requests < MaxControls
  /\ requests' = requests + 1
  /\ control' = [gen |-> IF control = None THEN 1 ELSE control.gen + 1,
                 action |-> action, run |-> receipt.launch]
  /\ UNCHANGED <<receipt, completion, lock, host, child, launches, holds, faults>>

MarkWaiting ==
  /\ receipt.state \in {"STANDING_BY", "PAUSED"}
  /\ Write("WAITING", 0)
  /\ UNCHANGED <<control, completion, lock, host, child, launches, requests, holds, faults>>

MarkStandingBy ==
  /\ receipt.state \in {"WAITING", "PAUSED"}
  /\ Write("STANDING_BY", 0)
  /\ UNCHANGED <<control, completion, lock, host, child, launches, requests, holds, faults>>

\* consumeNativeWorkerResult: the completion file, which must not exist yet, and
\* then the DONE receipt.
Consume ==
  /\ receipt.state = "WRAPPING_UP"
  /\ ~completion
  /\ completion' = TRUE
  /\ \/ Write("DONE", receipt.launch) /\ UNCHANGED faults
     \/ lock = "free" /\ Fail /\ UNCHANGED receipt
  /\ UNCHANGED <<control, lock, host, child, launches, requests, holds>>

\* A process is seen with the lock: it lets go, or dies with it.
SlowHolder ==
  /\ \/ lock = "free" /\ holds < MaxHolds /\ lock' = "held" /\ holds' = holds + 1
     \/ lock = "held" /\ lock' \in {"free", "abandoned"} /\ UNCHANGED holds
  /\ UNCHANGED <<receipt, control, completion, host, child, launches, requests, faults>>

-----------------------------------------------------------------------------
Watch(h) == ReadControl(h) \/ Obey(h) \/ RetryControl(h) \/ Settle(h)

Next ==
  \/ Reserve \/ MarkWaiting \/ MarkStandingBy \/ Consume \/ SlowHolder
  \/ \E launch \in Launches : LaunchFails(launch) \/ \E h \in Hosts : StartHost(h, launch)
  \/ \E action \in {"PAUSE", "CANCEL"} : ControlUnstarted(action) \/ RequestControl(action)
  \/ \E h \in Hosts :
       \/ Adopt(h) \/ PrePayloadFails(h) \/ SpawnPayload(h) \/ SpawnNothing(h)
       \/ SpawnUnpersisted(h) \/ Watch(h) \/ SettleUnretired(h) \/ OutcomeLost(h)
       \/ ChildError(h) \/ ChildEnds(h) \/ Crash(h) \/ CrashSpawning(h)

Spec == Init /\ [][Next]_nwsVars

\* A host that lives keeps polling and hears of the end of its payload
\* (setInterval, the close event).  Nothing is assumed of commands, payloads or
\* of a process that is slow with the lock.
FairSpec == Spec /\ \A h \in Hosts : WF_nwsVars(Watch(h))

-----------------------------------------------------------------------------
(* Properties.                                                             *)

Live == {h \in Hosts : child[h] = "running"}

\* A receipt that says the worker is at rest is true: no payload of any launch is
\* up, whichever hosts raced, died or failed to write (one failed write; with
\* two in a row, the WORKING and the recovery receipt, it is not).
RestIsTrue ==
  receipt.state \notin Running \cup {"STARTING", "NEEDS_ATTENTION"} => Live = {}

\* A host never obeys a request that was made of an earlier run, although the
\* control file is shared, its generation starts again when it is retired, and
\* it may be left behind.
OwnControlsOnly ==
  \A h \in Hosts : host[h].read # None => host[h].read.run = host[h].launch

\* The file a cooperative payload reads directly holds no request when it starts,
\* unless a removal failed: a resumed worker does not obey yesterday's pause.
StartsUncontrolled ==
  faults = 0 => \A h \in Hosts : child[h] = "running" /\ control # None =>
                                   control.run = host[h].launch

\* The payloads use one slot: one at a time, and no launch has two.
Slot == INSTANCE WorkerSlot WITH
  Generations <- Launches,
  owner <- IF Live = {} THEN 0 ELSE host[CHOOSE h \in Live : TRUE].launch,
  served <- {host[h].launch : h \in {g \in Hosts : child[g] # "none"}}
OnePayload == Slot!Spec

\* A cancellation that stays requested is taken up, or its host is gone, or the
\* lock is left held; the receipt does not say WORKING for ever.
Unanswered == control # None /\ control.action = "CANCEL"
              /\ control.run = receipt.launch /\ receipt.state \in {"WORKING", "PAUSE_REQUESTED"}
Watched == \E h \in Hosts : host[h].pc = "watching" /\ host[h].launch = receipt.launch
CancelTakenUp == (Unanswered /\ Watched) ~> (~Unanswered \/ ~Watched \/ lock # "free")
=============================================================================
