-------------------------- MODULE NativeWorkerProofs --------------------------
(***************************************************************************)
(* The native worker for any number of hosts, launches, control requests   *)
(* and slow lock holders, and at most one failed file operation.  With two *)
(* in a row a payload runs under a receipt that still says STARTING, and   *)
(* what is proved here of payloads is false.                               *)
(***************************************************************************)
EXTENDS NativeWorker, TLAPS

Used(h) == child[h] # "none"

\* The types without the bounds of the model.
Request == [gen: Nat, action: {"PAUSE", "CANCEL"}, run: Nat]
HostState == [pc: {"idle", "started", "adopted", "watching", "gone"}, launch: Nat,
              floor: Nat, read: Request \cup {None}, cancel: BOOLEAN, pause: BOOLEAN]

Typed ==
  /\ receipt \in [state: States, launch: Nat, floor: Nat]
  /\ control \in Request \cup {None}
  /\ host \in [Hosts -> HostState]
  /\ child \in [Hosts -> {"none", "running"} \cup Exited]
  /\ launches \in Nat /\ launches <= MaxLaunches /\ faults \in Nat

\* A reservation is the newest launch; a host that came up was given a launch,
\* and one that has not spawned has no payload.
Launched ==
  /\ receipt.launch <= launches
  /\ receipt.state = "STARTING" => receipt.launch = launches
  /\ \A h \in Hosts : host[h].pc # "idle" => host[h].launch \in 1..launches
  /\ \A h \in Hosts : host[h].pc \in {"idle", "started", "adopted"} => child[h] = "none"

\* A launch has one payload at most.  A reservation that has a payload already
\* cannot be taken any more: the lock is left behind by the host that died.
OneRun ==
  /\ \A g, h \in Hosts : Used(g) /\ Used(h) /\ host[g].launch = host[h].launch => g = h
  /\ \A h \in Hosts :
       Used(h) /\ receipt.state = "STARTING" /\ host[h].launch = receipt.launch =>
         lock = "abandoned"
  /\ \A h \in Hosts :
       child[h] = "running" =>
         /\ host[h].launch = receipt.launch
         /\ receipt.state \in Running \cup {"STARTING", "NEEDS_ATTENTION"}
  /\ \A h \in Hosts :
       host[h].pc = "watching" =>
         Used(h) /\ host[h].launch = receipt.launch /\ receipt.state \in Running

\* What is above the floor was requested of this launch; no host is below the
\* floor of the reservation it took, and what it has read is above its own.
Floored ==
  /\ control # None /\ control.gen > receipt.floor
       /\ receipt.state \in Running \cup {"STARTING"} => control.run = receipt.launch
  /\ \A h \in Hosts :
       /\ host[h].pc = "watching" => receipt.floor <= host[h].floor
       /\ host[h].pc = "adopted" /\ OwnsStart(host[h].launch) => receipt.floor <= host[h].floor
       /\ host[h].read # None =>
            /\ host[h].pc = "watching"
            /\ host[h].read.run = host[h].launch
            /\ host[h].floor < host[h].read.gen

\* Without a failed removal no request outlives the run it was made of.
Retired ==
  faults = 0 /\ control # None =>
    /\ receipt.state \in Running \cup {"WRAPPING_UP", "DONE", "NEEDS_ATTENTION"}
    /\ control.run = receipt.launch

RunInv == Typed /\ Launched /\ OneRun
NwInv == RunInv /\ Floored /\ Retired

-----------------------------------------------------------------------------
(* What the steps do to the payloads: four kinds.                          *)

\* A command leaves hosts and payloads alone.  It reserves, or moves a receipt
\* that is not of a run, under the lock.
Command ==
  /\ host' = host /\ child' = child
  /\ \/ /\ lock = "free" /\ lock' = lock
        /\ receipt.state \in {"STANDING_BY", "PAUSED"}
        /\ launches' = launches + 1
        /\ receipt'.state = "STARTING" /\ receipt'.launch = launches + 1
     \/ /\ lock = "free" /\ lock' = lock
        /\ receipt.state \notin Running \cup {"NEEDS_ATTENTION"}
        /\ launches' = launches
        /\ receipt'.state \notin Running \cup {"STARTING"}
        /\ receipt'.launch \in {0, receipt.launch}
     \/ /\ receipt' = receipt /\ launches' = launches
        /\ lock = "abandoned" => lock' = lock

\* A host comes up, adopts, watches, settles or goes, and starts no payload.
HostStep(h) ==
  /\ child' = child /\ launches' = launches /\ lock' = lock
  /\ \A g \in Hosts \ {h} : host'[g] = host[g]
  /\ \/ /\ host[h].pc = "idle" /\ host'[h].pc = "started"
        /\ host'[h].launch \in 1..launches
        /\ receipt' = receipt
     \/ /\ host[h].pc # "idle" /\ host'[h].launch = host[h].launch
        /\ receipt'.launch = receipt.launch
        /\ \/ /\ receipt' = receipt
              /\ \/ host'[h].pc \in {host[h].pc, "gone"}
                 \/ host[h].pc = "started" /\ host'[h].pc = "adopted"
           \/ /\ host[h].pc = "adopted" /\ host'[h].pc = "gone"
              /\ lock = "free" /\ OwnsStart(host[h].launch)
              /\ receipt'.state = "NEEDS_ATTENTION"
           \/ /\ host[h].pc = "watching" /\ host'[h].pc = "watching"
              /\ receipt'.state \in Running
           \/ /\ host[h].pc = "watching" /\ host'[h].pc = "gone"
              /\ \/ receipt'.state = "NEEDS_ATTENTION"
                 \/ /\ child[h] # "running"
                    /\ receipt'.state \in {"CANCELLED", "PAUSED", "WRAPPING_UP"}

\* A host that owns the reservation starts its payload.
SpawnStep(h) ==
  /\ host[h].pc = "adopted" /\ OwnsStart(host[h].launch) /\ lock = "free"
  /\ launches' = launches
  /\ child' = [child EXCEPT ![h] = "running"]
  /\ \A g \in Hosts \ {h} : host'[g] = host[g]
  /\ host'[h].launch = host[h].launch /\ receipt'.launch = receipt.launch
  /\ \/ /\ host'[h].pc = "watching" /\ receipt'.state = "WORKING" /\ lock' = lock
     \/ /\ host'[h].pc = "gone" /\ receipt'.state = "NEEDS_ATTENTION" /\ lock' = lock
     \/ /\ host'[h].pc = "gone" /\ receipt' = receipt /\ lock' = "abandoned"

\* A payload ends.
EndStep(h) ==
  /\ UNCHANGED <<host, receipt, launches, lock>>
  /\ child[h] = "running"
  /\ \E code \in Exited : child' = [child EXCEPT ![h] = code]

\* What Exits does to a host.
LEMMA ExitsOf ==
  ASSUME Typed, NEW h \in Hosts, Exits(h)
  PROVE  /\ host' \in [Hosts -> HostState]
         /\ host'[h].pc = "gone" /\ host'[h].read = None
         /\ host'[h].launch = host[h].launch /\ host'[h].floor = host[h].floor
         /\ \A g \in Hosts \ {h} : host'[g] = host[g]
BY ZenonT(40) DEF Exits, Typed, HostState

\* What Write does to the receipt.
LEMMA WriteOf ==
  ASSUME Typed, NEW state \in States, NEW launch \in Nat, Write(state, launch)
  PROVE  /\ receipt' \in [state: States, launch: Nat, floor: Nat]
         /\ receipt'.state = state /\ receipt'.launch = launch
         /\ receipt'.floor = receipt.floor
         /\ lock = "free"
BY DEF Write, Typed

\* Which states are of a run.
LEMMA StatesOf ==
  /\ Running \subseteq States
  /\ \A s \in {"STANDING_BY", "STARTING", "WAITING", "PAUSED", "CANCELLED",
               "WRAPPING_UP", "DONE", "NEEDS_ATTENTION"} : s \in States /\ s \notin Running
  /\ \A s \in {"WORKING", "PAUSE_REQUESTED", "CANCEL_REQUESTED"} : s \in Running
BY DEF Running, States

-----------------------------------------------------------------------------
(* Each action is of one of the kinds, and keeps the types.                *)

Kinds == Typed' /\ (Command \/ \E h \in Hosts : HostStep(h) \/ SpawnStep(h) \/ EndStep(h))

\* The commands.
LEMMA CommandKinds ==
  ASSUME Typed, Launched,
         \/ Reserve \/ MarkWaiting \/ MarkStandingBy \/ Consume \/ SlowHolder
         \/ \E launch \in Launches : LaunchFails(launch)
         \/ \E action \in {"PAUSE", "CANCEL"} : ControlUnstarted(action) \/ RequestControl(action)
  PROVE  Kinds
<1>1. CASE Reserve
  <2>1. receipt' = [state |-> "STARTING", launch |-> launches + 1,
                    floor |-> IF control = None THEN 0 ELSE control.gen]
    BY <1>1 DEF Reserve
  <2>2. (IF control = None THEN 0 ELSE control.gen) \in Nat
    BY DEF Typed, Request
  <2>3. /\ receipt' \in [state: States, launch: Nat, floor: Nat]
        /\ receipt'.state = "STARTING" /\ receipt'.launch = launches + 1
    BY <2>1, <2>2, StatesOf DEF Typed
  <2>4. Typed'
    BY <1>1, <2>3, NativeAssumption DEF Reserve, Typed
  <2>5. Command
    BY <1>1, <2>3 DEF Reserve, Command
  <2>6. QED
    BY <2>4, <2>5 DEF Kinds
<1>2. ASSUME NEW state \in States, NEW launch \in {0, receipt.launch}, Write(state, launch),
             receipt.state \notin Running \cup {"NEEDS_ATTENTION"},
             state \notin Running \cup {"STARTING"},
             UNCHANGED <<control, lock, host, child, launches, faults>>
      PROVE  Kinds
  <2>1. launch \in Nat
    BY DEF Typed
  <2>2. /\ receipt' \in [state: States, launch: Nat, floor: Nat]
        /\ receipt'.state = state /\ receipt'.launch = launch /\ lock = "free"
    BY <1>2, <2>1, WriteOf
  <2>3. Typed'
    BY <1>2, <2>2 DEF Typed
  <2>4. Command
    BY <1>2, <2>2 DEF Command
  <2>5. QED
    BY <2>3, <2>4 DEF Kinds
<1>3. ASSUME UNCHANGED <<receipt, host, child, launches>>, faults' \in Nat,
             control' \in Request \cup {None}, lock = "abandoned" => lock' = lock
      PROVE  Kinds
  <2>1. Typed'
    BY <1>3 DEF Typed
  <2>2. QED
    BY <1>3, <2>1 DEF Kinds, Command
<1>4. CASE MarkWaiting \/ MarkStandingBy
  BY <1>2, <1>4, StatesOf DEF MarkWaiting, MarkStandingBy
<1>5. CASE Consume
  <2>1. CASE Write("DONE", receipt.launch) /\ UNCHANGED faults
    BY <1>2, <1>5, <2>1, StatesOf DEF Consume
  <2>2. CASE lock = "free" /\ Fail /\ UNCHANGED receipt
    BY <1>3, <1>5, <2>2 DEF Consume, Fail, Typed
  <2>3. QED
    BY <1>5, <2>1, <2>2 DEF Consume
<1>6. CASE SlowHolder
  BY <1>3, <1>6 DEF SlowHolder, Typed
<1>7. ASSUME NEW launch \in Launches, LaunchFails(launch) PROVE Kinds
  BY <1>2, <1>7, StatesOf DEF LaunchFails, OwnsStart
<1>8. ASSUME NEW action \in {"PAUSE", "CANCEL"}, ControlUnstarted(action) PROVE Kinds
  BY <1>2, <1>8, StatesOf DEF ControlUnstarted
<1>9. ASSUME NEW action \in {"PAUSE", "CANCEL"}, RequestControl(action) PROVE Kinds
  <2>1. control' = [gen |-> IF control = None THEN 1 ELSE control.gen + 1,
                    action |-> action, run |-> receipt.launch]
    BY <1>9 DEF RequestControl
  <2>2. (IF control = None THEN 1 ELSE control.gen + 1) \in Nat /\ receipt.launch \in Nat
    BY DEF Typed, Request
  <2>3. control' \in Request
    BY <2>1, <2>2 DEF Request
  <2>4. QED
    BY <1>3, <1>9, <2>3 DEF RequestControl, Typed
<1>10. QED
  BY <1>1, <1>4, <1>5, <1>6, <1>7, <1>8, <1>9

\* The hosts before their payload.
LEMMA EarlyKinds ==
  ASSUME Typed, Launched, NEW h \in Hosts,
         \/ \E launch \in Launches : StartHost(h, launch)
         \/ Adopt(h) \/ PrePayloadFails(h) \/ SpawnNothing(h)
  PROVE  Kinds
<1>1. ASSUME NEW launch \in Launches, StartHost(h, launch) PROVE Kinds
  <2>1. launch \in Nat /\ launch \in 1..launches
    <3>1. launch <= launches /\ launches \in Nat
      BY <1>1 DEF StartHost, Typed
    <3>2. MaxLaunches \in Nat /\ launch \in 1..MaxLaunches
      BY NativeAssumption DEF Launches
    <3>3. QED
      BY <3>1, <3>2
  <2>2. /\ host' \in [Hosts -> HostState]
        /\ host'[h].pc = "started" /\ host'[h].launch = launch
        /\ \A g \in Hosts \ {h} : host'[g] = host[g]
    BY ZenonT(40), <1>1, <2>1 DEF StartHost, Typed, HostState
  <2>3. Typed'
    BY <1>1, <2>2 DEF StartHost, Typed
  <2>4. HostStep(h)
    BY <1>1, <2>1, <2>2 DEF StartHost, HostStep
  <2>5. QED
    BY <2>3, <2>4 DEF Kinds
<1>2. ASSUME host[h].pc \in {"started", "adopted"}, Exits(h),
             UNCHANGED <<receipt, control, lock, child, launches, faults>>
      PROVE  Kinds
  <2>1. Typed'
    BY <1>2, ExitsOf DEF Typed
  <2>2. HostStep(h)
    BY <1>2, ExitsOf DEF HostStep
  <2>3. QED
    BY <2>1, <2>2 DEF Kinds
<1>3. ASSUME host[h].pc = "adopted", Exits(h), OwnsStart(host[h].launch),
             Write("NEEDS_ATTENTION", host[h].launch),
             UNCHANGED <<control, lock, child, launches, faults>>
      PROVE  Kinds
  <2>1. host[h].launch \in Nat /\ host[h].launch = receipt.launch
    BY <1>3 DEF Typed, HostState, OwnsStart
  <2>2. /\ receipt' \in [state: States, launch: Nat, floor: Nat]
        /\ receipt'.state = "NEEDS_ATTENTION" /\ receipt'.launch = receipt.launch
        /\ lock = "free"
    BY <1>3, <2>1, WriteOf, StatesOf
  <2>3. Typed'
    BY <1>3, <2>2, ExitsOf DEF Typed
  <2>4. HostStep(h)
    BY <1>3, <2>2, ExitsOf DEF HostStep
  <2>5. QED
    BY <2>3, <2>4 DEF Kinds
<1>4. CASE Adopt(h)
  <2>1. CASE Exits(h)
    BY <1>2, <1>4, <2>1 DEF Adopt
  <2>2. CASE host' = [host EXCEPT ![h].pc = "adopted", ![h].floor = receipt.floor]
    <3>1. /\ host' \in [Hosts -> HostState]
          /\ host'[h].pc = "adopted" /\ host'[h].launch = host[h].launch
          /\ \A g \in Hosts \ {h} : host'[g] = host[g]
      BY ZenonT(40), <2>2 DEF Typed, HostState
    <3>2. Typed'
      BY <1>4, <3>1 DEF Adopt, Typed
    <3>3. HostStep(h)
      BY <1>4, <3>1 DEF Adopt, HostStep
    <3>4. QED
      BY <3>2, <3>3 DEF Kinds
  <2>3. QED
    BY <1>4, <2>1, <2>2 DEF Adopt
<1>5. CASE PrePayloadFails(h)
  BY <1>2, <1>3, <1>5 DEF PrePayloadFails
<1>6. CASE SpawnNothing(h)
  BY <1>2, <1>3, <1>6 DEF SpawnNothing
<1>7. QED
  BY <1>1, <1>4, <1>5, <1>6

\* The spawns; a second failed write is out of reach.
LEMMA SpawnKinds ==
  ASSUME Typed, Launched, MaxFaults <= 1, NEW h \in Hosts,
         SpawnPayload(h) \/ SpawnUnpersisted(h) \/ CrashSpawning(h)
  PROVE  Kinds
<1>1. /\ host[h].pc = "adopted" /\ OwnsStart(host[h].launch) /\ lock = "free"
      /\ UNCHANGED <<control, launches>>
      /\ child' = [child EXCEPT ![h] = "running"]
  BY DEF SpawnPayload, SpawnUnpersisted, CrashSpawning, Write
<1>2. host[h].launch \in Nat /\ host[h].launch = receipt.launch
  BY <1>1 DEF Typed, HostState, OwnsStart
<1>3. child' \in [Hosts -> {"none", "running"} \cup Exited]
  BY <1>1 DEF Typed
<1>4. CASE SpawnPayload(h)
  <2>1. /\ host' \in [Hosts -> HostState]
        /\ host'[h].pc = "watching" /\ host'[h].launch = host[h].launch
        /\ \A g \in Hosts \ {h} : host'[g] = host[g]
    BY <1>4 DEF SpawnPayload, Typed, HostState
  <2>2. /\ receipt' \in [state: States, launch: Nat, floor: Nat]
        /\ receipt'.state = "WORKING" /\ receipt'.launch = receipt.launch
    BY <1>2, <1>4, WriteOf, StatesOf DEF SpawnPayload
  <2>3. Typed'
    BY <1>1, <1>3, <1>4, <2>1, <2>2 DEF SpawnPayload, Typed
  <2>4. SpawnStep(h)
    BY <1>1, <1>4, <2>1, <2>2 DEF SpawnPayload, SpawnStep
  <2>5. QED
    BY <2>3, <2>4 DEF Kinds
<1>5. ASSUME Exits(h), faults' \in Nat,
             \/ Write("NEEDS_ATTENTION", host[h].launch) /\ lock' = lock
             \/ receipt' = receipt /\ lock' = "abandoned"
      PROVE  Kinds
  <2>1. receipt' \in [state: States, launch: Nat, floor: Nat]
    BY <1>2, <1>5, WriteOf, StatesOf DEF Typed
  <2>2. \/ receipt'.state = "NEEDS_ATTENTION" /\ receipt'.launch = receipt.launch /\ lock' = lock
        \/ receipt' = receipt /\ lock' = "abandoned"
    BY <1>2, <1>5, WriteOf, StatesOf
  <2>3. Typed'
    BY <1>1, <1>3, <1>5, <2>1, ExitsOf DEF Typed
  <2>4. SpawnStep(h)
    BY <1>1, <1>5, <2>2, ExitsOf DEF SpawnStep
  <2>5. QED
    BY <2>3, <2>4 DEF Kinds
<1>6. CASE SpawnUnpersisted(h)
  <2>1. faults \in Nat /\ MaxFaults \in Nat /\ ~(faults + 2 <= MaxFaults)
    BY NativeAssumption DEF Typed
  <2>2. /\ Exits(h) /\ Fail /\ Write("NEEDS_ATTENTION", host[h].launch)
        /\ lock' = lock
    BY <1>6, <2>1 DEF SpawnUnpersisted
  <2>3. QED
    BY <1>5, <2>1, <2>2 DEF Fail
<1>7. CASE CrashSpawning(h)
  BY <1>5, <1>7 DEF CrashSpawning, Typed
<1>8. QED
  BY <1>4, <1>6, <1>7

\* The hosts that watch, and the ends of payloads.
LEMMA WatchKinds ==
  ASSUME Typed, Launched, OneRun, Floored, NEW h \in Hosts,
         \/ Watch(h) \/ SettleUnretired(h) \/ OutcomeLost(h) \/ ChildError(h)
         \/ ChildEnds(h) \/ Crash(h)
  PROVE  Kinds
<1>1. ASSUME host[h].pc \in {"started", "adopted", "watching"}, Exits(h),
             UNCHANGED <<receipt, control, lock, child, launches>>, faults' \in Nat
      PROVE  Kinds
  <2>1. Typed'
    BY <1>1, ExitsOf DEF Typed
  <2>2. HostStep(h)
    BY <1>1, ExitsOf DEF HostStep
  <2>3. QED
    BY <2>1, <2>2 DEF Kinds
<1>2. ASSUME host[h].pc = "watching", Exits(h), NEW state \in States,
             Write(state, host[h].launch),
             \/ state = "NEEDS_ATTENTION"
             \/ child[h] # "running" /\ state \in {"CANCELLED", "PAUSED", "WRAPPING_UP"},
             UNCHANGED <<lock, child, launches>>, faults' \in Nat,
             control' \in Request \cup {None}
      PROVE  Kinds
  <2>1. host[h].launch \in Nat /\ host[h].launch = receipt.launch
    BY <1>2 DEF Typed, HostState, OneRun
  <2>2. /\ receipt' \in [state: States, launch: Nat, floor: Nat]
        /\ receipt'.state = state /\ receipt'.launch = receipt.launch
    BY <1>2, <2>1, WriteOf
  <2>3. Typed'
    BY <1>2, <2>2, ExitsOf DEF Typed
  <2>4. HostStep(h)
    BY <1>2, <2>2, ExitsOf DEF HostStep
  <2>5. QED
    BY <2>3, <2>4 DEF Kinds
<1>3. ASSUME host[h].pc = "watching", host' \in [Hosts -> HostState],
             host'[h].pc = "watching", host'[h].launch = host[h].launch,
             \A g \in Hosts \ {h} : host'[g] = host[g],
             \/ receipt' = receipt
             \/ \E state \in Running : Write(state, host[h].launch),
             UNCHANGED <<control, lock, child, launches, faults>>
      PROVE  Kinds
  <2>1. host[h].launch \in Nat /\ host[h].launch = receipt.launch
    BY <1>3 DEF Typed, HostState, OneRun
  <2>2. /\ receipt' \in [state: States, launch: Nat, floor: Nat]
        /\ receipt'.launch = receipt.launch
        /\ receipt' = receipt \/ receipt'.state \in Running
    <3>1. CASE receipt' = receipt
      BY <3>1 DEF Typed
    <3>2. ASSUME NEW state \in Running, Write(state, host[h].launch)
          PROVE  /\ receipt' \in [state: States, launch: Nat, floor: Nat]
                 /\ receipt'.launch = receipt.launch /\ receipt'.state \in Running
      BY <2>1, <3>2, WriteOf, StatesOf
    <3>3. QED
      BY <1>3, <3>1, <3>2
  <2>3. Typed'
    BY <1>3, <2>2 DEF Typed
  <2>4. HostStep(h)
    BY <1>3, <2>2 DEF HostStep
  <2>5. QED
    BY <2>3, <2>4 DEF Kinds
<1>4. CASE ReadControl(h)
  <2>1. /\ host' \in [Hosts -> HostState]
        /\ host'[h].pc = "watching" /\ host'[h].launch = host[h].launch
        /\ \A g \in Hosts \ {h} : host'[g] = host[g]
    BY <1>4 DEF ReadControl, Typed, HostState
  <2>2. QED
    BY <1>3, <1>4, <2>1 DEF ReadControl
<1>5. CASE RetryControl(h)
  <2>1. host[h].pc = "watching"
    BY <1>5 DEF RetryControl, Floored
  <2>2. /\ host' \in [Hosts -> HostState]
        /\ host'[h].pc = "watching" /\ host'[h].launch = host[h].launch
        /\ \A g \in Hosts \ {h} : host'[g] = host[g]
    BY <1>5, <2>1 DEF RetryControl, Typed, HostState
  <2>3. QED
    BY <1>3, <1>5, <2>1, <2>2 DEF RetryControl
<1>6. CASE Obey(h)
  <2> DEFINE c == host[h].read
  <2>1. c \in Request /\ host[h].pc = "watching"
    BY <1>6 DEF Obey, Floored, Typed, HostState
  <2>2. c.gen \in Nat
    BY <2>1 DEF Request
  <2>a. /\ (host[h].pause \/ c.action = "PAUSE") \in BOOLEAN
        /\ (host[h].cancel \/ c.action = "CANCEL") \in BOOLEAN
    BY Zenon
  <2>3. host' = [host EXCEPT ![h].read = None, ![h].floor = c.gen,
                   ![h].pause = host[h].pause \/ c.action = "PAUSE",
                   ![h].cancel = host[h].cancel \/ c.action = "CANCEL"]
    BY <1>6 DEF Obey
  <2>4. PICK p \in BOOLEAN, q \in BOOLEAN :
          host' = [host EXCEPT ![h].read = None, ![h].floor = c.gen, ![h].pause = p, ![h].cancel = q]
    BY <2>a, <2>3, Zenon
  <2> DEFINE after == [host[h] EXCEPT !.read = None, !.floor = c.gen, !.pause = p, !.cancel = q]
  <2>b. host' = [host EXCEPT ![h] = after]
    BY <2>4, Zenon
  <2>c. host[h] \in HostState
    BY DEF Typed
  <2>d. after \in HostState
    BY <2>2, <2>c DEF HostState
  <2>e. after.pc = host[h].pc /\ after.launch = host[h].launch
    BY <2>c DEF HostState
  <2> HIDE DEF after
  <2>5. /\ host' \in [Hosts -> HostState]
        /\ host'[h].pc = "watching" /\ host'[h].launch = host[h].launch
        /\ \A g \in Hosts \ {h} : host'[g] = host[g]
    BY <2>1, <2>b, <2>d, <2>e DEF Typed
  <2>6. receipt' = receipt \/ \E state \in Running : Write(state, host[h].launch)
    BY <1>6, StatesOf DEF Obey, Requested
  <2>7. QED
    BY <1>3, <1>6, <2>1, <2>5, <2>6 DEF Obey
<1>7. CASE Settle(h) \/ SettleUnretired(h)
  <2>1. /\ host[h].pc = "watching" /\ Exits(h) /\ Write(Outcome(h), host[h].launch)
        /\ child[h] \in Exited
        /\ UNCHANGED <<lock, child, launches>> /\ faults' \in Nat
        /\ control' \in {control, None}
    BY <1>7 DEF Settle, SettleUnretired, Fail, Typed
  <2>2. Outcome(h) \in {"CANCELLED", "PAUSED", "WRAPPING_UP", "NEEDS_ATTENTION"}
    BY DEF Outcome
  <2>3. child[h] # "running" /\ Outcome(h) \in States /\ control' \in Request \cup {None}
    BY <2>1, <2>2, StatesOf DEF Exited, Typed
  <2> HIDE DEF Outcome
  <2>4. QED
    BY <1>2, <2>1, <2>2, <2>3
<1>8. CASE OutcomeLost(h)
  BY <1>1, <1>8 DEF OutcomeLost, Fail, Typed
<1>9. CASE ChildError(h)
  <2>1. control' \in Request \cup {None} /\ faults' \in Nat /\ "NEEDS_ATTENTION" \in States
    BY <1>9, StatesOf DEF ChildError, Typed
  <2>2. QED
    BY <1>2, <1>9, <2>1 DEF ChildError
<1>10. CASE ChildEnds(h)
  <2>1. /\ child' \in [Hosts -> {"none", "running"} \cup Exited]
        /\ EndStep(h)
    BY <1>10 DEF ChildEnds, EndStep, Typed
  <2>2. QED
    BY <1>10, <2>1 DEF ChildEnds, Typed, Kinds
<1>11. CASE Crash(h)
  BY <1>1, <1>11 DEF Crash, Typed
<1>12. QED
  BY <1>4, <1>5, <1>6, <1>7, <1>8, <1>9, <1>10, <1>11 DEF Watch

\* Every step is of one of the kinds.
LEMMA StepKinds ==
  ASSUME NwInv, MaxFaults <= 1, [Next]_nwsVars
  PROVE  Kinds
<1> USE DEF NwInv, RunInv
<1>1. ASSUME NEW h \in Hosts,
             \/ \E launch \in Launches : StartHost(h, launch)
             \/ Adopt(h) \/ PrePayloadFails(h) \/ SpawnNothing(h)
      PROVE  Kinds
  BY <1>1, EarlyKinds
<1>2. ASSUME NEW h \in Hosts, SpawnPayload(h) \/ SpawnUnpersisted(h) \/ CrashSpawning(h)
      PROVE  Kinds
  BY <1>2, SpawnKinds
<1>3. ASSUME NEW h \in Hosts,
             \/ Watch(h) \/ SettleUnretired(h) \/ OutcomeLost(h) \/ ChildError(h)
             \/ ChildEnds(h) \/ Crash(h)
      PROVE  Kinds
  BY <1>3, WatchKinds
<1>4. CASE UNCHANGED nwsVars
  BY <1>4 DEF nwsVars, Kinds, Command, Typed
<1>5. ASSUME \/ Reserve \/ MarkWaiting \/ MarkStandingBy \/ Consume \/ SlowHolder
             \/ \E launch \in Launches : LaunchFails(launch)
             \/ \E action \in {"PAUSE", "CANCEL"} :
                  ControlUnstarted(action) \/ RequestControl(action)
      PROVE  Kinds
  BY <1>5, CommandKinds
<1>6. QED
  BY <1>1, <1>2, <1>3, <1>4, <1>5 DEF Next

-----------------------------------------------------------------------------
(* The kinds keep launches and payloads in order.                          *)

\* No payload is up while the lock is free and the receipt is of no run.
LEMMA NothingUp ==
  ASSUME RunInv, lock = "free", receipt.state \notin Running \cup {"NEEDS_ATTENTION"},
         NEW h \in Hosts
  PROVE  child[h] # "running" /\ host[h].pc # "watching"
BY DEF RunInv, OneRun, Used

\* A command disturbs no payload: it moves the receipt only when none is up.
LEMMA CommandKeeps ==
  ASSUME RunInv, Typed', Command
  PROVE  Launched' /\ OneRun'
<1>1. /\ \A h \in Hosts : host'[h] = host[h] /\ child'[h] = child[h]
      /\ receipt.launch \in Nat /\ launches \in Nat
      /\ \A h \in Hosts : Used(h) => host[h].launch \in 1..launches
  BY DEF Command, RunInv, Typed, Launched, Used
<1>2. CASE /\ lock = "free" /\ receipt.state \in {"STANDING_BY", "PAUSED"}
           /\ launches' = launches + 1
           /\ receipt'.state = "STARTING" /\ receipt'.launch = launches + 1
  <2>1. \A h \in Hosts : child[h] # "running" /\ host[h].pc # "watching"
    BY <1>2, NothingUp, StatesOf
  <2>2. Launched'
    BY <1>1, <1>2 DEF RunInv, Launched
  <2>3. OneRun'
    BY <1>1, <1>2, <2>1 DEF RunInv, OneRun, Used
  <2>4. QED
    BY <2>2, <2>3
<1>3. CASE /\ lock = "free" /\ lock' = lock
           /\ receipt.state \notin Running \cup {"NEEDS_ATTENTION"}
           /\ launches' = launches
           /\ receipt'.state \notin Running \cup {"STARTING"}
           /\ receipt'.launch \in {0, receipt.launch}
  <2>1. \A h \in Hosts : child[h] # "running" /\ host[h].pc # "watching"
    BY <1>3, NothingUp
  <2>2. Launched'
    BY <1>1, <1>3 DEF RunInv, Launched
  <2>3. OneRun'
    BY <1>1, <1>3, <2>1 DEF RunInv, OneRun, Used
  <2>4. QED
    BY <2>2, <2>3
<1>4. CASE /\ receipt' = receipt /\ launches' = launches
           /\ lock = "abandoned" => lock' = lock
  BY <1>1, <1>4 DEF RunInv, Launched, OneRun, Used
<1>5. QED
  BY <1>2, <1>3, <1>4 DEF Command

\* Only the host that watches the current launch moves the receipt of a run.
LEMMA HostKeeps ==
  ASSUME RunInv, Typed', NEW h \in Hosts, HostStep(h)
  PROVE  Launched' /\ OneRun'
<1>1. /\ child' = child /\ launches' = launches /\ lock' = lock
      /\ \A g \in Hosts \ {h} : host'[g] = host[g]
      /\ receipt.launch \in Nat /\ launches \in Nat
  BY DEF HostStep, RunInv, Typed
<1>2. /\ \A g \in Hosts : Used(g) => host'[g].launch = host[g].launch /\ host[g].pc # "idle"
      /\ host'[h].launch \in 1..launches
      /\ receipt'.launch = receipt.launch
  BY <1>1 DEF HostStep, RunInv, Launched, Used
<1>3. /\ host'[h].pc \in {"started", "adopted"} => child[h] = "none"
      /\ host'[h].pc # "idle"
  BY <1>1 DEF HostStep, RunInv, Launched
<1>4. receipt' = receipt \/ receipt'.state \in Running \cup {"NEEDS_ATTENTION", "CANCELLED",
                                                            "PAUSED", "WRAPPING_UP"}
  BY DEF HostStep
<1>5. Launched'
  BY <1>1, <1>2, <1>3, <1>4, StatesOf DEF RunInv, Launched
<1>6. \A g \in Hosts : host'[g].pc = "watching" => host[g].pc = "watching"
  BY <1>1 DEF HostStep
<1>7. ASSUME host[h].pc = "watching", NEW g \in Hosts, Used(g), host[g].launch = receipt.launch
      PROVE  g = h
  BY <1>7 DEF RunInv, OneRun
<1>8. \A g \in Hosts :
        child'[g] = "running" =>
          /\ host'[g].launch = receipt'.launch
          /\ receipt'.state \in Running \cup {"STARTING", "NEEDS_ATTENTION"}
  <2> SUFFICES ASSUME NEW g \in Hosts, child'[g] = "running"
               PROVE  /\ host'[g].launch = receipt'.launch
                      /\ receipt'.state \in Running \cup {"STARTING", "NEEDS_ATTENTION"}
    OBVIOUS
  <2>1. /\ Used(g) /\ child[g] = "running" /\ host[g].launch = receipt.launch
        /\ receipt.state \in Running \cup {"STARTING", "NEEDS_ATTENTION"}
    BY <1>1 DEF RunInv, OneRun, Used
  <2>2. host'[g].launch = receipt'.launch
    BY <1>2, <2>1
  <2>3. host[h].pc = "watching" /\ child[h] # "running" => FALSE
    BY <1>7, <2>1
  <2>4. QED
    BY <2>1, <2>2, <2>3 DEF HostStep
<1>9. \A g \in Hosts :
        host'[g].pc = "watching" =>
          Used(g) /\ host'[g].launch = receipt'.launch /\ receipt'.state \in Running
  <2> SUFFICES ASSUME NEW g \in Hosts, host'[g].pc = "watching"
               PROVE  Used(g) /\ host'[g].launch = receipt'.launch /\ receipt'.state \in Running
    OBVIOUS
  <2>1. /\ host[g].pc = "watching" /\ Used(g) /\ host[g].launch = receipt.launch
        /\ receipt.state \in Running
    BY <1>6 DEF RunInv, OneRun
  <2>2. host'[g].launch = receipt'.launch
    BY <1>2, <2>1
  <2>3. host[h].pc = "watching" => g = h
    BY <1>7, <2>1
  <2>4. ~OwnsStart(host[h].launch)
    BY <2>1, StatesOf DEF OwnsStart
  <2>5. QED
    BY <2>1, <2>2, <2>3, <2>4 DEF HostStep
<1>10. OneRun'
  <2>1. receipt'.state = "STARTING" => receipt' = receipt
    BY <1>4, StatesOf
  <2>2. QED
    BY <1>1, <1>2, <1>8, <1>9, <2>1 DEF RunInv, OneRun, Used
<1>11. QED
  BY <1>5, <1>10

\* The reservation that a spawn takes has no payload yet, and no payload is up.
LEMMA FreshSpawn ==
  ASSUME RunInv, NEW h \in Hosts, SpawnStep(h)
  PROVE  /\ receipt.state = "STARTING" /\ host[h].launch = receipt.launch
         /\ receipt.launch = launches /\ launches \in Nat /\ host[h].launch \in 1..launches
         /\ ~Used(h)
         /\ \A g \in Hosts : Used(g) => host[g].launch \in 1..launches /\ host[g].launch # launches
         /\ \A g \in Hosts : child[g] # "running" /\ host[g].pc # "watching"
<1>1. /\ receipt.state = "STARTING" /\ host[h].launch = receipt.launch
      /\ receipt.launch = launches /\ launches \in Nat
      /\ lock = "free" /\ host[h].pc = "adopted"
  BY DEF SpawnStep, OwnsStart, RunInv, Launched, Typed
<1>2. /\ ~Used(h) /\ host[h].launch \in 1..launches
      /\ \A g \in Hosts : Used(g) => host[g].launch \in 1..launches /\ host[g].launch # launches
  BY <1>1 DEF RunInv, Launched, OneRun, Used
<1>3. \A g \in Hosts : child[g] # "running" /\ host[g].pc # "watching"
  BY <1>1, NothingUp, StatesOf
<1>4. QED
  BY <1>1, <1>2, <1>3

\* The payload that a spawn starts is the first of the newest launch.
LEMMA SpawnKeeps ==
  ASSUME RunInv, Typed', NEW h \in Hosts, SpawnStep(h)
  PROVE  Launched' /\ OneRun'
<1>1. /\ receipt.state = "STARTING" /\ host[h].launch = receipt.launch
      /\ receipt.launch = launches /\ launches \in Nat /\ host[h].launch \in 1..launches
      /\ \A g \in Hosts : Used(g) => host[g].launch \in 1..launches /\ host[g].launch # launches
      /\ \A g \in Hosts : child[g] # "running" /\ host[g].pc # "watching"
  BY FreshSpawn
<1>2. /\ launches' = launches /\ receipt'.launch = receipt.launch
      /\ child'[h] = "running" /\ host'[h].launch = host[h].launch
      /\ \A g \in Hosts \ {h} : child'[g] = child[g] /\ host'[g] = host[g]
      /\ host'[h].pc \in {"watching", "gone"}
  BY DEF SpawnStep, RunInv, Typed
<1>3. Launched'
  BY <1>1, <1>2 DEF RunInv, Launched, SpawnStep
<1>4. \/ receipt'.state = "WORKING"
      \/ receipt'.state = "NEEDS_ATTENTION" /\ host'[h].pc = "gone"
      \/ receipt'.state = "STARTING" /\ lock' = "abandoned" /\ host'[h].pc = "gone"
  BY <1>1 DEF SpawnStep
<1>5. OneRun'
  BY <1>1, <1>2, <1>4, StatesOf DEF RunInv, OneRun, Used
<1>6. QED
  BY <1>3, <1>5

\* The end of a payload leaves its launch used.
LEMMA EndKeeps ==
  ASSUME RunInv, Typed', NEW h \in Hosts, EndStep(h)
  PROVE  Launched' /\ OneRun'
<1>1. PICK code \in Exited : child' = [child EXCEPT ![h] = code]
  BY DEF EndStep
<1>2. /\ UNCHANGED <<host, receipt, launches, lock>>
      /\ \A g \in Hosts : child'[g] # "none" <=> Used(g)
      /\ \A g \in Hosts : child'[g] = "running" => child[g] = "running"
  BY <1>1 DEF EndStep, RunInv, Typed, Used, Exited
<1>3. QED
  BY <1>2 DEF RunInv, Launched, OneRun, Used

\* Every kind of step keeps launches and payloads in order.
LEMMA KindsKeepRuns ==
  ASSUME RunInv, Kinds
  PROVE  RunInv'
BY CommandKeeps, HostKeeps, SpawnKeeps, EndKeeps DEF Kinds, RunInv

-----------------------------------------------------------------------------
(* The control file and what the hosts have read of it.                    *)

Unrun == {"STANDING_BY", "STARTING", "WAITING", "PAUSED", "CANCELLED"}

\* Steps that add no request: the file is kept or removed, and the receipt stays,
\* or is one of no run, or goes on in the same run.
LEMMA RetiredKept ==
  ASSUME Retired, control' \in {control, None}, faults' = 0 => faults = 0,
         \/ receipt' = receipt
         \/ receipt.state \in Unrun
         \/ control' = None
         \/ /\ receipt'.launch = receipt.launch
            /\ receipt'.state \in Running \cup {"WRAPPING_UP", "DONE", "NEEDS_ATTENTION"}
  PROVE  Retired'
BY StatesOf DEF Retired, Unrun

\* Steps in which hosts stay or go and no run goes on under another receipt.
LEMMA FloorsKept ==
  ASSUME Typed, Floored, control' \in {control, None},
         \/ receipt' = receipt
         \/ receipt'.state \notin Running \cup {"STARTING"} /\ receipt'.floor = receipt.floor,
         host' = host \/ \E h \in Hosts : Exits(h)
  PROVE  Floored'
<1>1. /\ \A h \in Hosts : \/ host'[h] = host[h]
                          \/ host'[h].pc = "gone" /\ host'[h].read = None
  BY ExitsOf
<1>2. receipt'.floor = receipt.floor
  OBVIOUS
<1>3. \A h \in Hosts :
        /\ host'[h].pc = "watching" => receipt'.floor <= host'[h].floor
        /\ (host'[h].pc = "adopted" /\ receipt'.state = "STARTING"
              /\ receipt'.launch = host'[h].launch) => receipt'.floor <= host'[h].floor
        /\ host'[h].read # None =>
             /\ host'[h].pc = "watching"
             /\ host'[h].read.run = host'[h].launch
             /\ host'[h].floor < host'[h].read.gen
  BY <1>1, <1>2 DEF Floored, OwnsStart
<1>4. control' # None /\ control'.gen > receipt'.floor
        /\ receipt'.state \in Running \cup {"STARTING"} => control'.run = receipt'.launch
  BY <1>2 DEF Floored
<1>5. QED
  BY <1>3, <1>4 DEF Floored, OwnsStart

\* Writes of a state that is of no run.
LEMMA WriteKept ==
  ASSUME NwInv, NEW state \in States, NEW launch \in Nat, Write(state, launch),
         state \notin Running \cup {"STARTING"},
         host' = host \/ \E h \in Hosts : Exits(h),
         control' \in {control, None}, faults' = 0 => faults = 0,
         \/ receipt.state \in Unrun
         \/ control' = None
         \/ launch = receipt.launch /\ state \in {"WRAPPING_UP", "DONE", "NEEDS_ATTENTION"}
         \/ faults' # 0
  PROVE  Floored' /\ Retired'
<1> USE DEF NwInv, RunInv
<1>1. /\ receipt'.state = state /\ receipt'.launch = launch /\ receipt'.floor = receipt.floor
  BY WriteOf
<1>2. Floored'
  BY <1>1, FloorsKept
<1>3. CASE faults' # 0
  BY <1>2, <1>3 DEF Retired
<1>4. CASE faults' = 0
  BY <1>1, <1>2, <1>4, RetiredKept
<1>5. QED
  BY <1>3, <1>4

\* Steps that leave the receipt and the file alone.
LEMMA StillKept ==
  ASSUME NwInv, receipt' = receipt, control' = control, faults' = 0 => faults = 0,
         host' = host \/ \E h \in Hosts : Exits(h)
  PROVE  Floored' /\ Retired'
<1>1. Typed /\ Floored /\ Retired
  BY DEF NwInv, RunInv
<1>2. QED
  BY <1>1, FloorsKept, RetiredKept

\* A failed file operation is counted.
LEMMA FaultsGrow == ASSUME Typed, Fail PROVE faults' \in Nat /\ faults' # 0
BY DEF Typed, Fail

\* Commands: a reservation raises the floor over every request there is.
LEMMA CommandControl ==
  ASSUME NwInv,
         \/ Reserve \/ MarkWaiting \/ MarkStandingBy \/ Consume \/ SlowHolder
         \/ \E launch \in Launches : LaunchFails(launch)
         \/ \E action \in {"PAUSE", "CANCEL"} : ControlUnstarted(action) \/ RequestControl(action)
  PROVE  Floored' /\ Retired'
<1> USE DEF NwInv, RunInv
<1>1. receipt.launch \in Nat /\ 0 \in Nat
  BY DEF Typed
<1>2. CASE Reserve
  <2>1. /\ receipt' = [state |-> "STARTING", launch |-> launches + 1,
                       floor |-> IF control = None THEN 0 ELSE control.gen]
        /\ control' = control /\ host' = host /\ faults' = faults
        /\ receipt.state \in Unrun
    BY <1>2 DEF Reserve, Unrun
  <2>2. Retired'
    BY <2>1, RetiredKept
  <2>3. /\ control # None => ~(control.gen > receipt'.floor)
        /\ receipt'.launch = launches + 1 /\ launches \in Nat
    BY <2>1 DEF Typed, Request
  <2>4. \A h \in Hosts : /\ host[h].pc # "watching"
                         /\ host[h].pc = "adopted" => host[h].launch # receipt'.launch
    BY <2>1, <2>3, StatesOf DEF Unrun, OneRun, Launched, Reserve
  <2>5. Floored'
    BY <2>1, <2>3, <2>4 DEF Floored, OwnsStart
  <2>6. QED
    BY <2>2, <2>5
<1>3. CASE MarkWaiting \/ MarkStandingBy
  BY <1>1, <1>3, WriteKept, StatesOf DEF MarkWaiting, MarkStandingBy, Unrun
<1>4. CASE Consume
  <2>1. CASE Write("DONE", receipt.launch) /\ UNCHANGED faults
    BY <1>1, <1>4, <2>1, WriteKept, StatesOf DEF Consume
  <2>2. CASE Fail /\ UNCHANGED receipt
    BY <1>4, <2>2, StillKept, FaultsGrow DEF Consume
  <2>3. QED
    BY <1>4, <2>1, <2>2 DEF Consume
<1>5. CASE SlowHolder
  BY <1>5, StillKept DEF SlowHolder
<1>6. ASSUME NEW launch \in Launches, LaunchFails(launch) PROVE Floored' /\ Retired'
  BY <1>1, <1>6, WriteKept, StatesOf DEF LaunchFails, OwnsStart, Unrun
<1>7. ASSUME NEW action \in {"PAUSE", "CANCEL"}, ControlUnstarted(action)
      PROVE  Floored' /\ Retired'
  BY <1>1, <1>7, WriteKept, StatesOf DEF ControlUnstarted, Unrun
<1>8. ASSUME NEW action \in {"PAUSE", "CANCEL"}, RequestControl(action)
      PROVE  Floored' /\ Retired'
  <2>1. /\ control'.run = receipt.launch
        /\ receipt.state \in Running
        /\ receipt' = receipt /\ host' = host
    BY <1>8, StatesOf DEF RequestControl
  <2>2. QED
    BY <2>1 DEF Floored, Retired, OwnsStart
<1>9. QED
  BY <1>2, <1>3, <1>4, <1>5, <1>6, <1>7, <1>8

\* Hosts before and at the spawn take the floor of their reservation along.
LEMMA EarlyControl ==
  ASSUME NwInv, MaxFaults <= 1, NEW h \in Hosts,
         \/ \E launch \in Launches : StartHost(h, launch)
         \/ Adopt(h) \/ PrePayloadFails(h) \/ SpawnNothing(h)
         \/ SpawnPayload(h) \/ SpawnUnpersisted(h) \/ CrashSpawning(h)
  PROVE  Floored' /\ Retired'
<1> USE DEF NwInv, RunInv
<1>1. host[h].launch \in Nat /\ host[h].floor \in Nat /\ receipt.floor \in Nat
  BY DEF Typed, HostState
<1>2. ASSUME NEW launch \in Launches, StartHost(h, launch) PROVE Floored' /\ Retired'
  <2>1. /\ host'[h].pc = "started" /\ host'[h].read = host[h].read
        /\ \A g \in Hosts \ {h} : host'[g] = host[g]
        /\ host[h].read = None
        /\ receipt' = receipt /\ control' = control /\ faults' = faults
    BY <1>2 DEF StartHost, Typed, HostState, Floored
  <2>2. QED
    BY <2>1, RetiredKept DEF Floored, OwnsStart
<1>3. ASSUME Exits(h), OwnsStart(host[h].launch), Write("NEEDS_ATTENTION", host[h].launch),
             control' = control, faults' = 0 => faults = 0
      PROVE  Floored' /\ Retired'
  BY <1>1, <1>3, WriteKept, StatesOf DEF OwnsStart, Unrun
<1>4. ASSUME Exits(h), receipt' = receipt, control' = control, faults' = 0 => faults = 0
      PROVE  Floored' /\ Retired'
  BY <1>4, StillKept
<1>5. CASE Adopt(h)
  <2>1. CASE Exits(h)
    BY <1>4, <1>5, <2>1 DEF Adopt
  <2>2. CASE host' = [host EXCEPT ![h].pc = "adopted", ![h].floor = receipt.floor]
    <3>1. /\ host'[h].pc = "adopted" /\ host'[h].read = host[h].read
          /\ host'[h].floor = receipt.floor
          /\ \A g \in Hosts \ {h} : host'[g] = host[g]
          /\ host[h].read = None
          /\ receipt' = receipt /\ control' = control /\ faults' = faults
      BY <1>5, <2>2 DEF Adopt, Typed, HostState, Floored
    <3>2. QED
      BY <1>1, <3>1, RetiredKept DEF Floored, OwnsStart
  <2>3. QED
    BY <1>5, <2>1, <2>2 DEF Adopt
<1>6. CASE PrePayloadFails(h)
  BY <1>3, <1>4, <1>6 DEF PrePayloadFails
<1>7. CASE SpawnNothing(h)
  BY <1>3, <1>4, <1>7 DEF SpawnNothing
<1>8. CASE SpawnPayload(h)
  <2>1. /\ host'[h].pc = "watching" /\ host'[h].read = host[h].read
        /\ host'[h].floor = host[h].floor
        /\ \A g \in Hosts \ {h} : host'[g] = host[g]
        /\ host[h].read = None
        /\ control' = control /\ faults' = faults
        /\ host[h].pc = "adopted" /\ OwnsStart(host[h].launch)
    BY <1>8 DEF SpawnPayload, Typed, HostState, Floored
  <2>2. /\ receipt'.state = "WORKING" /\ receipt'.launch = receipt.launch
        /\ receipt'.floor = receipt.floor
        /\ receipt.state = "STARTING"
    BY <1>1, <1>8, <2>1, WriteOf, StatesOf DEF SpawnPayload, OwnsStart
  <2>3. Retired'
    BY <2>1, <2>2, RetiredKept DEF Unrun
  <2>4. Floored'
    BY <2>1, <2>2 DEF Floored, OwnsStart
  <2>5. QED
    BY <2>3, <2>4
<1>9. CASE SpawnUnpersisted(h)
  <2>1. faults \in Nat /\ MaxFaults \in Nat /\ ~(faults + 2 <= MaxFaults)
    BY NativeAssumption DEF Typed
  <2>2. /\ Exits(h) /\ Fail /\ Write("NEEDS_ATTENTION", host[h].launch)
        /\ OwnsStart(host[h].launch) /\ control' = control
    BY <1>9, <2>1 DEF SpawnUnpersisted
  <2>3. QED
    BY <1>3, <2>2, FaultsGrow
<1>10. CASE CrashSpawning(h)
  BY <1>4, <1>10 DEF CrashSpawning
<1>11. QED
  BY <1>2, <1>5, <1>6, <1>7, <1>8, <1>9, <1>10

\* Hosts that watch read what is above their floor, and that is of their own run.
LEMMA WatchControl ==
  ASSUME NwInv, NEW h \in Hosts,
         \/ Watch(h) \/ SettleUnretired(h) \/ OutcomeLost(h) \/ ChildError(h)
         \/ ChildEnds(h) \/ Crash(h)
  PROVE  Floored' /\ Retired'
<1> USE DEF NwInv, RunInv
<1>1. /\ host[h].launch \in Nat /\ host[h].floor \in Nat /\ receipt.floor \in Nat
      /\ host[h].pc = "watching" => /\ host[h].launch = receipt.launch
                                    /\ receipt.state \in Running
                                    /\ receipt.floor <= host[h].floor
  BY DEF Typed, HostState, OneRun, Floored
<1>2. ASSUME Exits(h), receipt' = receipt, control' = control, faults' = 0 => faults = 0
      PROVE  Floored' /\ Retired'
  BY <1>2, StillKept
<1>3. ASSUME host[h].pc = "watching", Exits(h), NEW state \in States,
             Write(state, host[h].launch), state \notin Running \cup {"STARTING"},
             control' \in {control, None}, faults' = 0 => faults = 0,
             \/ control' = None \/ faults' # 0
             \/ state \in {"WRAPPING_UP", "DONE", "NEEDS_ATTENTION"}
      PROVE  Floored' /\ Retired'
  BY <1>1, <1>3, WriteKept
<1>4. CASE ReadControl(h)
  <2>1. /\ host'[h].pc = "watching" /\ host'[h].read = control
        /\ host'[h].launch = host[h].launch /\ host'[h].floor = host[h].floor
        /\ \A g \in Hosts \ {h} : host'[g] = host[g]
        /\ receipt' = receipt /\ control' = control /\ faults' = faults
        /\ host[h].pc = "watching" /\ control # None /\ control.gen > host[h].floor
    BY <1>4 DEF ReadControl, Unseen, Typed, HostState
  <2>2. control.gen \in Nat
    BY <2>1 DEF Typed, Request
  <2>3. control.gen > receipt.floor
    BY <1>1, <2>1, <2>2
  <2>4. control.run = host[h].launch
    BY <1>1, <2>1, <2>3 DEF Floored
  <2>5. Retired'
    BY <2>1, RetiredKept
  <2>6. Floored'
    BY <2>1, <2>2, <2>4 DEF Floored, OwnsStart
  <2>7. QED
    BY <2>5, <2>6
<1>5. CASE RetryControl(h)
  <2>1. /\ host'[h].pc = host[h].pc /\ host'[h].read = None
        /\ host'[h].launch = host[h].launch /\ host'[h].floor = host[h].floor
        /\ \A g \in Hosts \ {h} : host'[g] = host[g]
        /\ receipt' = receipt /\ control' = control /\ faults' = faults
    BY <1>5 DEF RetryControl, Typed, HostState
  <2>2. Retired'
    BY <2>1, RetiredKept
  <2>3. Floored'
    BY <2>1 DEF Floored, OwnsStart
  <2>4. QED
    BY <2>2, <2>3
<1>6. CASE Obey(h)
  <2> DEFINE c == host[h].read
  <2>1. /\ c \in Request /\ host[h].pc = "watching" /\ host[h].floor < c.gen
        /\ control' = control /\ faults' = faults
    BY <1>6 DEF Obey, Floored, Typed, HostState
  <2>2. c.gen \in Nat
    BY <2>1 DEF Request
  <2>3. /\ \A g \in Hosts \ {h} : host'[g] = host[g]
        /\ host'[h] = [host[h] EXCEPT !.read = None, !.floor = c.gen,
                         !.pause = host[h].pause \/ c.action = "PAUSE",
                         !.cancel = host[h].cancel \/ c.action = "CANCEL"]
    <3>1. host' = [host EXCEPT ![h] = [host[h] EXCEPT !.read = None, !.floor = c.gen,
                         !.pause = host[h].pause \/ c.action = "PAUSE",
                         !.cancel = host[h].cancel \/ c.action = "CANCEL"]]
      BY <1>6, Zenon DEF Obey
    <3> DEFINE after == [host[h] EXCEPT !.read = None, !.floor = c.gen,
                         !.pause = host[h].pause \/ c.action = "PAUSE",
                         !.cancel = host[h].cancel \/ c.action = "CANCEL"]
    <3>2. host' = [host EXCEPT ![h] = after] /\ host \in [Hosts -> HostState]
      BY <3>1, Zenon DEF Typed
    <3> HIDE DEF after
    <3>3. host'[h] = after /\ \A g \in Hosts \ {h} : host'[g] = host[g]
      BY <3>2
    <3>4. QED
      BY <3>3, Zenon DEF after
  <2>4. /\ host'[h].pc = "watching" /\ host'[h].read = None
        /\ host'[h].floor = c.gen /\ host'[h].launch = host[h].launch
    <3>1. /\ (host[h].pause \/ c.action = "PAUSE") \in BOOLEAN
          /\ (host[h].cancel \/ c.action = "CANCEL") \in BOOLEAN
      BY Zenon
    <3>2. PICK p \in BOOLEAN, q \in BOOLEAN :
            host'[h] = [host[h] EXCEPT !.read = None, !.floor = c.gen, !.pause = p, !.cancel = q]
      BY <2>3, <3>1, Zenon
    <3>3. host[h] \in HostState
      BY DEF Typed
    <3>4. QED
      BY <2>1, <3>2, <3>3 DEF HostState
  <2>5. /\ receipt'.state \in Running /\ receipt'.launch = receipt.launch
        /\ receipt'.floor = receipt.floor
    <3>1. CASE receipt' = receipt
      BY <1>1, <2>1, <3>1
    <3>2. CASE Write(Requested(c), host[h].launch)
      <4>1. Requested(c) \in Running
        BY StatesOf DEF Requested
      <4>2. QED
        BY <1>1, <2>1, <3>2, <4>1, WriteOf, StatesOf
    <3>3. QED
      BY <1>6, <3>1, <3>2 DEF Obey
  <2>6. Retired'
    BY <2>1, <2>5, RetiredKept
  <2>7. receipt.state \in Running /\ receipt.floor <= c.gen
    BY <1>1, <2>1, <2>2
  <2>8. receipt'.state # "STARTING"
    BY <2>5, StatesOf
  <2> HIDE DEF c
  <2>9. Floored'
    BY ZenonT(40), <2>1, <2>3, <2>4, <2>5, <2>7, <2>8 DEF Floored, OwnsStart
  <2>10. QED
    BY <2>6, <2>9
<1>7. CASE Settle(h) \/ SettleUnretired(h)
  <2>1. /\ host[h].pc = "watching" /\ Exits(h) /\ Write(Outcome(h), host[h].launch)
        /\ \/ Outcome(h) \in {"PAUSED", "CANCELLED"} => control' = None
           \/ faults' # 0
        /\ control' \in {control, None}
        /\ faults' = 0 => faults = 0
    BY <1>7, FaultsGrow DEF Settle, SettleUnretired
  <2>2. /\ Outcome(h) \in {"CANCELLED", "PAUSED", "WRAPPING_UP", "NEEDS_ATTENTION"}
        /\ Outcome(h) \in States /\ Outcome(h) \notin Running \cup {"STARTING"}
    <3>1. Outcome(h) \in {"CANCELLED", "PAUSED", "WRAPPING_UP", "NEEDS_ATTENTION"}
      BY DEF Outcome
    <3>2. QED
      BY <3>1, StatesOf
  <2> HIDE DEF Outcome
  <2>3. QED
    BY <1>3, <2>1, <2>2
<1>8. CASE OutcomeLost(h)
  BY <1>2, <1>8, FaultsGrow DEF OutcomeLost
<1>9. CASE ChildError(h)
  BY <1>3, <1>9, StatesOf DEF ChildError
<1>10. CASE ChildEnds(h)
  BY <1>10, StillKept DEF ChildEnds
<1>11. CASE Crash(h)
  BY <1>2, <1>11 DEF Crash
<1>12. QED
  BY <1>4, <1>5, <1>6, <1>7, <1>8, <1>9, <1>10, <1>11 DEF Watch

-----------------------------------------------------------------------------
(* The invariant, for at most one failed file operation.                   *)

\* The worker starts at rest, without a control file.
LEMMA InitNw == Init => NwInv
<1> SUFFICES ASSUME Init PROVE NwInv
  OBVIOUS
<1>1. Typed
  BY NativeAssumption, StatesOf DEF Init, Typed, IdleHost, HostState
<1>2. Launched /\ OneRun
  BY StatesOf DEF Init, Launched, OneRun, Used, IdleHost
<1>3. Floored /\ Retired
  BY DEF Init, Floored, Retired, OwnsStart, IdleHost
<1>4. QED
  BY <1>1, <1>2, <1>3 DEF NwInv, RunInv

\* No step breaks the invariant while one file operation fails at most.
LEMMA StepNw == ASSUME MaxFaults <= 1, NwInv, [Next]_nwsVars PROVE NwInv'
<1>1. RunInv'
  BY StepKinds, KindsKeepRuns DEF NwInv
<1>2. ASSUME UNCHANGED nwsVars PROVE Floored' /\ Retired'
  BY <1>2, StillKept DEF nwsVars
<1>3. ASSUME \/ Reserve \/ MarkWaiting \/ MarkStandingBy \/ Consume \/ SlowHolder
             \/ \E launch \in Launches : LaunchFails(launch)
             \/ \E action \in {"PAUSE", "CANCEL"} :
                  ControlUnstarted(action) \/ RequestControl(action)
      PROVE  Floored' /\ Retired'
  BY <1>3, CommandControl
<1>4. ASSUME NEW h \in Hosts,
             \/ \E launch \in Launches : StartHost(h, launch)
             \/ Adopt(h) \/ PrePayloadFails(h) \/ SpawnNothing(h)
             \/ SpawnPayload(h) \/ SpawnUnpersisted(h) \/ CrashSpawning(h)
      PROVE  Floored' /\ Retired'
  BY <1>4, EarlyControl
<1>5. ASSUME NEW h \in Hosts,
             \/ Watch(h) \/ SettleUnretired(h) \/ OutcomeLost(h) \/ ChildError(h)
             \/ ChildEnds(h) \/ Crash(h)
      PROVE  Floored' /\ Retired'
  BY <1>5, WatchControl
<1>6. Floored' /\ Retired'
  BY <1>2, <1>3, <1>4, <1>5 DEF Next
<1>7. QED
  BY <1>1, <1>6 DEF NwInv

\* Launches, payloads and requests stay in order whatever processes race or die.
THEOREM NativeInvariant == ASSUME MaxFaults <= 1 PROVE Spec => []NwInv
<1>1. Init => NwInv
  BY InitNw
<1>2. NwInv /\ [Next]_nwsVars => NwInv'
  BY StepNw
<1>3. QED
  BY <1>1, <1>2, PTL DEF Spec

-----------------------------------------------------------------------------
(* What follows from it.                                                   *)

\* A receipt that says the worker is at rest is true.
THEOREM AtRestNothingRuns == ASSUME MaxFaults <= 1 PROVE Spec => []RestIsTrue
<1>1. NwInv => RestIsTrue
  BY DEF NwInv, RunInv, OneRun, RestIsTrue, Live
<1>2. QED
  BY <1>1, NativeInvariant, PTL

\* A host never obeys a request that was made of another run.
THEOREM ControlsStayWithTheirRun == ASSUME MaxFaults <= 1 PROVE Spec => []OwnControlsOnly
<1>1. NwInv => OwnControlsOnly
  BY DEF NwInv, Floored, OwnControlsOnly
<1>2. QED
  BY <1>1, NativeInvariant, PTL

\* A payload that is up finds no request of an earlier run.
THEOREM NoStaleRequest == ASSUME MaxFaults <= 1 PROVE Spec => []StartsUncontrolled
<1>1. NwInv => StartsUncontrolled
  BY DEF NwInv, RunInv, OneRun, Retired, StartsUncontrolled
<1>2. QED
  BY <1>1, NativeInvariant, PTL

-----------------------------------------------------------------------------
(* The payloads use one slot.                                              *)

Owner == IF Live = {} THEN 0 ELSE host[CHOOSE h \in Live : TRUE].launch
Served == {host[h].launch : h \in {g \in Hosts : child[g] # "none"}}

\* The owner of the slot is the launch of the payload that is up.
LEMMA OwnerIs == RunInv => \A h \in Live : Owner = host[h].launch
<1> SUFFICES ASSUME RunInv, NEW h \in Live PROVE Owner = host[h].launch
  OBVIOUS
<1>1. (CHOOSE g \in Live : TRUE) \in Live
  OBVIOUS
<1>2. \A g \in Live : host[g].launch = receipt.launch
  BY DEF RunInv, OneRun, Live
<1>3. QED
  BY <1>1, <1>2 DEF Owner

\* No launch has used the slot at first.
LEMMA SlotInit == Init => Slot!Init
<1> SUFFICES ASSUME Init PROVE Slot!Init
  OBVIOUS
<1>1. \A h \in Hosts : child[h] = "none"
  BY DEF Init
<1>2. Live = {} /\ Served = {}
  BY <1>1 DEF Live, Served
<1>3. QED
  BY <1>2 DEF Slot!Init, Served

\* A spawn takes the slot, the end of a payload gives it up, and every other step
\* stutters.
LEMMA SlotStep ==
  ASSUME RunInv, Kinds
  PROVE  [Slot!Next]_(Slot!slotVars)
<1>1. ASSUME child' = child, \A h \in Hosts : Used(h) => host'[h].launch = host[h].launch
      PROVE  UNCHANGED <<Owner, Served>>
  <2>1. Live' = Live
    BY <1>1 DEF Live
  <2>2. \A h \in Live : host'[h].launch = host[h].launch
    BY <1>1 DEF Live, Used
  <2>3. Owner' = Owner
    <3>1. CASE Live = {}
      BY <2>1, <3>1 DEF Owner
    <3>2. CASE Live # {}
      <4> DEFINE h == CHOOSE g \in Live : TRUE
      <4>1. h \in Live
        BY <3>2
      <4>2. Owner = host[h].launch /\ Owner' = host'[h].launch
        BY <2>1, <3>2 DEF Owner
      <4>3. QED
        BY <2>2, <4>1, <4>2
    <3>3. QED
      BY <3>1, <3>2
  <2>4. Served' = Served
    BY <1>1 DEF Served, Used
  <2>5. QED
    BY <2>3, <2>4
<1>2. UNCHANGED <<Owner, Served>> => UNCHANGED Slot!slotVars
  BY DEF Owner, Served, Slot!slotVars
<1>3. CASE Command
  <2>1. child' = child /\ \A h \in Hosts : host'[h].launch = host[h].launch
    BY <1>3 DEF Command
  <2>2. QED
    BY <1>1, <1>2, <2>1
<1>4. ASSUME NEW h \in Hosts, HostStep(h) PROVE UNCHANGED Slot!slotVars
  <2>1. child' = child /\ \A g \in Hosts : Used(g) => host'[g].launch = host[g].launch
    BY <1>4 DEF HostStep, RunInv, Launched, Used
  <2>2. QED
    BY <1>1, <1>2, <2>1
<1>5. ASSUME NEW h \in Hosts, SpawnStep(h) PROVE \E n \in Launches : Slot!Take(n)
  <2>1. /\ host[h].launch = launches /\ launches \in Nat /\ launches \in 1..launches
        /\ \A g \in Hosts : Used(g) => host[g].launch \in 1..launches /\ host[g].launch # launches
        /\ \A g \in Hosts : child[g] # "running"
    BY <1>5, FreshSpawn
  <2>2. /\ host'[h].launch = host[h].launch
        /\ child'[h] = "running" /\ h \in Live'
        /\ \A g \in Hosts \ {h} : child'[g] = child[g] /\ host'[g] = host[g]
    BY <1>5 DEF SpawnStep, RunInv, Typed, Live
  <2>3. Live = {} /\ Owner = 0
    BY <2>1 DEF Live, Owner
  <2>4. Owner' = launches
    <3>1. Live' = {h}
      BY <2>1, <2>2 DEF Live
    <3>2. Owner' = host'[h].launch
      BY <3>1 DEF Owner
    <3>3. QED
      BY <2>1, <2>2, <3>2
  <2>5. \A g \in Served : g < launches
    BY <2>1 DEF Served, Used
  <2>6. Served' = Served \cup {launches}
    BY <2>1, <2>2 DEF Served, Used
  <2>7. PICK n \in Launches : n = launches
    BY <2>1, NativeAssumption DEF RunInv, Typed, Launches
  <2>8. Slot!Take(n)
    BY <2>3, <2>4, <2>5, <2>6, <2>7 DEF Slot!Take, Owner, Served
  <2>9. QED
    BY <2>8
<1>6. ASSUME NEW h \in Hosts, EndStep(h) PROVE Slot!GiveUp
  <2>1. PICK code \in Exited : child' = [child EXCEPT ![h] = code]
    BY <1>6 DEF EndStep
  <2>2. /\ host' = host /\ child[h] = "running" /\ h \in Live
        /\ code # "none" /\ code # "running"
        /\ child'[h] = code /\ \A g \in Hosts \ {h} : child'[g] = child[g]
    BY <1>6, <2>1 DEF EndStep, Exited, RunInv, Typed, Live
  <2>3. \A g \in Live : g = h
    BY <2>2 DEF Live, RunInv, OneRun, Used
  <2>4. Live' = {} /\ Owner' = 0
    BY <2>2, <2>3 DEF Live, Owner
  <2>5. Owner = host[h].launch /\ host[h].launch \in 1..launches /\ launches \in Nat
    <3>1. Owner = host[h].launch
      BY <2>2, OwnerIs
    <3>2. host[h].pc # "idle"
      BY <2>2 DEF RunInv, Launched
    <3>3. QED
      BY <3>1, <3>2 DEF RunInv, Launched, Typed
  <2>6. Served' = Served
    BY <2>2 DEF Served
  <2>7. Owner # 0
    BY <2>5
  <2>8. QED
    BY <2>4, <2>6, <2>7 DEF Slot!GiveUp, Owner, Served
<1>7. QED
  <2>1. ASSUME NEW h \in Hosts, HostStep(h) \/ SpawnStep(h) \/ EndStep(h)
        PROVE  [Slot!Next]_(Slot!slotVars)
    <3>1. CASE HostStep(h)
      BY <1>4, <3>1
    <3>2. CASE SpawnStep(h)
      BY <1>5, <3>2 DEF Slot!Next
    <3>3. CASE EndStep(h)
      BY <1>6, <3>3 DEF Slot!Next
    <3>4. QED
      BY <2>1, <3>1, <3>2, <3>3
  <2>2. QED
    BY <1>3, <2>1 DEF Kinds

\* One payload at a time, and no launch has two.
THEOREM OnePayloadAlways == ASSUME MaxFaults <= 1 PROVE Spec => OnePayload
<1>1. Init => Slot!Init
  BY SlotInit
<1>2. NwInv /\ [Next]_nwsVars => [Slot!Next]_(Slot!slotVars)
  BY SlotStep, StepKinds DEF NwInv
<1>3. QED
  BY <1>1, <1>2, NativeInvariant, PTL DEF Spec, OnePayload, Slot!Spec
=============================================================================
