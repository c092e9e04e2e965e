------------------------ MODULE ConversationStoreProofs ------------------------
(***************************************************************************)
(* The conversation store for any number of processes, messages, meanings, *)
(* crashes and failed writes, with at most one operator who recovers an    *)
(* abandoned writer.  With two of them the second may remove the lock of a *)
(* writer that came after the first, and what is proved here is false.     *)
(*                                                                         *)
(* First the lock, then the lineage as each step leaves it, then the walk  *)
(* along it from the head, and last that the store implements ChannelLog.  *)
(***************************************************************************)
EXTENDS ConversationStore, Sequences, SequenceTheorems, WellFoundedInduction, TLAPS

OneOperator == \A r, s \in Recoverers : r = s

\* A writer works under its own lock.
OwnLock == \A p \in Writing : lock = p

\* Between an operator's look at the lock file and its removal the file stays
\* that of a process that stopped: only the operator could remove it.
StillAbandoned ==
  \A r \in Processes :
    proc[r].at = "unlink" =>
      r \in Recoverers /\ lock \in Processes /\ Gone(lock)

\* What a process works on fits the place it is at.
Fitting ==
  \A p \in Processes :
    /\ proc[p].at \in {"event", "head"} => proc[p].what \in Messages
    /\ proc[p].at = "channel" => proc[p].what \in Meanings
    /\ proc[p].at \notin {"idle", "unlink", "stopped"} => proc[p].what # NoOne

LockInv == TypeOK /\ Fitting /\ OwnLock /\ StillAbandoned

ProcState ==
  [at : {"idle", "acquire", "read", "event", "channel", "head",
         "release", "unlink", "stopped"},
   what : Messages \cup Meanings \cup {NoOne}, sequence : Numbers,
   prior : Messages \cup {NoOne}, failed : BOOLEAN]

\* There is a first sequence number.
LEMMA Zero == 0 \in Numbers
  BY StoreAssumption DEF Numbers

\* Faults stay within their bound.
LEMMA Counted ==
  ASSUME faults \in 0..MaxFaults, Faulty PROVE faults' \in 0..MaxFaults
  BY StoreAssumption DEF Faulty

USE StoreAssumption, Zero DEF Gone

-----------------------------------------------------------------------------
(* The lock                                                                *)

\* A request that fails inside the lock still has its lock to release.
LEMMA GivingUp ==
  ASSUME LockInv, NEW p \in Processes, GiveUp(p),
         proc[p].at \in {"read", "event", "channel", "head"}
  PROVE  proc' \in [Processes -> ProcState] /\ Fitting'
  <1> USE DEF LockInv, TypeOK
  <1>1. proc' = [proc EXCEPT ![p] = [proc[p] EXCEPT !.at = "release", !.failed = TRUE]]
    BY DEF GiveUp
  <1>2. proc' \in [Processes -> ProcState]
    <2>1. proc \in [Processes -> ProcState] BY DEF ProcState
    <2>2. proc[p] \in ProcState BY <2>1
    <2>3. [proc[p] EXCEPT !.at = "release", !.failed = TRUE] \in ProcState
      BY <2>2 DEF ProcState
    <2> HIDE DEF LockInv, TypeOK
    <2> QED BY <1>1, <2>1, <2>3
  <1>3. Fitting' BY <1>1 DEF Fitting
  <1> QED BY <1>2, <1>3

\* Nobody writes at first.
LEMMA InitLock == Init => LockInv
  BY DEF Init, LockInv, TypeOK, Fitting, OwnLock, StillAbandoned, Writing, Idle,
         Absent

\* Every step keeps the types, and gives a process work that fits its place.
LEMMA StepTyped ==
  ASSUME LockInv, NEW p \in Processes, Step(p)
  PROVE  TypeOK' /\ Fitting'
  <1> USE DEF LockInv, TypeOK, Fitting, Idle, Goto, GiveUp, Start
  <1>1. ASSUME NEW m \in Messages, NEW n \in Numbers, AppendAt(p, m, n) PROVE TypeOK' /\ Fitting'
    BY <1>1 DEF AppendAt
  <1>2. ASSUME NEW m \in Messages, Send(p, m) PROVE TypeOK' /\ Fitting'
    <2>1. CASE UNCHANGED proc BY <1>2, <2>1 DEF Send
    <2>2. CASE Start(p, m, NextSequence) /\ NextSequence \in Numbers /\ UNCHANGED answered
      BY <1>2, <2>2 DEF Send
    <2> QED BY <1>2, <2>1, <2>2 DEF Send
  <1>3. ASSUME NEW c \in Meanings, Materialize(p, c) PROVE TypeOK' /\ Fitting'
    BY <1>3 DEF Materialize
  <1>4. CASE Acquire(p) BY <1>4 DEF Acquire
  <1>5. CASE Refuse(p) BY <1>5 DEF Refuse
  <1>6. CASE AcquireFails(p) BY <1>6, Counted DEF AcquireFails
  <1>7. CASE ReadForAppend(p) BY <1>7 DEF ReadForAppend
  <1>8. CASE WriteEvent(p) BY <1>8 DEF WriteEvent, Absent, Events
  <1>9. CASE WriteEventFails(p)
    <2>1. PICK left \in {Absent, Spoilt} :
            event' = [event EXCEPT ![proc[p].what] = left]
      BY <1>9 DEF WriteEventFails
    <2>2. event' \in [Messages -> Events \cup {Absent, Spoilt}] BY <2>1
    <2>3. proc[p].at = "event" /\ GiveUp(p) /\ Faulty /\ UNCHANGED <<lock, head, channel, answered>>
      BY <1>9 DEF WriteEventFails
    <2>4. proc' \in [Processes -> ProcState] /\ Fitting' BY <2>3, GivingUp
    <2> QED BY <2>2, <2>3, <2>4, Counted DEF ProcState
  <1>10. CASE CommitHead(p) BY <1>10 DEF CommitHead
  <1>11. CASE CommitHeadFails(p)
    <2>1. head' \in {head, proc[p].what} /\ proc[p].what \in Messages
      BY <1>11 DEF CommitHeadFails
    <2>2. proc[p].at = "head" /\ GiveUp(p) /\ Faulty /\ UNCHANGED <<lock, event, channel, answered>>
      BY <1>11 DEF CommitHeadFails
    <2>3. proc' \in [Processes -> ProcState] /\ Fitting' BY <2>2, GivingUp
    <2> QED BY <2>1, <2>2, <2>3, Counted DEF ProcState
  <1>12. CASE ReadForMaterialize(p) BY <1>12 DEF ReadForMaterialize
  <1>13. CASE WriteChannel(p) BY <1>13 DEF WriteChannel
  <1>14. CASE WriteChannelFails(p)
    <2>1. channel' \in {NoOne, Torn, proc[p].what} /\ proc[p].what \in Meanings
      BY <1>14 DEF WriteChannelFails
    <2>2. proc[p].at = "channel" /\ GiveUp(p) /\ Faulty /\ UNCHANGED <<lock, event, head, answered>>
      BY <1>14 DEF WriteChannelFails
    <2>3. proc' \in [Processes -> ProcState] /\ Fitting' BY <2>2, GivingUp
    <2> QED BY <2>1, <2>2, <2>3, Counted DEF ProcState
  <1>15. CASE Release(p) BY <1>15 DEF Release
  <1>16. CASE ReleaseFails(p) BY <1>16, Counted DEF ReleaseFails
  <1>17. CASE Crash(p) BY <1>17, Counted DEF Crash
  <1>18. CASE ReadAbandoned(p) BY <1>18 DEF ReadAbandoned
  <1>19. CASE RemoveAbandoned(p) BY <1>19 DEF RemoveAbandoned
  <1> QED BY <1>1, <1>2, <1>3, <1>4, <1>5, <1>6, <1>7, <1>8, <1>9, <1>10, <1>11,
             <1>12, <1>13, <1>14, <1>15, <1>16, <1>17, <1>18, <1>19 DEF Step

\* Steps that leave the lock file alone: the one who takes them was a writer
\* already, or does not become one.
LEMMA LockKept ==
  ASSUME LockInv, TypeOK', NEW p \in Processes, UNCHANGED lock,
         proc[p].at # "stopped",
         \A q \in Processes \ {p} : proc'[q] = proc[q],
         p \in Writing' => p \in Writing,
         proc'[p].at # "unlink"
  PROVE  OwnLock' /\ StillAbandoned'
  BY DEF LockInv, OwnLock, StillAbandoned, Writing, TypeOK

\* Every step keeps writers under their own lock, and an abandoned lock where
\* it is until its one operator removes it.
LEMMA StepLock ==
  ASSUME OneOperator, LockInv, NEW p \in Processes, Step(p)
  PROVE  LockInv'
  <1>0. TypeOK' /\ Fitting' BY StepTyped
  <1> SUFFICES OwnLock' /\ StillAbandoned' BY <1>0 DEF LockInv
  <1> USE <1>0 DEF LockInv, TypeOK, Idle, Goto, GiveUp, Start, Writing
  <1>1. ASSUME NEW m \in Messages, NEW n \in Numbers, AppendAt(p, m, n)
        PROVE  OwnLock' /\ StillAbandoned'
    BY <1>1, LockKept DEF AppendAt
  <1>2. ASSUME NEW m \in Messages, Send(p, m) PROVE OwnLock' /\ StillAbandoned'
    <2>1. CASE UNCHANGED proc BY <1>2, <2>1, LockKept DEF Send
    <2>2. CASE Start(p, m, NextSequence) BY <1>2, <2>2, LockKept DEF Send
    <2> QED BY <1>2, <2>1, <2>2 DEF Send
  <1>3. ASSUME NEW c \in Meanings, Materialize(p, c) PROVE OwnLock' /\ StillAbandoned'
    BY <1>3, LockKept DEF Materialize
  <1>4. CASE Acquire(p) BY <1>4 DEF Acquire, OwnLock, StillAbandoned
  <1>5. CASE Refuse(p) BY <1>5, LockKept DEF Refuse
  <1>6. CASE AcquireFails(p) BY <1>6 DEF AcquireFails, OwnLock, StillAbandoned
  <1>7. CASE ReadForAppend(p) BY <1>7, LockKept DEF ReadForAppend
  <1>8. CASE WriteEvent(p) BY <1>8, LockKept DEF WriteEvent
  <1>9. CASE WriteEventFails(p) BY <1>9, LockKept DEF WriteEventFails
  <1>10. CASE CommitHead(p) BY <1>10, LockKept DEF CommitHead
  <1>11. CASE CommitHeadFails(p) BY <1>11, LockKept DEF CommitHeadFails
  <1>12. CASE ReadForMaterialize(p) BY <1>12, LockKept DEF ReadForMaterialize
  <1>13. CASE WriteChannel(p) BY <1>13, LockKept DEF WriteChannel
  <1>14. CASE WriteChannelFails(p) BY <1>14, LockKept DEF WriteChannelFails
  <1>15. CASE Release(p)
    BY <1>15 DEF Release, Owns, OwnLock, StillAbandoned
  <1>16. CASE ReleaseFails(p) BY <1>16, LockKept DEF ReleaseFails
  <1>17. CASE Crash(p) BY <1>17 DEF Crash, OwnLock, StillAbandoned
  <1>18. CASE ReadAbandoned(p)
    BY <1>18 DEF ReadAbandoned, OwnLock, StillAbandoned
  <1>19. CASE RemoveAbandoned(p)
    BY <1>19 DEF RemoveAbandoned, OwnLock, StillAbandoned, OneOperator
  <1> QED BY <1>1, <1>2, <1>3, <1>4, <1>5, <1>6, <1>7, <1>8, <1>9, <1>10, <1>11,
             <1>12, <1>13, <1>14, <1>15, <1>16, <1>17, <1>18, <1>19 DEF Step

\* The same with stuttering.
LEMMA NextLock ==
  ASSUME OneOperator, LockInv, [Next]_vars
  PROVE  LockInv'
  <1>1. CASE Next BY <1>1, StepLock DEF Next
  <1>2. CASE UNCHANGED vars
    BY <1>2 DEF vars, LockInv, TypeOK, Fitting, OwnLock, StillAbandoned, Writing
  <1> QED BY <1>1, <1>2

\* The invariant of the writer lock, across crashes, failed releases and one
\* operator's recovery.
THEOREM LockInvariant ==
  ASSUME OneOperator PROVE Spec => []LockInv
  <1>1. LockInv /\ [Next]_vars => LockInv' BY NextLock
  <1> QED BY <1>1, InitLock, PTL DEF Spec

\* Between acquire and release there is one process, and the lock file is its.
THEOREM OneWriterAlways ==
  ASSUME OneOperator PROVE Spec => []OneWriter
  <1>1. LockInv => OneWriter
    BY DEF LockInv, OwnLock, OneWriter, Writing
  <1> QED BY <1>1, LockInvariant, PTL

-----------------------------------------------------------------------------
(* The lineage                                                             *)

\* Every durable event is a root or the successor of a durable event: the local
\* form of LineageWhole, which is about the whole walk along the priors.
Linked ==
  /\ head # NoOne => Durable(head)
  /\ \A m \in Messages :
       Durable(m) =>
         IF event[m].prior = NoOne THEN event[m].sequence = 0
         ELSE /\ Durable(event[m].prior)
              /\ event[m].sequence = event[event[m].prior].sequence + 1

\* The writer's view of the head is still the head when it writes.
Informed ==
  \A p \in Processes :
    /\ proc[p].at = "event" =>
         proc[p].sequence = NextSequence /\ proc[p].prior = head
    /\ proc[p].at = "head" => Durable(proc[p].what) /\ Extends(proc[p].what)

StoreInv == LockInv /\ Linked /\ Informed

\* A missing file and a torn one are no events.
LEMMA NotDurable == Absent \notin Events /\ Spoilt \notin Events
  BY DEF Absent, Spoilt, Events, Numbers

\* The empty store is linked.
LEMMA InitStore == Init => StoreInv
  BY InitLock, NotDurable DEF Init, StoreInv, Linked, Informed, Durable, Idle

\* Steps that change no event and not the head.
LEMMA FilesKept ==
  ASSUME StoreInv, TypeOK', NEW p \in Processes, UNCHANGED <<event, head>>,
         \A q \in Processes \ {p} : proc'[q] = proc[q],
         proc'[p].at = "event" =>
           proc'[p].sequence = NextSequence /\ proc'[p].prior = head,
         proc'[p].at = "head" =>
           Durable(proc'[p].what) /\ Extends(proc'[p].what)
  PROVE  Linked' /\ Informed'
  <1>1. Linked' BY DEF StoreInv, Linked, Durable
  <1>2. NextSequence' = NextSequence BY DEF NextSequence
  <1>3. Informed' BY <1>2 DEF StoreInv, Informed, Durable, Extends
  <1> QED BY <1>1, <1>3

\* An event file changes only where none was; what is durable stays as it is.
WrittenOnce == \A m \in Messages : Durable(m) => event'[m] = event[m]

\* Writing a root or the head's successor keeps the events linked.
LEMMA StillLinked ==
  ASSUME StoreInv, TypeOK', UNCHANGED head, WrittenOnce,
         \A m \in Messages :
           event'[m] \in Events /\ ~Durable(m) =>
             event'[m] = [sequence |-> NextSequence, prior |-> head]
  PROVE  Linked' /\ NextSequence' = NextSequence
  <1> USE DEF StoreInv, LockInv, TypeOK, Linked, WrittenOnce, Durable
  <1>1. NextSequence' = NextSequence
    BY DEF NextSequence
  <1>2. ASSUME NEW m \in Messages, Durable(m)'
        PROVE  IF event'[m].prior = NoOne THEN event'[m].sequence = 0
               ELSE /\ Durable(event[m].prior)'
                    /\ event'[m].sequence = event'[event'[m].prior].sequence + 1
    <2>1. CASE Durable(m) BY <1>2, <2>1 DEF Events
    <2>2. CASE ~Durable(m) BY <1>2, <2>2 DEF Events, NextSequence
    <2> QED BY <2>1, <2>2
  <1>3. head' # NoOne => Durable(head)' OBVIOUS
  <1> QED BY <1>1, <1>2, <1>3

\* The other processes are not inside the lock while p is.
LEMMA Alone ==
  ASSUME LockInv, NEW p \in Writing, NEW q \in Processes \ {p}
  PROVE  proc[q].at \notin {"read", "event", "channel", "head"}
  BY DEF LockInv, OwnLock, Writing

\* A step inside the lock, after which its process is not about to commit.
LEMMA Leaving ==
  ASSUME StoreInv, TypeOK', NEW p \in Writing,
         \A q \in Processes \ {p} : proc'[q] = proc[q],
         proc'[p].at \notin {"event", "head"}
  PROVE  Informed'
  BY Alone DEF StoreInv, Informed, Writing

\* Every step keeps the events linked and the writer informed; one that changes
\* the head or an event is the writer's, and nobody else is inside the lock.
LEMMA StepStore ==
  ASSUME OneOperator, StoreInv, NEW p \in Processes, Step(p)
  PROVE  StoreInv' /\ WrittenOnce
  <1>0. LockInv' BY StepLock DEF StoreInv
  <1> SUFFICES Linked' /\ Informed' /\ WrittenOnce BY <1>0 DEF StoreInv
  <1>a. TypeOK' BY <1>0 DEF LockInv
  <1>b. LockInv /\ TypeOK BY DEF StoreInv, LockInv
  <1>c. ASSUME UNCHANGED event PROVE WrittenOnce BY <1>c DEF WrittenOnce
  <1> USE <1>a, <1>b DEF Goto, GiveUp, Start
  <1>1. ASSUME NEW m \in Messages, NEW n \in Numbers, AppendAt(p, m, n)
        PROVE  Linked' /\ Informed' /\ WrittenOnce
    BY <1>1, <1>c, FilesKept DEF AppendAt, TypeOK, Idle
  <1>2. ASSUME NEW m \in Messages, Send(p, m)
        PROVE  Linked' /\ Informed' /\ WrittenOnce
    <2>1. UNCHANGED <<event, head>> BY <1>2 DEF Send
    <2>2. CASE UNCHANGED proc
      BY <2>1, <2>2, <1>c, FilesKept DEF StoreInv, Informed
    <2>3. CASE Start(p, m, NextSequence)
      BY <2>1, <2>3, <1>c, FilesKept DEF TypeOK, Idle
    <2> QED BY <1>2, <2>2, <2>3 DEF Send
  <1>3. ASSUME NEW c \in Meanings, Materialize(p, c)
        PROVE  Linked' /\ Informed' /\ WrittenOnce
    BY <1>3, <1>c, FilesKept DEF Materialize, TypeOK, Idle
  <1>4. CASE Acquire(p) BY <1>4, <1>c, FilesKept DEF Acquire, TypeOK
  <1>5. CASE Refuse(p) BY <1>5, <1>c, FilesKept DEF Refuse, TypeOK, Idle
  <1>6. CASE AcquireFails(p) BY <1>6, <1>c, FilesKept DEF AcquireFails, TypeOK, Idle
  <1>7. CASE ReadForAppend(p) BY <1>7, <1>c, FilesKept DEF ReadForAppend, TypeOK
  <1>8. CASE WriteEvent(p)
    <2> DEFINE m == proc[p].what
               new == [sequence |-> NextSequence, prior |-> head]
    <2>1. proc[p].at = "event" /\ p \in Writing /\ m \in Messages
      BY <1>8 DEF WriteEvent, Writing, LockInv, Fitting
    <2>2. new = [sequence |-> proc[p].sequence, prior |-> proc[p].prior]
          /\ new \in Events
      BY <2>1 DEF StoreInv, Informed, Events, TypeOK
    <2>3. /\ event' = IF event[m] = Absent THEN [event EXCEPT ![m] = new] ELSE event
          /\ IF event[m] \in {Absent, new} THEN Goto(p, "head") ELSE GiveUp(p)
          /\ UNCHANGED <<lock, head>>
      BY <1>8, <2>2 DEF WriteEvent
    <2>4. WrittenOnce BY <2>3, NotDurable DEF WrittenOnce, Durable, TypeOK
    <2>5. Linked' /\ NextSequence' = NextSequence
      BY <2>1, <2>3, <2>4, StillLinked DEF TypeOK, Durable
    <2>6. CASE event[m] \in {Absent, new}
      <3>1. event'[m] = new BY <2>1, <2>3, <2>6 DEF TypeOK
      <3>2. proc'[p].what = m /\ proc'[p].at = "head" BY <2>3, <2>6 DEF TypeOK
      <3>3. /\ event'[m] \in Events
            /\ event'[m].sequence = NextSequence' /\ event'[m].prior = head'
        BY <3>1, <2>2, <2>3, <2>5
      <3>4. \A q \in Processes \ {p} : proc'[q] = proc[q]
        BY <2>3, <2>6 DEF TypeOK
      <3>5. Informed'
        BY <2>1, <3>2, <3>3, <3>4, Alone DEF Informed, Durable, Extends
      <3> QED BY <2>4, <2>5, <3>5
    <2>7. CASE event[m] \notin {Absent, new}
      BY <2>1, <2>3, <2>4, <2>5, <2>7, Leaving DEF TypeOK
    <2> QED BY <2>6, <2>7
  <1>9. CASE WriteEventFails(p)
    <2>1. proc[p].at = "event" /\ p \in Writing /\ GiveUp(p) /\ UNCHANGED head
          /\ event[proc[p].what] = Absent
      BY <1>9 DEF WriteEventFails, Writing
    <2>2. PICK left \in {Absent, Spoilt} :
            event' = [event EXCEPT ![proc[p].what] = left]
      BY <1>9 DEF WriteEventFails
    <2>3. WrittenOnce BY <2>1, <2>2, NotDurable DEF WrittenOnce, Durable, TypeOK
    <2>4. Linked'
      BY <2>1, <2>2, <2>3, StillLinked, NotDurable DEF TypeOK, Durable
    <2>5. Informed' BY <2>1, Leaving DEF TypeOK
    <2> QED BY <2>3, <2>4, <2>5
  <1>10. CASE CommitHead(p)
    <2>1. proc[p].at = "head" /\ p \in Writing /\ UNCHANGED event
          /\ head' = proc[p].what
      BY <1>10 DEF CommitHead, Writing
    <2>2. Linked' BY <2>1 DEF StoreInv, Informed, Linked, Durable
    <2>3. Informed' BY <1>10, <2>1, Leaving DEF CommitHead, TypeOK
    <2> QED BY <2>1, <2>2, <2>3, <1>c
  <1>11. CASE CommitHeadFails(p)
    <2>1. proc[p].at = "head" /\ p \in Writing /\ UNCHANGED event
          /\ head' \in {head, proc[p].what} /\ GiveUp(p)
      BY <1>11 DEF CommitHeadFails, Writing
    <2>2. Linked' BY <2>1 DEF StoreInv, Informed, Linked, Durable
    <2>3. Informed' BY <2>1, Leaving DEF TypeOK
    <2> QED BY <2>1, <2>2, <2>3, <1>c
  <1>12. CASE ReadForMaterialize(p)
    BY <1>12, <1>c, FilesKept DEF ReadForMaterialize, TypeOK
  <1>13. CASE WriteChannel(p) BY <1>13, <1>c, FilesKept DEF WriteChannel, TypeOK
  <1>14. CASE WriteChannelFails(p)
    BY <1>14, <1>c, FilesKept DEF WriteChannelFails, TypeOK
  <1>15. CASE Release(p) BY <1>15, <1>c, FilesKept DEF Release, TypeOK, Idle
  <1>16. CASE ReleaseFails(p) BY <1>16, <1>c, FilesKept DEF ReleaseFails, TypeOK, Idle
  <1>17. CASE Crash(p)
    <2>1. UNCHANGED head /\ proc'[p].at = "stopped"
          /\ \A q \in Processes \ {p} : proc'[q] = proc[q]
      BY <1>17 DEF Crash, Idle, TypeOK
    <2>2. CASE UNCHANGED event BY <2>1, <2>2, <1>c, FilesKept
    <2>3. CASE /\ proc[p].at = "event" /\ event[proc[p].what] = Absent
               /\ event' = [event EXCEPT ![proc[p].what] = Spoilt]
      <3>1. p \in Writing BY <2>3 DEF Writing
      <3>2. WrittenOnce BY <2>3, NotDurable DEF WrittenOnce, Durable, TypeOK
      <3>3. Linked'
        BY <2>1, <2>3, <3>2, StillLinked, NotDurable DEF TypeOK, Durable
      <3>4. Informed' BY <2>1, <3>1, Leaving
      <3> QED BY <3>2, <3>3, <3>4
    <2> QED BY <1>17, <2>2, <2>3 DEF Crash
  <1>18. CASE ReadAbandoned(p) BY <1>18, <1>c, FilesKept DEF ReadAbandoned, TypeOK
  <1>19. CASE RemoveAbandoned(p)
    BY <1>19, <1>c, FilesKept DEF RemoveAbandoned, TypeOK, Idle
  <1> QED BY <1>1, <1>2, <1>3, <1>4, <1>5, <1>6, <1>7, <1>8, <1>9, <1>10, <1>11,
             <1>12, <1>13, <1>14, <1>15, <1>16, <1>17, <1>18, <1>19 DEF Step

\* The same with stuttering.
LEMMA NextStore ==
  ASSUME OneOperator, StoreInv, [Next]_vars
  PROVE  StoreInv' /\ WrittenOnce
  <1>1. CASE Next BY <1>1, StepStore DEF Next
  <1>2. CASE UNCHANGED vars
    <2>1. LockInv' BY <1>2, NextLock DEF StoreInv
    <2>2. Linked' /\ Informed'
      BY <1>2 DEF vars, StoreInv, Linked, Informed, Durable, Extends, NextSequence
    <2>3. WrittenOnce BY <1>2 DEF vars, WrittenOnce
    <2> QED BY <2>1, <2>2, <2>3 DEF StoreInv
  <1> QED BY <1>1, <1>2

\* The head moves only to a durable event that succeeds the one it named.
HeadAdvances ==
  head' # head =>
    /\ head' \in Messages /\ Durable(head')
    /\ event[head'].sequence = NextSequence /\ event[head'].prior = head

\* Only the writer that is about to commit moves the head.
LEMMA HeadStep ==
  ASSUME StoreInv, [Next]_vars PROVE HeadAdvances
  <1> SUFFICES ASSUME head' # head, NEW p \in Processes, Step(p)
               PROVE  HeadAdvances
    BY DEF HeadAdvances, Next, vars
  <1>1. proc[p].at = "head" /\ head' = proc[p].what
    BY DEF Step, AppendAt, Send, Materialize, Acquire, Refuse, AcquireFails,
           ReadForAppend, WriteEvent, WriteEventFails, CommitHead, CommitHeadFails,
           ReadForMaterialize, WriteChannel, WriteChannelFails, Release,
           ReleaseFails, Crash, ReadAbandoned, RemoveAbandoned
  <1> QED BY <1>1 DEF HeadAdvances, StoreInv, LockInv, Fitting, Informed, Extends

\* What is durable is never rewritten, and the lineage grows only at its end.
GrowsAtTheEnd == WrittenOnce /\ HeadAdvances

\* Every durable event, also one that no head ever named, succeeds a durable
\* event or is a root, through any crash, failed write or adopted orphan.
THEOREM EventsAreLinked ==
  ASSUME OneOperator PROVE Spec => []Linked
  <1>1. StoreInv /\ [Next]_vars => StoreInv' BY NextStore
  <1>2. StoreInv => Linked BY DEF StoreInv
  <1> QED BY <1>1, <1>2, InitStore, PTL DEF Spec

\* No step rewrites an event, and the head moves only to its exact successor:
\* each step of the channel's log is the append that ChannelLog allows.
THEOREM LogGrowsAtTheEnd ==
  ASSUME OneOperator PROVE Spec => [][GrowsAtTheEnd]_vars
  <1>1. StoreInv /\ [Next]_vars => StoreInv' BY NextStore
  <1>2. StoreInv /\ [Next]_vars => GrowsAtTheEnd
    BY NextStore, HeadStep DEF GrowsAtTheEnd
  <1> QED BY <1>1, <1>2, InitStore, PTL DEF Spec

-----------------------------------------------------------------------------
(* The lineage as a reader walks it.  The walk is a recursive function, so  *)
(* that a function satisfying its equation must be shown to exist before    *)
(* the walk can be said to satisfy it; induction over the sequence numbers  *)
(* is the choice of a least one.                                            *)

\* Every nonempty set of numbers has a least one.
LEMMA LeastNumber ==
  ASSUME NEW S \in SUBSET Nat, S # {}
  PROVE  \E n \in S : \A m \in S : n <= m
<1>1. PICK n \in S : \A m \in S : <<m, n>> \notin OpToRel(<, Nat)
  BY NatLessThanWellFounded, WFMin
<1>2. \A m \in S : ~ (m < n)
  BY <1>1 DEF OpToRel
<1> QED BY <1>2

\* The events from head back to the number n, each the prior of the next.
Spine(g, n, top) ==
  /\ g \in [n..top -> Messages]
  /\ g[top] = head
  /\ \A i \in n..top : Durable(g[i]) /\ event[g[i]].sequence = i
  /\ \A i \in n..top : i # top => event[g[i + 1]].prior = g[i]

\* The head's number, and what the walk makes of the message later at i + 1.
Top == event[head].sequence

Before(later, i) ==
  IF later = NoOne THEN NoOne
  ELSE IF event[later].prior = NoOne THEN NoOne
  ELSE IF event[event[later].prior].sequence = i THEN event[later].prior ELSE NoOne

Rule(f, i) == IF i = Top THEN head ELSE Before(f[i + 1], i)

\* The head of a linked store is a durable event with a number.
LEMMA HeadDurable ==
  ASSUME StoreInv, head # NoOne
  PROVE  head \in Messages /\ Durable(head) /\ Top \in Nat
  BY DEF StoreInv, LockInv, TypeOK, Linked, Durable, Events, Numbers, Top

\* A durable event after the first one has the durable event before it.
LEMMA PriorDurable ==
  ASSUME StoreInv, NEW m \in Messages, Durable(m), event[m].sequence # 0
  PROVE  LET q == event[m].prior
         IN  /\ q # NoOne /\ q \in Messages /\ Durable(q)
             /\ event[q].sequence = event[m].sequence - 1
  <1>1. event[m].prior # NoOne /\ event[m].sequence \in Nat
    BY DEF StoreInv, Linked, Durable, Events, Numbers
  <1>2. event[m].prior \in Messages BY <1>1 DEF Durable, Events
  <1>3. Durable(event[m].prior) /\ event[m].sequence = event[event[m].prior].sequence + 1
    BY <1>1 DEF StoreInv, Linked
  <1>4. event[event[m].prior].sequence \in Nat
    BY <1>3 DEF Durable, Events, Numbers
  <1> QED BY <1>1, <1>2, <1>3, <1>4

\* The spine from the head reaches down to every number.
LEMMA SpineDown ==
  ASSUME StoreInv, head # NoOne, NEW k \in 0..Top
  PROVE  \E g : Spine(g, Top - k, Top)
  <1> DEFINE Short == {j \in 0..Top : ~ \E g : Spine(g, Top - j, Top)}
  <1>0. head \in Messages /\ Durable(head) /\ Top \in Nat BY HeadDurable
  <1> SUFFICES ASSUME Short # {} PROVE FALSE OBVIOUS
  <1>1. PICK j \in Short : \A i \in Short : j <= i
    <2>1. Short \in SUBSET Nat BY <1>0
    <2> QED BY <2>1, LeastNumber
  <1>2. j # 0
    <2>1. Spine([i \in Top..Top |-> head], Top - 0, Top)
      BY <1>0 DEF Spine, Top
    <2> QED BY <2>1, <1>1
  <1>3. j \in 1..Top /\ j - 1 \in 0..Top BY <1>0, <1>1, <1>2
  <1>4. j - 1 \notin Short BY <1>0, <1>1, <1>3
  <1>5. PICK g : Spine(g, Top - (j - 1), Top) BY <1>3, <1>4
  <1> DEFINE n == Top - j
             m == g[n + 1]
             h == [i \in n..Top |-> IF i = n THEN event[m].prior ELSE g[i]]
  <1>6. n \in Nat /\ n + 1 = Top - (j - 1) /\ n + 1 \in 1..Top BY <1>0, <1>3
  <1>7. m \in Messages /\ Durable(m) /\ event[m].sequence = n + 1
    BY <1>0, <1>5, <1>6 DEF Spine
  <1>8. event[m].prior \in Messages /\ Durable(event[m].prior)
        /\ event[event[m].prior].sequence = n
    BY <1>6, <1>7, PriorDurable
  <1>9. Spine(h, n, Top)
    <2> HIDE DEF n
    <2>1. g \in [n + 1..Top -> Messages] /\ g[Top] = head
      BY <1>5, <1>6 DEF Spine
    <2>2. \A i \in n + 1..Top : Durable(g[i]) /\ event[g[i]].sequence = i
      BY <1>5, <1>6 DEF Spine
    <2>3. \A i \in n + 1..Top : i # Top => event[g[i + 1]].prior = g[i]
      BY <1>5, <1>6 DEF Spine
    <2>4. h \in [n..Top -> Messages] /\ h[Top] = head BY <2>1, <1>6, <1>0, <1>8
    <2>5. \A i \in n..Top : Durable(h[i]) /\ event[h[i]].sequence = i
      BY <2>2, <1>8, <1>6, <1>0
    <2>6. ASSUME NEW i \in n..Top, i # Top PROVE event[h[i + 1]].prior = h[i]
      <3>1. i + 1 \in n + 1..Top /\ h[i + 1] = g[i + 1] BY <2>6, <1>6, <1>0
      <3>2. CASE i = n BY <3>1, <3>2
      <3>3. CASE i # n
        <4>1. i \in n + 1..Top /\ h[i] = g[i] BY <3>3, <1>6, <1>0
        <4> QED BY <3>1, <4>1, <2>3, <2>6
      <3> QED BY <3>2, <3>3
    <2> QED BY <2>4, <2>5, <2>6 DEF Spine
  <1> QED BY <1>1, <1>9

\* The walk satisfies its own equation, and is the spine down to the root.
LEMMA WalkIsSpine ==
  ASSUME StoreInv, head # NoOne
  PROVE  Spine(Walk, 0, Top)
  <1>0. head \in Messages /\ Durable(head) /\ Top \in Nat BY HeadDurable
  <1>1. PICK g : Spine(g, 0, Top) BY <1>0, SpineDown
  <1>2. \A i \in 0..Top : g[i] = Rule(g, i)
    BY <1>0, <1>1 DEF Spine, Rule, Before, StoreInv, LockInv, TypeOK
  <1>3. g = [i \in 0..Top |-> Rule(g, i)] BY <1>1, <1>2 DEF Spine
  <1>4. Walk = CHOOSE f : f = [i \in 0..Top |-> Rule(f, i)]
    BY DEF Walk, Rule, Before, Top
  <1>5. Walk = [i \in 0..Top |-> Rule(Walk, i)] BY <1>3, <1>4
  <1> DEFINE Apart == {j \in 0..Top : Walk[Top - j] # g[Top - j]}
  <1>6. Apart = {}
    <2> SUFFICES ASSUME Apart # {} PROVE FALSE OBVIOUS
    <2>1. PICK j \in Apart : \A i \in Apart : j <= i
      <3>1. Apart \in SUBSET Nat BY <1>0
      <3> QED BY <3>1, LeastNumber
    <2> DEFINE n == Top - j
    <2>2. n \in 0..Top /\ Walk[n] # g[n] BY <1>0, <2>1
    <2>3. Walk[n] = Rule(Walk, n) /\ g[n] = Rule(g, n) BY <1>2, <1>5, <2>2
    <2>4. n # Top BY <2>2, <2>3 DEF Rule
    <2>5. n + 1 \in 0..Top /\ j - 1 \in 0..Top /\ Top - (j - 1) = n + 1
      BY <1>0, <2>1, <2>2, <2>4
    <2>6. j - 1 \notin Apart BY <1>0, <2>1
    <2>7. Walk[n + 1] = g[n + 1] BY <2>5, <2>6
    <2> QED BY <2>2, <2>3, <2>4, <2>7 DEF Rule
  <1>7. \A i \in 0..Top : Walk[i] = g[i]
    <2> SUFFICES ASSUME NEW i \in 0..Top PROVE Walk[i] = g[i] OBVIOUS
    <2>1. Top - i \in 0..Top /\ Top - (Top - i) = i BY <1>0
    <2> QED BY <1>6, <2>1
  <1>8. Walk = g BY <1>1, <1>5, <1>7 DEF Spine
  <1> QED BY <1>1, <1>8


\* What a reader is given: as many messages as the head's number says, the head
\* last, each durable, in order, and the prior of the next.
LineageChained ==
  /\ NextSequence \in Nat
  /\ Lineage \in [1..NextSequence -> Messages]
  /\ IF head = NoOne THEN NextSequence = 0
     ELSE NextSequence # 0 /\ Lineage[NextSequence] = head
  /\ \A i \in 1..NextSequence :
       Durable(Lineage[i]) /\ event[Lineage[i]].sequence = i - 1
  /\ \A i \in 1..NextSequence :
       i # NextSequence => event[Lineage[i + 1]].prior = Lineage[i]

\* A linked store gives its readers such a lineage.
LEMMA LineageIsChained ==
  ASSUME StoreInv PROVE LineageChained
  <1>1. CASE head = NoOne
    BY <1>1 DEF LineageChained, Lineage, NextSequence
  <1>2. CASE head # NoOne
    <2>1. Spine(Walk, 0, Top) /\ Top \in Nat BY <1>2, HeadDurable, WalkIsSpine
    <2>2. NextSequence = Top + 1 BY <1>2 DEF NextSequence, Top
    <2>3. Lineage = [i \in 1..Top + 1 |-> Walk[i - 1]] BY <1>2, <2>2 DEF Lineage
    <2>4. \A i \in 1..Top + 1 : i - 1 \in 0..Top /\ Lineage[i] = Walk[i - 1]
      BY <2>1, <2>3
    <2>5. Lineage \in [1..Top + 1 -> Messages] BY <2>1, <2>3, <2>4 DEF Spine
    <2>6. Lineage[Top + 1] = head BY <2>1, <2>4 DEF Spine
    <2>7. \A i \in 1..Top + 1 : Durable(Lineage[i]) /\ event[Lineage[i]].sequence = i - 1
      BY <2>1, <2>4 DEF Spine
    <2>8. ASSUME NEW i \in 1..Top + 1, i # Top + 1
          PROVE  event[Lineage[i + 1]].prior = Lineage[i]
      <3>1. i - 1 \in 0..Top /\ i - 1 # Top /\ (i - 1) + 1 = i BY <2>1, <2>8
      <3>2. event[Walk[(i - 1) + 1]].prior = Walk[i - 1] BY <2>1, <3>1 DEF Spine
      <3>3. Lineage[i + 1] = Walk[i] /\ Lineage[i] = Walk[i - 1] BY <2>1, <2>3, <2>8
      <3> QED BY <3>1, <3>2, <3>3
    <2>9. Top + 1 \in Nat /\ Top + 1 # 0 BY <2>1
    <2> HIDE DEF Top
    <2> QED BY ONLY <1>2, <2>2, <2>5, <2>6, <2>7, <2>8, <2>9 DEF LineageChained
  <1> QED BY <1>1, <1>2

\* f lists n messages, each the prior of the next among the events e.
Chain(f, n, e) ==
  /\ f \in [1..n -> Messages]
  /\ \A i \in 1..n : i # n => e[f[i + 1]].prior = f[i]

\* Two chains that end alike are one.
LEMMA OneChain ==
  ASSUME NEW n \in Nat, NEW e, NEW f, NEW g, Chain(f, n, e), Chain(g, n, e),
         n # 0 => f[n] = g[n]
  PROVE  f = g
  <1> USE DEF Chain
  <1> DEFINE Apart == {j \in 0..n : j # n /\ f[n - j] # g[n - j]}
  <1>1. Apart = {}
    <2> SUFFICES ASSUME Apart # {} PROVE FALSE OBVIOUS
    <2>1. PICK j \in Apart : \A i \in Apart : j <= i
      <3>1. Apart \in SUBSET Nat OBVIOUS
      <3> QED BY <3>1, LeastNumber
    <2>2. n - j \in 1..n /\ f[n - j] # g[n - j] /\ j \in 0..n BY <2>1
    <2>3. j # 0 BY <2>2
    <2>4. j - 1 \in 0..n /\ j - 1 # n /\ n - (j - 1) = (n - j) + 1 BY <2>2, <2>3
    <2>5. f[(n - j) + 1] = g[(n - j) + 1]
      <3>1. j - 1 \notin Apart
        <4> HIDE DEF Apart
        <4> QED BY <2>1, <2>2
      <3> QED BY <2>4, <3>1
    <2>6. n - j # n BY <2>2, <2>3
    <2> QED BY <2>2, <2>5, <2>6
  <1>2. ASSUME NEW i \in 1..n PROVE f[i] = g[i]
    <2>1. n - i \in 0..n /\ n - i # n /\ n - (n - i) = i OBVIOUS
    <2> QED BY <1>1, <2>1
  <1> QED BY <1>2

\* No reader, who takes no lock, meets a hole: from the head back to the root
\* every event is there, whole, and numbered without a gap.
THEOREM LineageNeverBreaks ==
  ASSUME OneOperator PROVE Spec => []LineageWhole
  <1>1. StoreInv /\ [Next]_vars => StoreInv' BY NextStore
  <1>2. StoreInv => LineageWhole
    <2> SUFFICES ASSUME StoreInv PROVE LineageWhole OBVIOUS
    <2>1. LineageChained BY LineageIsChained
    <2>2. DOMAIN Lineage = 1..NextSequence BY <2>1 DEF LineageChained
    <2>3. head # NoOne => Durable(head) BY HeadDurable
    <2> QED BY <2>1, <2>2, <2>3 DEF LineageChained, LineageWhole
  <1> QED BY <1>1, <1>2, InitStore, PTL DEF Spec

\* The store keeps its invariant and its readers their lineage.
LEMMA StoreHolds ==
  ASSUME OneOperator PROVE Spec => [](StoreInv /\ LineageChained)
  <1>1. StoreInv /\ [Next]_vars => StoreInv' BY NextStore
  <1>2. StoreInv => LineageChained BY LineageIsChained
  <1> QED BY <1>1, <1>2, InitStore, PTL DEF Spec

\* A step that leaves the head leaves the lineage.
LEMMA LineageStays ==
  ASSUME StoreInv, LineageChained, LineageChained', WrittenOnce, head' = head
  PROVE  Lineage' = Lineage
  <1>1. NextSequence' = NextSequence
    <2>1. CASE head = NoOne BY <2>1 DEF NextSequence
    <2>2. CASE head # NoOne
      <3>1. event'[head] = event[head] BY <2>2, HeadDurable DEF WrittenOnce
      <3> QED BY <2>2, <3>1 DEF NextSequence
    <2> QED BY <2>1, <2>2
  <1> DEFINE n == NextSequence
  <1>2. \A i \in 1..n : event'[Lineage[i]] = event[Lineage[i]]
    BY DEF LineageChained, WrittenOnce
  <1>3. n \in Nat /\ Lineage \in [1..n -> Messages] /\ Lineage' \in [1..n -> Messages]
    BY <1>1 DEF LineageChained
  <1>4. n # 0 => Lineage'[n] = Lineage[n] BY <1>1 DEF LineageChained
  <1>5. Chain(Lineage', n, event') BY <1>1 DEF Chain, LineageChained
  <1>6. Chain(Lineage, n, event')
    <2>1. ASSUME NEW i \in 1..n, i # n PROVE event'[Lineage[i + 1]].prior = Lineage[i]
      <3>1. i + 1 \in 1..n BY <1>3, <2>1
      <3> QED BY <1>2, <2>1, <3>1 DEF LineageChained
    <2> QED BY <1>3, <2>1 DEF Chain
  <1> HIDE DEF n
  <1> QED BY <1>3, <1>4, <1>5, <1>6, OneChain

\* What was written stays in the lineage's chain.
LEMMA StillChained ==
  ASSUME LineageChained, WrittenOnce PROVE Chain(Lineage, NextSequence, event')
  <1>1. ASSUME NEW i \in 1..NextSequence, i # NextSequence
        PROVE  event'[Lineage[i + 1]].prior = Lineage[i]
    <2>1. i + 1 \in 1..NextSequence BY <1>1 DEF LineageChained
    <2>2. event'[Lineage[i + 1]] = event[Lineage[i + 1]]
      BY <2>1 DEF LineageChained, WrittenOnce
    <2> QED BY <1>1, <2>2 DEF LineageChained
  <1> QED BY <1>1 DEF LineageChained, Chain

\* A list of n messages is a sequence.
LEMMA ListIsSequence ==
  ASSUME NEW n \in Nat, NEW f \in [1..n -> Messages]
  PROVE  f \in Seq(Messages) /\ Len(f) = n
  OBVIOUS

\* A list one longer than another that it repeats appends its last entry to it.
LEMMA OneLonger ==
  ASSUME NEW n \in Nat, NEW f \in [1..n -> Messages],
         NEW g \in [1..n + 1 -> Messages], \A i \in 1..n : g[i] = f[i]
  PROVE  g = Append(f, g[n + 1])
  <1>1. f \in Seq(Messages) /\ Len(f) = n BY ListIsSequence
  <1>2. g \in Seq(Messages) /\ Len(g) = n + 1 BY ListIsSequence
  <1>3. g[n + 1] \in Messages OBVIOUS
  <1>4. /\ Append(f, g[n + 1]) \in Seq(Messages)
        /\ Len(Append(f, g[n + 1])) = n + 1
        /\ \A i \in 1..n + 1 : Append(f, g[n + 1])[i] = g[i]
    BY <1>1, <1>3
  <1> QED BY <1>2, <1>4, SeqEqual

\* A step that moves the head says the new head after what was said, once.
LEMMA LineageGrows ==
  ASSUME LineageChained, LineageChained', WrittenOnce, HeadAdvances, head' # head
  PROVE  /\ Lineage' = Append(Lineage, head')
         /\ \A i \in 1..NextSequence : Lineage[i] # head'
  <1>1. PICK n \in Nat : n = NextSequence BY DEF LineageChained
  <1>2. /\ head' \in Messages /\ event[head'] \in Events
        /\ event'[head'] = event[head']
        /\ event[head'].sequence = n /\ event[head'].prior = head
    BY <1>1 DEF HeadAdvances, WrittenOnce, Durable
  <1>3. NextSequence' = n + 1
    <2>1. head' # NoOne BY <1>2
    <2> QED BY <1>2, <2>1 DEF NextSequence
  <1>4. /\ Lineage' \in [1..n + 1 -> Messages] /\ Lineage'[n + 1] = head'
        /\ \A i \in 1..n + 1 : i # n + 1 => event'[Lineage'[i + 1]].prior = Lineage'[i]
    BY <1>2, <1>3 DEF LineageChained
  <1> DEFINE f == [i \in 1..n |-> Lineage'[i]]
  <1>5. Chain(f, n, event') BY <1>4 DEF Chain
  <1>6. Chain(Lineage, n, event') BY <1>1, StillChained
  <1>7. n # 0 => f[n] = Lineage[n]
    <2> SUFFICES ASSUME n # 0 PROVE f[n] = Lineage[n] OBVIOUS
    <2>1. f[n] = event'[Lineage'[n + 1]].prior BY <1>4
    <2>2. Lineage[n] = head BY <1>1 DEF LineageChained
    <2> QED BY <1>2, <1>4, <2>1, <2>2
  <1>8. f = Lineage
    <2> HIDE DEF f
    <2> QED BY <1>5, <1>6, <1>7, OneChain
  <1>9. \A i \in 1..n : Lineage'[i] = Lineage[i] BY <1>8
  <1>10. Lineage' = Append(Lineage, head')
    <2>1. PICK g, h : g = Lineage' /\ h = Lineage OBVIOUS
    <2>2. g = Append(h, g[n + 1]) BY <1>4, <1>6, <1>9, <2>1, OneLonger DEF Chain
    <2> QED BY <2>1, <2>2, <1>4
  <1>11. ASSUME NEW i \in 1..n PROVE Lineage[i] # head'
    <2>1. event[Lineage[i]].sequence = i - 1 BY <1>1 DEF LineageChained
    <2> QED BY <1>2, <2>1
  <1> QED BY <1>1, <1>10, <1>11

-----------------------------------------------------------------------------
(* The store keeps the promise of ChannelLog.                              *)

\* A request that is about to be answered has done what it will answer: its
\* message is in the lineage, or its meaning is the recorded one.
Deserved ==
  \A p \in Processes :
    (proc[p].at = "release" /\ ~proc[p].failed) =>
      \/ proc[p].what \in Messages /\ InLineage(proc[p].what)
      \/ proc[p].what \in Meanings /\ channel = proc[p].what

\* What is in the lineage stays in it, and the head of the next state is in it.
LEMMA SaidStays ==
  ASSUME LineageChained, LineageChained', StoreInv, WrittenOnce, HeadAdvances
  PROVE  /\ \A m \in Messages : InLineage(m) => InLineage(m)'
         /\ (head # NoOne => InLineage(head))'
  <1>1. PICK n \in Nat : n = NextSequence' BY DEF LineageChained
  <1>2. (head # NoOne => InLineage(head))'
    <2> SUFFICES ASSUME head' # NoOne PROVE \E i \in DOMAIN Lineage' : Lineage'[i] = head'
      BY DEF InLineage
    <2>1. n # 0 /\ Lineage'[n] = head' /\ DOMAIN Lineage' = 1..n
      BY <1>1 DEF LineageChained
    <2>2. n \in DOMAIN Lineage' BY <1>1, <2>1
    <2> QED BY <2>1, <2>2
  <1>3. ASSUME NEW m \in Messages, InLineage(m) PROVE InLineage(m)'
    <2>1. CASE head' = head
      <3>1. Lineage' = Lineage BY <2>1, LineageStays
      <3> QED BY <1>3, <3>1 DEF InLineage
    <2>2. CASE head' # head
      <3>1. Lineage' = Append(Lineage, head') BY <2>2, LineageGrows
      <3>2. PICK k \in Nat : k = NextSequence /\ Lineage \in [1..k -> Messages]
        BY DEF LineageChained
      <3>3. Lineage \in Seq(Messages) /\ Len(Lineage) = k BY <3>2, ListIsSequence
      <3>4. PICK i \in 1..k : Lineage[i] = m BY <1>3, <3>2 DEF InLineage
      <3>5. i \in DOMAIN Lineage' /\ Lineage'[i] = m BY <3>1, <3>3, <3>4
      <3> QED BY <3>5 DEF InLineage
    <2> QED BY <2>1, <2>2
  <1> QED BY <1>2, <1>3

\* A step changes one of the head, the channel record and the answers, and the
\* channel record only while there is none.
OneChange ==
  /\ head' # head => channel' = channel /\ answered' = answered
  /\ channel' # channel => channel = NoOne /\ answered' = answered

LEMMA StepChangesOne ==
  ASSUME StoreInv, [Next]_vars PROVE OneChange
  <1>1. CASE UNCHANGED vars BY <1>1 DEF vars, OneChange
  <1>2. ASSUME NEW p \in Processes, Step(p) PROVE OneChange
    BY <1>2
    DEF OneChange, Step, AppendAt, Send, Materialize, Acquire, Refuse, AcquireFails,
        ReadForAppend, WriteEvent, WriteEventFails, CommitHead, CommitHeadFails,
        ReadForMaterialize, WriteChannel, WriteChannelFails, Release,
        ReleaseFails, Crash, ReadAbandoned, RemoveAbandoned
  <1> QED BY <1>1, <1>2 DEF Next

\* Steps after which the process that took them deserves its answer, if it is
\* about to give one.
LEMMA DeservedKept ==
  ASSUME StoreInv, StoreInv', Deserved, NEW p \in Processes, OneChange,
         \A m \in Messages : InLineage(m) => InLineage(m)',
         \A q \in Processes \ {p} : proc'[q] = proc[q],
         (proc'[p].at = "release" /\ ~proc'[p].failed) =>
           \/ proc'[p].what \in Messages /\ (\E i \in DOMAIN Lineage' : Lineage'[i] = proc'[p].what)
           \/ proc'[p].what \in Meanings /\ channel' = proc'[p].what
  PROVE  Deserved'
  <1> SUFFICES ASSUME NEW q \in Processes, proc'[q].at = "release", ~proc'[q].failed
               PROVE  \/ proc'[q].what \in Messages
                         /\ (\E i \in DOMAIN Lineage' : Lineage'[i] = proc'[q].what)
                      \/ proc'[q].what \in Meanings /\ channel' = proc'[q].what
    BY DEF Deserved, InLineage
  <1>1. CASE q = p BY <1>1
  <1>2. CASE q # p
    <2>1. proc'[q] = proc[q] BY <1>2
    <2>2. PICK x : x = proc[q].what OBVIOUS
    <2>3. \/ x \in Messages /\ InLineage(x)
          \/ x \in Meanings /\ channel = x
      BY <2>1, <2>2 DEF Deserved
    <2>4. CASE x \in Messages /\ InLineage(x) BY <2>1, <2>2, <2>4 DEF InLineage
    <2>5. CASE x \in Meanings /\ channel = x BY <2>1, <2>2, <2>5 DEF OneChange
    <2> QED BY <2>3, <2>4, <2>5
  <1> QED BY <1>1, <1>2

\* Nobody is about to answer at first.
LEMMA InitDeserved == Init => Deserved
  BY DEF Init, Deserved, Idle

\* Every step keeps it: a process comes to its answer by finding its message in
\* the lineage or its meaning recorded, or by its own commit.
LEMMA StepDeserved ==
  ASSUME OneOperator, StoreInv, LineageChained, LineageChained', Deserved,
         NEW p \in Processes, Step(p)
  PROVE  Deserved'
  <1>1. StoreInv' /\ WrittenOnce BY StepStore
  <1>2. [Next]_vars BY DEF Next
  <1>3. HeadAdvances /\ OneChange BY <1>2, HeadStep, StepChangesOne
  <1>4. /\ \A m \in Messages : InLineage(m) => InLineage(m)'
        /\ head' # NoOne => \E i \in DOMAIN Lineage' : Lineage'[i] = head'
    BY <1>1, <1>3, SaidStays DEF InLineage
  <1> DEFINE Earns ==
        (proc'[p].at = "release" /\ ~proc'[p].failed) =>
           \/ proc'[p].what \in Messages /\ (\E i \in DOMAIN Lineage' : Lineage'[i] = proc'[p].what)
           \/ proc'[p].what \in Meanings /\ channel' = proc'[p].what
  <1>5. TypeOK /\ Fitting BY DEF StoreInv, LockInv
  <1>6. \A q \in Processes \ {p} : proc'[q] = proc[q]
    BY ZenonT(40), <1>5
    DEF TypeOK, Step, AppendAt, Send, Materialize, Acquire, Refuse, AcquireFails,
        ReadForAppend, WriteEvent, WriteEventFails, CommitHead, CommitHeadFails,
        ReadForMaterialize, WriteChannel, WriteChannelFails, Release,
        ReleaseFails, Crash, ReadAbandoned, RemoveAbandoned, Goto, GiveUp, Start
  <1>7. Earns
    <2> USE <1>5 DEF TypeOK, Goto, GiveUp, Start, Idle
    <2>1. CASE ReadForAppend(p)
      <3>1. PICK m : m = proc[p].what OBVIOUS
      <3>2. CASE Goto(p, "release") /\ InLineage(m)
        <4>1. m \in Messages BY <2>1, <3>1 DEF ReadForAppend
        <4>2. proc'[p].what = m BY <3>1, <3>2
        <4> QED BY <1>4, <3>2, <4>1, <4>2 DEF InLineage
      <3>3. CASE proc'[p].at # "release" \/ proc'[p].failed BY <3>3
      <3> QED BY <2>1, <3>1, <3>2, <3>3 DEF ReadForAppend
    <2>2. CASE CommitHead(p)
      <3>1. head' = proc[p].what /\ proc[p].what \in Messages /\ proc'[p].what = proc[p].what
        BY <2>2 DEF CommitHead, Fitting
      <3> QED BY <1>4, <3>1
    <2>3. CASE ReadForMaterialize(p) BY <2>3 DEF ReadForMaterialize
    <2>4. CASE WriteChannel(p) BY <2>4 DEF WriteChannel, Fitting
    <2>5. CASE WriteEvent(p) BY <2>5 DEF WriteEvent
    <2>6. CASE \/ WriteEventFails(p) \/ CommitHeadFails(p) \/ WriteChannelFails(p)
      BY <2>6 DEF WriteEventFails, CommitHeadFails, WriteChannelFails
    <2>7. ASSUME NEW m \in Messages, Send(p, m) PROVE Earns
      <3>1. CASE UNCHANGED proc /\ proc[p].at = "idle" BY <3>1
      <3>2. CASE Start(p, m, NextSequence) BY <3>2
      <3> QED BY <2>7, <3>1, <3>2 DEF Send
    <2>8. ASSUME NEW m \in Messages, NEW n \in Numbers, AppendAt(p, m, n) PROVE Earns
      BY <2>8 DEF AppendAt
    <2>9. ASSUME NEW c \in Meanings, Materialize(p, c) PROVE Earns
      BY <2>9 DEF Materialize
    <2>10. CASE \/ Acquire(p) \/ Refuse(p) \/ AcquireFails(p) \/ Release(p) \/ ReleaseFails(p)
                \/ Crash(p) \/ ReadAbandoned(p) \/ RemoveAbandoned(p)
      BY <2>10 DEF Acquire, Refuse, AcquireFails, Release, ReleaseFails, Crash,
                   ReadAbandoned, RemoveAbandoned
    <2> QED BY <2>1, <2>2, <2>3, <2>4, <2>5, <2>6, <2>7, <2>8, <2>9, <2>10 DEF Step
  <1> HIDE DEF Earns
  <1> QED
    <2> USE DEF Earns
    <2> QED BY <1>1, <1>3, <1>4, <1>6, <1>7, DeservedKept

\* An answer is given for what is in the lineage or for the recorded meaning.
LEMMA AnswersDeserved ==
  ASSUME StoreInv, Deserved, [Next]_vars, answered' # answered
  PROVE  \E x : /\ answered' = answered \cup {x}
                /\ \/ x \in Messages /\ InLineage(x)
                   \/ x \in Meanings /\ channel = x
  <1>1. PICK p \in Processes : Step(p) BY DEF Next, vars
  <1>2. CASE Release(p)
    <2>1. proc[p].at = "release" /\ ~proc[p].failed
          /\ answered' = answered \cup {proc[p].what}
      BY <1>2 DEF Release
    <2>2. PICK x : x = proc[p].what OBVIOUS
    <2>3. \/ x \in Messages /\ InLineage(x)
          \/ x \in Meanings /\ channel = x
      BY <2>1, <2>2 DEF Deserved
    <2> QED BY <2>1, <2>2, <2>3
  <1>3. ASSUME NEW m \in Messages, Send(p, m)
        PROVE  answered' = answered \cup {m} /\ InLineage(m)
    BY <1>3 DEF Send, ReadMessage
  <1>4. Release(p) \/ \E m \in Messages : Send(p, m)
    BY <1>1
    DEF Step, AppendAt, Materialize, Acquire, Refuse, AcquireFails,
        ReadForAppend, WriteEvent, WriteEventFails, CommitHead, CommitHeadFails,
        ReadForMaterialize, WriteChannel, WriteChannelFails,
        ReleaseFails, Crash, ReadAbandoned, RemoveAbandoned
  <1> QED BY <1>2, <1>3, <1>4

\* What the store must keep to keep its promise.
PromiseInv == StoreInv /\ LineageChained /\ Deserved

\* A message is said exactly if it is in the lineage.
LEMMA SaidIsLineage ==
  ASSUME NEW m PROVE m \in Promise!Said <=> InLineage(m)
  BY DEF Promise!Said, InLineage

LEMMA PromiseInit == Init => Promise!Init
  BY StoreAssumption DEF Init, Promise!Init, Lineage

\* Each step names the channel, says one message at the end, answers for what is
\* there, or shows the readers and the callers nothing.
LEMMA PromiseStep ==
  ASSUME PromiseInv, PromiseInv', WrittenOnce, HeadAdvances, [Next]_vars
  PROVE  [Promise!Next]_(Promise!vars)
  <1> USE DEF PromiseInv
  <1> DEFINE Named == IF channel = Torn THEN NoOne ELSE channel
  <1>1. OneChange BY StepChangesOne
  <1>2. TypeOK /\ TypeOK' BY DEF StoreInv, LockInv
  <1>3. CASE head' # head
    <2>1. /\ Lineage' = Append(Lineage, head')
          /\ \A i \in 1..NextSequence : Lineage[i] # head'
      BY <1>3, LineageGrows
    <2>2. channel' = channel /\ answered' = answered BY <1>1, <1>3 DEF OneChange
    <2>3. head' \in Messages BY <1>3 DEF HeadAdvances
    <2>4. DOMAIN Lineage = 1..NextSequence BY DEF LineageChained
    <2>5. Promise!Say(head')
      BY <2>1, <2>2, <2>4 DEF Promise!Say, Promise!Said
    <2> QED BY <2>3, <2>5 DEF Promise!Next
  <1>4. CASE head' = head /\ channel' # channel
    <2>1. Lineage' = Lineage BY <1>4, LineageStays
    <2>2. channel = NoOne /\ answered' = answered BY <1>1, <1>4 DEF OneChange
    <2>3. CASE channel' \in Meanings
      <3>1. channel' # Torn /\ Named = NoOne BY <2>2, <2>3
      <3>2. Promise!Name(channel')
        BY <2>1, <2>2, <2>3, <3>1 DEF Promise!Name
      <3> QED BY <2>3, <3>2 DEF Promise!Next
    <2>4. CASE channel' \in {NoOne, Torn}
      BY <2>1, <2>2, <2>4 DEF Promise!vars
    <2> QED BY <1>2, <2>3, <2>4 DEF TypeOK
  <1>5. CASE head' = head /\ channel' = channel
    <2>1. Lineage' = Lineage BY <1>5, LineageStays
    <2>2. CASE answered' # answered
      <3>1. PICK x : /\ answered' = answered \cup {x}
                     /\ \/ x \in Messages /\ InLineage(x)
                        \/ x \in Meanings /\ channel = x
        BY <2>2, AnswersDeserved
      <3>2. x \in Promise!Said \cup ({Named} \ {NoOne})
        BY <3>1, SaidIsLineage
      <3>3. Promise!Answer(x) BY <1>5, <2>1, <3>1, <3>2 DEF Promise!Answer
      <3> QED BY <3>1, <3>3 DEF Promise!Next
    <2>3. CASE answered' = answered BY <1>5, <2>1, <2>3 DEF Promise!vars
    <2> QED BY <2>2, <2>3
  <1> QED BY <1>3, <1>4, <1>5

\* Refinement: to its readers and callers the store, with all its crashes, failed
\* writes, adopted orphans and recovered locks, is the log of ChannelLog: nobody
\* loses what was answered, and no message is said twice.
THEOREM StoreKeepsItsPromise ==
  ASSUME OneOperator PROVE Spec => KeepsItsPromise
  <1>1. StoreInv /\ [Next]_vars => StoreInv' /\ WrittenOnce BY NextStore
  <1>2. StoreInv => LineageChained BY LineageIsChained
  <1>3. /\ StoreInv /\ LineageChained /\ LineageChained' /\ Deserved /\ [Next]_vars
        => Deserved'
    <2> SUFFICES ASSUME StoreInv, LineageChained, LineageChained', Deserved, [Next]_vars
                 PROVE  Deserved'
      OBVIOUS
    <2>1. CASE Next BY <2>1, StepDeserved DEF Next
    <2>2. CASE UNCHANGED vars
      <3>1. Lineage' = Lineage
        <4>1. WrittenOnce /\ head' = head BY <2>2 DEF vars, WrittenOnce
        <4> QED BY <4>1, LineageStays
      <3> QED BY <2>2, <3>1 DEF vars, Deserved, InLineage
    <2> QED BY <2>1, <2>2
  <1>4. PromiseInv /\ PromiseInv' /\ WrittenOnce /\ [Next]_vars
        => [Promise!Next]_(Promise!vars)
    BY HeadStep, PromiseStep DEF PromiseInv
  <1> QED
    BY <1>1, <1>2, <1>3, <1>4, InitStore, InitDeserved, PromiseInit, PTL
    DEF Spec, KeepsItsPromise, Promise!Spec, PromiseInv

=============================================================================
