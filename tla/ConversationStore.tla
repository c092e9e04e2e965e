-------------------------- MODULE ConversationStore --------------------------
(***************************************************************************)
(* The durable store of one conversation channel, conversation-store.mjs:  *)
(* a writer lock file, one write-once file per message event, a head file  *)
(* that is replaced atomically and a channel record.  Several host         *)
(* processes append and materialize at once; every file operation is a     *)
(* step of its own, a process may stop between any two, and a file system  *)
(* call may fail.  A process that stopped never comes back: a restart is   *)
(* another member of Processes, with another pid.                          *)
(***************************************************************************)
EXTENDS Integers, FiniteSets

CONSTANTS
  Processes,   \* host processes that open the same Home
  Recoverers,  \* those an operator asks to recover an abandoned writer
  Messages,    \* message identities, each with its content
  Meanings,    \* canonical channel envelopes competing for the channelRef
  MaxSequence, \* bound: the largest sequence number a caller asks for
  MaxFaults,   \* bound: crashes and failed file operations of a behaviour
  NoOne,       \* no lock file, no message, no channel record
  Torn         \* a file whose content was never completely written

ASSUME StoreAssumption ==
  /\ Recoverers \subseteq Processes
  /\ MaxSequence \in Nat /\ MaxFaults \in Nat
  /\ NoOne \notin Processes \cup Messages \cup Meanings
  /\ Torn \notin Processes \cup Messages \cup Meanings \cup {NoOne}
  /\ Messages \cap Meanings = {}

VARIABLES
  lock,      \* writer.lock: the process whose token it carries
  event,     \* messages/<hash>.json of every message
  head,      \* current.json: the message it names
  channel,   \* channel.json: the meaning it records
  proc,      \* what each process is doing, with what it has read
  answered,  \* messages and meanings some caller was told are durable
  faults     \* crashes and failures so far

vars == <<lock, event, head, channel, proc, answered, faults>>

Numbers == 0..MaxSequence
Events == [sequence : Numbers, prior : Messages \cup {NoOne}]
Absent == [sequence |-> -1, prior |-> NoOne]
Spoilt == [sequence |-> -1, prior |-> Torn]

Idle == [at |-> "idle", what |-> NoOne, sequence |-> 0, prior |-> NoOne,
         failed |-> FALSE]

TypeOK ==
  /\ lock \in Processes \cup {NoOne, Torn}
  /\ event \in [Messages -> Events \cup {Absent, Spoilt}]
  /\ head \in Messages \cup {NoOne}
  /\ channel \in Meanings \cup {NoOne, Torn}
  /\ proc \in [Processes ->
       [at : {"idle", "acquire", "read", "event", "channel", "head",
              "release", "unlink", "stopped"},
        what : Messages \cup Meanings \cup {NoOne}, sequence : Numbers,
        prior : Messages \cup {NoOne}, failed : BOOLEAN]]
  /\ answered \subseteq Messages \cup Meanings
  /\ faults \in 0..MaxFaults

-----------------------------------------------------------------------------
(* Reading the channel: no reader takes the lock.                          *)

Durable(m) == event[m] \in Events

NextSequence == IF head = NoOne THEN 0 ELSE event[head].sequence + 1

\* The walk of readConversationChannel from the head to the root: the message
\* at every sequence number.  A missing or torn prior leaves NoOne there.
Walk ==
  LET top == event[head].sequence
      at[i \in 0..top] ==
        IF i = top THEN head
        ELSE LET later == at[i + 1]
             IN IF later = NoOne THEN NoOne
                ELSE IF event[later].prior = NoOne THEN NoOne
                ELSE IF event[event[later].prior].sequence = i
                       THEN event[later].prior ELSE NoOne
  IN at

Lineage == IF head = NoOne THEN <<>>
           ELSE [i \in 1..NextSequence |-> Walk[i - 1]]

InLineage(m) == \E i \in DOMAIN Lineage : Lineage[i] = m

\* What readConversationMessage says of m; the last case is thrown.
ReadMessage(m) ==
  IF event[m] = Absent THEN "NOT_FOUND"
  ELSE IF Durable(m) /\ InLineage(m) THEN "CURRENT"
  ELSE "CONVERSATION_CORRUPT"

-----------------------------------------------------------------------------
(* Requests                                                                *)

Start(p, what, sequence) ==
  proc' = [proc EXCEPT ![p] =
             [Idle EXCEPT !.at = "acquire", !.what = what,
                          !.sequence = sequence]]

\* appendConversationMessage with any sequence number a caller may name: the
\* head it saw may be old by now.
AppendAt(p, m, n) ==
  /\ proc[p].at = "idle"
  /\ Start(p, m, n)
  /\ UNCHANGED <<lock, event, head, channel, answered, faults>>

\* The Family bridge first looks the message up: an event in the lineage is
\* answered at once, an event outside it is refused, and only an unknown
\* message is appended after the head.
Send(p, m) ==
  /\ proc[p].at = "idle"
  /\ \/ /\ ReadMessage(m) = "CURRENT"
        /\ answered' = answered \cup {m}
        /\ UNCHANGED proc
     \/ /\ ReadMessage(m) = "NOT_FOUND"
        /\ NextSequence \in Numbers
        /\ Start(p, m, NextSequence)
        /\ UNCHANGED answered
  /\ UNCHANGED <<lock, event, head, channel, faults>>

Materialize(p, c) ==
  /\ proc[p].at = "idle"
  /\ Start(p, c, 0)
  /\ UNCHANGED <<lock, event, head, channel, answered, faults>>

-----------------------------------------------------------------------------
(* The writer lock                                                         *)

Goto(p, at) == proc' = [proc EXCEPT ![p].at = at]
GiveUp(p) == proc' = [proc EXCEPT ![p].at = "release", ![p].failed = TRUE]
Faulty == faults < MaxFaults /\ faults' = faults + 1

\* acquire: the lock file is created exclusively.
Acquire(p) ==
  /\ proc[p].at = "acquire"
  /\ lock = NoOne
  /\ lock' = p
  /\ Goto(p, "read")
  /\ UNCHANGED <<event, head, channel, answered, faults>>

\* An existing lock refuses the request, whoever holds it.
Refuse(p) ==
  /\ proc[p].at = "acquire"
  /\ lock # NoOne
  /\ proc' = [proc EXCEPT ![p] = Idle]
  /\ UNCHANGED <<lock, event, head, channel, answered, faults>>

\* The lock file was created and its content could not be written.
AcquireFails(p) ==
  /\ proc[p].at = "acquire"
  /\ lock = NoOne
  /\ lock' = Torn
  /\ proc' = [proc EXCEPT ![p] = Idle]
  /\ Faulty
  /\ UNCHANGED <<event, head, channel, answered>>

\* release removes the file only while it carries the caller's own token; a
\* file that is gone already counts as released.
Owns(p) == lock = p

Release(p) ==
  /\ proc[p].at = "release"
  /\ lock' = IF Owns(p) THEN NoOne ELSE lock
  /\ answered' = IF ~proc[p].failed /\ (Owns(p) \/ lock = NoOne)
                   THEN answered \cup {proc[p].what} ELSE answered
  /\ proc' = [proc EXCEPT ![p] = Idle]
  /\ UNCHANGED <<event, head, channel, faults>>

\* The lock file could not be read or removed: the request fails although it
\* may be durable, and the file stays behind a living process.
ReleaseFails(p) ==
  /\ proc[p].at = "release"
  /\ lock # NoOne
  /\ proc' = [proc EXCEPT ![p] = Idle]
  /\ Faulty
  /\ UNCHANGED <<lock, event, head, channel, answered>>

-----------------------------------------------------------------------------
(* Inside the lock                                                         *)

\* Defective variant: an orphan is adopted although its number is taken.
ExtendsLate(m) == event[m].sequence <= NextSequence

\* Whether the event of m may become the head as it is: the root of an empty
\* channel, or the exact successor of the head.
Extends(m) ==
  /\ event[m].sequence = NextSequence
  /\ event[m].prior = head

\* Defective variant: the head is named before the event is durable.
ReadThenName(p) ==
  LET m == proc[p].what IN
  /\ proc[p].at = "read" /\ m \in Messages
  /\ event[m] # Spoilt
  /\ proc' = [proc EXCEPT ![p].at = "head", ![p].prior = head]
  /\ UNCHANGED <<lock, event, head, channel, answered, faults>>

\* appendConversationMessage up to its first write: a message already durable
\* is reconciled, a new one must carry the next number.
ReadForAppend(p) ==
  LET m == proc[p].what IN
  /\ proc[p].at = "read" /\ m \in Messages
  /\ \/ /\ event[m] = Spoilt
        /\ GiveUp(p)
     \/ /\ Durable(m) /\ event[m].sequence # proc[p].sequence
        /\ GiveUp(p)                            \* CONVERSATION_MESSAGE_CONFLICT
     \/ /\ Durable(m) /\ event[m].sequence = proc[p].sequence
        /\ IF InLineage(m) THEN Goto(p, "release")    \* IDEMPOTENT_CURRENT
           ELSE IF Extends(m) THEN Goto(p, "head")    \* an orphan is adopted
           ELSE GiveUp(p)                             \* CONVERSATION_CORRUPT
     \/ /\ event[m] = Absent
        /\ IF proc[p].sequence = NextSequence
             THEN proc' = [proc EXCEPT ![p].at = "event", ![p].prior = head]
             ELSE GiveUp(p)                           \* CONVERSATION_STALE
  /\ UNCHANGED <<lock, event, head, channel, answered, faults>>

\* The event file is write-once: an existing one must be this very event.
WriteEvent(p) ==
  LET m == proc[p].what
      new == [sequence |-> proc[p].sequence, prior |-> proc[p].prior]
  IN
  /\ proc[p].at = "event"
  /\ event' = IF event[m] = Absent THEN [event EXCEPT ![m] = new] ELSE event
  /\ IF event[m] \in {Absent, new} THEN Goto(p, "head") ELSE GiveUp(p)
  /\ UNCHANGED <<lock, head, channel, answered, faults>>

\* The file could not be created, or not be written to its end.
WriteEventFails(p) ==
  LET m == proc[p].what IN
  /\ proc[p].at = "event" /\ event[m] = Absent
  /\ \E left \in {Absent, Spoilt} : event' = [event EXCEPT ![m] = left]
  /\ GiveUp(p)
  /\ Faulty
  /\ UNCHANGED <<lock, head, channel, answered>>

\* commitEventHead: the rename makes the message current.
CommitHead(p) ==
  /\ proc[p].at = "head"
  /\ head' = proc[p].what
  /\ Goto(p, "release")
  /\ UNCHANGED <<lock, event, channel, answered, faults>>

\* A failure before the rename leaves the old head, one after it (the receipt)
\* leaves the new one; the caller is told of a failure either way.
CommitHeadFails(p) ==
  /\ proc[p].at = "head"
  /\ \E named \in {head, proc[p].what} : head' = named
  /\ GiveUp(p)
  /\ Faulty
  /\ UNCHANGED <<lock, event, channel, answered>>

ReadForMaterialize(p) ==
  LET c == proc[p].what IN
  /\ proc[p].at = "read" /\ c \in Meanings
  /\ IF channel = NoOne THEN Goto(p, "channel")
     ELSE IF channel = c THEN Goto(p, "release")
     ELSE GiveUp(p)
  /\ UNCHANGED <<lock, event, head, channel, answered, faults>>

WriteChannel(p) ==
  /\ proc[p].at = "channel"
  /\ channel' = IF channel = NoOne THEN proc[p].what ELSE channel
  /\ IF channel \in {NoOne, proc[p].what} THEN Goto(p, "release") ELSE GiveUp(p)
  /\ UNCHANGED <<lock, event, head, answered, faults>>

WriteChannelFails(p) ==
  /\ proc[p].at = "channel" /\ channel = NoOne
  /\ \E left \in {NoOne, Torn, proc[p].what} : channel' = left
  /\ GiveUp(p)
  /\ Faulty
  /\ UNCHANGED <<lock, event, head, answered>>

-----------------------------------------------------------------------------
(* Crashes and recovery                                                    *)

\* The process stops.  A write it had begun may be half done.
Crash(p) ==
  /\ proc[p].at \notin {"idle", "stopped"}
  /\ proc' = [proc EXCEPT ![p] = [Idle EXCEPT !.at = "stopped"]]
  /\ lock' \in IF proc[p].at = "acquire" /\ lock = NoOne
                 THEN {NoOne, Torn} ELSE {lock}
  /\ event' \in IF proc[p].at = "event" /\ event[proc[p].what] = Absent
                  THEN {event, [event EXCEPT ![proc[p].what] = Spoilt]}
                  ELSE {event}
  /\ channel' \in IF proc[p].at = "channel" /\ channel = NoOne
                    THEN {channel, Torn} ELSE {channel}
  /\ Faulty
  /\ UNCHANGED <<head, answered>>

\* Defective variant: recovery trusts the lock file without looking at its process.
GoneUnchecked(p) == TRUE

\* processState of the pid in the lock file.
Gone(p) == proc[p].at = "stopped"

\* recoverAbandonedConversationWriter reads the lock file, checks that its
\* process is gone, and only then removes the file, whatever it carries by then.
ReadAbandoned(r) ==
  /\ r \in Recoverers /\ proc[r].at = "idle"
  /\ lock \in Processes /\ Gone(lock)
  /\ Goto(r, "unlink")
  /\ UNCHANGED <<lock, event, head, channel, answered, faults>>

RemoveAbandoned(r) ==
  /\ proc[r].at = "unlink"
  /\ lock' = NoOne
  /\ proc' = [proc EXCEPT ![r] = Idle]
  /\ UNCHANGED <<event, head, channel, answered, faults>>

-----------------------------------------------------------------------------
Init ==
  /\ lock = NoOne
  /\ event = [m \in Messages |-> Absent]
  /\ head = NoOne
  /\ channel = NoOne
  /\ proc = [p \in Processes |-> Idle]
  /\ answered = {}
  /\ faults = 0

Step(p) ==
  \/ \E m \in Messages, n \in Numbers : AppendAt(p, m, n)
  \/ \E m \in Messages : Send(p, m)
  \/ \E c \in Meanings : Materialize(p, c)
  \/ Acquire(p) \/ Refuse(p) \/ AcquireFails(p)
  \/ ReadForAppend(p) \/ WriteEvent(p) \/ WriteEventFails(p)
  \/ CommitHead(p) \/ CommitHeadFails(p)
  \/ ReadForMaterialize(p) \/ WriteChannel(p) \/ WriteChannelFails(p)
  \/ Release(p) \/ ReleaseFails(p)
  \/ Crash(p)
  \/ ReadAbandoned(p) \/ RemoveAbandoned(p)

\* Every request may have been answered, every process stopped, and a torn lock
\* file is never recovered: the system may stop.
Next == \E p \in Processes : Step(p)

Spec == Init /\ [][Next]_vars

-----------------------------------------------------------------------------
(* Properties                                                              *)

Writing == {p \in Processes :
              proc[p].at \in {"read", "event", "channel", "head"}}

\* At most one process is between acquire and release, and the lock file is its
\* own: what withWriter is for, across crashes, failed releases and one
\* operator's recovery of an abandoned lock.
OneWriter == \A p \in Writing : lock = p /\ Writing = {p}

\* A reader, who takes no lock, never meets a lineage with a hole: every event
\* from the head back to the root is durable and numbered without a gap, in the
\* middle of any append, after any crash or failed write.
LineageWhole ==
  /\ head # NoOne => Durable(head)
  /\ \A i \in DOMAIN Lineage : Lineage[i] # NoOne /\ Durable(Lineage[i])

\* Nobody can lose what was answered: the store implements a log that grows
\* only at its end and holds a message once, a meaning fixed once, and answers
\* given only for what is there, whatever order retries, crashes, adopted
\* orphans and recoveries come in.
Promise == INSTANCE ChannelLog WITH
             Unnamed <- NoOne,
             meaning <- IF channel = Torn THEN NoOne ELSE channel,
             log <- Lineage

KeepsItsPromise == Promise!Spec

\* The Family bridge's document says that a retry of the same request returns
\* the existing durable event.  Once no writer holds the lock, so that nobody is
\* about to commit it, a durable event should be found by the bridge's look-up.
RetryFindsTheEvent ==
  lock = NoOne => \A m \in Messages : Durable(m) => ReadMessage(m) = "CURRENT"

=============================================================================
