----------------------------- MODULE ChannelLog -----------------------------
(***************************************************************************)
(* What one conversation channel promises to those who write to it and     *)
(* read it: a meaning that is fixed once, a log that only grows at its     *)
(* end and holds a message at most once, and answers that are only given   *)
(* for what is already there.                                              *)
(***************************************************************************)
EXTENDS Sequences

CONSTANTS
  Messages,   \* message identities
  Meanings,   \* what a channel may be: thread, kind, audience, binding
  Unnamed     \* the channel has not been materialized

VARIABLES
  meaning,    \* a member of Meanings, or Unnamed
  log,        \* the messages a reader of the channel is given, oldest first
  answered    \* messages and meanings a caller was told are durable

vars == <<meaning, log, answered>>

Said == {log[i] : i \in DOMAIN log}

Init == meaning = Unnamed /\ log = <<>> /\ answered = {}

Name(c) == /\ meaning = Unnamed
           /\ meaning' = c
           /\ UNCHANGED <<log, answered>>

Say(m) == /\ m \notin Said
          /\ log' = Append(log, m)
          /\ UNCHANGED <<meaning, answered>>

Answer(x) == /\ x \in Said \cup ({meaning} \ {Unnamed})
             /\ answered' = answered \cup {x}
             /\ UNCHANGED <<meaning, log>>

Next == \/ \E c \in Meanings : Name(c)
        \/ \E m \in Messages : Say(m)
        \/ \E x \in Messages \cup Meanings : Answer(x)

Spec == Init /\ [][Next]_vars
=============================================================================
