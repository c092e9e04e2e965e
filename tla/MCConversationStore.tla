---- MODULE MCConversationStore ----
(* The conversation store on a small set of processes and messages.        *)
EXTENDS ConversationStore, TLC

CONSTANTS p1, p2, r1, m1, m2, c1, c2

\* Two ordinary writers, the messages and the meanings are interchangeable.
Symmetry == Permutations({p1, p2}) \cup Permutations(Messages)
              \cup Permutations(Meanings)
====
