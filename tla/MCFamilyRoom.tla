---- MODULE MCFamilyRoom ----
(* A host and two others, with one invitation into the Family.            *)
EXTENDS FamilyRoom, TLC

CONSTANTS host, ann, bob, i1

\* The two who do not host are interchangeable.
Symmetry == Permutations({ann, bob})
====
