----------------------------- MODULE WorkerSlot -----------------------------
(***************************************************************************)
(* What the scheduler promises about its one physical worker               *)
(* (src/core/intent-scheduler.mjs; modelInferenceConcurrency = 1): the     *)
(* worker has at most one owner, an owner gives the worker up before       *)
(* anybody else takes it, and every ownership is a fresh, larger scheduler *)
(* generation, so a lease that ended never comes back.                     *)
(***************************************************************************)
EXTENDS Naturals

CONSTANT Generations    \* the scheduler generations, positive numbers

VARIABLES
  owner,    \* the generation whose lease owns the worker, 0 when it is free
  served    \* the generations that have owned it

slotVars == <<owner, served>>

Init == owner = 0 /\ served = {}

Take(g) ==
  /\ owner = 0
  /\ \A h \in served : h < g
  /\ owner' = g
  /\ served' = served \cup {g}

GiveUp ==
  /\ owner # 0
  /\ owner' = 0
  /\ UNCHANGED served

Next == GiveUp \/ \E g \in Generations : Take(g)

Spec == Init /\ [][Next]_slotVars
=============================================================================
