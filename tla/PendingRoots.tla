---------------------------- MODULE PendingRoots ----------------------------
(***************************************************************************)
(* The multi-root principal queue of the intent scheduler                  *)
(* (src/core/intent-scheduler.mjs): the root intents that several human    *)
(* principals have queued for the one physical worker, and the ledger that *)
(* shares the worker between those principals.                             *)
(*                                                                         *)
(* A root is an element of `roots`, the array pendingRootIntents; `ledger` *)
(* is principalFairnessLedger, whose domain is the set of principals that  *)
(* own at least one root; `generation` is the scheduler generation that a  *)
(* new root is stamped with.  The actions are the three functions that     *)
(* rewrite this state with the scheduler method that commits each of them; *)
(* the scheduler module composes them with the worker's life cycle.        *)
(*                                                                         *)
(* Abstracted: fingerprints, project, thread and channel refs and the byte *)
(* budget (an operation that exceeds it throws and changes nothing), and   *)
(* the ledger's lastConsideredGeneration and lastDisposition, which no     *)
(* code reads.  submittedGeneration always equals readySinceGeneration, so *)
(* one field stands for both.                                              *)
(***************************************************************************)
EXTENDS Integers, FiniteSets, FiniteSetsExt

CONSTANTS
  Principals,               \* origin principals (intent.originSpeakerRef)
  Intents,                  \* intent refs, numbered in their localeCompare order
  Classes,                  \* the scheduling classes in use
  MaxPendingRoots,          \* policy.maximumPendingRoots
  MaxPendingPrincipals,     \* policy.maximumPendingPrincipals
  MaxRootsPerPrincipal,     \* policy.maximumPendingRootsPerPrincipal
  MaxGeneration             \* bound of the model on the scheduler generation

\* CLASS_ORDER: a smaller rank is served first.
ClassRank == [INTERACTIVE |-> 0, EXPEDITE |-> 1, RECOVERY |-> 2,
              NORMAL |-> 3, BACKGROUND |-> 4]

\* What multiRootPolicy requires of the registry's limits.
ASSUME PolicyAssumption ==
  /\ Intents \subseteq Nat
  /\ Classes \subseteq DOMAIN ClassRank
  /\ MaxPendingRoots \in Nat \ {0}
  /\ MaxPendingPrincipals \in 1..MaxPendingRoots
  /\ MaxRootsPerPrincipal \in 1..MaxPendingRoots
  /\ MaxGeneration \in Nat

VARIABLES
  roots,        \* the set of pending root records
  ledger,       \* principal -> [readySince, deferral, count]
  generation    \* the aggregate's scheduler generation

rootVars == <<roots, ledger>>
queueVars == <<roots, ledger, generation>>

Root == [intent: Intents, principal: Principals, class: Classes,
         readySince: Nat, deferral: Nat]
Fairness == [readySince: Nat, deferral: Nat, count: Nat]

Owned(R, p) == {r \in R : r.principal = p}
Owners(R)   == {r.principal : r \in R}

\* Defective variant: a principal's age is forgotten.
PriorDeferralForgotten(p) == 0

\* What the ledger remembers of a principal, 0 for one that has no entry.
PriorDeferral(p) == IF p \in DOMAIN ledger THEN ledger[p].deferral ELSE 0

\* The ledger over the roots R, when d maps each principal to its deferral
\* count: a principal left without a root loses its entry.
RebuiltLedger(R, d) ==
  [p \in Owners(R) |->
     [readySince |-> Min({r.readySince : r \in Owned(R, p)}),
      deferral   |-> d[p],
      count      |-> Cardinality(Owned(R, p))]]

\* Defective variant: the counts stay in the ledger only.
MirroredNot(R, L) == R

\* The roots R, each carrying its principal's deferral count.
Mirrored(R, L) == {[r EXCEPT !.deferral = L[r.principal].deferral] : r \in R}

\* Every operation ends by replacing both parts of the state together.
Install(R, d) ==
  /\ ledger' = RebuiltLedger(R, d)
  /\ roots'  = Mirrored(R, ledger')

(***************************************************************************)
(* Selection: the highest class present; of each principal its oldest root *)
(* of that class; of those, the most deferred principal's, then the oldest.*)
(***************************************************************************)
\* Defective variant: without the tie-break by intentRef.
OlderUntied(a, b) == a.readySince < b.readySince

Older(a, b) ==
  \/ a.readySince < b.readySince
  \/ a.readySince = b.readySince /\ a.intent < b.intent

ClassPool ==
  {r \in roots : \A q \in roots : ClassRank[r.class] <= ClassRank[q.class]}

PrincipalCandidates ==
  {r \in ClassPool :
     \A q \in ClassPool : q.principal = r.principal /\ q # r => Older(r, q)}

\* Defective variant: the age of the principals is ignored.
WinsOverUnaged(a, b) == Older(a, b)

WinsOver(a, b) ==
  \/ ledger[a.principal].deferral > ledger[b.principal].deferral
  \/ /\ ledger[a.principal].deferral = ledger[b.principal].deferral
     /\ Older(a, b)

IsCurrentSelection(r) ==
  /\ r \in PrincipalCandidates
  /\ \A q \in PrincipalCandidates : q # r => WinsOver(r, q)

\* The other principals that queued a root of the class that is served.
Competitors(r) == {q.principal : q \in {x \in roots : x.class = r.class}} \ {r.principal}

-----------------------------------------------------------------------------
RootsInit ==
  /\ roots = {}
  /\ ledger = [p \in {} |-> 0]
  /\ generation = 0

\* enqueueRootIntent: a known intentRef is a no-op (or throws when its
\* identity differs), and so is a root that exceeds a limit.
Enqueue(i, p, c) ==
  LET new  == [intent |-> i, principal |-> p, class |-> c,
               readySince |-> generation, deferral |-> PriorDeferral(p)]
      R    == roots \cup {new}
  IN  /\ \A r \in roots : r.intent # i
      /\ Cardinality(R) <= MaxPendingRoots
      /\ Cardinality(Owners(R)) <= MaxPendingPrincipals
      /\ Cardinality(Owned(R, p)) <= MaxRootsPerPrincipal
      /\ Install(R, [q \in Owners(R) |-> PriorDeferral(q)])

\* cancelQueuedRootIntent: only the origin principal may withdraw a root.
CancelQueued(r, requester) ==
  LET R == roots \ {r}
  IN  /\ r \in roots
      /\ requester = r.principal
      /\ Install(R, [q \in Owners(R) |-> PriorDeferral(q)])

\* Who ages when the root r is taken: the principal served is reset, its
\* competitors of the same class age by one, every other principal keeps
\* its count.
DeferralAfter(r, q) ==
  IF q = r.principal THEN 0
  ELSE PriorDeferral(q) + (IF q \in Competitors(r) THEN 1 ELSE 0)

\* consumePendingRootSelection with requireCurrentSelection, as a lease of
\* the worker commits it.
Consume(r) ==
  LET R == roots \ {r}
  IN  /\ IsCurrentSelection(r)
      /\ Install(R, [q \in Owners(R) |-> DeferralAfter(r, q)])

\* The scheduler admits a graph: the generation advances.
AdvanceGeneration ==
  /\ generation < MaxGeneration
  /\ generation' = generation + 1
  /\ UNCHANGED rootVars

RootsNext ==
  \/ \E i \in Intents, p \in Principals, c \in Classes :
       Enqueue(i, p, c) /\ UNCHANGED generation
  \/ \E r \in roots, q \in Principals : CancelQueued(r, q) /\ UNCHANGED generation
  \/ \E r \in roots : Consume(r) /\ UNCHANGED generation
  \/ AdvanceGeneration

RootsSpec == RootsInit /\ [][RootsNext]_queueVars

-----------------------------------------------------------------------------
\* Type invariant.
RootsTypeOK ==
  /\ roots \in SUBSET Root
  /\ IsFiniteSet(roots)
  /\ ledger \in [Owners(roots) -> Fairness]
  /\ generation \in Nat

\* No intentRef is queued twice.
UniqueIntents == \A r, q \in roots : r.intent = q.intent => r = q

\* The ledger and the roots agree on ownership, counts, ages and deferrals.
MirrorsAgree ==
  \A p \in Owners(roots) :
    /\ ledger[p].count = Cardinality(Owned(roots, p))
    /\ \A r \in Owned(roots, p) : ledger[p].readySince <= r.readySince
    /\ \E r \in Owned(roots, p) : ledger[p].readySince = r.readySince
    /\ \A r \in Owned(roots, p) : r.deferral = ledger[p].deferral

WithinLimits ==
  /\ Cardinality(roots) <= MaxPendingRoots
  /\ Cardinality(DOMAIN ledger) <= MaxPendingPrincipals
  /\ \A p \in Principals : Cardinality(Owned(roots, p)) <= MaxRootsPerPrincipal

\* The state every operation leaves is one that validatePendingRootSchedulerState
\* accepts: the validator runs before and after each operation, so a single
\* state it rejects would make every later operation throw.
ValidState == UniqueIntents /\ MirrorsAgree /\ WithinLimits

\* Whatever is queued, exactly one root is the current selection: the
\* tie-breaks of selectNextPendingRoot leave no two candidates level, so a
\* queue bound to the selection can be recognised as current.
SelectionTotal ==
  roots # {} =>
    \E r \in roots : IsCurrentSelection(r) /\ \A q \in roots : IsCurrentSelection(q) => q = r

\* The principals that have been passed over at least k times.
DeferredAtLeast(k) == {p \in DOMAIN ledger : ledger[p].deferral >= k}

\* The deferral counts form a ladder: at most MaxPendingPrincipals - k
\* principals have been passed over k times or more.
DeferralLadder ==
  \A k \in 0..MaxPendingPrincipals :
    DeferredAtLeast(k) # {} =>
      Cardinality(DeferredAtLeast(k)) + k <= MaxPendingPrincipals

\* Bounded bypass: a waiting principal is passed over by its competitors fewer
\* times than there can be principals, whatever classes it and they queue in,
\* and whatever they cancel and queue again.
BoundedBypass ==
  \A p \in DOMAIN ledger : ledger[p].deferral < MaxPendingPrincipals

\* A waiting principal's age is lost only when it is served, and grows only when
\* it is passed over by a competitor, by one: queueing or withdrawing work neither
\* resets nor inflates anybody's, and one who has just come to wait brings none.
AgeKeptUntilServed ==
  [][\A p \in DOMAIN ledger' :
       LET before == IF p \in DOMAIN ledger THEN ledger[p].deferral ELSE 0
           after  == ledger'[p].deferral
       IN  /\ after < before => \E r \in Owned(roots, p) : Consume(r)
           /\ after > before =>
                after = before + 1 /\ \E r \in roots : p \in Competitors(r) /\ Consume(r)
    ]_queueVars
=============================================================================
