--------------------------- MODULE SchedulerProofs --------------------------
(***************************************************************************)
(* Theorems about the scheduler for every value of the constants. The      *)
(* queue of roots stays valid and serves every root within its bound; the  *)
(* one worker slot is implemented (WorkerSlot), the lease ledger agrees    *)
(* with the aggregate, no lease goes past the queue, recovery claims       *)
(* agree with the pointers and leases, no checkpoint is resumed twice,     *)
(* stops and preempted work can be resumed; and about the tool relay       *)
(* under it: what a checkpoint names waits for it, ended work owes no      *)
(* answer, and a request is answered and used at most once (OneAnswer).    *)
(*                                                                         *)
(* RootsInv is about the queue alone and WorkerInv about the worker and    *)
(* the admission that may lease it; what it needs of the past is that a    *)
(* checkpoint names work. ClaimInv adds the last edge of each              *)
(* checkpoint's recovery story, ContInv the checkpoints that preempted     *)
(* work waits at, HoldInv the calls those checkpoints name, in the relay   *)
(* and on file, and AnswerInv that the relay's ledger grew out of the one  *)
(* on file.                                                                *)
(***************************************************************************)
EXTENDS ToolRelay, FiniteSetTheorems, WellFoundedInduction, TLAPS

-----------------------------------------------------------------------------
(* Minima, images and the roots' records.                                  *)

\* A non-empty set of naturals has a least element, and Min returns it.
LEMMA MinOfNaturals ==
  ASSUME NEW S \in SUBSET Nat, S # {}
  PROVE  Min(S) \in S /\ \A x \in S : Min(S) <= x
<1>1. PICK x \in S : \A y \in S : ~(<<y, x>> \in OpToRel(<, Nat))
  BY NatLessThanWellFounded, WFMin
<1>2. \A y \in S : ~(y < x)
  BY <1>1, Zenon DEF OpToRel
<1>3. \E m \in S : \A y \in S : m <= y
  BY <1>2
<1>4. QED
  BY <1>3, Zenon DEF Min

\* Renaming each element of a finite set apart keeps its cardinality.
LEMMA InjectiveImage ==
  ASSUME NEW S, IsFiniteSet(S), NEW T, NEW f \in [S -> T],
         \A t \in T : \E s \in S : f[s] = t,
         \A s1, s2 \in S : f[s1] = f[s2] => s1 = s2
  PROVE  IsFiniteSet(T) /\ Cardinality(T) = Cardinality(S)
<1>1. f \in Bijection(S, T)
  BY DEF Bijection, Surjection, Injection, IsInjective
<1>2. QED
  BY <1>1, FS_Bijection DEF ExistsBijection

\* The principals of finitely many roots are finitely many.
LEMMA OwnersFinite ==
  ASSUME NEW R, IsFiniteSet(R)
  PROVE  IsFiniteSet(Owners(R)) /\ Cardinality(Owners(R)) <= Cardinality(R)
<1> DEFINE f == [r \in R |-> r.principal]
<1>1. f \in Surjection(R, Owners(R))
  BY DEF Surjection, Owners
<1>2. QED
  BY <1>1, FS_Surjection

\* So are the roots of each of them.
LEMMA OwnedFinite ==
  ASSUME NEW R, IsFiniteSet(R), NEW p
  PROVE  IsFiniteSet(Owned(R, p)) /\ Cardinality(Owned(R, p)) \in Nat
<1>1. Owned(R, p) \in SUBSET R
  BY DEF Owned
<1>2. QED
  BY <1>1, FS_Subset, FS_CardinalityType

-----------------------------------------------------------------------------
(* The common last step of every operation.                                *)

\* Installing the roots R with the deferral counts d leaves a well-typed state
\* whose ledger and roots agree and that holds the same roots per principal.
LEMMA InstallEffect ==
  ASSUME NEW R \in SUBSET Root, IsFiniteSet(R),
         \A r, q \in R : r.intent = q.intent => r = q,
         NEW d \in [Owners(R) -> Nat],
         Install(R, d)
  PROVE  /\ roots' \in SUBSET Root
         /\ IsFiniteSet(roots')
         /\ Owners(roots') = Owners(R)
         /\ ledger' \in [Owners(R) -> Fairness]
         /\ \A p \in Owners(R) : ledger'[p].deferral = d[p]
         /\ UniqueIntents'
         /\ MirrorsAgree'
         /\ Cardinality(roots') = Cardinality(R)
         /\ \A p \in Principals : Cardinality(Owned(roots', p)) = Cardinality(Owned(R, p))
<1> DEFINE m == [r \in R |-> [r EXCEPT !.deferral = ledger'[r.principal].deferral]]
<1>1. /\ ledger' = RebuiltLedger(R, d)
      /\ roots' = {m[r] : r \in R}
  BY DEF Install, Mirrored
<1>2. ASSUME NEW p \in Owners(R)
      PROVE  /\ Min({r.readySince : r \in Owned(R, p)}) \in Nat
             /\ \A r \in Owned(R, p) : Min({q.readySince : q \in Owned(R, p)}) <= r.readySince
             /\ \E r \in Owned(R, p) : Min({q.readySince : q \in Owned(R, p)}) = r.readySince
  <2> DEFINE S == {r.readySince : r \in Owned(R, p)}
  <2>1. S \in SUBSET Nat /\ S # {}
    BY <1>2 DEF Owned, Owners, Root
  <2>2. Min(S) \in S /\ \A x \in S : Min(S) <= x
    BY <2>1, MinOfNaturals
  <2>3. QED
    BY <2>1, <2>2
<1>3. /\ ledger' \in [Owners(R) -> Fairness]
      /\ \A p \in Owners(R) :
           /\ ledger'[p].deferral = d[p]
           /\ ledger'[p].count = Cardinality(Owned(R, p))
           /\ ledger'[p].readySince = Min({r.readySince : r \in Owned(R, p)})
  BY <1>1, <1>2, OwnedFinite DEF RebuiltLedger, Fairness
<1>4. \A r \in R : /\ m[r] \in Root
                   /\ m[r].intent = r.intent
                   /\ m[r].principal = r.principal
                   /\ m[r].readySince = r.readySince
                   /\ m[r].deferral = ledger'[r.principal].deferral
  BY <1>3 DEF Root, Owners, Fairness
<1>5. m \in [R -> roots'] /\ \A t \in roots' : \E s \in R : m[s] = t
  BY <1>1
<1> HIDE DEF m
<1>5a. roots' \in SUBSET Root
  BY <1>1, <1>4
<1>6. IsFiniteSet(roots') /\ Cardinality(roots') = Cardinality(R)
  <2>1. \A r, q \in R : m[r] = m[q] => r = q
    BY <1>4
  <2>2. QED
    BY <1>5, <2>1, InjectiveImage
<1>7. Owners(roots') = Owners(R)
  BY <1>1, <1>4 DEF Owners
<1>8. UniqueIntents'
  BY <1>1, <1>4 DEF UniqueIntents
<1>9. ASSUME NEW p
      PROVE  Cardinality(Owned(roots', p)) = Cardinality(Owned(R, p))
  <2> DEFINE mp == [r \in Owned(R, p) |-> m[r]]
  <2>1. mp \in [Owned(R, p) -> Owned(roots', p)]
    BY <1>1, <1>4 DEF Owned
  <2>2. \A t \in Owned(roots', p) : \E s \in Owned(R, p) : mp[s] = t
    BY <1>1, <1>4 DEF Owned
  <2>3. \A r, q \in Owned(R, p) : mp[r] = mp[q] => r = q
    BY <1>4 DEF Owned
  <2>4. QED
    BY <2>1, <2>2, <2>3, OwnedFinite, InjectiveImage
<1>10. MirrorsAgree'
  <2> SUFFICES ASSUME NEW p \in Owners(roots')
               PROVE  /\ ledger'[p].count = Cardinality(Owned(roots', p))
                      /\ \A r \in Owned(roots', p) : ledger'[p].readySince <= r.readySince
                      /\ \E r \in Owned(roots', p) : ledger'[p].readySince = r.readySince
                      /\ \A r \in Owned(roots', p) : r.deferral = ledger'[p].deferral
    BY DEF MirrorsAgree
  <2>1. p \in Owners(R)
    BY <1>7
  <2>2. ledger'[p].count = Cardinality(Owned(roots', p))
    BY <2>1, <1>3, <1>9
  <2>3. Owned(roots', p) = {m[r] : r \in Owned(R, p)}
    BY <1>1, <1>4 DEF Owned
  <2>4. \A r \in Owned(R, p) : r \in R /\ r.principal = p
    BY DEF Owned
  <2> DEFINE least == Min({r.readySince : r \in Owned(R, p)})
  <2>a. /\ ledger'[p].readySince = least
        /\ \A r \in Owned(R, p) : least <= r.readySince
        /\ \E r \in Owned(R, p) : least = r.readySince
    BY <2>1, <1>2, <1>3
  <2> HIDE DEF least
  <2>5. \A r \in Owned(roots', p) : ledger'[p].readySince <= r.readySince
    BY <2>a, <2>3, <2>4, <1>4
  <2>6. \E r \in Owned(roots', p) : ledger'[p].readySince = r.readySince
    BY <2>a, <2>3, <2>4, <1>4
  <2>7. \A r \in Owned(roots', p) : r.deferral = ledger'[p].deferral
    BY <2>3, <2>4, <1>4
  <2>8. QED
    BY <2>2, <2>5, <2>6, <2>7
<1>11. QED
  BY <1>3, <1>5a, <1>6, <1>7, <1>8, <1>9, <1>10

-----------------------------------------------------------------------------
(* The ladder of deferral counts.                                          *)

\* The inductive invariant: the limits and the mirrors are needed to know
\* that the ledger's domain is finite and bounded, the ladder to bound a count.
RootsInv == RootsTypeOK /\ ValidState /\ DeferralLadder

\* The ledger's entries are those of the owners, naturals as deferral counts.
LEMMA LedgerDomain ==
  ASSUME RootsTypeOK
  PROVE  /\ DOMAIN ledger = Owners(roots)
         /\ IsFiniteSet(Owners(roots))
         /\ \A p \in Owners(roots) : /\ PriorDeferral(p) = ledger[p].deferral
                                     /\ ledger[p].deferral \in Nat
         /\ \A p : p \notin Owners(roots) => PriorDeferral(p) = 0
         /\ \A p : PriorDeferral(p) \in Nat
<1>1. DOMAIN ledger = Owners(roots) /\ \A p \in Owners(roots) : ledger[p].deferral \in Nat
  BY DEF RootsTypeOK, Fairness
<1>2. IsFiniteSet(Owners(roots))
  BY OwnersFinite DEF RootsTypeOK
<1>3. QED
  BY <1>1, <1>2 DEF PriorDeferral

\* A rung onto which an operation pushes nobody stays within its bound.
LEMMA RungDescends ==
  ASSUME RootsTypeOK, RootsTypeOK', WithinLimits', DeferralLadder,
         NEW k \in 0..MaxPendingPrincipals, DeferredAtLeast(k)' # {},
         k # 0 => DeferredAtLeast(k)' \subseteq DeferredAtLeast(k)
  PROVE  Cardinality(DeferredAtLeast(k)') + k <= MaxPendingPrincipals
<1>1. MaxPendingPrincipals \in Nat
  BY PolicyAssumption
<1>2. CASE k = 0
  <2>1. DOMAIN (ledger') = Owners(roots') /\ IsFiniteSet(Owners(roots'))
    BY OwnersFinite DEF RootsTypeOK
  <2>2. DeferredAtLeast(k)' \in SUBSET (DOMAIN ledger')
    BY DEF DeferredAtLeast
  <2>3. Cardinality(DeferredAtLeast(k)') <= Cardinality(DOMAIN ledger')
    BY <2>1, <2>2, FS_Subset
  <2>4. Cardinality(DeferredAtLeast(k)') \in Nat /\ Cardinality(DOMAIN ledger') \in Nat
    BY <2>1, <2>2, FS_Subset, FS_CardinalityType
  <2>5. QED
    BY <1>1, <1>2, <2>3, <2>4 DEF WithinLimits
<1>3. CASE k # 0
  <2>1. k \in 1..MaxPendingPrincipals
    BY <1>1, <1>3
  <2>2. DeferredAtLeast(k)' \in SUBSET DeferredAtLeast(k) /\ DeferredAtLeast(k) # {}
    BY <1>3
  <2>3. IsFiniteSet(DeferredAtLeast(k))
    <3>1. DeferredAtLeast(k) \in SUBSET Owners(roots)
      BY LedgerDomain DEF DeferredAtLeast
    <3>2. QED
      BY <3>1, LedgerDomain, FS_Subset
  <2>4. /\ Cardinality(DeferredAtLeast(k)') <= Cardinality(DeferredAtLeast(k))
        /\ Cardinality(DeferredAtLeast(k)') \in Nat
        /\ Cardinality(DeferredAtLeast(k)) \in Nat
    BY <2>2, <2>3, FS_Subset, FS_CardinalityType
  <2>5. Cardinality(DeferredAtLeast(k)) + k <= MaxPendingPrincipals
    BY <2>2 DEF DeferralLadder
  <2>6. QED
    BY <1>1, <2>4, <2>5
<1>4. QED
  BY <1>2, <1>3

\* An operation that pushes nobody up the ladder keeps it.
LEMMA LadderDescends ==
  ASSUME RootsTypeOK, RootsTypeOK', WithinLimits', DeferralLadder,
         \A k \in 1..MaxPendingPrincipals : DeferredAtLeast(k)' \subseteq DeferredAtLeast(k)
  PROVE  DeferralLadder'
<1> SUFFICES ASSUME NEW k \in 0..MaxPendingPrincipals, DeferredAtLeast(k)' # {}
             PROVE  Cardinality(DeferredAtLeast(k)') + k <= MaxPendingPrincipals
  BY DEF DeferralLadder
<1>1. k # 0 => k \in 1..MaxPendingPrincipals
  BY PolicyAssumption
<1>2. QED
  BY <1>1, RungDescends

\* The limits hold of what is left when a root is taken out.
LEMMA RemovalKeepsLimits ==
  ASSUME RootsTypeOK, ValidState, NEW r \in roots, NEW d \in [Owners(roots \ {r}) -> Nat],
         Install(roots \ {r}, d), generation' \in Nat
  PROVE  /\ RootsTypeOK' /\ ValidState'
         /\ DOMAIN ledger' = Owners(roots \ {r})
         /\ Owners(roots \ {r}) \subseteq Owners(roots)
         /\ \A p \in Owners(roots \ {r}) : ledger'[p].deferral = d[p]
<1> DEFINE R == roots \ {r}
<1>1. R \in SUBSET Root /\ IsFiniteSet(R) /\ Cardinality(R) <= Cardinality(roots)
      /\ Cardinality(R) \in Nat /\ Cardinality(roots) \in Nat
  BY FS_Subset, FS_CardinalityType DEF RootsTypeOK
<1>2. \A a, b \in R : a.intent = b.intent => a = b
  BY DEF ValidState, UniqueIntents
<1>3. /\ roots' \in SUBSET Root
      /\ IsFiniteSet(roots')
      /\ Owners(roots') = Owners(R)
      /\ ledger' \in [Owners(R) -> Fairness]
      /\ \A p \in Owners(R) : ledger'[p].deferral = d[p]
      /\ UniqueIntents'
      /\ MirrorsAgree'
      /\ Cardinality(roots') = Cardinality(R)
      /\ \A p \in Principals : Cardinality(Owned(roots', p)) = Cardinality(Owned(R, p))
  BY <1>1, <1>2, InstallEffect
<1>4. Owners(R) \in SUBSET Owners(roots)
  BY DEF Owners
<1>5. MaxPendingRoots \in Nat /\ MaxPendingPrincipals \in Nat /\ MaxRootsPerPrincipal \in Nat
  BY PolicyAssumption
<1>6. WithinLimits'
  <2>1. Cardinality(roots') <= MaxPendingRoots
    BY <1>1, <1>3, <1>5 DEF ValidState, WithinLimits
  <2>2. Cardinality(DOMAIN ledger') <= MaxPendingPrincipals
    <3>1. DOMAIN ledger' = Owners(R) /\ DOMAIN ledger = Owners(roots)
      BY <1>3, LedgerDomain
    <3>2. /\ Cardinality(Owners(R)) <= Cardinality(Owners(roots))
          /\ Cardinality(Owners(R)) \in Nat /\ Cardinality(Owners(roots)) \in Nat
      BY <1>4, LedgerDomain, FS_Subset, FS_CardinalityType
    <3>3. QED
      BY <3>1, <3>2, <1>5 DEF ValidState, WithinLimits
  <2>3. ASSUME NEW p \in Principals
        PROVE  Cardinality(Owned(roots', p)) <= MaxRootsPerPrincipal
    <3>1. Owned(R, p) \in SUBSET Owned(roots, p)
      BY DEF Owned
    <3>2. IsFiniteSet(Owned(roots, p)) /\ Cardinality(Owned(roots, p)) \in Nat
      BY OwnedFinite DEF RootsTypeOK
    <3>3. Cardinality(Owned(R, p)) <= Cardinality(Owned(roots, p)) /\ Cardinality(Owned(R, p)) \in Nat
      BY <3>1, <3>2, FS_Subset, FS_CardinalityType
    <3>4. Cardinality(Owned(roots, p)) <= MaxRootsPerPrincipal
      BY DEF ValidState, WithinLimits
    <3>5. Cardinality(Owned(roots', p)) = Cardinality(Owned(R, p))
      BY <1>3
    <3>6. QED
      BY <3>2, <3>3, <3>4, <3>5, <1>5
  <2>4. QED
    BY <2>1, <2>2, <2>3 DEF WithinLimits
<1>7. RootsTypeOK'
  BY <1>3 DEF RootsTypeOK
<1>8. QED
  BY <1>3, <1>4, <1>6, <1>7 DEF ValidState

-----------------------------------------------------------------------------
(* One lemma per operation.                                                *)

\* A new root pushes nobody up the ladder and stays within the limits.
LEMMA EnqueueInv ==
  ASSUME RootsInv, NEW i \in Intents, NEW p \in Principals, NEW c \in Classes,
         Enqueue(i, p, c), UNCHANGED generation
  PROVE  RootsInv'
<1> USE DEF RootsInv
<1> DEFINE new == [intent |-> i, principal |-> p, class |-> c,
                   readySince |-> generation, deferral |-> PriorDeferral(p)]
           R == roots \cup {new}
           d == [q \in Owners(R) |-> PriorDeferral(q)]
<1>1. /\ \A r \in roots : r.intent # i
      /\ Cardinality(R) <= MaxPendingRoots
      /\ Cardinality(Owners(R)) <= MaxPendingPrincipals
      /\ Cardinality(Owned(R, p)) <= MaxRootsPerPrincipal
      /\ Install(R, d)
  BY DEF Enqueue
<1>2. new \in Root /\ new.intent = i /\ new.principal = p
  BY LedgerDomain DEF Root, RootsTypeOK
<1> HIDE DEF new
<1>3. R \in SUBSET Root /\ IsFiniteSet(R)
  BY <1>2, FS_AddElement DEF RootsTypeOK
<1>4. \A a, b \in R : a.intent = b.intent => a = b
  BY <1>1, <1>2 DEF ValidState, UniqueIntents
<1>5. d \in [Owners(R) -> Nat]
  BY LedgerDomain
<1>6. Owners(R) = Owners(roots) \cup {p}
  BY <1>2 DEF Owners
<1>7. \A q \in Principals \ {p} : Owned(R, q) = Owned(roots, q)
  BY <1>2 DEF Owned
<1>8. \A q \in Owners(R) : d[q] = PriorDeferral(q)
  OBVIOUS
<1> HIDE DEF R, d
<1>9. /\ roots' \in SUBSET Root
      /\ IsFiniteSet(roots')
      /\ Owners(roots') = Owners(R)
      /\ ledger' \in [Owners(R) -> Fairness]
      /\ \A q \in Owners(R) : ledger'[q].deferral = d[q]
      /\ UniqueIntents'
      /\ MirrorsAgree'
      /\ Cardinality(roots') = Cardinality(R)
      /\ \A q \in Principals : Cardinality(Owned(roots', q)) = Cardinality(Owned(R, q))
  BY <1>1, <1>3, <1>4, <1>5, InstallEffect
<1>10. RootsTypeOK'
  BY <1>9 DEF RootsTypeOK
<1>11. WithinLimits'
  <2>1. \A q \in Principals : Cardinality(Owned(roots', q)) <= MaxRootsPerPrincipal
    BY <1>1, <1>7, <1>9 DEF ValidState, WithinLimits
  <2>2. QED
    BY <1>1, <1>9, <2>1 DEF WithinLimits
<1>12. DeferralLadder'
  <2>1. ASSUME NEW k \in 1..MaxPendingPrincipals, NEW q \in DeferredAtLeast(k)'
        PROVE  q \in DeferredAtLeast(k)
    <3>1. q \in Owners(R) /\ PriorDeferral(q) >= k
      BY <2>1, <1>8, <1>9 DEF DeferredAtLeast
    <3>2. k >= 1 /\ k \in Nat
      BY PolicyAssumption
    <3>3. q \in Owners(roots)
      BY <3>1, <3>2, LedgerDomain
    <3>4. QED
      BY <3>1, <3>3, LedgerDomain DEF DeferredAtLeast
  <2>2. QED
    BY <1>10, <1>11, <2>1, LadderDescends
<1>13. QED
  BY <1>9, <1>10, <1>11, <1>12 DEF ValidState

\* Nor does a withdrawal.
LEMMA CancelInv ==
  ASSUME RootsInv, NEW r \in roots, NEW q \in Principals,
         CancelQueued(r, q), UNCHANGED generation
  PROVE  RootsInv'
<1> USE DEF RootsInv
<1> DEFINE R == roots \ {r}
           d == [p \in Owners(R) |-> PriorDeferral(p)]
<1>1. Install(R, d)
  BY DEF CancelQueued
<1>2. d \in [Owners(R) -> Nat] /\ \A p \in Owners(R) : d[p] = PriorDeferral(p)
  BY LedgerDomain
<1> HIDE DEF d
<1>3. /\ RootsTypeOK' /\ ValidState'
      /\ DOMAIN ledger' = Owners(R)
      /\ Owners(R) \subseteq Owners(roots)
      /\ \A p \in Owners(R) : ledger'[p].deferral = d[p]
  <2>1. generation' \in Nat
    BY DEF RootsTypeOK
  <2>2. QED
    BY <1>1, <1>2, <2>1, RemovalKeepsLimits
<1>4. \A k \in 1..MaxPendingPrincipals : DeferredAtLeast(k)' \subseteq DeferredAtLeast(k)
  BY <1>2, <1>3, LedgerDomain DEF DeferredAtLeast
<1>5. DeferralLadder'
  BY <1>3, <1>4, LadderDescends DEF ValidState
<1>6. QED
  BY <1>3, <1>5

\* Among the roots of a non-empty set one is older than all the others.
LEMMA OldestExists ==
  ASSUME RootsTypeOK, UniqueIntents, NEW X \in SUBSET roots, X # {}
  PROVE  \E x \in X : \A y \in X : y # x => Older(x, y)
<1>1. \A x \in X : x \in Root /\ x.readySince \in Nat /\ x.intent \in Nat
  BY PolicyAssumption DEF RootsTypeOK, Root
<1> DEFINE g == Min({x.readySince : x \in X})
           Y == {x \in X : x.readySince = g}
           n == Min({x.intent : x \in Y})
<1>2. g \in {x.readySince : x \in X} /\ \A x \in X : g <= x.readySince
  <2> DEFINE T == {x.readySince : x \in X}
  <2>1. T \in SUBSET Nat /\ T # {}
    BY <1>1
  <2>2. Min(T) \in T /\ \A t \in T : Min(T) <= t
    BY <2>1, MinOfNaturals
  <2>3. QED
    BY <2>2
<1> HIDE DEF g
<1>3. Y # {} /\ Y \subseteq X
  BY <1>2
<1>4. n \in {x.intent : x \in Y} /\ \A x \in Y : n <= x.intent
  <2> DEFINE T == {x.intent : x \in Y}
  <2>1. T \in SUBSET Nat /\ T # {}
    BY <1>1, <1>3
  <2>2. Min(T) \in T /\ \A t \in T : Min(T) <= t
    BY <2>1, MinOfNaturals
  <2>3. QED
    BY <2>2
<1> HIDE DEF n
<1>5. PICK x \in Y : x.intent = n
  BY <1>4
<1>6. ASSUME NEW y \in X, y # x
      PROVE  Older(x, y)
  <2>1. y.intent # x.intent
    BY <1>6, <1>3 DEF UniqueIntents
  <2>2. CASE y.readySince = g
    <3>1. x.intent <= y.intent /\ x.readySince = y.readySince
      BY <2>2, <1>4, <1>5
    <3>2. QED
      BY <3>1, <2>1, <1>1, <1>3 DEF Older
  <2>3. CASE y.readySince # g
    <3>1. x.readySince = g /\ g <= y.readySince /\ g \in Nat /\ y.readySince \in Nat
      BY <1>1, <1>2
    <3>2. QED
      BY <3>1, <2>3 DEF Older
  <2>4. QED
    BY <2>2, <2>3
<1>7. QED
  BY <1>3, <1>6

\* Whoever is served has waited as long as every competitor.
LEMMA ServedIsMostDeferred ==
  ASSUME RootsTypeOK, UniqueIntents, NEW r \in roots, IsCurrentSelection(r),
         NEW q \in Competitors(r)
  PROVE  ledger[q].deferral <= ledger[r.principal].deferral
<1> DEFINE X == {x \in ClassPool : x.principal = q}
<1>1. X \in SUBSET roots
  BY DEF ClassPool
<1>2. X # {}
  BY DEF Competitors, IsCurrentSelection, PrincipalCandidates, ClassPool
<1>3. PICK x \in X : \A y \in X : y # x => Older(x, y)
  BY <1>1, <1>2, OldestExists
<1>4. x \in PrincipalCandidates /\ x.principal = q /\ q # r.principal
  BY <1>3 DEF PrincipalCandidates, Competitors
<1>5. WinsOver(r, x)
  BY <1>4 DEF IsCurrentSelection
<1>6. /\ ledger[q].deferral \in Nat
      /\ ledger[r.principal].deferral \in Nat
  BY <1>1, <1>4, LedgerDomain DEF Owners
<1>7. QED
  BY <1>4, <1>5, <1>6 DEF WinsOver

\* The heart of the matter: the principal served is one of the most deferred
\* of those it competed with, so if a competitor climbs to k, the principal
\* served leaves a rung k-1 that counted it.
LEMMA ConsumeInv ==
  ASSUME RootsInv, NEW r \in roots, Consume(r), generation' \in Nat
  PROVE  RootsInv'
<1> USE DEF RootsInv
<1> DEFINE R == roots \ {r}
           d == [p \in Owners(R) |-> DeferralAfter(r, p)]
           s == r.principal
<1>1. Install(R, d) /\ IsCurrentSelection(r)
  BY DEF Consume
<1>2. d \in [Owners(R) -> Nat] /\ \A p \in Owners(R) : d[p] = DeferralAfter(r, p)
  BY LedgerDomain DEF DeferralAfter
<1> HIDE DEF d
<1>3. /\ RootsTypeOK' /\ ValidState'
      /\ DOMAIN ledger' = Owners(R)
      /\ Owners(R) \subseteq Owners(roots)
      /\ \A p \in Owners(R) : ledger'[p].deferral = d[p]
  BY <1>1, <1>2, RemovalKeepsLimits
<1>4. DeferralLadder'
  <2> SUFFICES ASSUME NEW k \in 0..MaxPendingPrincipals, DeferredAtLeast(k)' # {}
               PROVE  Cardinality(DeferredAtLeast(k)') + k <= MaxPendingPrincipals
    BY DEF DeferralLadder
  <2>1. MaxPendingPrincipals \in Nat /\ k \in Nat
    BY PolicyAssumption
  <2>2. ASSUME NEW p \in DeferredAtLeast(k)', k # 0
        PROVE  /\ p \in Owners(roots) /\ p # s
               /\ p \notin Competitors(r) => p \in DeferredAtLeast(k)
               /\ p \in DeferredAtLeast(k - 1)
    <3>1. p \in Owners(R) /\ DeferralAfter(r, p) >= k
      BY <1>2, <1>3 DEF DeferredAtLeast
    <3>2. p # s
      BY <3>1, <2>1, <2>2 DEF DeferralAfter
    <3>3. /\ p \in Owners(roots)
          /\ PriorDeferral(p) = ledger[p].deferral
          /\ ledger[p].deferral \in Nat
          /\ DOMAIN ledger = Owners(roots)
      BY <3>1, <1>3, LedgerDomain
    <3>4. ledger[p].deferral >= k - 1 /\ (p \notin Competitors(r) => ledger[p].deferral >= k)
      BY <3>1, <3>2, <3>3, <2>1 DEF DeferralAfter
    <3>5. QED
      BY <3>2, <3>3, <3>4 DEF DeferredAtLeast
  <2>3. CASE k # 0 /\ \E q \in Competitors(r) : q \in DeferredAtLeast(k)'
    <3>1. PICK q \in Competitors(r) : q \in DeferredAtLeast(k)'
      BY <2>3
    <3>2. ledger[q].deferral <= ledger[s].deferral
      BY <1>1, <3>1, ServedIsMostDeferred DEF ValidState
    <3>3. s \in DeferredAtLeast(k - 1)
      <4>1. ledger[q].deferral >= k - 1
        BY <2>2, <2>3, <3>1 DEF DeferredAtLeast
      <4>2. s \in Owners(roots) /\ DOMAIN ledger = Owners(roots)
        BY LedgerDomain DEF Owners
      <4>3. q \in Owners(roots)
        BY <2>2, <2>3, <3>1
      <4>4. ledger[q].deferral \in Nat /\ ledger[s].deferral \in Nat
        BY <4>2, <4>3, LedgerDomain
      <4>5. QED
        BY <2>1, <3>2, <4>1, <4>2, <4>4 DEF DeferredAtLeast
    <3>4. DeferredAtLeast(k)' \in SUBSET (DeferredAtLeast(k - 1) \ {s})
      BY <2>2, <2>3
    <3>5. IsFiniteSet(DeferredAtLeast(k - 1))
      <4>1. DeferredAtLeast(k - 1) \in SUBSET Owners(roots)
        BY LedgerDomain DEF DeferredAtLeast
      <4>2. QED
        BY <4>1, LedgerDomain, FS_Subset
    <3>6. /\ IsFiniteSet(DeferredAtLeast(k - 1) \ {s})
          /\ Cardinality(DeferredAtLeast(k - 1) \ {s}) = Cardinality(DeferredAtLeast(k - 1)) - 1
      BY <3>3, <3>5, FS_RemoveElement
    <3>7. /\ Cardinality(DeferredAtLeast(k)') <= Cardinality(DeferredAtLeast(k - 1) \ {s})
          /\ Cardinality(DeferredAtLeast(k)') \in Nat
          /\ Cardinality(DeferredAtLeast(k - 1)) \in Nat
      BY <3>4, <3>5, <3>6, FS_Subset, FS_CardinalityType
    <3>8. Cardinality(DeferredAtLeast(k - 1)) + (k - 1) <= MaxPendingPrincipals
      <4>1. k - 1 \in 0..MaxPendingPrincipals
        BY <2>1, <2>3
      <4>2. QED
        BY <3>3, <4>1 DEF DeferralLadder
    <3>9. QED
      BY <2>1, <3>6, <3>7, <3>8
  <2>4. CASE ~(k # 0 /\ \E q \in Competitors(r) : q \in DeferredAtLeast(k)')
    <3>1. k # 0 => DeferredAtLeast(k)' \subseteq DeferredAtLeast(k)
      BY <2>2, <2>4
    <3>2. QED
      BY <1>3, <3>1, RungDescends DEF ValidState
  <2>5. QED
    BY <2>3, <2>4
<1>5. QED
  BY <1>3, <1>4

\* The scheduler generation only stamps new roots.
LEMMA AdvanceInv ==
  ASSUME RootsInv, AdvanceGeneration
  PROVE  RootsInv'
BY DEF RootsInv, AdvanceGeneration, rootVars, RootsTypeOK, ValidState, UniqueIntents, MirrorsAgree,
       WithinLimits, DeferralLadder, DeferredAtLeast

-----------------------------------------------------------------------------
\* The empty queue.
LEMMA InitInv == RootsInit => RootsInv
<1> SUFFICES ASSUME RootsInit PROVE RootsInv
  OBVIOUS
<1>1. roots = {} /\ Owners(roots) = {} /\ DOMAIN ledger = {} /\ ledger \in [{} -> Fairness]
  BY DEF RootsInit, Owners
<1>2. RootsTypeOK
  BY <1>1, FS_EmptySet DEF RootsTypeOK, RootsInit
<1>3. \A p : Owned(roots, p) = {}
  BY <1>1 DEF Owned
<1>4. ValidState
  <2>1. UniqueIntents /\ MirrorsAgree
    BY <1>1 DEF UniqueIntents, MirrorsAgree
  <2>2. /\ Cardinality({}) = 0
        /\ 0 <= MaxPendingRoots /\ 0 <= MaxPendingPrincipals /\ 0 <= MaxRootsPerPrincipal
    BY FS_EmptySet, PolicyAssumption
  <2>3. WithinLimits
    BY <1>1, <1>3, <2>2 DEF WithinLimits
  <2>4. QED
    BY <2>1, <2>3 DEF ValidState
<1>5. DeferralLadder
  BY <1>1 DEF DeferralLadder, DeferredAtLeast
<1>6. QED
  BY <1>2, <1>4, <1>5 DEF RootsInv

\* The induction step, one case per operation.
LEMMA NextInv == RootsInv /\ [RootsNext]_queueVars => RootsInv'
<1> SUFFICES ASSUME RootsInv, [RootsNext]_queueVars PROVE RootsInv'
  OBVIOUS
<1>1. ASSUME NEW i \in Intents, NEW p \in Principals, NEW c \in Classes,
             Enqueue(i, p, c), UNCHANGED generation
      PROVE  RootsInv'
  BY <1>1, EnqueueInv
<1>2. ASSUME NEW r \in roots, NEW q \in Principals, CancelQueued(r, q), UNCHANGED generation
      PROVE  RootsInv'
  BY <1>2, CancelInv
<1>3. ASSUME NEW r \in roots, Consume(r), UNCHANGED generation
      PROVE  RootsInv'
  <2>1. generation' \in Nat
    BY <1>3 DEF RootsInv, RootsTypeOK
  <2>2. QED
    BY <1>3, <2>1, ConsumeInv
<1>4. CASE AdvanceGeneration
  BY <1>4, AdvanceInv
<1>5. CASE UNCHANGED queueVars
  BY <1>5 DEF queueVars, RootsInv, RootsTypeOK, ValidState, UniqueIntents, MirrorsAgree, WithinLimits,
              DeferralLadder, DeferredAtLeast
<1>6. QED
  BY <1>1, <1>2, <1>3, <1>4, <1>5 DEF RootsNext

\* The queue's state is always well typed, is always one that the code's own
\* validator accepts, and its deferral counts always form a ladder.
THEOREM InvariantHolds == RootsSpec => []RootsInv
BY InitInv, NextInv, PTL DEF RootsSpec

\* validatePendingRootSchedulerState never rejects a state the operations
\* produced: unique intents, agreeing mirrors, cardinalities within the policy.
THEOREM StateAlwaysValid == RootsSpec => []ValidState
<1>1. RootsInv => ValidState
  BY DEF RootsInv
<1>2. QED
  BY <1>1, InvariantHolds, PTL

\* selectNextPendingRoot and consumePendingRootSelection pass a waiting
\* principal over fewer than MaxPendingPrincipals times.
THEOREM BypassIsBounded == RootsSpec => []BoundedBypass
<1>1. RootsInv => BoundedBypass
  <2> SUFFICES ASSUME RootsInv, NEW p \in DOMAIN ledger
               PROVE  ledger[p].deferral < MaxPendingPrincipals
    BY DEF BoundedBypass
  <2> DEFINE M == MaxPendingPrincipals
  <2>1. M \in Nat /\ ledger[p].deferral \in Nat
    BY PolicyAssumption DEF RootsInv, RootsTypeOK, Fairness
  <2>2. SUFFICES ASSUME ledger[p].deferral >= M PROVE FALSE
    BY <2>1
  <2>3. p \in DeferredAtLeast(M)
    BY <2>2 DEF DeferredAtLeast
  <2>4. DeferredAtLeast(M) \in SUBSET Owners(roots)
    BY LedgerDomain DEF RootsInv, DeferredAtLeast
  <2>5. IsFiniteSet(DeferredAtLeast(M))
    BY <2>4, LedgerDomain, FS_Subset DEF RootsInv
  <2>6. Cardinality(DeferredAtLeast(M)) \in Nat /\ Cardinality(DeferredAtLeast(M)) # 0
    BY <2>3, <2>5, FS_CardinalityType, FS_EmptySet
  <2>7. Cardinality(DeferredAtLeast(M)) + M <= M
    BY <2>1, <2>3 DEF RootsInv, DeferralLadder
  <2>8. QED
    BY <2>1, <2>6, <2>7
<1>2. QED
  BY <1>1, InvariantHolds, PTL

-----------------------------------------------------------------------------
(* The selection.                                                          *)

\* The classes in use are ranked.
LEMMA RankIsNatural == \A c \in Classes : ClassRank[c] \in Nat
BY PolicyAssumption DEF ClassRank

\* Of a non-empty queue some principal has a candidate root.
LEMMA CandidatesExist ==
  ASSUME RootsTypeOK, UniqueIntents, roots # {}
  PROVE  PrincipalCandidates # {} /\ PrincipalCandidates \subseteq roots
<1> DEFINE T == {ClassRank[r.class] : r \in roots}
<1>1. T \in SUBSET Nat /\ T # {}
  BY RankIsNatural DEF RootsTypeOK, Root
<1>2. Min(T) \in T /\ \A t \in T : Min(T) <= t
  BY <1>1, MinOfNaturals
<1>3. PICK b \in roots : b \in ClassPool
  BY <1>2 DEF ClassPool
<1> DEFINE X == {x \in ClassPool : x.principal = b.principal}
<1>4. X \in SUBSET roots /\ X # {}
  BY <1>3 DEF ClassPool
<1>5. PICK x \in X : \A y \in X : y # x => Older(x, y)
  BY <1>4, OldestExists
<1>6. x \in PrincipalCandidates
  BY <1>5 DEF PrincipalCandidates
<1>7. QED
  BY <1>6 DEF PrincipalCandidates, ClassPool

\* selectNextPendingRoot leaves no two candidates level: whatever is queued,
\* there is one current selection, so a stale queue binding can be told.
THEOREM SelectionIsUnique == RootsSpec => []SelectionTotal
<1>1. ASSUME RootsInv, BoundedBypass PROVE SelectionTotal
  <2> SUFFICES ASSUME roots # {}
               PROVE  \E r \in roots : /\ IsCurrentSelection(r)
                                       /\ \A q \in roots : IsCurrentSelection(q) => q = r
    BY DEF SelectionTotal
  <2> USE <1>1 DEF RootsInv
  <2> DEFINE C == PrincipalCandidates
             def(r) == ledger[r.principal].deferral
             T == {MaxPendingPrincipals - def(r) : r \in C}
             D == {r \in C : \A q \in C : def(q) <= def(r)}
  <2>1. C # {} /\ C \subseteq roots
    BY CandidatesExist DEF ValidState
  <2>2. \A r \in C : def(r) \in Nat /\ def(r) < MaxPendingPrincipals /\ MaxPendingPrincipals \in Nat
    BY <2>1, LedgerDomain, PolicyAssumption DEF Owners, BoundedBypass
  <2>3. T \in SUBSET Nat /\ T # {}
    BY <2>1, <2>2
  <2>4. Min(T) \in T /\ \A t \in T : Min(T) <= t
    BY <2>3, MinOfNaturals
  <2>5. D # {}
    <3>1. PICK r \in C : MaxPendingPrincipals - def(r) = Min(T)
      BY <2>4
    <3>2. \A q \in C : MaxPendingPrincipals - def(q) \in T
      OBVIOUS
    <3> HIDE DEF T, def, C
    <3>3. \A q \in C : MaxPendingPrincipals - def(r) <= MaxPendingPrincipals - def(q)
      BY <2>4, <3>1, <3>2
    <3>4. \A q \in C : def(q) <= def(r)
      BY <2>2, <3>3
    <3>5. QED
      BY <3>4
  <2>6. PICK w \in D : \A y \in D : y # w => Older(w, y)
    BY <2>1, <2>5, OldestExists DEF ValidState
  <2> HIDE DEF def
  <2>7. ASSUME NEW q \in C, q # w
        PROVE  def(w) > def(q) \/ (def(w) = def(q) /\ Older(w, q))
    <3>1. def(q) <= def(w) /\ def(q) \in Nat /\ def(w) \in Nat
      BY <2>2, <2>6, <2>7
    <3>2. def(q) = def(w) => q \in D
      BY <2>6, <2>7
    <3>3. QED
      BY <2>6, <2>7, <3>1, <3>2
  <2>8. IsCurrentSelection(w)
    BY <2>6, <2>7 DEF IsCurrentSelection, WinsOver, def
  <2>9. ASSUME NEW q \in roots, IsCurrentSelection(q)
        PROVE  q = w
    <3>1. q \in C /\ w \in C
      BY <2>6, <2>9 DEF IsCurrentSelection
    <3>2. q # w => WinsOver(q, w) /\ WinsOver(w, q)
      BY <3>1, <2>8, <2>9 DEF IsCurrentSelection
    <3>3. /\ q.readySince \in Nat /\ w.readySince \in Nat
          /\ q.intent \in Nat /\ w.intent \in Nat
      BY <2>1, <3>1, PolicyAssumption DEF RootsTypeOK, Root
    <3>4. def(q) \in Nat /\ def(w) \in Nat
      BY <2>2, <3>1
    <3>5. QED
      BY <3>2, <3>3, <3>4 DEF WinsOver, Older, def
  <2>10. QED
    BY <2>1, <2>6, <2>8, <2>9
<1>2. QED
  BY <1>1, InvariantHolds, BypassIsBounded, PTL

-----------------------------------------------------------------------------
\* A waiting principal's age is lost only when a root of its own is served, and
\* grows, by one, only when a competitor is.
AgeAfter(p, after) ==
  LET before == IF p \in DOMAIN ledger THEN ledger[p].deferral ELSE 0
  IN  /\ after < before => \E r \in Owned(roots, p) : Consume(r)
      /\ after > before =>
           after = before + 1 /\ \E r \in roots : p \in Competitors(r) /\ Consume(r)

\* One whose age does not change.
LEMMA SameAge ==
  ASSUME RootsInv, NEW p, NEW after, after = PriorDeferral(p)
  PROVE  AgeAfter(p, after)
<1>1. PriorDeferral(p) \in Nat
  BY LedgerDomain DEF RootsInv, PriorDeferral
<1>2. QED
  BY <1>1 DEF AgeAfter, PriorDeferral

THEOREM AgeIsKept == RootsSpec => AgeKeptUntilServed
<1> DEFINE Kept == \A p \in DOMAIN ledger' : AgeAfter(p, ledger'[p].deferral)
<1>1. ASSUME NEW R, NEW d, Install(R, d)
      PROVE  DOMAIN ledger' = Owners(R) /\ \A p \in Owners(R) : ledger'[p].deferral = d[p]
  BY <1>1 DEF Install, RebuiltLedger
<1>2. ASSUME RootsInv, NEW i \in Intents, NEW p \in Principals, NEW c \in Classes, Enqueue(i, p, c)
      PROVE  Kept
  <2> DEFINE new == [intent |-> i, principal |-> p, class |-> c,
                     readySince |-> generation, deferral |-> PriorDeferral(p)]
             R == roots \cup {new}
  <2>1. Install(R, [q \in Owners(R) |-> PriorDeferral(q)])
    BY <1>2 DEF Enqueue
  <2> HIDE DEF R
  <2>2. \A q \in DOMAIN ledger' : ledger'[q].deferral = PriorDeferral(q)
    BY <1>1, <2>1
  <2>3. QED
    BY <1>2, <2>2, SameAge
<1>3. ASSUME RootsInv, NEW r \in roots, NEW q \in Principals, CancelQueued(r, q)
      PROVE  Kept
  <2> DEFINE R == roots \ {r}
  <2>1. Install(R, [p \in Owners(R) |-> PriorDeferral(p)])
    BY <1>3 DEF CancelQueued
  <2> HIDE DEF R
  <2>2. \A p \in DOMAIN ledger' : ledger'[p].deferral = PriorDeferral(p)
    BY <1>1, <2>1
  <2>3. QED
    BY <1>3, <2>2, SameAge
<1>4. ASSUME RootsInv, NEW r \in roots, Consume(r)
      PROVE  Kept
  <2> DEFINE R == roots \ {r}
  <2>1. Install(R, [p \in Owners(R) |-> DeferralAfter(r, p)])
    BY <1>4 DEF Consume
  <2> HIDE DEF R
  <2>2. \A p \in DOMAIN ledger' : ledger'[p].deferral = DeferralAfter(r, p)
    BY <1>1, <2>1
  <2>3. ASSUME NEW p \in DOMAIN ledger'
        PROVE  AgeAfter(p, ledger'[p].deferral)
    <3>1. PriorDeferral(p) \in Nat
      BY <1>4, LedgerDomain DEF RootsInv, PriorDeferral
    <3>2. ledger'[p].deferral = DeferralAfter(r, p)
      BY <2>2, <2>3
    <3>3. CASE p = r.principal
      <4>1. r \in Owned(roots, p) /\ DeferralAfter(r, p) = 0
        BY <3>3 DEF Owned, DeferralAfter
      <4>2. QED
        BY <1>4, <3>1, <3>2, <4>1 DEF AgeAfter, PriorDeferral
    <3>4. CASE p # r.principal /\ p \in Competitors(r)
      <4>1. DeferralAfter(r, p) = PriorDeferral(p) + 1
        BY <3>4 DEF DeferralAfter
      <4>2. QED
        BY <1>4, <3>1, <3>2, <3>4, <4>1 DEF AgeAfter, PriorDeferral
    <3>5. CASE p # r.principal /\ p \notin Competitors(r)
      <4>1. DeferralAfter(r, p) = PriorDeferral(p)
        BY <3>1, <3>5 DEF DeferralAfter
      <4>2. QED
        BY <1>4, <3>2, <4>1, SameAge
    <3>6. QED
      BY <3>3, <3>4, <3>5
  <2>4. QED
    BY <2>3
<1>5. ASSUME RootsInv, AdvanceGeneration \/ UNCHANGED queueVars
      PROVE  Kept
  <2>1. ledger' = ledger
    BY <1>5 DEF AdvanceGeneration, rootVars, queueVars
  <2>2. \A p \in DOMAIN ledger : ledger'[p].deferral = PriorDeferral(p)
    BY <2>1 DEF PriorDeferral
  <2>3. QED
    BY <1>5, <2>1, <2>2, SameAge
<1>6. RootsInv /\ [RootsNext]_queueVars => [Kept]_queueVars
  BY <1>2, <1>3, <1>4, <1>5 DEF RootsNext
<1>7. QED
  BY <1>6, InvariantHolds, PTL DEF RootsSpec, AgeKeptUntilServed, AgeAfter

-----------------------------------------------------------------------------
(* The worker slot.                                                        *)

\* What is known of the worker: types, the ledger's agreement, and that no
\* lease is of a generation ahead of the scheduler's.
SlotInv ==
  /\ generation \in 0..MaxGeneration
  /\ active \in Lease \cup {None}
  /\ leases \in [Generations -> {"NONE", "ACTIVE", "RELEASED", "CANCELLED"}]
  /\ LedgerAgrees
  /\ \A g \in Generations : leases[g] # "NONE" => g <= generation

\* An admission still waiting for its lease is of the current generation,
\* which nobody has leased; running or paused work has an admission; and an
\* admission bound to a root is of that root's intent.
AdmissionInv ==
  /\ queue \in Queue \cup {None}
  /\ pending \in Preemption \cup {None}
  /\ phase \in {"RUNNING", "PAUSED"} => queue # None
  /\ (active = None /\ queue # None /\ queue.state = "ADMITTED") =>
       queue.gen = generation /\ leases[queue.gen] = "NONE"
  /\ queue # None /\ queue.root # None => queue.root.intent = queue.work
  /\ pending # None /\ pending.root # None => pending.root.intent = pending.work

PastInv == checkpoints \in Seq(Checkpointed)

WorkerInv == RootsInv /\ SlotInv /\ AdmissionInv /\ PastInv

\* The queue of roots does not depend on the scheduler generation it stamps.
LEMMA RootsKept ==
  ASSUME RootsInv, UNCHANGED <<roots, ledger>>, generation' \in Nat
  PROVE  RootsInv'
BY DEF RootsInv, RootsTypeOK, ValidState, UniqueIntents, MirrorsAgree, WithinLimits,
       DeferralLadder, DeferredAtLeast

\* The current selection is a queued root.
LEMMA SelectionIsQueued ==
  ASSUME NEW r, IsCurrentSelection(r)
  PROVE  r \in roots
BY DEF IsCurrentSelection, PrincipalCandidates, ClassPool

\* A lease, of a bound admission or of an unbound one, keeps the queue valid.
LEMMA ConsumeBoundKeeps ==
  ASSUME RootsInv, NEW root, ConsumeBound(root), generation' \in Nat
  PROVE  RootsInv'
<1>1. CASE root = None
  BY <1>1, RootsKept DEF ConsumeBound
<1>2. CASE root # None
  <2>1. Consume(root) /\ root \in roots
    BY <1>2, SelectionIsQueued DEF ConsumeBound, Consume
  <2>2. QED
    BY <2>1, ConsumeInv
<1>3. QED
  BY <1>1, <1>2

-----------------------------------------------------------------------------
(* The queue of roots, under every step of the scheduler.                  *)

\* Every step leaves the generation a natural number.
LEMMA GenerationStaysNatural ==
  ASSUME SlotInv, AdmissionInv, [Next]_vars
  PROVE  generation' \in 0..MaxGeneration
<1> USE PolicyAssumption, SchedulerAssumption
<1>1. \A g \in Generations : g \in 0..MaxGeneration
  BY DEF Generations
<1>2. CASE RootStep
  BY <1>2 DEF RootStep, EnqueueRoot, CancelQueuedRoot, SlotInv
<1>3. CASE StartStep
  BY <1>1, <1>3 DEF StartStep, Admit, LeaseSelected, RequestPreemption, SlotInv
<1>4. CASE EndStep
  BY <1>4 DEF EndStep, Checkpoint, CompleteActive, CancelActive, CheckpointRejected,
              CompleteRejected, CancelRejected, ReleaseRejected, aggregateVars, SlotInv
<1>5. CASE ResumeStep
  <2>1. ASSUME NEW c, NEW x, CompletePreemption(c, x)
        PROVE  generation' \in 0..MaxGeneration
    BY <2>1 DEF CompletePreemption, Run, AdmissionInv, Preemption
  <2>2. ASSUME NEW c, NEW g \in Generations, NEW t, NEW x,
               Resume(c, g, t, x) \/ RecoveryResume(c, g, t, x) \/ ResumeRejected(c, g, t)
        PROVE  generation' \in 0..MaxGeneration
    BY <1>1, <2>2 DEF Resume, RecoveryResume, ResumeRejected, Advance, Run, aggregateVars, SlotInv
  <2>3. QED
    BY <1>5, <2>1, <2>2 DEF ResumeStep
<1>6. CASE ClaimStep
  BY <1>6 DEF ClaimStep, ClaimRecoveryCheckpoint, AbandonRecoveryClaim, SlotInv
<1>7. CASE \/ \E t \in Times : AdvanceObservedClock(t)
           \/ Restart
           \/ UNCHANGED vars
  BY <1>7 DEF AdvanceObservedClock, Restart, vars, aggregateVars, SlotInv
<1>8. QED
  BY <1>2, <1>3, <1>4, <1>5, <1>6, <1>7 DEF Next

\* The queue of roots stays valid under every step, because only its own three
\* operations touch it.
LEMMA RootsStepInv ==
  ASSUME WorkerInv, [Next]_vars
  PROVE  RootsInv'
<1> USE DEF WorkerInv
<1>1. generation' \in Nat
  BY GenerationStaysNatural, PolicyAssumption
<1>2. CASE RootStep
  <2>1. ASSUME NEW i \in Intents, NEW p \in Principals, NEW c \in Classes, EnqueueRoot(i, p, c)
        PROVE  RootsInv'
    BY <2>1, EnqueueInv DEF EnqueueRoot
  <2>2. ASSUME NEW r \in roots, NEW p \in Principals, CancelQueuedRoot(r, p)
        PROVE  RootsInv'
    BY <2>2, CancelInv DEF CancelQueuedRoot
  <2>3. QED
    BY <1>2, <2>1, <2>2 DEF RootStep
<1>3. CASE StartStep
  <2>1. ASSUME NEW x, LeaseSelected(x)
        PROVE  RootsInv'
    BY <1>1, <2>1, ConsumeBoundKeeps DEF LeaseSelected
  <2>2. ASSUME NEW g, NEW w, NEW t, NEW o, NEW root,
               Admit(g, w, t, o, root) \/ RequestPreemption(g, w, t, root)
        PROVE  RootsInv'
    BY <1>1, <2>2, RootsKept DEF Admit, RequestPreemption
  <2>3. QED
    BY <1>3, <2>1, <2>2 DEF StartStep
<1>4. CASE EndStep
  BY <1>1, <1>4, RootsKept DEF EndStep, Checkpoint, CompleteActive, CancelActive,
     CheckpointRejected, CompleteRejected, CancelRejected, ReleaseRejected, aggregateVars
<1>5. CASE ResumeStep
  <2>1. ASSUME NEW g, NEW w, NEW t, NEW root, NEW x, Run(g, w, t, root, x)
        PROVE  RootsInv'
    BY <1>1, <2>1, ConsumeBoundKeeps DEF Run
  <2>2. ASSUME NEW c, NEW g, NEW t, ResumeRejected(c, g, t)
        PROVE  RootsInv'
    BY <1>1, <2>2, RootsKept DEF ResumeRejected, aggregateVars
  <2>3. ASSUME NEW c, NEW g, NEW t, NEW x, Resume(c, g, t, x) \/ RecoveryResume(c, g, t, x)
        PROVE  RootsInv'
    BY <2>1, <2>3 DEF Resume, RecoveryResume, Advance
  <2>4. ASSUME NEW c, NEW x, CompletePreemption(c, x)
        PROVE  RootsInv'
    BY <2>1, <2>4 DEF CompletePreemption
  <2>5. QED
    BY <1>5, <2>2, <2>3, <2>4 DEF ResumeStep
<1>6. CASE ClaimStep
  BY <1>1, <1>6, RootsKept DEF ClaimStep, ClaimRecoveryCheckpoint, AbandonRecoveryClaim
<1>7. CASE \/ \E t \in Times : AdvanceObservedClock(t)
           \/ Restart
           \/ UNCHANGED vars
  BY <1>1, <1>7, RootsKept DEF AdvanceObservedClock, Restart, vars, aggregateVars
<1>8. QED
  BY <1>2, <1>3, <1>4, <1>5, <1>6, <1>7 DEF Next

-----------------------------------------------------------------------------
(* What a step does to the worker: it starts a lease, ends one, or neither. *)

\* A lease of a generation that nobody has leased begins on a free worker.
Starts ==
  \E g \in Generations, w \in Intents, x \in Expiries :
    /\ active = None
    /\ Occupy(g, w, x)
    /\ generation' = g
    /\ \A h \in Generations : leases[h] # "NONE" => h < g

Ends ==
  \E lifecycle \in {"RELEASED", "CANCELLED"} :
    /\ active # None
    /\ active' = None
    /\ leases' = [leases EXCEPT ![active.gen] = lifecycle]
    /\ generation' = generation
    /\ phase' # "RUNNING"

Idles ==
  /\ UNCHANGED <<active, leases>>
  /\ generation' \in generation..MaxGeneration
  /\ phase' = "RUNNING" <=> phase = "RUNNING"

\* A later generation than the scheduler's has not been leased.
LEMMA FreshIsUnleased ==
  ASSUME SlotInv, NEW g \in Generations, Fresh(g)
  PROVE  g \in generation..MaxGeneration /\ \A h \in Generations : leases[h] # "NONE" => h < g
BY PolicyAssumption DEF SlotInv, Fresh, Generations

\* An admission waiting for its lease is of a generation that has not been
\* leased, and neither has any later one.
LEMMA SelectedStarts ==
  ASSUME WorkerInv, NEW x \in Expiries, LeaseSelected(x)
  PROVE  Starts
<1>1. /\ active = None /\ queue \in Queue
      /\ queue.gen = generation /\ leases[generation] = "NONE"
  BY DEF WorkerInv, AdmissionInv, LeaseSelected
<1>2. queue.gen \in Generations /\ queue.work \in Intents
  BY <1>1 DEF Queue, Generations
<1>3. ASSUME NEW h \in Generations, leases[h] # "NONE"
      PROVE  h < queue.gen
  BY <1>1, <1>2, <1>3, PolicyAssumption DEF WorkerInv, SlotInv, Generations
<1>4. Occupy(queue.gen, queue.work, x) /\ generation' = queue.gen
  BY <1>1 DEF LeaseSelected
<1>5. QED
  BY <1>1, <1>2, <1>3, <1>4 DEF Starts

\* Resumed work and the preempting work start under a fresh generation.
LEMMA RunStarts ==
  ASSUME WorkerInv, NEW g \in Generations, NEW w \in Intents, NEW t, NEW root,
         NEW x \in Expiries, active = None, Fresh(g), Run(g, w, t, root, x)
  PROVE  Starts
<1>1. Occupy(g, w, x) /\ generation' = g
  BY DEF Run
<1>2. QED
  BY <1>1, FreshIsUnleased DEF Starts, WorkerInv

\* The work of a checkpoint is an intent.
LEMMA CheckpointedWork ==
  ASSUME PastInv, NEW c \in DOMAIN checkpoints
  PROVE  checkpoints[c] \in Checkpointed /\ checkpoints[c].work \in Intents
<1>1. checkpoints[c] \in Checkpointed
  BY DEF PastInv
<1>2. QED
  BY <1>1 DEF Checkpointed

\* Whichever way paused work goes on, a lease starts.
LEMMA ResumeStarts ==
  ASSUME WorkerInv, NEW c \in DOMAIN checkpoints, NEW x \in Expiries,
         \/ CompletePreemption(c, x)
         \/ \E g \in Generations, t \in Times : Advance(c, g, t, x)
  PROVE  Starts
<1>1. CASE CompletePreemption(c, x)
  <2>1. pending \in Preemption /\ active = None /\ Fresh(pending.gen)
    BY <1>1 DEF CompletePreemption, Resumable, WorkerInv, AdmissionInv
  <2>2. pending.gen \in Generations /\ pending.work \in Intents
    BY <2>1 DEF Preemption, Generations
  <2>3. QED
    BY <1>1, <2>1, <2>2, RunStarts DEF CompletePreemption
<1>2. ASSUME NEW g \in Generations, NEW t \in Times, Advance(c, g, t, x)
      PROVE  Starts
  BY <1>2, CheckpointedWork, RunStarts DEF Advance, Resumable, WorkerInv
<1>3. QED
  BY <1>1, <1>2

\* Checkpoint, completion and cancellation end the lease alike.
LEMMA EndLeaseEnds ==
  ASSUME NEW lifecycle \in {"RELEASED", "CANCELLED"}, NEW state, NEW t, NEW event,
         EndLease(lifecycle, state, t, event), UNCHANGED generation, phase' # "RUNNING"
  PROVE  Ends
BY DEF EndLease, Releasable, Ends

\* Every step has one of the three effects on the worker.
LEMMA StepEffects ==
  ASSUME WorkerInv, [Next]_vars
  PROVE  Starts \/ Ends \/ Idles
<1>1. generation \in 0..MaxGeneration /\ MaxGeneration \in Nat
  BY PolicyAssumption DEF WorkerInv, SlotInv
<1>2. generation \in generation..MaxGeneration
  BY <1>1
<1>3. phase = "RUNNING" <=> active # None
  BY DEF WorkerInv, SlotInv, LedgerAgrees
<1>4. CASE RootStep
  BY <1>2, <1>4 DEF RootStep, EnqueueRoot, CancelQueuedRoot, lifeVars, Idles
<1>5. CASE StartStep
  <2>1. ASSUME NEW g \in Generations, NEW w, NEW t, NEW o \in {"ADMITTED", "BLOCKED"}, NEW root,
               Admit(g, w, t, o, root)
        PROVE  Idles
    BY <1>3, <2>1, FreshIsUnleased DEF Admit, Idles, WorkerInv
  <2>2. ASSUME NEW g, NEW w, NEW t, NEW root, RequestPreemption(g, w, t, root)
        PROVE  Idles
    BY <1>2, <2>2 DEF RequestPreemption, Idles
  <2>3. QED
    BY <1>5, <2>1, <2>2, SelectedStarts DEF StartStep
<1>6. CASE EndStep
  <2>1. ASSUME NEW t, Checkpoint(t) PROVE Ends
    BY <2>1, EndLeaseEnds DEF Checkpoint
  <2>2. ASSUME NEW t, CompleteActive(t) PROVE Ends
    BY <2>2, EndLeaseEnds DEF CompleteActive, Exposed
  <2>3. ASSUME NEW t, CancelActive(t) PROVE Ends
    BY <2>3, EndLeaseEnds DEF CancelActive, Exposed
  <2>4. ASSUME NEW t, ReleaseRejected(t) PROVE Idles
    BY <1>2, <2>4 DEF ReleaseRejected, aggregateVars, Idles
  <2>5. QED
    BY <1>6, <2>1, <2>2, <2>3, <2>4 DEF EndStep, CheckpointRejected, CompleteRejected, CancelRejected
<1>7. CASE ResumeStep
  <2>1. ASSUME NEW c, NEW g, NEW t, ResumeRejected(c, g, t) PROVE Idles
    BY <1>2, <2>1 DEF ResumeRejected, aggregateVars, Idles
  <2>2. QED
    BY <1>7, <2>1, ResumeStarts DEF ResumeStep, Resume, RecoveryResume
<1>8. CASE ClaimStep
  BY <1>2, <1>8 DEF ClaimStep, ClaimRecoveryCheckpoint, AbandonRecoveryClaim, Idles
<1>9. CASE \/ \E t \in Times : AdvanceObservedClock(t)
           \/ Restart
           \/ UNCHANGED vars
  BY <1>2, <1>9 DEF AdvanceObservedClock, Restart, vars, aggregateVars, Idles
<1>10. QED
  BY <1>4, <1>5, <1>6, <1>7, <1>8, <1>9 DEF Next

\* Whichever of the three happens, the worker's part of the invariant holds.
LEMMA SlotStepInv ==
  ASSUME SlotInv, Starts \/ Ends \/ Idles
  PROVE  SlotInv'
<1> USE PolicyAssumption
<1>1. CASE Starts
  <2>1. PICK g \in Generations, w \in Intents, x \in Expiries :
          /\ active = None
          /\ Occupy(g, w, x)
          /\ generation' = g
          /\ \A h \in Generations : leases[h] # "NONE" => h < g
    BY <1>1 DEF Starts
  <2>2. active' \in Lease /\ active' # None /\ active'.gen = g
    BY <2>1, NoneAssumption DEF Occupy, Lease, Generations, Expiries
  <2>3. /\ leases' = [leases EXCEPT ![g] = "ACTIVE"]
        /\ leases' \in [Generations -> {"NONE", "ACTIVE", "RELEASED", "CANCELLED"}]
    BY <2>1 DEF Occupy, SlotInv
  <2>4. LedgerAgrees'
    <3>1. \A h \in Generations : leases[h] # "ACTIVE"
      BY <2>1 DEF SlotInv, LedgerAgrees
    <3>2. {h \in Generations : leases'[h] = "ACTIVE"} = {g}
      BY <2>3, <3>1 DEF SlotInv
    <3>3. phase' = "RUNNING"
      BY <2>1 DEF Occupy
    <3>4. QED
      BY <2>2, <3>2, <3>3 DEF LedgerAgrees
  <2>5. \A h \in Generations : leases'[h] # "NONE" => h <= generation'
    BY <2>1, <2>3 DEF SlotInv, Generations
  <2>6. generation' \in 0..MaxGeneration
    BY <2>1 DEF Generations
  <2>7. QED
    BY <2>2, <2>3, <2>4, <2>5, <2>6 DEF SlotInv
<1>2. CASE Ends
  <2>1. PICK lifecycle \in {"RELEASED", "CANCELLED"} :
          /\ active # None
          /\ active' = None
          /\ leases' = [leases EXCEPT ![active.gen] = lifecycle]
          /\ generation' = generation
          /\ phase' # "RUNNING"
    BY <1>2 DEF Ends
  <2>2. active.gen \in Generations /\ leases[active.gen] = "ACTIVE"
    BY <2>1 DEF SlotInv, LedgerAgrees, Lease, Generations
  <2>3. \A h \in Generations : leases'[h] = (IF h = active.gen THEN lifecycle ELSE leases[h])
    BY <2>1, <2>2 DEF SlotInv
  <2>4. LedgerAgrees'
    <3>1. {h \in Generations : leases'[h] = "ACTIVE"} = {}
      BY <2>1, <2>3 DEF SlotInv, LedgerAgrees
    <3>2. QED
      BY <2>1, <3>1 DEF LedgerAgrees
  <2>5. leases' \in [Generations -> {"NONE", "ACTIVE", "RELEASED", "CANCELLED"}]
    BY <2>1 DEF SlotInv
  <2>6. QED
    BY <2>1, <2>2, <2>3, <2>4, <2>5 DEF SlotInv
<1>3. CASE Idles
  <2>1. generation' \in 0..MaxGeneration /\ generation <= generation'
    BY <1>3 DEF Idles, SlotInv
  <2>2. \A g \in Generations : leases'[g] # "NONE" => g <= generation'
    BY <1>3, <2>1 DEF Idles, SlotInv, Generations
  <2>3. LedgerAgrees'
    BY <1>3 DEF Idles, SlotInv, LedgerAgrees
  <2>4. QED
    BY <1>3, <2>1, <2>2, <2>3 DEF Idles, SlotInv
<1>4. QED
  BY <1>1, <1>2, <1>3

-----------------------------------------------------------------------------
(* Admissions and checkpoints.                                             *)

\* The roots an admission may be bound to are queued roots of its intent.
LEMMA BindingsAreRoots ==
  ASSUME RootsInv, NEW w, NEW root \in Bindings(w)
  PROVE  /\ root \in Root \cup {None}
         /\ root # None => root.intent = w
BY DEF Bindings, RootsInv, RootsTypeOK

\* A new admission.
LEMMA AdmitAdmission ==
  ASSUME WorkerInv, NEW g \in Generations, NEW w \in Intents, NEW t \in Times,
         NEW o \in {"ADMITTED", "BLOCKED"}, NEW root \in Bindings(w), Admit(g, w, t, o, root)
  PROVE  AdmissionInv'
<1>1. root \in Root \cup {None} /\ (root # None => root.intent = w)
  BY BindingsAreRoots DEF WorkerInv
<1>2. queue' \in Queue /\ queue'.root = root /\ queue'.work = w /\ queue'.gen = g
  BY <1>1 DEF Admit, Queue, Generations
<1>3. leases' = leases /\ leases[g] = "NONE" /\ generation' = g
  <2>1. \A h \in Generations : leases[h] # "NONE" => h < g
    BY FreshIsUnleased DEF Admit, WorkerInv
  <2>2. ~(g < g)
    BY PolicyAssumption DEF Generations
  <2>3. QED
    BY <2>1, <2>2 DEF Admit
<1>4. pending' = None /\ phase' = o
  BY DEF Admit
<1>5. QED
  BY <1>1, <1>2, <1>3, <1>4, NoneAssumption DEF AdmissionInv

\* The admission of work that is resumed or that preempts.
LEMMA RunAdmission ==
  ASSUME WorkerInv, NEW g \in Generations, NEW w \in Intents, NEW t \in Times,
         NEW root \in Root \cup {None}, root # None => root.intent = w,
         NEW x \in Expiries, Run(g, w, t, root, x)
  PROVE  AdmissionInv'
<1>1. queue' \in Queue /\ queue'.root = root /\ queue'.work = w
  BY DEF Run, Queue, Generations
<1>2. active' # None
  BY NoneAssumption DEF Run, Occupy, Lease, Generations, Expiries
<1>3. pending' = None
  BY DEF Run
<1>4. QED
  BY <1>1, <1>2, <1>3, NoneAssumption DEF AdmissionInv

\* The admission of a lease that ends is closed, not waiting any more.
LEMMA EndAdmission ==
  ASSUME WorkerInv, NEW lifecycle, NEW state \in {"PAUSED", "COMPLETED", "CANCELLED"},
         NEW t, NEW event, EndLease(lifecycle, state, t, event), UNCHANGED pending
  PROVE  AdmissionInv'
<1>1. active # None /\ queue \in Queue /\ queue # None
  BY DEF EndLease, Releasable, WorkerInv, SlotInv, LedgerAgrees, AdmissionInv
<1>2. /\ queue' = [queue EXCEPT !.state = state]
      /\ queue' \in Queue /\ queue'.state = state
      /\ queue'.root = queue.root /\ queue'.work = queue.work
  BY <1>1 DEF EndLease, Queue
<1>3. QED
  BY <1>1, <1>2, NoneAssumption DEF AdmissionInv, WorkerInv

\* A step that leaves the worker and the admission alone.
LEMMA UntouchedAdmission ==
  ASSUME WorkerInv, UNCHANGED <<queue, pending, active, phase, generation, leases>>
  PROVE  AdmissionInv'
BY DEF WorkerInv, AdmissionInv

\* The admission's part of the invariant, one case per group of operations.
LEMMA AdmissionStepInv ==
  ASSUME WorkerInv, [Next]_vars
  PROVE  AdmissionInv'
<1>1. CASE RootStep
  BY <1>1, UntouchedAdmission DEF RootStep, EnqueueRoot, CancelQueuedRoot, lifeVars
<1>2. CASE StartStep
  <2>1. ASSUME NEW x \in Expiries, LeaseSelected(x) PROVE AdmissionInv'
    <3>1. active' # None
      BY <2>1, NoneAssumption DEF LeaseSelected, Occupy, WorkerInv, AdmissionInv, Queue,
                                   Lease, Expiries
    <3>2. UNCHANGED <<queue, pending>> /\ queue # None
      BY <2>1 DEF LeaseSelected
    <3>3. QED
      BY <3>1, <3>2 DEF WorkerInv, AdmissionInv
  <2>2. ASSUME NEW g \in Generations, NEW w \in Intents, NEW t \in Times,
               NEW root \in Bindings(w) \cup {None}, RequestPreemption(g, w, t, root)
        PROVE  AdmissionInv'
    <3>1. root \in Root \cup {None} /\ (root # None => root.intent = w)
      BY BindingsAreRoots DEF WorkerInv
    <3>2. pending' \in Preemption /\ pending'.root = root /\ pending'.work = w
      BY <2>2, <3>1 DEF RequestPreemption, Preemption, Generations
    <3>3. UNCHANGED <<queue, active, phase, generation, leases>>
      BY <2>2 DEF RequestPreemption
    <3>4. QED
      BY <3>1, <3>2, <3>3 DEF WorkerInv, AdmissionInv
  <2>3. QED
    BY <1>2, <2>1, <2>2, AdmitAdmission DEF StartStep
<1>3. CASE EndStep
  <2>1. ASSUME NEW t, Checkpoint(t) PROVE AdmissionInv'
    BY <2>1, EndAdmission DEF Checkpoint
  <2>2. ASSUME NEW t, CompleteActive(t) PROVE AdmissionInv'
    BY <2>2, EndAdmission DEF CompleteActive
  <2>3. ASSUME NEW t, CancelActive(t) PROVE AdmissionInv'
    BY <2>3, EndAdmission DEF CancelActive
  <2>4. ASSUME NEW t, ReleaseRejected(t) PROVE AdmissionInv'
    BY <2>4, UntouchedAdmission DEF ReleaseRejected, aggregateVars
  <2>5. QED
    BY <1>3, <2>1, <2>2, <2>3, <2>4 DEF EndStep, CheckpointRejected, CompleteRejected, CancelRejected
<1>4. CASE ResumeStep
  <2>1. ASSUME NEW c \in DOMAIN checkpoints, NEW g \in Generations, NEW t \in Times,
               NEW x \in Expiries, Advance(c, g, t, x)
        PROVE  AdmissionInv'
    <3>1. checkpoints[c].work \in Intents
      BY CheckpointedWork DEF WorkerInv
    <3>2. Run(g, checkpoints[c].work, t, None, x)
      BY <2>1 DEF Advance
    <3>3. QED
      BY <3>1, <3>2, RunAdmission
  <2>2. ASSUME NEW c, NEW x \in Expiries, CompletePreemption(c, x) PROVE AdmissionInv'
    <3>1. /\ pending \in Preemption
          /\ pending.root # None => pending.root.intent = pending.work
      BY <2>2 DEF CompletePreemption, WorkerInv, AdmissionInv
    <3>2. /\ pending.gen \in Generations /\ pending.work \in Intents
          /\ pending.at \in Times /\ pending.root \in Root \cup {None}
      BY <3>1 DEF Preemption, Generations
    <3>3. Run(pending.gen, pending.work, pending.at, pending.root, x)
      BY <2>2 DEF CompletePreemption
    <3>4. QED
      BY <3>1, <3>2, <3>3, RunAdmission
  <2>3. ASSUME NEW c, NEW g, NEW t, ResumeRejected(c, g, t) PROVE AdmissionInv'
    BY <2>3, UntouchedAdmission DEF ResumeRejected, aggregateVars
  <2>4. QED
    BY <1>4, <2>1, <2>2, <2>3 DEF ResumeStep, Resume, RecoveryResume
<1>5. CASE ClaimStep
  <2>1. ASSUME NEW c, NEW t, ClaimRecoveryCheckpoint(c, t) PROVE AdmissionInv'
    BY <2>1, UntouchedAdmission DEF ClaimRecoveryCheckpoint
  <2>2. ASSUME NEW c, NEW t, AbandonRecoveryClaim(c, t) PROVE AdmissionInv'
    <3>1. queue \in Queue /\ phase' = "BLOCKED" /\ UNCHANGED pending
      BY <2>2 DEF AbandonRecoveryClaim, WorkerInv, AdmissionInv
    <3>2. queue' = [queue EXCEPT !.state = "BLOCKED"]
      BY <2>2 DEF AbandonRecoveryClaim
    <3>3. queue' \in Queue /\ queue'.state = "BLOCKED" /\ queue'.root = queue.root
          /\ queue'.work = queue.work
      BY <3>1, <3>2 DEF Queue
    <3>4. QED
      BY <3>1, <3>3, NoneAssumption DEF WorkerInv, AdmissionInv
  <2>3. QED
    BY <1>5, <2>1, <2>2 DEF ClaimStep
<1>6. CASE \/ \E t \in Times : AdvanceObservedClock(t)
           \/ Restart
           \/ UNCHANGED vars
  BY <1>6, UntouchedAdmission DEF AdvanceObservedClock, Restart, vars, aggregateVars
<1>7. QED
  BY <1>1, <1>2, <1>3, <1>4, <1>5, <1>6 DEF Next

\* Checkpoints are appended and moved, never taken out.
LEMMA PastStepInv ==
  ASSUME WorkerInv, [Next]_vars
  PROVE  PastInv'
<1>1. ASSUME NEW t \in Times, Checkpoint(t) PROVE PastInv'
  <2>1. active \in Lease
    BY <1>1 DEF Checkpoint, EndLease, Releasable, WorkerInv, SlotInv
  <2>2. [work |-> active.work, gen |-> active.gen, at |-> t,
         pointer |-> "PAUSED_AT_CHECKPOINT"] \in Checkpointed
    BY <2>1 DEF Lease, Checkpointed
  <2>3. QED
    BY <1>1, <2>2 DEF Checkpoint, WorkerInv, PastInv
<1>2. ASSUME NEW c \in DOMAIN checkpoints, NEW t \in Times,
             NEW p \in {"RESUMED", "RECOVERY_TERMINALLY_HELD"},
             checkpoints' = [checkpoints EXCEPT ![c].pointer = p, ![c].at = t]
      PROVE  PastInv'
  <2>1. checkpoints[c] \in Checkpointed
    BY CheckpointedWork DEF WorkerInv
  <2>2. [checkpoints[c] EXCEPT !.pointer = p, !.at = t] \in Checkpointed
    BY <2>1 DEF Checkpointed
  <2>3. checkpoints' = [checkpoints EXCEPT ![c] = [checkpoints[c] EXCEPT !.pointer = p, !.at = t]]
    BY <1>2
  <2>4. QED
    BY <2>2, <2>3 DEF WorkerInv, PastInv
<1>3. CASE UNCHANGED checkpoints
  BY <1>3 DEF WorkerInv, PastInv
<1>4. CASE RootStep \/ StartStep
  BY <1>3, <1>4 DEF RootStep, EnqueueRoot, CancelQueuedRoot, lifeVars, StartStep, Admit,
                    LeaseSelected, RequestPreemption
<1>5. CASE EndStep
  BY <1>1, <1>3, <1>5 DEF EndStep, CompleteActive, CancelActive, CheckpointRejected,
                          CompleteRejected, CancelRejected, ReleaseRejected, aggregateVars
<1>6. CASE ResumeStep
  <2>1. ASSUME NEW c \in DOMAIN checkpoints, NEW g, NEW t \in Times, NEW x, Advance(c, g, t, x)
        PROVE  PastInv'
    BY <1>2, <2>1 DEF Advance
  <2>2. ASSUME NEW c, NEW x, CompletePreemption(c, x) PROVE PastInv'
    BY <1>3, <2>2 DEF CompletePreemption
  <2>3. ASSUME NEW c, NEW g, NEW t, ResumeRejected(c, g, t) PROVE PastInv'
    BY <1>3, <2>3 DEF ResumeRejected, aggregateVars
  <2>4. QED
    BY <1>6, <2>1, <2>2, <2>3 DEF ResumeStep, Resume, RecoveryResume
<1>7. CASE ClaimStep
  BY <1>2, <1>3, <1>7 DEF ClaimStep, ClaimRecoveryCheckpoint, AbandonRecoveryClaim
<1>8. CASE \/ \E t \in Times : AdvanceObservedClock(t)
           \/ Restart
           \/ UNCHANGED vars
  BY <1>3, <1>8 DEF AdvanceObservedClock, Restart, vars, aggregateVars
<1>9. QED
  BY <1>4, <1>5, <1>6, <1>7, <1>8 DEF Next

-----------------------------------------------------------------------------
\* The fresh aggregate.
LEMMA WorkerInit == Init => WorkerInv
<1> SUFFICES ASSUME Init PROVE WorkerInv
  OBVIOUS
<1>1. RootsInv
  BY InitInv DEF Init, RootsInit
<1>2. SlotInv
  BY PolicyAssumption DEF Init, SlotInv, LedgerAgrees, Generations
<1>3. AdmissionInv
  BY DEF Init, AdmissionInv
<1>4. PastInv
  BY DEF Init, PastInv
<1>5. QED
  BY <1>1, <1>2, <1>3, <1>4 DEF WorkerInv

\* The induction step.
LEMMA WorkerNext == WorkerInv /\ [Next]_vars => WorkerInv'
<1> SUFFICES ASSUME WorkerInv, [Next]_vars PROVE WorkerInv'
  OBVIOUS
<1>1. RootsInv'
  BY RootsStepInv
<1>2. SlotInv'
  BY StepEffects, SlotStepInv DEF WorkerInv
<1>3. AdmissionInv' /\ PastInv'
  BY AdmissionStepInv, PastStepInv
<1>4. QED
  BY <1>1, <1>2, <1>3 DEF WorkerInv

\* The worker, its ledger, the admission that may lease it and the queue of
\* roots fit together in every reachable state.
THEOREM WorkerInvariant == Spec => []WorkerInv
BY WorkerInit, WorkerNext, PTL DEF Spec

\* The lease ledger has one active lease exactly while the worker runs, and it
\* is the one the aggregate names.
THEOREM LedgerAlwaysAgrees == Spec => []LedgerAgrees
<1>1. WorkerInv => LedgerAgrees
  BY DEF WorkerInv, SlotInv
<1>2. QED
  BY <1>1, WorkerInvariant, PTL

\* Composed with admissions, leases, preemption, rejected calls and restarts,
\* the queue of roots remains one that its own validator accepts.
THEOREM RootsStayValid == Spec => []ValidState
<1>1. WorkerInv => ValidState
  BY DEF WorkerInv, RootsInv
<1>2. QED
  BY <1>1, WorkerInvariant, PTL

-----------------------------------------------------------------------------
(* The scheduler implements the worker slot.                               *)

\* A fresh aggregate maps to a free slot.
LEMMA SlotInit == Init => Slot!Init
BY DEF Init, Slot!Init, Generations

\* A step that starts a lease takes the slot, one that ends it gives it up,
\* and every other step stutters.
LEMMA SlotStep == WorkerInv /\ [Next]_vars => [Slot!Next]_(Slot!slotVars)
<1> SUFFICES ASSUME WorkerInv, [Next]_vars PROVE [Slot!Next]_(Slot!slotVars)
  OBVIOUS
<1> USE PolicyAssumption
<1>1. CASE Starts
  <2>1. PICK g \in Generations, w \in Intents, x \in Expiries :
          /\ active = None
          /\ Occupy(g, w, x)
          /\ \A h \in Generations : leases[h] # "NONE" => h < g
    BY <1>1 DEF Starts
  <2>2. active' # None /\ active'.gen = g
    BY <2>1, NoneAssumption DEF Occupy, Lease, Generations, Expiries
  <2>3. {h \in Generations : leases'[h] # "NONE"} = {h \in Generations : leases[h] # "NONE"} \cup {g}
    BY <2>1 DEF Occupy, WorkerInv, SlotInv
  <2>4. Slot!Take(g)
    BY <2>1, <2>2, <2>3 DEF Slot!Take
  <2>5. QED
    BY <2>4 DEF Slot!Next
<1>2. CASE Ends
  <2>1. PICK lifecycle \in {"RELEASED", "CANCELLED"} :
          /\ active # None
          /\ active' = None
          /\ leases' = [leases EXCEPT ![active.gen] = lifecycle]
    BY <1>2 DEF Ends
  <2>2. active.gen \in Generations /\ active.gen # 0 /\ leases[active.gen] = "ACTIVE"
    BY <2>1 DEF WorkerInv, SlotInv, LedgerAgrees, Lease, Generations
  <2>3. {h \in Generations : leases'[h] # "NONE"} = {h \in Generations : leases[h] # "NONE"}
    BY <2>1, <2>2 DEF WorkerInv, SlotInv
  <2>4. Slot!GiveUp
    BY <2>1, <2>2, <2>3 DEF Slot!GiveUp
  <2>5. QED
    BY <2>4 DEF Slot!Next
<1>3. CASE Idles
  BY <1>3 DEF Idles, Slot!slotVars
<1>4. QED
  BY <1>1, <1>2, <1>3, StepEffects

\* One physical worker: the scheduler's leases are takings and givings up of a
\* single slot, under generations that only grow.
THEOREM OneOwnerAlways == Spec => OneOwner
<1>1. Init => Slot!Init
  BY SlotInit
<1>2. WorkerInv /\ [Next]_vars => [Slot!Next]_(Slot!slotVars)
  BY SlotStep
<1>3. QED
  BY <1>1, <1>2, WorkerInvariant, PTL DEF Spec, OneOwner, Slot!Spec

-----------------------------------------------------------------------------
(* What a lease does to the queue of roots.                                *)

\* A lease that starts while an admission is waiting is of the selected root.
LEMMA SelectedOnly ==
  ASSUME WorkerInv, [Next]_vars, phase = "ADMITTED", phase' = "RUNNING", roots # {}
  PROVE  \E r \in roots : IsCurrentSelection(r) /\ active'.work = r.intent
<1>1. ASSUME NEW x, LeaseSelected(x)
      PROVE  \E r \in roots : IsCurrentSelection(r) /\ active'.work = r.intent
  <2>1. queue.root # None /\ queue.root \in roots /\ IsCurrentSelection(queue.root)
    BY <1>1 DEF LeaseSelected, StillSelected
  <2>2. queue.root.intent = queue.work
    BY <1>1, <2>1 DEF LeaseSelected, WorkerInv, AdmissionInv
  <2>3. active'.work = queue.work
    BY <1>1 DEF LeaseSelected, Occupy
  <2>4. QED
    BY <2>1, <2>2, <2>3
<1>2. CASE StartStep
  <2>1. ASSUME NEW g, NEW w, NEW t, NEW o \in {"ADMITTED", "BLOCKED"}, NEW root,
               Admit(g, w, t, o, root) \/ RequestPreemption(g, w, t, root)
        PROVE  FALSE
    BY <2>1 DEF Admit, RequestPreemption
  <2>2. QED
    BY <1>1, <1>2, <2>1 DEF StartStep
<1>3. CASE RootStep
  BY <1>3 DEF RootStep, EnqueueRoot, CancelQueuedRoot, lifeVars
<1>4. CASE EndStep
  BY <1>4 DEF EndStep, Checkpoint, CompleteActive, CancelActive, Exposed, CheckpointRejected,
              CompleteRejected, CancelRejected, ReleaseRejected, aggregateVars
<1>5. CASE ResumeStep
  BY <1>5 DEF ResumeStep, Resume, RecoveryResume, Advance, CompletePreemption,
              ResumeRejected, Resumable
<1>6. CASE ClaimStep
  BY <1>6 DEF ClaimStep, ClaimRecoveryCheckpoint, AbandonRecoveryClaim
<1>7. CASE \/ \E t \in Times : AdvanceObservedClock(t)
           \/ Restart
           \/ UNCHANGED vars
  BY <1>7 DEF AdvanceObservedClock, Restart, vars, aggregateVars
<1>8. QED
  BY <1>2, <1>3, <1>4, <1>5, <1>6, <1>7 DEF Next

\* leaseSelected never takes the worker past the queue, however long ago its
\* admission was made and whatever was queued or withdrawn since.
THEOREM LeasesFollowTheQueue == Spec => NoLeasePastTheQueue
<1>1. WorkerInv /\ [Next]_vars =>
        [(phase = "ADMITTED" /\ phase' = "RUNNING" /\ roots # {}) =>
           \E r \in roots : IsCurrentSelection(r) /\ active'.work = r.intent]_vars
  BY SelectedOnly
<1>2. QED
  BY <1>1, WorkerInvariant, PTL DEF Spec, NoLeasePastTheQueue

\* Mirroring a root's deferral count keeps the root's identity.
LEMMA InstalledStay ==
  ASSUME NEW R, NEW d, Install(R, d), NEW r \in R, r \in Root
  PROVE  \E q \in roots' : q.intent = r.intent
<1> DEFINE m == [r EXCEPT !.deferral = ledger'[r.principal].deferral]
<1>1. m \in roots'
  BY DEF Install, Mirrored
<1>2. m.intent = r.intent
  BY DEF Root
<1>3. QED
  BY <1>1, <1>2

\* A lease takes the bound root out of the queue, and it is its work that runs.
LEMMA OnlyTheLeasedLeaves ==
  ASSUME WorkerInv, NEW root, ConsumeBound(root), NEW r \in roots,
         \A q \in roots' : q.intent # r.intent
  PROVE  root # None /\ r = root
<1>1. r \in Root
  BY DEF WorkerInv, RootsInv, RootsTypeOK
<1>2. root # None
  BY DEF ConsumeBound
<1>3. Install(roots \ {root}, [q \in Owners(roots \ {root}) |-> DeferralAfter(root, q)])
  BY <1>2 DEF ConsumeBound, Consume
<1>4. QED
  BY <1>1, <1>2, <1>3, InstalledStay

\* How a root may leave the queue.
Leaves(r) ==
  \/ active = None /\ active' # None /\ active'.work = r.intent
  \/ CancelQueued(r, r.principal)

\* Which steps can take a root out of the queue.
LEMMA LeavingRoot ==
  ASSUME WorkerInv, [Next]_vars, NEW r \in roots, \A q \in roots' : q.intent # r.intent
  PROVE  Leaves(r)
<1>1. r \in Root
  BY DEF WorkerInv, RootsInv, RootsTypeOK
<1>2. CASE RootStep
  <2>1. ASSUME NEW i, NEW p, NEW c, EnqueueRoot(i, p, c) PROVE FALSE
    BY <1>1, <2>1, InstalledStay DEF EnqueueRoot, Enqueue
  <2>2. ASSUME NEW x, NEW p, CancelQueuedRoot(x, p) PROVE Leaves(r)
    <3>1. r = x
      BY <1>1, <2>2, InstalledStay DEF CancelQueuedRoot, CancelQueued
    <3>2. QED
      BY <2>2, <3>1 DEF CancelQueuedRoot, CancelQueued, Leaves
  <2>3. QED
    BY <1>2, <2>1, <2>2 DEF RootStep
<1>3. CASE StartStep
  <2>1. ASSUME NEW x \in Expiries, LeaseSelected(x) PROVE Leaves(r)
    <3>1. queue.root # None /\ r = queue.root
      BY <2>1, OnlyTheLeasedLeaves DEF LeaseSelected
    <3>2. queue \in Queue /\ r.intent = queue.work
      BY <2>1, <3>1 DEF LeaseSelected, WorkerInv, AdmissionInv
    <3>3. active = None /\ active' \in Lease /\ active'.work = queue.work
      BY <2>1, <3>2 DEF LeaseSelected, Occupy, Lease, Queue, Expiries
    <3>4. QED
      BY <3>2, <3>3, NoneAssumption DEF Leaves
  <2>2. ASSUME NEW g, NEW w, NEW t, NEW o, NEW root,
               Admit(g, w, t, o, root) \/ RequestPreemption(g, w, t, root)
        PROVE  FALSE
    BY <2>2 DEF Admit, RequestPreemption
  <2>3. QED
    BY <1>3, <2>1, <2>2 DEF StartStep
<1>4. CASE EndStep
  BY <1>4 DEF EndStep, Checkpoint, CompleteActive, CancelActive, CheckpointRejected,
              CompleteRejected, CancelRejected, ReleaseRejected, aggregateVars
<1>5. CASE ResumeStep
  <2>1. ASSUME NEW c, NEW x \in Expiries, CompletePreemption(c, x) PROVE Leaves(r)
    <3>1. Run(pending.gen, pending.work, pending.at, pending.root, x)
      BY <2>1 DEF CompletePreemption
    <3>2. pending.root # None /\ r = pending.root
      BY <3>1, OnlyTheLeasedLeaves DEF Run
    <3>3. pending \in Preemption /\ r.intent = pending.work
      BY <2>1, <3>2 DEF CompletePreemption, WorkerInv, AdmissionInv
    <3>4. active' \in Lease /\ active'.work = pending.work
      BY <3>1, <3>3 DEF Run, Occupy, Lease, Preemption, Expiries
    <3>5. active = None
      BY <2>1 DEF CompletePreemption, Resumable
    <3>6. QED
      BY <3>3, <3>4, <3>5, NoneAssumption DEF Leaves
  <2>2. ASSUME NEW c, NEW g, NEW t, NEW x, Advance(c, g, t, x) PROVE FALSE
    <3>1. ConsumeBound(None)
      BY <2>2 DEF Advance, Run
    <3>2. QED
      BY <3>1, OnlyTheLeasedLeaves
  <2>3. ASSUME NEW c, NEW g, NEW t, ResumeRejected(c, g, t) PROVE FALSE
    BY <2>3 DEF ResumeRejected, aggregateVars
  <2>4. QED
    BY <1>5, <2>1, <2>2, <2>3 DEF ResumeStep, Resume, RecoveryResume
<1>6. CASE ClaimStep
  BY <1>6 DEF ClaimStep, ClaimRecoveryCheckpoint, AbandonRecoveryClaim
<1>7. CASE \/ \E t \in Times : AdvanceObservedClock(t)
           \/ Restart
           \/ UNCHANGED vars
  BY <1>7 DEF AdvanceObservedClock, Restart, vars, aggregateVars
<1>8. QED
  BY <1>2, <1>3, <1>4, <1>5, <1>6, <1>7 DEF Next

\* A principal's queued root is neither dropped nor served as another's work:
\* it leaves by its own cancellation or by the lease that runs it.
THEOREM RootsWait == Spec => RootsWaitForTheWorker
<1>1. WorkerInv /\ [Next]_vars =>
        [\A r \in roots :
           (\A q \in roots' : q.intent # r.intent) =>
             \/ active = None /\ active' # None /\ active'.work = r.intent
             \/ CancelQueued(r, r.principal)]_vars
  BY LeavingRoot DEF Leaves
<1>2. QED
  BY <1>1, WorkerInvariant, PTL DEF Spec, RootsWaitForTheWorker

-----------------------------------------------------------------------------
(* Recovery claims and checkpoint pointers.                                *)

\* The edges without the bound on checkpoints; each names a checkpoint.
AnyEdge == [type: {"CLAIMED_CURRENT", "RESUMED_CONSUMED", "TERMINAL_CONSUMED",
                   "INVALIDATED_OR_ABANDONED"},
            cp: Nat, gen: Generations, at: Times]

\* k is the position of the last edge of c.
IsLastEdge(k, c) == k \in EdgesOf(c) /\ \A j \in EdgesOf(c) : j <= k

EdgesInv ==
  /\ claims \in Seq(AnyEdge)
  /\ \A k \in DOMAIN claims : claims[k].cp \in DOMAIN checkpoints
  /\ \A c : EdgesOf(c) = {} \/ \E k : IsLastEdge(k, c)

ClaimInv == EdgesInv /\ ClaimsAgree

\* A largest number is unique.
LEMMA LargestIs ==
  ASSUME NEW S, S \subseteq Nat, NEW k \in S, \A j \in S : j <= k
  PROVE  (CHOOSE j \in S : \A i \in S : i <= j) = k
<1>1. \A j \in S : (\A i \in S : i <= j) => j = k
  OBVIOUS
<1>2. QED
  BY <1>1

\* A new edge is the last of its checkpoint, and no other checkpoint's story
\* changes.
LEMMA EdgeAppended ==
  ASSUME EdgesInv, NEW c \in DOMAIN checkpoints, PastInv,
         NEW type \in {"CLAIMED_CURRENT", "RESUMED_CONSUMED", "TERMINAL_CONSUMED",
                       "INVALIDATED_OR_ABANDONED"},
         NEW g \in Generations, NEW t \in Times, NewEdge(type, c, g, t),
         DOMAIN checkpoints' = DOMAIN checkpoints
  PROVE  /\ EdgesInv'
         /\ ClaimState(c)' = type /\ LastEdge(c)'.gen = g
         /\ \A d : d # c => /\ EdgesOf(d)' = EdgesOf(d)
                            /\ ClaimState(d)' = ClaimState(d)
                            /\ EdgesOf(d) # {} => LastEdge(d)' = LastEdge(d)
<1> DEFINE edge == [type |-> type, cp |-> c, gen |-> g, at |-> t]
<1>0. PICK n \in Nat : n = Len(claims) + 1
  BY DEF EdgesInv
<1>1. edge \in AnyEdge
  BY DEF AnyEdge, PastInv
<1>2. /\ claims' \in Seq(AnyEdge) /\ DOMAIN claims' = DOMAIN claims \cup {n}
      /\ claims'[n] = edge /\ \A k \in DOMAIN claims : k < n /\ claims'[k] = claims[k]
  BY <1>0, <1>1 DEF EdgesInv, NewEdge
<1>3. EdgesOf(c)' = EdgesOf(c) \cup {n} /\ \A d : d # c => EdgesOf(d)' = EdgesOf(d)
  BY <1>2 DEF EdgesOf
<1>4. IsLastEdge(n, c)' /\ EdgesOf(c)' \subseteq Nat
  <2>1. n \in Nat /\ EdgesOf(c) \subseteq Nat
    BY DEF EdgesInv, EdgesOf
  <2>2. \A j \in EdgesOf(c) : j <= n
    BY <1>2, <2>1 DEF EdgesOf
  <2>3. QED
    BY <1>3, <2>1, <2>2 DEF IsLastEdge
<1>5. \A d, k : d # c => IsLastEdge(k, d)' = IsLastEdge(k, d)
  BY <1>3 DEF IsLastEdge
<1>6. EdgesInv'
  <2>1. \A k \in DOMAIN claims' : claims'[k].cp \in DOMAIN checkpoints'
    BY <1>2 DEF EdgesInv
  <2>2. ASSUME NEW d PROVE EdgesOf(d)' = {} \/ \E k : IsLastEdge(k, d)'
    BY <1>3, <1>4, <1>5 DEF EdgesInv
  <2>3. QED
    BY <1>2, <2>1, <2>2 DEF EdgesInv
<1>7. ClaimState(c)' = type /\ LastEdge(c)'.gen = g
  <2>1. LastEdge(c)' = edge
    <3>1. (CHOOSE j \in EdgesOf(c)' : \A i \in EdgesOf(c)' : i <= j) = n
      BY <1>4, LargestIs DEF IsLastEdge
    <3>2. QED
      BY <1>2, <3>1 DEF LastEdge
  <2>2. QED
    BY <1>3, <2>1 DEF ClaimState
<1>8. ASSUME NEW d, d # c
      PROVE  /\ ClaimState(d)' = ClaimState(d)
             /\ EdgesOf(d) # {} => LastEdge(d)' = LastEdge(d)
  <2>1. CASE EdgesOf(d) = {}
    BY <1>3, <1>8, <2>1 DEF ClaimState
  <2>2. CASE EdgesOf(d) # {}
    <3>1. LastEdge(d)' = claims'[CHOOSE j \in EdgesOf(d) : \A i \in EdgesOf(d) : i <= j]
      BY <1>3, <1>8 DEF LastEdge
    <3>2. PICK k : IsLastEdge(k, d)
      BY <2>2 DEF EdgesInv
    <3>3. (CHOOSE j \in EdgesOf(d) : \A i \in EdgesOf(d) : i <= j) \in EdgesOf(d)
      BY <3>2 DEF IsLastEdge
    <3>4. LastEdge(d)' = LastEdge(d)
      BY <1>2, <3>1, <3>3 DEF LastEdge, EdgesOf
    <3>5. QED
      BY <1>3, <1>8, <3>4 DEF ClaimState
  <2>3. QED
    BY <2>1, <2>2
<1>9. QED
  BY <1>3, <1>6, <1>7, <1>8

\* What a step may tell about checkpoints and their claims.
Moves(c, pointer) ==
  /\ Paused(c)
  /\ \E t \in Times : checkpoints' = [checkpoints EXCEPT ![c].pointer = pointer, ![c].at = t]

Adds(type, c) == \E g \in Generations, t \in Times : NewEdge(type, c, g, t)

Tells(c) ==
  \/ Moves(c, "RESUMED") /\ UNCHANGED claims
  \/ Moves(c, "RESUMED") /\ Adds("RESUMED_CONSUMED", c) /\ ClaimState(c) = "CLAIMED_CURRENT"
  \/ /\ Moves(c, "RECOVERY_TERMINALLY_HELD") /\ Adds("INVALIDATED_OR_ABANDONED", c)
     /\ ClaimState(c) = "CLAIMED_CURRENT"
  \/ /\ Adds("CLAIMED_CURRENT", c) /\ UNCHANGED checkpoints
     /\ Paused(c) /\ ClaimState(c) = "NONE"
  \/ /\ UNCHANGED checkpoints
     /\ ClaimState(c) = "RESUMED_CONSUMED"
     /\ \E g \in Generations, t \in Times :
          NewEdge("TERMINAL_CONSUMED", c, g, t) /\ leases'[g] = "RELEASED"

TellsNothing ==
  /\ UNCHANGED claims
  /\ \/ UNCHANGED checkpoints
     \/ \E r : r.pointer = "PAUSED_AT_CHECKPOINT" /\ checkpoints' = Append(checkpoints, r)

\* Every step tells one of the stories, or none.
LEMMA StoryEffects ==
  ASSUME WorkerInv, [Next]_vars
  PROVE  TellsNothing \/ \E c \in DOMAIN checkpoints : Tells(c)
<1>1. CASE RootStep
  BY <1>1 DEF RootStep, EnqueueRoot, CancelQueuedRoot, lifeVars, TellsNothing
<1>2. CASE StartStep
  BY <1>2 DEF StartStep, Admit, LeaseSelected, RequestPreemption, TellsNothing
<1>3. CASE EndStep
  <2>1. ASSUME NEW t, Checkpoint(t) PROVE TellsNothing
    <3> DEFINE r == [work |-> active.work, gen |-> active.gen, at |-> t,
                     pointer |-> "PAUSED_AT_CHECKPOINT"]
    <3>1. r.pointer = "PAUSED_AT_CHECKPOINT"
      OBVIOUS
    <3>2. checkpoints' = Append(checkpoints, r) /\ UNCHANGED claims
      BY <2>1 DEF Checkpoint
    <3>3. QED
      BY <3>1, <3>2 DEF TellsNothing
  <2>2. ASSUME NEW t \in Times, CompleteActive(t)
        PROVE  TellsNothing \/ \E c \in DOMAIN checkpoints : Tells(c)
    <3>1. active # None /\ UNCHANGED checkpoints
          /\ leases' = [leases EXCEPT ![active.gen] = "RELEASED"]
      BY <2>2 DEF CompleteActive, EndLease, Releasable
    <3>2. active.gen \in Generations /\ leases'[active.gen] = "RELEASED"
      BY <3>1 DEF WorkerInv, SlotInv, Lease, Generations
    <3>3. CASE Matched = {}
      BY <2>2, <3>1, <3>3 DEF CompleteActive, TellsNothing
    <3>4. CASE Matched # {}
      <4>1. PICK c \in Matched : NewEdge("TERMINAL_CONSUMED", c, active.gen, t)
        BY <2>2, <3>4 DEF CompleteActive
      <4>2. c \in DOMAIN checkpoints /\ ClaimState(c) = "RESUMED_CONSUMED"
        BY DEF Matched
      <4>3. QED
        BY <3>1, <3>2, <4>1, <4>2 DEF Tells
    <3>5. QED
      BY <3>3, <3>4
  <2>3. ASSUME NEW t, CancelActive(t) \/ ReleaseRejected(t) PROVE TellsNothing
    BY <2>3 DEF CancelActive, ReleaseRejected, aggregateVars, TellsNothing
  <2>4. QED
    BY <1>3, <2>1, <2>2, <2>3 DEF EndStep, CheckpointRejected, CompleteRejected, CancelRejected
<1>4. CASE ResumeStep
  <2>1. ASSUME NEW c, NEW g, NEW t \in Times, NEW x, Advance(c, g, t, x)
        PROVE  Moves(c, "RESUMED")
    BY <2>1 DEF Advance, Resumable, Moves
  <2>2. ASSUME NEW c \in DOMAIN checkpoints, NEW g, NEW t \in Times, NEW x, Resume(c, g, t, x)
        PROVE  Tells(c)
    BY <2>1, <2>2 DEF Resume, Tells
  <2>3. ASSUME NEW c \in DOMAIN checkpoints, NEW g \in Generations, NEW t \in Times, NEW x,
               RecoveryResume(c, g, t, x)
        PROVE  Tells(c)
    BY <2>1, <2>3 DEF RecoveryResume, RecoveryAccepts, Tells, Adds
  <2>4. ASSUME NEW c, NEW g, NEW t, NEW x, CompletePreemption(c, x) \/ ResumeRejected(c, g, t)
        PROVE  TellsNothing
    BY <2>4 DEF CompletePreemption, ResumeRejected, aggregateVars, TellsNothing
  <2>5. QED
    BY <1>4, <2>2, <2>3, <2>4 DEF ResumeStep
<1>5. CASE ClaimStep
  <2>1. PICK c \in DOMAIN checkpoints, t \in Times :
          ClaimRecoveryCheckpoint(c, t) \/ AbandonRecoveryClaim(c, t)
    BY <1>5 DEF ClaimStep
  <2>2. checkpoints[c].gen \in Generations
    BY CheckpointedWork DEF WorkerInv, Checkpointed, Generations
  <2>3. CASE ClaimRecoveryCheckpoint(c, t)
    BY <2>2, <2>3 DEF ClaimRecoveryCheckpoint, Tells, Adds
  <2>4. CASE AbandonRecoveryClaim(c, t)
    BY <2>2, <2>4 DEF AbandonRecoveryClaim, Tells, Adds, Moves
  <2>5. QED
    BY <2>1, <2>3, <2>4
<1>6. CASE \/ \E t \in Times : AdvanceObservedClock(t)
           \/ Restart
           \/ UNCHANGED vars
  BY <1>6 DEF AdvanceObservedClock, Restart, vars, aggregateVars, TellsNothing
<1>7. QED
  BY <1>1, <1>2, <1>3, <1>4, <1>5, <1>6 DEF Next

\* A released lease stays released: nothing leases its generation again.
LEMMA ReleasedStays ==
  ASSUME WorkerInv, [Next]_vars, NEW g \in Generations, leases[g] = "RELEASED"
  PROVE  leases'[g] = "RELEASED"
<1>1. CASE Starts
  <2>1. PICK h \in Generations : leases' = [leases EXCEPT ![h] = "ACTIVE"] /\ g < h
    BY <1>1 DEF Starts, Occupy
  <2>2. QED
    BY <2>1 DEF WorkerInv, SlotInv, Generations
<1>2. CASE Ends
  <2>1. active # None /\ \E l : leases' = [leases EXCEPT ![active.gen] = l]
    BY <1>2 DEF Ends
  <2>2. leases[active.gen] = "ACTIVE"
    BY <2>1 DEF WorkerInv, SlotInv, LedgerAgrees
  <2>3. QED
    BY <2>1, <2>2 DEF WorkerInv, SlotInv
<1>3. CASE Idles
  BY <1>3 DEF Idles
<1>4. QED
  BY <1>1, <1>2, <1>3, StepEffects

\* Moving a pointer changes that checkpoint only.
LEMMA MovedPointer ==
  ASSUME PastInv, NEW c \in DOMAIN checkpoints, NEW pointer, Moves(c, pointer)
  PROVE  /\ DOMAIN checkpoints' = DOMAIN checkpoints
         /\ checkpoints[c].pointer = "PAUSED_AT_CHECKPOINT"
         /\ checkpoints'[c].pointer = pointer
         /\ \A d \in DOMAIN checkpoints : d # c => checkpoints'[d] = checkpoints[d]
<1>1. PICK t \in Times :
        checkpoints' = [checkpoints EXCEPT ![c].pointer = pointer, ![c].at = t]
  BY DEF Moves
<1>2. checkpoints[c] \in Checkpointed
  BY CheckpointedWork
<1>3. checkpoints' = [checkpoints EXCEPT ![c] = [checkpoints[c] EXCEPT !.pointer = pointer, !.at = t]]
  BY <1>1
<1>4. [checkpoints[c] EXCEPT !.pointer = pointer, !.at = t].pointer = pointer
  BY <1>2 DEF Checkpointed
<1>5. QED
  BY <1>3, <1>4 DEF Moves, Paused, PastInv

\* Without a new edge every checkpoint keeps its story.
LEMMA SameStories ==
  ASSUME UNCHANGED claims
  PROVE  \A d : /\ EdgesOf(d)' = EdgesOf(d) /\ LastEdge(d)' = LastEdge(d)
               /\ ClaimState(d)' = ClaimState(d)
BY DEF EdgesOf, LastEdge, ClaimState

\* The claims agree about one checkpoint.
Agrees(c) ==
  LET s == ClaimState(c)
      p == checkpoints[c].pointer
  IN  /\ s \in {"RESUMED_CONSUMED", "TERMINAL_CONSUMED"} => p = "RESUMED"
      /\ s = "TERMINAL_CONSUMED" => leases[LastEdge(c).gen] = "RELEASED"
      /\ s = "INVALIDATED_OR_ABANDONED" <=> p = "RECOVERY_TERMINALLY_HELD"

\* A checkpoint whose story and pointer stay keeps agreeing.
LEMMA StillAgrees ==
  ASSUME WorkerInv, ClaimInv, [Next]_vars, NEW d \in DOMAIN checkpoints,
         ClaimState(d)' = ClaimState(d),
         EdgesOf(d) # {} => LastEdge(d)' = LastEdge(d),
         checkpoints'[d] = checkpoints[d]
  PROVE  Agrees(d)'
<1>1. Agrees(d)
  BY DEF ClaimInv, ClaimsAgree, Agrees
<1>2. CASE ClaimState(d) = "TERMINAL_CONSUMED"
  <2>1. PICK k : IsLastEdge(k, d)
    BY <1>2 DEF ClaimState, ClaimInv, EdgesInv
  <2>2. EdgesOf(d) \subseteq Nat
    BY DEF ClaimInv, EdgesInv, EdgesOf
  <2>3. LastEdge(d) = claims[k] /\ k \in DOMAIN claims
    BY <2>1, <2>2, LargestIs DEF LastEdge, IsLastEdge, EdgesOf
  <2>4. LastEdge(d).gen \in Generations
    <3>1. LastEdge(d) \in AnyEdge
      BY <2>3 DEF ClaimInv, EdgesInv
    <3>2. QED
      BY <3>1 DEF AnyEdge
  <2>5. EdgesOf(d) # {}
    BY <2>1 DEF IsLastEdge
  <2>6. leases'[LastEdge(d).gen] = "RELEASED"
    BY <1>1, <1>2, <2>4, ReleasedStays DEF Agrees
  <2>7. QED
    BY <1>1, <2>5, <2>6 DEF Agrees
<1>3. CASE ClaimState(d) # "TERMINAL_CONSUMED"
  BY <1>1, <1>3 DEF Agrees
<1>4. QED
  BY <1>2, <1>3

\* No story makes a claim, its pointer and its lease disagree.
LEMMA ClaimNext ==
  ASSUME WorkerInv, ClaimInv, [Next]_vars
  PROVE  ClaimInv'
<1> SUFFICES EdgesInv' /\ \A d \in DOMAIN checkpoints' : Agrees(d)'
  BY DEF ClaimInv, ClaimsAgree, Agrees
<1>0. PastInv /\ EdgesInv
  BY DEF WorkerInv, ClaimInv
<1>1. CASE TellsNothing
  <2>1. UNCHANGED claims
    BY <1>1 DEF TellsNothing
  <2>2. CASE UNCHANGED checkpoints
    BY <1>0, <2>1, <2>2, SameStories, StillAgrees DEF EdgesInv, IsLastEdge
  <2>3. CASE \E r : r.pointer = "PAUSED_AT_CHECKPOINT" /\ checkpoints' = Append(checkpoints, r)
    <3>1. PICK r : r.pointer = "PAUSED_AT_CHECKPOINT" /\ checkpoints' = Append(checkpoints, r)
      BY <2>3
    <3>2. PICK n \in Nat : n = Len(checkpoints) + 1
      BY <1>0 DEF PastInv
    <3>3. /\ DOMAIN checkpoints' = DOMAIN checkpoints \cup {n} /\ n \notin DOMAIN checkpoints
          /\ checkpoints'[n] = r
          /\ \A d \in DOMAIN checkpoints : checkpoints'[d] = checkpoints[d]
      BY <1>0, <3>1, <3>2 DEF PastInv
    <3>4. EdgesInv'
      BY <1>0, <2>1, <3>3, SameStories DEF EdgesInv, IsLastEdge
    <3>5. Agrees(n)'
      <4>1. EdgesOf(n) = {}
        BY <1>0, <3>3 DEF EdgesOf, EdgesInv
      <4>2. ClaimState(n)' = "NONE"
        BY <2>1, <4>1, SameStories DEF ClaimState
      <4>3. QED
        BY <3>1, <3>3, <4>2 DEF Agrees
    <3>6. \A d \in DOMAIN checkpoints : Agrees(d)'
      BY <2>1, <3>3, SameStories, StillAgrees
    <3>7. QED
      BY <3>3, <3>4, <3>5, <3>6
  <2>4. QED
    BY <1>1, <2>2, <2>3 DEF TellsNothing
<1>2. ASSUME NEW c \in DOMAIN checkpoints, Tells(c)
      PROVE  EdgesInv' /\ \A d \in DOMAIN checkpoints' : Agrees(d)'
  <2>0. Agrees(c)
    BY DEF ClaimInv, ClaimsAgree, Agrees
  <2>1. CASE Moves(c, "RESUMED") /\ UNCHANGED claims
    <3>1. EdgesInv'
      BY <1>0, <2>1, MovedPointer, SameStories DEF EdgesInv, IsLastEdge
    <3>2. \A d \in DOMAIN checkpoints : d # c => Agrees(d)'
      BY <1>0, <2>1, MovedPointer, SameStories, StillAgrees
    <3>3. Agrees(c)'
      BY <1>0, <2>0, <2>1, MovedPointer, SameStories DEF Agrees
    <3>4. QED
      BY <1>0, <2>1, <3>1, <3>2, <3>3, MovedPointer
  <2>2. ASSUME NEW type \in {"CLAIMED_CURRENT", "RESUMED_CONSUMED", "TERMINAL_CONSUMED",
                             "INVALIDATED_OR_ABANDONED"},
               NEW g \in Generations, NEW t \in Times, NewEdge(type, c, g, t),
               DOMAIN checkpoints' = DOMAIN checkpoints,
               \A d \in DOMAIN checkpoints : d # c => checkpoints'[d] = checkpoints[d],
               type \in {"RESUMED_CONSUMED", "TERMINAL_CONSUMED"} =>
                 checkpoints'[c].pointer = "RESUMED",
               type = "TERMINAL_CONSUMED" => leases'[g] = "RELEASED",
               type = "INVALIDATED_OR_ABANDONED" <=>
                 checkpoints'[c].pointer = "RECOVERY_TERMINALLY_HELD"
        PROVE  EdgesInv' /\ \A d \in DOMAIN checkpoints' : Agrees(d)'
    <3>1. /\ EdgesInv'
          /\ ClaimState(c)' = type /\ LastEdge(c)'.gen = g
          /\ \A d : d # c => /\ ClaimState(d)' = ClaimState(d)
                             /\ EdgesOf(d) # {} => LastEdge(d)' = LastEdge(d)
      BY <1>0, <2>2, EdgeAppended
    <3>2. \A d \in DOMAIN checkpoints : d # c => Agrees(d)'
      BY <2>2, <3>1, StillAgrees
    <3>3. Agrees(c)'
      BY <2>2, <3>1 DEF Agrees
    <3>4. QED
      BY <2>2, <3>1, <3>2, <3>3
  <2>3. CASE Moves(c, "RESUMED") /\ Adds("RESUMED_CONSUMED", c)
    BY <1>0, <2>2, <2>3, MovedPointer DEF Adds
  <2>4. CASE Moves(c, "RECOVERY_TERMINALLY_HELD") /\ Adds("INVALIDATED_OR_ABANDONED", c)
    BY <1>0, <2>2, <2>4, MovedPointer DEF Adds
  <2>5. CASE Adds("CLAIMED_CURRENT", c) /\ UNCHANGED checkpoints /\ Paused(c)
    BY <2>2, <2>5 DEF Adds, Paused
  <2>6. CASE /\ UNCHANGED checkpoints /\ ClaimState(c) = "RESUMED_CONSUMED"
             /\ \E g \in Generations, t \in Times :
                  NewEdge("TERMINAL_CONSUMED", c, g, t) /\ leases'[g] = "RELEASED"
    <3>1. checkpoints[c].pointer = "RESUMED"
      BY <2>0, <2>6 DEF Agrees
    <3>2. QED
      BY <2>2, <2>6, <3>1
  <2>7. QED
    BY <1>2, <2>1, <2>3, <2>4, <2>5, <2>6 DEF Tells
<1>3. QED
  BY <1>1, <1>2, StoryEffects

\* The claims' part of the invariant, in every reachable state.
LEMMA ClaimInvariant == Spec => []ClaimInv
<1>1. Init => ClaimInv
  BY DEF Init, ClaimInv, EdgesInv, EdgesOf, ClaimsAgree
<1>2. WorkerInv /\ ClaimInv /\ [Next]_vars => ClaimInv'
  BY ClaimNext
<1>3. QED
  BY <1>1, <1>2, WorkerInvariant, PTL DEF Spec

\* What recovery claims say of a checkpoint, what its pointer says and what the
\* lease ledger says never contradict one another, for any number of
\* checkpoints, claims and generations.
THEOREM ClaimsAlwaysAgree == Spec => []ClaimsAgree
<1>1. ClaimInv => ClaimsAgree
  BY DEF ClaimInv
<1>2. QED
  BY <1>1, ClaimInvariant, PTL

\* The steps that move a pointer or add an edge start from a checkpoint that is
\* paused, or from a claim that is still open.
LEMMA PointersStep ==
  ASSUME WorkerInv, ClaimInv, [Next]_vars, NEW c \in DOMAIN checkpoints,
         checkpoints[c].pointer # "PAUSED_AT_CHECKPOINT"
  PROVE  /\ checkpoints'[c] = checkpoints[c]
         /\ ClaimState(c) = "INVALIDATED_OR_ABANDONED" => EdgesOf(c)' = EdgesOf(c)
<1>0. PastInv /\ EdgesInv
  BY DEF WorkerInv, ClaimInv
<1>1. CASE TellsNothing
  BY <1>0, <1>1, SameStories DEF TellsNothing, PastInv
<1>2. ASSUME NEW d \in DOMAIN checkpoints, Tells(d)
      PROVE  /\ checkpoints'[c] = checkpoints[c]
             /\ ClaimState(c) = "INVALIDATED_OR_ABANDONED" => EdgesOf(c)' = EdgesOf(c)
  <2>1. checkpoints'[c] = checkpoints[c] /\ DOMAIN checkpoints' = DOMAIN checkpoints
    BY <1>0, <1>2, MovedPointer DEF Tells
  <2>2. CASE UNCHANGED claims
    BY <2>1, <2>2, SameStories
  <2>3. CASE d # c /\ \E type \in {"CLAIMED_CURRENT", "RESUMED_CONSUMED",
                        "TERMINAL_CONSUMED", "INVALIDATED_OR_ABANDONED"} : Adds(type, d)
    BY <1>0, <2>1, <2>3, EdgeAppended DEF Adds
  <2>4. CASE d = c
    BY <1>0, <1>2, <2>1, <2>4, MovedPointer, SameStories DEF Tells, Paused
  <2>5. QED
    BY <1>2, <2>2, <2>3, <2>4 DEF Tells, Adds
<1>3. QED
  BY <1>1, <1>2, StoryEffects

\* No checkpoint is resumed twice, and none that recovery gave up comes back,
\* whichever of resume, recovery, preemption and restart races.
THEOREM PointersAlwaysAdvance == Spec => PointersOnlyAdvance
<1>1. WorkerInv /\ ClaimInv /\ [Next]_vars =>
        [\A c \in DOMAIN checkpoints :
           checkpoints[c].pointer # "PAUSED_AT_CHECKPOINT" =>
             /\ checkpoints'[c] = checkpoints[c]
             /\ ClaimState(c) = "INVALIDATED_OR_ABANDONED" => EdgesOf(c)' = EdgesOf(c)]_vars
  BY PointersStep
<1>2. QED
  BY <1>1, WorkerInvariant, ClaimInvariant, PTL DEF Spec, PointersOnlyAdvance

-----------------------------------------------------------------------------
(* Continuations.                                                          *)

\* What Without returns of a list that has no element twice.
LEMMA WithoutLeaves ==
  ASSUME NEW list \in Seq(Nat), IsInjective(list), NEW c
  PROVE  /\ Without(list, c) \in Seq(Nat)
         /\ IsInjective(Without(list, c))
         /\ \A k \in DOMAIN Without(list, c) :
              /\ Without(list, c)[k] # c
              /\ \E j \in DOMAIN list : Without(list, c)[k] = list[j]
<1>1. CASE \A k \in DOMAIN list : list[k] # c
  BY <1>1 DEF Without
<1>2. CASE \E k \in DOMAIN list : list[k] = c
  <2> DEFINE here == CHOOSE k \in DOMAIN list : list[k] = c
             next(k) == IF k < here THEN k ELSE k + 1
             rest == [k \in 1..Len(list) - 1 |-> list[next(k)]]
  <2>1. here \in DOMAIN list /\ list[here] = c
    BY <1>2
  <2>2. Len(list) \in Nat /\ DOMAIN list = 1..Len(list)
    OBVIOUS
  <2> HIDE DEF here
  <2>3. \A k \in 1..Len(list) - 1 : next(k) \in DOMAIN list /\ next(k) # here
    BY <2>1, <2>2
  <2>4. \A k, j \in 1..Len(list) - 1 : next(k) = next(j) => k = j
    BY <2>1, <2>2
  <2>5. Without(list, c) = rest
    BY <1>2 DEF Without, here
  <2> HIDE DEF next
  <2>6. rest \in Seq(Nat) /\ DOMAIN rest = 1..Len(list) - 1
    <3>1. \A k \in 1..Len(list) - 1 : list[next(k)] \in Nat
      BY <2>3
    <3>2. Len(list) - 1 \in Nat
      BY <2>1, <2>2
    <3>3. QED
      BY <3>1, <3>2
  <2>7. \A k \in DOMAIN rest : rest[k] = list[next(k)]
    BY <2>6
  <2>8. IsInjective(rest)
    BY <2>3, <2>4, <2>6, <2>7 DEF IsInjective
  <2>9. \A k \in DOMAIN rest : rest[k] # c /\ \E j \in DOMAIN list : rest[k] = list[j]
    BY <2>1, <2>3, <2>6, <2>7 DEF IsInjective
  <2> HIDE DEF rest
  <2>10. QED
    BY <2>5, <2>6, <2>8, <2>9
<1>3. QED
  BY <1>1, <1>2

\* A continuation names a checkpoint, each at most once, and that checkpoint is
\* paused or was given up.
Waits(c) ==
  c \in DOMAIN checkpoints /\ checkpoints[c].pointer \in {"PAUSED_AT_CHECKPOINT",
                                                          "RECOVERY_TERMINALLY_HELD"}

ContInv ==
  /\ continuations \in Seq(Nat)
  /\ IsInjective(continuations)
  /\ \A k \in DOMAIN continuations : Waits(continuations[k])

\* What a step does to the continuations.
Preempts ==
  /\ continuations' = Append(continuations, Len(checkpoints) + 1)
  /\ \E r : r.pointer = "PAUSED_AT_CHECKPOINT" /\ checkpoints' = Append(checkpoints, r)

Continues ==
  \E c \in DOMAIN checkpoints :
    Moves(c, "RESUMED") /\ continuations' = Without(continuations, c)

Remain ==
  /\ UNCHANGED continuations
  /\ \/ UNCHANGED checkpoints
     \/ \E r : r.pointer = "PAUSED_AT_CHECKPOINT" /\ checkpoints' = Append(checkpoints, r)
     \/ \E c \in DOMAIN checkpoints : Moves(c, "RECOVERY_TERMINALLY_HELD")

\* Every step has one of the three effects on them.
LEMMA ContinuationEffects ==
  ASSUME [Next]_vars
  PROVE  Preempts \/ Continues \/ Remain
<1>1. CASE RootStep
  BY <1>1 DEF RootStep, EnqueueRoot, CancelQueuedRoot, lifeVars, Remain
<1>2. CASE StartStep
  BY <1>2 DEF StartStep, Admit, LeaseSelected, RequestPreemption, Remain
<1>3. CASE EndStep
  <2>1. ASSUME NEW t, Checkpoint(t) PROVE Preempts \/ Remain
    <3> DEFINE r == [work |-> active.work, gen |-> active.gen, at |-> t,
                     pointer |-> "PAUSED_AT_CHECKPOINT"]
    <3>1. r.pointer = "PAUSED_AT_CHECKPOINT" /\ checkpoints' = Append(checkpoints, r)
      BY <2>1 DEF Checkpoint
    <3>2. QED
      BY <2>1, <3>1 DEF Checkpoint, Preempts, Remain
  <2>2. ASSUME NEW t, CompleteActive(t) \/ CancelActive(t) \/ ReleaseRejected(t) PROVE Remain
    BY <2>2 DEF CompleteActive, CancelActive, ReleaseRejected, aggregateVars, Remain
  <2>3. QED
    BY <1>3, <2>1, <2>2 DEF EndStep, CheckpointRejected, CompleteRejected, CancelRejected
<1>4. CASE ResumeStep
  <2>1. ASSUME NEW c \in DOMAIN checkpoints, NEW g, NEW t \in Times, NEW x, Advance(c, g, t, x)
        PROVE  Continues
    <3>1. Moves(c, "RESUMED")
      BY <2>1 DEF Advance, Resumable, Moves
    <3>2. QED
      BY <2>1, <3>1 DEF Advance, Continues
  <2>2. ASSUME NEW c, NEW x, CompletePreemption(c, x) PROVE Remain
    BY <2>2 DEF CompletePreemption, Remain
  <2>3. ASSUME NEW c, NEW g, NEW t, ResumeRejected(c, g, t) PROVE Remain
    BY <2>3 DEF ResumeRejected, aggregateVars, Remain
  <2>4. QED
    BY <1>4, <2>1, <2>2, <2>3 DEF ResumeStep, Resume, RecoveryResume
<1>5. CASE ClaimStep
  <2>1. ASSUME NEW c, NEW t, ClaimRecoveryCheckpoint(c, t) PROVE Remain
    BY <2>1 DEF ClaimRecoveryCheckpoint, Remain
  <2>2. ASSUME NEW c \in DOMAIN checkpoints, NEW t \in Times, AbandonRecoveryClaim(c, t)
        PROVE  Remain
    BY <2>2 DEF AbandonRecoveryClaim, Moves, Remain
  <2>3. QED
    BY <1>5, <2>1, <2>2 DEF ClaimStep
<1>6. CASE \/ \E t \in Times : AdvanceObservedClock(t)
           \/ Restart
           \/ UNCHANGED vars
  BY <1>6 DEF AdvanceObservedClock, Restart, vars, aggregateVars, Remain
<1>7. QED
  BY <1>1, <1>2, <1>3, <1>4, <1>5, <1>6 DEF Next

\* A checkpoint that waits still does after a step that leaves it or gives it up.
LEMMA AppendedCheckpoint ==
  ASSUME PastInv, NEW r, r.pointer = "PAUSED_AT_CHECKPOINT",
         checkpoints' = Append(checkpoints, r),
         NEW n \in Nat, n = Len(checkpoints) + 1
  PROVE  /\ n \notin DOMAIN checkpoints
         /\ Len(checkpoints') = n
         /\ Paused(n)' /\ Waits(n)'
         /\ \A c \in DOMAIN checkpoints : Paused(c)' = Paused(c) /\ Waits(c)' = Waits(c)
<1>1. /\ DOMAIN checkpoints' = DOMAIN checkpoints \cup {n} /\ n \notin DOMAIN checkpoints
      /\ checkpoints'[n] = r /\ Len(checkpoints') = n
      /\ \A c \in DOMAIN checkpoints : checkpoints'[c] = checkpoints[c]
  BY DEF PastInv
<1>2. QED
  BY <1>1 DEF Paused, Waits

\* No step makes a continuation one that cannot be resumed.
LEMMA ContNext ==
  ASSUME WorkerInv, ContInv, [Next]_vars
  PROVE  ContInv'
<1>0. PastInv
  BY DEF WorkerInv
<1>1. CASE Preempts
  <2>1. PICK r : r.pointer = "PAUSED_AT_CHECKPOINT" /\ checkpoints' = Append(checkpoints, r)
    BY <1>1 DEF Preempts
  <2>2. PICK n \in Nat : n = Len(checkpoints) + 1
    BY <1>0 DEF PastInv
  <2>3. PICK m \in Nat : m = Len(continuations) + 1
    BY DEF ContInv
  <2>4. /\ continuations' \in Seq(Nat)
        /\ DOMAIN continuations' = DOMAIN continuations \cup {m} /\ m \notin DOMAIN continuations
        /\ continuations'[m] = n
        /\ \A k \in DOMAIN continuations : continuations'[k] = continuations[k]
    BY <1>1, <2>2, <2>3 DEF Preempts, ContInv
  <2>5. \A d \in DOMAIN checkpoints : d # n /\ (Waits(d) => Waits(d)')
    BY <1>0, <2>1, <2>2, AppendedCheckpoint
  <2>6. Waits(n)'
    BY <1>0, <2>1, <2>2, AppendedCheckpoint
  <2>7. IsInjective(continuations')
    BY <2>4, <2>5 DEF ContInv, IsInjective, Waits
  <2>8. QED
    BY <2>4, <2>5, <2>6, <2>7 DEF ContInv, Waits
<1>2. CASE Continues
  <2>1. PICK c \in DOMAIN checkpoints :
          Moves(c, "RESUMED") /\ continuations' = Without(continuations, c)
    BY <1>2 DEF Continues
  <2>2. /\ continuations' \in Seq(Nat) /\ IsInjective(continuations')
        /\ \A k \in DOMAIN continuations' :
             /\ continuations'[k] # c
             /\ \E j \in DOMAIN continuations : continuations'[k] = continuations[j]
    BY <2>1, WithoutLeaves DEF ContInv
  <2>3. \A d \in DOMAIN checkpoints : d # c /\ Waits(d) => Waits(d)'
    BY <1>0, <2>1, MovedPointer DEF Waits
  <2>4. \A k \in DOMAIN continuations' : (Waits(continuations[k]))'
    BY <2>2, <2>3 DEF ContInv, Waits
  <2>5. QED
    BY <2>2, <2>4 DEF ContInv
<1>3. CASE Remain
  <2>1. \A d \in DOMAIN checkpoints : Waits(d) => Waits(d)'
    <3>1. CASE UNCHANGED checkpoints
      BY <3>1 DEF Waits
    <3>2. CASE \E r : r.pointer = "PAUSED_AT_CHECKPOINT" /\ checkpoints' = Append(checkpoints, r)
      <4>1. PICK n \in Nat : n = Len(checkpoints) + 1
        BY <1>0 DEF PastInv
      <4>2. QED
        BY <1>0, <3>2, <4>1, AppendedCheckpoint
    <3>3. CASE \E c \in DOMAIN checkpoints : Moves(c, "RECOVERY_TERMINALLY_HELD")
      BY <1>0, <3>3, MovedPointer DEF Waits
    <3>4. QED
      BY <1>3, <3>1, <3>2, <3>3 DEF Remain
  <2>2. QED
    BY <1>3, <2>1 DEF Remain, ContInv, Waits
<1>4. QED
  BY <1>1, <1>2, <1>3, ContinuationEffects

LEMMA ContInvariant == Spec => []ContInv
<1>1. Init => ContInv
  BY DEF Init, ContInv, IsInjective
<1>2. WorkerInv /\ ContInv /\ [Next]_vars => ContInv'
  BY ContNext
<1>3. QED
  BY <1>1, <1>2, WorkerInvariant, PTL DEF Spec

\* Preempted work is never lost: until recovery gives its checkpoint up, each
\* continuation can be resumed, and it stands in the list once, for any number of
\* preemptions, checkpoints, recovery claims, rejected calls and restarts.
THEOREM ContinuationsStayResumable == Spec => []ContinuationsResumable
<1>1. ClaimInv /\ ContInv => ContinuationsResumable
  BY DEF ClaimInv, ClaimsAgree, ContInv, Waits, ContinuationsResumable, Paused
<1>2. QED
  BY <1>1, ClaimInvariant, ContInvariant, PTL

-----------------------------------------------------------------------------
(* Types.                                                                  *)

\* The parts of the type that no other invariant needs.
RestInv ==
  /\ phase \in {"IDLE", "ADMITTED", "BLOCKED", "RUNNING", "PAUSED",
                "COMPLETED", "CANCELLED", "CONTINUATION_READY"}
  /\ clock \in [at: Times, event: {"none", "admit", "checkpoint", "resume",
                  "complete", "cancel", "disposition", "advance"}]
  /\ held \in 0..MaxGeneration
  /\ Len(checkpoints) <= MaxCheckpoints

\* A lease is claimed of a generation and resumed at a time of the model.
LEMMA RunRest ==
  ASSUME RestInv, NEW g \in Generations, NEW w, NEW t \in Times, NEW root, NEW x,
         Run(g, w, t, root, x), Len(checkpoints') = Len(checkpoints)
  PROVE  RestInv'
BY PolicyAssumption DEF Run, Occupy, RestInv, Generations

LEMMA EndLeaseRest ==
  ASSUME RestInv, NEW lifecycle, NEW state, NEW t \in Times,
         NEW event \in {"checkpoint", "complete", "cancel"},
         EndLease(lifecycle, state, t, event),
         phase' \in {"PAUSED", "COMPLETED", "CANCELLED", "CONTINUATION_READY"},
         Len(checkpoints') <= MaxCheckpoints
  PROVE  RestInv'
BY PolicyAssumption DEF EndLease, RestInv

LEMMA RestNext ==
  ASSUME WorkerInv, RestInv, [Next]_vars
  PROVE  RestInv'
<1>0. MaxGeneration \in Nat /\ MaxCheckpoints \in Nat /\ PastInv
  BY PolicyAssumption, SchedulerAssumption DEF WorkerInv
<1>1. CASE RootStep
  BY <1>1 DEF RootStep, EnqueueRoot, CancelQueuedRoot, lifeVars, RestInv
<1>2. CASE StartStep
  <2>1. ASSUME NEW g \in Generations, NEW w, NEW t \in Times, NEW o \in {"ADMITTED", "BLOCKED"},
               NEW root, Admit(g, w, t, o, root)
        PROVE  RestInv'
    BY <2>1 DEF Admit, RestInv
  <2>2. ASSUME NEW x, LeaseSelected(x) PROVE RestInv'
    <3>1. queue \in Queue
      BY <2>2 DEF LeaseSelected, WorkerInv, AdmissionInv
    <3>2. queue.gen \in 0..MaxGeneration
      BY <1>0, <3>1 DEF Queue
    <3>3. QED
      BY <2>2, <3>2 DEF LeaseSelected, Occupy, RestInv
  <2>3. ASSUME NEW g, NEW w, NEW t, NEW root, RequestPreemption(g, w, t, root) PROVE RestInv'
    BY <2>3 DEF RequestPreemption, RestInv
  <2>4. QED
    BY <1>2, <2>1, <2>2, <2>3 DEF StartStep
<1>3. CASE EndStep
  <2>1. ASSUME NEW t \in Times, Checkpoint(t) PROVE RestInv'
    <3>1. Len(checkpoints') <= MaxCheckpoints
      BY <1>0, <2>1 DEF Checkpoint, PastInv
    <3>2. QED
      BY <2>1, <3>1, EndLeaseRest DEF Checkpoint
  <2>2. ASSUME NEW t \in Times, CompleteActive(t) PROVE RestInv'
    BY <2>2, EndLeaseRest DEF CompleteActive, Exposed, RestInv
  <2>3. ASSUME NEW t \in Times, CancelActive(t) PROVE RestInv'
    BY <2>3, EndLeaseRest DEF CancelActive, Exposed, RestInv
  <2>4. ASSUME NEW t, ReleaseRejected(t) PROVE RestInv'
    BY <1>0, <2>4 DEF ReleaseRejected, aggregateVars, RestInv
  <2>5. QED
    BY <1>3, <2>1, <2>2, <2>3, <2>4 DEF EndStep, CheckpointRejected, CompleteRejected, CancelRejected
<1>4. CASE ResumeStep
  <2>1. ASSUME NEW c \in DOMAIN checkpoints, NEW g \in Generations, NEW t \in Times, NEW x,
               Advance(c, g, t, x)
        PROVE  RestInv'
    <3>1. Len(checkpoints') = Len(checkpoints)
      BY <1>0, <2>1 DEF Advance, PastInv
    <3>2. QED
      BY <2>1, <3>1, RunRest DEF Advance
  <2>2. ASSUME NEW c, NEW x, CompletePreemption(c, x) PROVE RestInv'
    <3>1. pending \in Preemption
      BY <2>2 DEF CompletePreemption, WorkerInv, AdmissionInv
    <3>2. pending.gen \in Generations /\ pending.at \in Times
      BY <3>1 DEF Preemption, Generations
    <3>3. QED
      BY <2>2, <3>2, RunRest DEF CompletePreemption
  <2>3. ASSUME NEW c, NEW g \in Generations, NEW t, ResumeRejected(c, g, t) PROVE RestInv'
    BY <1>0, <2>3 DEF ResumeRejected, aggregateVars, RestInv, Generations
  <2>4. QED
    BY <1>4, <2>1, <2>2, <2>3 DEF ResumeStep, Resume, RecoveryResume
<1>5. CASE ClaimStep
  <2>1. ASSUME NEW c, NEW t, ClaimRecoveryCheckpoint(c, t) PROVE RestInv'
    BY <2>1 DEF ClaimRecoveryCheckpoint, RestInv
  <2>2. ASSUME NEW c \in DOMAIN checkpoints, NEW t \in Times, AbandonRecoveryClaim(c, t)
        PROVE  RestInv'
    <3>1. Len(checkpoints') = Len(checkpoints)
      BY <1>0, <2>2 DEF AbandonRecoveryClaim, PastInv
    <3>2. QED
      BY <2>2, <3>1 DEF AbandonRecoveryClaim, RestInv
  <2>3. QED
    BY <1>5, <2>1, <2>2 DEF ClaimStep
<1>6. CASE \/ \E t \in Times : AdvanceObservedClock(t)
           \/ Restart
           \/ UNCHANGED vars
  BY <1>0, <1>6 DEF AdvanceObservedClock, Restart, vars, aggregateVars, RestInv
<1>7. QED
  BY <1>1, <1>2, <1>3, <1>4, <1>5, <1>6 DEF Next

\* Every variable keeps its type.
THEOREM TypesHold == Spec => []TypeOK
<1>1. Init => RestInv
  BY PolicyAssumption, SchedulerAssumption DEF Init, RestInv, Times
<1>2. Spec => []RestInv
  BY <1>1, RestNext, WorkerInvariant, PTL DEF Spec
<1>3. WorkerInv /\ ClaimInv /\ ContInv /\ RestInv => TypeOK
  <2> SUFFICES ASSUME WorkerInv, ClaimInv, ContInv, RestInv PROVE TypeOK
    OBVIOUS
  <2>1. /\ checkpoints \in Seq(Checkpointed) /\ Len(checkpoints) <= MaxCheckpoints
        /\ DOMAIN checkpoints = 1..Len(checkpoints)
    BY DEF WorkerInv, PastInv, RestInv
  <2>2. continuations \in Seq(DOMAIN checkpoints)
    BY DEF ContInv, Waits
  <2>3. claims \in Seq(Edge)
    <3>1. \A k \in DOMAIN claims : claims[k] \in AnyEdge /\ claims[k].cp \in 1..MaxCheckpoints
      BY <2>1, SchedulerAssumption DEF ClaimInv, EdgesInv
    <3>2. \A k \in DOMAIN claims : claims[k] \in Edge
      BY <3>1 DEF AnyEdge, Edge, Generations
    <3>3. QED
      BY <3>2 DEF ClaimInv, EdgesInv
  <2>4. QED
    BY <2>1, <2>2, <2>3 DEF TypeOK, RestInv, WorkerInv, SlotInv, AdmissionInv, RootsInv
<1>4. QED
  BY <1>2, <1>3, WorkerInvariant, ClaimInvariant, ContInvariant, PTL

-----------------------------------------------------------------------------
(* Stops.                                                                  *)

\* While work runs, is admitted or is blocked, nothing is claimed of stops.
LEMMA NoStop ==
  ASSUME phase' \in {"RUNNING", "ADMITTED", "BLOCKED"}
  PROVE  StopsAreResumable'
BY DEF StopsAreResumable

\* A step that leaves the phase and both sequences leaves the stop as it is.
LEMMA SameStop ==
  ASSUME StopsAreResumable, UNCHANGED <<phase, checkpoints, continuations>>
  PROVE  StopsAreResumable'
BY DEF StopsAreResumable, Paused

\* No step stops the scheduler without something to resume.
LEMMA StopsNext ==
  ASSUME WorkerInv, StopsAreResumable, [Next]_vars
  PROVE  StopsAreResumable'
<1>1. CASE RootStep
  BY <1>1, SameStop DEF RootStep, EnqueueRoot, CancelQueuedRoot, lifeVars
<1>2. CASE StartStep
  BY <1>2, NoStop, SameStop DEF StartStep, Admit, LeaseSelected, Occupy, RequestPreemption
<1>3. CASE EndStep
  <2>1. ASSUME NEW t, Checkpoint(t) PROVE StopsAreResumable'
    <3> DEFINE r == [work |-> active.work, gen |-> active.gen, at |-> t,
                     pointer |-> "PAUSED_AT_CHECKPOINT"]
    <3>1. phase' = "PAUSED" /\ checkpoints' = Append(checkpoints, r)
      BY <2>1 DEF Checkpoint
    <3>2. PICK n \in Nat : n = Len(checkpoints) + 1
      BY DEF WorkerInv, PastInv
    <3>3. n \in DOMAIN checkpoints' /\ checkpoints'[n] = r
      BY <3>1, <3>2 DEF WorkerInv, PastInv
    <3>4. Paused(n)' /\ n = Len(checkpoints')
      BY <3>1, <3>2, <3>3 DEF Paused, WorkerInv, PastInv
    <3>5. QED
      BY <3>1, <3>4 DEF StopsAreResumable
  <2>2. ASSUME NEW t, CompleteActive(t) \/ CancelActive(t) PROVE StopsAreResumable'
    BY <2>2 DEF CompleteActive, CancelActive, Exposed, StopsAreResumable
  <2>3. ASSUME NEW t, ReleaseRejected(t) PROVE StopsAreResumable'
    BY <2>3, SameStop DEF ReleaseRejected, aggregateVars
  <2>4. QED
    BY <1>3, <2>1, <2>2, <2>3 DEF EndStep, CheckpointRejected, CompleteRejected, CancelRejected
<1>4. CASE ResumeStep
  <2>1. ASSUME NEW c, NEW g, NEW t, NEW x, Advance(c, g, t, x) \/ CompletePreemption(c, x)
        PROVE  StopsAreResumable'
    BY <2>1, NoStop DEF Advance, CompletePreemption, Run, Occupy
  <2>2. ASSUME NEW c, NEW g, NEW t, ResumeRejected(c, g, t) PROVE StopsAreResumable'
    BY <2>2, SameStop DEF ResumeRejected, aggregateVars
  <2>3. QED
    BY <1>4, <2>1, <2>2 DEF ResumeStep, Resume, RecoveryResume
<1>5. CASE ClaimStep
  BY <1>5, NoStop, SameStop DEF ClaimStep, ClaimRecoveryCheckpoint, AbandonRecoveryClaim
<1>6. CASE \/ \E t \in Times : AdvanceObservedClock(t)
           \/ Restart
           \/ UNCHANGED vars
  BY <1>6, SameStop DEF AdvanceObservedClock, Restart, vars, aggregateVars
<1>7. QED
  BY <1>1, <1>2, <1>3, <1>4, <1>5, <1>6 DEF Next

\* A stop for a checkpoint has one to resume, and an end without a continuation
\* is an end: no preempted work is forgotten, whatever is called in between.
THEOREM StopsStayResumable == Spec => []StopsAreResumable
<1>1. Init => StopsAreResumable
  BY DEF Init, StopsAreResumable
<1>2. QED
  BY <1>1, StopsNext, WorkerInvariant, PTL DEF Spec

-----------------------------------------------------------------------------
(* The tool relay.                                                         *)

\* The relay moves under the scheduler's own steps.
LEMMA RelayStepIsStep ==
  ASSUME RelayNext
  PROVE  [Next]_vars
<1>1. CASE Others
  BY <1>1 DEF Others, Next
<1>2. CASE SyncRelayState \/ RestartWithRelay
  BY <1>2 DEF SyncRelayState, RestartWithRelay, Next
<1>3. ASSUME NEW t \in Times, EndNaming(t) \/ EndThrows(t) PROVE [Next]_vars
  BY <1>3 DEF EndNaming, EndThrows, Next, EndStep
<1>4. ASSUME NEW g, NEW t, NEW i,
             Register(g, t, i) \/ Reinject(i, g, t) \/ Accept(i, t) \/ CancelCall(i, t)
      PROVE  UNCHANGED vars
  BY <1>4 DEF Register, Accept, Reinject, CancelCall
<1>5. ASSUME NEW t \in Times, NEW i, CheckpointNaming(t, i) \/ CheckpointThrows(t, i)
      PROVE  [Next]_vars
  BY <1>5 DEF CheckpointNaming, CheckpointThrows, Next, EndStep
<1>6. ASSUME NEW k \in DOMAIN checkpoints, NEW x \in Expiries,
             \/ CompletePreemptionNaming(k, x)
             \/ \E g \in Generations, t \in Times : ResumeNaming(k, g, t, x)
      PROVE  [Next]_vars
  BY <1>6 DEF CompletePreemptionNaming, ResumeNaming, Next, ResumeStep
<1>7. ASSUME NEW k \in DOMAIN checkpoints, NEW g \in Generations, NEW t \in Times,
             ResumeThrows(k, g, t)
      PROVE  [Next]_vars
  BY <1>7 DEF ResumeThrows, Next, ResumeStep
<1>8. QED
  BY <1>1, <1>2, <1>3, <1>4, <1>5, <1>6, <1>7 DEF RelayNext

\* What holds of the scheduler holds of it with a relay.
LEMMA RelayUnderWorker == RelaySpec => [](WorkerInv /\ ContInv)
<1>1. RelayInit => WorkerInv /\ ContInv
  BY WorkerInit DEF RelayInit, Init, ContInv, IsInjective
<1>2. WorkerInv /\ ContInv /\ [RelayNext]_<<vars, relayVars>> => (WorkerInv /\ ContInv)'
  <2> SUFFICES ASSUME WorkerInv, ContInv, [RelayNext]_<<vars, relayVars>>
               PROVE  (WorkerInv /\ ContInv)'
    OBVIOUS
  <2>1. [Next]_vars
    BY RelayStepIsStep
  <2>2. QED
    BY <2>1, WorkerNext, ContNext
<1>3. QED
  BY <1>1, <1>2, PTL DEF RelaySpec

\* The relay's types; and what a checkpoint names is on file.
RelayTyped ==
  /\ RelayTypeOK
  /\ \A k \in DOMAIN names : names[k] <= Len(filed)

States == Open \cup {"REINJECTED", "CLOSED"}

\* An entry after its next receipt.
LEMMA EntryIs ==
  ASSUME RelayTyped, NEW i \in DOMAIN calls, NEW state \in States, NEW t \in Times
  PROVE  /\ Entry(i, state, t) \in Call
         /\ Entry(i, state, t).state = state
<1>1. calls[i] \in Call
  BY DEF RelayTyped, RelayTypeOK
<1>2. /\ 0 \in Times /\ 1 \in 1..MaxTime + 1 /\ 0 \in 0..MaxCheckpoints
      /\ 0 \in 0..MaxGeneration
  BY SchedulerAssumption, PolicyAssumption DEF Times
<1>3. QED
  BY <1>1, <1>2 DEF Entry, Call, States

LEMMA NewCallIs ==
  ASSUME NEW g \in Generations, NEW t \in Times, NEW timeout \in 1..MaxTime + 1,
         NEW pred \in 0..MaxCalls, NEW late \in 0..MaxGeneration
  PROVE  NewCall(g, t, timeout, pred, late) \in Call
BY SchedulerAssumption DEF NewCall, Call, Generations, Open

\* What every step but a restart does to the relay: calls move, and are appended.
Grows ==
  /\ calls' \in Seq(Call)
  /\ Len(calls) <= Len(calls') /\ Len(calls') <= MaxCalls

HeldKept ==
  \A i \in DOMAIN calls :
    calls[i].state = "HELD" => calls'[i].state = "HELD" /\ calls'[i].cp = calls[i].cp

\* Replacing one entry, and appending one.
LEMMA ReplaceGrows ==
  ASSUME RelayTyped, NEW i \in DOMAIN calls, NEW e \in Call, calls' = [calls EXCEPT ![i] = e]
  PROVE  /\ Grows /\ calls'[i] = e
         /\ \A j \in DOMAIN calls : j # i => calls'[j] = calls[j]
BY DEF RelayTyped, RelayTypeOK, Grows

LEMMA SameGrows ==
  ASSUME RelayTyped, UNCHANGED calls
  PROVE  Grows /\ HeldKept
BY DEF RelayTyped, RelayTypeOK, Grows, HeldKept

LEMMA RegisterGrows ==
  ASSUME WorkerInv, RelayTyped, NEW t \in Times, NEW timeout \in 1..MaxTime + 1,
         NEW g \in Generations, Register(g, t, timeout)
  PROVE  Grows /\ HeldKept
<1>1. PICK late \in 0..MaxGeneration :
        calls' = Append(calls, NewCall(g, t, timeout, 0, late)) /\ Len(calls) < MaxCalls
  BY PolicyAssumption DEF Register, WorkerInv, SlotInv
<1>2. NewCall(g, t, timeout, 0, late) \in Call
  BY NewCallIs, RelayAssumption
<1>3. QED
  BY <1>1, <1>2, RelayAssumption DEF Register, RelayTyped, RelayTypeOK, Grows, HeldKept

\* An answer, a reinjection and a cancellation leave the calls that are held.
LEMMA MoveGrows ==
  ASSUME RelayTyped, NEW i \in DOMAIN calls, NEW t \in Times, NEW g,
         Accept(i, t) \/ Reinject(i, g, t) \/ CancelCall(i, t)
  PROVE  Grows /\ HeldKept
<1>1. PICK state \in States : Move(i, state, t) /\ calls[i].state # "HELD"
  BY DEF Accept, Reinject, CancelCall, States, Open
<1>2. calls' = [calls EXCEPT ![i] = Entry(i, state, t)]
  BY <1>1 DEF Move
<1>3. Grows /\ \A j \in DOMAIN calls : j # i => calls'[j] = calls[j]
  BY <1>2, EntryIs, ReplaceGrows
<1>4. QED
  BY <1>1, <1>3 DEF HeldKept

\* hold leaves the calls that are held already.
LEMMA HoldGrows ==
  ASSUME RelayTyped, NEW i \in {0} \cup DOMAIN calls, NEW t \in Times,
         NEW cp \in 0..MaxCheckpoints, Hold(i, t, cp)
  PROVE  /\ Grows /\ HeldKept
         /\ i # 0 /\ calls[i].state = "PENDING" => calls'[i].state = "HELD" /\ calls'[i].cp = cp
<1>1. CASE i # 0 /\ calls[i].state = "PENDING"
  <2> DEFINE e == [Entry(i, "HELD", t) EXCEPT !.cp = cp]
  <2>1. e \in Call /\ e.state = "HELD" /\ e.cp = cp
    <3>1. Entry(i, "HELD", t) \in Call /\ Entry(i, "HELD", t).state = "HELD"
      BY <1>1, EntryIs DEF States, Open
    <3>2. QED
      BY <3>1 DEF Call
  <2>2. calls' = [calls EXCEPT ![i] = e]
    BY <1>1 DEF Hold
  <2>3. /\ Grows /\ calls'[i] = e
        /\ \A j \in DOMAIN calls : j # i => calls'[j] = calls[j]
    BY <1>1, <2>1, <2>2, ReplaceGrows
  <2>4. QED
    BY <1>1, <2>1, <2>3 DEF HeldKept
<1>2. CASE ~(i # 0 /\ calls[i].state = "PENDING")
  BY <1>2, SameGrows DEF Hold
<1>3. QED
  BY <1>1, <1>2

\* Closing a set of calls.
LEMMA CloseGrows ==
  ASSUME RelayTyped, NEW S, NEW t \in Times, Close(S, t)
  PROVE  /\ Grows
         /\ DOMAIN calls' = DOMAIN calls
         /\ \A i \in DOMAIN calls : calls'[i] = IF i \in S THEN Entry(i, "CLOSED", t) ELSE calls[i]
         /\ \A i \in DOMAIN calls : i \in S => calls'[i].state = "CLOSED"
<1>1. /\ \A i \in DOMAIN calls : calls[i] \in Call
      /\ DOMAIN calls = 1..Len(calls) /\ Len(calls) \in Nat /\ Len(calls) <= MaxCalls
  BY DEF RelayTyped, RelayTypeOK
<1>2. \A i \in DOMAIN calls : Entry(i, "CLOSED", t) \in Call /\ Entry(i, "CLOSED", t).state = "CLOSED"
  BY EntryIs DEF States
<1>3. calls' = [i \in 1..Len(calls) |-> IF i \in S THEN Entry(i, "CLOSED", t) ELSE calls[i]]
  BY <1>1 DEF Close
<1>4. calls' \in Seq(Call) /\ Len(calls') = Len(calls) /\ DOMAIN calls' = DOMAIN calls
  BY <1>1, <1>2, <1>3
<1>5. \A i \in DOMAIN calls : calls'[i] = IF i \in S THEN Entry(i, "CLOSED", t) ELSE calls[i]
  BY <1>1, <1>3
<1>6. Grows
  BY <1>1, <1>4, RelayAssumption DEF Grows
<1>7. QED
  BY <1>2, <1>4, <1>5, <1>6

\* A disposition touches only the call that its checkpoint names, and appends.
LEMMA DisposeGrows ==
  ASSUME RelayTyped, NEW k \in DOMAIN names, NEW g \in Generations, NEW t \in Times,
         Dispose(k, g, t)
  PROVE  /\ Grows
         /\ \A i \in DOMAIN calls : i # names[k] => calls'[i] = calls[i]
         /\ names[k] # 0 => calls[names[k]].cp = k
<1> DEFINE i == names[k]
           closed == [calls EXCEPT ![i] = Entry(i, "CLOSED", t)]
<1>1. CASE i = 0
  BY <1>1, SameGrows DEF Dispose
<1>2. CASE i # 0
  <2>1. i \in DOMAIN calls /\ i \in 0..MaxCalls
    <3>1. i \in 0..MaxCalls /\ i <= Len(filed) /\ MaxCalls \in Nat
      BY RelayAssumption DEF RelayTyped, RelayTypeOK
    <3>2. Len(filed) \in Nat /\ Len(calls) \in Nat /\ Len(filed) <= Len(calls)
      BY DEF RelayTyped, RelayTypeOK
    <3>3. DOMAIN calls = 1..Len(calls)
      BY DEF RelayTyped, RelayTypeOK
    <3>4. QED
      BY <1>2, <3>1, <3>2, <3>3
  <2>2. Entry(i, "CLOSED", t) \in Call
    BY <2>1, EntryIs DEF States
  <2>3. /\ closed \in Seq(Call) /\ Len(closed) = Len(calls)
        /\ \A j \in DOMAIN calls : j # i => closed[j] = calls[j]
    BY <2>1, <2>2 DEF RelayTyped, RelayTypeOK
  <2>4. /\ calls[i].cp = k
        /\ \/ calls' = closed
           \/ /\ Len(calls) < MaxCalls
              /\ \E timeout \in t+1..MaxTime + 1 :
                   calls' = Append(closed, NewCall(g, t, timeout, i, 0))
    BY <1>2 DEF Dispose
  <2> HIDE DEF closed
  <2>5. Len(calls) \in Nat /\ Len(calls) <= MaxCalls /\ DOMAIN calls = 1..Len(calls)
    BY DEF RelayTyped, RelayTypeOK
  <2>6. CASE calls' = closed
    BY <2>3, <2>4, <2>5, <2>6 DEF Grows
  <2>7. CASE Len(calls) < MaxCalls /\ \E timeout \in t+1..MaxTime + 1 :
               calls' = Append(closed, NewCall(g, t, timeout, i, 0))
    <3>1. PICK timeout \in t+1..MaxTime + 1 : calls' = Append(closed, NewCall(g, t, timeout, i, 0))
      BY <2>7
    <3>2. timeout \in 1..MaxTime + 1 /\ 0 \in 0..MaxGeneration
      BY SchedulerAssumption, PolicyAssumption DEF Times
    <3>3. NewCall(g, t, timeout, i, 0) \in Call
      BY <2>1, <3>2, NewCallIs
    <3>4. /\ calls' \in Seq(Call) /\ Len(calls') = Len(calls) + 1
          /\ \A j \in DOMAIN calls : calls'[j] = closed[j]
      BY <2>3, <2>5, <3>1, <3>3
    <3>5. QED
      BY <2>3, <2>4, <2>5, <2>7, <3>4, RelayAssumption DEF Grows
  <2>8. QED
    BY <2>4, <2>6, <2>7
<1>3. QED
  BY <1>1, <1>2

\* What a step that forms no checkpoint does to the checkpoints that are waited at.
Fewer ==
  /\ Len(checkpoints') = Len(checkpoints)
  /\ Awaited' \subseteq Awaited
  /\ \A k : Paused(k)' => Paused(k)

Quiet ==
  /\ UNCHANGED continuations
  /\ \/ UNCHANGED checkpoints
     \/ \E c \in DOMAIN checkpoints : Moves(c, "RECOVERY_TERMINALLY_HELD")
  /\ phase' = phase \/ phase' # "PAUSED"

\* A pointer that moves leaves as many checkpoints, and pauses none.
LEMMA MovedFewer ==
  ASSUME PastInv, NEW c \in DOMAIN checkpoints,
         NEW pointer \in {"RESUMED", "RECOVERY_TERMINALLY_HELD"}, Moves(c, pointer)
  PROVE  /\ Len(checkpoints') = Len(checkpoints)
         /\ \A k : Paused(k)' => Paused(k)
<1>1. PICK t \in Times :
        checkpoints' = [checkpoints EXCEPT ![c].pointer = pointer, ![c].at = t]
  BY DEF Moves
<1>2. Len(checkpoints') = Len(checkpoints)
  BY <1>1 DEF PastInv
<1>3. QED
  BY <1>2, MovedPointer DEF Paused

LEMMA QuietFewer ==
  ASSUME PastInv, Quiet
  PROVE  Fewer
<1>1. Len(checkpoints') = Len(checkpoints) /\ \A k : Paused(k)' => Paused(k)
  BY MovedFewer DEF Quiet, Paused
<1>2. QED
  BY <1>1 DEF Quiet, Fewer, Awaited

LEMMA UnchangedQuiet ==
  ASSUME UNCHANGED <<phase, checkpoints, continuations>>
  PROVE  Quiet
BY DEF Quiet

\* The methods that do not know the relay form no checkpoint.
LEMMA OthersQuiet ==
  ASSUME RootStep \/ StartStep \/ ClaimStep \/ \E t \in Times : AdvanceObservedClock(t)
  PROVE  Quiet
<1>1. CASE RootStep
  BY <1>1 DEF RootStep, EnqueueRoot, CancelQueuedRoot, lifeVars, Quiet
<1>2. CASE StartStep
  BY <1>2 DEF StartStep, Admit, LeaseSelected, Occupy, RequestPreemption, Quiet
<1>3. CASE ClaimStep
  <2>1. ASSUME NEW c \in DOMAIN checkpoints, NEW t \in Times, AbandonRecoveryClaim(c, t)
        PROVE  Quiet
    BY <2>1 DEF AbandonRecoveryClaim, Moves, Quiet
  <2>2. QED
    BY <1>3, <2>1 DEF ClaimStep, ClaimRecoveryCheckpoint, Quiet
<1>4. CASE \E t \in Times : AdvanceObservedClock(t)
  BY <1>4 DEF AdvanceObservedClock, Quiet
<1>5. QED
  BY <1>1, <1>2, <1>3, <1>4

LEMMA EndQuiet ==
  ASSUME NEW t, \/ CompleteActive(t) \/ CancelActive(t) \/ CheckpointRejected(t)
                \/ CompleteRejected(t) \/ CancelRejected(t) \/ UNCHANGED vars
  PROVE  Quiet
BY DEF CompleteActive, CancelActive, Exposed, CheckpointRejected, CompleteRejected,
       CancelRejected, ReleaseRejected, vars, aggregateVars, Quiet

\* Resumed work no longer waits at its checkpoint.
LEMMA ResumedFewer ==
  ASSUME PastInv, ContInv, NEW c \in DOMAIN checkpoints, NEW g, NEW t \in Times, NEW x,
         Advance(c, g, t, x)
  PROVE  Fewer /\ c \notin Awaited' /\ phase' = "RUNNING"
<1>1. Moves(c, "RESUMED") /\ continuations' = Without(continuations, c) /\ phase' = "RUNNING"
  BY DEF Advance, Resumable, Moves, Run, Occupy
<1>2. \A k \in DOMAIN continuations' :
        /\ continuations'[k] # c
        /\ \E j \in DOMAIN continuations : continuations'[k] = continuations[j]
  BY <1>1, WithoutLeaves DEF ContInv
<1>3. Awaited' \subseteq Awaited /\ c \notin Awaited'
  BY <1>1, <1>2 DEF Awaited
<1>4. QED
  BY <1>1, <1>3, MovedFewer DEF Fewer

-----------------------------------------------------------------------------
\* The calls of the two ledgers and the names of the checkpoints keep their types.
Names ==
  \/ UNCHANGED names /\ Len(checkpoints') = Len(checkpoints)
  \/ \E i \in {0} \cup DOMAIN calls :
       /\ names' = Append(names, i) /\ filed' = calls' /\ Grows
       /\ Len(checkpoints') = Len(checkpoints) + 1

Files ==
  \/ Grows /\ (filed' = filed \/ filed' = calls')
  \/ calls' = filed /\ filed' = filed

LEMMA NameableCalls ==
  ASSUME NEW i \in Nameable
  PROVE  i \in {0} \cup DOMAIN calls
BY DEF Nameable

LEMMA CheckpointFiles ==
  ASSUME WorkerInv, RelayTyped, NEW t \in Times, NEW i, CheckpointNaming(t, i)
  PROVE  Grows /\ HeldKept /\ Files /\ Names
<1>1. PICK n \in 1..MaxCheckpoints : n = Len(checkpoints) + 1
  BY SchedulerAssumption DEF CheckpointNaming, Checkpoint, WorkerInv, PastInv
<1>2. Grows /\ HeldKept
  <2>1. i \in {0} \cup DOMAIN calls /\ Hold(i, t, n)
    BY <1>1, NameableCalls DEF CheckpointNaming
  <2>2. QED
    BY <2>1, HoldGrows
<1>3. Len(checkpoints') = Len(checkpoints) + 1
  BY DEF CheckpointNaming, Checkpoint, WorkerInv, PastInv
<1>4. Names
  BY <1>2, <1>3, NameableCalls DEF CheckpointNaming, Names
<1>5. QED
  BY <1>2, <1>4 DEF CheckpointNaming, Files

LEMMA StepFiles ==
  ASSUME WorkerInv, ContInv, RelayTyped, [RelayNext]_<<vars, relayVars>>
  PROVE  Files /\ Names
<1>0. PastInv
  BY DEF WorkerInv
<1>1. CASE Others
  BY <1>0, <1>1, OthersQuiet, QuietFewer, SameGrows DEF Others, relayVars, Fewer, Files, Names
<1>2. CASE SyncRelayState \/ RestartWithRelay \/ UNCHANGED <<vars, relayVars>>
  <2>1. UNCHANGED <<checkpoints, names>>
    BY <1>2 DEF SyncRelayState, RestartWithRelay, Restart, relayVars, vars, aggregateVars
  <2>2. QED
    BY <1>2, <2>1, SameGrows DEF SyncRelayState, RestartWithRelay, relayVars, Files, Names
<1>3. ASSUME NEW t \in Times, EndNaming(t) \/ EndThrows(t) PROVE Files /\ Names
  <2>1. Grows
    BY <1>3, CloseGrows DEF EndNaming, EndThrows
  <2>2. Fewer
    BY <1>0, <1>3, EndQuiet, QuietFewer DEF EndNaming, EndThrows
  <2>3. QED
    BY <1>3, <2>1, <2>2 DEF EndNaming, EndThrows, Fewer, Files, Names
<1>4. ASSUME NEW g \in Generations, NEW t \in Times, NEW timeout \in 1..MaxTime + 1,
             Register(g, t, timeout)
      PROVE  Files /\ Names
  BY <1>4, RegisterGrows DEF Register, vars, aggregateVars, Files, Names
<1>5. ASSUME NEW g, NEW t \in Times, NEW i \in DOMAIN calls,
             Accept(i, t) \/ Reinject(i, g, t) \/ CancelCall(i, t)
      PROVE  Files /\ Names
  <2>1. Grows
    BY <1>5, MoveGrows
  <2>2. QED
    BY <1>5, <2>1 DEF Accept, Reinject, CancelCall, vars, aggregateVars, Files, Names
<1>6. ASSUME NEW t \in Times, NEW i, CheckpointThrows(t, i)
      PROVE  Files /\ Names
  <2>1. PICK n \in 1..MaxCheckpoints : n = Len(checkpoints) + 1
    BY <1>0, <1>6, SchedulerAssumption DEF CheckpointThrows, PastInv
  <2>2. Grows
    BY <1>6, <2>1, NameableCalls, HoldGrows DEF CheckpointThrows
  <2>3. Fewer
    BY <1>0, <1>6, EndQuiet, QuietFewer DEF CheckpointThrows
  <2>4. QED
    BY <1>6, <2>2, <2>3 DEF CheckpointThrows, Fewer, Files, Names
<1>7. ASSUME NEW k \in DOMAIN checkpoints, NEW x \in Expiries, CompletePreemptionNaming(k, x)
      PROVE  Files /\ Names
  BY <1>7, SameGrows DEF CompletePreemptionNaming, CompletePreemption, Files, Names
<1>8. ASSUME NEW k \in DOMAIN checkpoints, NEW g \in Generations, NEW t \in Times, NEW x,
             ResumeNaming(k, g, t, x)
      PROVE  Files /\ Names
  <2>1. k \in DOMAIN names
    BY <1>0 DEF RelayTyped, RelayTypeOK, PastInv
  <2>2. Grows
    BY <1>8, <2>1, DisposeGrows DEF ResumeNaming
  <2>3. Fewer
    BY <1>0, <1>8, ResumedFewer DEF ResumeNaming, Resume, RecoveryResume
  <2>4. QED
    BY <1>8, <2>2, <2>3 DEF ResumeNaming, Fewer, Files, Names
<1>9. ASSUME NEW k \in DOMAIN checkpoints, NEW g \in Generations, NEW t \in Times, ResumeThrows(k, g, t)
      PROVE  Files /\ Names
  <2>1. k \in DOMAIN names
    BY <1>0 DEF RelayTyped, RelayTypeOK, PastInv
  <2>2. Grows
    BY <1>9, <2>1, DisposeGrows DEF ResumeThrows
  <2>3. UNCHANGED checkpoints
    BY <1>9 DEF ResumeThrows, ResumeRejected, aggregateVars
  <2>4. QED
    BY <1>9, <2>2, <2>3 DEF ResumeThrows, Files, Names
<1>10. QED
  BY <1>1, <1>2, <1>3, <1>4, <1>5, <1>6, <1>7, <1>8, <1>9, CheckpointFiles DEF RelayNext

\* What the host was given keeps its type.
LEMMA GivenTyped ==
  ASSUME WorkerInv, RelayTyped, [RelayNext]_<<vars, relayVars>>
  PROVE  /\ until' \in [Generations -> 0..MaxTime + 1]
         /\ authorized' \in [Generations -> 0..MaxCalls]
<1>1. /\ until \in [Generations -> 0..MaxTime + 1]
      /\ authorized \in [Generations -> 0..MaxCalls]
      /\ DOMAIN calls \subseteq 0..MaxCalls /\ 0 \in 0..MaxCalls
  BY RelayAssumption DEF RelayTyped, RelayTypeOK
<1>2. ASSUME Grants PROVE until' \in [Generations -> 0..MaxTime + 1]
  <2>1. WorkerInv'
    BY RelayStepIsStep, WorkerNext
  <2>2. active' = None \/ (active'.gen \in Generations /\ active'.expires \in 0..MaxTime + 1)
    BY <2>1, SchedulerAssumption DEF WorkerInv, SlotInv, Lease, Generations
  <2>3. QED
    BY <1>1, <1>2, <2>2 DEF Grants
<1>3. CASE UNCHANGED <<until, authorized>>
  BY <1>1, <1>3
<1>4. CASE Grants /\ UNCHANGED authorized
  BY <1>1, <1>2, <1>4
<1>5. ASSUME Grants, NEW k, NEW g \in Generations, NEW i \in Authorizable(k),
             authorized' = [authorized EXCEPT ![g] = i]
      PROVE  authorized' \in [Generations -> 0..MaxCalls]
  <2>1. i \in 0..MaxCalls
    BY <1>1 DEF Authorizable, In
  <2>2. QED
    BY <1>1, <1>5, <2>1
<1>6. CASE Others
  BY <1>4, <1>6 DEF Others
<1>7. ASSUME NEW k, NEW x, CompletePreemptionNaming(k, x)
      PROVE  Grants /\ UNCHANGED authorized
  BY <1>7 DEF CompletePreemptionNaming
<1>8. ASSUME NEW k, NEW g, NEW t, NEW x, ResumeNaming(k, g, t, x)
      PROVE  Grants /\ \E i \in Authorizable(k) : authorized' = [authorized EXCEPT ![g] = i]
  BY <1>8 DEF ResumeNaming
<1>9. ASSUME NEW g, NEW t, NEW i,
             \/ EndNaming(t) \/ EndThrows(t) \/ Register(g, t, i) \/ Reinject(i, g, t)
             \/ Accept(i, t) \/ CancelCall(i, t)
             \/ CheckpointNaming(t, i) \/ CheckpointThrows(t, i) \/ ResumeThrows(i, g, t)
      PROVE  UNCHANGED <<until, authorized>>
  BY <1>9 DEF EndNaming, EndThrows, Register, Reinject, Accept, CancelCall, CheckpointNaming,
     CheckpointThrows, ResumeThrows
<1>10. CASE SyncRelayState \/ RestartWithRelay \/ UNCHANGED <<vars, relayVars>>
  BY <1>3, <1>10 DEF SyncRelayState, RestartWithRelay, relayVars
<1>11. QED
  BY <1>2, <1>3, <1>4, <1>5, <1>6, <1>7, <1>8, <1>9, <1>10 DEF RelayNext

LEMMA RelayTypedNext ==
  ASSUME WorkerInv, ContInv, RelayTyped, [RelayNext]_<<vars, relayVars>>
  PROVE  RelayTyped'
<1>1. Files /\ Names
  BY StepFiles
<1>2. /\ calls \in Seq(Call) /\ filed \in Seq(Call) /\ names \in Seq(0..MaxCalls)
      /\ Len(filed) <= Len(calls) /\ Len(calls) <= MaxCalls /\ MaxCalls \in Nat
      /\ Len(names) = Len(checkpoints)
      /\ \A k \in DOMAIN names : names[k] <= Len(filed)
  BY RelayAssumption DEF RelayTyped, RelayTypeOK
<1>3. DOMAIN calls = 1..Len(calls) /\ Len(calls) \in Nat /\ Len(filed) \in Nat
  BY <1>2
<1>4. /\ calls' \in Seq(Call) /\ filed' \in Seq(Call)
      /\ Len(filed') <= Len(calls') /\ Len(calls') <= MaxCalls /\ Len(filed) <= Len(filed')
  BY <1>1, <1>2, <1>3 DEF Files, Grows
<1>5. /\ until' \in [Generations -> 0..MaxTime + 1]
      /\ authorized' \in [Generations -> 0..MaxCalls]
  BY GivenTyped
<1>6. /\ names' \in Seq(0..MaxCalls) /\ Len(names') = Len(checkpoints')
      /\ \A k \in DOMAIN names' : names'[k] <= Len(filed')
  <2>1. CASE UNCHANGED names /\ Len(checkpoints') = Len(checkpoints)
    <3>1. \A k \in DOMAIN names : names[k] \in Nat
      BY <1>2
    <3>2. Len(filed') \in Nat
      BY <1>4
    <3>3. QED
      BY <1>2, <1>3, <1>4, <2>1, <3>1, <3>2
  <2>2. ASSUME NEW i \in {0} \cup DOMAIN calls,
               names' = Append(names, i), filed' = calls', Grows,
               Len(checkpoints') = Len(checkpoints) + 1
        PROVE  <1>6!:
    <3>1. i \in 0..MaxCalls /\ i <= Len(calls)
      BY <1>2, <1>3
    <3>2. Len(calls) <= Len(calls') /\ Len(calls') \in Nat
      BY <1>2, <2>2 DEF Grows
    <3>3. PICK n \in Nat : n = Len(names) + 1
      BY <1>2
    <3>4. /\ names' \in Seq(0..MaxCalls) /\ Len(names') = n
          /\ DOMAIN names' = DOMAIN names \cup {n} /\ names'[n] = i
          /\ \A k \in DOMAIN names : names'[k] = names[k] /\ names[k] \in Nat
      BY <1>2, <2>2, <3>1, <3>3
    <3>5. QED
      BY <1>2, <1>3, <1>4, <2>2, <3>1, <3>2, <3>3, <3>4
  <2>3. QED
    BY <1>1, <2>1, <2>2 DEF Names
<1>7. QED
  BY <1>4, <1>5, <1>6 DEF RelayTyped, RelayTypeOK

\* The relay's state keeps its type, in memory and on file, and no checkpoint names
\* a call that is not on file.
THEOREM RelayTypesHold == RelaySpec => []RelayTyped
<1>1. RelayInit => RelayTyped
  BY RelayAssumption, SchedulerAssumption DEF RelayInit, Init, RelayTyped, RelayTypeOK
<1>2. WorkerInv /\ ContInv /\ RelayTyped /\ [RelayNext]_<<vars, relayVars>> => RelayTyped'
  BY RelayTypedNext
<1>3. QED
  BY <1>1, <1>2, RelayUnderWorker, PTL DEF RelaySpec

-----------------------------------------------------------------------------
(* What a checkpoint names waits for it.                                   *)

Holds(entries) ==
  \A k \in Awaited :
    Paused(k) /\ names[k] # 0 =>
      /\ names[k] \in DOMAIN entries
      /\ entries[names[k]].state = "HELD" /\ entries[names[k]].cp = k

HoldInv == Holds(calls) /\ Holds(filed)

\* It is enough that the held calls of the checkpoints still waited at stay.
LEMMA HoldsOn ==
  ASSUME RelayTyped, HoldInv, Fewer, UNCHANGED names, filed' = filed \/ filed' = calls',
         \A k \in Awaited' :
           Paused(k) /\ names[k] \in DOMAIN calls
             /\ calls[names[k]].state = "HELD" /\ calls[names[k]].cp = k =>
           /\ names[k] \in DOMAIN calls'
           /\ calls'[names[k]].state = "HELD" /\ calls'[names[k]].cp = k
  PROVE  HoldInv'
<1>1. \A k \in Awaited' : k \in Awaited /\ (Paused(k)' => Paused(k)) /\ names'[k] = names[k]
  BY DEF Fewer
<1>2. Holds(calls)'
  BY <1>1 DEF HoldInv, Holds
<1>3. Holds(filed)'
  BY <1>1, <1>2 DEF HoldInv, Holds
<1>4. QED
  BY <1>2, <1>3 DEF HoldInv

LEMMA KeptHolds ==
  ASSUME RelayTyped, HoldInv, Fewer, UNCHANGED names, filed' = filed \/ filed' = calls',
         Grows, HeldKept
  PROVE  HoldInv'
<1>1. DOMAIN calls \subseteq DOMAIN calls'
  BY DEF Grows, RelayTyped, RelayTypeOK
<1>2. QED
  BY <1>1, HoldsOn DEF HeldKept

\* The new checkpoint's call is held for it.
LEMMA CheckpointHolds ==
  ASSUME Careful, WorkerInv, RelayTyped, HoldInv, NEW t \in Times, NEW i, CheckpointNaming(t, i)
  PROVE  HoldInv'
<1>0. PastInv
  BY DEF WorkerInv
<1>1. PICK n \in 1..MaxCheckpoints : n = Len(checkpoints) + 1
  BY <1>0, SchedulerAssumption DEF CheckpointNaming, Checkpoint, PastInv
<1>2. /\ Grows /\ HeldKept /\ i \in {0} \cup DOMAIN calls
      /\ i # 0 /\ calls[i].state = "PENDING" => calls'[i].state = "HELD" /\ calls'[i].cp = n
  <2>1. i \in {0} \cup DOMAIN calls /\ Hold(i, t, n) /\ n \in 0..MaxCheckpoints
    BY <1>1, NameableCalls DEF CheckpointNaming
  <2>2. QED
    BY <2>1, HoldGrows
<1>3. i # 0 => calls[i].state = "PENDING" \/ (calls[i].state = "HELD" /\ calls[i].cp = n)
  BY <1>1 DEF CheckpointNaming, Nameable
<1>4. DOMAIN calls \subseteq DOMAIN calls'
  BY <1>2 DEF Grows, RelayTyped, RelayTypeOK
<1>5. i # 0 => i \in DOMAIN calls' /\ calls'[i].state = "HELD" /\ calls'[i].cp = n
  BY <1>2, <1>3, <1>4 DEF HeldKept
<1>6. /\ Len(names) = Len(checkpoints) /\ names \in Seq(0..MaxCalls)
      /\ names' = Append(names, i)
  BY DEF RelayTyped, RelayTypeOK, CheckpointNaming
<1>7. names'[n] = i /\ \A k \in DOMAIN checkpoints : k # n /\ names'[k] = names[k]
  BY <1>0, <1>1, <1>6 DEF PastInv
<1>8. /\ \A k \in Awaited' : k = n \/ (k \in Awaited /\ k # n)
      /\ \A k \in DOMAIN checkpoints : Paused(k)' = Paused(k)
      /\ \A k : Paused(k)' => k = n \/ k \in DOMAIN checkpoints
  <2> DEFINE r == [work |-> active.work, gen |-> active.gen, at |-> t,
                   pointer |-> "PAUSED_AT_CHECKPOINT"]
  <2>1. checkpoints' = Append(checkpoints, r) /\ r.pointer = "PAUSED_AT_CHECKPOINT"
    BY DEF CheckpointNaming, Checkpoint
  <2>2. /\ Len(checkpoints') = n
        /\ \A k \in DOMAIN checkpoints : Paused(k)' = Paused(k)
    BY <1>0, <1>1, <2>1, AppendedCheckpoint
  <2>3. DOMAIN checkpoints' = DOMAIN checkpoints \cup {n}
    BY <1>0, <1>1, <2>1 DEF PastInv
  <2>4. Awaited' \subseteq {n} \cup {continuations[k] : k \in DOMAIN continuations}
    <3>1. PICK m \in Nat : m = Len(continuations) + 1
      OBVIOUS
    <3>2. QED
      BY <2>2 DEF CheckpointNaming, Checkpoint, Awaited
  <2>5. QED
    BY <2>2, <2>3, <2>4 DEF Awaited, Paused
<1>9. Holds(calls)'
  BY <1>2, <1>4, <1>5, <1>7, <1>8 DEF HoldInv, Holds, HeldKept
<1>10. filed' = calls'
  BY DEF CheckpointNaming
<1>11. QED
  BY <1>9, <1>10 DEF HoldInv, Holds

\* The calls that the end of the work closes are not those that preempted work named.
LEMMA EndHolds ==
  ASSUME WorkerInv, RelayTyped, HoldInv, NEW t \in Times, EndNaming(t) \/ EndThrows(t)
  PROVE  HoldInv'
<1>1. active # None /\ phase = "RUNNING"
  BY DEF EndNaming, EndThrows, CompleteActive, CancelActive, EndLease, Releasable,
         WorkerInv, SlotInv, LedgerAgrees
<1>2. Fewer
  BY EndQuiet, QuietFewer DEF EndNaming, EndThrows, WorkerInv
<1>3. PICK S : Close(S, t) /\ S \subseteq Unowned
  BY DEF EndNaming, EndThrows
<1>4. \A k \in Awaited' : names[k] \in Retained
  BY <1>1, <1>2 DEF Fewer, Awaited, Retained
<1>5. \A i \in DOMAIN calls : i \in Retained /\ calls[i].state = "HELD" => i \notin S
  BY <1>3 DEF Unowned, In
<1>6. \A k \in Awaited' :
        names[k] \in DOMAIN calls /\ calls[names[k]].state = "HELD" =>
          names[k] \in DOMAIN calls' /\ calls'[names[k]] = calls[names[k]]
  BY <1>3, <1>4, <1>5, CloseGrows
<1>7. UNCHANGED names /\ (filed' = filed \/ filed' = calls')
  BY DEF EndNaming, EndThrows
<1>8. QED
  BY <1>2, <1>6, <1>7, HoldsOn

\* A disposition is of the checkpoint that resumes.
LEMMA ResumeHolds ==
  ASSUME WorkerInv, ContInv, RelayTyped, HoldInv, NEW k \in DOMAIN checkpoints,
         NEW g \in Generations, NEW t \in Times, NEW x, ResumeNaming(k, g, t, x)
  PROVE  HoldInv'
<1>1. PastInv /\ k \in DOMAIN names
  BY DEF WorkerInv, RelayTyped, RelayTypeOK, PastInv
<1>2. Fewer /\ k \notin Awaited'
  BY <1>1, ResumedFewer DEF ResumeNaming, Resume, RecoveryResume
<1>3. /\ Grows
      /\ \A i \in DOMAIN calls : i # names[k] => calls'[i] = calls[i]
      /\ names[k] # 0 => calls[names[k]].cp = k
  BY <1>1, DisposeGrows DEF ResumeNaming
<1>4. DOMAIN calls \subseteq DOMAIN calls' /\ 0 \notin DOMAIN calls
  BY <1>3 DEF Grows, RelayTyped, RelayTypeOK
<1>5. \A j \in Awaited' :
        names[j] \in DOMAIN calls /\ calls[names[j]].cp = j =>
          names[j] \in DOMAIN calls' /\ calls'[names[j]] = calls[names[j]]
  BY <1>2, <1>3, <1>4
<1>6. UNCHANGED names /\ filed' = calls'
  BY DEF ResumeNaming
<1>7. QED
  BY <1>2, <1>5, <1>6, HoldsOn

LEMMA HoldNext ==
  ASSUME Careful, WorkerInv, ContInv, RelayTyped, HoldInv, [RelayNext]_<<vars, relayVars>>
  PROVE  HoldInv'
<1>0. PastInv
  BY DEF WorkerInv
<1>1. CASE Others
  BY <1>0, <1>1, OthersQuiet, QuietFewer, SameGrows, KeptHolds DEF Others, relayVars
<1>2. CASE SyncRelayState \/ UNCHANGED <<vars, relayVars>>
  <2>1. Fewer
    BY <1>0, <1>2, EndQuiet, QuietFewer DEF SyncRelayState
  <2>2. QED
    BY <1>2, <2>1, SameGrows, KeptHolds DEF SyncRelayState, relayVars
<1>3. CASE RestartWithRelay
  <2>1. Fewer
    BY <1>0, <1>3, UnchangedQuiet, QuietFewer DEF RestartWithRelay, Restart, aggregateVars
  <2>2. UNCHANGED <<names, filed>> /\ calls' = filed
    BY <1>3 DEF RestartWithRelay
  <2>3. QED
    BY <2>1, <2>2 DEF HoldInv, Holds, Fewer
<1>4. ASSUME NEW g \in Generations, NEW t \in Times, NEW timeout \in 1..MaxTime + 1,
             Register(g, t, timeout)
      PROVE  HoldInv'
  BY <1>0, <1>4, RegisterGrows, EndQuiet, QuietFewer, KeptHolds DEF Register
<1>5. ASSUME NEW g, NEW t \in Times, NEW i \in DOMAIN calls,
             Accept(i, t) \/ Reinject(i, g, t) \/ CancelCall(i, t)
      PROVE  HoldInv'
  <2>1. Grows /\ HeldKept
    BY <1>5, MoveGrows
  <2>2. QED
    BY <1>0, <1>5, <2>1, EndQuiet, QuietFewer, KeptHolds DEF Accept, Reinject, CancelCall
<1>6. ASSUME NEW t \in Times, NEW i, CheckpointThrows(t, i)
      PROVE  HoldInv'
  <2>1. PICK n \in 1..MaxCheckpoints : n = Len(checkpoints) + 1
    BY <1>0, <1>6, SchedulerAssumption DEF CheckpointThrows, PastInv
  <2>2. Grows /\ HeldKept
    BY <1>6, <2>1, NameableCalls, HoldGrows DEF CheckpointThrows
  <2>3. QED
    BY <1>0, <1>6, <2>2, EndQuiet, QuietFewer, KeptHolds DEF CheckpointThrows
<1>7. ASSUME NEW k \in DOMAIN checkpoints, NEW x \in Expiries, CompletePreemptionNaming(k, x)
      PROVE  HoldInv'
  <2>1. Quiet
    BY <1>7 DEF CompletePreemptionNaming, CompletePreemption, Run, Occupy, Quiet
  <2>2. QED
    BY <1>0, <1>7, <2>1, QuietFewer, SameGrows, KeptHolds DEF CompletePreemptionNaming
<1>8. ASSUME NEW k \in DOMAIN checkpoints, NEW g \in Generations, NEW t \in Times,
             ResumeThrows(k, g, t)
      PROVE  HoldInv'
  <2>1. UNCHANGED calls /\ UNCHANGED names /\ UNCHANGED filed
    BY <1>8 DEF ResumeThrows, Dispose
  <2>2. Quiet
    BY <1>8 DEF ResumeThrows, ResumeRejected, aggregateVars, Quiet
  <2>3. QED
    BY <1>0, <2>1, <2>2, QuietFewer, SameGrows, KeptHolds
<1>9. QED
  BY <1>1, <1>2, <1>3, <1>4, <1>5, <1>6, <1>7, <1>8, CheckpointHolds, EndHolds, ResumeHolds
     DEF RelayNext

\* With a careful host, a paused checkpoint that work waits at still holds the call
\* it names, whatever preempted it, ended meanwhile, failed or restarted.
THEOREM NamedCallsStayHeld == ASSUME Careful PROVE RelaySpec => []NamedCallsHeld
<1>1. RelayInit => HoldInv
  BY DEF RelayInit, Init, HoldInv, Holds, Awaited
<1>2. WorkerInv /\ ContInv /\ RelayTyped /\ HoldInv /\ [RelayNext]_<<vars, relayVars>> => HoldInv'
  BY HoldNext
<1>3. HoldInv => NamedCallsHeld
  BY DEF HoldInv, Holds, NamedCallsHeld
<1>4. QED
  BY <1>1, <1>2, <1>3, RelayUnderWorker, RelayTypesHold, PTL DEF RelaySpec

-----------------------------------------------------------------------------
(* Ended work.                                                             *)

\* Open calls other than those registered since the end.
Owing(entries) ==
  \E i \in DOMAIN entries : entries[i].state \in Open /\ entries[i].late # generation

EndedInv == Over => ~Owing(calls) /\ ~Owing(filed)

\* The end of the work without a continuation closes every open call.
LEMMA EndClosesAll ==
  ASSUME RelayTyped, NEW t \in Times, EndNaming(t)
  PROVE  EndedInv'
<1> SUFFICES ASSUME Over' PROVE ~Owing(calls)' /\ ~Owing(filed)'
  BY DEF EndedInv
<1>1. continuations = <<>>
  BY DEF EndNaming, CompleteActive, CancelActive, Exposed, Over
<1>2. \A i \in DOMAIN calls : calls[i].state \in Open => i \in Unowned
  BY <1>1 DEF Unowned, In, Retained, Open
<1>3. /\ DOMAIN calls' = DOMAIN calls
      /\ \A i \in DOMAIN calls :
           /\ i \in Unowned => calls'[i].state = "CLOSED"
           /\ i \notin Unowned => calls'[i] = calls[i]
  BY CloseGrows DEF EndNaming
<1>4. ~Owing(calls)'
  BY <1>2, <1>3 DEF Owing, Open
<1>5. QED
  BY <1>4 DEF EndNaming, Owing

\* Nothing reopens a call, or makes one the work's again.
LEMMA MoveOwesNothing ==
  ASSUME RelayTyped, Over, EndedInv, NEW i \in DOMAIN calls, NEW g, NEW t \in Times,
         Accept(i, t) \/ Reinject(i, g, t) \/ CancelCall(i, t)
  PROVE  EndedInv'
<1>1. PICK state \in States : Move(i, state, t) /\ calls[i].state \in Open
  BY DEF Accept, Reinject, CancelCall, States, Open
<1>2. calls' = [calls EXCEPT ![i] = Entry(i, state, t)] /\ calls[i] \in Call
  BY <1>1 DEF Move, RelayTyped, RelayTypeOK
<1>3. UNCHANGED <<phase, generation, filed>>
  BY DEF Accept, Reinject, CancelCall, vars, aggregateVars
<1>4. calls[i].late = generation
  BY <1>1 DEF EndedInv, Owing
<1>5. Entry(i, state, t).state \in Open => Entry(i, state, t).late = generation
  BY <1>2, <1>4 DEF Entry, Call
<1>6. DOMAIN calls' = DOMAIN calls /\ calls'[i] = Entry(i, state, t)
      /\ \A j \in DOMAIN calls : j # i => calls'[j] = calls[j]
  BY <1>2
<1>7. QED
  BY <1>3, <1>5, <1>6 DEF EndedInv, Owing, Over

\* A call registered when the work has ended is marked.
LEMMA RegisterOwesNothing ==
  ASSUME RelayTyped, Over, EndedInv, NEW g, NEW t, NEW timeout, Register(g, t, timeout)
  PROVE  EndedInv'
<1> DEFINE new == NewCall(g, t, timeout, 0, generation)
<1>1. new.late = generation
  BY DEF NewCall
<1> HIDE DEF new
<1>2. calls' = Append(calls, new) /\ calls \in Seq(Call)
  BY DEF Register, RelayTyped, RelayTypeOK, new
<1>3. PICK n \in Nat : n = Len(calls) + 1
  BY <1>2
<1>4. /\ DOMAIN calls' = DOMAIN calls \cup {n} /\ calls'[n] = new
      /\ \A j \in DOMAIN calls : calls'[j] = calls[j]
  BY <1>2, <1>3
<1>5. UNCHANGED <<phase, generation, filed>>
  BY DEF Register, vars, aggregateVars
<1>6. QED
  BY <1>1, <1>4, <1>5 DEF EndedInv, Owing, Over

\* A step that leaves the work ended found it ended, in the same generation.
LEMMA EndedNext ==
  ASSUME WorkerInv, RelayTyped, EndedInv, [RelayNext]_<<vars, relayVars>>
  PROVE  EndedInv'
<1>0. Over => active = None
  BY DEF Over, WorkerInv, SlotInv, LedgerAgrees
<1>1. CASE Others
  <2>1. Over' => Over /\ UNCHANGED generation
    BY ZenonT(40), <1>1 DEF Others, RootStep, EnqueueRoot, CancelQueuedRoot, lifeVars, StartStep, Admit,
       LeaseSelected, Occupy, RequestPreemption, ClaimStep, ClaimRecoveryCheckpoint,
       AbandonRecoveryClaim, AdvanceObservedClock, Over
  <2>2. UNCHANGED <<calls, filed>>
    BY <1>1 DEF Others
  <2>3. QED
    BY <2>1, <2>2 DEF EndedInv, Owing
<1>2. CASE SyncRelayState \/ RestartWithRelay \/ UNCHANGED <<vars, relayVars>>
  BY <1>2 DEF SyncRelayState, RestartWithRelay, Restart, relayVars, vars, aggregateVars,
              EndedInv, Over, Owing
<1>3. ASSUME NEW t, EndThrows(t) \/ \E i : CheckpointThrows(t, i)
      PROVE  ~Over'
  BY <1>0, <1>3 DEF EndThrows, CheckpointThrows, CompleteRejected,
     CancelRejected, CheckpointRejected, ReleaseRejected, vars, aggregateVars, Over
<1>4. ASSUME NEW g, NEW t \in Times, NEW i,
             \/ Register(g, t, i)
             \/ i \in DOMAIN calls /\ (Reinject(i, g, t) \/ Accept(i, t) \/ CancelCall(i, t))
      PROVE  EndedInv'
  <2>1. Over' => Over
    BY <1>4 DEF Register, Reinject, Accept, CancelCall, vars, aggregateVars, Over
  <2>2. QED
    BY <1>4, <2>1, RegisterOwesNothing, MoveOwesNothing DEF EndedInv
<1>5. ASSUME NEW t, NEW i, CheckpointNaming(t, i) PROVE ~Over'
  BY <1>5 DEF CheckpointNaming, Checkpoint, Over
<1>6. ASSUME NEW k, NEW x,
             \/ CompletePreemptionNaming(k, x)
             \/ \E g \in Generations, t \in Times : ResumeNaming(k, g, t, x)
      PROVE  ~Over'
  BY <1>6 DEF CompletePreemptionNaming, CompletePreemption, ResumeNaming, Resume,
     RecoveryResume, Advance, Run, Occupy, Over
<1>7. ASSUME NEW k, NEW g, NEW t, ResumeThrows(k, g, t) PROVE ~Over'
  BY <1>7 DEF ResumeThrows, ResumeRejected, Resumable, aggregateVars, Over
<1>8. QED
  BY <1>1, <1>2, <1>3, <1>4, <1>5, <1>6, <1>7, EndClosesAll DEF RelayNext, EndedInv

\* Work that ended, with nothing left to continue, leaves no call that an answer
\* could still reach, in the relay or on file: whatever is open then was registered
\* after that very end, under leases that the host still had.  This is so for any
\* number of calls, checkpoints, rejected calls and restarts.
THEOREM EndedWorkNeverOwes == RelaySpec => []EndedWorkOwesNothing
<1>1. RelayInit => EndedInv
  BY DEF RelayInit, EndedInv, Owing
<1>2. WorkerInv /\ RelayTyped /\ EndedInv /\ [RelayNext]_<<vars, relayVars>> => EndedInv'
  BY EndedNext
<1>3. EndedInv => EndedWorkOwesNothing
  BY DEF EndedInv, Owing, EndedWorkOwesNothing
<1>4. QED
  BY <1>1, <1>2, <1>3, RelayUnderWorker, RelayTypesHold, PTL DEF RelaySpec

-----------------------------------------------------------------------------
(* One answer each.                                                        *)

\* The origins of a ledger's calls, and what its call i makes of them.
OriginRule(list, f, i) == IF list[i].pred = 0 THEN i ELSE f[list[i].pred]
Origins(list) == CHOOSE f : f = [i \in DOMAIN list |-> OriginRule(list, f, i)]

\* Each call succeeds an earlier one that was closed for it, which no other call
\* succeeds, or none.
Shaped(list) ==
  /\ list \in Seq(Call)
  /\ \A i \in DOMAIN list : list[i].pred < i
  /\ \A i \in DOMAIN list :
       list[i].pred # 0 => list[list[i].pred].state = "CLOSED"
  /\ \A i, j \in DOMAIN list :
       list[i].pred = list[j].pred /\ list[i].pred # 0 => i = j

\* The states a call may still reach.
After == [PENDING |-> {"HELD", "ACCEPTED", "REINJECTED", "CLOSED"}, HELD |-> {"CLOSED"},
          ACCEPTED |-> {"REINJECTED", "CLOSED"}, REINJECTED |-> {}, CLOSED |-> {}]

\* The calls of one ledger go on in the other.
GoOn(old, new) ==
  /\ Len(old) <= Len(new)
  /\ \A i \in DOMAIN old :
       /\ new[i].pred = old[i].pred
       /\ new[i].state \in {old[i].state} \cup After[old[i].state]

\* One ledger grew out of the other: what is new in it and succeeds one of the old
\* calls succeeds one that had no answer.
GrewOutOf(new, old) ==
  /\ GoOn(old, new)
  /\ \A j \in DOMAIN new :
       j \notin DOMAIN old /\ new[j].pred \in DOMAIN old =>
         old[new[j].pred].state \in {"PENDING", "HELD"}

\* One step of a ledger: a new call succeeds one that the step takes from held to
\* closed, or none.
NextLedger(old, new) ==
  /\ new \in Seq(Call) /\ Len(new) <= Len(old) + 1
  /\ GoOn(old, new)
  /\ \A j \in DOMAIN new :
       j \notin DOMAIN old =>
         \/ new[j].pred = 0
         \/ /\ new[j].pred \in DOMAIN old
            /\ old[new[j].pred].state = "HELD" /\ new[new[j].pred].state = "CLOSED"

\* The numbers of a ledger's calls.
LEMMA LedgerNumbers ==
  ASSUME NEW list \in Seq(Call)
  PROVE  /\ Len(list) \in Nat /\ DOMAIN list = 1..Len(list)
         /\ \A i \in DOMAIN list :
              /\ list[i].pred \in Nat
              /\ list[i].state \in {"PENDING", "HELD", "ACCEPTED", "REINJECTED", "CLOSED"}
<1>1. \A i \in DOMAIN list : list[i] \in Call
  OBVIOUS
<1>2. MaxCalls \in Nat
  BY RelayAssumption
<1>3. QED
  BY SMTT(20), <1>1, <1>2 DEF Call, Open

\* The predecessor of a call is an earlier call.
LEMMA Predecessor ==
  ASSUME NEW list, Shaped(list), NEW i \in DOMAIN list, list[i].pred # 0
  PROVE  list[i].pred \in DOMAIN list /\ list[i].pred < i
BY LedgerNumbers DEF Shaped

\* Induction on the calls of a ledger: of those that are not as they should be one
\* comes first.
LEMMA FirstBad ==
  ASSUME NEW S \in SUBSET Nat, S # {}
  PROVE  \E n \in S : \A m \in S : n <= m
BY MinOfNaturals

LEMMA OriginsExist ==
  ASSUME NEW list, Shaped(list)
  PROVE  /\ DOMAIN Origins(list) = DOMAIN list
         /\ \A i \in DOMAIN list : Origins(list)[i] = OriginRule(list, Origins(list), i)
<1> DEFINE Partly(n) == \E f : f = [i \in 1..n |-> OriginRule(list, f, i)]
           N == Len(list)
           Missing == {n \in 0..N : ~Partly(n)}
<1>1. N \in Nat /\ DOMAIN list = 1..N
  BY LedgerNumbers DEF Shaped
<1>2. Missing = {}
  <2> SUFFICES ASSUME Missing # {} PROVE FALSE
    OBVIOUS
  <2>1. PICK n \in Missing : \A m \in Missing : n <= m
    <3>1. Missing \in SUBSET Nat
      BY <1>1
    <3> HIDE DEF Missing
    <3>2. QED
      BY <3>1, FirstBad
  <2>2. Partly(0)
    <3>1. [i \in 1..0 |-> i] = [i \in 1..0 |-> OriginRule(list, [j \in 1..0 |-> j], i)]
      OBVIOUS
    <3>2. QED
      BY <3>1
  <2>3. n \in 1..N /\ n - 1 \in 0..N
    <3>1. n \in 0..N /\ ~Partly(n)
      BY <2>1
    <3> HIDE DEF Partly
    <3>2. QED
      BY <1>1, <2>2, <3>1
  <2>4. n - 1 \notin Missing
    BY <2>1, <2>3
  <2>5. PICK f : f = [i \in 1..n - 1 |-> OriginRule(list, f, i)]
    BY <2>3, <2>4
  <2>6. PICK g : g = [i \in 1..n |-> IF i = n THEN OriginRule(list, f, n) ELSE f[i]]
    OBVIOUS
  <2>7. \A i \in 1..n - 1 : g[i] = f[i] /\ f[i] = OriginRule(list, f, i)
    <3>1. n \in Nat
      BY <1>1, <2>3
    <3>2. ASSUME NEW i \in 1..n - 1 PROVE i \in 1..n /\ i # n
      BY <3>1
    <3>3. ASSUME NEW i \in 1..n - 1 PROVE g[i] = f[i]
      BY <2>6, <3>2
    <3>4. ASSUME NEW i \in 1..n - 1 PROVE f[i] = OriginRule(list, f, i)
      <4>1. f[i] = [k \in 1..n - 1 |-> OriginRule(list, f, k)][i]
        BY ONLY <2>5
      <4>2. QED
        BY ONLY <4>1
    <3>5. QED
      BY <3>3, <3>4
  <2>8. ASSUME NEW i \in 1..n PROVE g[i] = OriginRule(list, f, i)
    <3>1. CASE i = n
      BY <2>6, <3>1
    <3>2. CASE i # n
      <4>1. i \in 1..n - 1
        BY <2>3, <3>2
      <4>2. QED
        BY <2>7, <4>1
    <3>3. QED
      BY <3>1, <3>2
  <2>9. ASSUME NEW i \in 1..n PROVE OriginRule(list, g, i) = OriginRule(list, f, i)
    <3>1. i \in DOMAIN list
      BY <1>1, <2>3
    <3>2. CASE list[i].pred = 0
      BY <3>2 DEF OriginRule
    <3>3. CASE list[i].pred # 0
      <4>1. list[i].pred \in 1..n - 1
        BY <1>1, <2>3, <3>1, <3>3, Predecessor
      <4>2. QED
        BY <2>7, <3>3, <4>1 DEF OriginRule
    <3>4. QED
      BY <3>2, <3>3
  <2>10. g = [i \in 1..n |-> OriginRule(list, g, i)]
    BY <2>6, <2>8, <2>9
  <2>11. Partly(n)
    BY <2>10
  <2>12. QED
    BY <2>1, <2>11
<1>3. Partly(N)
  BY <1>1, <1>2
<1>4. PICK h : h = Origins(list)
  OBVIOUS
<1>5. h = [i \in DOMAIN list |-> OriginRule(list, h, i)]
  BY <1>1, <1>3, <1>4 DEF Origins
<1>6. QED
  BY <1>4, <1>5

\* The origin of a call is the call itself, or that of its predecessor.
LEMMA OriginLaw ==
  ASSUME NEW list, Shaped(list), NEW i \in DOMAIN list
  PROVE  /\ list[i].pred = 0 => Origins(list)[i] = i
         /\ list[i].pred # 0 => Origins(list)[i] = Origins(list)[list[i].pred]
BY OriginsExist DEF OriginRule

\* An origin comes first.
LEMMA OriginsBelow ==
  ASSUME NEW list, Shaped(list), NEW k \in DOMAIN list
  PROVE  Origins(list)[k] \in DOMAIN list /\ Origins(list)[k] <= k
<1> DEFINE Bad == {i \in DOMAIN list :
                     ~(Origins(list)[i] \in DOMAIN list /\ Origins(list)[i] <= i)}
<1>1. DOMAIN list = 1..Len(list) /\ Len(list) \in Nat
  BY LedgerNumbers DEF Shaped
<1>2. Bad = {}
  <2> SUFFICES ASSUME Bad # {} PROVE FALSE
    OBVIOUS
  <2>1. PICK i \in Bad : \A j \in Bad : i <= j
    <3>1. Bad \in SUBSET Nat
      BY <1>1
    <3> HIDE DEF Bad
    <3>2. QED
      BY <3>1, FirstBad
  <2>2. list[i].pred # 0
    BY <1>1, <2>1, OriginLaw
  <2>3. PICK p \in DOMAIN list : p = list[i].pred /\ p < i
    BY <2>1, <2>2, Predecessor
  <2>4. p \notin Bad
    BY <1>1, <2>1, <2>3
  <2>5. Origins(list)[i] = Origins(list)[p]
    BY <2>1, <2>2, <2>3, OriginLaw
  <2>6. QED
    BY <1>1, <2>1, <2>3, <2>4, <2>5
<1>3. QED
  BY <1>2

\* Of two calls of one request the earlier has a successor, and is closed.
LEMMA EarlierIsClosed ==
  ASSUME NEW list, Shaped(list), NEW i0 \in DOMAIN list, NEW j0 \in DOMAIN list,
         i0 < j0, Origins(list)[i0] = Origins(list)[j0]
  PROVE  list[i0].state = "CLOSED"
<1> DEFINE Succeeded(i) == \E k \in DOMAIN list : list[k].pred = i
           Bad == {j \in DOMAIN list : \E i \in DOMAIN list :
                     /\ i < j /\ Origins(list)[i] = Origins(list)[j]
                     /\ ~\E k \in DOMAIN list : k <= j /\ list[k].pred = i}
<1>1. DOMAIN list = 1..Len(list) /\ Len(list) \in Nat
  BY LedgerNumbers DEF Shaped
<1>2. Bad = {}
  <2> SUFFICES ASSUME Bad # {} PROVE FALSE
    OBVIOUS
  <2>1. PICK j \in Bad : \A m \in Bad : j <= m
    <3>1. Bad \in SUBSET Nat
      BY <1>1
    <3> HIDE DEF Bad
    <3>2. QED
      BY <3>1, FirstBad
  <2>2. PICK i \in DOMAIN list :
          /\ i < j /\ Origins(list)[i] = Origins(list)[j]
          /\ ~\E k \in DOMAIN list : k <= j /\ list[k].pred = i
    BY <2>1
  <2>3. list[j].pred # 0
    <3> SUFFICES ASSUME list[j].pred = 0 PROVE FALSE
      OBVIOUS
    <3>1. Origins(list)[j] = j
      BY <2>1, OriginLaw
    <3>2. Origins(list)[i] <= i
      BY <2>2, OriginsBelow
    <3>3. QED
      BY <1>1, <2>1, <2>2, <3>1, <3>2
  <2>4. PICK p \in DOMAIN list : p = list[j].pred /\ p < j
    BY <2>1, <2>3, Predecessor
  <2>5. Origins(list)[p] = Origins(list)[j]
    BY <2>1, <2>3, <2>4, OriginLaw
  <2>6. p \notin Bad
    <3>1. j \in DOMAIN list
      BY <2>1
    <3> HIDE DEF Bad
    <3>2. QED
      BY <1>1, <2>1, <2>4, <3>1
  <2>7. p # i
    BY <1>1, <2>1, <2>2, <2>4
  <2>8. CASE i < p
    <3>1. PICK k \in DOMAIN list : k <= p /\ list[k].pred = i
      BY <2>2, <2>5, <2>6, <2>8
    <3>2. k <= j
      BY <1>1, <2>1, <2>4, <3>1
    <3>3. QED
      BY <2>2, <3>1, <3>2
  <2>9. CASE p < i
    <3>1. i \in DOMAIN list /\ i < j /\ i \notin Bad
      BY <1>1, <2>1, <2>2
    <3>2. PICK k \in DOMAIN list : k <= i /\ list[k].pred = p
      BY <2>2, <2>4, <2>5, <2>9, <3>1
    <3>3. p # 0
      BY <1>1
    <3>4. k = j
      BY <2>1, <2>4, <3>2, <3>3 DEF Shaped
    <3>5. QED
      BY <1>1, <2>1, <2>2, <3>2, <3>4
  <2>10. QED
    BY <1>1, <2>2, <2>4, <2>7, <2>8, <2>9
<1>3. PICK k \in DOMAIN list : list[k].pred = i0
  BY <1>2
<1>4. i0 # 0
  BY <1>1
<1>5. QED
  BY <1>3, <1>4 DEF Shaped

\* A request keeps its calls while its ledger grows.
LEMMA OriginsStay ==
  ASSUME NEW old, NEW new, Shaped(old), Shaped(new), GoOn(old, new), NEW k \in DOMAIN old
  PROVE  k \in DOMAIN new /\ Origins(new)[k] = Origins(old)[k]
<1> DEFINE Bad == {i \in DOMAIN old : Origins(new)[i] # Origins(old)[i]}
<1>1. /\ DOMAIN old = 1..Len(old) /\ Len(old) \in Nat
      /\ DOMAIN new = 1..Len(new) /\ Len(new) \in Nat /\ Len(old) <= Len(new)
  BY LedgerNumbers DEF Shaped, GoOn
<1>2. DOMAIN old \subseteq DOMAIN new
  BY <1>1
<1>3. Bad = {}
  <2> SUFFICES ASSUME Bad # {} PROVE FALSE
    OBVIOUS
  <2>1. PICK i \in Bad : \A j \in Bad : i <= j
    <3>1. Bad \in SUBSET Nat
      BY <1>1
    <3> HIDE DEF Bad
    <3>2. QED
      BY <3>1, FirstBad
  <2>2. i \in DOMAIN new /\ new[i].pred = old[i].pred
    BY <1>2, <2>1 DEF GoOn
  <2>3. old[i].pred # 0
    BY <2>1, <2>2, OriginLaw
  <2>4. PICK p \in DOMAIN old : p = old[i].pred /\ p < i
    BY <2>1, <2>3, Predecessor
  <2>5. Origins(new)[p] = Origins(old)[p]
    BY <1>1, <2>1, <2>4
  <2>6. QED
    BY <2>1, <2>2, <2>3, <2>4, <2>5, OriginLaw
<1>4. QED
  BY <1>2, <1>3

\* A new call of an old request descends from a call that had no answer.
LEMMA NewDescends ==
  ASSUME NEW old, NEW new, Shaped(old), Shaped(new), GrewOutOf(new, old),
         NEW k \in DOMAIN new, k \notin DOMAIN old, Origins(new)[k] \in DOMAIN old
  PROVE  \E p \in DOMAIN old : /\ Origins(old)[p] = Origins(new)[k]
                               /\ old[p].state \in {"PENDING", "HELD"}
<1> DEFINE Found(j) == \E p \in DOMAIN old : /\ Origins(old)[p] = Origins(new)[j]
                                             /\ old[p].state \in {"PENDING", "HELD"}
           Bad == {j \in DOMAIN new :
                     j \notin DOMAIN old /\ Origins(new)[j] \in DOMAIN old /\ ~Found(j)}
<1>1. DOMAIN new = 1..Len(new) /\ Len(new) \in Nat
  BY LedgerNumbers DEF Shaped
<1>2. Bad = {}
  <2> SUFFICES ASSUME Bad # {} PROVE FALSE
    OBVIOUS
  <2>1. PICK j \in Bad : \A m \in Bad : j <= m
    <3>1. Bad \in SUBSET Nat
      BY <1>1
    <3> HIDE DEF Bad
    <3>2. QED
      BY <3>1, FirstBad
  <2>2. new[j].pred # 0
    BY <2>1, OriginLaw
  <2>3. PICK p \in DOMAIN new : p = new[j].pred /\ p < j
    BY <2>1, <2>2, Predecessor
  <2>4. Origins(new)[j] = Origins(new)[p]
    BY <2>1, <2>2, <2>3, OriginLaw
  <2>5. CASE p \in DOMAIN old
    <3>1. old[p].state \in {"PENDING", "HELD"}
      BY <2>1, <2>3, <2>5 DEF GrewOutOf
    <3>2. Origins(new)[p] = Origins(old)[p]
      BY <2>5, OriginsStay DEF GrewOutOf
    <3>3. QED
      BY <2>1, <2>4, <2>5, <3>1, <3>2
  <2>6. CASE p \notin DOMAIN old
    <3>1. p \notin Bad
      BY <1>1, <2>1, <2>3
    <3>2. Found(p)
      BY <2>1, <2>3, <2>4, <2>6, <3>1
    <3>3. QED
      BY <2>1, <2>4, <3>2
  <2>7. QED
    BY <2>5, <2>6
<1>3. QED
  BY <1>2

-----------------------------------------------------------------------------
(* The status of a request.                                                *)

Word(state) ==
  CASE state = "ACCEPTED"   -> "answered"
    [] state = "REINJECTED" -> "used"
    [] OTHER                -> "open"

\* Status, of any ledger.
StatusIn(list, r) ==
  LET members == {i \in DOMAIN list : Origins(list)[i] = r}
      current == {i \in members : list[i].state # "CLOSED"}
  IN  IF members = {} THEN "none"
      ELSE IF current = {} THEN "dropped"
      ELSE IF \E i, j \in current : i # j THEN "answered twice"
      ELSE Word(list[CHOOSE i \in current : TRUE].state)

\* No request has two calls that are not closed, and the one it has is its status.
LEMMA StatusIs ==
  ASSUME NEW list, Shaped(list), NEW r
  PROVE  /\ StatusIn(list, r) \in {"none", "dropped", "open", "answered", "used"}
         /\ StatusIn(list, r) = "none" <=>
              \A i \in DOMAIN list : Origins(list)[i] # r
         /\ (\A i \in DOMAIN list : Origins(list)[i] = r => list[i].state = "CLOSED")
              => StatusIn(list, r) \in {"none", "dropped"}
         /\ \A i \in DOMAIN list :
              Origins(list)[i] = r /\ list[i].state # "CLOSED" =>
                StatusIn(list, r) = Word(list[i].state)
<1> DEFINE members == {i \in DOMAIN list : Origins(list)[i] = r}
           current == {i \in members : list[i].state # "CLOSED"}
<1>1. DOMAIN list = 1..Len(list) /\ Len(list) \in Nat
  BY LedgerNumbers DEF Shaped
<1>2. ASSUME NEW i \in current, NEW j \in current PROVE i = j
  <2>1. ~(i < j)
    BY EarlierIsClosed
  <2>2. ~(j < i)
    BY EarlierIsClosed
  <2>3. QED
    BY <1>1, <2>1, <2>2
<1>3. \A i \in current : (CHOOSE j \in current : TRUE) = i
  BY <1>2
<1>4. StatusIn(list, r) = IF members = {} THEN "none"
                            ELSE IF current = {} THEN "dropped"
                            ELSE Word(list[CHOOSE i \in current : TRUE].state)
  <2>1. ~\E i, j \in current : i # j
    BY <1>2
  <2>2. StatusIn(list, r) = IF members = {} THEN "none"
                              ELSE IF current = {} THEN "dropped"
                              ELSE IF \E i, j \in current : i # j THEN "answered twice"
                              ELSE Word(list[CHOOSE i \in current : TRUE].state)
    BY DEF StatusIn
  <2> HIDE DEF members, current
  <2>3. QED
    BY <2>1, <2>2
<1>5. \A state : Word(state) \in {"open", "answered", "used"}
  BY DEF Word
<1>6. members = {} <=> \A i \in DOMAIN list : Origins(list)[i] # r
  OBVIOUS
<1>7. (\A i \in DOMAIN list : Origins(list)[i] = r => list[i].state = "CLOSED")
        => current = {}
  OBVIOUS
<1>8. ASSUME NEW i \in DOMAIN list, Origins(list)[i] = r, list[i].state # "CLOSED"
      PROVE  StatusIn(list, r) = Word(list[i].state)
  <2>1. i \in members /\ i \in current
    BY <1>8
  <2> HIDE DEF members, current
  <2>2. QED
    BY <1>3, <1>4, <2>1
<1> HIDE DEF members, current
<1>9. QED
  BY <1>4, <1>5, <1>6, <1>7, <1>8

\* What a ledger's growth does to the status of a request.
LEMMA StatusMoves ==
  ASSUME NEW old, NEW new, Shaped(old), Shaped(new), GrewOutOf(new, old), NEW r
  PROVE  StatusIn(new, r) \in {StatusIn(old, r)} \cup Request!Later(StatusIn(old, r))
<1>1. GoOn(old, new)
  BY DEF GrewOutOf
<1>2. \A i \in DOMAIN old : i \in DOMAIN new /\ Origins(new)[i] = Origins(old)[i]
  BY <1>1, OriginsStay
<1>3. CASE \A i \in DOMAIN old : Origins(old)[i] # r
  <2>1. StatusIn(old, r) = "none"
    BY <1>3, StatusIs
  <2>2. StatusIn(new, r) \in {"none", "dropped", "open", "answered", "used"}
    BY StatusIs
  <2>3. QED
    BY <2>1, <2>2 DEF Request!Later
<1>4. ASSUME NEW k \in DOMAIN old, Origins(old)[k] = r
      PROVE  StatusIn(new, r) \in {StatusIn(old, r)} \cup Request!Later(StatusIn(old, r))
  <2>1. r \in DOMAIN old
    BY <1>4, OriginsBelow
  <2>2. /\ StatusIn(new, r) \in {"dropped", "open", "answered", "used"}
        /\ StatusIn(old, r) # "none"
    <3>1. k \in DOMAIN new /\ Origins(new)[k] = r
      BY <1>2, <1>4
    <3>2. /\ StatusIn(new, r) \in {"none", "dropped", "open", "answered", "used"}
          /\ StatusIn(new, r) # "none"
      BY <3>1, StatusIs
    <3>3. QED
      BY <1>4, <3>2, StatusIs
  <2>3. CASE \A i \in DOMAIN old :
               Origins(old)[i] = r => old[i].state \notin {"PENDING", "HELD"}
    \* Nothing new joined the request.
    <3>1. ASSUME NEW j \in DOMAIN new, Origins(new)[j] = r
          PROVE  j \in DOMAIN old /\ Origins(old)[j] = r
      <4>1. j \in DOMAIN old
        BY <2>1, <2>3, <3>1, NewDescends
      <4>2. QED
        BY <1>2, <3>1, <4>1
    <3>2. CASE \A i \in DOMAIN old : Origins(old)[i] = r => old[i].state = "CLOSED"
      <4>1. StatusIn(old, r) \in {"none", "dropped"}
        BY <3>2, StatusIs
      <4>2. \A j \in DOMAIN new : Origins(new)[j] = r => new[j].state = "CLOSED"
        BY <1>1, <3>1, <3>2 DEF GoOn, After
      <4>3. StatusIn(new, r) \in {"none", "dropped"}
        BY <4>2, StatusIs
      <4>4. QED
        BY <2>2, <4>1, <4>3
    <3>3. ASSUME NEW i \in DOMAIN old, Origins(old)[i] = r, old[i].state # "CLOSED"
          PROVE  StatusIn(new, r) \in {StatusIn(old, r)} \cup Request!Later(StatusIn(old, r))
      <4>1. old[i].state \in {"ACCEPTED", "REINJECTED"}
        BY <2>3, <3>3, LedgerNumbers DEF Shaped
      <4>2. StatusIn(old, r) = Word(old[i].state)
        BY <3>3, StatusIs
      <4>3. \A j \in DOMAIN old : Origins(old)[j] = r /\ j # i => old[j].state = "CLOSED"
        <5> SUFFICES ASSUME NEW j \in DOMAIN old, Origins(old)[j] = r, j # i
                     PROVE  old[j].state = "CLOSED"
          OBVIOUS
        <5>1. j < i \/ i < j
          BY LedgerNumbers DEF Shaped
        <5>2. ~(i < j)
          BY <3>3, EarlierIsClosed
        <5>3. QED
          BY <3>3, <5>1, <5>2, EarlierIsClosed
      <4>4. \A j \in DOMAIN new : Origins(new)[j] = r /\ j # i => new[j].state = "CLOSED"
        BY <1>1, <3>1, <4>3 DEF GoOn, After
      <4>5. /\ i \in DOMAIN new /\ Origins(new)[i] = r
            /\ new[i].state \in {old[i].state} \cup After[old[i].state]
        BY <1>1, <1>2, <3>3 DEF GoOn
      <4>6. CASE new[i].state = "CLOSED"
        <5>1. StatusIn(new, r) \in {"none", "dropped"}
          BY <4>4, <4>6, StatusIs
        <5>2. StatusIn(new, r) = "dropped"
          BY <2>2, <5>1
        <5>3. old[i].state = "ACCEPTED"
          BY <4>1, <4>5, <4>6 DEF After
        <5>4. StatusIn(old, r) = "answered"
          BY <4>2, <5>3 DEF Word
        <5>5. QED
          BY <5>2, <5>4 DEF Request!Later
      <4>7. CASE new[i].state # "CLOSED"
        <5>1. StatusIn(new, r) = Word(new[i].state)
          BY <4>5, <4>7, StatusIs
        <5>2. QED
          BY <4>1, <4>2, <4>5, <4>7, <5>1 DEF After, Word, Request!Later
      <4>8. QED
        BY <4>6, <4>7
    <3>4. QED
      BY <3>2, <3>3
  <2>4. ASSUME NEW i \in DOMAIN old, Origins(old)[i] = r, old[i].state \in {"PENDING", "HELD"}
        PROVE  StatusIn(new, r) \in {StatusIn(old, r)} \cup Request!Later(StatusIn(old, r))
    <3>1. StatusIn(old, r) = "open"
      BY <2>4, StatusIs DEF Word
    <3>2. QED
      BY <2>2, <3>1 DEF Request!Later
  <2>5. QED
    BY <2>3, <2>4
<1>5. QED
  BY <1>3, <1>4

-----------------------------------------------------------------------------
(* The steps of a ledger.                                                  *)

\* A step keeps the shape of the ledger, and what grew out of the filed one.
LEMMA NextShaped ==
  ASSUME NEW old, NEW new, Shaped(old), NextLedger(old, new)
  PROVE  Shaped(new)
<1>1. /\ DOMAIN old = 1..Len(old) /\ Len(old) \in Nat
      /\ DOMAIN new = 1..Len(new) /\ Len(new) \in Nat
      /\ Len(old) <= Len(new) /\ Len(new) <= Len(old) + 1
      /\ \A i \in DOMAIN new : new[i].pred \in Nat
  BY LedgerNumbers DEF Shaped, NextLedger, GoOn
<1>2. \A i \in DOMAIN old : i \in DOMAIN new /\ new[i].pred = old[i].pred
  BY <1>1 DEF NextLedger, GoOn
<1>3. \A i \in DOMAIN old : old[i].state = "CLOSED" => new[i].state = "CLOSED"
  BY DEF NextLedger, GoOn, After
<1>4. \A j \in DOMAIN new : j \notin DOMAIN old => j = Len(old) + 1
  BY <1>1
<1>5. ASSUME NEW i \in DOMAIN new
      PROVE  /\ new[i].pred < i
             /\ new[i].pred # 0 => new[new[i].pred].state = "CLOSED"
  <2>1. CASE i \in DOMAIN old
    BY <1>2, <1>3, <2>1, Predecessor DEF Shaped
  <2>2. CASE i \notin DOMAIN old
    <3>1. \/ new[i].pred = 0
          \/ new[i].pred \in DOMAIN old /\ new[new[i].pred].state = "CLOSED"
      BY <2>2 DEF NextLedger
    <3>2. QED
      BY <1>1, <1>4, <2>2, <3>1
  <2>3. QED
    BY <2>1, <2>2
<1>6. ASSUME NEW i \in DOMAIN old, NEW j \in DOMAIN new, j \notin DOMAIN old,
             new[i].pred = new[j].pred, new[i].pred # 0
      PROVE  FALSE
  <2>1. old[old[i].pred].state = "CLOSED" /\ old[i].pred = new[j].pred
    BY <1>2, <1>6 DEF Shaped
  <2>2. old[new[j].pred].state = "HELD"
    BY <1>6 DEF NextLedger
  <2>3. QED
    BY <2>1, <2>2
<1>7. ASSUME NEW i \in DOMAIN new, NEW j \in DOMAIN new,
             new[i].pred = new[j].pred, new[i].pred # 0
      PROVE  i = j
  <2>1. CASE i \in DOMAIN old /\ j \in DOMAIN old
    BY <1>2, <1>7, <2>1 DEF Shaped
  <2>2. CASE i \notin DOMAIN old /\ j \notin DOMAIN old
    BY <1>4, <2>2
  <2>3. QED
    BY <1>6, <1>7, <2>1, <2>2
<1>8. QED
  BY <1>5, <1>7 DEF Shaped, NextLedger

LEMMA NextGrowsOut ==
  ASSUME NEW base, NEW old, NEW new, Shaped(base), Shaped(old),
         GrewOutOf(old, base), NextLedger(old, new)
  PROVE  GrewOutOf(new, base)
<1>1. /\ DOMAIN base = 1..Len(base) /\ Len(base) \in Nat
      /\ DOMAIN old = 1..Len(old) /\ Len(old) \in Nat
      /\ DOMAIN new = 1..Len(new) /\ Len(new) \in Nat
      /\ Len(base) <= Len(old) /\ Len(old) <= Len(new)
  BY LedgerNumbers DEF Shaped, NextLedger, GrewOutOf, GoOn
<1>2. DOMAIN base \subseteq DOMAIN old /\ DOMAIN old \subseteq DOMAIN new
  BY <1>1
<1>3. \A i \in DOMAIN base : base[i].state \in DOMAIN After
  BY LedgerNumbers DEF Shaped, After
<1>4. \A s \in DOMAIN After : \A t, u :
        t \in {s} \cup After[s] /\ u \in {t} \cup After[t] => u \in {s} \cup After[s]
  BY DEF After
<1>5. \A i \in DOMAIN base :
        /\ old[i].pred = base[i].pred
        /\ old[i].state \in {base[i].state} \cup After[base[i].state]
  BY DEF GrewOutOf, GoOn
<1>6. \A i \in DOMAIN old :
        /\ new[i].pred = old[i].pred
        /\ new[i].state \in {old[i].state} \cup After[old[i].state]
  BY DEF NextLedger, GoOn
<1>7. GoOn(base, new)
  <2>1. Len(base) <= Len(new)
    BY <1>1
  <2>2. QED
    BY <1>2, <1>3, <1>4, <1>5, <1>6, <2>1 DEF GoOn
<1>8. ASSUME NEW j \in DOMAIN new, j \notin DOMAIN base, new[j].pred \in DOMAIN base
      PROVE  base[new[j].pred].state \in {"PENDING", "HELD"}
  <2>1. CASE j \in DOMAIN old
    BY <1>6, <1>8, <2>1 DEF GrewOutOf
  <2>2. CASE j \notin DOMAIN old
    <3>1. new[j].pred # 0
      BY <1>1, <1>8
    <3>2. old[new[j].pred].state = "HELD"
      BY <1>8, <2>2, <3>1 DEF NextLedger
    <3>3. QED
      BY <1>3, <1>5, <1>8, <3>2 DEF After
  <2>3. QED
    BY <2>1, <2>2
<1>9. QED
  BY <1>7, <1>8 DEF GrewOutOf

\* Calls that move, in place.
Moving ==
  /\ calls' \in Seq(Call) /\ Len(calls') = Len(calls)
  /\ \A i \in DOMAIN calls :
       /\ calls'[i].pred = calls[i].pred
       /\ calls'[i].state \in {calls[i].state} \cup After[calls[i].state]

LEMMA MovingIsNext ==
  ASSUME RelayTyped, Moving
  PROVE  NextLedger(calls, calls')
<1>1. /\ DOMAIN calls = 1..Len(calls) /\ Len(calls) \in Nat
      /\ DOMAIN calls' = 1..Len(calls')
  BY DEF RelayTyped, RelayTypeOK, Moving
<1>2. QED
  BY <1>1 DEF Moving, NextLedger, GoOn

\* A call that is appended, after calls that move.
LEMMA AppendedIsNext ==
  ASSUME NEW old \in Seq(Call), NEW moved \in Seq(Call), Len(moved) = Len(old),
         \A i \in DOMAIN old : /\ moved[i].pred = old[i].pred
                               /\ moved[i].state \in {old[i].state} \cup After[old[i].state],
         NEW e \in Call,
         \/ e.pred = 0
         \/ /\ e.pred \in DOMAIN old
            /\ old[e.pred].state = "HELD" /\ moved[e.pred].state = "CLOSED"
  PROVE  NextLedger(old, Append(moved, e))
<1>1. PICK n \in Nat : n = Len(old) /\ DOMAIN old = 1..n /\ DOMAIN moved = 1..n
  OBVIOUS
<1>2. PICK new : new = Append(moved, e)
  OBVIOUS
<1>3. /\ new \in Seq(Call) /\ Len(new) = n + 1 /\ DOMAIN new = 1..n + 1
      /\ \A i \in 1..n : new[i] = moved[i]
      /\ new[n + 1] = e
  BY <1>1, <1>2
<1>4. GoOn(old, new)
  BY <1>1, <1>3 DEF GoOn
<1>5. \A j \in DOMAIN new : j \notin DOMAIN old => new[j] = e
  BY <1>1, <1>3
<1>6. e.pred \in DOMAIN old => new[e.pred] = moved[e.pred]
  BY <1>1, <1>3
<1>7. Len(new) <= Len(old) + 1
  BY <1>1, <1>3
<1>8. QED
  BY <1>2, <1>3, <1>4, <1>5, <1>6, <1>7 DEF NextLedger

LEMMA EntrySucceeds ==
  ASSUME RelayTyped, NEW i \in DOMAIN calls, NEW state \in States, NEW t \in Times
  PROVE  Entry(i, state, t).pred = calls[i].pred
<1>1. calls[i] \in Call
  BY DEF RelayTyped, RelayTypeOK
<1>2. QED
  BY <1>1 DEF Entry, Call

\* One entry is replaced by a later one of the same call.
LEMMA ReplaceMoves ==
  ASSUME RelayTyped, NEW i \in DOMAIN calls, NEW e \in Call, calls' = [calls EXCEPT ![i] = e],
         e.pred = calls[i].pred, e.state \in After[calls[i].state]
  PROVE  Moving
<1>1. /\ calls' \in Seq(Call) /\ Len(calls') = Len(calls) /\ calls'[i] = e
      /\ \A j \in DOMAIN calls : j # i => calls'[j] = calls[j]
  BY DEF RelayTyped, RelayTypeOK
<1>2. QED
  BY <1>1 DEF Moving

LEMMA SameMoves ==
  ASSUME RelayTyped, UNCHANGED calls
  PROVE  Moving
BY DEF RelayTyped, RelayTypeOK, Moving

LEMMA AnswerMoves ==
  ASSUME RelayTyped, NEW i \in DOMAIN calls, NEW t \in Times,
         NEW g, Accept(i, t) \/ Reinject(i, g, t) \/ CancelCall(i, t)
  PROVE  Moving
<1>1. PICK state \in States : Move(i, state, t) /\ state \in After[calls[i].state]
  BY DEF Accept, Reinject, CancelCall, States, Open, After
<1>2. calls' = [calls EXCEPT ![i] = Entry(i, state, t)]
  BY <1>1 DEF Move
<1>3. /\ Entry(i, state, t) \in Call /\ Entry(i, state, t).state = state
      /\ Entry(i, state, t).pred = calls[i].pred
  BY EntryIs, EntrySucceeds
<1>4. QED
  BY <1>1, <1>2, <1>3, ReplaceMoves

LEMMA HoldMoves ==
  ASSUME RelayTyped, NEW i \in {0} \cup DOMAIN calls, NEW t \in Times,
         NEW cp \in 0..MaxCheckpoints, Hold(i, t, cp)
  PROVE  Moving
<1>1. CASE i # 0 /\ calls[i].state = "PENDING"
  <2>1. PICK e : e = Entry(i, "HELD", t)
    OBVIOUS
  <2>2. e \in Call /\ e.state = "HELD" /\ e.pred = calls[i].pred
    BY <1>1, <2>1, EntryIs, EntrySucceeds DEF States, Open
  <2>3. PICK entry : entry = [e EXCEPT !.cp = cp]
    OBVIOUS
  <2>4. entry \in Call /\ entry.state = "HELD" /\ entry.pred = calls[i].pred
    BY <2>2, <2>3 DEF Call
  <2>5. calls' = [calls EXCEPT ![i] = entry]
    BY <1>1, <2>1, <2>3 DEF Hold
  <2>6. "HELD" \in After[calls[i].state]
    BY <1>1 DEF After
  <2>7. QED
    BY <1>1, <2>4, <2>5, <2>6, ReplaceMoves
<1>2. CASE ~(i # 0 /\ calls[i].state = "PENDING")
  BY <1>2, SameMoves DEF Hold
<1>3. QED
  BY <1>1, <1>2

LEMMA CloseMoves ==
  ASSUME RelayTyped, NEW S \in SUBSET Unowned, NEW t \in Times, Close(S, t)
  PROVE  Moving
<1>1. /\ Grows /\ DOMAIN calls' = DOMAIN calls
      /\ \A i \in DOMAIN calls : calls'[i] = IF i \in S THEN Entry(i, "CLOSED", t) ELSE calls[i]
  BY CloseGrows
<1>2. calls' \in Seq(Call) /\ Len(calls') = Len(calls)
  <2>1. /\ DOMAIN calls = 1..Len(calls) /\ Len(calls) \in Nat
        /\ DOMAIN calls' = 1..Len(calls') /\ Len(calls') \in Nat /\ calls' \in Seq(Call)
    BY <1>1 DEF Grows, RelayTyped, RelayTypeOK
  <2>2. QED
    BY <1>1, <2>1
<1>3. \A i \in S : i \in DOMAIN calls /\ calls[i].state \in {"PENDING", "ACCEPTED", "HELD"}
  BY DEF Unowned, In
<1>4. \A i \in DOMAIN calls : /\ Entry(i, "CLOSED", t).state = "CLOSED"
                              /\ Entry(i, "CLOSED", t).pred = calls[i].pred
  BY EntryIs, EntrySucceeds DEF States
<1>5. \A i \in S : "CLOSED" \in After[calls[i].state]
  BY <1>3 DEF After
<1>6. QED
  BY <1>1, <1>2, <1>4, <1>5 DEF Moving

LEMMA DisposeIsNext ==
  ASSUME RelayTyped, NEW k \in DOMAIN names, NEW g \in Generations, NEW t \in Times,
         Dispose(k, g, t)
  PROVE  NextLedger(calls, calls')
<1>1. PICK i : i = names[k]
  OBVIOUS
<1>2. CASE i = 0
  BY <1>1, <1>2, SameMoves, MovingIsNext DEF Dispose
<1>3. CASE i # 0
  <2>1. i \in DOMAIN calls /\ i \in 0..MaxCalls
    <3>1. i \in 0..MaxCalls /\ i <= Len(filed) /\ MaxCalls \in Nat
      BY <1>1, RelayAssumption DEF RelayTyped, RelayTypeOK
    <3>2. Len(filed) \in Nat /\ Len(calls) \in Nat /\ Len(filed) <= Len(calls)
      BY DEF RelayTyped, RelayTypeOK
    <3>3. DOMAIN calls = 1..Len(calls)
      BY DEF RelayTyped, RelayTypeOK
    <3>4. QED
      BY <1>3, <3>1, <3>2, <3>3
  <2>2. PICK e \in Call : /\ e = Entry(i, "CLOSED", t)
                          /\ e.state = "CLOSED" /\ e.pred = calls[i].pred
    BY <2>1, EntryIs, EntrySucceeds DEF States
  <2>3. PICK closed : closed = [calls EXCEPT ![i] = e]
    OBVIOUS
  <2>4. calls[i].state = "HELD"
    BY <1>1, <1>3 DEF Dispose
  <2>5. "CLOSED" \in After[calls[i].state]
    BY <2>4 DEF After
  <2>6. \/ calls' = closed
        \/ \E timeout \in t+1..MaxTime + 1 : calls' = Append(closed, NewCall(g, t, timeout, i, 0))
    BY <1>1, <1>3, <2>2, <2>3 DEF Dispose
  <2>7. CASE calls' = closed
    BY <2>1, <2>2, <2>3, <2>5, <2>7, ReplaceMoves, MovingIsNext
  <2>8. CASE \E timeout \in t+1..MaxTime + 1 : calls' = Append(closed, NewCall(g, t, timeout, i, 0))
    <3>1. PICK timeout \in t+1..MaxTime + 1 : calls' = Append(closed, NewCall(g, t, timeout, i, 0))
      BY <2>8
    <3>2. timeout \in 1..MaxTime + 1 /\ 0 \in 0..MaxGeneration
      BY SchedulerAssumption, PolicyAssumption DEF Times
    <3>3. PICK n \in Call : n = NewCall(g, t, timeout, i, 0) /\ n.pred = i
      BY <2>1, <3>2, NewCallIs DEF NewCall
    <3>4. /\ closed \in Seq(Call) /\ Len(closed) = Len(calls) /\ closed[i] = e
          /\ \A j \in DOMAIN calls : j # i => closed[j] = calls[j]
          /\ calls \in Seq(Call)
      BY <2>1, <2>3 DEF RelayTyped, RelayTypeOK
    <3>5. \A j \in DOMAIN calls : /\ closed[j].pred = calls[j].pred
                                  /\ closed[j].state \in {calls[j].state} \cup After[calls[j].state]
      BY <2>2, <2>5, <3>4
    <3>6. NextLedger(calls, Append(closed, n))
      BY <2>1, <2>2, <2>4, <3>3, <3>4, <3>5, AppendedIsNext
    <3>7. QED
      BY <3>1, <3>3, <3>6
  <2>9. QED
    BY <2>6, <2>7, <2>8
<1>4. QED
  BY <1>2, <1>3

LEMMA RegisterIsNext ==
  ASSUME WorkerInv, RelayTyped, NEW t \in Times, NEW timeout \in 1..MaxTime + 1,
         NEW g \in Generations, Register(g, t, timeout)
  PROVE  NextLedger(calls, calls')
<1>1. PICK late \in 0..MaxGeneration : calls' = Append(calls, NewCall(g, t, timeout, 0, late))
  BY PolicyAssumption DEF Register, WorkerInv, SlotInv
<1>2. PICK e \in Call : e = NewCall(g, t, timeout, 0, late) /\ e.pred = 0
  <2>1. 0 \in 0..MaxCalls
    BY RelayAssumption
  <2>2. NewCall(g, t, timeout, 0, late) \in Call
    BY <2>1, NewCallIs
  <2>3. NewCall(g, t, timeout, 0, late).pred = 0
    BY DEF NewCall
  <2>4. QED
    BY <2>2, <2>3
<1>3. calls \in Seq(Call) /\ calls' = Append(calls, e)
  BY <1>1, <1>2 DEF RelayTyped, RelayTypeOK
<1>4. NextLedger(calls, Append(calls, e))
  BY <1>2, <1>3, AppendedIsNext
<1>5. QED
  BY <1>3, <1>4

\* What a step does to the ledgers: the relay's moves, and is filed or not, or it
\* is taken from the file.
LEMMA LedgerStep ==
  ASSUME WorkerInv, RelayTyped, [RelayNext]_<<vars, relayVars>>
  PROVE  \/ NextLedger(calls, calls') /\ filed' \in {filed, calls'}
         \/ calls' = filed /\ filed' = filed
<1>0. PastInv
  BY DEF WorkerInv
<1>1. UNCHANGED calls => NextLedger(calls, calls')
  BY SameMoves, MovingIsNext
<1>2. CASE Others \/ SyncRelayState \/ RestartWithRelay \/ UNCHANGED <<vars, relayVars>>
  BY <1>1, <1>2 DEF Others, SyncRelayState, RestartWithRelay, relayVars
<1>3. ASSUME NEW t \in Times, EndNaming(t) \/ EndThrows(t)
      PROVE  NextLedger(calls, calls') /\ filed' \in {filed, calls'}
  <2>1. PICK S \in SUBSET Unowned : Close(S, t)
    BY <1>3 DEF EndNaming, EndThrows
  <2>2. QED
    BY <1>3, <2>1, CloseMoves, MovingIsNext DEF EndNaming, EndThrows
<1>4. ASSUME NEW g \in Generations, NEW t \in Times, NEW timeout \in 1..MaxTime + 1,
             Register(g, t, timeout)
      PROVE  NextLedger(calls, calls') /\ filed' \in {filed, calls'}
  BY <1>4, RegisterIsNext DEF Register
<1>5. ASSUME NEW g, NEW t \in Times, NEW i \in DOMAIN calls,
             Accept(i, t) \/ Reinject(i, g, t) \/ CancelCall(i, t)
      PROVE  NextLedger(calls, calls') /\ filed' \in {filed, calls'}
  BY <1>5, AnswerMoves, MovingIsNext DEF Accept, Reinject, CancelCall
<1>6. ASSUME NEW t \in Times, NEW i, CheckpointNaming(t, i) \/ CheckpointThrows(t, i)
      PROVE  NextLedger(calls, calls') /\ filed' \in {filed, calls'}
  <2>1. PICK n \in 1..MaxCheckpoints : n = Len(checkpoints) + 1
    BY <1>0, <1>6, SchedulerAssumption DEF CheckpointNaming, Checkpoint, CheckpointThrows, PastInv
  <2>2. i \in {0} \cup DOMAIN calls
    BY <1>6, NameableCalls DEF CheckpointNaming, CheckpointThrows
  <2>3. Hold(i, t, n)
    BY <1>6, <2>1 DEF CheckpointNaming, CheckpointThrows
  <2>4. Moving
    BY <2>2, <2>3, HoldMoves
  <2>5. QED
    BY <1>6, <2>4, MovingIsNext DEF CheckpointNaming, CheckpointThrows
<1>7. ASSUME NEW k, NEW x, CompletePreemptionNaming(k, x)
      PROVE  NextLedger(calls, calls') /\ filed' \in {filed, calls'}
  BY <1>1, <1>7 DEF CompletePreemptionNaming
<1>8. ASSUME NEW k \in DOMAIN checkpoints, NEW g \in Generations, NEW t \in Times, NEW x,
             ResumeNaming(k, g, t, x) \/ ResumeThrows(k, g, t)
      PROVE  NextLedger(calls, calls') /\ filed' \in {filed, calls'}
  <2>1. k \in DOMAIN names
    BY <1>0 DEF RelayTyped, RelayTypeOK, PastInv
  <2>2. QED
    BY <1>8, <2>1, DisposeIsNext DEF ResumeNaming, ResumeThrows
<1>9. QED
  BY <1>2, <1>3, <1>4, <1>5, <1>6, <1>7, <1>8 DEF RelayNext

-----------------------------------------------------------------------------
(* The relay keeps the promise of OneAnswer.                               *)

\* The relay's ledger grew out of the one on file.
AnswerInv ==
  /\ Shaped(calls) /\ Shaped(filed)
  /\ GrewOutOf(calls, filed)

LEMMA GrewOutOfItself ==
  ASSUME NEW list, Shaped(list)
  PROVE  GrewOutOf(list, list)
BY LedgerNumbers DEF Shaped, GrewOutOf, GoOn

LEMMA AnswerNext ==
  ASSUME WorkerInv, RelayTyped, AnswerInv, [RelayNext]_<<vars, relayVars>>
  PROVE  AnswerInv' /\ filed' \in {filed, calls'} /\ GrewOutOf(filed', filed) /\ Shaped(filed')
<1>1. CASE NextLedger(calls, calls') /\ filed' \in {filed, calls'}
  <2>1. Shaped(calls') /\ GrewOutOf(calls', filed)
    BY <1>1, NextShaped, NextGrowsOut DEF AnswerInv
  <2>2. Shaped(filed') /\ GrewOutOf(filed', filed) /\ GrewOutOf(calls', filed')
    BY <1>1, <2>1, GrewOutOfItself DEF AnswerInv
  <2>3. QED
    BY <1>1, <2>1, <2>2 DEF AnswerInv
<1>2. CASE calls' = filed /\ filed' = filed
  BY <1>2, GrewOutOfItself DEF AnswerInv
<1>3. QED
  BY <1>1, <1>2, LedgerStep

\* The filed requests have the status that their ledger gives them.
LEMMA StatusOnFile == \A r : Status(r) = StatusIn(filed, r)
<1>1. Origin = Origins(filed)
  BY DEF Origin, Origins, OriginRule
<1>2. QED
  BY <1>1 DEF Status, StatusIn, Word

\* The tool relay: whichever calls and answers the host gives it under leases it
\* was given, and whatever is checkpointed, resumed, ended, refused or restarted
\* meanwhile, a request on file has one answer at most, used at most once, and
\* nothing follows its end.
THEOREM RequestsAnsweredOnce == RelaySpec => OneAnswerEach
<1>1. RelayInit => AnswerInv
  BY DEF RelayInit, AnswerInv, Shaped, GrewOutOf, GoOn
<1>2. AnswerInv /\ WorkerInv /\ RelayTyped /\ [RelayNext]_<<vars, relayVars>> => AnswerInv'
  BY AnswerNext
<1>3. RelaySpec => [](AnswerInv /\ WorkerInv /\ RelayTyped)
  BY <1>1, <1>2, RelayUnderWorker, RelayTypesHold, PTL DEF RelaySpec
<1>4. RelayInit => Request!Init
  <2> SUFFICES ASSUME RelayInit, NEW r \in 1..MaxCalls PROVE Status(r) = "none"
    BY DEF Request!Init
  <2>1. Shaped(filed) /\ DOMAIN filed = {}
    BY DEF RelayInit, Shaped
  <2>2. QED
    BY <2>1, StatusOnFile, StatusIs
<1>5. AnswerInv /\ WorkerInv /\ RelayTyped /\ [RelayNext]_<<vars, relayVars>> =>
        [Request!File]_[r \in 1..MaxCalls |-> Status(r)]
  <2> SUFFICES ASSUME AnswerInv, WorkerInv, RelayTyped, [RelayNext]_<<vars, relayVars>>
               PROVE  Request!File
    OBVIOUS
  <2>1. Shaped(filed) /\ Shaped(filed') /\ GrewOutOf(filed', filed)
    BY AnswerNext DEF AnswerInv
  <2>2. (\A r : Status(r) = StatusIn(filed, r))'
    BY StatusOnFile, PTL
  <2>3. \A r : Status(r)' \in {Status(r)} \cup Request!Later(Status(r))
    BY <2>1, <2>2, StatusOnFile, StatusMoves
  <2>4. QED
    BY <2>3 DEF Request!File
<1>6. QED
  BY <1>3, <1>4, <1>5, PTL DEF RelaySpec, OneAnswerEach, Request!Spec
=============================================================================
