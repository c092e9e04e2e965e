--------------------------- MODULE FamilyRoomProofs ---------------------------
(***************************************************************************)
(* The Family room for any number of people, invitations, revisions and    *)
(* direct changes.  The argument is about lineage: the channel named 0     *)
(* fixes how far revisions and generations are apart, every other channel, *)
(* and every request for one, is of a later record at the same distance,   *)
(* and so no two channels are of one generation.                           *)
(***************************************************************************)
EXTENDS FamilyRoom, FiniteSetTheorems, TLAPS

Req == [at: {"channel", "accept"}, record: Record, name: Revisions,
        invitation: Invitations \cup {None}]

\* The types; a generation is at most one ahead of its revision.
Typed ==
  /\ space \in Record \cup {None}
  /\ space # None => space.generation <= space.revision + 1
  /\ channels \in [Revisions -> Channel \cup {None}]
  /\ invitation \in [Invitations -> Terms \cup {None}]
  /\ request \in [Principals -> Req \cup {None}]
  /\ now \in Times
  /\ joiners \in [Invitations -> SUBSET Principals]

\* The record of a later channel than the initial one, at its distance.
After(revision, generation) ==
  /\ channels[0] # None
  /\ channels[0].revision < revision
  /\ revision - generation = channels[0].revision - channels[0].generation

\* Every channel but the initial one is of the record it is named for, a later one.
Lineage ==
  \A n \in Revisions \ {0} : channels[n] # None =>
    channels[n].revision = n /\ After(n, channels[n].generation)

\* A request with an invitation is for the record after the invitation's.
Granted(q) ==
  LET t == invitation[q.invitation]
  IN  q.invitation # None =>
        /\ t # None /\ q.name # 0
        /\ q.record.revision = t.revision + 1 /\ q.record.generation = t.generation + 1

\* A request for another channel than the initial one is for a later one.
Sound(q) ==
  /\ q.name # 0 =>
       q.name = q.record.revision /\ After(q.record.revision, q.record.generation)
  /\ q.at = "accept" => q.invitation # None
  /\ Granted(q)

Requests == \A p \in Principals : request[p] # None => Sound(request[p])

\* An invitation that was used is of an earlier record than the current one.
Used(i) ==
  \/ joiners[i] = {}
  \/ /\ \E p \in Principals : joiners[i] = {p}
     /\ invitation[i] # None /\ space # None
     /\ invitation[i].revision < space.revision

\* An accepted invitation has its channel, with the one who accepted it.
Shown(i) ==
  invitation[i] # None /\ invitation[i].state = "ACCEPTED" =>
    \E n \in Revisions :
      /\ channels[n] # None
      /\ channels[n].revision = invitation[i].revision + 1
      /\ channels[n].generation = invitation[i].generation + 1
      /\ invitation[i].accepted \in channels[n].audience

Owned == space # None => Owners(space) # {}

RoomInv ==
  /\ Typed /\ Owned /\ Lineage /\ Requests
  /\ \A i \in Invitations : Used(i) /\ Shown(i)

\* The step of OwnersDecide.
Decided ==
  /\ space' # None => Owners(space') # {}
  /\ space # None /\ Owners(space') # Owners(space) =>
       LET hand == IF origin'.how = "join" THEN invitation[origin'.via].inviter
                   ELSE origin'.who
       IN hand \in Owners(space)

-----------------------------------------------------------------------------
(* Records and their owners.                                               *)

Bounds == MaxRevision \in Nat /\ MaxTime \in Nat /\ 0 \in Revisions

\* The bounds are natural numbers.
LEMMA BoundsAre == Bounds
BY FamilyAssumption DEF Bounds, Revisions

Transitions == {"create", "add", "LEAVE", "REVOKE", "REMOVE", "CHANGE_ROLE", "REBIND", "companion"}

\* A record that follows another one, and is committed, is a record.
LEMMA NextTyped ==
  ASSUME Typed, space # None, NEW kind \in Transitions, NEW whom \in Principals,
         NEW members \in [Principals -> Member], NEW companion \in CompanionStates,
         NextRecord(space, kind, whom, members, companion).revision \in Revisions
  PROVE  LET r == NextRecord(space, kind, whom, members, companion)
         IN  /\ r \in Record /\ r # None
             /\ r.members = members
             /\ r.revision = space.revision + 1
             /\ r.generation <= r.revision + 1
             /\ kind # "companion" => r.generation = space.generation + 1
<1> DEFINE r == NextRecord(space, kind, whom, members, companion)
           g == IF kind = "companion" THEN space.generation ELSE space.generation + 1
<1>1. space \in Record /\ space.generation <= space.revision + 1
  BY DEF Typed
<1>2. /\ space.revision \in Nat /\ space.generation \in Nat /\ 1 <= space.generation
      /\ MaxRevision \in Nat
  BY <1>1, BoundsAre DEF Record, Revisions, Bounds
<1>3. r = [revision |-> space.revision + 1, generation |-> g, members |-> members,
           companion |-> companion, transition |-> kind, whom |-> whom]
  BY DEF NextRecord
<1>4. /\ g \in Nat /\ 1 <= g /\ g <= space.revision + 2
      /\ kind # "companion" => g = space.generation + 1
  BY <1>1, <1>2
<1> HIDE DEF g
<1>5. space.revision + 1 \in Revisions
  BY <1>3
<1>6. g \in 1..(MaxRevision + 1)
  BY <1>2, <1>4, <1>5 DEF Revisions
<1>7. r \in Record
  BY <1>3, <1>5, <1>6 DEF Record, Transitions
<1>8. r # None
  BY <1>7, NoneAssumption
<1>9. QED
  BY <1>2, <1>3, <1>4, <1>7, <1>8

\* The owners of a record are told from its members.
LEMMA OwnersOf ==
  \A r : Owners(r) = {p \in Principals : /\ r.members[p].status = "ACTIVE"
                                         /\ r.members[p].role = "OWNER"}
BY DEF Owners, Active

\* Members of which one is replaced by another member.
LEMMA MembersWith ==
  ASSUME NEW members \in [Principals -> Member], NEW p \in Principals,
         NEW m \in Member, NEW after, after = [members EXCEPT ![p] = m]
  PROVE  /\ after \in [Principals -> Member]
         /\ after[p] = m
         /\ \A q \in Principals \ {p} : after[q] = members[q]
OBVIOUS

\* The devices a member can be bound to.
AnyDevice == Principals \cup {None}

\* The four ways a member is rewritten.
LEMMA MemberChanges ==
  ASSUME Typed, NEW r \in Record, NEW p \in Principals
  PROVE  /\ \A role \in Roles, device \in AnyDevice :
              LET after == WithMember(r, p, role, device)
              IN  /\ after \in [Principals -> Member]
                  /\ after[p].role = role /\ after[p].status = "ACTIVE"
                  /\ \A q \in Principals \ {p} : after[q] = r.members[q]
         /\ \A status \in {"LEFT", "REVOKED", "REMOVED"} :
              LET after == WithStatus(r, p, status)
              IN  /\ after \in [Principals -> Member]
                  /\ after[p].role = r.members[p].role /\ after[p].status = status
                  /\ after[p].bound = r.members[p].bound
                  /\ \A q \in Principals \ {p} : after[q] = r.members[q]
         /\ \A role \in Roles :
              LET after == [r.members EXCEPT ![p].role = role]
              IN  /\ after \in [Principals -> Member]
                  /\ after[p].role = role /\ after[p].status = r.members[p].status
                  /\ \A q \in Principals \ {p} : after[q] = r.members[q]
         /\ \A device \in AnyDevice :
              LET after == [r.members EXCEPT ![p].bound = device]
              IN  /\ after \in [Principals -> Member]
                  /\ after[p].role = r.members[p].role /\ after[p].status = r.members[p].status
                  /\ \A q \in Principals \ {p} : after[q] = r.members[q]
<1>1. r.members \in [Principals -> Member] /\ r.members[p] \in Member
  BY DEF Record
<1>2. ASSUME NEW role \in Roles, NEW device \in AnyDevice
      PROVE  LET after == WithMember(r, p, role, device)
             IN  /\ after \in [Principals -> Member]
                 /\ after[p].role = role /\ after[p].status = "ACTIVE"
                 /\ \A q \in Principals \ {p} : after[q] = r.members[q]
  <2> DEFINE m == [role |-> role, joined |-> now, bound |-> device, status |-> "ACTIVE"]
  <2>1. m \in Member
    BY DEF Member, Typed, AnyDevice
  <2>2. QED
    BY <1>1, <2>1 DEF WithMember
<1>3. ASSUME NEW status \in {"LEFT", "REVOKED", "REMOVED"}
      PROVE  LET after == WithStatus(r, p, status)
             IN  /\ after \in [Principals -> Member]
                 /\ after[p].role = r.members[p].role /\ after[p].status = status
                 /\ after[p].bound = r.members[p].bound
                 /\ \A q \in Principals \ {p} : after[q] = r.members[q]
  <2> DEFINE m == [r.members[p] EXCEPT !.status = status]
  <2>1. /\ m \in Member /\ m.role = r.members[p].role /\ m.status = status
        /\ m.bound = r.members[p].bound
    BY <1>1 DEF Member
  <2>2. WithStatus(r, p, status) = [r.members EXCEPT ![p] = m]
    BY DEF WithStatus
  <2> HIDE DEF m
  <2>3. QED
    BY <1>1, <2>1, <2>2
<1>4. ASSUME NEW role \in Roles
      PROVE  LET after == [r.members EXCEPT ![p].role = role]
             IN  /\ after \in [Principals -> Member]
                 /\ after[p].role = role /\ after[p].status = r.members[p].status
                 /\ \A q \in Principals \ {p} : after[q] = r.members[q]
  <2> DEFINE m == [r.members[p] EXCEPT !.role = role]
  <2>1. m \in Member /\ m.role = role /\ m.status = r.members[p].status
    BY <1>1 DEF Member
  <2>2. [r.members EXCEPT ![p].role = role] = [r.members EXCEPT ![p] = m]
    OBVIOUS
  <2> HIDE DEF m
  <2>3. QED
    BY <1>1, <2>1, <2>2
<1>5. ASSUME NEW device \in AnyDevice
      PROVE  LET after == [r.members EXCEPT ![p].bound = device]
             IN  /\ after \in [Principals -> Member]
                 /\ after[p].role = r.members[p].role /\ after[p].status = r.members[p].status
                 /\ \A q \in Principals \ {p} : after[q] = r.members[q]
  <2> DEFINE m == [r.members[p] EXCEPT !.bound = device]
  <2>1. m \in Member /\ m.role = r.members[p].role /\ m.status = r.members[p].status
    BY <1>1 DEF Member, AnyDevice
  <2>2. [r.members EXCEPT ![p].bound = device] = [r.members EXCEPT ![p] = m]
    OBVIOUS
  <2> HIDE DEF m
  <2>3. QED
    BY <1>1, <2>1, <2>2
<1>6. QED
  BY <1>2, <1>3, <1>4, <1>5

-----------------------------------------------------------------------------
(* What a step that keeps channels and terms leaves in order.              *)

\* No channel is rewritten and no invitation is issued again.
Keeping ==
  /\ \A n \in Revisions : channels[n] # None => channels'[n] = channels[n]
  /\ \A i \in Invitations : invitation[i] # None =>
       /\ invitation'[i] # None
       /\ invitation'[i].revision = invitation[i].revision
       /\ invitation'[i].generation = invitation[i].generation

\* The distance stays what it is once the initial channel is there.
LEMMA AfterKept ==
  ASSUME Keeping, NEW a, NEW b, After(a, b)
  PROVE  After(a, b)'
BY BoundsAre DEF Bounds, Keeping, After

\* A request stays sound.
LEMMA SoundKept ==
  ASSUME Keeping, NEW q \in Req, Sound(q)
  PROVE  Sound(q)'
<1>1. q.name # 0 => After(q.record.revision, q.record.generation)'
  BY AfterKept DEF Sound
<1>2. q.invitation # None => q.invitation \in Invitations
  BY DEF Req
<1>3. QED
  BY <1>1, <1>2 DEF Sound, Granted, Keeping

\* New requests have to be sound when they are made.
LEMMA RequestsStep ==
  ASSUME RoomInv, Keeping,
         \A p \in Principals : request'[p] # None =>
           \/ request'[p] = request[p]
           \/ \E q \in Req : request'[p] = q /\ Sound(q)
  PROVE  Requests'
<1> SUFFICES ASSUME NEW p \in Principals, request'[p] # None
             PROVE  Sound(request[p])'
  BY DEF Requests
<1>1. \E q \in Req : request'[p] = q /\ Sound(q)
  BY DEF RoomInv, Typed, Requests
<1>2. PICK q \in Req : request'[p] = q /\ Sound(q)
  BY <1>1
<1>3. Sound(q)'
  BY <1>2, SoundKept
<1>4. QED
  BY <1>2, <1>3 DEF Sound, Granted

\* Channels that stay are in order.
LEMMA LineageStep ==
  ASSUME RoomInv, channels' = channels
  PROVE  Lineage'
BY DEF RoomInv, Lineage, After

\* Invitations that are neither used nor accepted in the step.
LEMMA InvitationsStep ==
  ASSUME RoomInv, Keeping, NEW i \in Invitations, joiners'[i] = joiners[i],
         \/ space' = space
         \/ space # None => /\ space' # None /\ space'.revision \in Nat
                            /\ space.revision < space'.revision,
         \/ invitation'[i] = invitation[i]
         \/ invitation'[i] = None
         \/ invitation'[i].state # "ACCEPTED"
  PROVE  Used(i)' /\ Shown(i)'
<1>1. Used(i)'
  <2>1. CASE joiners[i] = {}
    BY <2>1 DEF Used
  <2>2. CASE joiners[i] # {}
    <3>1. /\ \E p \in Principals : joiners[i] = {p}
          /\ invitation[i] # None /\ space # None
          /\ invitation[i].revision < space.revision
      BY <2>2 DEF RoomInv, Used
    <3>2. invitation[i] \in Terms
      BY <3>1 DEF RoomInv, Typed
    <3>3. invitation[i].revision \in Nat /\ space.revision \in Nat
      BY <3>1, <3>2, BoundsAre DEF RoomInv, Typed, Record, Terms, Revisions, Bounds
    <3>4. space' # None /\ invitation[i].revision < space'.revision
      <4>1. CASE space' = space
        BY <3>1, <4>1
      <4>2. CASE /\ space' # None /\ space'.revision \in Nat
                 /\ space.revision < space'.revision
        BY <3>1, <3>3, <4>2
      <4>3. QED
        BY <3>1, <4>1, <4>2
    <3>5. QED
      BY <3>1, <3>4 DEF Used, Keeping
  <2>3. QED
    BY <2>1, <2>2
<1>2. Shown(i)'
  <2>1. CASE invitation'[i] = invitation[i]
    BY <2>1 DEF RoomInv, Shown, Keeping
  <2>2. CASE invitation'[i] # invitation[i]
    BY <2>2 DEF Shown
  <2>3. QED
    BY <2>1, <2>2
<1>3. QED
  BY <1>1, <1>2

\* An exact current channel puts the next record at the right distance.
LEMMA GroupAfter ==
  ASSUME Typed, Lineage, NEW a \in Int, NEW b \in Int, HasGroup(a, b)
  PROVE  After(a + 1, b + 1)
<1>1. PICK n \in Revisions : Bound(a, b) = {n}
  BY DEF HasGroup
<1>2. channels[n] # None /\ channels[n].revision = a /\ channels[n].generation = b
  BY <1>1 DEF Bound
<1>3. channels[0] # None => channels[0].revision \in Int /\ channels[0].generation \in Int
  BY BoundsAre DEF Typed, Channel, Bounds, Revisions
<1>4. CASE n = 0
  BY <1>2, <1>4 DEF After
<1>5. CASE n # 0
  <2>1. n = a /\ After(n, channels[n].generation)
    BY <1>2, <1>5 DEF Lineage
  <2>2. QED
    BY <1>2, <1>3, <2>1 DEF After
<1>6. QED
  BY <1>4, <1>5

\* A request for the channel of a record whose predecessor has its channel.
LEMMA SuccessorSound ==
  ASSUME Typed, Lineage, NEW r \in Record, NEW i \in Invitations \cup {None},
         HasGroup(r.revision - 1, r.generation - 1),
         i # None => /\ invitation[i] # None
                     /\ r.revision = invitation[i].revision + 1
                     /\ r.generation = invitation[i].generation + 1
  PROVE  /\ Materialize(r, r.revision, i) \in Req
         /\ Sound(Materialize(r, r.revision, i))
<1> DEFINE q == Materialize(r, r.revision, i)
<1>1. q = [at |-> "channel", record |-> r, name |-> r.revision, invitation |-> i]
  BY DEF Materialize
<1>2. r.revision \in Revisions /\ r.revision \in Int /\ r.generation \in Int
  BY BoundsAre DEF Record, Bounds, Revisions
<1>3. q \in Req
  BY <1>1, <1>2 DEF Req
<1>4. After(r.revision - 1 + 1, r.generation - 1 + 1)
  BY <1>2, GroupAfter
<1>5. After(r.revision, r.generation)
  <2>1. r.revision - 1 + 1 = r.revision /\ r.generation - 1 + 1 = r.generation
    BY <1>2
  <2>2. QED
    BY <1>4, <2>1
<1>6. i # None => invitation[i].revision \in Nat
  BY BoundsAre DEF Typed, Terms, Bounds, Revisions
<1>7. i # None => r.revision # 0
  BY <1>6
<1>8. q.name = r.revision /\ q.record = r /\ q.invitation = i /\ q.at = "channel"
  BY <1>1
<1> HIDE DEF q
<1>9. Sound(q)
  BY <1>5, <1>7, <1>8 DEF Sound, Granted
<1>10. QED
  BY <1>3, <1>9 DEF q

-----------------------------------------------------------------------------
(* Steps that leave the record alone.                                      *)

\* Nobody's ownership changes when the record does not.
LEMMA SameOwners == ASSUME RoomInv, space' = space PROVE Owned' /\ Decided
BY DEF RoomInv, Owned, Decided

\* A request is made, or given up.
LEMMA Asks ==
  ASSUME RoomInv, NEW p \in Principals, NEW q \in Req \cup {None},
         q # None => q \in Req /\ Sound(q),
         request' = [request EXCEPT ![p] = q],
         UNCHANGED <<space, channels, invitation, now, joiners>>
  PROVE  RoomInv' /\ Decided
<1>1. Keeping
  BY DEF Keeping
<1>2. Typed'
  BY DEF RoomInv, Typed
<1>3. Requests'
  <2>1. ASSUME NEW o \in Principals, request'[o] # None
        PROVE  \/ request'[o] = request[o]
               \/ \E n \in Req : request'[o] = n /\ Sound(n)
    BY <2>1 DEF RoomInv, Typed
  <2>2. QED
    BY <1>1, <2>1, RequestsStep
<1>4. \A i \in Invitations : Used(i)' /\ Shown(i)'
  BY <1>1, InvitationsStep
<1>5. QED
  BY <1>2, <1>3, <1>4, SameOwners, LineageStep DEF RoomInv

\* The same request again, or none.
LEMMA AsksAgain ==
  ASSUME RoomInv, NEW p \in Principals,
         \/ HostAgain \/ LeaveAgain(p) \/ Interrupt(p)
         \/ \E i \in Invitations : JoinAgain(p, i)
  PROVE  RoomInv' /\ Decided
<1>1. Typed /\ Lineage
  BY DEF RoomInv
<1>2. CASE HostAgain
  <2>1. PICK r \in Record : r = space
    BY <1>1, <1>2 DEF HostAgain, Typed
  <2> DEFINE q == Materialize(r, 0, None)
  <2>2. q = [at |-> "channel", record |-> r, name |-> 0, invitation |-> None]
    BY DEF Materialize
  <2>3. q \in Req
    BY <2>2, BoundsAre DEF Req, Bounds
  <2>4. Sound(q)
    BY <2>2 DEF Sound, Granted
  <2>5. request' = [request EXCEPT ![Host] = q]
    BY <1>2, <2>1 DEF HostAgain
  <2> HIDE DEF q
  <2>6. Host \in Principals
    BY FamilyAssumption
  <2>7. QED
    BY <1>2, <2>3, <2>4, <2>5, <2>6, Asks DEF HostAgain
<1>3. CASE LeaveAgain(p)
  <2>1. PICK r \in Record : r = space
    BY <1>1, <1>3 DEF LeaveAgain, Typed
  <2> DEFINE q == Materialize(r, r.revision, None)
  <2>2. HasGroup(r.revision - 1, r.generation - 1)
    BY <1>3, <2>1 DEF LeaveAgain, LeaveRecoverable
  <2>3. q \in Req /\ Sound(q)
    BY <1>1, <2>2, SuccessorSound
  <2>4. request' = [request EXCEPT ![p] = q]
    BY <1>3, <2>1 DEF LeaveAgain
  <2> HIDE DEF q
  <2>5. QED
    BY <1>3, <2>3, <2>4, Asks DEF LeaveAgain
<1>4. ASSUME NEW i \in Invitations, JoinAgain(p, i) PROVE RoomInv' /\ Decided
  <2>1. PICK r \in Record : r = space
    BY <1>1, <1>4 DEF JoinAgain, Typed
  <2>2. PICK t \in Terms : t = invitation[i]
    BY <1>1, <1>4 DEF JoinAgain, Pending, Typed
  <2>3. /\ t # None /\ HasGroup(t.revision, t.generation)
        /\ r.generation = t.generation + 1 /\ r.revision = t.revision + 1
    BY <1>4, <2>1, <2>2 DEF JoinAgain, JoinRecoverable, Pending
  <2>4. t.revision \in Int /\ t.generation \in Int
    BY <2>2, BoundsAre DEF Terms, Revisions, Bounds
  <2>5. r.revision - 1 = t.revision /\ r.generation - 1 = t.generation
    BY <2>3, <2>4
  <2> DEFINE q == Materialize(r, r.revision, i)
  <2>6. q \in Req /\ Sound(q)
    BY <1>1, <2>2, <2>3, <2>5, SuccessorSound
  <2>7. request' = [request EXCEPT ![p] = q]
    BY <1>4, <2>1 DEF JoinAgain
  <2> HIDE DEF q
  <2>8. QED
    BY <1>4, <2>6, <2>7, Asks DEF JoinAgain
<1>5. CASE Interrupt(p)
  BY <1>5, Asks DEF Interrupt
<1>6. QED
  BY <1>2, <1>3, <1>4, <1>5

\* A channel is formed for the record of a request, current or not.
LEMMA Forms ==
  ASSUME RoomInv, NEW p \in Principals, FormChannel(p)
  PROVE  RoomInv' /\ Decided
<1>1. Typed /\ Lineage /\ Requests
  BY DEF RoomInv
<1>2. PICK q \in Req : q = request[p] /\ q # None
  BY <1>1 DEF FormChannel, Typed
<1>3. Sound(q)
  BY <1>1, <1>2 DEF Requests
<1> DEFINE c == ChannelOf(q.record)
<1>4. /\ c \in Channel /\ c # None
      /\ c.revision = q.record.revision /\ c.generation = q.record.generation
  <2>1. (q.record.companion # "HELD") \in BOOLEAN /\ Active(q.record) \in SUBSET Principals
    BY Zenon DEF Active
  <2>2. PICK b \in BOOLEAN : b = (q.record.companion # "HELD")
    BY <2>1
  <2>3. c = [revision |-> q.record.revision, generation |-> q.record.generation,
             audience |-> Active(q.record), companion |-> b]
    BY <2>2, Zenon DEF ChannelOf
  <2> HIDE DEF c
  <2>4. QED
    BY <2>1, <2>3, NoneAssumption DEF Req, Record, Channel
<1>5. /\ q.at = "channel" /\ q.name \in Revisions
      /\ channels[q.name] \in {None, c}
      /\ channels' = [channels EXCEPT ![q.name] = c]
      /\ request' = [request EXCEPT ![p] =
                       IF q.invitation = None THEN None ELSE [q EXCEPT !.at = "accept"]]
      /\ UNCHANGED <<space, invitation, now, joiners>>
  BY <1>2 DEF FormChannel, Req
<1> HIDE DEF c
<1>6. Keeping
  BY <1>1, <1>5 DEF Keeping, Typed
<1>7. Lineage'
  <2> SUFFICES ASSUME NEW n \in Revisions \ {0}, channels'[n] # None
               PROVE  channels'[n].revision = n /\ After(n, channels[n].generation)'
    BY DEF Lineage
  <2>1. CASE n = q.name
    <3>1. channels'[n] = c
      BY <1>1, <1>5, <2>1 DEF Typed
    <3>2. n = q.record.revision /\ After(q.record.revision, q.record.generation)
      BY <1>3, <2>1 DEF Sound
    <3>3. After(q.record.revision, q.record.generation)'
      BY <1>6, <3>2, AfterKept
    <3>4. QED
      BY <1>4, <3>1, <3>2, <3>3 DEF After
  <2>2. CASE n # q.name
    <3>1. channels'[n] = channels[n]
      BY <1>1, <1>5, <2>2 DEF Typed
    <3>2. PICK g : g = channels[n].generation
      OBVIOUS
    <3>3. channels[n].revision = n /\ After(n, g)
      BY <1>1, <3>1, <3>2 DEF Lineage
    <3>4. After(n, g)'
      BY <1>6, <3>3, AfterKept
    <3>5. QED
      BY <3>1, <3>2, <3>3, <3>4 DEF After
  <2>3. QED
    BY <2>1, <2>2
<1> DEFINE n == [q EXCEPT !.at = "accept"]
<1>8. /\ n \in Req /\ n.at = "accept" /\ n.name = q.name /\ n.record = q.record
      /\ n.invitation = q.invitation
  BY DEF Req
<1> HIDE DEF n
<1>9. q.invitation # None => Sound(n)
  BY <1>3, <1>8 DEF Sound, Granted
<1>10. request' = [request EXCEPT ![p] = IF q.invitation = None THEN None ELSE n]
  BY <1>5 DEF n
<1>11. Typed'
  BY <1>1, <1>4, <1>5, <1>8, <1>10 DEF Typed
<1>12. Requests'
  <2>1. ASSUME NEW o \in Principals, request'[o] # None
        PROVE  \/ request'[o] = request[o]
               \/ \E m \in Req : request'[o] = m /\ Sound(m)
    BY <1>1, <1>8, <1>9, <1>10, <2>1 DEF Typed
  <2>2. QED
    BY <1>6, <2>1, RequestsStep
<1>13. \A i \in Invitations : Used(i)' /\ Shown(i)'
  BY <1>5, <1>6, InvitationsStep
<1>14. QED
  BY <1>5, <1>7, <1>11, <1>12, <1>13, SameOwners DEF RoomInv

\* A change of one invitation's state.
LEMMA TermsStep ==
  ASSUME RoomInv, NEW i \in Invitations, NEW t \in Terms,
         invitation' = [invitation EXCEPT ![i] = t],
         invitation[i] # None => /\ t.revision = invitation[i].revision
                                 /\ t.generation = invitation[i].generation,
         UNCHANGED <<space, channels, now, joiners>>
  PROVE  /\ Keeping /\ Owned' /\ Lineage' /\ Decided
         /\ invitation' \in [Invitations -> Terms \cup {None}]
         /\ \A j \in Invitations \ {i} : Used(j)' /\ Shown(j)'
         /\ t.state # "ACCEPTED" => Used(i)' /\ Shown(i)'
<1>1. /\ invitation' \in [Invitations -> Terms \cup {None}]
      /\ invitation'[i] = t /\ t # None
      /\ \A j \in Invitations \ {i} : invitation'[j] = invitation[j]
  BY NoneAssumption DEF RoomInv, Typed
<1>2. Keeping
  BY <1>1 DEF Keeping
<1>3. \A j \in Invitations \ {i} : Used(j)' /\ Shown(j)'
  BY <1>1, <1>2, InvitationsStep
<1>4. t.state # "ACCEPTED" => Used(i)' /\ Shown(i)'
  BY <1>1, <1>2, InvitationsStep
<1>5. QED
  BY <1>1, <1>2, <1>3, <1>4, SameOwners, LineageStep

\* acceptFamilyInvitation finds the channel of the invitation's next record.
LEMMA Accepts ==
  ASSUME RoomInv, NEW p \in Principals, Accept(p)
  PROVE  RoomInv' /\ Decided
<1>1. Typed /\ Lineage /\ Requests
  BY DEF RoomInv
<1>2. PICK q \in Req : q = request[p] /\ q # None
  BY <1>1 DEF Accept, Typed
<1>3. Sound(q) /\ q.at = "accept"
  BY <1>1, <1>2 DEF Requests, Accept
<1>4. PICK i \in Invitations : i = q.invitation
  BY <1>3 DEF Sound, Req
<1>5. i # None
  BY FamilyAssumption
<1>6. /\ invitation[i] # None /\ invitation[i].state = "PENDING"
      /\ space = q.record /\ channels[q.name] # None
      /\ channels[q.name].revision = space.revision
      /\ p \in channels[q.name].audience
  BY <1>2, <1>4 DEF Accept, Acceptable, Pending
<1> DEFINE t == [invitation[i] EXCEPT !.state = "ACCEPTED", !.accepted = p]
<1>7. invitation[i] \in Terms
  BY <1>1, <1>6 DEF Typed
<1>8. /\ t \in Terms /\ t.revision = invitation[i].revision
      /\ t.generation = invitation[i].generation
      /\ t.state = "ACCEPTED" /\ t.accepted = p
  BY <1>7 DEF Terms
<1>9. /\ invitation' = [invitation EXCEPT ![i] = t]
      /\ request' = [request EXCEPT ![p] = None]
      /\ UNCHANGED <<space, channels, now, joiners>>
  BY <1>2, <1>4 DEF Accept
<1> HIDE DEF t
<1>10. /\ Keeping /\ Owned' /\ Lineage' /\ Decided
       /\ invitation' \in [Invitations -> Terms \cup {None}]
       /\ \A j \in Invitations \ {i} : Used(j)' /\ Shown(j)'
  BY <1>8, <1>9, TermsStep
<1>11. Typed'
  BY <1>1, <1>9, <1>10 DEF Typed
<1>12. Requests'
  <2>1. ASSUME NEW o \in Principals, request'[o] # None PROVE request'[o] = request[o]
    BY <1>1, <1>9, <2>1 DEF Typed
  <2>2. QED
    BY <1>10, <2>1, RequestsStep
<1>13. invitation'[i] = t
  BY <1>1, <1>9 DEF Typed
<1>14. Used(i)'
  BY <1>6, <1>8, <1>9, <1>10, <1>13 DEF RoomInv, Used, Keeping
<1>15. /\ q.name # 0 /\ q.name = q.record.revision /\ q.name \in Revisions
       /\ After(q.record.revision, q.record.generation)
       /\ q.record.revision = invitation[i].revision + 1
       /\ q.record.generation = invitation[i].generation + 1
  BY <1>3, <1>4, <1>5 DEF Sound, Granted, Req
<1>16. channels[q.name].revision = q.name /\ After(q.name, channels[q.name].generation)
  BY <1>1, <1>6, <1>15 DEF Lineage
<1>17. channels[q.name].generation = q.record.generation
  <2>1. /\ q.record.revision \in Int /\ q.record.generation \in Int
        /\ channels[q.name].generation \in Int
        /\ channels[0].revision \in Int /\ channels[0].generation \in Int
    BY <1>1, <1>6, <1>15, BoundsAre DEF Typed, Req, Record, Channel, Revisions, Bounds, After
  <2>2. QED
    BY <1>15, <1>16, <2>1 DEF After
<1>18. Shown(i)'
  BY <1>6, <1>8, <1>9, <1>13, <1>15, <1>16, <1>17 DEF Shown
<1>19. QED
  BY <1>10, <1>11, <1>12, <1>14, <1>18 DEF RoomInv

\* The invitation store.
LEMMA Invites ==
  ASSUME RoomInv, Inviting
  PROVE  RoomInv' /\ Decided
<1>1. Typed
  BY DEF RoomInv
<1>2. ASSUME NEW i \in Invitations, NEW t \in Terms, t.state # "ACCEPTED",
             invitation' = [invitation EXCEPT ![i] = t],
             invitation[i] # None => /\ t.revision = invitation[i].revision
                                     /\ t.generation = invitation[i].generation,
             UNCHANGED <<space, channels, request, now, joiners>>
      PROVE  RoomInv' /\ Decided
  <2>1. /\ Keeping /\ Owned' /\ Lineage' /\ Decided
        /\ invitation' \in [Invitations -> Terms \cup {None}]
        /\ \A j \in Invitations : Used(j)' /\ Shown(j)'
    BY <1>2, TermsStep
  <2>2. Typed'
    BY <1>1, <1>2, <2>1 DEF Typed
  <2>3. Requests'
    BY <1>2, <2>1, RequestsStep
  <2>4. QED
    BY <2>1, <2>2, <2>3 DEF RoomInv
<1>3. ASSUME NEW i \in Invitations, NEW m \in Principals,
             NEW e \in 1..(MaxTime + 1), Issue(m, i, e)
      PROVE  RoomInv' /\ Decided
  <2> DEFINE t == [revision |-> space.revision, generation |-> space.generation,
                   inviter |-> m, expires |-> e, accepted |-> None,
                   state |-> "PENDING"]
  <2>1. space \in Record /\ e \in 0..(MaxTime + 1)
    BY <1>1, <1>3, BoundsAre DEF Issue, Typed, Bounds
  <2>2. t \in Terms /\ t.state # "ACCEPTED"
    BY <2>1 DEF Terms, Record
  <2>3. PICK n \in Terms : n = t
    BY <2>2
  <2>4. invitation[i] = None /\ invitation' = [invitation EXCEPT ![i] = n]
    BY <1>3, <2>3 DEF Issue
  <2>5. n.state # "ACCEPTED"
    BY <2>2, <2>3
  <2>6. QED
    BY <1>2, <1>3, <2>4, <2>5 DEF Issue
<1>4. ASSUME NEW i \in Invitations, Pending(i), NEW state \in {"REVOKED", "EXPIRED"},
             invitation' = [invitation EXCEPT ![i].state = state],
             UNCHANGED <<space, channels, request, now, joiners>>
      PROVE  RoomInv' /\ Decided
  <2>1. invitation[i] \in Terms
    BY <1>1, <1>4 DEF Typed, Pending
  <2> DEFINE t == [invitation[i] EXCEPT !.state = state]
  <2>2. /\ t \in Terms /\ t.state # "ACCEPTED"
        /\ t.revision = invitation[i].revision /\ t.generation = invitation[i].generation
    BY <2>1 DEF Terms
  <2>3. invitation' = [invitation EXCEPT ![i] = t]
    BY <1>4
  <2> HIDE DEF t
  <2>4. PICK n \in Terms : n = t
    BY <2>2
  <2>5. QED
    BY <1>2, <1>4, <2>2, <2>3, <2>4
<1>5. QED
  BY <1>3, <1>4 DEF Inviting, Revoke, Expire

\* The clock.
LEMMA Ticks ==
  ASSUME RoomInv, Tick
  PROVE  RoomInv' /\ Decided
<1>1. Keeping
  BY DEF Tick, Keeping
<1>2. Typed'
  BY BoundsAre DEF RoomInv, Typed, Tick, Times, Bounds
<1>3. Requests'
  BY <1>1, RequestsStep DEF Tick
<1>4. \A i \in Invitations : Used(i)' /\ Shown(i)'
  BY <1>1, InvitationsStep DEF Tick
<1>5. QED
  BY <1>2, <1>3, <1>4, SameOwners, LineageStep DEF RoomInv, Tick

-----------------------------------------------------------------------------
(* Steps that commit the next record.                                      *)

\* The record moves on; a request for its channel may be made with it, and an
\* invitation that nobody used may be used.
LEMMA Commits ==
  ASSUME RoomInv, NEW r \in Record, r # None, r.generation <= r.revision + 1,
         Owners(r) # {}, space' = r,
         space # None => space.revision < r.revision,
         UNCHANGED <<channels, invitation, now>>,
         \/ request' = request
         \/ \E p \in Principals : \E q \in Req :
              Sound(q) /\ request' = [request EXCEPT ![p] = q],
         \/ joiners' = joiners
         \/ \E p \in Principals : \E i \in Invitations :
              /\ joiners' = [joiners EXCEPT ![i] = @ \cup {p}]
              /\ joiners[i] = {} /\ invitation[i] # None
              /\ invitation[i].revision < r.revision
  PROVE  RoomInv'
<1>1. Keeping
  BY DEF Keeping
<1>2. request' \in [Principals -> Req \cup {None}]
  BY DEF RoomInv, Typed
<1>3. joiners' \in [Invitations -> SUBSET Principals]
  <2>1. CASE joiners' = joiners
    BY <2>1 DEF RoomInv, Typed
  <2>2. ASSUME NEW p \in Principals, NEW i \in Invitations,
               joiners' = [joiners EXCEPT ![i] = @ \cup {p}]
        PROVE  joiners' \in [Invitations -> SUBSET Principals]
    <3>1. joiners[i] \cup {p} \in SUBSET Principals
      BY DEF RoomInv, Typed
    <3>2. joiners' = [joiners EXCEPT ![i] = joiners[i] \cup {p}]
      BY <2>2
    <3> DEFINE s == joiners[i] \cup {p}
    <3> HIDE DEF s
    <3>3. joiners' = [joiners EXCEPT ![i] = s] /\ s \in SUBSET Principals
      BY <3>1, <3>2 DEF s
    <3>4. QED
      BY <3>3 DEF RoomInv, Typed
  <2>3. QED
    BY <2>1, <2>2
<1>4. Typed'
  BY <1>2, <1>3 DEF RoomInv, Typed
<1>5. Owned'
  BY DEF Owned
<1>6. Requests'
  <2>1. ASSUME NEW o \in Principals, request'[o] # None
        PROVE  \/ request'[o] = request[o]
               \/ \E n \in Req : request'[o] = n /\ Sound(n)
    <3>1. CASE request' = request
      BY <3>1
    <3>2. ASSUME NEW p \in Principals, NEW q \in Req, Sound(q),
                 request' = [request EXCEPT ![p] = q]
          PROVE  \/ request'[o] = request[o]
                 \/ \E n \in Req : request'[o] = n /\ Sound(n)
      BY <3>2 DEF RoomInv, Typed
    <3>3. QED
      BY <3>1, <3>2
  <2>2. QED
    BY <1>1, <2>1, RequestsStep
<1>7. r.revision \in Nat
  BY BoundsAre DEF Record, Revisions, Bounds
<1>8. ASSUME NEW i \in Invitations, joiners'[i] = joiners[i]
      PROVE  Used(i)' /\ Shown(i)'
  BY <1>1, <1>7, <1>8, InvitationsStep
<1>9. ASSUME NEW i \in Invitations, joiners'[i] # joiners[i]
      PROVE  Used(i)' /\ Shown(i)'
  <2>1. PICK p \in Principals : /\ joiners'[i] = {p}
                                /\ invitation[i] # None
                                /\ invitation[i].revision < r.revision
    <3>1. PICK p \in Principals, j \in Invitations :
            /\ joiners' = [joiners EXCEPT ![j] = @ \cup {p}]
            /\ joiners[j] = {} /\ invitation[j] # None
            /\ invitation[j].revision < r.revision
      BY <1>9
    <3>2. joiners' = [joiners EXCEPT ![j] = {p}]
      BY <3>1
    <3>3. i = j /\ joiners'[i] = {p}
      BY <1>9, <3>2 DEF RoomInv, Typed
    <3>4. QED
      BY <3>1, <3>3
  <2>2. Used(i)'
    BY <2>1 DEF Used
  <2>3. Shown(i)'
    BY DEF RoomInv, Shown
  <2>4. QED
    BY <2>2, <2>3
<1>10. QED
  BY <1>4, <1>5, <1>6, <1>8, <1>9, LineageStep DEF RoomInv

\* What a change of one member does to the owners.
LEMMA OwnersChange ==
  ASSUME NEW r, NEW s, NEW p \in Principals,
         \A q \in Principals \ {p} : /\ r.members[q].role = s.members[q].role
                                     /\ r.members[q].status = s.members[q].status
  PROVE  /\ Owners(r) \ {p} = Owners(s) \ {p}
         /\ p \in Owners(r) <=> r.members[p].status = "ACTIVE" /\ r.members[p].role = "OWNER"
         /\ p \in Owners(s) <=> s.members[p].status = "ACTIVE" /\ s.members[p].role = "OWNER"
BY OwnersOf

\* createFamilySpace
LEMMA Creates == ASSUME RoomInv, CreateSpace PROVE RoomInv' /\ Decided /\ space' # None
<1> DEFINE m == [p \in Principals |->
                   IF p = Host THEN [role |-> "OWNER", joined |-> now, bound |-> Host,
                                     status |-> "ACTIVE"] ELSE Stranger]
           r == [revision |-> 0, generation |-> 1, companion |-> "ACTIVE", members |-> m,
                 transition |-> "create", whom |-> Host]
<1>1. Host \in Principals /\ now \in Times /\ 0 \in Times
  BY FamilyAssumption, BoundsAre DEF RoomInv, Typed, Times, Bounds
<1>2. m \in [Principals -> Member] /\ m[Host].status = "ACTIVE" /\ m[Host].role = "OWNER"
  BY <1>1 DEF Member, Stranger, Roles
<1>3. space' = r /\ r.members = m
  BY DEF CreateSpace, Commit
<1> HIDE DEF m
<1>4. r \in Record /\ r # None /\ r.generation <= r.revision + 1 /\ r.revision = 0
  <2>1. 1 \in 1..(MaxRevision + 1) /\ 0 \in Revisions
    BY BoundsAre DEF Bounds
  <2>2. r \in Record
    BY <1>1, <1>2, <2>1 DEF Record, CompanionStates
  <2>3. QED
    BY <2>2, NoneAssumption
<1>5. Host \in Owners(r)
  BY <1>1, <1>2, <1>3, OwnersOf
<1>6. PICK n \in Record : n = r
  BY <1>4
<1> DEFINE q == Materialize(n, 0, None)
<1>7. q = [at |-> "channel", record |-> n, name |-> 0, invitation |-> None]
  BY DEF Materialize
<1>8. q \in Req /\ Sound(q)
  BY <1>7, BoundsAre DEF Req, Sound, Granted, Bounds
<1>9. request' = [request EXCEPT ![Host] = q]
  BY <1>6 DEF CreateSpace, m
<1> HIDE DEF q, r
<1>10. UNCHANGED <<channels, invitation, now, joiners>> /\ space = None
  BY DEF CreateSpace
<1>11. RoomInv'
  BY <1>1, <1>3, <1>4, <1>5, <1>6, <1>8, <1>9, <1>10, Commits
<1>12. QED
  BY <1>3, <1>4, <1>5, <1>10, <1>11 DEF Decided

\* leaveFamilyAndContinueConversation
LEMMA Leaves ==
  ASSUME RoomInv, NEW p \in Principals, Leave(p)
  PROVE  RoomInv' /\ Decided /\ space' # None
<1>1. Typed /\ Lineage /\ space # None /\ space \in Record /\ Owners(space) # {}
  BY DEF RoomInv, Typed, Leave, Owned
<1> DEFINE m == WithStatus(space, p, "LEFT")
           r == NextRecord(space, "LEAVE", p, m, space.companion)
<1>2. space' = r /\ r.revision \in Revisions /\ origin' = [how |-> "leave", who |-> p, via |-> None]
  BY DEF Leave, Commit
<1>3. /\ m \in [Principals -> Member] /\ m[p].status = "LEFT"
      /\ \A q \in Principals \ {p} : m[q] = space.members[q]
  <2>1. PICK s \in Record : s = space
    BY <1>1
  <2>2. QED
    BY <1>1, <2>1, MemberChanges
<1>4. space.companion \in CompanionStates /\ "LEAVE" \in Transitions
  BY <1>1 DEF Record, Transitions
<1> HIDE DEF m
<1>5. /\ r \in Record /\ r # None /\ r.members = m /\ r.revision = space.revision + 1
      /\ r.generation <= r.revision + 1 /\ r.generation = space.generation + 1
  BY <1>1, <1>2, <1>3, <1>4, NextTyped
<1>6. PICK n \in Record : n = r
  BY <1>5
<1> HIDE DEF r
<1>7. space.revision \in Int /\ space.generation \in Int
  BY <1>1, BoundsAre DEF Record, Revisions, Bounds
<1>8. HasGroup(n.revision - 1, n.generation - 1)
  <2>1. n.revision - 1 = space.revision /\ n.generation - 1 = space.generation
    BY <1>5, <1>6, <1>7
  <2>2. QED
    BY <2>1 DEF Leave, LeaveReady
<1>9. Materialize(n, n.revision, None) \in Req /\ Sound(Materialize(n, n.revision, None))
  BY <1>1, <1>8, SuccessorSound
<1>10. request' = [request EXCEPT ![p] = Materialize(n, n.revision, None)]
  BY <1>6 DEF Leave, r, m
<1>11. Owners(n) \ {p} = Owners(space) \ {p} /\ p \notin Owners(n)
  <2>1. PICK s \in Record : s = space
    BY <1>1
  <2>2. n.members[p].status = "LEFT" /\ \A o \in Principals \ {p} : n.members[o] = s.members[o]
    BY <1>3, <1>5, <1>6, <2>1
  <2>3. Owners(n) \ {p} = Owners(s) \ {p} /\ p \notin Owners(n)
    BY <2>2, OwnersChange
  <2>4. QED
    BY <2>1, <2>3
<1>12. Owners(space) # {p}
  BY DEF Leave, LeaveReady
<1>13. Owners(n) # {}
  BY <1>1, <1>11, <1>12
<1>14. UNCHANGED <<channels, invitation, now, joiners>>
  BY DEF Leave
<1>15. RoomInv'
  <2>1. /\ n # None /\ n.generation <= n.revision + 1 /\ space' = n
        /\ space.revision < n.revision
    BY <1>2, <1>5, <1>6, <1>7
  <2> DEFINE q == Materialize(n, n.revision, None)
  <2>2. q \in Req /\ Sound(q) /\ request' = [request EXCEPT ![p] = q]
    BY <1>9, <1>10
  <2> HIDE DEF q
  <2>3. QED
    BY <1>13, <1>14, <2>1, <2>2, Commits
<1>16. QED
  BY <1>2, <1>5, <1>6, <1>11, <1>13, <1>15 DEF Decided

\* joinFamilyFromInvitation adds a member and no owner.
LEMMA Joins ==
  ASSUME RoomInv, NEW p \in Principals, NEW i \in Invitations, Join(p, i)
  PROVE  RoomInv' /\ Decided /\ space' # None
<1>1. Typed /\ Lineage /\ space # None /\ space \in Record /\ Owners(space) # {}
  BY DEF RoomInv, Typed, Join, Owned
<1>2. PICK s \in Record : s = space
  BY <1>1
<1>3. PICK t \in Terms : t = invitation[i] /\ t # None
  BY <1>1 DEF Join, Pending, Typed
<1>4. /\ HasGroup(t.revision, t.generation)
      /\ s.generation = t.generation /\ s.revision = t.revision
      /\ p \notin Active(s)
  BY <1>2, <1>3 DEF Join, JoinReady
<1> DEFINE m == WithMember(s, p, "MEMBER", p)
           r == NextRecord(space, "add", p, m, space.companion)
<1>5. /\ space' = r /\ r.revision \in Revisions
      /\ origin' = [how |-> "join", who |-> p, via |-> i]
  BY <1>2 DEF Join, Commit
<1>6. /\ m \in [Principals -> Member] /\ m[p].role = "MEMBER"
      /\ \A q \in Principals \ {p} : m[q] = s.members[q]
  <2>1. "MEMBER" \in Roles /\ p \in AnyDevice
    BY DEF Roles, AnyDevice
  <2>2. QED
    BY <1>1, <2>1, MemberChanges
<1>7. space.companion \in CompanionStates /\ "add" \in Transitions
  BY <1>1 DEF Record, Transitions
<1> HIDE DEF m
<1>8. /\ r \in Record /\ r # None /\ r.members = m /\ r.revision = space.revision + 1
      /\ r.generation <= r.revision + 1 /\ r.generation = space.generation + 1
  BY <1>1, <1>5, <1>6, <1>7, NextTyped
<1>9. PICK n \in Record : n = r
  BY <1>8
<1> HIDE DEF r
<1>10. /\ t.revision \in Int /\ t.generation \in Int
       /\ n.revision = t.revision + 1 /\ n.generation = t.generation + 1
  BY <1>2, <1>4, <1>8, <1>9, BoundsAre DEF Terms, Revisions, Bounds
<1>11. HasGroup(n.revision - 1, n.generation - 1)
  <2>1. n.revision - 1 = t.revision /\ n.generation - 1 = t.generation
    BY <1>10
  <2>2. QED
    BY <1>4, <2>1
<1> DEFINE q == Materialize(n, n.revision, i)
<1>12. q \in Req /\ Sound(q)
  BY <1>1, <1>3, <1>10, <1>11, SuccessorSound
<1>13. request' = [request EXCEPT ![p] = q]
  BY <1>2, <1>9 DEF Join, r, m
<1> HIDE DEF q
<1>14. Owners(n) = Owners(space)
  <2>1. n.members = m
    BY <1>8, <1>9
  <2>2. /\ Owners(n) \ {p} = Owners(s) \ {p}
        /\ p \notin Owners(n)
    <3>1. n.members[p].role = "MEMBER" /\ \A o \in Principals \ {p} : n.members[o] = s.members[o]
      BY <1>6, <2>1
    <3>2. \A o \in Principals \ {p} : /\ n.members[o].role = s.members[o].role
                                      /\ n.members[o].status = s.members[o].status
      BY <3>1
    <3>3. /\ Owners(n) \ {p} = Owners(s) \ {p}
          /\ p \in Owners(n) <=> n.members[p].status = "ACTIVE" /\ n.members[p].role = "OWNER"
      BY <3>2, OwnersChange
    <3>4. QED
      BY <3>1, <3>3
  <2>3. p \notin Owners(s)
    BY <1>4 DEF Owners
  <2>4. QED
    BY <1>2, <2>2, <2>3
<1>15. joiners[i] = {}
  BY <1>2, <1>3, <1>4, <1>10 DEF RoomInv, Used
<1>16. joiners' = [joiners EXCEPT ![i] = @ \cup {p}]
  BY DEF Join
<1>17. UNCHANGED <<channels, invitation, now>>
  BY DEF Join
<1>18. /\ n # None /\ n.generation <= n.revision + 1 /\ space' = n
       /\ space.revision < n.revision /\ invitation[i].revision < n.revision
       /\ invitation[i] # None
  BY <1>2, <1>3, <1>4, <1>5, <1>8, <1>9, <1>10
<1>19. RoomInv'
  BY <1>1, <1>12, <1>13, <1>14, <1>15, <1>16, <1>17, <1>18, Commits
<1>20. QED
  BY <1>1, <1>14, <1>18, <1>19 DEF Decided

\* A direct change keeps the room in order if owners remain, and changes who owns
\* the Family only by the hand of an owner.
LEMMA Directs ==
  ASSUME RoomInv, space # None, NEW actor \in Principals, NEW kind \in Transitions,
         NEW p \in Principals, NEW m \in [Principals -> Member], NEW c \in CompanionStates,
         Directly(actor, kind, p, m, c),
         NEW owners,
         owners = {q \in Principals : m[q].status = "ACTIVE" /\ m[q].role = "OWNER"},
         owners # {},
         owners # Owners(space) => actor \in Owners(space)
  PROVE  RoomInv' /\ Decided
<1> DEFINE r == NextRecord(space, kind, p, m, c)
<1>1. Typed /\ space \in Record
  BY DEF RoomInv, Typed
<1>2. /\ space' = r /\ r.revision \in Revisions
      /\ origin' = [how |-> "store", who |-> actor, via |-> None]
      /\ UNCHANGED <<channels, invitation, request, now, joiners>>
  BY DEF Directly, Commit
<1>3. /\ r \in Record /\ r # None /\ r.members = m /\ r.revision = space.revision + 1
      /\ r.generation <= r.revision + 1
  BY <1>1, <1>2, NextTyped
<1>4. PICK n \in Record : n = r
  BY <1>3
<1> HIDE DEF r
<1>5. Owners(n) = owners
  BY <1>3, <1>4, OwnersOf
<1>6. space.revision \in Int
  BY <1>1, BoundsAre DEF Record, Revisions, Bounds
<1>7. /\ n # None /\ n.generation <= n.revision + 1 /\ space' = n
      /\ space.revision < n.revision
  BY <1>2, <1>3, <1>4, <1>6
<1>8. RoomInv'
  BY <1>2, <1>5, <1>7, Commits
<1>9. QED
  BY <1>2, <1>5, <1>7, <1>8 DEF Decided

\* A manager who may manage an owner is one.
LEMMA ManagedBy ==
  ASSUME NEW r, NEW a, NEW p, MayManage(r, a, p)
  PROVE  /\ a \in Active(r)
         /\ r.members[a].role = "OWNER" => a \in Owners(r)
         /\ p \in Owners(r) => a \in Owners(r)
BY DEF MayManage, Managers, Owners, Active

\* The changes that one person may make to another's membership, or to the companion.
Changes(a, p) ==
  \/ \E role \in Roles, device \in AnyDevice : AddMember(a, p, role, device)
  \/ \E role \in Roles : ChangeRole(a, p, role)
  \/ EndMembership(a, p, "LEAVE", "LEFT")
  \/ EndMembership(a, p, "REVOKE", "REVOKED")
  \/ EndMembership(a, p, "REMOVE", "REMOVED")
  \/ \E device \in AnyDevice : Rebind(a, p, device)
  \/ \E c \in CompanionStates : a = p /\ UpdateCompanion(a, c)

\* There are no other direct changes.
LEMMA DirectChanges == Administration => \E a, p \in Principals : Changes(a, p)
BY FamilyAssumption DEF Administration, Changes, AnyDevice

\* The administration of the space store.
LEMMA Administers ==
  ASSUME RoomInv, NEW a \in Principals, NEW p \in Principals,
         Changes(a, p)
  PROVE  RoomInv' /\ Decided
<1>1. Typed /\ space # None /\ space \in Record /\ Owners(space) # {}
  BY DEF RoomInv, Typed, Owned, Changes, AddMember, ChangeRole, EndMembership, Rebind,
         UpdateCompanion
<1>2. PICK s \in Record : s = space
  BY <1>1
<1>3. s.companion \in CompanionStates /\ s.members \in [Principals -> Member]
  BY DEF Record
<1>4. ASSUME NEW kind \in Transitions, NEW m \in [Principals -> Member],
             NEW c \in CompanionStates,
             \A q \in Principals \ {p} : /\ m[q].role = s.members[q].role
                                         /\ m[q].status = s.members[q].status,
             Directly(a, kind, p, m, c),
             p \in Owners(s) => \/ a \in Owners(s) /\ Owners(s) # {p}
                                \/ m[p].status = "ACTIVE" /\ m[p].role = "OWNER",
             m[p].status = "ACTIVE" /\ m[p].role = "OWNER" => a \in Owners(s) \/ p \in Owners(s)
      PROVE  RoomInv' /\ Decided
  <2> DEFINE owners == {q \in Principals : m[q].status = "ACTIVE" /\ m[q].role = "OWNER"}
  <2>1. /\ owners \ {p} = Owners(s) \ {p}
        /\ p \in owners <=> m[p].status = "ACTIVE" /\ m[p].role = "OWNER"
    BY <1>4, OwnersOf
  <2> HIDE DEF owners
  <2>2. owners # {}
    BY <1>1, <1>2, <1>4, <2>1
  <2>3. owners # Owners(s) => a \in Owners(s)
    <3>1. (p \in owners <=> p \in Owners(s)) => owners = Owners(s)
      BY <2>1
    <3>2. QED
      BY <1>4, <2>1, <3>1
  <2>4. owners # Owners(space) => a \in Owners(space)
    BY <1>2, <2>3
  <2>5. owners = {q \in Principals : m[q].status = "ACTIVE" /\ m[q].role = "OWNER"}
    BY DEF owners
  <2>6. Directly(a, kind, p, m, c)
    BY <1>4
  <2>7. QED
    BY <1>1, <2>2, <2>4, <2>5, <2>6, Directs
<1>5. ASSUME NEW role \in Roles, NEW device \in AnyDevice, AddMember(a, p, role, device)
      PROVE  RoomInv' /\ Decided
  <2> DEFINE m == WithMember(s, p, role, device)
  <2>1. /\ Directly(a, "add", p, m, s.companion)
        /\ MayManage(s, a, p) /\ p \notin Active(s)
        /\ role = "OWNER" => s.members[a].role = "OWNER"
    BY <1>2, <1>5 DEF AddMember
  <2>2. /\ m \in [Principals -> Member] /\ m[p].role = role /\ m[p].status = "ACTIVE"
        /\ \A q \in Principals \ {p} : m[q] = s.members[q]
    BY <1>1, MemberChanges
  <2>3. p \notin Owners(s) /\ (role = "OWNER" => a \in Owners(s))
    BY <2>1, ManagedBy DEF Owners
  <2>4. "add" \in Transitions
    BY DEF Transitions
  <2> HIDE DEF m
  <2>5. QED
    BY <1>3, <1>4, <2>1, <2>2, <2>3, <2>4
<1>6. ASSUME NEW kind \in {"LEAVE", "REVOKE", "REMOVE"},
             NEW status \in {"LEFT", "REVOKED", "REMOVED"},
             EndMembership(a, p, kind, status)
      PROVE  RoomInv' /\ Decided
  <2> DEFINE m == WithStatus(s, p, status)
  <2>1. /\ Directly(a, kind, p, m, s.companion)
        /\ a = p \/ MayManage(s, a, p)
        /\ Owners(s) # {p}
    BY <1>2, <1>6 DEF EndMembership
  <2>2. /\ m \in [Principals -> Member] /\ m[p].status # "ACTIVE"
        /\ \A q \in Principals \ {p} : m[q] = s.members[q]
    BY <1>1, MemberChanges
  <2>3. p \in Owners(s) => a \in Owners(s)
    BY <2>1, ManagedBy
  <2>4. kind \in Transitions
    BY DEF Transitions
  <2> HIDE DEF m
  <2>5. /\ \A q \in Principals \ {p} : /\ m[q].role = s.members[q].role
                                         /\ m[q].status = s.members[q].status
        /\ p \in Owners(s) => a \in Owners(s) /\ Owners(s) # {p}
        /\ m[p].status = "ACTIVE" /\ m[p].role = "OWNER" => a \in Owners(s)
        /\ s.companion \in CompanionStates
    BY <1>3, <2>1, <2>2, <2>3
  <2>6. QED
    BY <1>4, <2>1, <2>2, <2>4, <2>5
<1>7. ASSUME NEW role \in Roles, ChangeRole(a, p, role) PROVE RoomInv' /\ Decided
  <2> DEFINE m == [s.members EXCEPT ![p].role = role]
  <2>1. /\ Directly(a, "CHANGE_ROLE", p, m, s.companion)
        /\ MayManage(s, a, p) /\ s.members[p].role # role
        /\ role = "OWNER" => s.members[a].role = "OWNER"
        /\ s.members[p].role = "OWNER" => Cardinality(Owners(s)) # 1
    BY <1>2, <1>7 DEF ChangeRole
  <2>2. /\ m \in [Principals -> Member] /\ m[p].role = role
        /\ \A q \in Principals \ {p} : m[q] = s.members[q]
    BY <1>1, MemberChanges
  <2>3. /\ role = "OWNER" => a \in Owners(s)
        /\ p \in Owners(s) => a \in Owners(s) /\ Owners(s) # {p}
    <3>1. p \in Owners(s) => s.members[p].role = "OWNER"
      BY DEF Owners
    <3>2. Owners(s) = {p} => Cardinality(Owners(s)) = 1
      BY FS_Singleton
    <3>3. QED
      BY <2>1, <3>1, <3>2, ManagedBy
  <2>4. "CHANGE_ROLE" \in Transitions
    BY DEF Transitions
  <2> HIDE DEF m
  <2>5. /\ \A q \in Principals \ {p} : /\ m[q].role = s.members[q].role
                                         /\ m[q].status = s.members[q].status
        /\ p \in Owners(s) => a \in Owners(s) /\ Owners(s) # {p}
        /\ m[p].status = "ACTIVE" /\ m[p].role = "OWNER" => a \in Owners(s)
        /\ s.companion \in CompanionStates
    BY <1>3, <2>1, <2>2, <2>3
  <2>6. QED
    BY <1>4, <2>1, <2>2, <2>4, <2>5
<1>8. ASSUME NEW device \in AnyDevice, Rebind(a, p, device) PROVE RoomInv' /\ Decided
  <2> DEFINE m == [s.members EXCEPT ![p].bound = device]
  <2>1. Directly(a, "REBIND", p, m, s.companion)
    BY <1>2, <1>8 DEF Rebind
  <2>2. /\ m \in [Principals -> Member]
        /\ \A q \in Principals : /\ m[q].role = s.members[q].role
                                 /\ m[q].status = s.members[q].status
    BY <1>1, MemberChanges
  <2>3. "REBIND" \in Transitions
    BY DEF Transitions
  <2> HIDE DEF m
  <2>4. p \in Owners(s) <=> m[p].status = "ACTIVE" /\ m[p].role = "OWNER"
    BY <2>2, OwnersOf
  <2>5. QED
    BY <1>3, <1>4, <2>1, <2>2, <2>3, <2>4
<1>9. ASSUME NEW c \in CompanionStates, a = p, UpdateCompanion(a, c)
      PROVE  RoomInv' /\ Decided
  <2>1. Directly(a, "companion", p, s.members, c) /\ a \in Owners(s)
    BY <1>2, <1>9 DEF UpdateCompanion
  <2>2. p \in Owners(s) <=> s.members[p].status = "ACTIVE" /\ s.members[p].role = "OWNER"
    BY OwnersOf
  <2>3. "companion" \in Transitions
    BY DEF Transitions
  <2>4. QED
    BY <1>3, <1>4, <1>9, <2>1, <2>2, <2>3
<1>10. QED
  BY <1>5, <1>6, <1>7, <1>8, <1>9 DEF Changes

-----------------------------------------------------------------------------
(* The invariant and what follows from it.                                 *)

\* A Family that does not exist yet is in order.
LEMMA InitRoom == Init => RoomInv
<1> SUFFICES ASSUME Init PROVE RoomInv
  OBVIOUS
<1>1. Typed
  BY BoundsAre DEF Init, Typed, Times, Bounds
<1>2. Owned /\ Lineage /\ Requests
  BY DEF Init, Owned, Lineage, Requests
<1>3. \A i \in Invitations : Used(i) /\ Shown(i)
  BY DEF Init, Used, Shown
<1>4. QED
  BY <1>1, <1>2, <1>3 DEF RoomInv

\* A step that changes nothing.
LEMMA Stutters == ASSUME RoomInv, UNCHANGED vars PROVE RoomInv'
BY DEF RoomInv, vars, Typed, Owned, Owners, Active, Lineage, After, Requests, Sound, Granted,
       Used, Shown

\* Whatever is interrupted, sent again or administered in between.
LEMMA StepRoom == RoomInv /\ [Next]_vars => RoomInv' /\ [Decided]_vars
<1> SUFFICES ASSUME RoomInv, [Next]_vars PROVE RoomInv' /\ [Decided]_vars
  OBVIOUS
<1>1. CASE UNCHANGED vars
  BY <1>1, Stutters
<1>2. CASE Lifecycle
  <2>1. CASE CreateSpace
    BY <2>1, Creates
  <2>2. CASE HostAgain
    <3>1. Host \in Principals
      BY FamilyAssumption
    <3>2. QED
      BY <2>2, <3>1, AsksAgain
  <2>3. ASSUME NEW p \in Principals,
               \/ Leave(p) \/ LeaveAgain(p)
               \/ \E i \in Invitations : Join(p, i) \/ JoinAgain(p, i)
               \/ FormChannel(p) \/ Accept(p) \/ Interrupt(p)
        PROVE  RoomInv' /\ Decided
    BY <2>3, Leaves, Joins, AsksAgain, Forms, Accepts
  <2>4. QED
    BY <1>2, <2>1, <2>2, <2>3 DEF Lifecycle
<1>3. CASE Administration
  <2>1. PICK a, p \in Principals : Changes(a, p)
    BY <1>3, DirectChanges
  <2>2. QED
    BY <2>1, Administers
<1>4. CASE Inviting
  BY <1>4, Invites
<1>5. CASE Tick
  BY <1>5, Ticks
<1>6. QED
  BY <1>1, <1>2, <1>3, <1>4, <1>5 DEF Next

\* The records, channels, requests and invitations of a Family stay in order.
THEOREM RoomInvariant == Spec => []RoomInv
<1>1. RoomInv /\ [Next]_vars => RoomInv'
  BY StepRoom
<1>2. QED
  BY <1>1, InitRoom, PTL DEF Spec

\* Two channels are never of one membership generation (materializeConversationChannel).
THEOREM GenerationsHaveOneSegment == Spec => []OneSegmentPerGeneration
<1>1. RoomInv => OneSegmentPerGeneration
  <2> SUFFICES ASSUME RoomInv, NEW n \in Revisions, NEW k \in Revisions, n # k,
                      channels[n] # None, channels[k] # None,
                      channels[n].generation = channels[k].generation
               PROVE  FALSE
    BY DEF OneSegmentPerGeneration
  <2>1. \A j \in Revisions : channels[j] # None =>
          channels[j].revision \in Int /\ channels[j].generation \in Int
    BY BoundsAre DEF RoomInv, Typed, Channel, Revisions, Bounds
  <2>2. \A j \in Revisions \ {0} : channels[j] # None =>
          channels[j].revision = j /\ After(j, channels[j].generation)
    BY DEF RoomInv, Lineage
  <2>3. channels[0] # None => channels[0].revision \in Int /\ channels[0].generation \in Int
    BY <2>1, BoundsAre DEF Bounds
  <2>4. n \in Int /\ k \in Int
    BY BoundsAre DEF Revisions, Bounds
  <2>5. CASE n # 0 /\ k # 0
    BY <2>1, <2>2, <2>3, <2>4, <2>5 DEF After
  <2>6. CASE n = 0
    BY <2>1, <2>2, <2>3, <2>4, <2>6 DEF After
  <2>7. CASE k = 0
    BY <2>1, <2>2, <2>3, <2>4, <2>7 DEF After
  <2>8. QED
    BY <2>5, <2>6, <2>7
<1>2. QED
  BY <1>1, RoomInvariant, PTL

\* An invitation admits one person at most, and an accepted one has its channel
\* (acceptFamilyInvitation).
THEOREM InvitationsStayHonest == Spec => []InvitationsHonest
<1>1. RoomInv => InvitationsHonest
  <2> SUFFICES ASSUME RoomInv, NEW i \in Invitations
               PROVE  Cardinality(joiners[i]) <= 1 /\ Shown(i)
    BY DEF InvitationsHonest, Shown
  <2>1. CASE joiners[i] = {}
    BY <2>1, FS_EmptySet DEF RoomInv
  <2>2. ASSUME NEW p \in Principals, joiners[i] = {p}
        PROVE  Cardinality(joiners[i]) <= 1 /\ Shown(i)
    <3>1. Cardinality({p}) = 1
      BY FS_Singleton
    <3>2. QED
      BY <2>2, <3>1 DEF RoomInv
  <2>3. QED
    BY <2>1, <2>2 DEF RoomInv, Used
<1>2. QED
  BY <1>1, RoomInvariant, PTL

\* Who owns a Family is decided by an owner, and an owner remains (family-space-store).
THEOREM OwnersDecideAlways == Spec => OwnersDecide
<1>1. RoomInv /\ [Next]_vars => [Decided]_vars
  BY StepRoom
<1>2. Spec => [][Decided]_vars
  BY <1>1, RoomInvariant, PTL DEF Spec
<1>3. QED
  BY <1>2 DEF OwnersDecide, Decided

-----------------------------------------------------------------------------
(* An operation that was interrupted can go on.                            *)

\* A record that was once: of an earlier revision, or the current one itself.
Past(r) == r.revision <= space.revision /\ (r.revision = space.revision => r = space)

\* Requests and channels are of past records, and where a channel was formed no
\* two members shared a device.
Behind ==
  /\ \A p \in Principals : request[p] # None => space # None /\ Past(request[p].record)
  /\ \A n \in Revisions : channels[n] # None =>
       /\ space # None /\ channels[n].revision <= space.revision
       /\ channels[n].revision = space.revision => Distinct(space)

\* As long as nobody meddled before the initial channel, the host is recognized
\* and nobody has another one's device.
Unmeddled ==
  space # None /\ channels[0] = None /\ ~meddled =>
    HostKnown /\ \A p \in Principals : space.members[p].bound \in {None, p}

\* What the person who formed the current record needs to send the request again.
CanGoOn ==
  /\ origin.how \in {"leave", "join"} => space # None
  /\ origin.how = "leave" => LeaveRecoverable(origin.who)
  /\ origin.how = "join" => /\ origin.via \in Invitations
                            /\ invitation[origin.via] # None
                            /\ JoinRecoverable(origin.who, origin.via)
                            /\ Distinct(space) \/ Borrowed(origin.who)

\* The invariant of what can go on.
GoingOn == Behind /\ Unmeddled /\ CanGoOn

\* Nor does an invitation's expiry move.
KeepingTerms ==
  /\ Keeping
  /\ \A i \in Invitations : invitation[i] # None =>
       invitation'[i].expires = invitation[i].expires

\* The space store's own changes leave the other stores and the other members
\* alone, and the companion too unless it is what they change.
LEMMA StoreSteps ==
  ASSUME Typed, Administration
  PROVE  /\ UNCHANGED <<channels, invitation, request>> /\ origin'.how = "store"
         /\ space # None /\ space' # None /\ space'.revision = space.revision + 1
         /\ \E a, p \in Principals, kind \in Transitions : \E m \in [Principals -> Member] :
              \E c \in CompanionStates :
                /\ Directly(a, kind, p, m, c)
                /\ \A q \in Principals \ {p} : m[q] = space.members[q]
                /\ kind = "companion" \/ c = space.companion
<1>1. PICK a, p \in Principals : Changes(a, p)
  BY DirectChanges
<1>2. space # None
  BY <1>1 DEF Changes, AddMember, ChangeRole, EndMembership, Rebind, UpdateCompanion
<1>3. PICK s \in Record : s = space
  BY <1>2 DEF Typed
<1>4. s.companion \in CompanionStates /\ s.members \in [Principals -> Member]
  BY DEF Record
<1> DEFINE Local(kind, m, c) ==
             /\ Directly(a, kind, p, m, c)
             /\ \A q \in Principals \ {p} : m[q] = s.members[q]
             /\ kind = "companion" \/ c = s.companion
           Somehow == \E kind \in Transitions : \E m \in [Principals -> Member] :
                        \E c \in CompanionStates : Local(kind, m, c)
<1>5. ASSUME NEW role \in Roles, NEW device \in AnyDevice, AddMember(a, p, role, device)
      PROVE  Somehow
  <2> DEFINE m == WithMember(s, p, role, device)
  <2>1. m \in [Principals -> Member] /\ \A q \in Principals \ {p} : m[q] = s.members[q]
    BY MemberChanges
  <2>2. Local("add", m, s.companion)
    BY <1>3, <1>5, <2>1 DEF AddMember
  <2>3. "add" \in Transitions
    BY DEF Transitions
  <2> HIDE DEF m, Local
  <2>4. QED
    BY <1>4, <2>1, <2>2, <2>3
<1>6. ASSUME NEW kind \in {"LEAVE", "REVOKE", "REMOVE"},
             NEW status \in {"LEFT", "REVOKED", "REMOVED"},
             EndMembership(a, p, kind, status)
      PROVE  Somehow
  <2> DEFINE m == WithStatus(s, p, status)
  <2>1. m \in [Principals -> Member] /\ \A q \in Principals \ {p} : m[q] = s.members[q]
    BY MemberChanges
  <2>2. Local(kind, m, s.companion)
    BY <1>3, <1>6, <2>1 DEF EndMembership
  <2>3. kind \in Transitions
    BY DEF Transitions
  <2> HIDE DEF m, Local
  <2>4. QED
    BY <1>4, <2>1, <2>2, <2>3
<1>7. ASSUME NEW role \in Roles, ChangeRole(a, p, role) PROVE Somehow
  <2> DEFINE m == [s.members EXCEPT ![p].role = role]
  <2>1. m \in [Principals -> Member] /\ \A q \in Principals \ {p} : m[q] = s.members[q]
    BY MemberChanges
  <2>2. Local("CHANGE_ROLE", m, s.companion)
    BY <1>3, <1>7, <2>1 DEF ChangeRole
  <2>3. "CHANGE_ROLE" \in Transitions
    BY DEF Transitions
  <2> HIDE DEF m, Local
  <2>4. QED
    BY <1>4, <2>1, <2>2, <2>3
<1>8. ASSUME NEW device \in AnyDevice, Rebind(a, p, device) PROVE Somehow
  <2> DEFINE m == [s.members EXCEPT ![p].bound = device]
  <2>1. m \in [Principals -> Member] /\ \A q \in Principals \ {p} : m[q] = s.members[q]
    BY MemberChanges
  <2>2. Local("REBIND", m, s.companion)
    BY <1>3, <1>8, <2>1 DEF Rebind
  <2>3. "REBIND" \in Transitions
    BY DEF Transitions
  <2> HIDE DEF m, Local
  <2>4. QED
    BY <1>4, <2>1, <2>2, <2>3
<1>9. ASSUME NEW c \in CompanionStates, a = p, UpdateCompanion(a, c) PROVE Somehow
  <2>1. Local("companion", s.members, c)
    BY <1>3, <1>9 DEF UpdateCompanion
  <2>2. "companion" \in Transitions
    BY DEF Transitions
  <2> HIDE DEF Local
  <2>3. QED
    BY <1>4, <2>1, <2>2
<1>10. Somehow
  <2> HIDE DEF Somehow
  <2>1. QED
    BY <1>1, <1>5, <1>6, <1>7, <1>8, <1>9 DEF Changes
<1>11. PICK kind \in Transitions : \E m \in [Principals -> Member] :
         \E c \in CompanionStates : Local(kind, m, c)
  BY <1>10
<1>12. PICK m \in [Principals -> Member], c \in CompanionStates : Local(kind, m, c)
  BY <1>11
<1>13. /\ space' = NextRecord(space, kind, p, m, c)
       /\ NextRecord(space, kind, p, m, c).revision \in Revisions
       /\ origin'.how = "store" /\ UNCHANGED <<channels, invitation, request>>
  BY <1>12 DEF Directly, Commit
<1>14. space' # None /\ space'.revision = space.revision + 1
  BY <1>2, <1>13, NextTyped
<1>15. QED
  BY <1>2, <1>3, <1>10, <1>13, <1>14

\* No step rewrites a channel or the terms of an invitation.
LEMMA StepKeeps == ASSUME RoomInv, [Next]_vars PROVE KeepingTerms
<1>1. Typed
  BY DEF RoomInv
<1>2. CASE UNCHANGED <<channels, invitation>>
  BY <1>2 DEF KeepingTerms, Keeping
<1>3. ASSUME NEW p \in Principals, FormChannel(p) PROVE KeepingTerms
  <2>1. PICK q \in Req : q = request[p] /\ q # None
    BY <1>1, <1>3 DEF FormChannel, Typed
  <2>2. q.name \in Revisions
    BY DEF Req
  <2> DEFINE c == ChannelOf(q.record)
  <2>3. /\ channels[q.name] \in {None, c} /\ invitation' = invitation
        /\ channels' = [channels EXCEPT ![q.name] = c]
    BY <1>3, <2>1 DEF FormChannel
  <2> HIDE DEF c
  <2>4. \A n \in Revisions : channels[n] # None => channels'[n] = channels[n]
    BY <1>1, <2>2, <2>3 DEF Typed
  <2>5. QED
    BY <2>3, <2>4 DEF KeepingTerms, Keeping
<1>4. ASSUME NEW i \in Invitations, NEW t, channels' = channels,
             invitation' = [invitation EXCEPT ![i] = t],
             invitation[i] # None =>
               /\ t # None /\ t.revision = invitation[i].revision
               /\ t.generation = invitation[i].generation /\ t.expires = invitation[i].expires
      PROVE  KeepingTerms
  <2>1. \A j \in Invitations : invitation'[j] = IF j = i THEN t ELSE invitation[j]
    BY <1>1, <1>4 DEF Typed
  <2>2. QED
    BY <1>4, <2>1 DEF KeepingTerms, Keeping
<1>6. ASSUME NEW p \in Principals, Accept(p) PROVE KeepingTerms
  <2>1. PICK q \in Req : q = request[p] /\ q # None
    BY <1>1, <1>6 DEF Accept, Typed
  <2>2. q.at = "accept"
    BY <1>6, <2>1 DEF Accept
  <2>3. Sound(q)
    BY <2>1 DEF RoomInv, Requests
  <2>4. PICK i \in Invitations : i = q.invitation
    BY <2>2, <2>3 DEF Sound, Req
  <2>5. invitation[i] # None
    BY <1>6, <2>1, <2>4 DEF Accept, Acceptable, Pending
  <2> DEFINE t == [invitation[i] EXCEPT !.state = "ACCEPTED", !.accepted = p]
  <2>6. channels' = channels /\ invitation' = [invitation EXCEPT ![i] = t]
    <3>1. invitation' = [invitation EXCEPT ![i].state = "ACCEPTED", ![i].accepted = p]
      BY <1>6, <2>1, <2>4 DEF Accept
    <3>2. QED
      BY <1>1, <1>6, <3>1 DEF Accept, Typed
  <2>7. /\ t # None /\ t.revision = invitation[i].revision
        /\ t.generation = invitation[i].generation /\ t.expires = invitation[i].expires
    <3>1. PICK o \in Terms : o = invitation[i]
      BY <1>1, <2>5 DEF Typed
    <3>2. t = [o EXCEPT !.state = "ACCEPTED", !.accepted = p]
      BY <3>1
    <3>3. t \in Terms /\ t.revision = o.revision /\ t.generation = o.generation /\ t.expires = o.expires
      BY <3>2 DEF Terms
    <3> HIDE DEF t
    <3>4. QED
      BY <3>1, <3>3, NoneAssumption
  <2> HIDE DEF t
  <2>8. QED
    BY <1>4, <2>6, <2>7
<1>7. ASSUME NEW i \in Invitations, NEW m \in Principals, NEW e, Issue(m, i, e)
      PROVE  KeepingTerms
  <2> DEFINE t == [revision |-> space.revision, generation |-> space.generation,
                   inviter |-> m, expires |-> e, accepted |-> None, state |-> "PENDING"]
  <2>1. invitation[i] = None /\ channels' = channels /\ invitation' = [invitation EXCEPT ![i] = t]
    BY <1>7 DEF Issue
  <2> HIDE DEF t
  <2>2. QED
    BY <1>4, <2>1
<1>8. ASSUME NEW i \in Invitations, NEW s \in {"REVOKED", "EXPIRED"}, Pending(i),
             channels' = channels, invitation' = [invitation EXCEPT ![i].state = s]
      PROVE  KeepingTerms
  <2>1. PICK o \in Terms : o = invitation[i]
    BY <1>1, <1>8 DEF Typed, Pending
  <2> DEFINE t == [o EXCEPT !.state = s]
  <2>2. t \in Terms /\ t.revision = o.revision /\ t.generation = o.generation /\ t.expires = o.expires
    BY DEF Terms
  <2>3. invitation' = [invitation EXCEPT ![i] = t]
    BY <1>8, <2>1
  <2> HIDE DEF t
  <2>4. QED
    BY <1>4, <1>8, <2>1, <2>2, <2>3, NoneAssumption
<1>9. CASE Inviting
  <2>1. PICK i \in Invitations :
          \/ \E m \in Principals :
               Revoke(m, i) \/ \E e \in 1..(MaxTime + 1) : Issue(m, i, e)
          \/ Expire(i)
    BY <1>9 DEF Inviting
  <2>2. CASE Expire(i)
    BY <1>8, <2>2 DEF Expire
  <2>3. ASSUME NEW m \in Principals, Revoke(m, i) PROVE KeepingTerms
    BY <1>8, <2>3 DEF Revoke
  <2>4. QED
    BY <1>7, <2>1, <2>2, <2>3
<1>10. CASE Lifecycle
  <2>1. CASE CreateSpace \/ HostAgain
    BY <1>2, <2>1 DEF CreateSpace, HostAgain
  <2>2. ASSUME NEW p \in Principals,
               \/ Leave(p) \/ LeaveAgain(p) \/ Interrupt(p)
               \/ \E i \in Invitations : Join(p, i) \/ JoinAgain(p, i)
        PROVE  KeepingTerms
    BY <1>2, <2>2 DEF Leave, LeaveAgain, Interrupt, Join, JoinAgain
  <2>3. QED
    BY <1>3, <1>6, <1>10, <2>1, <2>2 DEF Lifecycle
<1>11. CASE Administration
  BY <1>1, <1>2, <1>11, StoreSteps
<1>12. CASE Tick \/ UNCHANGED vars
  BY <1>2, <1>12 DEF Tick, vars
<1>13. QED
  BY <1>9, <1>10, <1>11, <1>12 DEF Next

\* The one channel of a record stays the only one of it.
LEMMA GroupKept ==
  ASSUME Keeping, Typed, Typed', Lineage, Lineage', NEW a \in Int, NEW b \in Int, HasGroup(a, b)
  PROVE  HasGroup(a, b)'
<1>1. PICK n \in Revisions : Bound(a, b) = {n} /\ channels[n].companion
  BY DEF HasGroup
<1>2. channels[n] # None /\ channels[n].revision = a /\ channels[n].generation = b
  BY <1>1 DEF Bound
<1>3. channels'[n] = channels[n]
  BY <1>2 DEF Keeping
<1>4. 0 \in Revisions /\ Revisions \subseteq Int
  BY BoundsAre DEF Bounds, Revisions
<1>5. ASSUME NEW k \in Revisions, channels'[k] # None, channels'[k].revision = a, k # n
      PROVE  FALSE
  <2>1. CASE k # 0 /\ n # 0
    BY <1>2, <1>3, <1>5, <2>1 DEF Lineage
  <2>2. CASE k = 0
    BY <1>2, <1>3, <1>4, <1>5, <2>2 DEF Lineage, After
  <2>3. CASE n = 0
    BY <1>2, <1>3, <1>4, <1>5, <2>3 DEF Lineage, After
  <2>4. QED
    BY <2>1, <2>2, <2>3
<1>6. Bound(a, b)' = {n}
  BY <1>2, <1>3, <1>5 DEF Bound
<1>7. QED
  BY <1>1, <1>3, <1>6 DEF HasGroup

\* While the record stays, what its author needs stays.
LEMMA SameRecordGoesOn ==
  ASSUME RoomInv, RoomInv', KeepingTerms, CanGoOn, space' = space, origin' = origin
  PROVE  CanGoOn'
<1>1. Typed /\ Typed' /\ Lineage /\ Lineage' /\ Keeping
  BY DEF RoomInv, KeepingTerms
<1>2. space # None => space.revision - 1 \in Int /\ space.generation - 1 \in Int
  BY <1>1 DEF Typed, Record, Revisions
<1>4. CASE origin.how = "leave"
  <2>1. HasGroup(space.revision - 1, space.generation - 1)'
    BY <1>1, <1>2, <1>4, GroupKept DEF CanGoOn, LeaveRecoverable
  <2>2. QED
    BY <1>4, <2>1 DEF CanGoOn, LeaveRecoverable, SuccessorCanForm, Active, Distinct
<1>5. CASE origin.how = "join"
  <2>1. PICK i \in Invitations : i = origin.via /\ invitation[i] # None
    BY <1>5 DEF CanGoOn
  <2>2. PICK t \in Terms : t = invitation[i]
    BY <1>1, <2>1 DEF Typed
  <2>3. t.revision \in Int /\ t.generation \in Int
    BY DEF Terms, Revisions
  <2>4. JoinRecoverable(origin.who, i)
    BY <1>5, <2>1 DEF CanGoOn
  <2>5. HasGroup(t.revision, t.generation)'
    BY <1>1, <2>2, <2>3, <2>4, GroupKept DEF JoinRecoverable
  <2>6. /\ invitation'[i] # None /\ invitation'[i].revision = t.revision
        /\ invitation'[i].generation = t.generation /\ invitation'[i].expires = t.expires
    BY <2>1, <2>2 DEF KeepingTerms, Keeping
  <2>7. JoinRecoverable(origin.who, i)'
    BY <2>2, <2>4, <2>5, <2>6 DEF JoinRecoverable, Active
  <2>8. QED
    BY <1>5, <2>1, <2>6, <2>7 DEF CanGoOn, Distinct, Borrowed
<1>6. QED
  BY <1>4, <1>5 DEF CanGoOn

\* Each operation leaves what its author needs to send it again.
LEMMA NewRecordGoesOn ==
  ASSUME RoomInv, RoomInv', Behind,
         \/ CreateSpace \/ Administration
         \/ \E p \in Principals : Leave(p) \/ \E i \in Invitations : Join(p, i)
  PROVE  CanGoOn'
<1>1. Typed /\ Typed' /\ Host \in Principals
  BY FamilyAssumption DEF RoomInv
<1>2. CASE CreateSpace
  <2>1. origin'.how = "host"
    BY <1>2 DEF CreateSpace, Commit
  <2>2. QED
    BY <2>1 DEF CanGoOn
<1>3. CASE Administration
  <2>1. origin'.how = "store"
    BY <1>1, <1>3, StoreSteps
  <2>2. QED
    BY <2>1 DEF CanGoOn
<1>4. ASSUME NEW p \in Principals, Leave(p) PROVE CanGoOn'
  <2>1. PICK s \in Record : s = space
    BY <1>1, <1>4 DEF Typed, Leave
  <2>2. s.revision \in Int /\ s.generation \in Int
    BY DEF Record, Revisions
  <2> DEFINE m == WithStatus(s, p, "LEFT")
  <2>3. /\ m[p].status = "LEFT" /\ m[p].bound = s.members[p].bound
        /\ \A q \in Principals \ {p} : m[q] = s.members[q]
    BY <1>1, MemberChanges
  <2> HIDE DEF m
  <2>4. /\ space' = NextRecord(s, "LEAVE", p, m, s.companion)
        /\ origin' = [how |-> "leave", who |-> p, via |-> None]
        /\ channels' = channels
    BY <1>4, <2>1 DEF Leave, Commit, m
  <2>5. /\ space'.members = m /\ space'.companion = s.companion
        /\ space'.transition = "LEAVE" /\ space'.whom = p
        /\ space'.revision - 1 = s.revision /\ space'.generation - 1 = s.generation
    BY <2>2, <2>4 DEF NextRecord
  <2>6. HasGroup(s.revision, s.generation) /\ SuccessorCanForm(s, p) /\ Distinct(s)
    BY <1>4, <2>1 DEF Leave, LeaveReady
  <2>7. HasGroup(space.revision - 1, space.generation - 1)'
    BY <2>4, <2>5, <2>6 DEF HasGroup, Bound
  <2>8. Active(space)' \ {p} = Active(s) \ {p}
    BY <2>3, <2>5 DEF Active
  <2>9. space' # None
    BY <1>4, Leaves
  <2>10. Distinct(space)'
    BY <2>3, <2>5, <2>6 DEF Distinct
  <2>11. QED
    BY <2>3, <2>4, <2>5, <2>6, <2>7, <2>8, <2>9, <2>10
    DEF CanGoOn, LeaveRecoverable, SuccessorCanForm
<1>5. ASSUME NEW p \in Principals, NEW i \in Invitations, Join(p, i) PROVE CanGoOn'
  <2>1. PICK s \in Record : s = space
    BY <1>1, <1>5 DEF Typed, Join
  <2>2. PICK t \in Terms : t = invitation[i] /\ t # None
    BY <1>1, <1>5 DEF Typed, Join, Pending
  <2>3. s.revision \in Int /\ s.generation \in Int
    BY DEF Record, Revisions
  <2> DEFINE m == WithMember(s, p, "MEMBER", p)
  <2>4. /\ m[p] = [role |-> "MEMBER", joined |-> now, bound |-> p, status |-> "ACTIVE"]
        /\ \A q \in Principals \ {p} : m[q] = s.members[q]
    BY DEF WithMember, Record
  <2> HIDE DEF m
  <2>5. /\ space' = NextRecord(s, "add", p, m, s.companion)
        /\ origin' = [how |-> "join", who |-> p, via |-> i]
        /\ channels' = channels /\ invitation' = invitation
    BY <1>5, <2>1 DEF Join, Commit, m
  <2>6. /\ space'.members = m /\ space'.transition = "add" /\ space'.whom = p
        /\ space'.revision = s.revision + 1 /\ space'.generation = s.generation + 1
    BY <2>3, <2>5 DEF NextRecord
  <2>7. /\ HasGroup(t.revision, t.generation) /\ now < t.expires
        /\ s.generation = t.generation /\ s.revision = t.revision
    BY <1>5, <2>1, <2>2 DEF Join, JoinReady
  <2>8. HasGroup(t.revision, t.generation)'
    BY <2>5, <2>7 DEF HasGroup, Bound
  <2>9. p \in Active(space)'
    BY <2>4, <2>6 DEF Active
  <2>10. JoinRecoverable(p, i)'
    BY <2>2, <2>4, <2>5, <2>6, <2>7, <2>8, <2>9 DEF JoinRecoverable
  <2>11. space' # None
    BY <1>5, Joins
  <2>12. Distinct(s)
    <3>1. PICK n \in Revisions : channels[n] # None /\ channels[n].revision = s.revision
      BY <2>7 DEF HasGroup, Bound
    <3>2. QED
      BY <2>1, <3>1 DEF Behind
  <2>13. Distinct(space)' \/ Borrowed(p)'
    <3>1. SUFFICES ASSUME NEW a \in Principals, NEW b \in Principals, a # b, m[a].bound # None,
                          m[a].bound = m[b].bound
                   PROVE  \E q \in Principals \ {p} : m[q].bound = p
      BY <2>6 DEF Distinct, Borrowed
    <3>2. CASE a # p /\ b # p
      BY <2>4, <2>12, <3>1, <3>2 DEF Distinct
    <3>3. CASE a = p \/ b = p
      BY <2>4, <3>1, <3>3
    <3>4. QED
      BY <3>2, <3>3
  <2>14. QED
    BY <2>2, <2>5, <2>10, <2>11, <2>13 DEF CanGoOn
<1>6. QED
  BY <1>2, <1>3, <1>4, <1>5

\* A request sent again, a channel, an acceptance, an invitation and the clock leave the record.
LEMMA OtherStepsKeepRecord ==
  ASSUME [Next]_vars,
         ~CreateSpace, ~Administration,
         \A p \in Principals : ~Leave(p) /\ \A i \in Invitations : ~Join(p, i)
  PROVE  space' = space /\ origin' = origin
BY DEF Next, vars, Lifecycle, HostAgain, LeaveAgain, JoinAgain, FormChannel, Accept, Interrupt,
       Inviting, Issue, Revoke, Expire, Tick

\* What an author needs is kept by every step.
LEMMA StepGoesOn == RoomInv /\ RoomInv' /\ Behind /\ CanGoOn /\ [Next]_vars => CanGoOn'
<1> SUFFICES ASSUME RoomInv, RoomInv', Behind, CanGoOn, [Next]_vars PROVE CanGoOn'
  OBVIOUS
<1>1. CASE \/ CreateSpace \/ Administration
           \/ \E p \in Principals : Leave(p) \/ \E i \in Invitations : Join(p, i)
  BY <1>1, NewRecordGoesOn
<1>2. CASE ~(\/ CreateSpace \/ Administration
             \/ \E p \in Principals : Leave(p) \/ \E i \in Invitations : Join(p, i))
  BY <1>2, OtherStepsKeepRecord, StepKeeps, SameRecordGoesOn
<1>3. QED
  BY <1>1, <1>2

\* A step commits the record after the current one, or none; a request made in it
\* is for the current record.
LEMMA StepRecords ==
  ASSUME RoomInv, RoomInv', [Next]_vars
  PROVE  /\ \/ space' = space
            \/ /\ space' # None /\ channels' = channels
               /\ space # None => space'.revision = space.revision + 1
         /\ \A p \in Principals : request'[p] # None =>
              \/ request[p] # None /\ request'[p].record = request[p].record
              \/ space' # None /\ request'[p].record = space'
<1>1. Typed /\ Typed' /\ Host \in Principals
  BY FamilyAssumption DEF RoomInv
<1> DEFINE Moves == \/ space' = space
                    \/ /\ space' # None /\ channels' = channels
                       /\ space # None => space'.revision = space.revision + 1
           Asked(p) == request'[p] # None =>
                         \/ request[p] # None /\ request'[p].record = request[p].record
                         \/ space' # None /\ request'[p].record = space'
<1>2. ASSUME NEW p \in Principals, NEW q, request' = [request EXCEPT ![p] = q],
             \/ q = None
             \/ request[p] # None /\ q.record = request[p].record
             \/ space' # None /\ q.record = space'
      PROVE  \A o \in Principals : Asked(o)
  BY <1>1, <1>2 DEF Typed
<1>3. CASE CreateSpace
  <2> DEFINE q == Materialize(space', 0, None)
  <2>1. request' = [request EXCEPT ![Host] = q] /\ q.record = space'
    BY <1>3 DEF CreateSpace, Commit, Materialize
  <2>2. space' # None /\ space = None /\ channels' = channels
    BY <1>3, Creates DEF CreateSpace
  <2> HIDE DEF q
  <2>3. QED
    BY <1>1, <1>2, <2>1, <2>2
<1>4. CASE HostAgain
  <2> DEFINE q == Materialize(space, 0, None)
  <2>1. /\ request' = [request EXCEPT ![Host] = q] /\ q.record = space
        /\ space' = space /\ space # None
    BY <1>4 DEF HostAgain, Materialize
  <2> HIDE DEF q
  <2>2. QED
    BY <1>1, <1>2, <2>1
<1>5. ASSUME NEW p \in Principals,
             LeaveAgain(p) \/ \E i \in Invitations : JoinAgain(p, i)
      PROVE  Moves /\ \A o \in Principals : Asked(o)
  <2>1. PICK i : request' = [request EXCEPT ![p] = Materialize(space, space.revision, i)]
    BY <1>5 DEF LeaveAgain, JoinAgain
  <2> DEFINE q == Materialize(space, space.revision, i)
  <2>2. /\ request' = [request EXCEPT ![p] = q] /\ q.record = space
        /\ space' = space /\ space # None
    BY <1>5, <2>1 DEF LeaveAgain, JoinAgain, Materialize
  <2> HIDE DEF q
  <2>3. QED
    BY <1>2, <2>2
<1>6. ASSUME NEW p \in Principals, Leave(p) \/ \E i \in Invitations : Join(p, i)
      PROVE  Moves /\ \A o \in Principals : Asked(o)
  <2>1. PICK i : request' = [request EXCEPT ![p] = Materialize(space', space'.revision, i)]
    BY <1>6 DEF Leave, Join, Commit
  <2> DEFINE q == Materialize(space', space'.revision, i)
  <2>2. request' = [request EXCEPT ![p] = q] /\ q.record = space'
    BY <2>1 DEF Materialize
  <2> HIDE DEF q
  <2>3. PICK k, w, m, c : space' = NextRecord(space, k, w, m, c)
    BY <1>6, Zenon DEF Leave, Join, Commit
  <2>4. space # None /\ space'.revision = space.revision + 1 /\ channels' = channels
    <3>1. space'.revision = space.revision + 1
      BY <2>3 DEF NextRecord
    <3>2. QED
      BY <1>6, <3>1 DEF Leave, Join
  <2>5. space' # None
    BY <1>6, Leaves, Joins
  <2>6. QED
    BY <1>2, <2>2, <2>4, <2>5
<1>7. ASSUME NEW p \in Principals, FormChannel(p) \/ Accept(p) \/ Interrupt(p)
      PROVE  Moves /\ \A o \in Principals : Asked(o)
  <2>1. PICK r \in Req : r = request[p] /\ r # None
    BY <1>1, <1>7 DEF FormChannel, Accept, Interrupt, Typed
  <2> DEFINE n == [r EXCEPT !.at = "accept"]
  <2>2. n.record = r.record
    BY DEF Req
  <2>3. space' = space /\ (request' = [request EXCEPT ![p] = None]
                           \/ request' = [request EXCEPT ![p] = n])
    BY <1>7, <2>1 DEF FormChannel, Accept, Interrupt
  <2> HIDE DEF n
  <2>4. QED
    BY <1>2, <2>1, <2>2, <2>3
<1>8. CASE Administration
  BY <1>1, <1>8, StoreSteps
<1>9. CASE UNCHANGED <<space, request>>
  BY <1>9
<1>10. CASE Lifecycle
  <2> HIDE DEF Moves, Asked
  <2>1. QED
    BY <1>3, <1>4, <1>5, <1>6, <1>7, <1>10 DEF Lifecycle, Moves, Asked
<1>11. CASE Inviting \/ Tick \/ UNCHANGED vars
  BY <1>9, <1>11 DEF Inviting, Issue, Revoke, Expire, Tick, vars
<1>12. QED
  BY <1>8, <1>10, <1>11 DEF Next

\* A channel that a step forms is of a past record without a shared device.
LEMMA StepChannels ==
  ASSUME RoomInv, Behind, [Next]_vars, NEW n \in Revisions, channels'[n] # None
  PROVE  \/ channels'[n] = channels[n]
         \/ /\ space' = space /\ space # None
            /\ channels'[n].revision <= space.revision
            /\ channels'[n].revision = space.revision => Distinct(space)
<1>1. Typed
  BY DEF RoomInv
<1>2. CASE channels' = channels
  BY <1>2
<1>3. ASSUME NEW p \in Principals, FormChannel(p)
      PROVE  \/ channels'[n] = channels[n]
             \/ /\ space' = space /\ space # None
                /\ channels'[n].revision <= space.revision
                /\ channels'[n].revision = space.revision => Distinct(space)
  <2>1. PICK q \in Req : q = request[p] /\ q # None
    BY <1>1, <1>3 DEF FormChannel, Typed
  <2>2. /\ Distinct(q.record) /\ q.name \in Revisions /\ space' = space
        /\ channels' = [channels EXCEPT ![q.name] = ChannelOf(q.record)]
    BY <1>3, <2>1 DEF FormChannel, Req
  <2>3. space # None /\ Past(q.record)
    BY <2>1 DEF Behind
  <2>4. CASE n = q.name
    <3>1. channels'[n] = ChannelOf(q.record)
      BY <1>1, <2>2, <2>4 DEF Typed
    <3>2. channels'[n].revision = q.record.revision
      BY <3>1 DEF ChannelOf
    <3>3. QED
      BY <2>2, <2>3, <3>2 DEF Past
  <2>5. CASE n # q.name
    BY <1>1, <2>2, <2>5 DEF Typed
  <2>6. QED
    BY <2>4, <2>5
<1>4. CASE Administration
  BY <1>1, <1>2, <1>4, StoreSteps
<1>5. CASE Lifecycle
  <2>1. CASE \E p \in Principals : FormChannel(p)
    BY <1>3, <2>1
  <2>2. CASE ~\E p \in Principals : FormChannel(p)
    BY <1>2, <1>5, <2>2
    DEF Lifecycle, CreateSpace, HostAgain, Leave, LeaveAgain, Join, JoinAgain, Accept, Interrupt
  <2>3. QED
    BY <2>1, <2>2
<1>6. CASE Inviting \/ Tick \/ UNCHANGED vars
  BY <1>2, <1>6 DEF Inviting, Issue, Revoke, Expire, Tick, vars
<1>7. QED
  BY <1>4, <1>5, <1>6 DEF Next

\* Requests and channels stay behind the record.
LEMMA StepBehind == RoomInv /\ RoomInv' /\ Behind /\ [Next]_vars => Behind'
<1> SUFFICES ASSUME RoomInv, RoomInv', Behind, [Next]_vars PROVE Behind'
  OBVIOUS
<1>1. /\ \/ space' = space
         \/ /\ space' # None /\ channels' = channels
            /\ space # None => space'.revision = space.revision + 1
      /\ \A p \in Principals : request'[p] # None =>
           \/ request[p] # None /\ request'[p].record = request[p].record
           \/ space' # None /\ request'[p].record = space'
  BY StepRecords
<1>2. /\ Typed /\ Typed' /\ Revisions \subseteq Int
      /\ space # None => space.revision \in Int
      /\ space' # None => space'.revision \in Int
  BY BoundsAre DEF RoomInv, Typed, Record, Bounds, Revisions
<1>3. ASSUME NEW p \in Principals, request'[p] # None
      PROVE  space' # None /\ Past(request[p].record)'
  <2>1. CASE space' # None /\ request'[p].record = space'
    BY <1>2, <2>1 DEF Past
  <2>2. CASE request[p] # None /\ request'[p].record = request[p].record
    <3>1. space # None /\ Past(request[p].record)
      BY <2>2 DEF Behind
    <3>2. request[p].record.revision \in Int
      BY <1>2, <2>2 DEF Typed, Req, Record
    <3>3. QED
      BY <1>1, <1>2, <2>2, <3>1, <3>2 DEF Past
  <2>3. QED
    BY <1>1, <1>3, <2>1, <2>2
<1>4. ASSUME NEW n \in Revisions, channels'[n] # None
      PROVE  /\ space' # None /\ channels'[n].revision <= space'.revision
             /\ channels'[n].revision = space'.revision => Distinct(space)'
  <2>1. CASE /\ space' = space /\ space # None
             /\ channels'[n].revision <= space.revision
             /\ channels'[n].revision = space.revision => Distinct(space)
    BY <2>1 DEF Distinct
  <2>2. CASE channels'[n] = channels[n]
    <3>1. /\ space # None /\ channels[n].revision <= space.revision
          /\ channels[n].revision = space.revision => Distinct(space)
      BY <1>4, <2>2 DEF Behind
    <3>2. channels[n].revision \in Int
      BY <1>2, <1>4, <2>2 DEF Typed, Channel
    <3>3. QED
      BY <1>1, <1>2, <2>2, <3>1, <3>2 DEF Distinct
  <2>3. QED
    BY <1>4, <2>1, <2>2, StepChannels
<1>5. QED
  BY <1>3, <1>4 DEF Behind

\* Until the initial channel is there nothing but a direct change moves the record,
\* and what it may not touch is what meddled watches.
LEMMA StepUnmeddled == RoomInv /\ RoomInv' /\ Unmeddled /\ [Next]_vars => Unmeddled'
<1> SUFFICES ASSUME RoomInv, RoomInv', Unmeddled, [Next]_vars, space' # None,
                    channels'[0] = None, ~meddled'
             PROVE  HostKnown' /\ \A p \in Principals : space'.members[p].bound \in {None, p}
  BY DEF Unmeddled
<1>1. Typed /\ Typed' /\ Lineage /\ Host \in Principals /\ 0 \in Revisions
  BY FamilyAssumption, BoundsAre DEF RoomInv, Bounds
<1>2. channels[0] = None
  BY <1>1, StepKeeps DEF KeepingTerms, Keeping
<1>3. ASSUME NEW a, NEW b, HasGroup(a, b) PROVE FALSE
  <2>1. PICK n \in Revisions : channels[n] # None
    BY <1>3 DEF HasGroup, Bound
  <2>2. QED
    BY <1>2, <2>1 DEF RoomInv, Lineage, After
<1>4. CASE space' = space /\ meddled' = meddled
  BY <1>2, <1>4 DEF Unmeddled, HostKnown, Owners, Active
<1>5. CASE CreateSpace
  <2>1. /\ space'.companion = "ACTIVE"
        /\ space'.members = [p \in Principals |->
               IF p = Host THEN [role |-> "OWNER", joined |-> now, bound |-> Host,
                                 status |-> "ACTIVE"] ELSE Stranger]
    BY <1>5 DEF CreateSpace, Commit
  <2>2. QED
    BY <1>1, <2>1 DEF HostKnown, Owners, Active, Stranger
<1>6. CASE Administration
  <2>1. PICK a, p \in Principals, kind \in Transitions : \E m \in [Principals -> Member] :
          \E c \in CompanionStates :
            /\ Directly(a, kind, p, m, c)
            /\ \A q \in Principals \ {p} : m[q] = space.members[q]
            /\ kind = "companion" \/ c = space.companion
    BY <1>1, <1>6, StoreSteps
  <2>2. PICK m \in [Principals -> Member], c \in CompanionStates :
            /\ Directly(a, kind, p, m, c)
            /\ \A q \in Principals \ {p} : m[q] = space.members[q]
            /\ kind = "companion" \/ c = space.companion
    BY <2>1
  <2>3. space'.members = m /\ space'.companion = c
    BY <2>2 DEF Directly, Commit, NextRecord
  <2>4. ~meddled /\ kind # "companion" /\ p # Host /\ m[p].bound \in {None, p}
    BY <1>2, <2>2 DEF Directly, Meddles
  <2>5. space # None
    BY <1>1, <1>6, StoreSteps
  <2>6. HostKnown /\ \A q \in Principals : space.members[q].bound \in {None, q}
    BY <1>2, <2>4, <2>5 DEF Unmeddled
  <2>7. \A q \in Principals : m[q].bound \in {None, q}
    BY <2>2, <2>4, <2>6
  <2>8. m[Host] = space.members[Host]
    BY <1>1, <2>2, <2>4
  <2>9. QED
    BY <1>1, <2>2, <2>3, <2>4, <2>6, <2>7, <2>8 DEF HostKnown, Owners, Active
<1>7. CASE Lifecycle
  <2>1. CASE \E p \in Principals : Leave(p) \/ \E i \in Invitations : Join(p, i)
    BY <1>3, <2>1 DEF Leave, LeaveReady, Join, JoinReady
  <2>2. CASE ~\E p \in Principals : Leave(p) \/ \E i \in Invitations : Join(p, i)
    BY <1>4, <1>5, <1>7, <2>2
    DEF Lifecycle, HostAgain, LeaveAgain, JoinAgain, FormChannel, Accept, Interrupt
  <2>3. QED
    BY <2>1, <2>2
<1>8. CASE Inviting \/ Tick \/ UNCHANGED vars
  BY <1>4, <1>8 DEF Inviting, Issue, Revoke, Expire, Tick, vars
<1>9. QED
  BY <1>6, <1>7, <1>8 DEF Next

\* After a JOIN or a LEAVE that was interrupted the same request can go on, a JOIN unless its
\* invitation was ended or its device was another member's; and until the initial channel is
\* there HOST can go on, unless a direct change took away what it is recognized by (the
\* retries of family-host-runtime, family-join-runtime and family-membership-runtime).
THEOREM RoomContinuesAlways == Spec => []RoomContinues
<1>1. Init => GoingOn
  BY DEF Init, GoingOn, Behind, Unmeddled, CanGoOn
<1>2. RoomInv /\ RoomInv' /\ GoingOn /\ [Next]_vars => GoingOn'
  BY StepBehind, StepUnmeddled, StepGoesOn DEF GoingOn
<1>3. Spec => []GoingOn
  BY <1>1, <1>2, RoomInvariant, PTL DEF Spec
<1>4. RoomInv /\ GoingOn => RoomContinues
  <2> SUFFICES ASSUME RoomInv, GoingOn, space # None PROVE RoomContinues
    BY DEF RoomContinues
  <2>1. ASSUME Bound(space.revision, space.generation) = {}, origin.how = "join"
        PROVE  \/ /\ Pending(origin.via) /\ Distinct(space)
                  /\ JoinRecoverable(origin.who, origin.via)
               \/ Ended(origin.via)
               \/ Borrowed(origin.who)
    <3>1. /\ origin.via \in Invitations /\ invitation[origin.via] # None
          /\ JoinRecoverable(origin.who, origin.via)
          /\ Distinct(space) \/ Borrowed(origin.who)
      BY <2>1 DEF GoingOn, CanGoOn
    <3>2. invitation[origin.via] \in Terms
      BY <3>1 DEF RoomInv, Typed
    <3>3. invitation[origin.via].state # "ACCEPTED"
      <4>1. SUFFICES ASSUME invitation[origin.via].state = "ACCEPTED" PROVE FALSE
        OBVIOUS
      <4>2. PICK n \in Revisions : /\ channels[n] # None
                                   /\ channels[n].revision = space.revision
                                   /\ channels[n].generation = space.generation
        BY <3>1, <4>1 DEF RoomInv, Shown, JoinRecoverable
      <4>3. QED
        BY <2>1, <4>2 DEF Bound
    <3>4. QED
      BY <3>1, <3>2, <3>3 DEF Terms, Pending, Ended
  <2>2. ASSUME channels[0] = None PROVE (HostKnown /\ Distinct(space)) \/ meddled
    <3>1. CASE ~meddled
      <4>1. HostKnown /\ \A p \in Principals : space.members[p].bound \in {None, p}
        BY <2>2, <3>1 DEF GoingOn, Unmeddled
      <4>2. QED
        BY <4>1, FamilyAssumption DEF Distinct
    <3>2. QED
      BY <3>1
  <2>3. ASSUME origin.how = "leave" PROVE LeaveRecoverable(origin.who)
    BY <2>3 DEF GoingOn, CanGoOn
  <2>4. QED
    BY <2>1, <2>2, <2>3 DEF RoomContinues
<1>5. QED
  BY <1>3, <1>4, RoomInvariant, PTL
=============================================================================
