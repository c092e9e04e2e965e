----------------------------- MODULE FamilyRoom -----------------------------
(***************************************************************************)
(* One Family Space and its room: the membership record, the invitations   *)
(* into it and the GROUP conversation channels that follow its             *)
(* generations.  HOST, JOIN and LEAVE each change two or three stores, one *)
(* after another, and may stop in between; the same request, sent again,   *)
(* has to find where it stopped.  A store's own write is one step here     *)
(* (ConversationStore has its file operations), and a record hash is the   *)
(* revision of the record, which is unique because one lineage is kept.    *)
(***************************************************************************)
EXTENDS Integers, FiniteSets

CONSTANTS
  Principals,   \* the people, each authenticating with one device
  Host,         \* the one who establishes the Family
  Invitations,  \* invitation identities
  MaxRevision,  \* bound: revisions of the space
  MaxTime,      \* bound: the server's clock
  MaxChanges,   \* bound: changes made directly through the space store
  Devices,      \* bound: whose devices such changes give to a member
  None          \* no record, no channel, no invitation, no request, and the
                \* owner of a device that is nobody's here

ASSUME FamilyAssumption ==
  /\ Host \in Principals
  /\ MaxRevision \in Nat /\ MaxTime \in Nat /\ MaxChanges \in Nat
  /\ None \notin Principals \cup Invitations
  /\ Devices \subseteq Principals \cup {None}

VARIABLES
  space,       \* the current Family Space record
  channels,    \* the GROUP channel named for each revision; 0 names the
               \* initial channel
  invitation,  \* the record of every invitation
  request,     \* the lifecycle request each person has in progress
  now,         \* the server's clock
  changes,     \* direct changes so far
  meddled,     \* observer: before the initial channel, a direct change touched
               \* the host, the companion or gave somebody another one's device
  origin,      \* observer: which operation formed the current record
  joiners      \* observer: who was added through each invitation

vars == <<space, channels, invitation, request, now, changes, meddled, origin,
          joiners>>

Roles == {"OWNER", "ADMIN", "MEMBER"}
Revisions == 0..MaxRevision
Times == 0..MaxTime

\* The Family companion: bound as created, bound to another lineage, or not
\* active (HELD and RETIRED alike).
CompanionStates == {"ACTIVE", "ANOTHER", "HELD"}

\* bound: whose device the membership is bound to; None stands for another
\* device each time.
Member == [role : Roles, joined : Times, bound : Principals \cup {None},
           status : {"NONE", "ACTIVE", "LEFT", "REVOKED", "REMOVED"}]
Stranger == [role |-> "MEMBER", joined |-> 0, bound |-> None, status |-> "NONE"]

Record == [revision : Revisions, generation : 1..(MaxRevision + 1),
           members : [Principals -> Member], companion : CompanionStates,
           transition : {"create", "add", "LEAVE", "REVOKE", "REMOVE",
                         "CHANGE_ROLE", "REBIND", "companion"},
           whom : Principals]

Channel == [revision : Revisions, generation : 1..(MaxRevision + 1),
            audience : SUBSET Principals, companion : BOOLEAN]

Terms == [revision : Revisions, generation : 1..(MaxRevision + 1),
          inviter : Principals, expires : 0..(MaxTime + 1),
          accepted : Principals \cup {None},
          state : {"PENDING", "ACCEPTED", "REVOKED", "EXPIRED"}]

\* None is none of the things it stands in for.
ASSUME NoneAssumption == None \notin Record /\ None \notin Channel /\ None \notin Terms

TypeOK ==
  /\ space \in Record \cup {None}
  /\ channels \in [Revisions -> Channel \cup {None}]
  /\ invitation \in [Invitations -> Terms \cup {None}]
  /\ \A p \in Principals :
       \/ request[p] = None
       \/ /\ request[p].at \in {"channel", "accept"}
          /\ request[p].record \in Record /\ request[p].name \in Revisions
          /\ request[p].invitation \in Invitations \cup {None}
  /\ now \in Times /\ changes \in 0..MaxChanges /\ meddled \in BOOLEAN

-----------------------------------------------------------------------------
(* Reading the stores                                                      *)

Active(r) == {p \in Principals : r.members[p].status = "ACTIVE"}
Owners(r) == {p \in Active(r) : r.members[p].role = "OWNER"}
Managers(r) == {p \in Active(r) : r.members[p].role \in {"OWNER", "ADMIN"}}

\* An active OWNER or ADMIN, and only an OWNER over somebody whose role is OWNER.
MayManage(r, actor, target) ==
  /\ actor \in Managers(r)
  /\ r.members[target].role = "OWNER" /\ r.members[target].status # "NONE"
       => r.members[actor].role = "OWNER"

\* validateFamilySpaceConversationRecord: no two members, former ones included,
\* are bound to one device. The space store itself does not ask for it.
Distinct(r) ==
  \A p, q \in Principals :
    p # q => r.members[p].bound = None \/ r.members[p].bound # r.members[q].bound

\* The GROUP channels bound to one exact record.
Bound(revision, generation) ==
  {n \in Revisions : /\ channels[n] # None
                     /\ channels[n].revision = revision
                     /\ channels[n].generation = generation}

\* currentFamilyGroup and its relatives: exactly one channel, with the Family
\* companion in it, or the request fails.
HasGroup(revision, generation) ==
  \E n \in Revisions : /\ Bound(revision, generation) = {n}
                       /\ channels[n].companion

\* assertSuccessorCanForm
SuccessorCanForm(r, leaving) ==
  r.companion # "HELD" /\ Active(r) \ {leaving} # {}

-----------------------------------------------------------------------------
(* Writing the space store                                                 *)

NextRecord(r, kind, whom, members, companion) ==
  [revision |-> r.revision + 1,
   generation |-> IF kind = "companion" THEN r.generation ELSE r.generation + 1,
   members |-> members, companion |-> companion,
   transition |-> kind, whom |-> whom]

WithStatus(r, p, status) == [r.members EXCEPT ![p].status = status]

\* addFamilyMember: a new or former member becomes active from now on.
WithMember(r, p, role, device) ==
  [r.members EXCEPT ![p] = [role |-> role, joined |-> now, bound |-> device,
                            status |-> "ACTIVE"]]

Commit(r, how, who, via) ==
  /\ r.revision \in Revisions
  /\ space' = r
  /\ origin' = [how |-> how, who |-> who, via |-> via]

-----------------------------------------------------------------------------
(* HOST                                                                    *)

\* createFamilySpace recognizes its own space while the host is its active
\* owner, from the same device, and the companion is as it was created.
HostKnown ==
  /\ Host \in Owners(space) /\ space.members[Host].bound = Host
  /\ space.companion = "ACTIVE"

Materialize(record, name, inv) ==
  [at |-> "channel", record |-> record, name |-> name, invitation |-> inv]

CreateSpace ==
  LET r == [revision |-> 0, generation |-> 1, companion |-> "ACTIVE",
            members |-> [p \in Principals |->
               IF p = Host THEN [role |-> "OWNER", joined |-> now, bound |-> Host,
                                 status |-> "ACTIVE"] ELSE Stranger],
            transition |-> "create", whom |-> Host]
  IN
  /\ space = None
  /\ request[Host] = None
  /\ Commit(r, "host", Host, None)
  /\ request' = [request EXCEPT ![Host] = Materialize(r, 0, None)]
  /\ UNCHANGED <<channels, invitation, now, changes, meddled, joiners>>

\* The same HOST request again: the space as it is now gets the initial channel.
HostAgain ==
  /\ space # None /\ HostKnown
  /\ request[Host] = None
  /\ request' = [request EXCEPT ![Host] = Materialize(space, 0, None)]
  /\ UNCHANGED <<space, channels, invitation, now, changes, meddled, origin,
                 joiners>>

-----------------------------------------------------------------------------
(* LEAVE                                                                   *)

\* defective variant: the current channel is found by its generation alone
LeaveReadyByGeneration(p) ==
  /\ p \in Active(space) /\ Distinct(space)
  /\ \E n \in Revisions : /\ channels[n] # None
                          /\ channels[n].generation = space.generation
                          /\ channels[n].companion
  /\ SuccessorCanForm(space, p)
  /\ Owners(space) # {p}

\* The bridge and leaveFamilyAndContinueConversation for an active member: the
\* exact current channel, a companion and somebody left to continue, and never
\* the last owner.
LeaveReady(p) ==
  /\ p \in Active(space) /\ Distinct(space)
  /\ HasGroup(space.revision, space.generation)
  /\ SuccessorCanForm(space, p)
  /\ Owners(space) # {p}

Leave(p) ==
  LET r == NextRecord(space, "LEAVE", p, WithStatus(space, p, "LEFT"),
                      space.companion)
  IN
  /\ space # None /\ request[p] = None
  /\ LeaveReady(p)
  /\ Commit(r, "leave", p, None)
  /\ request' = [request EXCEPT ![p] = Materialize(r, r.revision, None)]
  /\ UNCHANGED <<channels, invitation, now, changes, meddled, joiners>>

\* defective variant: any later record in which the leave shows is continued
LeaveRecoverableLater(p) ==
  /\ space.members[p].status = "LEFT"
  /\ \E n \in Revisions : /\ channels[n] # None
                          /\ channels[n].generation = space.generation - 1
  /\ SuccessorCanForm(space, p)

\* The same request after the membership change: only the exact child of the
\* prior channel's record is continued, and no second change is made.
LeaveRecoverable(p) ==
  /\ space.members[p].status = "LEFT" /\ Distinct(space)
  /\ space.transition = "LEAVE" /\ space.whom = p
  /\ HasGroup(space.revision - 1, space.generation - 1)
  /\ SuccessorCanForm(space, p)

LeaveAgain(p) ==
  /\ space # None /\ request[p] = None
  /\ LeaveRecoverable(p)
  /\ request' = [request EXCEPT
                   ![p] = Materialize(space, space.revision, None)]
  /\ UNCHANGED <<space, channels, invitation, now, changes, meddled, origin,
                 joiners>>

-----------------------------------------------------------------------------
(* JOIN                                                                    *)

Pending(i) == invitation[i] # None /\ invitation[i].state = "PENDING"

\* defective variant: the invitation's own record need not be current
JoinReadyStale(p, i) ==
  LET t == invitation[i] IN
  /\ HasGroup(t.revision, t.generation)
  /\ now < t.expires
  /\ MayManage(space, t.inviter, p)
  /\ p \notin Active(space)

\* joinFamilyFromInvitation while the invitation's own record is current. Whether
\* the joiner's device is another member's already is not asked.
JoinReady(p, i) ==
  LET t == invitation[i] IN
  /\ HasGroup(t.revision, t.generation)
  /\ space.generation = t.generation /\ space.revision = t.revision
  /\ now < t.expires
  /\ MayManage(space, t.inviter, p)
  /\ p \notin Active(space)

Join(p, i) ==
  LET r == NextRecord(space, "add", p, WithMember(space, p, "MEMBER", p),
                      space.companion)
  IN
  /\ space # None /\ request[p] = None
  /\ Pending(i) /\ JoinReady(p, i)
  /\ Commit(r, "join", p, i)
  /\ joiners' = [joiners EXCEPT ![i] = @ \cup {p}]
  /\ request' = [request EXCEPT ![p] = Materialize(r, r.revision, i)]
  /\ UNCHANGED <<channels, invitation, now, changes, meddled>>

\* After the add: the exact N to N+1 result is recovered, whatever the clock
\* says by now, if the member was added before the expiry.
JoinRecoverable(p, i) ==
  LET t == invitation[i] IN
  /\ HasGroup(t.revision, t.generation)
  /\ space.generation = t.generation + 1 /\ space.revision = t.revision + 1
  /\ space.transition = "add" /\ space.whom = p
  /\ p \in Active(space) /\ space.members[p].role = "MEMBER"
  /\ space.members[p].bound = p /\ space.members[p].joined < t.expires

JoinAgain(p, i) ==
  /\ space # None /\ request[p] = None
  /\ Pending(i) /\ JoinRecoverable(p, i)
  /\ request' = [request EXCEPT ![p] = Materialize(space, space.revision, i)]
  /\ UNCHANGED <<space, channels, invitation, now, changes, meddled, origin,
                 joiners>>

-----------------------------------------------------------------------------
(* The second and third step of a request                                  *)

\* createFamilyChannel: the audience is the exact active membership.
ChannelOf(r) ==
  [revision |-> r.revision, generation |-> r.generation,
   audience |-> Active(r), companion |-> r.companion # "HELD"]

\* createFamilyChannel and materializeConversationChannel for the record the
\* request holds, which need not be current any more; a record in which two
\* members share a device is refused.
FormChannel(p) ==
  LET q == request[p] IN
  /\ q # None /\ q.at = "channel" /\ Distinct(q.record)
  /\ channels[q.name] \in {None, ChannelOf(q.record)}
  /\ channels' = [channels EXCEPT ![q.name] = ChannelOf(q.record)]
  /\ request' = [request EXCEPT ![p] =
                   IF q.invitation = None THEN None ELSE [q EXCEPT !.at = "accept"]]
  /\ UNCHANGED <<space, invitation, now, changes, meddled, origin,
                 joiners>>

\* acceptFamilyInvitation reads everything back under the invitation's lock.
Acceptable(p, q) ==
  /\ Pending(q.invitation)
  /\ space = q.record
  /\ invitation[q.invitation].inviter \in Managers(space)
  /\ channels[q.name] # None
  /\ channels[q.name].revision = space.revision
  /\ p \in channels[q.name].audience

Accept(p) ==
  LET q == request[p] IN
  /\ q # None /\ q.at = "accept"
  /\ Acceptable(p, q)
  /\ invitation' = [invitation EXCEPT ![q.invitation].state = "ACCEPTED",
                                      ![q.invitation].accepted = p]
  /\ request' = [request EXCEPT ![p] = None]
  /\ UNCHANGED <<space, channels, now, changes, meddled, origin, joiners>>

\* The host stops, or the next step is refused: what is durable stays.
Interrupt(p) ==
  /\ request[p] # None
  /\ request' = [request EXCEPT ![p] = None]
  /\ UNCHANGED <<space, channels, invitation, now, changes, meddled, origin,
                 joiners>>

-----------------------------------------------------------------------------
(* The invitation store                                                    *)

Issue(m, i, expires) ==
  /\ space # None /\ m \in Managers(space)
  /\ invitation[i] = None /\ now < expires
  /\ invitation' = [invitation EXCEPT ![i] =
       [revision |-> space.revision, generation |-> space.generation,
        inviter |-> m, expires |-> expires, accepted |-> None,
        state |-> "PENDING"]]
  /\ UNCHANGED <<space, channels, request, now, changes, meddled, origin,
                 joiners>>

\* Revocation asks for a manager of the Family as it is now, which need not be
\* the record the invitation was issued for.
Revoke(m, i) ==
  /\ Pending(i) /\ now < invitation[i].expires
  /\ m \in Managers(space)
  /\ invitation' = [invitation EXCEPT ![i].state = "REVOKED"]
  /\ UNCHANGED <<space, channels, request, now, changes, meddled, origin,
                 joiners>>

Expire(i) ==
  /\ Pending(i) /\ now >= invitation[i].expires
  /\ invitation' = [invitation EXCEPT ![i].state = "EXPIRED"]
  /\ UNCHANGED <<space, channels, request, now, changes, meddled, origin,
                 joiners>>

-----------------------------------------------------------------------------
(* Changes made through the space store alone: no channel follows them.    *)

Meddles(kind, whom, members) ==
  kind = "companion" \/ whom = Host \/ members[whom].bound \notin {None, whom}

Directly(actor, kind, whom, members, companion) ==
  /\ changes' = changes + 1
  /\ meddled' = (channels[0] = None /\ (meddled \/ Meddles(kind, whom, members)))
  /\ Commit(NextRecord(space, kind, whom, members, companion),
            "store", actor, None)
  /\ UNCHANGED <<channels, invitation, request, now, joiners>>

\* defective variant: an ADMIN may add an OWNER
AddMemberAnyRole(m, p, role, device) ==
  /\ space # None /\ MayManage(space, m, p)
  /\ p \notin Active(space)
  /\ Directly(m, "add", p, WithMember(space, p, role, device), space.companion)

\* The store takes any device for the member, another member's too.
AddMember(m, p, role, device) ==
  /\ space # None /\ MayManage(space, m, p)
  /\ role = "OWNER" => space.members[m].role = "OWNER"
  /\ p \notin Active(space)
  /\ Directly(m, "add", p, WithMember(space, p, role, device), space.companion)

EndMembership(m, p, kind, status) ==
  /\ space # None /\ p \in Active(space)
  /\ IF kind = "LEAVE" THEN m = p ELSE MayManage(space, m, p)
  /\ Owners(space) # {p}
  /\ Directly(m, kind, p, WithStatus(space, p, status), space.companion)

ChangeRole(m, p, role) ==
  /\ space # None /\ MayManage(space, m, p)
  /\ space.members[p].status # "NONE" /\ space.members[p].role # role
  /\ role = "OWNER" => space.members[m].role = "OWNER"
  /\ space.members[p].role = "OWNER" => Cardinality(Owners(space)) # 1
  /\ Directly(m, "CHANGE_ROLE", p, [space.members EXCEPT ![p].role = role],
              space.companion)

Rebind(m, p, device) ==
  /\ space # None /\ MayManage(space, m, p)
  /\ space.members[p].status # "NONE"
  /\ device = None \/ space.members[p].bound # device
  /\ Directly(m, "REBIND", p, [space.members EXCEPT ![p].bound = device],
              space.companion)

\* One lineage that is not the first may follow another, and HELD may follow
\* RETIRED; only the first lineage in its ACTIVE state is one single value.
UpdateCompanion(m, c) ==
  /\ space # None /\ m \in Owners(space)
  /\ c = "ACTIVE" => space.companion # "ACTIVE"
  /\ Directly(m, "companion", m, space.members, c)

Tick == /\ now < MaxTime
        /\ now' = now + 1
        /\ UNCHANGED <<space, channels, invitation, request, changes, meddled,
                       origin, joiners>>

-----------------------------------------------------------------------------
Init ==
  /\ space = None
  /\ channels = [n \in Revisions |-> None]
  /\ invitation = [i \in Invitations |-> None]
  /\ request = [p \in Principals |-> None]
  /\ now = 0 /\ changes = 0 /\ meddled = FALSE
  /\ origin = [how |-> "none", who |-> None, via |-> None]
  /\ joiners = [i \in Invitations |-> {}]

Lifecycle ==
  \/ CreateSpace \/ HostAgain
  \/ \E p \in Principals :
       \/ Leave(p) \/ LeaveAgain(p)
       \/ \E i \in Invitations : Join(p, i) \/ JoinAgain(p, i)
       \/ FormChannel(p) \/ Accept(p) \/ Interrupt(p)

Inviting ==
  \E i \in Invitations :
    \/ \E m \in Principals :
         \/ Revoke(m, i)
         \/ \E expires \in 1..(MaxTime + 1) : Issue(m, i, expires)
    \/ Expire(i)

Administration ==
  /\ changes < MaxChanges
  /\ \E m, p \in Principals :
       \/ \E role \in Roles, device \in Devices :
            AddMember(m, p, role, device)
       \/ \E role \in Roles : ChangeRole(m, p, role)
       \/ EndMembership(m, p, "LEAVE", "LEFT")
       \/ EndMembership(m, p, "REVOKE", "REVOKED")
       \/ EndMembership(m, p, "REMOVE", "REMOVED")
       \/ \E device \in Devices : Rebind(m, p, device)
       \/ \E c \in CompanionStates : m = p /\ UpdateCompanion(m, c)

Next == Lifecycle \/ Inviting \/ Administration \/ Tick

Spec == Init /\ [][Next]_vars

-----------------------------------------------------------------------------
(* Properties                                                              *)

Ended(i) == invitation[i].state \in {"REVOKED", "EXPIRED"}

\* The one who joins finds the own device bound to somebody else.
Borrowed(p) == \E q \in Principals \ {p} : space.members[q].bound = p

\* The room always goes on. After a JOIN or LEAVE the current record has its
\* channel, or the person who sent the request can send it again and is admitted
\* to form it, however it was interrupted and whoever else was at work; two things
\* take a JOIN away, its invitation ended in between and a member who was given
\* the joiner's device, and nothing takes a LEAVE away. Until the initial channel
\* is there, HOST can be sent again whatever direct changes came in between,
\* unless they touched what the host is recognized by or mixed up the devices.
RoomContinues ==
  space # None =>
    /\ Bound(space.revision, space.generation) = {} =>
         CASE origin.how = "leave" -> LeaveRecoverable(origin.who)
           [] origin.how = "join" ->
                \/ /\ Pending(origin.via) /\ Distinct(space)
                   /\ JoinRecoverable(origin.who, origin.via)
                \/ Ended(origin.via)
                \/ Borrowed(origin.who)
           [] OTHER -> TRUE
    /\ channels[0] = None => (HostKnown /\ Distinct(space)) \/ meddled

\* No two channels ever claim one membership generation, which would make the
\* thread's history unreadable, although retries, an old request and the initial
\* channel may all form channels out of turn.
OneSegmentPerGeneration ==
  \A n, k \in Revisions :
    n # k /\ channels[n] # None /\ channels[k] # None =>
      channels[n].generation # channels[k].generation

\* An invitation admits one person at most, and one that says ACCEPTED names
\* someone whose membership the next generation's channel really carries.
InvitationsHonest ==
  \A i \in Invitations :
    /\ Cardinality(joiners[i]) <= 1
    /\ invitation[i] # None /\ invitation[i].state = "ACCEPTED" =>
         \E n \in Revisions :
           /\ channels[n] # None
           /\ channels[n].revision = invitation[i].revision + 1
           /\ channels[n].generation = invitation[i].generation + 1
           /\ invitation[i].accepted \in channels[n].audience

\* Who owns a Family changes only by an owner's hand, through any path: direct
\* administration, an invitation an ADMIN issued, or a departure; and an active
\* owner always remains.
OwnersDecide ==
  [][ /\ space' # None => Owners(space') # {}
      /\ space # None /\ Owners(space') # Owners(space) =>
           LET hand == IF origin'.how = "join" THEN invitation[origin'.via].inviter
                       ELSE origin'.who
           IN hand \in Owners(space) ]_vars

\* VEX-FAMILY-INVITATIONS.md promises that a retry may finish a JOIN whose
\* member was added in time, even after the invitation's expiry.
JoinCanFinish ==
  space # None /\ Bound(space.revision, space.generation) = {}
    /\ origin.how = "join" =>
    /\ Pending(origin.via) /\ Distinct(space)
    /\ JoinRecoverable(origin.who, origin.via)

\* VEX-FAMILY-HOST-ESTABLISHMENT.md says that a full-success retry of HOST is
\* idempotent: the initial channel is recognized.
HostRetryIdempotent ==
  space # None /\ HostKnown /\ channels[0] # None =>
    channels[0] = ChannelOf(space)
=============================================================================
