-------------------------------- MODULE RoomHost --------------------------------
(***************************************************************************)
(* The life of a room at its host.  The repository has the rules a host    *)
(* applies to a write (RoomPermissions) and not the host: its handlers are *)
(* taken from the protocol document the rules implement, and state what a  *)
(* host using them promises.  The base of a write and the head are left to *)
(* RoomRules; every write here names an accepted record.                   *)
(*                                                                         *)
(* Time moves a room on without a record: it is scheduled, active or ended *)
(* by the clock and the contract in force, unless it was closed or         *)
(* cancelled.                                                              *)
(***************************************************************************)
EXTENDS RoomHistory, FiniteSetsExt

CONSTANTS
    Creations,     \* payloads of room.create
    Updates,       \* payloads of room.update
    Declarations,  \* payloads of type.define
    RequestTTL,    \* how long the host keeps a join request
    MaxTime,       \* bound of the clock
    MaxLog,        \* bound of the accepted records
    MaxOf,         \* [visibility -> [event type -> bound of its records]]: what to
                   \* explore in which room
    AskedRoles,    \* roles asked for in a request (no rule reads them)
    GivenRoles     \* roles given by reviews and role updates

Visibilities == {"public", "restricted", "private"}

ASSUME CreationsAssumption ==
    \A p \in Creations :
        /\ p.visibility \in Visibilities /\ p.policy \in RoomPolicy
        /\ p.start_time \in Nat /\ p.end_time \in Nat /\ p.types \in Seq(TypeDeclaration)

ASSUME UpdatesAssumption ==
    \A u \in Updates :
        /\ u.policy \in RoomPolicy \cup {Absent}
        /\ {u.start_time, u.end_time} \subseteq Nat \cup {Absent}

ASSUME RolesAssumption == AskedRoles \cup GivenRoles \subseteq Roles

ASSUME DeclarationsAssumption == Declarations \subseteq TypeDeclaration

VARIABLES
    now,
    contract,  \* visibility, policy, start and end of the room; how it was finished
    members,   \* [Agents -> role or Absent]
    banned,
    requests,  \* the join requests made and what became of them
    registry,
    log        \* the accepted events, with the time of acceptance

vars == <<now, contract, members, banned, requests, registry, log>>
-----------------------------------------------------------------------------
StateAt(c, t) ==
    IF c.finished # "no" THEN c.finished
    ELSE IF t < c.start_time THEN "scheduled"
    ELSE IF t < c.end_time THEN "active" ELSE "ended"

RoomState == StateAt(contract, now)

(* room.create: the creator is a moderator from the start.                 *)
Init ==
    /\ now = 0
    /\ \E p \in Creations :
          /\ validate_room_create_payload(p)
          /\ contract = [visibility |-> p.visibility, policy |-> p.policy,
                         start_time |-> p.start_time, end_time |-> p.end_time,
                         finished |-> "no"]
          /\ registry = from_declarations(p.types).registry
          /\ log = <<[event |-> room_create_event(p), accepted_at |-> 0]>>
    /\ members = [a \in Agents |-> IF a = creator THEN "moderator" ELSE Absent]
    /\ banned = {} /\ requests = {}

Context(actor, direct) ==
    [role |-> members[actor], is_creator |-> actor = creator, direct_join_allowed |-> direct]

Count(type) == Quantify(DOMAIN log, LAMBDA i : log[i].event.type = type)

(* What every accepted write has in common.  Its base is the latest record.*)
Write(type, actor, payload, direct) ==
    LET e == discourse_event(type, actor, room, Len(log), payload) IN
    /\ validate_room_path(e, room)
    /\ Len(log) < MaxLog /\ Count(type) < MaxOf[contract.visibility][type]
    /\ validate_room_write(type, RoomState, Context(actor, direct), registry)
    /\ log' = Append(log, [event |-> e, accepted_at |-> now])
    /\ UNCHANGED now

Speaking(ms) == {a \in Agents : ms[a] \in {"moderator", "speaker"}}

(* A change of role must not lead past max_speakers.                       *)
SetRole(member, role) ==
    /\ members' = [members EXCEPT ![member] = role]
    /\ ~(Speaking(members') \subseteq Speaking(members)) /\ contract.policy.max_speakers # Absent
          => Cardinality(Speaking(members')) <= contract.policy.max_speakers
-----------------------------------------------------------------------------
Tick ==
    /\ now < MaxTime
    /\ now' = now + 1
    /\ UNCHANGED <<contract, members, banned, requests, registry, log>>

Join(actor, role) ==
    /\ Write("room.join", actor, role,
             can_join_directly(contract.visibility, contract.policy, actor, role))
    /\ actor \notin banned
    /\ SetRole(actor, role)
    /\ UNCHANGED <<contract, banned, requests, registry>>

(* A request is not a record; a new one supersedes the pending one.        *)
JoinRequest(actor, role) ==
    LET new == [actor |-> actor, role |-> role, created_at |-> now, status |-> "pending"]
    IN  /\ Cardinality(requests) < MaxOf[contract.visibility]["room.join.request"]
        /\ validate_room_write("room.join.request", RoomState, Context(actor, FALSE), registry)
        /\ ~\E q \in requests : q.actor = actor /\ q.created_at = now
        /\ requests' = {[q EXCEPT !.status =
                            IF q.actor = actor /\ q.status = "pending" THEN "expired" ELSE @]
                        : q \in requests} \cup {new}
        /\ UNCHANGED <<now, contract, members, banned, registry, log>>

IsPending(q) == q.status = "pending" /\ now < q.created_at + RequestTTL

(* The review embeds the signed request.                                  *)
Reviewed(q, decision) ==
    (requests \ {q}) \cup
        {[q EXCEPT !.status = IF decision = "approve" THEN "approved" ELSE "rejected"]}

Review(actor, q, decision, role) ==
    LET signed == room_join_request_event(q.actor, [role |-> q.role, created_at |-> q.created_at])
        review == [request |-> signed, decision |-> decision, role |-> role]
    IN  /\ Write("room.join.review", actor, review, FALSE)
        /\ validate_room_join_review_payload(review, room)
        /\ IsPending(q)
        /\ requests' = Reviewed(q, decision)
        /\ IF decision = "approve"
           THEN /\ members[q.actor] = Absent
                /\ SetRole(q.actor, role)
                /\ banned' = banned \ {q.actor}
           ELSE UNCHANGED <<members, banned>>
        /\ UNCHANGED <<contract, registry>>

Leave(actor) ==
    /\ Write("room.leave", actor, Absent, FALSE)
    /\ members' = [members EXCEPT ![actor] = Absent]
    /\ UNCHANGED <<contract, banned, requests, registry>>

RoleUpdate(actor, member, role) ==
    /\ Write("room.member.role.update", actor, [member |-> member, role |-> role], FALSE)
    /\ members[member] # Absent
    /\ SetRole(member, role)
    /\ UNCHANGED <<contract, banned, requests, registry>>

(* A ban may be given ahead, to an agent that is not a member.             *)
RemoveMember(actor, member, ban) ==
    /\ Write("room.member.remove", actor, [member |-> member, ban |-> ban], FALSE)
    /\ member \notin {creator, actor}
    /\ members[member] # Absent \/ ban
    /\ members' = [members EXCEPT ![member] = Absent]
    /\ banned' = IF ban THEN banned \cup {member} ELSE banned
    /\ UNCHANGED <<contract, requests, registry>>

Effective(new, old) == IF new = Absent THEN old ELSE new

Update(actor, u) ==
    LET c == [contract EXCEPT !.policy = Effective(u.policy, @),
                              !.start_time = Effective(u.start_time, @),
                              !.end_time = Effective(u.end_time, @)]
    IN  /\ Write("room.update", actor, u, FALSE)
        /\ validate_room_update_payload(u)
        /\ validate_room_visibility_policy(c.visibility, c.policy)
        /\ c.start_time < c.end_time
        /\ RoomState = "active" => u.start_time = Absent /\ now < c.end_time
        /\ contract' = c
        /\ UNCHANGED <<members, banned, requests, registry>>

Finish(type, actor) ==
    /\ Write(type, actor, Absent, FALSE)
    /\ contract' = [contract EXCEPT !.finished =
                       IF type = "room.cancel" THEN "cancelled" ELSE "ended"]
    /\ UNCHANGED <<members, banned, requests, registry>>

(* The registry is changed in place by a declaration; the event is         *)
(* accepted when the declaration is.                                       *)
TypeDefine(actor, declaration) ==
    /\ validate_room_write("type.define", RoomState, Context(actor, FALSE), registry)
    /\ LET r == apply(registry, declaration)
       IN  /\ registry' = r.registry
           /\ IF r.ok THEN Write("type.define", actor, declaration, FALSE)
              ELSE UNCHANGED <<now, log>>
    /\ UNCHANGED <<contract, members, banned, requests>>

(* message.create or a custom type.                                        *)
Post(actor, type) ==
    /\ Write(type, actor, Absent, FALSE)
    /\ UNCHANGED <<contract, members, banned, requests, registry>>

Next ==
    \/ Tick
    \/ \E d \in Declarations, a \in Agents : TypeDefine(a, d)
    \/ \E a \in Agents, u \in Updates : Update(a, u)
    \/ \E a \in Agents : Leave(a)
    \/ \E a \in Agents, t \in {"room.close", "room.cancel"} : Finish(t, a)
    \/ \E a \in Agents, t \in TypeNames \cup {"message.create"} : Post(a, t)
    \/ \E a \in Agents, r \in Roles : Join(a, r)
    \/ \E a \in Agents, r \in AskedRoles : JoinRequest(a, r)
    \/ \E a, b \in Agents, r \in GivenRoles : RoleUpdate(a, b, r)
    \/ \E a, b \in Agents, ban \in BOOLEAN : RemoveMember(a, b, ban)
    \/ \E a \in Agents, q \in requests, d \in {"approve", "reject"}, r \in GivenRoles \cup {Absent} :
          Review(a, q, d, r)

Spec == Init /\ [][Next]_vars
-----------------------------------------------------------------------------
(* What the records say, read back one by one *)

Event(s) == log[s].event
Latest == Len(log)

Before(s, Test(_)) == {i \in 1..(s - 1) : Test(Event(i))}
LastOr(S, default, F(_)) == IF S = {} THEN default ELSE F(Event(Max(S)))

Approves(e, a) == e.type = "room.join.review" /\ e.payload.decision = "approve"
                    /\ e.payload.request.actor = a
Bans(e, a) == e.type = "room.member.remove" /\ e.payload = [member |-> a, ban |-> TRUE]

SetsRole(e, a) ==
    \/ e.type \in {"room.create", "room.join", "room.leave"} /\ e.actor = a
    \/ Approves(e, a)
    \/ e.type \in {"room.member.role.update", "room.member.remove"} /\ e.payload.member = a

RoleSet(e) ==
    CASE e.type = "room.create" -> "moderator"
      [] e.type = "room.join" -> e.payload
      [] e.type \in {"room.join.review", "room.member.role.update"} -> e.payload.role
      [] OTHER -> Absent

RoleAt(a, s) == LastOr(Before(s, LAMBDA e : SetsRole(e, a)), Absent, RoleSet)

PolicyAt(s) ==
    LastOr(Before(s, LAMBDA e : e.type = "room.update" /\ e.payload.policy # Absent),
           Event(1).payload.policy, LAMBDA e : e.payload.policy)

BannedAt(a, s) ==
    LastOr(Before(s, LAMBDA e : Bans(e, a) \/ Approves(e, a)), FALSE, LAMBDA e : Bans(e, a))

InvitedOrOpen(e, s) ==
    LET policy == PolicyAt(s)
        visibility == Event(1).payload.visibility
    IN  \/ policy.invites[e.actor] = e.payload
        \/ /\ visibility # "private"
           /\ IF policy.open_roles = Absent THEN visibility = "public" /\ e.payload = "observer"
              ELSE e.payload \in policy.open_roles \ {"moderator"}

(* Whether a declaration is about a type, and what it says of it; the      *)
(* places of those about t in room.create and in the records before s.     *)
Covers(d, t) == IF IsImport(d) THEN t \in Imported(d) ELSE d.name = t

Says(d, t) ==
    IF ~IsImport(d) THEN d
    ELSE Overridden(CHOOSE def \in ToSet(Packs[d.pack]) : def.name = t, d.overrides[t])

CreatedWith(t) ==
    LET types == Event(1).payload.types IN {i \in DOMAIN types : Covers(types[i], t)}
Defines(t, s) == Before(s, LAMBDA e : e.type = "type.define" /\ Covers(e.payload, t))

DeclarationsOf(t, s) ==
    {Event(1).payload.types[i] : i \in CreatedWith(t)} \cup {Event(i).payload : i \in Defines(t, s)}

TypeAt(t, s) ==
    IF Defines(t, s) # {} THEN Says(Event(Max(Defines(t, s))).payload, t)
    ELSE IF CreatedWith(t) = {} THEN Absent
    ELSE Says(Event(1).payload.types[Max(CreatedWith(t))], t)

MayPost(role, def) ==
    /\ def # Absent /\ def.status # "disabled"
    /\ role \in (IF def.roles # Absent THEN def.roles
                 ELSE CASE def.kind = "signal" -> Roles
                        [] def.kind = "message" -> {"moderator", "speaker"}
                        [] def.kind = "control" -> {"moderator"})
-----------------------------------------------------------------------------
(* Properties *)

(* Whoever wrote the last record had a role, or an invitation, that the    *)
(* records before it show.                                                 *)
LastIsAuthorized ==
    LET e == Event(Latest)
        role == RoleAt(e.actor, Latest)
    IN  CASE e.type = "room.create" -> e.actor = creator
          [] e.type = "room.join" ->
                role = Absent /\ ~BannedAt(e.actor, Latest) /\ InvitedOrOpen(e, Latest)
          [] e.type = "room.leave" -> role # Absent /\ e.actor # creator
          [] OTHER -> e.actor = creator \/
                IF e.type = "message.create" THEN role \in {"moderator", "speaker"}
                ELSE IF e.type \in TypeNames THEN MayPost(role, TypeAt(e.type, Latest))
                ELSE role = "moderator"

ReviewedOnce ==
    \A i, j \in DOMAIN log :
        Event(i).type = "room.join.review" /\ Event(j).type = "room.join.review"
          /\ Event(i).payload.request = Event(j).payload.request => i = j

(* The authority behind a record can be read from the records before it:   *)
(* who joins is invited or takes an open role of the policy then in force  *)
(* (in a private room an invitation) and is not under a ban that no later  *)
(* approval lifted; who manages the room is its creator or was a moderator *)
(* then; who posts had a role the type then allowed.  A join request is    *)
(* reviewed once, and the members are those the records make members.      *)
RecordsAreAuthorized ==
    /\ LastIsAuthorized /\ ReviewedOnce
    /\ \A a \in Agents : members[a] = RoleAt(a, Latest + 1)

(* The registry a host keeps by changing it in place is the one a verifier *)
(* of the records builds: of each type, what the last accepted declaration *)
(* says; a refused one leaves nothing behind, not even the first types of  *)
(* a pack.  No accepted declaration changes the kind of a type.            *)
RegistryReplays ==
    \A t \in TypeNames :
        /\ registry[t] = TypeAt(t, Latest + 1)
        /\ \A d1, d2 \in DeclarationsOf(t, Latest + 1) : Says(d1, t).kind = Says(d2, t).kind

Order(state) == CASE state = "scheduled" -> 0 [] state = "active" -> 1 [] OTHER -> 2

(* A room moves from scheduled to active to ended, or is cancelled before  *)
(* it starts, and is never taken back: neither by the clock nor by updates *)
(* of its times; what is finished takes no record.                         *)
StateNeverGoesBack ==
    [][/\ Order(RoomState') >= Order(RoomState)
       /\ Order(RoomState) = 2 => RoomState' = RoomState /\ log' = log
       /\ RoomState' = "cancelled" => RoomState \in {"scheduled", "cancelled"}]_vars

RedactedCopy(records, S) ==
    [i \in DOMAIN records |-> IF i \in S THEN redact_server_record(records[i]).record ELSE records[i]]

(* Archives that are not the room's: a record is missing, two are swapped, *)
(* one has another time or event under the old hash, or the chain was made *)
(* anew over another event.                                                *)
Forged(records, how, i) ==
    LET other == [event |-> [Event(i) EXCEPT !.payload = room], accepted_at |-> now]
    IN  CASE how = "missing" -> RemoveAt(records, i)
          [] how = "swapped" -> LET j == IF i = 1 THEN Len(records) ELSE i - 1
                                IN  [records EXCEPT ![i] = records[j], ![j] = records[i]]
          [] how = "moved" -> [records EXCEPT ![i].accepted_at = @ + 1]
          [] how = "altered" -> [records EXCEPT ![i].envelope.event = other.event]
          [] how = "rebuilt" -> Records([log EXCEPT ![i] = other])

(* Whoever replays the records of a room, whichever of them are redacted,  *)
(* accepts them and finds the host's members, bans and contract; from the  *)
(* whole of them also its registry and head, and the replay refuses the    *)
(* next message or join that the host would refuse.                        *)
HistoryReplays ==
    LET records == Records(log)
        redactable == {i \in DOMAIN log : redact_server_record(records[i]).ok}
        whole == replay(records)
        Next_(e) == Last(Records(Append(log, [event |-> e, accepted_at |-> now])))
        Refuses(type, a, payload, allowed) ==
            ~allowed => ~replay_record(whole, Next_(discourse_event(type, a, room, Latest, payload))).ok
    IN  /\ \A S \in {{}, redactable} \cup {{i} : i \in redactable} :
              LET h == replay(RedactedCopy(records, S))
              IN  /\ h.ok /\ h.verified = (S = {})
                  /\ \A a \in Agents :
                        /\ RoleOf(h.local.members[a]) = members[a]
                        /\ a \in banned <=> h.local.members[a] \in {Member(r, "banned") : r \in Roles}
                  /\ \A f \in {"policy", "start_time", "end_time"} : h.local[f] = contract[f]
        /\ whole.registry = registry /\ whole.local.types = registry
        /\ StatusAt(whole.local, now) = RoomState
        /\ whole.local.head_seq =
              Max({i \in DOMAIN log : event_type_advances_head(Event(i).type, registry)})
        /\ \A a \in Agents :
              /\ Refuses("message.create", a, Absent,
                         RoomState = "active" /\ (a = creator \/ members[a] \in {"moderator", "speaker"}))
              /\ Refuses("room.join", a, "observer", a \notin banned)

(* The archive of a finished room verifies whichever of its messages and   *)
(* custom records are redacted, and the verifier reports exactly those;    *)
(* other records are never redacted, and no archive with another record,   *)
(* another order or another end verifies.                                  *)
ArchiveExact ==
    RoomState \in {"ended", "cancelled"} =>
        LET records == Records(log)
            redactable == {i \in DOMAIN log : redact_server_record(records[i]).ok}
        IN  /\ redactable = {i \in DOMAIN log : Event(i).type \in TypeNames \cup {"message.create"}}
            /\ \A S \in SUBSET redactable :
                  /\ verify_archive_records(Manifest(log), RedactedCopy(records, S))
                        = [ok |-> TRUE, redacted |-> S]
                  /\ room_archive(Manifest(log), RedactedCopy(records, S))
                        = [ok |-> TRUE, state_verified |-> S = {}]
            /\ \A i \in DOMAIN log, how \in {"missing", "swapped", "moved", "altered", "rebuilt"} :
                  Forged(records, how, i) # records =>
                      verify_archive_records(Manifest(log), Forged(records, how, i)) = Refused
=============================================================================
