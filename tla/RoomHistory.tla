------------------------------- MODULE RoomHistory -------------------------------
(***************************************************************************)
(* A reader's reconstruction of a room from its records: how a connector   *)
(* projects each record on its local room (local_connector/projection.rs)  *)
(* and how it replays a whole history and judges it                        *)
(* (local_connector/history.rs).                                           *)
(*                                                                         *)
(* Left out: the inbox items of a projection, the members' perspectives,   *)
(* the schemas of envelopes and payloads, and where packs come from.       *)
(***************************************************************************)
EXTENDS RoomArchive

(* The local room: the contract, the members by their status, the types    *)
(* it lists, and its head.                                                 *)
MemberStatuses == {"active", "left", "removed", "banned"}
Member(role, status) == [role |-> role, status |-> status]
RoomMember == [role : Roles, status : MemberStatuses]

ASSUME MembersAssumption == Absent \notin Roles /\ Absent \notin RoomMember

materialize_creator(members) == [members EXCEPT ![creator] = Member("moderator", "active")]

NewRoom(p) ==
    [visibility |-> p.visibility, policy |-> p.policy, start_time |-> p.start_time,
     end_time |-> p.end_time, status |-> "scheduled",
     types |-> [t \in TypeNames |-> Absent], head_seq |-> 0,
     members |-> materialize_creator([a \in Agents |-> Absent])]

event_type_advances_head(type, types) ==
    IF type \in TypeNames THEN types[type] = Absent \/ types[type].kind = "control"
    ELSE type \in {"room.create", "room.update", "room.close", "room.cancel", "type.define"}

event_requires_room_head(type, types) ==
    IF type \in TypeNames THEN types[type] = Absent \/ types[type].kind # "signal"
    ELSE type = "message.create"
-----------------------------------------------------------------------------
(* Projection *)

Present(new, old) == IF new = Absent THEN old ELSE new

apply_room_update(local, u, accepted_at) ==
    [local EXCEPT !.policy = Present(u.policy, @),
                  !.start_time = Present(u.start_time, @),
                  !.end_time = Present(u.end_time, @),
                  !.status = IF @ = "scheduled" /\ u.start_time # Absent
                                  /\ u.start_time <= accepted_at
                             THEN "active" ELSE @]

(* fault: the removal of one who is no member is ignored.                  *)
Removed_Known(member, ban) ==
    IF member = Absent THEN Absent
    ELSE [member EXCEPT !.status = IF ban THEN "banned" ELSE "removed"]

(* A ban may precede any membership.                                       *)
Removed(member, ban) ==
    Member(IF member = Absent THEN "observer" ELSE member.role,
           IF ban THEN "banned" ELSE "removed")

Known(members, agent, after) ==
    IF members[agent] = Absent THEN members ELSE [members EXCEPT ![agent] = after]

MembersAfter(members, e) ==
    CASE e.type = "room.join" -> [members EXCEPT ![e.actor] = Member(e.payload, "active")]
      [] e.type = "room.leave" ->
            Known(members, e.actor, Member(members[e.actor].role, "left"))
      [] e.type = "room.member.role.update" ->
            Known(members, e.payload.member,
                  Member(e.payload.role, members[e.payload.member].status))
      [] e.type = "room.member.remove" ->
            [members EXCEPT ![e.payload.member] = Removed(@, e.payload.ban)]
      [] e.type = "room.join.review" /\ e.payload.decision = "approve" ->
            [members EXCEPT ![e.payload.request.actor] = Member(e.payload.role, "active")]
      [] OTHER -> members

apply_record_projection(local, r) ==
    IF is_redacted(r) THEN local
    ELSE LET e == r.envelope.event
             after == [local EXCEPT !.members = MembersAfter(@, e)]
         IN  CASE e.type = "room.update" -> apply_room_update(after, e.payload, r.accepted_at)
               [] e.type = "room.close" -> [after EXCEPT !.status = "ended"]
               [] e.type = "room.cancel" -> [after EXCEPT !.status = "cancelled"]
               [] e.type = "type.define" /\ ~IsImport(e.payload) ->
                     [after EXCEPT !.types[e.payload.name] = e.payload]
               [] OTHER -> after
-----------------------------------------------------------------------------
(* Replay: a history is the records so far with what they made of the      *)
(* room.  State is verified up to the first redacted record.               *)

NewHistory(p) ==
    [ok |-> validate_room_create_payload(p), verified |-> TRUE,
     registry |-> Unchanged([t \in TypeNames |-> Absent]).registry, local |-> NewRoom(p)]

(* The clock of a replay is the acceptance of its records.                 *)
StatusAt(local, accepted_at) ==
    IF local.status \in {"ended", "cancelled"} THEN local.status
    ELSE IF accepted_at < local.start_time THEN "scheduled"
    ELSE IF accepted_at >= local.end_time THEN "ended" ELSE "active"

RoleOf(member) ==
    IF member = Absent THEN Absent
    ELSE IF member.status = "active" THEN member.role ELSE Absent

DirectJoin(local, e) ==
    /\ e.type = "room.join"
    /\ can_join_directly(local.visibility, local.policy, e.actor, e.payload)
    /\ local.members[e.actor] # Absent => local.members[e.actor].status # "banned"

validate_record_base_precondition(local, r) ==
    LET e == r.envelope.event
    IN  /\ e.type # "room.join.request" /\ e.base_seq < r.seq
        /\ event_requires_room_head(e.type, local.types) => e.base_seq >= local.head_seq

(* What a verified history checks of its next record, at status.           *)
RecordValid(h, r, status) ==
    LET e == r.envelope.event
    IN  /\ validate_room_write(e.type, status,
               [role |-> RoleOf(h.local.members[e.actor]), is_creator |-> e.actor = creator,
                direct_join_allowed |-> DirectJoin(h.local, e)], h.registry)
        /\ validate_record_base_precondition(h.local, r)
        /\ e.type = "room.join.review" => validate_room_join_review_payload(e.payload, r.room_id)
        /\ e.type = "type.define" => apply(h.registry, e.payload).ok

Projected(h, r) ==
    LET local == apply_record_projection(h.local, r)
        types == IF h.verified THEN h.registry ELSE local.types
        type == IF is_redacted(r) THEN r.envelope.kind ELSE r.envelope.event.type
    IN  [h EXCEPT !.local = [local EXCEPT !.types = types,
             !.head_seq = IF event_type_advances_head(type, types) THEN r.seq ELSE @]]

replay_record(h, r) ==
    IF ~h.ok THEN h
    ELSE IF is_redacted(r) THEN Projected([h EXCEPT !.verified = FALSE], r)
    ELSE LET e == r.envelope.event
             status == StatusAt(h.local, r.accepted_at)
         IN  IF ~(validate_discourse_envelope(r.envelope) /\ validate_room_path(e, room))
             THEN [h EXCEPT !.ok = FALSE]
             ELSE IF r.seq = 1
             THEN Projected([h EXCEPT !.registry = from_declarations(e.payload.types).registry], r)
             ELSE IF ~h.verified THEN Projected(h, r)
             ELSE IF RecordValid(h, r, status)
             THEN Projected([h EXCEPT !.local.status = status,
                               !.registry = IF e.type = "type.define"
                                            THEN apply(@, e.payload).registry ELSE @], r)
             ELSE [h EXCEPT !.ok = FALSE]

replay(records) ==
    LET first == records[1].envelope.event
        h == FoldLeft(replay_record, NewHistory(first.payload), records)
    IN  [h EXCEPT !.ok = @ /\ verify_archive_chain(records) /\ first.type = "room.create"]

(* Whether the state was verified too.                                     *)
room_archive(manifest, records) ==
    LET archive == verify_archive_records(manifest, records)
    IN  IF ~archive.ok THEN Refused
        ELSE IF 1 \in archive.redacted THEN [ok |-> TRUE, state_verified |-> FALSE]
        ELSE LET h == replay(records)
             IN  IF h.ok THEN [ok |-> TRUE, state_verified |-> h.verified] ELSE Refused
=============================================================================
