------------------------------- MODULE RoomArchive -------------------------------
(***************************************************************************)
(* The hash chain of a room's records, their redaction and the offline     *)
(* verification of an archive (discourse.rs, Sections 14 and 18 of the     *)
(* protocol).  Hashes and signatures are perfect: the hash of a value is   *)
(* the value, and an envelope is valid when its hash is its event's.       *)
(***************************************************************************)
EXTENDS RoomPermissions

CONSTANT room

(* What a function returns with an error.                                 *)
Refused == [ok |-> FALSE]

server_record_hash(room_id, seq, pre_hash, envelope_hash, accepted_at) ==
    <<room_id, seq, pre_hash, envelope_hash, accepted_at>>

(* Events and their shape: every event but room.create names its room, and *)
(* every event but it and a join request names a base record.              *)
discourse_event(type, actor, room_id, base_seq, payload) ==
    [type |-> type, actor |-> actor, room_id |-> room_id, base_seq |-> base_seq,
     payload |-> payload]

room_create_event(payload) == discourse_event("room.create", creator, Absent, Absent, payload)

room_join_request_event(actor, payload) ==
    discourse_event("room.join.request", actor, room, Absent, payload)

event_requires_room_id(type) == type # "room.create"
event_requires_base(type) == type \notin {"room.create", "room.join.request"}

validate_room_head_precondition(e) == e.base_seq \notin {Absent, 0}

validate_discourse_event_fields(e) ==
    /\ (e.room_id # Absent) = event_requires_room_id(e.type)
    /\ IF event_requires_base(e.type) THEN validate_room_head_precondition(e)
       ELSE e.base_seq = Absent

validate_room_path(e, path_room_id) ==
    /\ validate_discourse_event_fields(e)
    /\ e.type # "room.create" => e.room_id = path_room_id

validate_join_request_envelope(e, room_id) ==
    /\ validate_discourse_event_fields(e)
    /\ e.type = "room.join.request" /\ e.room_id = room_id

validate_room_join_review_payload(review, room_id) ==
    /\ validate_join_request_envelope(review.request, room_id)
    /\ review.decision = "approve" => review.role # Absent
-----------------------------------------------------------------------------
(* The chain *)

Sign(event) == [hash |-> event, event |-> event]
validate_discourse_envelope(envelope) ==
    envelope.hash = envelope.event /\ validate_discourse_event_fields(envelope.event)

build_server_record(room_id, seq, pre_hash, accepted_at, envelope) ==
    [room_id |-> room_id, seq |-> seq, pre_hash |-> pre_hash,
     hash |-> server_record_hash(room_id, seq, pre_hash, envelope.hash, accepted_at),
     accepted_at |-> accepted_at, envelope |-> envelope]

is_redacted(record) == "redacted" \in DOMAIN record.envelope
Redactable(kind) == kind \notin Builtins \ {"message.create"}

redact_server_record(record) ==
    IF ~Redactable(record.envelope.event.type) THEN Refused
    ELSE [ok |-> TRUE,
          record |-> [record EXCEPT !.envelope = [hash |-> record.envelope.hash, redacted |-> TRUE,
                                                  kind |-> record.envelope.event.type]]]

verify_record_hash(r) ==
    r.hash = server_record_hash(r.room_id, r.seq, r.pre_hash, r.envelope.hash, r.accepted_at)

verify_archive_record(r) ==
    /\ verify_record_hash(r)
    /\ is_redacted(r) => r.envelope.redacted /\ Redactable(r.envelope.kind)

check_link(records, i) ==
    IF i = 1 THEN records[1].seq = 1 /\ records[1].pre_hash = Absent
    ELSE /\ records[i].seq = records[i - 1].seq + 1
         /\ records[i].pre_hash = records[i - 1].hash

verify_archive_chain(records) ==
    \A i \in DOMAIN records : verify_archive_record(records[i]) /\ check_link(records, i)

RedactedSeqs(records) == {r.seq : r \in {s \in ToSet(records) : is_redacted(s)}}

(* fault: where the archive ends is not compared with the manifest.        *)
verify_archive_records_NoEnd(manifest, records) ==
    IF /\ verify_archive_chain(records)
       /\ \A r \in ToSet(records) : r.room_id = manifest.room_id
       /\ \A r \in ToSet(records) : ~is_redacted(r) => validate_discourse_envelope(r.envelope)
    THEN [ok |-> TRUE, redacted |-> RedactedSeqs(records)] ELSE Refused

(* Which seqs are redacted.                                               *)
verify_archive_records(manifest, records) ==
    IF /\ verify_archive_chain(records)
       /\ records # <<>>
       /\ Last(records).seq = manifest.last_seq /\ Last(records).hash = manifest.last_hash
       /\ \A r \in ToSet(records) : r.room_id = manifest.room_id
       /\ \A r \in ToSet(records) : ~is_redacted(r) => validate_discourse_envelope(r.envelope)
    THEN [ok |-> TRUE, redacted |-> RedactedSeqs(records)] ELSE Refused
-----------------------------------------------------------------------------
(* The records of the events a host accepted, in order.  An entry of log   *)
(* is [event, accepted_at].                                                *)
Records(log) ==
    FoldLeft(LAMBDA rs, e :
                 Append(rs, build_server_record(room, Len(rs) + 1,
                                IF rs = <<>> THEN Absent ELSE Last(rs).hash,
                                e.accepted_at, Sign(e.event))),
             <<>>, log)

Manifest(log) ==
    [room_id |-> room, last_seq |-> Len(log), last_hash |-> Last(Records(log)).hash]
=============================================================================
