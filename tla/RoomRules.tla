-------------------------------- MODULE RoomRules --------------------------------
(***************************************************************************)
(* The head of a room: which records advance it and which writes must be   *)
(* based on it, for the built-in event types and the types a room defines. *)
(* The host decides with the room's registry, a connector with the types   *)
(* it has of the room, which may be none.                                  *)
(*                                                                         *)
(* A room's records are a sequence; the seq of a record is its place in    *)
(* it, and stands for its hash too.                                        *)
(***************************************************************************)
EXTENDS Naturals, Sequences, FiniteSets, FiniteSetsExt

CONSTANTS
    CustomTypes,  \* the kinds of the types a room may have: [name -> kind]
    Declared      \* those room.create declares; type.define adds the others

ASSUME TypesAssumption ==
    /\ \A t \in DOMAIN CustomTypes : CustomTypes[t] \in {"message", "signal", "control"}
    /\ Declared \subseteq DOMAIN CustomTypes

(* room.create, room.update, type.define, message.create, room.join, ...   *)
BuiltinClass ==
    [create |-> "genesis", update |-> "contract", define |-> "contract",
     message |-> "message", join |-> "signal"]

Types == DOMAIN BuiltinClass \cup DOMAIN CustomTypes
RoomRecord == [type : Types, base : Nat]

(* types: the custom types known.                                          *)
RecordClass(t, types) ==
    IF t \in DOMAIN BuiltinClass THEN BuiltinClass[t]
    ELSE IF t \in types THEN CustomTypes[t] ELSE "unknown"

(* A type the registry does not have counts as a control type.             *)
AdvancesHead(t, types) == RecordClass(t, types) \notin {"message", "signal"}
RequiresHead(t, types) == RecordClass(t, types) \in {"message", "control", "unknown"}

(* The registry after the first n records.  Kinds never change.            *)
TypesAt(log, n) ==
    IF \E s \in 1..n : log[s].type = "define" THEN DOMAIN CustomTypes ELSE Declared

(* The seqs of the records in S that advance the head, and the latest.     *)
Heads(log, S) == {s \in S : AdvancesHead(log[s].type, DOMAIN CustomTypes)}
MaxOrZero(S) == IF S = {} THEN 0 ELSE Max(S)
HeadAt(log, n) == MaxOrZero(Heads(log, 1..n))

(* A custom type is written once the registry has it (can_submit_event).   *)
TypeAccepted(log, t) == t \in DOMAIN BuiltinClass \cup TypesAt(log, Len(log))

(* The host's check of the base of a write (validate_room_base).           *)
BaseAccepted(log, t, base) ==
    /\ base \in 1..Len(log)
    /\ RequiresHead(t, DOMAIN CustomTypes) => base >= HeadAt(log, Len(log))
=============================================================================
