----------------------------- MODULE RoomPermissions -----------------------------
(***************************************************************************)
(* The pure rules of Agent Discourse (discourse.rs) a room's host applies: *)
(* the shape of the contract, who joins without a review, the registry of  *)
(* custom types and the packs it imports, and who may write what in which  *)
(* state of the room.                                                      *)
(*                                                                         *)
(* An optional field that is missing is Absent.  Left out: topics, titles, *)
(* schemas, hints and instructions, which no rule here compares; a list    *)
(* that must have no duplicates is a set.                                  *)
(***************************************************************************)
EXTENDS Naturals, Sequences, FiniteSets, SequencesExt

CONSTANTS
    Agents, creator,
    TypeNames,  \* custom event types
    Packs,      \* [pack reference -> its sequence of type definitions]
    Absent

Roles == {"moderator", "speaker", "observer"}
Kinds == {"message", "signal", "control"}

Builtins == {"room.create", "room.join", "room.join.request", "room.join.review",
             "room.leave", "room.update", "room.member.role.update",
             "room.member.remove", "room.close", "room.cancel", "type.define",
             "message.create"}

ASSUME RoomAssumption == creator \in Agents /\ TypeNames \cap Builtins = {}
-----------------------------------------------------------------------------
(* The contract *)

RoomPolicy == [invites : [Agents -> Roles \cup {Absent}],
               open_roles : (SUBSET Roles) \cup {Absent},
               max_speakers : Nat \cup {Absent}]

validate_room_policy(policy) ==
    /\ policy.max_speakers # 0
    /\ policy.open_roles # Absent => "moderator" \notin policy.open_roles

validate_room_visibility_policy(visibility, policy) ==
    visibility = "private" => policy.open_roles \in {Absent, {}}

effective_open_roles(visibility, policy) ==
    IF policy.open_roles # Absent THEN policy.open_roles
    ELSE IF visibility = "public" THEN {"observer"} ELSE {}

(* fault: an invitation is good for any role.                              *)
can_join_directly_AnyRole(visibility, policy, actor, role) ==
    policy.invites[actor] # Absent \/ role \in effective_open_roles(visibility, policy)

can_join_directly(visibility, policy, actor, role) ==
    policy.invites[actor] = role \/ role \in effective_open_roles(visibility, policy)

(* room.update: a present field replaces the current value.  "other" is    *)
(* any of the fields no rule reads.                                        *)
is_empty(update) ==
    /\ {update.policy, update.start_time, update.end_time} = {Absent}
    /\ ~update.other

validate_room_update_payload(update) ==
    /\ ~is_empty(update)
    /\ Absent \notin {update.start_time, update.end_time} => update.start_time < update.end_time
    /\ update.policy # Absent => validate_room_policy(update.policy)
-----------------------------------------------------------------------------
(* Custom types *)

TypeDef == [name : TypeNames, kind : Kinds, roles : (SUBSET Roles) \cup {Absent},
            status : {"active", "deprecated", "disabled"}]

ASSUME PacksAssumption ==
    /\ \A p \in DOMAIN Packs : Packs[p] \in Seq(TypeDef)
    /\ Absent \notin TypeDef

(* A declaration defines a type, or imports a pack: all of its types or a  *)
(* subset, each with overrides.  An unknown pack is Absent.                *)
TypeOverride == [roles : (SUBSET Roles) \cup {Absent},
                 status : {"active", "deprecated", "disabled", Absent}]
PackImport == [pack : DOMAIN Packs \cup {Absent}, types : (SUBSET TypeNames) \cup {Absent},
               overrides : [TypeNames -> TypeOverride \cup {Absent}]]
TypeDeclaration == TypeDef \cup PackImport

IsImport(declaration) == "pack" \in DOMAIN declaration

validate_type_def(def) == def.roles # {}

(* The result of a change of the registry: whether it succeeded, the types *)
(* it declared, and the registry it leaves.                                *)
define(result, def) ==
    LET old == result.registry[def.name]
    IN  IF result.ok /\ validate_type_def(def) /\ (old # Absent => old.kind = def.kind)
        THEN [ok |-> TRUE, names |-> Append(result.names, def.name),
              registry |-> [result.registry EXCEPT ![def.name] = def]]
        ELSE [result EXCEPT !.ok = FALSE]

Overridden(def, over) ==
    IF over = Absent THEN def
    ELSE [f \in DOMAIN def |->
             IF f \in DOMAIN over /\ over[f] # Absent THEN over[f] ELSE def[f]]

PackNames(pack) == {Packs[pack][i].name : i \in DOMAIN Packs[pack]}
Imported(import) == IF import.types = Absent THEN PackNames(import.pack) ELSE import.types

validate_pack_import(import) == import.types # {}

(* The pack is known and declares no type twice; the subset and the        *)
(* overrides name types it imports.                                        *)
PackResolves(import) ==
    /\ import.pack \in DOMAIN Packs
    /\ Cardinality(PackNames(import.pack)) = Len(Packs[import.pack])
    /\ Imported(import) \subseteq PackNames(import.pack)
    /\ \A t \in TypeNames : import.overrides[t] # Absent => t \in Imported(import)

(* The types of a pack are defined one by one, up to the first that fails. *)
import(staged, import_) ==
    IF ~(validate_pack_import(import_) /\ PackResolves(import_)) THEN [staged EXCEPT !.ok = FALSE]
    ELSE FoldLeft(LAMBDA r, def :
                      IF def.name \in Imported(import_)
                      THEN define(r, Overridden(def, import_.overrides[def.name])) ELSE r,
                  staged, Packs[import_.pack])

Unchanged(registry) == [ok |-> TRUE, names |-> <<>>, registry |-> registry]

(* fault: an import works on the registry itself, not on a copy.           *)
apply_InPlace(registry, declaration) ==
    IF IsImport(declaration) THEN import(Unchanged(registry), declaration)
    ELSE define(Unchanged(registry), declaration)

(* An import is applied to a copy, which replaces the registry only as a   *)
(* whole.                                                                  *)
apply(registry, declaration) ==
    LET r == IF IsImport(declaration) THEN import(Unchanged(registry), declaration)
             ELSE define(Unchanged(registry), declaration)
    IN  IF r.ok THEN r ELSE [r EXCEPT !.registry = registry]

(* room.create: a type name appears only once in all declarations.         *)
from_declarations(declarations) ==
    FoldLeft(LAMBDA r, d :
                 LET a == apply(r.registry, d)
                 IN  [ok |-> r.ok /\ a.ok /\ IsInjective(r.names \o a.names),
                      names |-> r.names \o a.names, registry |-> a.registry],
             Unchanged([t \in TypeNames |-> Absent]), declarations)

validate_room_create_payload(payload) ==
    /\ payload.start_time < payload.end_time
    /\ validate_room_policy(payload.policy)
    /\ validate_room_visibility_policy(payload.visibility, payload.policy)
    /\ from_declarations(payload.types).ok
-----------------------------------------------------------------------------
(* Who may write what, and when *)

default_kind_roles(kind) ==
    CASE kind = "message" -> {"moderator", "speaker"}
      [] kind = "signal" -> Roles
      [] kind = "control" -> {"moderator"}

CustomAllowed(def, context) ==
    /\ def # Absent /\ def.status # "disabled"
    /\ \/ context.is_creator
       \/ context.role \in (IF def.roles = Absent THEN default_kind_roles(def.kind)
                            ELSE def.roles)

can_submit_event(type, context, registry) ==
    CASE type = "room.create" -> TRUE
      [] type = "room.join" ->
            context.direct_join_allowed /\ ~context.is_creator /\ context.role = Absent
      [] type = "room.join.request" -> ~context.is_creator /\ context.role = Absent
      [] type = "room.leave" -> ~context.is_creator /\ context.role # Absent
      [] type = "message.create" ->
            context.is_creator \/ context.role \in {"moderator", "speaker"}
      [] type \in TypeNames -> CustomAllowed(registry[type], context)
      [] OTHER -> context.is_creator \/ context.role = "moderator"

(* fault: an ended room still takes updates.                               *)
can_write_in_state_EndedUpdate(type, state) ==
    CASE state = "scheduled" -> type \in Builtins \ {"room.create", "message.create", "room.close"}
      [] state = "active" -> type \notin {"room.create", "room.cancel"}
      [] OTHER -> type = "room.update"

can_write_in_state(type, state) ==
    CASE state = "scheduled" -> type \in Builtins \ {"room.create", "message.create", "room.close"}
      [] state = "active" -> type \notin {"room.create", "room.cancel"}
      [] OTHER -> FALSE

validate_room_write(type, state, context, registry) ==
    can_submit_event(type, context, registry) /\ can_write_in_state(type, state)
=============================================================================
