------------------------------- MODULE MCRoomHost -------------------------------
(***************************************************************************)
(* A room of a creator and two agents, which Bob may be invited to.  Two   *)
(* custom types: a pack defines both, and its second type can be refused   *)
(* by the registry, for its kind or for the roles an override gives it.    *)
(***************************************************************************)
EXTENDS RoomHost

CONSTANTS carol, alice, bob

MCAgents == {carol, alice, bob}

Def(t, kind, roles, status) == [name |-> t, kind |-> kind, roles |-> roles, status |-> status]
MCPacks == [p \in {"pack"} |-> <<Def("poll", "message", Absent, "active"),
                               Def("mark", "signal", Absent, "active")>>]

Import(types, over) == [pack |-> "pack", types |-> types,
                        overrides |-> [t \in TypeNames |-> IF t = "mark" THEN over ELSE Absent]]
Over(roles, status) == [roles |-> roles, status |-> status]

Policy(invite, open, max) ==
    [invites |-> [a \in Agents |-> IF a = bob THEN invite ELSE Absent],
     open_roles |-> open, max_speakers |-> max]

Created(visibility, policy, start, end, types) ==
    [visibility |-> visibility, policy |-> policy, start_time |-> start, end_time |-> end,
     types |-> types]

(* The public room explores requests and reviews, the private one the      *)
(* types, the restricted one joining, removal and the times.               *)
MCCreations ==
    {Created("public", Policy("moderator", Absent, 2), 0, 2, <<>>),
     Created("private", Policy("moderator", Absent, Absent), 0, 2,
             <<Def("mark", "signal", Absent, "active")>>),
     Created("restricted", Policy("speaker", {"observer"}, Absent), 1, 2, <<>>)}

Update_(policy, start, end) ==
    [policy |-> policy, start_time |-> start, end_time |-> end, other |-> FALSE]

MCUpdates ==
    {Update_(Policy(Absent, {"speaker"}, Absent), Absent, Absent),
     Update_(Absent, Absent, 3), Update_(Absent, 2, Absent), Update_(Absent, 2, 3)}

MCDeclarations ==
    {Import(Absent, Absent), Import(Absent, Over({}, Absent)),
     Import({"mark"}, Over({"moderator"}, "disabled")),
     Def("mark", "control", Absent, "active")}

Bound(ones, twos) ==
    [t \in Builtins \cup TypeNames |-> IF t \in twos THEN 2 ELSE IF t \in ones THEN 1 ELSE 0]

MCMaxOf ==
    [public |-> Bound({"room.member.remove"},
                      {"room.join.request", "room.join.review"}),
     private |-> Bound({"room.join", "room.update", "room.member.role.update", "room.close"}
                       \cup TypeNames, {"type.define"}),
     restricted |-> Bound({"room.join", "room.leave", "room.member.remove", "message.create",
                           "room.close", "room.cancel"}, {"room.update"})]
=============================================================================
