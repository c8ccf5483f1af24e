--------------------------- MODULE MCConnectorPublish ---------------------------
(***************************************************************************)
(* A mailbox at one relay, moved to a second one with a new key, for a     *)
(* shorter time, and closed.                                               *)
(***************************************************************************)
EXTENDS ConnectorPublish

Payload(routes, key, expires, until) ==
    [routes |-> routes, key |-> key, expires_at |-> expires, receive_until |-> until]

MCPayloads ==
    {Payload({"r1"}, "k1", 2, 3), Payload({"r2"}, "k2", 2, 2), Payload({}, "k1", 2, 3)}

(* Two relays at once.                                                     *)
MCOnePayload == {Payload({"r1", "r2"}, "k1", 2, 2)}
=============================================================================
