----------------------------- MODULE MCConnectorMail -----------------------------
(***************************************************************************)
(* One message, two relays and two cards, of which the second leaves the   *)
(* first relay; a packet at the second relay that cannot be opened.  In    *)
(* MovedRoutes the second card has none of the routes of the first.         *)
(***************************************************************************)
EXTENDS ConnectorMail

CONSTANTS m1, r1, r2, junk

MCExpires == [m \in Msgs |-> 2]
MCRoutes == <<<<r1, r2>>, <<r2>>>>
MovedRoutes == <<<<r1>>, <<r2>>>>
MCUsableUntil == <<1, 3>>
MCPinnedUntil == <<1, 3>>
MCReceiveUntil == <<2, 3>>
MCUndecryptable == [r \in Relays |-> IF r = r2 THEN {junk} ELSE {}]
=============================================================================
