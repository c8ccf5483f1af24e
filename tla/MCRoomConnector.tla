---------------------------- MODULE MCRoomConnector ----------------------------
(***************************************************************************)
(* A room with a control and a signal type of its own.                     *)
(***************************************************************************)
EXTENDS RoomConnector

MCCustomTypes == [turn |-> "control", react |-> "signal"]
=============================================================================
