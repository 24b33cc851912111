------------------------------ MODULE MCRoomGate ------------------------------
(* Instances of RoomGate for TLC. *)
EXTENDS RoomGate

CONSTANTS room, remote

NoChildren == [r \in Rooms |-> {}]
==============================================================================
