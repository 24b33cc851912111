------------------------------ MODULE MCRoomInfo ------------------------------
(* Instances of RoomInfo for TLC: a space with two rooms in it, one of which may
   be looked into without joining and need not be on the first page. *)
EXTENDS RoomInfo

CONSTANTS space, room, other

InSpace == [r \in Rooms |-> IF r = space THEN <<room, other>> ELSE <<>>]
===============================================================================
