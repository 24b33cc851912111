------------------------------- MODULE MCService -------------------------------
(* Instances of Service for TLC: a room in a space, users who invite and make
   the appservice leave. *)
EXTENDS Service

CONSTANTS space, room

SpaceChildren == [r \in Rooms |-> IF r = space THEN {room} ELSE {}]
================================================================================
