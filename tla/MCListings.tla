------------------------------ MODULE MCListings ------------------------------
(* Instances of Listings for TLC: a space with two rooms in it, one of
   them a space of its own whose name has the mark of a bridge; lists that start
   from what the user is in, and lists that start from names in the configuration. *)
EXTENDS Listings

CONSTANTS space, room, other

SpaceChildren ==
  [r \in Rooms |-> CASE r = space -> {room, other} [] r = room -> {other} [] r = other -> {}]

(* Hierarchies of two rooms fit on a page when lists start from the joined rooms, and
   do not when they start from names. *)
JoinedOrNamed ==
  {[curated |-> FALSE, include_all |-> TRUE, page |-> 2],
   [curated |-> TRUE, include_all |-> FALSE, page |-> 1]}
===============================================================================
