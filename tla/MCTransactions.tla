---------------------------- MODULE MCTransactions ----------------------------
(* Instances of Transactions for TLC: a space, one room in it, and (where the
   whitelist matters) a room of another server. *)
EXTENDS Transactions

CONSTANTS space, room, remote

SpaceChildren == [r \in Rooms |-> IF r = space THEN {room} ELSE {}]
NoChildren == [r \in Rooms |-> {}]

AccessKinds == {"invite", "leave", "ban", "public_true", "public_false", "message", "other"}
CauseKinds == Kinds \ {"ban", "message", "redaction", "other"}
JoinKinds == {"invite", "public_true", "public_false", "leave"}
==============================================================================
