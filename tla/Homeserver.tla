------------------------------ MODULE Homeserver ------------------------------
(***************************************************************************)
(* The Matrix homeserver as the appservice meets it: the membership of the *)
(* appservice's own user in each room, the stream of room events that is   *)
(* pushed to PUT /_matrix/app/v1/transactions/{txn_id}, and the client API *)
(* requests AppService (src/appservice.rs) sends: join, leave, hierarchy.  *)
(*                                                                         *)
(* Everything here is outside the repository; it is modelled from how the  *)
(* code uses it.  The registration's room namespace is "!.*:.*", so the    *)
(* events of every room are pushed, those of rooms the user left included. *)
(***************************************************************************)
EXTENDS Naturals, Sequences, FiniteSets

CONSTANTS
  Rooms,        \* the rooms
  OpenRooms,    \* rooms with a public join rule: no invite is needed to join
  BootRooms,    \* rooms the user is in when the appservice first starts
  Children,     \* Children[r]: the rooms in the hierarchy of r besides r itself
  PageSize,     \* rooms a page of a hierarchy has at least, where there are as many
  RaisedKinds,  \* the kinds of event the homeserver's users cause in this instance
  MaxRaised,    \* bound: number of events users cause
  Paced,        \* users act only when the appservice has nothing left to do
  Lossy         \* requests to the homeserver and to Redis may fail

(* The events, told apart as far as the handler tells them apart.  The three
   member kinds are those whose state_key is the appservice's own user;
   "other" is every event no branch of the handler acts on. *)
MemberKinds == {"invite", "leave", "ban"}
RoomKinds == {"world_readable", "space_child", "public_true", "public_false",
              "message", "redaction", "other"}
Kinds == MemberKinds \cup RoomKinds

Event == [kind : Kinds, room : Rooms, child : Rooms, sender : {"user", "appservice"}]
Membership == {"leave", "invite", "join", "ban"}

ASSUME HomeserverAssumption ==
  /\ OpenRooms \subseteq Rooms
  /\ BootRooms \subseteq Rooms
  /\ Children \in [Rooms -> SUBSET Rooms]
  /\ PageSize \in Nat
  /\ RaisedKinds \subseteq Kinds
  /\ MaxRaised \in Nat
  /\ Paced \in BOOLEAN
  /\ Lossy \in BOOLEAN

VARIABLES
  membership,   \* [Rooms -> Membership]: the appservice user's membership
  log,          \* every event so far, in the order the homeserver pushes them
  raised        \* how many of them users caused (counted for the bound only)

hsVars == <<membership, log, raised>>

HomeserverTypeOK ==
  /\ membership \in [Rooms -> Membership]
  /\ log \in Seq(Event)
  /\ raised \in Nat

HomeserverInit ==
  /\ membership = [r \in Rooms |-> IF r \in BootRooms THEN "join" ELSE "leave"]
  /\ log = <<>>
  /\ raised = 0

Joined == {r \in Rooms : membership[r] = "join"}

MemberEvent(kind, r, by) == [kind |-> kind, room |-> r, child |-> r, sender |-> by]

------------------------------------------------------------------------------
(* What users do. *)

Raise(e) ==
  /\ e.kind \in RaisedKinds
  /\ raised < MaxRaised
  /\ raised' = raised + 1
  /\ log' = Append(log, e)

(* An event of the room itself.  A space_child event names a child of the space. *)
RoomEvent(r, kind) ==
  /\ UNCHANGED membership
  /\ \E child \in IF kind = "space_child" THEN Children[r] ELSE {r} :
        Raise([kind |-> kind, room |-> r, child |-> child, sender |-> "user"])

(* Invite, kick (or withdrawn invite), ban and unban of the appservice user. *)
Invite(r) ==
  /\ membership[r] = "leave"
  /\ membership' = [membership EXCEPT ![r] = "invite"]
  /\ Raise(MemberEvent("invite", r, "user"))

Kick(r) ==
  /\ membership[r] # "leave"
  /\ membership' = [membership EXCEPT ![r] = "leave"]
  /\ Raise(MemberEvent("leave", r, "user"))

Ban(r) ==
  /\ membership[r] # "ban"
  /\ membership' = [membership EXCEPT ![r] = "ban"]
  /\ Raise(MemberEvent("ban", r, "user"))

UserAct(r) ==
  \/ \E kind \in RoomKinds : RoomEvent(r, kind)
  \/ Invite(r)
  \/ Kick(r)
  \/ Ban(r)

------------------------------------------------------------------------------
(* What the appservice asks.  "err" is any failure the client library reports,
   a reply lost after the homeserver did the work included. *)
Replies == {"ok", "err"}

MayJoin(r) ==
  \/ membership[r] \in {"invite", "join"}
  \/ membership[r] = "leave" /\ r \in OpenRooms

(* POST /join.  The join's own member event is not kept in the log: the
   handler's match on the membership has no arm for it. *)
HsJoin(r, reply) ==
  \/ /\ MayJoin(r)
     /\ reply = "ok" \/ Lossy
     /\ membership' = [membership EXCEPT ![r] = "join"]
     /\ UNCHANGED <<log, raised>>
  \/ /\ reply = "err"
     /\ ~MayJoin(r) \/ Lossy
     /\ UNCHANGED hsVars

(* POST /leave: also rejects a pending invite.  The leave comes back to the
   appservice as a member event about its own user. *)
HsLeave(r, reply) ==
  \/ /\ membership[r] \in {"invite", "join"}
     /\ reply = "ok" \/ Lossy
     /\ membership' = [membership EXCEPT ![r] = "leave"]
     /\ log' = Append(log, MemberEvent("leave", r, "appservice"))
     /\ UNCHANGED raised
  \/ /\ \/ membership[r] = "leave"                \* nothing to do: servers differ
        \/ membership[r] = "ban" /\ reply = "err"
        \/ Lossy /\ reply = "err"
     /\ UNCHANGED hsVars

(* GET /hierarchy: an error for a room the user may not look into, otherwise
   the room itself and those of its children the user may look into, or the first
   page of them.  Nobody asks for the next page; where a page ends is for the
   homeserver to say. *)
MayLook(r) == membership[r] \in {"invite", "join"} \/ r \in OpenRooms

Listed(r) == {c \in Children[r] : MayLook(c)}

Pages(r) == {page \in SUBSET Listed(r) : page # Listed(r) => Cardinality(page) >= PageSize}

HsHierarchy(r, reply) ==
  /\ UNCHANGED hsVars
  /\ IF MayLook(r) THEN reply = "ok" \/ Lossy ELSE reply = "err"
==============================================================================
