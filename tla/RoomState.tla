------------------------------- MODULE RoomState -------------------------------
(***************************************************************************)
(* What the appservice reads from the state of a room: process_rooms makes *)
(* an entry of GET /publicRooms of it (src/rooms.rs), get_room_summary the *)
(* summary of a space or of GET .../info (src/appservice.rs).  Both loop   *)
(* over the state events in the order the homeserver gives them; a step is *)
(* one round of both loops.                                                *)
(*                                                                         *)
(* A state event is told apart by its type, its state key, whether its     *)
(* content parses as the type's, and the one value read from the content.  *)
(***************************************************************************)
EXTENDS RoomNames

CONSTANTS
  ServerName,     \* matrix.server_name
  IncludeRooms,   \* public_rooms.include_rooms, when curated
  None,           \* Option::None
  Bridged,        \* a name with the mark of a bridged room
  StateEvents,    \* the events a state may have
  MaxState        \* bound on the length of a state

(* A name that parses is a text. *)
ASSUME RoomStateAssumption ==
  /\ \A e \in StateEvents :
       e.parsed /\ e.type \in {"m.room.name", "commune.room.name"} => e.value # None
  /\ None # "forum"

VARIABLES
  state,       \* the events read so far
  pub_room,    \* the entry of process_rooms
  room_info    \* the summary of get_room_summary

vars == <<state, pub_room, room_info>>

(* The event types that set a field to the value of their content. *)
Sets == [t \in {"commune.room.name", "m.room.canonical_alias", "m.room.avatar", "m.room.topic",
                "m.room.history_visibility", "commune.room.banner", "commune.room.type",
                "m.room.join_rules"} |->
  CASE t = "commune.room.name" -> "name"
    [] t = "m.room.canonical_alias" -> "canonical_alias"
    [] t = "m.room.avatar" -> "avatar_url"
    [] t = "m.room.topic" -> "topic"
    [] t = "m.room.history_visibility" -> "history_visibility"
    [] t = "commune.room.banner" -> "banner_url"
    [] t = "commune.room.type" -> "type"
    [] t = "m.room.join_rules" -> "join_rule"]

BridgeTypes ==
  {"m.bridge", "m.room.bridged", "m.room.discord", "m.room.irc", "uk.half-shot.bridge"}

------------------------------------------------------------------------------
(* GET /publicRooms. *)

(* None is also the empty string history_visibility starts with.  The time and the
   sender of the creation are left out. *)
PublicRoom ==
  [name |-> None, canonical_alias |-> None, avatar_url |-> None, topic |-> None,
   history_visibility |-> None, banner_url |-> None, type |-> None, join_rule |-> None,
   is_bridge |-> FALSE, children |-> <<>>]

(* Fault: m.room.name overwrites the name. *)
NewName(old, new) == new

(* m.room.name does not overwrite a name. *)
FirstName(old, new) == IF old = None THEN new ELSE old

(* One event.  commune.room.name is the last word on the name; m.room.create has
   no word on the type unless it names one; a child without servers is none. *)
Read(room, e) ==
  IF e.type \in BridgeTypes THEN [room EXCEPT !.is_bridge = TRUE]
  ELSE IF ~e.parsed THEN room
  ELSE CASE e.type = "m.room.create" -> [room EXCEPT !.type = IF e.value = None THEN @ ELSE e.value]
         [] e.type = "m.room.name" -> [room EXCEPT !.name = FirstName(@, e.value)]
         [] e.type \in DOMAIN Sets -> [room EXCEPT ![Sets[e.type]] = e.value]
         [] e.type = "m.space.child" ->
              [room EXCEPT !.children = IF e.value = "via" THEN Append(@, e.key) ELSE @]
         [] OTHER -> room

(* Fault: a room no entry names comes first. *)
UnlistedFirst(room) ==
  Min({i \in 1 .. Len(IncludeRooms) : Completed(IncludeRooms[i], ServerName) = room.canonical_alias}
        \cup {1})

(* Where a curated list puts a room: every entry is completed with the server's
   own name, whole aliases too. *)
Position(room) ==
  Min({i \in 1 .. Len(IncludeRooms) : Completed(IncludeRooms[i], ServerName) = room.canonical_alias}
        \cup {Len(IncludeRooms) + 1})

(* The rooms of bridges are left out by their names.  The sort is stable: a room
   comes after those of smaller position and those of its own that came before it. *)
Shown(rooms) == {i \in 1 .. Len(rooms) : rooms[i].name # Bridged}

Ahead(rooms, i) ==
  {j \in Shown(rooms) :
     \/ Position(rooms[j]) < Position(rooms[i])
     \/ Position(rooms[j]) = Position(rooms[i]) /\ j < i}

Curate(rooms) ==
  [k \in 1 .. Cardinality(Shown(rooms)) |->
     rooms[CHOOSE i \in Shown(rooms) : Cardinality(Ahead(rooms, i)) = k - 1]]

------------------------------------------------------------------------------
(* Summaries. *)

RoomSummary ==
  [name |-> None, canonical_alias |-> None, avatar_url |-> None, banner_url |-> None,
   topic |-> None, room_type |-> "chat"]

(* Fault: an empty value is a value. *)
AnyValue(value) == value

NotEmpty(value) == IF value = "" THEN None ELSE value

(* Fault: a type other than the two is taken over. *)
AnyType(value) == value

RoomType(value) == IF value = "forum" THEN "forum" ELSE "chat"

Summarise(room, e) ==
  IF ~e.parsed THEN room
  ELSE CASE e.type \in {"m.room.canonical_alias", "commune.room.banner"} ->
              [room EXCEPT ![Sets[e.type]] = e.value]
         [] e.type \in {"m.room.avatar", "m.room.topic"} ->
              [room EXCEPT ![Sets[e.type]] = NotEmpty(e.value)]
         [] e.type = "m.room.name" -> [room EXCEPT !.name = NotEmpty(e.value)]
         [] e.type = "commune.room.type" -> [room EXCEPT !.room_type = RoomType(e.value)]
         [] OTHER -> room

------------------------------------------------------------------------------
(* The loops.  Of an event there is one per type and state key. *)

Init == state = <<>> /\ pub_room = PublicRoom /\ room_info = RoomSummary

ReadEvent(e) ==
  /\ Len(state) < MaxState
  /\ \A d \in ToSet(state) : d.type # e.type \/ d.key # e.key
  /\ state' = Append(state, e)
  /\ pub_room' = Read(pub_room, e)
  /\ room_info' = Summarise(room_info, e)

Next == \E e \in StateEvents : ReadEvent(e)
Spec == Init /\ [][Next]_vars

------------------------------------------------------------------------------
(* Texts but for the flag and the children; what the entry and the summary hold was
   read from an event. *)
Contents == {None} \cup {e.value : e \in StateEvents}

TypeOK ==
  /\ state \in Seq(StateEvents)
  /\ pub_room \in
       [name : Contents, canonical_alias : Contents, avatar_url : Contents, topic : Contents,
        history_visibility : Contents, banner_url : Contents, type : Contents,
        join_rule : Contents, is_bridge : BOOLEAN, children : Seq({e.key : e \in StateEvents})]
  /\ room_info \in
       [name : Contents, canonical_alias : Contents, avatar_url : Contents,
        banner_url : Contents, topic : Contents, room_type : {"chat", "forum"}]

(* What the events of a type say; a room without any has None. *)
Said(type) == {e.value : e \in {d \in ToSet(state) : d.type = type /\ d.parsed}}
OrNone(values) == IF values = {} THEN {None} ELSE values

(* In whatever order the events come, the entry of the list of public rooms says
   what they say: the name is commune.room.name if there is one, every field is that
   of an event of its type (there is one, unless under several state keys), every
   child with servers is there once.  Only of the type is it open whether it is that
   of the room's creation or that of commune.room.type, when both name one. *)
ReadsAsReference ==
  /\ pub_room.name \in
       IF Said("commune.room.name") # {} THEN Said("commune.room.name")
                                         ELSE OrNone(Said("m.room.name"))
  /\ \A type \in DOMAIN Sets \ {"commune.room.name", "commune.room.type"} :
       pub_room[Sets[type]] \in OrNone(Said(type))
  /\ pub_room.type \in OrNone((Said("m.room.create") \ {None}) \cup Said("commune.room.type"))
  /\ pub_room.is_bridge <=> \E e \in ToSet(state) : e.type \in BridgeTypes
  /\ ToSet(pub_room.children) = {e.key : e \in {d \in ToSet(state) :
       d.type = "m.space.child" /\ d.parsed /\ d.value = "via"}}
  /\ IsInjective(pub_room.children)

(* The list of public rooms and the summary say the same of a room: a field left
   empty is empty in the one and missing in the other; only the list knows
   commune.room.name, and of several names it has the first, the summary the last; a
   forum is one in both unless its creation names a type. *)
SummaryAgrees ==
  LET Filled(value) == IF value = "" THEN None ELSE value
  IN /\ \A field \in {"canonical_alias", "banner_url"} : room_info[field] = pub_room[field]
     /\ \A field \in {"avatar_url", "topic"} : room_info[field] = Filled(pub_room[field])
     /\ Said("commune.room.name") = {} /\ (\A v, w \in Said("m.room.name") : v = w)
          => room_info.name = Filled(pub_room.name)
     /\ Said("m.room.create") \subseteq {None} =>
          (room_info.room_type = "forum" <=> pub_room.type = "forum")

(* A curated list has the rooms in the order of the entries that name them by
   their local part, all other rooms after them (those of an entry with a whole
   alias, too, which completed is none), none twice and none lost. *)
Named(room) == {i \in 1 .. Len(IncludeRooms) :
  /\ ~Whole(IncludeRooms[i])
  /\ EntryAlias(IncludeRooms[i], ServerName) = room.canonical_alias}

CuratedInOrder(rooms) ==
  LET list == Curate(rooms) IN
  /\ ToSet(list) = ToSet(rooms) \ {room \in ToSet(rooms) : room.name = Bridged}
  /\ Len(list) <= Len(rooms)
  /\ \A i \in 1 .. Len(list) : \A j \in 1 .. (i - 1) :
       Named(list[i]) # {} /\ ~IsNumber(ServerName) =>
         Named(list[j]) # {} /\ Min(Named(list[j])) <= Min(Named(list[i]))
================================================================================
