------------------------------ MODULE MCRoomState ------------------------------
(* Texts, room states and lists of rooms for TLC. *)
EXTENDS RoomInputs

MCTextChars == {"a", "1", ".", "-", ":", "!", "#"}
MCNameChars == {"a", "A", "1", "-", "/"}

e(type, key, parsed, value) == [type |-> type, key |-> key, parsed |-> parsed, value |-> value]
Unread(types) == {e(t, "", FALSE, None) : t \in types}

(* Of some types a state may have events under two keys. *)
MCStateEvents ==
  {e("m.room.create", "", TRUE, v) : v \in {None, "m.space"}}
  \cup {e("m.room.name", k, TRUE, v) : k \in {"", "k"}, v \in {"", "name"}}
  \cup {e("commune.room.name", "", TRUE, v) : v \in {"", "other name"}}
  \cup {e("commune.room.type", "", TRUE, v) : v \in {None, "chat", "forum"}}
  \cup {e("m.room.topic", k, TRUE, v) : k \in {"", "k"}, v \in {"", "topic"}}
  \cup {e("m.room.avatar", "", TRUE, v) : v \in {None, "", "mxc"}}
  \cup {e("m.room.canonical_alias", "", TRUE, v) : v \in {None, "alias"}}
  \cup {e(t, "", TRUE, "value") :
          t \in {"commune.room.banner", "m.room.history_visibility", "m.room.join_rules",
                 "m.bridge", "m.room.message"}}
  \cup {e("m.space.child", k, TRUE, v) : k \in {"c1", "c2"}, v \in {"via", "no via"}}
  \cup Unread({"m.room.create", "m.room.name", "commune.room.name", "commune.room.type",
               "m.room.avatar", "m.space.child"})

Host == <<"a", ".", "a">>
Entries == <<<<"1">>, <<"a", ":">> \o Host, <<"a">>>>
Server == <<"a", ":", "1">>
MCServers == {Server, Host}

MCListedRooms ==
  {[PublicRoom EXCEPT !.name = n, !.canonical_alias = a, !.topic = t] :
     n \in {"name", Bridged}, t \in {"x", "y"},
     a \in {None, <<"#", "1", ":">> \o Server, <<"#", "a", ":">> \o Server,
            <<"#", "a", ":">> \o Host}}
================================================================================
