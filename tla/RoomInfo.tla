------------------------------- MODULE RoomInfo -------------------------------
(***************************************************************************)
(* GET /_matrix/client/v3/rooms/{room_id}/info (room_info, src/rooms.rs):  *)
(* the summary of a room, on request that of the room on the first page of *)
(* its hierarchy whose name has a given slug, and on request an event and  *)
(* its sender's profile.  Up to seven requests to the homeserver, one      *)
(* after the other; the first that fails is the answer.                    *)
(*                                                                         *)
(* Between any two of them the user joins and leaves rooms, and rooms are  *)
(* renamed.  The verdict that let the request through may be stale (module *)
(* RoomGate), so any room may be asked about; a reader keeps to one.       *)
(***************************************************************************)
EXTENDS Naturals, Sequences, FiniteSets

CONSTANTS
  Rooms,        \* the rooms
  OpenRooms,    \* rooms a hierarchy lists although the user is not in them
  Children,     \* Children[r]: what the hierarchy of r lists after r itself, in order
  PageSize,     \* rooms a page of a hierarchy has at least, where there are as many
  Slugs,        \* the slugs of the rooms' names
  NoSlug,       \* a request that names none; a room without a name
  Requests,     \* the requests under way at a time
  Lossy,        \* the homeserver may fail
  MaxChanges    \* bound: joins, leaves and new names

ASSUME RoomInfoAssumption ==
  /\ OpenRooms \subseteq Rooms
  /\ Children \in [Rooms -> Seq(Rooms)]
  /\ PageSize \in Nat
  /\ NoSlug \notin Slugs
  /\ Lossy \in BOOLEAN /\ MaxChanges \in Nat

VARIABLES
  joined,    \* the rooms the user is in
  name,      \* [Rooms -> Slugs \cup {NoSlug}]: the slug of the room's name
  request,   \* [Requests -> Request]
  changes    \* joins, leaves and new names (counted for the bound only)

vars == <<joined, name, request, changes>>

Request ==
  [at : {"idle", "membership", "state", "hierarchy", "event", "profile", "served", "failed"},
   base : Rooms,                     \* the room the gate let through
   slug : Slugs \cup {NoSlug},       \* the query's room
   wants : BOOLEAN,                  \* the query has an event
   current : Rooms,                  \* parsed_id
   shown : Seq(Rooms),               \* the rooms whose summaries the answer has
   event : SUBSET Rooms,             \* the room of the answer's event, if it has one
   wasIn : SUBSET Rooms,             \* history: rooms the user was in at some time since
   stayed : SUBSET Rooms,            \* history: rooms it was in all the time since
   names : SUBSET (Rooms \X (Slugs \cup {NoSlug}))]   \* history: names rooms had since

TypeOK ==
  /\ joined \subseteq Rooms
  /\ name \in [Rooms -> Slugs \cup {NoSlug}]
  /\ request \in [Requests -> Request]
  /\ \A rd \in Requests : /\ Len(request[rd].shown) <= 2
                          /\ request[rd].at = "served" => request[rd].shown # <<>>
  /\ changes \in Nat

NamesNow == {<<r, name[r]>> : r \in Rooms}

Idle(r) == [at |-> "idle", base |-> r, slug |-> NoSlug, wants |-> FALSE, current |-> r,
            shown |-> <<>>, event |-> {}, wasIn |-> {}, stayed |-> {}, names |-> {}]

Init ==
  /\ joined \in SUBSET Rooms
  /\ name \in [Rooms -> Slugs \cup {NoSlug}]
  /\ request \in [Requests -> {Idle(r) : r \in Rooms}]
  /\ changes = 0

------------------------------------------------------------------------------
Put(rd, rec) ==
  /\ request' = [request EXCEPT ![rd] = rec]
  /\ UNCHANGED <<joined, name, changes>>

GoTo(rd, place) == Put(rd, [request[rd] EXCEPT !.at = place])

Ask(rd, slug, wants) ==
  /\ request[rd].at = "idle"
  /\ LET base == request[rd].base IN
     Put(rd, [at |-> "membership", base |-> base, slug |-> slug, wants |-> wants,
              current |-> base, shown |-> <<>>, event |-> {},
              wasIn |-> joined, stayed |-> joined, names |-> NamesNow])

(* Fault: the room's membership is not asked for. *)
SkipMembership(rd) == request[rd].at = "membership" /\ GoTo(rd, "state")

(* get_room_summary: has_joined_room, then the state, which the homeserver gives
   of a room the user is no longer in or not.  Of a room it is in it gives both. *)
Membership(rd) ==
  /\ request[rd].at = "membership"
  /\ \/ request[rd].current \in joined /\ GoTo(rd, "state")
     \/ (request[rd].current \in joined => Lossy) /\ GoTo(rd, "failed")

(* Fault: the loop over the hierarchy goes on after the summary. *)
HierarchyAgain(req) ==
  IF req.slug # NoSlug THEN "hierarchy" ELSE IF req.wants THEN "event" ELSE "served"

(* What comes after a summary: the named room, once; the event. *)
AfterSummary(req) ==
  IF req.shown = <<>> /\ req.slug # NoSlug THEN "hierarchy"
  ELSE IF req.wants THEN "event" ELSE "served"

State(rd) ==
  /\ request[rd].at = "state"
  /\ \/ Put(rd, [request[rd] EXCEPT !.shown = Append(@, request[rd].current),
                                    !.at = AfterSummary(request[rd])])
     \/ (request[rd].current \in joined => Lossy) /\ GoTo(rd, "failed")

(* What the homeserver may list of the hierarchy of r: the room first. *)
Order(r) == <<r>> \o Children[r]

Listed(r) == r \in joined \cup OpenRooms

(* get_room_hierarchy: the places a page stands for, all or those up to where the
   homeserver ends it.  The page after it is not asked for. *)
Pages(r) ==
  {1 .. n : n \in {k \in 1 .. Len(Order(r)) :
                    \/ k = Len(Order(r))
                    \/ Cardinality({i \in 1 .. k : Listed(Order(r)[i])}) >= PageSize}}

(* Where a room on the page has the slug. *)
Found(req, page) ==
  {i \in page : LET r == Order(req.base)[i] IN Listed(r) /\ name[r] = req.slug}

(* Fault: the last of them. *)
LastOf(places) == {i \in places : \A j \in places : j <= i}
FirstOf(places) == {i \in places : \A j \in places : i <= j}

(* A slug no room on the page has leaves the request at the room it started from. *)
Pick(rd, page) ==
  LET req == request[rd] IN
  \/ /\ Found(req, page) = {}
     /\ GoTo(rd, IF req.wants THEN "event" ELSE "served")
  \/ \E i \in FirstOf(Found(req, page)) :
       Put(rd, [req EXCEPT !.at = "membership", !.current = Order(req.base)[i]])

Hierarchy(rd) ==
  LET base == request[rd].base IN
  /\ request[rd].at = "hierarchy"
  /\ \/ Listed(base) /\ \E page \in Pages(base) : Pick(rd, page)
     \/ (Listed(base) => Lossy) /\ GoTo(rd, "failed")

(* Fault: the event of the room the request names. *)
BaseEvent(req) == {req.base}
EventRoom(req) == {req.current}

(* The event, which has to be one of the room. *)
Event(rd) ==
  /\ request[rd].at = "event"
  /\ \/ Put(rd, [request[rd] EXCEPT !.event = EventRoom(request[rd]), !.at = "profile"])
     \/ GoTo(rd, "failed")

Profile(rd) ==
  /\ request[rd].at = "profile"
  /\ GoTo(rd, "served") \/ (Lossy /\ GoTo(rd, "failed"))

Answer(rd) ==
  /\ request[rd].at \in {"served", "failed"}
  /\ Put(rd, Idle(request[rd].base))

(* The client goes away. *)
Abandon(rd) ==
  /\ request[rd].at \notin {"idle", "served", "failed"}
  /\ Put(rd, Idle(request[rd].base))

RequestStep(rd) ==
  Membership(rd) \/ State(rd) \/ Hierarchy(rd) \/ Event(rd) \/ Profile(rd) \/ Answer(rd)

------------------------------------------------------------------------------
(* The user's rooms and the rooms' names change; the requests see it later. *)

Change(rooms, names) ==
  /\ changes < MaxChanges
  /\ changes' = changes + 1
  /\ joined' = rooms /\ name' = names
  /\ request' = [rd \in Requests |->
       IF request[rd].at = "idle" THEN request[rd]
       ELSE [request[rd] EXCEPT !.wasIn = @ \cup rooms, !.stayed = @ \cap rooms,
                                !.names = @ \cup {<<r, names[r]>> : r \in Rooms}]]

Join(r) == r \notin joined /\ Change(joined \cup {r}, name)
Leave(r) == r \in joined /\ Change(joined \ {r}, name)
Rename(r, slug) == slug # name[r] /\ Change(joined, [name EXCEPT ![r] = slug])

Next ==
  \/ \E rd \in Requests :
       \/ \E slug \in Slugs \cup {NoSlug}, wants \in BOOLEAN : Ask(rd, slug, wants)
       \/ RequestStep(rd)
       \/ Abandon(rd)
  \/ \E r \in Rooms : Join(r) \/ Leave(r) \/ \E slug \in Slugs \cup {NoSlug} : Rename(r, slug)

Spec == Init /\ [][Next]_vars

------------------------------------------------------------------------------
Served(rd) == request[rd].at = "served"

(* A summary is served only of a room the user was in while the request was under
   way: neither a stale verdict of the gate nor a hierarchy that lists rooms the
   user is not in, nor a leave in between, brings out the state of another. *)
ShowsOwnRooms ==
  \A rd \in Requests : LET req == request[rd] IN
    Served(rd) => \A i \in 1 .. Len(req.shown) : req.shown[i] \in req.wasIn

(* The answer is about one room: the event is of the room shown last, which is the
   room asked about or one that had the slug asked for when it was found. *)
AnswerHangsTogether ==
  \A rd \in Requests : LET req == request[rd] IN
    Served(rd) =>
      /\ req.shown[1] = req.base
      /\ req.event \subseteq {req.shown[Len(req.shown)]}
      /\ Len(req.shown) = 2 => <<req.shown[2], req.slug>> \in req.names

(* A room that kept the slug asked for, and the user in it, is found, or one before
   it, when its place in the hierarchy is on every first page: an answer about the
   room itself means there was none, as far as one page reaches.  Of a room further
   back nothing is promised. *)
Kept(req, r) ==
  /\ r \in req.stayed
  /\ \A slug \in Slugs \cup {NoSlug} : <<r, slug>> \in req.names <=> slug = req.slug

Ahead(r) == {i \in 1 .. Len(Order(r)) : i <= PageSize}

FindsFirstOfName ==
  \A rd \in Requests : LET req == request[rd] IN
    Served(rd) /\ req.slug # NoSlug =>
      \A i \in Ahead(req.base) : Kept(req, Order(req.base)[i]) =>
        /\ Len(req.shown) = 2
        /\ \E j \in 1 .. i : req.shown[2] = Order(req.base)[j]
===============================================================================
