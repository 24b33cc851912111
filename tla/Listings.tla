------------------------------- MODULE Listings -------------------------------
(***************************************************************************)
(* The lists the appservice makes of its rooms: GET /publicRooms           *)
(* (src/rooms.rs), GET /spaces, GET /spaces/{space}/rooms and, a list of   *)
(* one, GET /spaces/{space} (src/space.rs).  A list comes from Redis, or   *)
(* it is put together by asking the homeserver about many rooms at once,   *)
(* no more of them at a time than a semaphore has permits                  *)
(* (src/appservice.rs); a room one of whose requests fails is dropped from *)
(* the list.  Of a hierarchy it reads the first page the homeserver gives. *)
(* No request to the homeserver has a timeout: one that never ends keeps   *)
(* its permit.                                                             *)
(*                                                                         *)
(* The user joins and leaves rooms meanwhile (module Transactions says     *)
(* when).  A room stands for its alias, too; what a list says of a room    *)
(* besides its being there is left out.                                    *)
(***************************************************************************)
EXTENDS Naturals, Sequences, FiniteSetsExt

CONSTANTS
  Rooms,          \* the rooms
  Children,       \* Children[r]: the rooms in the hierarchy of r besides r itself
  OpenRooms,      \* rooms a hierarchy lists although the user is not in them
  Bridged,        \* rooms whose name has the mark of a bridge
  Space,          \* the space GET /spaces/{space} and its /rooms are asked for
  Configs,        \* the settings of this instance: of [public_rooms] and [spaces], and
                  \* the rooms besides its own on a page of a hierarchy
  IncludeRooms,   \* public_rooms.include_rooms
  DefaultSpaces,  \* spaces.default
  CachedLists,    \* the lists whose cache is enabled
  Ttl,            \* the time a list is cached for, in clock ticks
  Permits,        \* permits of a request's semaphore
  Requests,       \* the requests under way at a time
  AskedLists,     \* the lists they may ask for in this instance
  Lossy,          \* Redis and the homeserver may fail
  Latency,        \* bound: ticks up to which it is counted how long a list took
  MaxChanges      \* bound: joins and leaves of the user

Lists == {"public_rooms", "public_spaces", "space_rooms", "space_summary"}

ASSUME ListingsAssumption ==
  /\ IsFiniteSet(Rooms) /\ Children \in [Rooms -> SUBSET Rooms]
  /\ Space \in Rooms /\ OpenRooms \subseteq Rooms /\ Bridged \subseteq Rooms
  /\ Configs \subseteq [curated : BOOLEAN, include_all : BOOLEAN, page : Nat \ {0}]
  /\ Lossy \in BOOLEAN
  /\ IncludeRooms \subseteq Rooms /\ DefaultSpaces \subseteq Rooms
  /\ CachedLists \subseteq Lists /\ AskedLists \subseteq Lists
  /\ Ttl \in Nat \ {0} /\ Permits \in Nat \ {0}
  /\ Latency \in Nat /\ MaxChanges \in Nat

VARIABLES
  config,    \* the settings: one of Configs, for good
  joined,    \* the rooms the user is in
  entry,     \* Redis: [Lists -> Entry or NoEntry]
  request,   \* [Requests -> Request]
  changes,   \* joins and leaves (counted for the bound only)
  gone,      \* history: ticks since the user was last in the room, up to Never
  here,      \* history: ticks the user has been in the room, up to Never
  calm       \* history: ticks since a list went on without what failed, up to Never

vars == <<config, joined, entry, request, changes, gone, here, calm>>

Curated == config.curated /\ IncludeRooms # {}
IncludeAll == config.include_all

PageSize == config.page

Never == Ttl + Latency
Late == Latency + 1
Entry == [rooms : SUBSET Rooms, ttl : Nat \ {0}, took : 0 .. Late]   \* took: history
NoEntry == [ttl |-> 0]

(* Asking the homeserver about one room: the room and the number of the request
   that is under way. *)
Query == [room : Rooms, step : 1 .. 3]

Request ==
  [list : Lists,
   at : {"idle", "resolve", "lookup", "again", "list", "entries", "rooms", "store",
         "served", "failed", "refused"},
   waiting : SUBSET Rooms,      \* rooms that wait for a permit
   running : SUBSET Query,      \* rooms that hold one
   free : Nat,                  \* permits nobody holds
   found : SUBSET Rooms,        \* rooms all of whose requests succeeded, or the list served
   elapsed : 0 .. Late,         \* history: ticks the list took so far, or the one served
   trouble : BOOLEAN,           \* history: a request failed
   stayed : SUBSET Rooms,       \* history: rooms the user was in from the first request on
   given : SUBSET Rooms]        \* history: rooms on the pages of hierarchies it was given

TypeOK ==
  /\ config \in Configs
  /\ joined \subseteq Rooms
  /\ entry \in [Lists -> Entry \cup {NoEntry}] /\ \A l \in Lists : entry[l].ttl <= Ttl
  /\ request \in [Requests -> Request]
  /\ \A rd \in Requests : request[rd].free + Cardinality(request[rd].running) = Permits
  /\ changes \in Nat
  /\ gone \in [Rooms -> 0 .. Never] /\ here \in [Rooms -> 0 .. Never] /\ calm \in 0 .. Never

Idle(l) == [list |-> l, at |-> "idle", waiting |-> {}, running |-> {}, free |-> Permits,
            found |-> {}, elapsed |-> 0, trouble |-> FALSE, stayed |-> {}, given |-> {}]

Init ==
  /\ config \in Configs
  /\ joined \in SUBSET Rooms
  /\ entry = [l \in Lists |-> NoEntry]
  /\ request \in [Requests -> {Idle(l) : l \in AskedLists}]
  /\ changes = 0
  /\ gone = [r \in Rooms |-> IF r \in joined THEN 0 ELSE Never]
  /\ here = [r \in Rooms |-> IF r \in joined THEN Never ELSE 0]
  /\ calm = Never

------------------------------------------------------------------------------
(* The homeserver, as the code uses it. *)

Hierarchy(r) == {c \in Children[r] : c \in joined \cup OpenRooms}

(* The first page of a hierarchy, the only one asked for: all of it, or as many
   rooms as a page holds.  Which ones is for the homeserver to say. *)
Pages(r) ==
  IF Cardinality(Hierarchy(r)) <= PageSize
    THEN {Hierarchy(r)}
    ELSE {page \in SUBSET Hierarchy(r) : Cardinality(page) = PageSize}

(* Whether it says yes to request q about room r.  The state of a room the user
   is no longer in is given or not: servers and rooms differ. *)
Yes(q, r) ==
  IF q = "state" /\ r \notin joined
    THEN BOOLEAN
    ELSE {q = "alias" \/ (r \in joined /\ (q = "is_space" => Hierarchy(r) # {}))}

------------------------------------------------------------------------------
(* Getting to the list. *)

Put(rd, rec) ==
  /\ request' = [request EXCEPT ![rd] = rec]
  /\ UNCHANGED <<config, joined, changes, gone, here>>

GoTo(rd, place) == Put(rd, [request[rd] EXCEPT !.at = place])
ServeCached(rd) ==
  LET e == entry[request[rd].list]
  IN Put(rd, [request[rd] EXCEPT !.at = "served", !.found = e.rooms, !.elapsed = e.took])

ListOf(rd) == request[rd].list
Hit(rd) == entry[ListOf(rd)] # NoEntry
IsCached(rd) == ListOf(rd) \in CachedLists

(* /spaces is refused when there are no default spaces; /spaces/{space}/rooms
   resolves the space first.  Lists share no key, so a reader keeps to one. *)
Ask(rd) ==
  /\ request[rd].at = "idle"
  /\ GoTo(rd, CASE ListOf(rd) = "public_spaces" /\ DefaultSpaces = {} -> "refused"
                [] ListOf(rd) = "space_rooms" -> "resolve"
                [] OTHER -> IF IsCached(rd) THEN "lookup" ELSE "list")
  /\ UNCHANGED <<entry, calm>>

Resolve(rd) ==
  /\ request[rd].at = "resolve"
  /\ GoTo(rd, IF IsCached(rd) THEN "lookup" ELSE "list") \/ (Lossy /\ GoTo(rd, "failed"))
  /\ UNCHANGED <<entry, calm>>

(* Fault: a list that is used is recorded again. *)
LookupRenews(rd) ==
  /\ request[rd].at = "lookup"
  /\ \/ /\ Hit(rd)
        /\ ServeCached(rd)
        /\ entry' = [entry EXCEPT ![ListOf(rd)].ttl = Ttl]
     \/ ~Hit(rd) /\ GoTo(rd, "again") /\ UNCHANGED entry
  /\ UNCHANGED calm

(* The handler's own lookup, whose errors are misses.  /spaces does not take an
   empty list from it. *)
NotTaken(rd) == ListOf(rd) = "public_spaces" /\ entry["public_spaces"].rooms = {}

Lookup(rd) ==
  /\ request[rd].at = "lookup"
  /\ \/ Hit(rd) /\ ~NotTaken(rd) /\ ServeCached(rd)
     \/ (Hit(rd) => NotTaken(rd) \/ Lossy) /\ GoTo(rd, "again")
  /\ UNCHANGED <<entry, calm>>

(* The lookup in cache_or_fetch takes any list.  An error, or a key that expires
   between EXISTS and GET, ends the request. *)
LookAgain(rd) ==
  /\ request[rd].at = "again"
  /\ \/ Hit(rd) /\ ServeCached(rd)
     \/ ~Hit(rd) /\ GoTo(rd, "list")
     \/ (Hit(rd) \/ Lossy) /\ GoTo(rd, "failed")
  /\ UNCHANGED <<entry, calm>>

------------------------------------------------------------------------------
(* Putting the list together. *)

(* joined_rooms_state and get_public_spaces with include_all start from the
   rooms the user is in, get_space_rooms from a page of the space's hierarchy, the
   others from names in the configuration. *)
FromJoined(l) ==
  \/ l = "public_rooms" /\ ~Curated
  \/ l = "public_spaces" /\ IncludeAll

FirstRooms(l) ==
  CASE FromJoined(l) -> {joined}
    [] l = "public_rooms" /\ Curated -> {IncludeRooms}
    [] l = "public_spaces" /\ ~IncludeAll -> {DefaultSpaces}
    [] l = "space_rooms" -> Pages(Space)
    [] l = "space_summary" -> {{Space}}

Begin(rd, place, rooms) ==
  Put(rd, [request[rd] EXCEPT !.at = place, !.waiting = rooms, !.stayed = joined,
                              !.given = IF ListOf(rd) = "space_rooms" THEN rooms ELSE {}])

(* A first request that fails makes an empty list of public rooms, and an error
   of the other two. *)
NoList(rd) ==
  IF ListOf(rd) = "public_rooms" THEN Begin(rd, "rooms", {}) ELSE GoTo(rd, "failed")

NeedsFirst(l) == FromJoined(l) \/ l = "space_rooms"

List(rd) ==
  /\ request[rd].at = "list"
  /\ LET l == ListOf(rd) IN
       \/ /\ l = "space_rooms" => Space \in joined
          /\ FromJoined(l) => joined # {}
          /\ \E rooms \in FirstRooms(l) :
               Begin(rd, IF l = "public_rooms" /\ Curated THEN "entries" ELSE "rooms", rooms)
          /\ UNCHANGED calm
       \/ l = "space_rooms" /\ Space \notin joined /\ NoList(rd) /\ UNCHANGED calm
       \/ FromJoined(l) /\ joined = {} /\ NoList(rd) /\ UNCHANGED calm
       \/ /\ NeedsFirst(l) /\ Lossy
          /\ IF l = "public_rooms"
               THEN Put(rd, [request[rd] EXCEPT !.at = "rooms", !.trouble = TRUE]) /\ calm' = 0
               ELSE GoTo(rd, "failed") /\ UNCHANGED calm
  /\ UNCHANGED entry

(* The requests made about each room, in order. *)
Steps(rd) ==
  IF request[rd].at = "entries" THEN <<"alias", "hierarchy">>
  ELSE IF ListOf(rd) = "public_rooms" THEN <<"state">>
  ELSE IF ListOf(rd) = "public_spaces" /\ IncludeAll THEN <<"is_space", "joined", "state">>
  ELSE IF ListOf(rd) \in {"public_spaces", "space_summary"} THEN <<"alias", "joined", "state">>
  ELSE <<"joined", "state">>

Gathering(rd) == request[rd].at \in {"entries", "rooms"}
Gathered(rd) == Gathering(rd) /\ request[rd].waiting = {} /\ request[rd].running = {}

(* Fault: rooms are asked about in batches, one after the other. *)
AcquireInBatches(rd, r) ==
  /\ Gathering(rd) /\ r \in request[rd].waiting
  /\ \E batch \in SUBSET request[rd].waiting :
       /\ r \in batch /\ request[rd].free = Permits
       /\ Cardinality(batch) = Min({Permits, Cardinality(request[rd].waiting)})
       /\ Put(rd, [request[rd] EXCEPT !.waiting = @ \ batch, !.free = @ - Cardinality(batch),
                                      !.running = {[room |-> b, step |-> 1] : b \in batch}])
  /\ UNCHANGED <<entry, calm>>

Acquire(rd, r) ==
  /\ Gathering(rd) /\ r \in request[rd].waiting /\ request[rd].free > 0
  /\ Put(rd, [request[rd] EXCEPT !.waiting = @ \ {r}, !.free = @ - 1,
                                 !.running = @ \cup {[room |-> r, step |-> 1]}])
  /\ UNCHANGED <<entry, calm>>

(* A room's last answer: it is on the list; an entry brings the rooms on the page
   of its hierarchy with it. *)
Brings(rd, r) == IF request[rd].at = "entries" THEN Pages(r) ELSE {{}}

Advance(rd, query) ==
  IF query.step < Len(Steps(rd))
    THEN Put(rd, [request[rd] EXCEPT !.running = (@ \ {query}) \cup {[query EXCEPT !.step = @ + 1]}])
    ELSE \E page \in Brings(rd, query.room) :
           Put(rd, [request[rd] EXCEPT !.running = @ \ {query}, !.free = @ + 1,
                                       !.found = @ \cup {query.room} \cup page,
                                       !.given = @ \cup page])

(* Fault: a room that is dropped keeps its permit. *)
DropKeepsPermit(rd, query, troubled) ==
  Put(rd, [request[rd] EXCEPT !.running = @ \ {query}, !.trouble = @ \/ troubled])

(* Fault: the first room to fail ends the gathering. *)
DropAll(rd, query, troubled) ==
  Put(rd, [request[rd] EXCEPT !.running = {}, !.waiting = {}, !.free = Permits,
                              !.trouble = @ \/ troubled])

Drop(rd, query, troubled) ==
  Put(rd, [request[rd] EXCEPT !.running = @ \ {query}, !.free = @ + 1,
                              !.trouble = @ \/ troubled])

Reply(rd, query) ==
  /\ Gathering(rd) /\ query \in request[rd].running
  /\ \/ /\ \E yes \in Yes(Steps(rd)[query.step], query.room) :
             IF yes THEN Advance(rd, query) ELSE Drop(rd, query, FALSE)
        /\ UNCHANGED calm
     \/ Lossy /\ Drop(rd, query, TRUE) /\ calm' = 0
  /\ UNCHANGED entry

(* join_all is done.  A curated list goes on from its entries to their rooms;
   include_all that found no space is an error, and so is a space that has no
   summary.  process_rooms leaves out the rooms whose name marks them as bridged. *)
NeedsRoom(l) == (l = "public_spaces" /\ IncludeAll) \/ l = "space_summary"

Unlisted(l) == IF l = "public_rooms" THEN Bridged ELSE {}

Finish(rd) ==
  /\ Gathered(rd)
  /\ CASE request[rd].at = "entries" ->
            Put(rd, [request[rd] EXCEPT !.at = "rooms", !.waiting = request[rd].found, !.found = {}])
       [] request[rd].at = "rooms" /\ NeedsRoom(ListOf(rd)) /\ request[rd].found = {} ->
            GoTo(rd, "failed")
       [] OTHER ->
            Put(rd, [request[rd] EXCEPT !.at = IF IsCached(rd) THEN "store" ELSE "served",
                                        !.found = @ \ Unlisted(ListOf(rd))])
  /\ UNCHANGED <<entry, calm>>

(* SETEX, whose failure is ignored. *)
Store(rd) ==
  /\ request[rd].at = "store"
  /\ \/ entry' = [entry EXCEPT ![ListOf(rd)] = [rooms |-> request[rd].found, ttl |-> Ttl,
                                                      took |-> request[rd].elapsed]]
     \/ Lossy /\ UNCHANGED entry
  /\ GoTo(rd, "served")
  /\ UNCHANGED calm

Answer(rd) ==
  /\ request[rd].at \in {"served", "failed", "refused"}
  /\ Put(rd, Idle(ListOf(rd)))
  /\ UNCHANGED <<entry, calm>>

(* The client goes away: the request is dropped with all it has under way. *)
Abandon(rd) ==
  /\ request[rd].at \notin {"idle", "served", "failed", "refused"}
  /\ Put(rd, Idle(ListOf(rd)))
  /\ UNCHANGED <<entry, calm>>

RequestStep(rd) ==
  \/ Resolve(rd) \/ Lookup(rd) \/ LookAgain(rd) \/ List(rd)
  \/ \E r \in Rooms : Acquire(rd, r)
  \/ \E query \in request[rd].running : Reply(rd, query)
  \/ Finish(rd) \/ Store(rd) \/ Answer(rd)

------------------------------------------------------------------------------
(* The user's rooms change, time passes. *)

Change(rooms) ==
  /\ changes < MaxChanges
  /\ changes' = changes + 1
  /\ joined' = rooms
  /\ gone' = [r \in Rooms |-> IF r \in rooms THEN 0 ELSE gone[r]]
  /\ here' = [r \in Rooms |-> IF r \in rooms THEN here[r] ELSE 0]
  /\ request' = [rd \in Requests |-> [request[rd] EXCEPT !.stayed = @ \cap rooms]]
  /\ UNCHANGED <<config, entry, calm>>

Join(r) == r \notin joined /\ Change(joined \cup {r})
Leave(r) == r \in joined /\ Change(joined \ {r})

Fetching(rd) == request[rd].at \in {"list", "entries", "rooms", "store"}

(* No list has to be done in any time: a server may take all it wants to answer. *)
Tick ==
  /\ entry' = [l \in Lists |-> IF entry[l].ttl <= 1 THEN NoEntry
                                                    ELSE [entry[l] EXCEPT !.ttl = @ - 1]]
  /\ request' = [rd \in Requests |->
       IF Fetching(rd) THEN [request[rd] EXCEPT !.elapsed = Min({@ + 1, Late})]
                       ELSE request[rd]]
  /\ gone' = [r \in Rooms |-> IF r \in joined THEN 0 ELSE Min({gone[r] + 1, Never})]
  /\ here' = [r \in Rooms |-> IF r \in joined THEN Min({here[r] + 1, Never}) ELSE 0]
  /\ calm' = Min({calm + 1, Never})
  /\ UNCHANGED <<config, joined, changes>>

Next ==
  \/ \E rd \in Requests : Ask(rd) \/ RequestStep(rd) \/ Abandon(rd)
  \/ \E r \in Rooms : Join(r) \/ Leave(r)
  \/ Tick

Spec == Init /\ [][Next]_vars

(* What the appservice does by itself.  The other steps of a request are answers of
   the homeserver, whose client has no timeout, or of Redis. *)
OwnStep(rd) ==
  \/ ~NeedsFirst(ListOf(rd)) /\ List(rd)
  \/ \E r \in Rooms : Acquire(rd, r)
  \/ Finish(rd) \/ Answer(rd)

(* The appservice takes its own steps; nobody has to answer it. *)
FairSpec == Spec /\ \A rd \in Requests : WF_vars(OwnStep(rd))

------------------------------------------------------------------------------
(* How old what a list says may be: as long as a list lives and the one served
   took. *)
Age(rd) == Ttl + request[rd].elapsed

(* A list names no room the user has been out of for longer than a list lives and
   took to be put together: whatever the cache, the fan-out and the leaves do in
   between.  (A curated list of public rooms asks for the state of rooms without
   asking whether the user is in them.) *)
ListsNoLongGone ==
  [][\A rd \in Requests :
       /\ request'[rd].at = "served" /\ request[rd].at # "served"
       /\ ~Curated \/ ListOf(rd) # "public_rooms"
       => \A r \in request'[rd].found : gone[r] < Age(rd)']_vars

(* A hierarchy that fits on a page, whatever the user is in. *)
Fits(s) == Cardinality(Children[s]) <= PageSize

(* The rooms that must be asked about when the user was in S from beginning to end. *)
Due(l, S) ==
  CASE l = "public_rooms" /\ ~Curated -> S
    [] l = "public_rooms" /\ Curated ->
         {r \in S : \/ r \in IncludeRooms
                   \/ \E s \in IncludeRooms \cap S : Fits(s) /\ r \in Children[s]}
    [] l = "public_spaces" /\ IncludeAll -> {s \in S : Children[s] \cap S # {}}
    [] l = "public_spaces" /\ ~IncludeAll -> DefaultSpaces \cap S
    [] l = "space_rooms" -> IF Space \in S /\ Fits(Space) THEN Children[Space] \cap S ELSE {}
    [] l = "space_summary" -> {Space} \cap S

(* Those a request owes: the ones due, and, of hierarchies too long for a page,
   those it was given. *)
Owed(q) == (Due(q.list, q.stayed) \cup (q.given \cap q.stayed)) \ Unlisted(q.list)

(* However the requests about the rooms interleave, with each other and with joins
   and leaves, a list none of whose requests failed has every room that was due or
   given on the page of a hierarchy and that the user stayed in, but for bridged
   ones: when all are asked about, and when it is recorded.  (What is past the
   first page of a hierarchy is missing though nothing failed.) *)
ListsWhole ==
  \A rd \in Requests :
    /\ request[rd].at = "store" \/ (request[rd].at = "rooms" /\ Gathered(rd))
    /\ ~request[rd].trouble
    => Owed(request[rd]) \subseteq request[rd].found

(* A list has every due room the user has been in for as long as a list lives and
   this one took, unless some list went on without what failed in that time: a
   failure that is passed over, the empty list of public rooms it may leave in the
   cache included, is forgotten when the list of that time is.  An empty list in
   the cache that GET /spaces does not take but cache_or_fetch does is no older. *)
ListsLongThere ==
  [][\A rd \in Requests :
       /\ request'[rd].at = "served" /\ request[rd].at # "served"
       /\ calm >= Age(rd)'
       => Due(ListOf(rd), {r \in Rooms : here[r] >= Age(rd)'}) \ Unlisted(ListOf(rd))
            \subseteq request'[rd].found]_vars

(* What a request waits for that is not in the appservice's hands. *)
AwaitsHomeserver(rd) ==
  request[rd].at = "resolve" \/ (request[rd].at = "list" /\ NeedsFirst(ListOf(rd)))
AwaitsRedis(rd) == request[rd].at \in {"lookup", "again", "store"}

(* A list is answered, or one request made for it never is. *)
ListAnswered(rd) ==
  \/ []<>(request[rd].at = "idle")
  \/ <>[]AwaitsHomeserver(rd) \/ <>[]AwaitsRedis(rd)
  \/ \E query \in Query : <>[](query \in request[rd].running)

(* The rooms that hold a permit. *)
Held(rd) == {query.room : query \in request[rd].running}

(* A room gets its permit, or as many others as there are permits keep theirs. *)
PermitComes(rd, r) ==
  \/ []<>(r \notin request[rd].waiting)
  \/ \E silent \in SUBSET Rooms :
       Cardinality(silent) = Permits /\ <>[](silent \subseteq Held(rd))

(* join_all and the semaphore never wait for anything but requests to the homeserver
   that do not end, however many of the rooms fail: a list waits for ever only when
   a request made for it never ends, a room only when as many as there are permits
   never do, since one of those keeps its own permit and no other. *)
EveryRequestAnswered ==
  \A rd \in Requests : ListAnswered(rd) /\ \A r \in Rooms : PermitComes(rd, r)

===============================================================================
