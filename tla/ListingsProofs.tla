---------------------------- MODULE ListingsProofs ----------------------------
(***************************************************************************)
(* What holds of Listings for every set of rooms, every hierarchy, any     *)
(* number of requests and permits, and whatever Redis and the homeserver   *)
(* do: permits add up, a list none of whose requests failed has the rooms  *)
(* it owes, and what a list says is never older than its time to live and  *)
(* the time it was put together in.                                        *)
(***************************************************************************)
EXTENDS Listings, FiniteSetTheorems, TLAPS

------------------------------------------------------------------------------
(* One request: a room is asked about once at a time, only while the list is put
   together, and the list starts empty. *)

(* What the request for a list has where it is: permits counted, rooms in one place, queries at
   a step they have. *)
Orderly(rd) ==
  LET q == request[rd] IN
  /\ \A a, b \in q.running : a.room = b.room => a = b
  /\ \A a \in q.running : a.room \notin q.waiting /\ a.step <= Len(Steps(rd))
  /\ q.running # {} \/ q.waiting # {} => Gathering(rd)
  /\ q.at \in {"idle", "resolve", "lookup", "again", "list"} => q.found = {} /\ ~q.trouble
  /\ q.at = "entries" => q.list = "public_rooms" /\ Curated
  /\ q.list \notin {"public_rooms", "space_rooms"} => q.given = {}
  /\ q.stayed \subseteq joined

(* What makes the types inductive: permits are counted. *)
Ordered ==
  /\ TypeOK
  /\ \A rd \in Requests : IsFiniteSet(request[rd].running) /\ Orderly(rd)

------------------------------------------------------------------------------
(* Whole lists: a due room is on the list, or it is still asked about. *)

(* The rooms still to be asked about. *)
Asked(q) == q.waiting \cup {a.room : a \in q.running}

(* While it resolves entries, no room of the curated list is lost; *)
EntriesWhole(rd) ==
  LET q == request[rd] IN
  q.at = "entries" /\ ~q.trouble =>
    /\ q.given \subseteq q.found
    /\ \A e \in IncludeRooms \cap q.stayed :
         \/ e \in Asked(q)
         \/ e \in q.found /\ (Fits(e) => Children[e] \cap q.stayed \subseteq q.found)

(* while it asks about rooms, and until it stores them, neither. *)
RoomsWhole(rd) ==
  LET q == request[rd] IN
  q.at \in {"rooms", "store"} /\ ~q.trouble => Owed(q) \subseteq q.found \cup Asked(q)

(* Both, of every request. *)
AllWhole == \A rd \in Requests : EntriesWhole(rd) /\ RoomsWhole(rd)

------------------------------------------------------------------------------
(* Ages. *)

(* A room joined has not been gone, and one left has not been there. *)
Clocks ==
  \A r \in Rooms : (r \in joined => gone[r] = 0) /\ (r \notin joined => here[r] = 0)

(* Lists whose rooms the user is known to have been in. *)
Sure(l) == ~Curated \/ l # "public_rooms"

(* The rooms a request has seen the user in, or got from joined_rooms. *)
Seen(rd) ==
  LET q == request[rd] IN
  IF q.at = "rooms"
    THEN q.found \cup {a.room : a \in {b \in q.running : b.step = Len(Steps(rd))}}
           \cup (IF q.list = "public_rooms" THEN q.waiting ELSE {})
    ELSE IF q.at = "store" THEN q.found ELSE {}

(* The user was in the rooms a request has seen since it began, *)
SeenLately(rd) ==
  Sure(ListOf(rd)) /\ request[rd].elapsed <= Latency =>
    \A r \in Seen(rd) : gone[r] <= request[rd].elapsed

(* and in those of an entry no longer ago than it has lived and took to be recorded. *)
EntriesLately ==
  \A l \in Lists : entry[l] # NoEntry /\ Sure(l) /\ entry[l].took <= Latency =>
    \A r \in entry[l].rooms : gone[r] + entry[l].ttl <= Ttl + entry[l].took

(* What failed while a list was put together failed since. *)
TroubleLately(rd) ==
  LET q == request[rd] IN
  q.at \in {"entries", "rooms", "store"} /\ q.trouble /\ q.elapsed <= Latency =>
    calm <= q.elapsed

(* Who has been there since before the request began, stayed. *)
StayedLong(rd) ==
  LET q == request[rd] IN
  q.at \in {"entries", "rooms", "store"} /\ ~q.trouble /\ q.elapsed <= Latency =>
    \A r \in Rooms : here[r] > q.elapsed => r \in q.stayed

(* An entry made in calm has the rooms due that the user had been in then. *)
EntriesThere ==
  \A l \in Lists :
    LET e == entry[l] IN
    e # NoEntry /\ e.took <= Latency /\ calm + e.ttl > Ttl + e.took =>
      Due(l, {r \in Rooms : here[r] + e.ttl > Ttl + e.took}) \ Unlisted(l) \subseteq e.rooms

(* The inductive invariant of rooms long gone, *)
Lately == Clocks /\ EntriesLately /\ \A rd \in Requests : SeenLately(rd)

(* and the one of rooms long there. *)
LongThere ==
  Clocks /\ EntriesThere /\ \A rd \in Requests : StayedLong(rd) /\ TroubleLately(rd)

------------------------------------------------------------------------------
(* Types. *)

(* There are one to three requests about a room, the same ones as long as the
   request is at the same place. *)
LEMMA StepsType ==
  ASSUME NEW rd \in Requests
  PROVE  Len(Steps(rd)) \in 1 .. 3
  BY DEF Steps

(* What is asked about a room depends on the list and the configuration only. *)
LEMMA StepsStay ==
  ASSUME NEW rd \in Requests, UNCHANGED config,
         request'[rd].at = request[rd].at, request'[rd].list = request[rd].list
  PROVE  Steps(rd)' = Steps(rd)
  BY DEF Steps, ListOf, IncludeAll

(* The first page of a hierarchy is part of it, and all of it if that fits. *)
LEMMA PagesAre ==
  ASSUME config \in Configs, NEW r \in Rooms, NEW page \in Pages(r)
  PROVE  /\ page \subseteq Hierarchy(r) /\ page \subseteq Rooms
         /\ Fits(r) => page = Hierarchy(r)
<1>1. Children[r] \subseteq Rooms /\ IsFiniteSet(Rooms)
  BY ListingsAssumption
<1>2. Hierarchy(r) \subseteq Children[r]
  BY DEF Hierarchy
<1>3. page \subseteq Hierarchy(r)
  BY DEF Pages
<1>4. ASSUME Fits(r) PROVE page = Hierarchy(r)
  <2>1. IsFiniteSet(Children[r])
    BY <1>1, FS_Subset
  <2>2. /\ Cardinality(Hierarchy(r)) <= Cardinality(Children[r])
        /\ Cardinality(Hierarchy(r)) \in Nat /\ Cardinality(Children[r]) \in Nat
    BY <1>2, <2>1, FS_Subset, FS_CardinalityType
  <2>3. PageSize \in Nat
    BY ListingsAssumption DEF PageSize
  <2>4. Cardinality(Hierarchy(r)) <= PageSize
    BY <1>4, <2>2, <2>3 DEF Fits
  <2> QED
    BY <2>4 DEF Pages
<1> QED
  BY <1>1, <1>2, <1>3, <1>4

(* A request of its type, whose steps are in their bounds. *)
Whole(s) ==
  /\ s \in Request
  /\ IsFiniteSet(s.running)
  /\ s.free + Cardinality(s.running) = Permits

(* Such are all of them. *)
RequestsOK == request \in [Requests -> Request] /\ \A rd \in Requests : Whole(request[rd])

(* So are the entries. *)
EntriesOK ==
  entry \in [Lists -> Entry \cup {NoEntry}] /\ \A l \in Lists : entry[l].ttl <= Ttl

(* One request moves. *)
LEMMA PutActs ==
  ASSUME RequestsOK, NEW rd \in Requests, NEW s, Put(rd, s)
  PROVE  /\ request'[rd] = s
         /\ \A other \in Requests : other # rd => request'[other] = request[other]
         /\ Whole(s) => RequestsOK'
         /\ UNCHANGED <<config, joined, changes, gone, here>>
<1>1. request' = [request EXCEPT ![rd] = s] /\ request \in [Requests -> Request]
  BY DEF Put, RequestsOK
<1>2. \A other \in Requests : request'[other] = IF other = rd THEN s ELSE request[other]
  BY <1>1
<1>3. s \in Request => request' \in [Requests -> Request]
  BY <1>1
<1> QED
  BY <1>2, <1>3 DEF Put, RequestsOK, Whole

(* A request that goes elsewhere with all it has. *)
LEMMA GoesType ==
  ASSUME RequestsOK, NEW rd \in Requests,
         NEW place \in {"idle", "resolve", "lookup", "again", "list", "entries", "rooms", "store",
                        "served", "failed", "refused"},
         NEW s, s = [request[rd] EXCEPT !.at = place]
  PROVE  Whole(s)
<1>1. request[rd] \in Request /\ Whole(request[rd])
  BY DEF RequestsOK
<1>2. s \in Request /\ s.running = request[rd].running
      /\ s.free = request[rd].free
  BY <1>1 DEF Request
<1> QED
  BY <1>1, <1>2 DEF Whole

(* A request that starts over. *)
LEMMA IdleType ==
  ASSUME NEW l \in Lists
  PROVE  Whole(Idle(l))
<1>1. Idle(l) \in Request
  BY ListingsAssumption DEF Idle, Request, Late
<1>2. IsFiniteSet(Idle(l).running) /\ Cardinality(Idle(l).running) = 0
  BY FS_EmptySet DEF Idle
<1> QED
  BY <1>1, <1>2, ListingsAssumption DEF Whole, Idle

(* What the steps of one request do to it. *)
LEMMA AcquireType ==
  ASSUME RequestsOK, NEW rd \in Requests, Orderly(rd), NEW r \in Rooms, Acquire(rd, r)
  PROVE  Whole(request'[rd])
<1> DEFINE q == request[rd]
           s == request'[rd]
           new == [room |-> r, step |-> 1]
<1> SUFFICES Whole(s)
  OBVIOUS
<1>1. q \in Request /\ Whole(q)
  BY DEF RequestsOK
<1>2. s = [q EXCEPT !.waiting = @ \ {r}, !.free = @ - 1, !.running = @ \cup {new}]
      /\ r \in q.waiting /\ q.free > 0
  BY PutActs DEF Acquire
<1>3. new \notin q.running
  BY <1>2 DEF Orderly
<1> HIDE DEF s, new
<1>4. s.running = q.running \cup {new} /\ s.free = q.free - 1
  BY <1>1, <1>2 DEF Request
<1>5. s \in Request
  <2>1. new \in Query /\ q.free - 1 \in Nat
    BY <1>1, <1>2 DEF Query, Request, new
  <2> QED
    BY <1>1, <1>2, <2>1 DEF Request
<1>6. IsFiniteSet(q.running) /\ q.free + Cardinality(q.running) = Permits
  BY <1>1 DEF Whole
<1>7. IsFiniteSet(s.running) /\ Cardinality(s.running) = Cardinality(q.running) + 1
  <2>1. /\ IsFiniteSet(q.running \cup {new})
        /\ Cardinality(q.running \cup {new}) = Cardinality(q.running) + 1
    BY <1>3, <1>6, FS_AddElement
  <2> QED
    BY <1>4, <2>1
<1>8. Cardinality(q.running) \in Nat /\ q.free \in Nat
  BY <1>1, <1>6, FS_CardinalityType DEF Request
<1>9. s.free + Cardinality(s.running) = Permits
  BY <1>4, <1>6, <1>7, <1>8
<1> QED
  BY <1>1, <1>4, <1>5, <1>7, <1>9 DEF Whole

(* The next request about a room; the last one, that puts it on the list; and one
   that drops it. *)
NextAbout(a) == [room |-> a.room, step |-> a.step + 1]

(* What an answer does: the query goes on a step, its room is found, or it is dropped and gives
   its permit back. *)
LEMMA ReplyActs ==
  ASSUME RequestsOK, NEW rd \in Requests, NEW a \in request[rd].running, Reply(rd, a)
  PROVE  LET q == request[rd]
             s == request'[rd]
         IN /\ a \in Query /\ Gathering(rd)
            /\ \/ /\ a.step < Len(Steps(rd)) /\ TRUE \in Yes(Steps(rd)[a.step], a.room)
                  /\ s = [q EXCEPT !.running = (@ \ {a}) \cup {NextAbout(a)}]
               \/ /\ ~(a.step < Len(Steps(rd))) /\ TRUE \in Yes(Steps(rd)[a.step], a.room)
                  /\ \E page \in Brings(rd, a.room) :
                       s = [q EXCEPT !.running = @ \ {a}, !.free = @ + 1,
                                     !.found = @ \cup {a.room} \cup page,
                                     !.given = @ \cup page]
               \/ \E troubled \in BOOLEAN :
                    /\ troubled \/ FALSE \in Yes(Steps(rd)[a.step], a.room)
                    /\ s = [q EXCEPT !.running = @ \ {a}, !.free = @ + 1,
                                     !.trouble = @ \/ troubled]
<1> DEFINE q == request[rd]
           s == request'[rd]
           Told == Yes(Steps(rd)[a.step], a.room)
<1>1. a \in Query
  BY DEF RequestsOK, Request
<1>2. [a EXCEPT !.step = @ + 1] = NextAbout(a)
  BY <1>1 DEF Query, NextAbout
<1>3. ASSUME NEW troubled, Drop(rd, a, troubled)
      PROVE  s = [q EXCEPT !.running = @ \ {a}, !.free = @ + 1, !.trouble = @ \/ troubled]
  BY <1>3, PutActs DEF Drop
<1>4. ASSUME Advance(rd, a), a.step < Len(Steps(rd))
      PROVE  s = [q EXCEPT !.running = (@ \ {a}) \cup {NextAbout(a)}]
  <2> DEFINE rec == [q EXCEPT !.running = (@ \ {a}) \cup {[a EXCEPT !.step = @ + 1]}]
  <2>1. Put(rd, rec)
    BY <1>4 DEF Advance
  <2>2. rec = [q EXCEPT !.running = (@ \ {a}) \cup {NextAbout(a)}]
    BY <1>2
  <2> HIDE DEF rec
  <2>3. s = rec
    BY <2>1, PutActs
  <2> QED
    BY <2>2, <2>3
<1>5. ASSUME Advance(rd, a), ~(a.step < Len(Steps(rd)))
      PROVE  \E page \in Brings(rd, a.room) :
               s = [q EXCEPT !.running = @ \ {a}, !.free = @ + 1,
                             !.found = @ \cup {a.room} \cup page, !.given = @ \cup page]
  <2> DEFINE rec(page) == [q EXCEPT !.running = @ \ {a}, !.free = @ + 1,
                                    !.found = @ \cup {a.room} \cup page,
                                    !.given = @ \cup page]
  <2>1. PICK page \in Brings(rd, a.room) : Put(rd, rec(page))
    BY <1>5 DEF Advance
  <2> HIDE DEF rec
  <2>2. s = rec(page)
    BY <2>1, PutActs
  <2> QED
    BY <2>2 DEF rec
<1>6. Gathering(rd) /\ \/ \E yes \in Told : IF yes THEN Advance(rd, a) ELSE Drop(rd, a, FALSE)
                       \/ Drop(rd, a, TRUE)
  BY DEF Reply
<1>7. Told \subseteq BOOLEAN
  BY DEF Yes
<1>8. \/ TRUE \in Told /\ Advance(rd, a)
      \/ FALSE \in Told /\ Drop(rd, a, FALSE)
      \/ Drop(rd, a, TRUE)
  BY <1>6, <1>7
<1> HIDE DEF Told
<1> QED
  BY <1>1, <1>3, <1>4, <1>5, <1>6, <1>8 DEF Told

(* Arithmetic of steps. *)
LEMMA OneMore == \A n, m \in 1 .. 3 : n < m => n + 1 \in 1 .. 3
  OBVIOUS

(* An answer keeps the type of a request, *)
LEMMA ReplyType ==
  ASSUME RequestsOK, config \in Configs, NEW rd \in Requests, Orderly(rd),
         NEW a \in request[rd].running, Reply(rd, a)
  PROVE  Whole(request'[rd])
<1> DEFINE q == request[rd]
           s == request'[rd]
           next == NextAbout(a)
<1> SUFFICES Whole(s)
  OBVIOUS
<1>1. q \in Request /\ Whole(q) /\ a \in Query /\ IsFiniteSet(q.running)
      /\ q.free + Cardinality(q.running) = Permits
  BY ReplyActs DEF RequestsOK, Whole
<1>2. /\ IsFiniteSet(q.running \ {a})
      /\ Cardinality(q.running) \in Nat /\ q.free \in Nat
      /\ Cardinality(q.running \ {a}) = Cardinality(q.running) - 1
  BY <1>1, FS_RemoveElement, FS_CardinalityType DEF Request
<1>3. Cardinality(q.running \ {a}) \in Nat
  BY <1>2, FS_CardinalityType
<1>4. CASE a.step < Len(Steps(rd)) /\ s = [q EXCEPT !.running = (@ \ {a}) \cup {next}]
  <2>a. a.step \in 1 .. 3 /\ a.room \in Rooms
    BY <1>1 DEF Query
  <2>b. Len(Steps(rd)) \in 1 .. 3 /\ a.step < Len(Steps(rd))
    BY <1>4, StepsType
  <2>0. a.step \in 1 .. 3 /\ a.step + 1 \in 1 .. 3 /\ a.room \in Rooms
    BY <2>a, <2>b, OneMore
  <2>1. next \in Query /\ next.room = a.room /\ next.step # a.step
    BY <2>0 DEF Query, NextAbout
  <2> HIDE DEF next, s
  <2>2. next \notin q.running \ {a}
    BY <2>1 DEF Orderly
  <2>3. s \in Request /\ s.running = (q.running \ {a}) \cup {next} /\ s.free = q.free
    BY <1>1, <1>4, <2>1 DEF Request
  <2>4. /\ IsFiniteSet(s.running)
        /\ Cardinality(s.running) = Cardinality(q.running \ {a}) + 1
    <3>1. /\ IsFiniteSet((q.running \ {a}) \cup {next})
          /\ Cardinality((q.running \ {a}) \cup {next}) = Cardinality(q.running \ {a}) + 1
      BY <1>2, <2>2, FS_AddElement
    <3> QED
      BY <2>3, <3>1
  <2>5. s.free + Cardinality(s.running) = Permits
    BY <1>1, <1>2, <2>3, <2>4
  <2> QED
    BY <1>1, <2>3, <2>4, <2>5 DEF Whole
<1>5. ASSUME s \in Request, s.running = q.running \ {a}, s.free = q.free + 1
      PROVE  Whole(s)
  <2>1. s.free + Cardinality(s.running) = Permits
    BY <1>1, <1>2, <1>5
  <2> QED
    BY <1>1, <1>2, <1>5, <2>1 DEF Whole
<1>6. ASSUME NEW page \in Brings(rd, a.room),
             s = [q EXCEPT !.running = @ \ {a}, !.free = @ + 1,
                           !.found = @ \cup {a.room} \cup page, !.given = @ \cup page]
      PROVE  Whole(s)
  <2>1. a.room \in Rooms /\ page \subseteq Rooms
    BY <1>1, PagesAre DEF Brings, Query
  <2>x. /\ q.running \ {a} \in SUBSET Query /\ q.free + 1 \in Nat
        /\ q.found \cup {a.room} \cup page \in SUBSET Rooms /\ q.given \cup page \in SUBSET Rooms
    BY <1>1, <1>2, <2>1 DEF Request
  <2> HIDE DEF s
  <2>2. s \in Request /\ s.running = q.running \ {a} /\ s.free = q.free + 1
    BY <1>1, <1>6, <2>x DEF Request
  <2> QED
    BY <1>5, <2>2
<1>7. ASSUME NEW troubled \in BOOLEAN,
             s = [q EXCEPT !.running = @ \ {a}, !.free = @ + 1, !.trouble = @ \/ troubled]
      PROVE  Whole(s)
  <2> HIDE DEF s
  <2>1. q.running \ {a} \in SUBSET Query /\ q.free + 1 \in Nat
    BY <1>1, <1>2 DEF Request
  <2>2. (q.trouble \/ troubled) \in BOOLEAN
    OBVIOUS
  <2>3. s \in Request /\ s.running = q.running \ {a} /\ s.free = q.free + 1
    BY <1>1, <1>7, <2>1, <2>2 DEF Request
  <2> QED
    BY <1>5, <2>3
<1> QED
  BY <1>4, <1>6, <1>7, ReplyActs

(* While a list is put together, its order is that of the requests under way. *)
LEMMA GatheringOrder ==
  ASSUME NEW rd \in Requests, Orderly(rd), Gathering(rd), UNCHANGED <<config, joined>>,
         NEW s, s = request'[rd],
         s.at = request[rd].at, s.list = request[rd].list, s.stayed = request[rd].stayed,
         s.list \notin {"public_rooms", "space_rooms"} => s.given = {},
         \A a, b \in s.running : a.room = b.room => a = b,
         \A a \in s.running : a.room \notin s.waiting /\ a.step <= Len(Steps(rd))
  PROVE  Orderly(rd)'
<1>1. Steps(rd)' = Steps(rd) /\ Gathering(rd)' /\ Curated' = Curated
  BY StepsStay DEF Gathering, Curated
<1> QED
  BY <1>1 DEF Orderly, Gathering

(* taking a permit its order, *)
LEMMA AcquireOrder ==
  ASSUME RequestsOK, NEW rd \in Requests, Orderly(rd), NEW r \in Rooms, Acquire(rd, r)
  PROVE  Orderly(rd)'
<1> DEFINE q == request[rd]
           s == request'[rd]
           new == [room |-> r, step |-> 1]
<1>1. q \in Request /\ Gathering(rd) /\ UNCHANGED <<config, joined>>
      /\ s = [q EXCEPT !.waiting = @ \ {r}, !.free = @ - 1, !.running = @ \cup {new}]
      /\ r \in q.waiting
  BY PutActs DEF Acquire, RequestsOK
<1>2. new.room = r /\ new.step = 1 /\ 1 <= Len(Steps(rd))
  BY StepsType
<1>3. /\ s.waiting = q.waiting \ {r} /\ s.running = q.running \cup {new}
      /\ s.at = q.at /\ s.list = q.list /\ s.stayed = q.stayed /\ s.given = q.given
  BY <1>1 DEF Request
<1> HIDE DEF s, new
<1>6. s.list \notin {"public_rooms", "space_rooms"} => s.given = {}
  BY <1>3 DEF Orderly
<1>4. \A a, b \in s.running : a.room = b.room => a = b
  BY <1>1, <1>2, <1>3 DEF Orderly
<1>5. \A a \in s.running : a.room \notin s.waiting /\ a.step <= Len(Steps(rd))
  BY <1>1, <1>2, <1>3 DEF Orderly
<1> QED
  BY <1>1, <1>3, <1>4, <1>5, <1>6, GatheringOrder DEF s

(* and an answer its order. *)
LEMMA ReplyOrder ==
  ASSUME RequestsOK, NEW rd \in Requests, Orderly(rd), NEW a \in request[rd].running, Reply(rd, a)
  PROVE  Orderly(rd)'
<1> DEFINE q == request[rd]
           s == request'[rd]
           next == NextAbout(a)
<1>1. q \in Request /\ Gathering(rd) /\ UNCHANGED <<config, joined>> /\ a \in Query
  BY ReplyActs DEF RequestsOK, Reply, Advance, Drop, Put
<1>2. /\ \/ a.step < Len(Steps(rd)) /\ s.running = (q.running \ {a}) \cup {next}
         \/ s.running = q.running \ {a}
      /\ s.waiting = q.waiting /\ s.at = q.at /\ s.list = q.list /\ s.stayed = q.stayed
      /\ s.given = q.given \/ q.at = "entries"
  <2>1. CASE a.step < Len(Steps(rd)) /\ s = [q EXCEPT !.running = (@ \ {a}) \cup {next}]
    <3> HIDE DEF s, next
    <3> QED
      BY <1>1, <2>1 DEF Request
  <2>2. ASSUME NEW page \in Brings(rd, a.room),
               s = [q EXCEPT !.running = @ \ {a}, !.free = @ + 1,
                             !.found = @ \cup {a.room} \cup page, !.given = @ \cup page]
        PROVE  /\ s.running = q.running \ {a} /\ s.waiting = q.waiting /\ s.at = q.at
               /\ s.list = q.list /\ s.stayed = q.stayed /\ (s.given = q.given \/ q.at = "entries")
    <3>1. q.at = "entries" \/ page = {}
      BY DEF Brings
    <3> HIDE DEF s
    <3>2. /\ s.running = q.running \ {a} /\ s.waiting = q.waiting /\ s.at = q.at
          /\ s.list = q.list /\ s.stayed = q.stayed /\ s.given = q.given \cup page
      BY <1>1, <2>2 DEF Request
    <3> QED
      BY <3>1, <3>2
  <2>3. ASSUME NEW troubled \in BOOLEAN,
               s = [q EXCEPT !.running = @ \ {a}, !.free = @ + 1, !.trouble = @ \/ troubled]
        PROVE  /\ s.running = q.running \ {a}
               /\ s.waiting = q.waiting /\ s.at = q.at /\ s.list = q.list /\ s.stayed = q.stayed
               /\ s.given = q.given
    <3> HIDE DEF s
    <3> QED
      BY <1>1, <2>3 DEF Request
  <2> QED
    BY <2>1, <2>2, <2>3, ReplyActs
<1>3. a.step < Len(Steps(rd)) => next.room = a.room /\ next.step <= Len(Steps(rd))
  <2>1. a.step \in 1 .. 3 /\ Len(Steps(rd)) \in 1 .. 3
    BY <1>1, StepsType DEF Query
  <2> QED
    BY <2>1 DEF NextAbout
<1> HIDE DEF s, next
<1>4. \A b, c \in s.running : b.room = c.room => b = c
  BY <1>2, <1>3 DEF Orderly
<1>5. \A b \in s.running : b.room \notin s.waiting /\ b.step <= Len(Steps(rd))
  BY <1>2, <1>3 DEF Orderly
<1>6. s.list \notin {"public_rooms", "space_rooms"} => s.given = {}
  BY <1>2 DEF Orderly
<1> QED
  BY <1>1, <1>2, <1>4, <1>5, <1>6, GatheringOrder DEF s

(* The first request: the rooms the list starts from. *)
LEMMA ListActs ==
  ASSUME RequestsOK, config \in Configs, joined \subseteq Rooms, NEW rd \in Requests, List(rd)
  PROVE  LET q == request[rd]
             s == request'[rd]
         IN \/ \E place \in {"entries", "rooms"}, rooms \in SUBSET Rooms, given \in SUBSET Rooms :
                 /\ s = [q EXCEPT !.at = place, !.waiting = rooms, !.stayed = joined,
                                  !.given = given]
                 /\ given \subseteq rooms /\ (given # {} => q.list = "space_rooms")
                 /\ place = "entries" =>
                      q.list = "public_rooms" /\ Curated /\ rooms = IncludeRooms
                 /\ place = "rooms" => Due(q.list, joined) \subseteq rooms
                 /\ place = "rooms" /\ q.list = "public_rooms" => ~Curated /\ rooms \subseteq joined
            \/ s = [q EXCEPT !.at = "rooms", !.trouble = TRUE] /\ calm' = 0
            \/ s = [q EXCEPT !.at = "failed"]
<1> DEFINE q == request[rd]
           s == request'[rd]
           l == q.list
           Starts(place, rooms, given) ==
             /\ s = [q EXCEPT !.at = place, !.waiting = rooms, !.stayed = joined, !.given = given]
             /\ given \subseteq rooms /\ (given # {} => l = "space_rooms")
             /\ place = "entries" => l = "public_rooms" /\ Curated /\ rooms = IncludeRooms
             /\ place = "rooms" => Due(l, joined) \subseteq rooms
             /\ place = "rooms" /\ l = "public_rooms" => ~Curated /\ rooms \subseteq joined
<1>1. l \in Lists
  BY DEF RequestsOK, Request
<1>2. ASSUME NEW rooms \in FirstRooms(l) PROVE rooms \in SUBSET Rooms
  BY <1>1, <1>2, PagesAre, ListingsAssumption DEF FirstRooms, FromJoined, Lists
<1>3. ASSUME l = "space_rooms" => Space \in joined, NEW rooms \in FirstRooms(l),
             Begin(rd, IF l = "public_rooms" /\ Curated THEN "entries" ELSE "rooms", rooms)
      PROVE  \E place \in {"entries", "rooms"}, few \in SUBSET Rooms, given \in SUBSET Rooms :
               Starts(place, few, given)
  <2> DEFINE place == IF l = "public_rooms" /\ Curated THEN "entries" ELSE "rooms"
             given == IF l = "space_rooms" THEN rooms ELSE {}
  <2>1. s = [q EXCEPT !.at = place, !.waiting = rooms, !.stayed = joined, !.given = given]
    BY <1>3, PutActs DEF Begin, ListOf
  <2>2. place = "rooms" => Due(l, joined) \subseteq rooms
    <3>1. CASE l = "space_rooms"
      <4>1. rooms \in Pages(Space) /\ Space \in Rooms
        BY <1>3, <3>1, ListingsAssumption DEF FirstRooms, FromJoined
      <4>2. Fits(Space) => rooms = Hierarchy(Space)
        BY <4>1, PagesAre
      <4> QED
        BY <3>1, <4>2 DEF Due, Hierarchy
    <3>2. CASE l # "space_rooms"
      BY <1>1, <1>3, <3>2 DEF Due, FirstRooms, FromJoined, Lists
    <3> QED
      BY <3>1, <3>2
  <2>3. place = "entries" => l = "public_rooms" /\ Curated /\ rooms = IncludeRooms
    BY <1>3 DEF FirstRooms, FromJoined
  <2>4. place = "rooms" /\ l = "public_rooms" => ~Curated /\ rooms \subseteq joined
    BY <1>3 DEF FirstRooms, FromJoined
  <2>5. /\ place \in {"entries", "rooms"} /\ given \in SUBSET Rooms /\ given \subseteq rooms
        /\ given # {} => l = "space_rooms"
    BY <1>2, <1>3
  <2> HIDE DEF place, given
  <2>6. Starts(place, rooms, given)
    BY <2>1, <2>2, <2>3, <2>4, <2>5
  <2>7. rooms \in SUBSET Rooms
    BY <1>2, <1>3
  <2> HIDE DEF Starts
  <2> QED
    BY <2>5, <2>6, <2>7
<1>4. CASE FromJoined(l) /\ joined = {} /\ NoList(rd)
  <2>1. CASE l = "public_rooms"
    <3>1. s = [q EXCEPT !.at = "rooms", !.waiting = {}, !.stayed = joined, !.given = {}]
      BY <1>4, <2>1, PutActs DEF NoList, Begin, ListOf
    <3>2. ~Curated /\ Due(l, joined) = {}
      BY <1>4, <2>1 DEF FromJoined, Due
    <3>3. Starts("rooms", {}, {})
      BY <3>1, <3>2
    <3>4. \E place \in {"entries", "rooms"}, rooms \in SUBSET Rooms, given \in SUBSET Rooms :
            Starts(place, rooms, given)
      <4> HIDE DEF Starts
      <4> QED
        BY <3>3
    <3> QED
      BY <3>4
  <2>2. CASE l # "public_rooms"
    BY <1>4, <2>2, PutActs DEF NoList, GoTo, ListOf
  <2> QED
    BY <2>1, <2>2
<1>5. CASE l = "space_rooms" /\ NoList(rd)
  BY <1>5, PutActs DEF NoList, GoTo, ListOf
<1>6. CASE (Put(rd, [q EXCEPT !.at = "rooms", !.trouble = TRUE]) /\ calm' = 0) \/ GoTo(rd, "failed")
  BY <1>6, PutActs DEF GoTo
<1>7. \/ /\ l = "space_rooms" => Space \in joined
         /\ \E rooms \in FirstRooms(l) :
              Begin(rd, IF l = "public_rooms" /\ Curated THEN "entries" ELSE "rooms", rooms)
      \/ l = "space_rooms" /\ NoList(rd)
      \/ FromJoined(l) /\ joined = {} /\ NoList(rd)
      \/ Put(rd, [q EXCEPT !.at = "rooms", !.trouble = TRUE]) /\ calm' = 0
      \/ GoTo(rd, "failed")
  BY DEF List, ListOf
<1> QED
  BY <1>3, <1>4, <1>5, <1>6, <1>7

(* The other steps of a request. *)
LEMMA ElseActs ==
  ASSUME RequestsOK, EntriesOK, NEW rd \in Requests,
         \/ Ask(rd) \/ Resolve(rd) \/ Lookup(rd) \/ LookAgain(rd) \/ Finish(rd) \/ Store(rd)
         \/ Answer(rd) \/ Abandon(rd)
  PROVE  LET q == request[rd]
             s == request'[rd]
         IN \/ s = Idle(q.list)
            \/ /\ q.at \in {"idle", "resolve", "lookup", "again"}
               /\ \E place \in {"resolve", "lookup", "again", "list", "failed", "refused"} :
                    s = [q EXCEPT !.at = place]
            \/ /\ q.at \in {"lookup", "again"} /\ entry[q.list] \in Entry
               /\ s = [q EXCEPT !.at = "served", !.found = entry[q.list].rooms,
                                !.elapsed = entry[q.list].took]
            \/ /\ q.at = "entries" /\ Gathered(rd)
               /\ s = [q EXCEPT !.at = "rooms", !.waiting = q.found, !.found = {}]
            \/ /\ q.at = "rooms" /\ Gathered(rd)
               /\ \/ s = [q EXCEPT !.at = "failed"]
                  \/ \E place \in {"store", "served"} :
                       s = [q EXCEPT !.at = place, !.found = @ \ Unlisted(q.list)]
            \/ q.at = "store" /\ s = [q EXCEPT !.at = "served"]
<1> DEFINE q == request[rd]
           s == request'[rd]
<1>1. \A place : GoTo(rd, place) => s = [q EXCEPT !.at = place]
  BY PutActs DEF GoTo
<1>2. CASE Ask(rd)
  BY <1>1, <1>2 DEF Ask
<1>3. CASE Resolve(rd)
  BY <1>1, <1>3 DEF Resolve
<1>4. Hit(rd) => entry[q.list] \in Entry
  BY DEF Hit, ListOf, EntriesOK, RequestsOK, Request
<1>5. ServeCached(rd) => s = [q EXCEPT !.at = "served", !.found = entry[q.list].rooms,
                                       !.elapsed = entry[q.list].took]
  BY PutActs DEF ServeCached
<1>6. CASE Lookup(rd) \/ LookAgain(rd)
  BY <1>1, <1>4, <1>5, <1>6 DEF Lookup, LookAgain
<1>7. CASE Finish(rd)
  <2>1. CASE q.at = "entries"
    <3>1. Put(rd, [q EXCEPT !.at = "rooms", !.waiting = q.found, !.found = {}])
      BY <1>7, <2>1 DEF Finish
    <3> QED
      BY <1>7, <2>1, <3>1, PutActs DEF Finish
  <2>2. CASE q.at # "entries"
    <3>1. q.at = "rooms" /\ Gathered(rd)
      BY <1>7, <2>2 DEF Finish, Gathered, Gathering
    <3>2. \/ GoTo(rd, "failed")
          \/ \E place \in {"store", "served"} :
               Put(rd, [q EXCEPT !.at = place, !.found = @ \ Unlisted(q.list)])
      BY <1>7, <3>1 DEF Finish, ListOf
    <3> QED
      BY <1>1, <3>1, <3>2, PutActs
  <2> QED
    BY <2>1, <2>2
<1>8. CASE Store(rd)
  BY <1>1, <1>8 DEF Store
<1>9. CASE Answer(rd) \/ Abandon(rd)
  BY <1>9, PutActs DEF Answer, Abandon, ListOf
<1> QED
  BY <1>2, <1>3, <1>6, <1>7, <1>8, <1>9

(* They keep its types and its order. *)
LEMMA ListType ==
  ASSUME RequestsOK, config \in Configs, joined \subseteq Rooms, NEW rd \in Requests, Orderly(rd), List(rd)
  PROVE  Whole(request'[rd]) /\ Orderly(rd)'
<1> DEFINE q == request[rd]
           s == request'[rd]
<1> SUFFICES Whole(s) /\ Orderly(rd)'
  OBVIOUS
<1>1. q \in Request /\ Whole(q) /\ UNCHANGED <<config, joined>>
  BY DEF RequestsOK, List, NoList, Begin, GoTo, Put
<1>2. q.at = "list"
  BY DEF List
<1>3. q.running = {} /\ q.waiting = {}
  BY <1>2 DEF Orderly, Gathering
<1>4. ASSUME s \in Request, s.running = {}, s.free = q.free, s.list = q.list,
             s.list # "space_rooms" => s.given = {} \/ s.list = "public_rooms",
             s.at \in {"entries", "rooms", "failed"}, s.stayed \subseteq joined,
             s.at = "failed" => s.waiting = {},
             s.at = "entries" => s.list = "public_rooms" /\ Curated
      PROVE  Whole(s) /\ Orderly(rd)'
  <2>1. Whole(s)
    BY <1>1, <1>3, <1>4 DEF Whole
  <2>2. Orderly(rd)'
    BY <1>1, <1>4 DEF Orderly, Gathering, Curated
  <2> QED
    BY <2>1, <2>2
<1>5. ASSUME NEW place \in {"entries", "rooms"}, NEW rooms \in SUBSET Rooms,
             NEW given \in SUBSET Rooms, given # {} => q.list = "space_rooms",
             s = [q EXCEPT !.at = place, !.waiting = rooms, !.stayed = joined, !.given = given],
             place = "entries" => q.list = "public_rooms" /\ Curated
      PROVE  Whole(s) /\ Orderly(rd)'
  <2> HIDE DEF s
  <2>1. /\ s \in Request /\ s.running = {} /\ s.free = q.free /\ s.given = given
        /\ s.at = place /\ s.stayed = joined /\ s.list = q.list
    BY <1>1, <1>3, <1>5 DEF Request
  <2> QED
    BY <1>4, <1>5, <2>1
<1>6. CASE s = [q EXCEPT !.at = "rooms", !.trouble = TRUE] \/ s = [q EXCEPT !.at = "failed"]
  <2> HIDE DEF s
  <2>1. q.stayed \subseteq joined /\ (q.list \notin {"public_rooms", "space_rooms"} => q.given = {})
    BY DEF Orderly
  <2>2. /\ s \in Request /\ s.running = {} /\ s.free = q.free /\ s.list = q.list
        /\ s.at \in {"rooms", "failed"} /\ s.stayed = q.stayed /\ s.waiting = {} /\ s.given = q.given
    <3>1. CASE s = [q EXCEPT !.at = "rooms", !.trouble = TRUE]
      BY <1>1, <1>3, <3>1 DEF Request
    <3>2. CASE s = [q EXCEPT !.at = "failed"]
      BY <1>1, <1>3, <3>2 DEF Request
    <3> QED
      BY <1>6, <3>1, <3>2
  <2> QED
    BY <1>4, <2>1, <2>2
<1> QED
  BY <1>5, <1>6, ListActs

(* So do the steps outside of the fan-out. *)
LEMMA ElseType ==
  ASSUME RequestsOK, EntriesOK, NEW rd \in Requests, Orderly(rd),
         \/ Ask(rd) \/ Resolve(rd) \/ Lookup(rd) \/ LookAgain(rd) \/ Finish(rd) \/ Store(rd)
         \/ Answer(rd) \/ Abandon(rd)
  PROVE  Whole(request'[rd]) /\ Orderly(rd)'
<1> DEFINE q == request[rd]
           s == request'[rd]
<1> SUFFICES Whole(s) /\ Orderly(rd)'
  OBVIOUS
<1>1. q \in Request /\ Whole(q) /\ UNCHANGED <<config, joined>> /\ q.stayed \subseteq joined
      /\ (q.list \notin {"public_rooms", "space_rooms"} => q.given = {})
  BY DEF RequestsOK, Ask, Resolve, Lookup, LookAgain, Finish, Store, Answer, Abandon,
         ServeCached, GoTo, Put, Orderly
<1>2. Gathered(rd) \/ ~Gathering(rd) => q.running = {} /\ q.waiting = {}
  BY DEF Orderly, Gathered
<1>3. ASSUME s \in Request, s.running = {}, s.free = q.free, s.list = q.list, q.running = {},
             s.at # "entries", s.stayed = q.stayed, s.at = "rooms" \/ s.waiting = {},
             s.given = q.given,
             s.at \in {"idle", "resolve", "lookup", "again", "list"} => s.found = {} /\ ~s.trouble
      PROVE  Whole(s) /\ Orderly(rd)'
  <2>1. Whole(s)
    BY <1>1, <1>3 DEF Whole
  <2>2. Orderly(rd)'
    BY <1>1, <1>3 DEF Orderly, Gathering
  <2> QED
    BY <2>1, <2>2
<1>4. CASE s = Idle(q.list)
  <2>1. Whole(s)
    BY <1>1, <1>4, IdleType DEF Request
  <2>2. Orderly(rd)'
    BY <1>1, <1>4 DEF Orderly, Gathering, Idle
  <2> QED
    BY <2>1, <2>2
<1>5. ASSUME q.at \in {"idle", "resolve", "lookup", "again"},
             NEW place \in {"resolve", "lookup", "again", "list", "failed", "refused"},
             s = [q EXCEPT !.at = place]
      PROVE  Whole(s) /\ Orderly(rd)'
  <2>1. q.found = {} /\ q.running = {} /\ q.waiting = {} /\ ~q.trouble
    BY <1>2, <1>5 DEF Orderly, Gathering
  <2> HIDE DEF s
  <2>2. /\ s \in Request /\ s.running = {} /\ s.free = q.free /\ s.list = q.list
        /\ s.at = place /\ s.stayed = q.stayed /\ s.given = q.given /\ s.waiting = {} /\ s.found = {}
        /\ s.trouble = q.trouble
    BY <1>1, <1>5, <2>1 DEF Request
  <2> QED
    BY <1>1, <1>3, <2>1, <2>2
<1>6. CASE /\ q.at \in {"lookup", "again"} /\ entry[q.list] \in Entry
           /\ s = [q EXCEPT !.at = "served", !.found = entry[q.list].rooms,
                            !.elapsed = entry[q.list].took]
  <2>1. q.running = {} /\ q.waiting = {}
    BY <1>2, <1>6 DEF Gathering
  <2>2. entry[q.list].rooms \in SUBSET Rooms /\ entry[q.list].took \in 0 .. Late
    BY <1>6 DEF Entry
  <2> HIDE DEF s
  <2>3. /\ s \in Request /\ s.running = {} /\ s.free = q.free /\ s.list = q.list
        /\ s.at = "served" /\ s.stayed = q.stayed /\ s.given = q.given /\ s.waiting = {}
    BY <1>1, <1>6, <2>1, <2>2 DEF Request
  <2> QED
    BY <1>1, <1>3, <2>1, <2>3
<1>7. CASE /\ Gathered(rd)
           /\ s = [q EXCEPT !.at = "rooms", !.waiting = q.found, !.found = {}]
  <2> HIDE DEF s
  <2>1. /\ s \in Request /\ s.running = {} /\ s.free = q.free /\ s.list = q.list
        /\ s.at = "rooms" /\ s.stayed = q.stayed /\ s.given = q.given
    BY <1>1, <1>2, <1>7 DEF Request
  <2> QED
    BY <1>1, <1>2, <1>3, <1>7, <2>1
<1>8. ASSUME Gathered(rd) \/ q.at = "store", NEW place \in {"failed", "store", "served"},
             s = [q EXCEPT !.at = place]
      PROVE  Whole(s) /\ Orderly(rd)'
  <2>1. q.running = {} /\ q.waiting = {}
    BY <1>2, <1>8 DEF Gathering
  <2> HIDE DEF s
  <2>2. /\ s \in Request /\ s.running = {} /\ s.free = q.free /\ s.list = q.list
        /\ s.at = place /\ s.stayed = q.stayed /\ s.given = q.given /\ s.waiting = {}
    BY <1>1, <1>8, <2>1 DEF Request
  <2> QED
    BY <1>1, <1>3, <2>1, <2>2
<1>9. ASSUME Gathered(rd), NEW place \in {"store", "served"},
             s = [q EXCEPT !.at = place, !.found = @ \ Unlisted(q.list)]
      PROVE  Whole(s) /\ Orderly(rd)'
  <2>1. q.running = {} /\ q.waiting = {}
    BY <1>2, <1>9 DEF Gathering
  <2> DEFINE left == q.found \ Unlisted(q.list)
  <2>2. left \in SUBSET Rooms
    BY <1>1 DEF Request
  <2> HIDE DEF s, left
  <2>3. /\ s \in Request /\ s.running = {} /\ s.free = q.free /\ s.list = q.list
        /\ s.at = place /\ s.stayed = q.stayed /\ s.given = q.given /\ s.waiting = {}
    BY <1>1, <1>9, <2>1, <2>2 DEF Request, left
  <2> QED
    BY <1>1, <1>3, <2>1, <2>3
<1> QED
  BY <1>4, <1>5, <1>6, <1>7, <1>8, <1>9, ElseActs

(* A step of one request, whichever it is. *)
Moves(rd) == Ask(rd) \/ RequestStep(rd) \/ Abandon(rd)

(* Every step of a request keeps the types and changes nothing else. *)
LEMMA MovesType ==
  ASSUME RequestsOK, EntriesOK, config \in Configs, joined \subseteq Rooms,
         \A other \in Requests : Orderly(other), NEW rd \in Requests, Moves(rd)
  PROVE  /\ RequestsOK' /\ \A other \in Requests : Orderly(other)'
         /\ UNCHANGED <<config, joined, changes, gone, here>>
         /\ \A other \in Requests : other # rd => request'[other] = request[other]
<1>1. \E s : Put(rd, s)
  <2>1. ASSUME NEW r \in Rooms, Acquire(rd, r) PROVE \E s : Put(rd, s)
    BY <2>1 DEF Acquire
  <2>2. ASSUME NEW a \in request[rd].running, Reply(rd, a) PROVE \E s : Put(rd, s)
    BY <2>2 DEF Reply, Advance, Drop
  <2>3. CASE List(rd)
    BY <2>3 DEF List, NoList, Begin, GoTo
  <2>4. CASE Finish(rd) /\ request[rd].at = "entries"
    BY <2>4 DEF Finish
  <2>5. CASE Finish(rd) /\ request[rd].at # "entries"
    BY <2>5 DEF Finish, Gathered, Gathering, GoTo
  <2> QED
    BY <2>1, <2>2, <2>3, <2>4, <2>5
       DEF Moves, RequestStep, Ask, Resolve, Lookup, LookAgain, Store, Answer, Abandon,
           ServeCached, GoTo
<1>2. PICK s : Put(rd, s)
  BY <1>1
<1>3. /\ request'[rd] = s
      /\ \A other \in Requests : other # rd => request'[other] = request[other]
      /\ Whole(s) => RequestsOK'
      /\ UNCHANGED <<config, joined, changes, gone, here>>
  BY <1>2, PutActs
<1>4. Whole(request'[rd]) /\ Orderly(rd)'
  BY AcquireType, AcquireOrder, ReplyType, ReplyOrder, ListType, ElseType DEF Moves, RequestStep
<1>5. ASSUME NEW other \in Requests, other # rd PROVE Orderly(other)'
  <2>1. request'[other] = request[other] /\ Steps(other)' = Steps(other)
    BY <1>3, <1>5, StepsStay
  <2> QED
    BY <1>3, <2>1 DEF Orderly, Gathering, Curated
<1> QED
  BY <1>3, <1>4, <1>5

(* What is recorded in Redis. *)
Record(rd) == [rooms |-> request[rd].found, ttl |-> Ttl, took |-> request[rd].elapsed]

(* It writes an entry only from what it has found. *)
LEMMA MovesEntry ==
  ASSUME RequestsOK, EntriesOK, NEW rd \in Requests, Moves(rd)
  PROVE  /\ EntriesOK'
         /\ \/ UNCHANGED entry
            \/ /\ request[rd].at = "store" /\ request[rd].list \in Lists
               /\ Record(rd) \in Entry
               /\ \A l \in Lists :
                    entry'[l] = IF l = request[rd].list THEN Record(rd) ELSE entry[l]
<1>1. CASE UNCHANGED entry
  BY <1>1 DEF EntriesOK
<1>2. CASE request[rd].at = "store" /\ entry' = [entry EXCEPT ![ListOf(rd)] = Record(rd)]
  <2>1. Record(rd) \in Entry /\ Record(rd).ttl = Ttl
    BY ListingsAssumption DEF Record, Entry, RequestsOK, Request
  <2>2. request[rd].list \in Lists
    BY DEF RequestsOK, Request
  <2>3. \A l \in Lists : entry'[l] = IF l = request[rd].list THEN Record(rd) ELSE entry[l]
    BY <1>2 DEF EntriesOK, ListOf
  <2>4. entry' \in [Lists -> Entry \cup {NoEntry}]
    BY <1>2, <2>1 DEF EntriesOK
  <2>5. \A l \in Lists : entry'[l].ttl <= Ttl
    BY <2>1, <2>3, ListingsAssumption DEF EntriesOK
  <2> QED
    BY <1>2, <2>1, <2>2, <2>3, <2>4, <2>5 DEF EntriesOK
<1> QED
  BY <1>1, <1>2
     DEF Moves, RequestStep, Ask, Resolve, Lookup, LookAgain, List, Acquire, Reply, Finish, Store,
         Answer, Abandon, Record

(* A change of the user's rooms and a tick leave every request where it is. *)
Waits(q, s) ==
  /\ s.list = q.list /\ s.at = q.at /\ s.waiting = q.waiting /\ s.running = q.running
  /\ s.found = q.found /\ s.trouble = q.trouble /\ s.given = q.given

(* A request that only waits keeps its order. *)
LEMMA WaitsOrder ==
  ASSUME UNCHANGED config, NEW rd \in Requests, Waits(request[rd], request'[rd]), Orderly(rd),
         request'[rd].stayed \subseteq joined'
  PROVE  Orderly(rd)' /\ Steps(rd)' = Steps(rd)
<1>1. Steps(rd)' = Steps(rd)
  BY StepsStay DEF Waits
<1> QED
  BY <1>1 DEF Orderly, Waits, Gathering, Curated

(* What a join or leave does to requests: they may lose rooms the user stayed in. *)
LEMMA ChangeActs ==
  ASSUME RequestsOK, NEW rooms \in SUBSET Rooms, Change(rooms)
  PROVE  /\ RequestsOK'
         /\ \A rd \in Requests : /\ Waits(request[rd], request'[rd])
                                 /\ request'[rd].elapsed = request[rd].elapsed
                                 /\ request'[rd].stayed = request[rd].stayed \cap rooms
<1> SUFFICES ASSUME NEW rd \in Requests
             PROVE  /\ Whole(request'[rd]) /\ Waits(request[rd], request'[rd])
                    /\ request'[rd].elapsed = request[rd].elapsed
                    /\ request'[rd].stayed = request[rd].stayed \cap rooms
  <2>1. request' = [rd \in Requests |-> request'[rd]]
    BY DEF Change
  <2>2. (\A rd \in Requests : request'[rd] \in Request) => request' \in [Requests -> Request]
    BY <2>1
  <2> QED
    BY <2>2 DEF RequestsOK, Whole
<1> DEFINE q == request[rd]
           s == request'[rd]
<1>1. q \in Request /\ Whole(q) /\ s = [q EXCEPT !.stayed = @ \cap rooms]
  BY DEF Change, RequestsOK
<1> HIDE DEF s
<1>2. /\ s.list = q.list /\ s.at = q.at /\ s.waiting = q.waiting /\ s.running = q.running
      /\ s.found = q.found /\ s.trouble = q.trouble /\ s.elapsed = q.elapsed /\ s.free = q.free
      /\ s.stayed = q.stayed \cap rooms /\ s.given = q.given
  BY <1>1 DEF Request
<1>3. q.stayed \cap rooms \in SUBSET Rooms
  OBVIOUS
<1>4. s \in Request
  BY <1>1, <1>3 DEF Request
<1> QED
  BY <1>1, <1>2, <1>4 DEF Whole, Waits, s

(* What a tick does to requests: those under way age. *)
LEMMA TickActs ==
  ASSUME RequestsOK, Tick
  PROVE  /\ RequestsOK'
         /\ \A rd \in Requests : /\ Waits(request[rd], request'[rd])
                                 /\ request'[rd].stayed = request[rd].stayed
                                 /\ Fetching(rd) /\ request'[rd].elapsed <= Latency =>
                                      request'[rd].elapsed = request[rd].elapsed + 1
                                 /\ ~Fetching(rd) => request'[rd].elapsed = request[rd].elapsed
                                 /\ request[rd].elapsed <= request'[rd].elapsed
<1> SUFFICES ASSUME NEW rd \in Requests
             PROVE  /\ Whole(request'[rd]) /\ Waits(request[rd], request'[rd])
                    /\ request'[rd].stayed = request[rd].stayed
                    /\ Fetching(rd) /\ request'[rd].elapsed <= Latency =>
                         request'[rd].elapsed = request[rd].elapsed + 1
                    /\ ~Fetching(rd) => request'[rd].elapsed = request[rd].elapsed
                    /\ request[rd].elapsed <= request'[rd].elapsed
  <2>1. request' = [rd \in Requests |-> request'[rd]]
    BY DEF Tick
  <2>2. (\A rd \in Requests : request'[rd] \in Request) => request' \in [Requests -> Request]
    BY <2>1
  <2> QED
    BY <2>2 DEF RequestsOK, Whole
<1> DEFINE q == request[rd]
           s == request'[rd]
           later == Min({q.elapsed + 1, Late})
<1>1. q \in Request /\ Whole(q)
      /\ s = IF Fetching(rd) THEN [q EXCEPT !.elapsed = Min({@ + 1, Late})] ELSE q
  BY DEF Tick, RequestsOK
<1>2. q.elapsed \in 0 .. Late /\ Late = Latency + 1 /\ Latency \in Nat
  BY <1>1, ListingsAssumption DEF Request, Late
<1>3. CASE ~Fetching(rd)
  BY <1>1, <1>2, <1>3 DEF Waits
<1>4. CASE Fetching(rd)
  <2>1. /\ later \in 0 .. Late /\ q.elapsed <= later
        /\ later <= Latency => later = q.elapsed + 1
    BY <1>2 DEF Min
  <2>2. s = [q EXCEPT !.elapsed = later]
    BY <1>1, <1>4
  <2> HIDE DEF s, later
  <2>3. /\ s.list = q.list /\ s.at = q.at /\ s.waiting = q.waiting /\ s.running = q.running
        /\ s.found = q.found /\ s.trouble = q.trouble /\ s.free = q.free
        /\ s.stayed = q.stayed /\ s.given = q.given /\ s.elapsed = later /\ s \in Request
    BY <1>1, <1>2, <2>1, <2>2 DEF Request
  <2> QED
    BY <1>1, <1>4, <2>1, <2>3 DEF Whole, Waits, s
<1> QED
  BY <1>3, <1>4

(* Time runs down in Redis. *)
LEMMA TickEntries ==
  ASSUME EntriesOK, Tick
  PROVE  /\ EntriesOK'
         /\ \A l \in Lists :
              \/ entry'[l] = NoEntry
              \/ /\ entry[l] \in Entry /\ entry'[l].rooms = entry[l].rooms
                 /\ entry'[l].took = entry[l].took /\ entry'[l].ttl + 1 = entry[l].ttl
<1> DEFINE Runs(l) == /\ entry[l] \in Entry /\ entry'[l].rooms = entry[l].rooms
                      /\ entry'[l].took = entry[l].took /\ entry'[l].ttl + 1 = entry[l].ttl
<1>1. ASSUME NEW l \in Lists
      PROVE  /\ entry'[l] \in Entry \cup {NoEntry} /\ entry'[l].ttl <= Ttl
             /\ entry'[l] = NoEntry \/ Runs(l)
  <2> DEFINE e == entry[l]
             f == entry'[l]
  <2>1. e \in Entry \cup {NoEntry} /\ e.ttl <= Ttl
    BY DEF EntriesOK
  <2>2. f = IF e.ttl <= 1 THEN NoEntry ELSE [e EXCEPT !.ttl = @ - 1]
    BY DEF Tick
  <2>3. CASE e.ttl <= 1
    BY <2>2, <2>3, ListingsAssumption DEF NoEntry
  <2>4. CASE ~(e.ttl <= 1)
    <3>1. e \in Entry /\ e.ttl \in Nat \ {0, 1} /\ e.ttl - 1 \in Nat \ {0} /\ Ttl \in Nat
      BY <2>1, <2>4, ListingsAssumption DEF Entry, NoEntry
    <3>2. f = [e EXCEPT !.ttl = @ - 1]
      BY <2>2, <2>4
    <3> HIDE DEF e, f
    <3>3. f \in Entry /\ f.rooms = e.rooms /\ f.took = e.took /\ f.ttl = e.ttl - 1
      BY <3>1, <3>2 DEF Entry
    <3>4. f.ttl <= Ttl /\ f.ttl + 1 = e.ttl
      BY <2>1, <3>1, <3>3
    <3> QED
      BY <3>1, <3>3, <3>4 DEF e, f
  <2> QED
    BY <2>3, <2>4
<1>2. entry' = [l \in Lists |-> entry'[l]]
  BY DEF Tick
<1>3. entry' \in [Lists -> Entry \cup {NoEntry}]
  BY <1>1, <1>2
<1> QED
  BY <1>1, <1>3 DEF EntriesOK

(* The clocks of the rooms, and of what failed. *)
ClocksOK ==
  gone \in [Rooms -> 0 .. Never] /\ here \in [Rooms -> 0 .. Never] /\ calm \in 0 .. Never

(* The cap of the clocks is above the latency. *)
LEMMA NeverType == Never \in Nat /\ Latency < Never /\ Never = Ttl + Latency
  BY ListingsAssumption DEF Never

(* The smaller of two. *)
LEMMA MinOf ==
  \A a, b \in Nat : Min({a, b}) \in Nat /\ Min({a, b}) <= a /\ Min({a, b}) <= b
  BY DEF Min

(* What a join or leave does to the clocks, *)
LEMMA ChangeClocks ==
  ASSUME ClocksOK, NEW rooms \in SUBSET Rooms, Change(rooms)
  PROVE  /\ ClocksOK' /\ calm' = calm
         /\ \A r \in Rooms : /\ gone'[r] = IF r \in rooms THEN 0 ELSE gone[r]
                             /\ here'[r] = IF r \in rooms THEN here[r] ELSE 0
  BY NeverType DEF Change, ClocksOK, Never

(* and what a tick does. *)
LEMMA TickClocks ==
  ASSUME ClocksOK, Tick
  PROVE  /\ ClocksOK' /\ calm' <= calm + 1
         /\ \A r \in Rooms : /\ r \in joined => gone'[r] = 0
                             /\ r \notin joined => here'[r] = 0
                             /\ gone'[r] <= gone[r] + 1
                             /\ here'[r] <= here[r] + 1
<1>0. /\ gone' = [r \in Rooms |-> IF r \in joined THEN 0 ELSE Min({gone[r] + 1, Never})]
      /\ here' = [r \in Rooms |-> IF r \in joined THEN Min({here[r] + 1, Never}) ELSE 0]
      /\ calm' = Min({calm + 1, Never})
      /\ Never \in Nat /\ UNCHANGED joined
  BY NeverType DEF Tick
<1>1. \A n \in Nat : Min({n + 1, Never}) \in 0 .. Never /\ Min({n + 1, Never}) <= n + 1
  BY <1>0, MinOf
<1>2. (\A r \in Rooms : gone[r] \in Nat /\ here[r] \in Nat) /\ calm \in Nat
  BY <1>0 DEF ClocksOK
<1>3. ASSUME NEW r \in Rooms
      PROVE  /\ gone'[r] \in 0 .. Never /\ gone'[r] <= gone[r] + 1
             /\ here'[r] \in 0 .. Never /\ here'[r] <= here[r] + 1
             /\ r \in joined => gone'[r] = 0
             /\ r \notin joined => here'[r] = 0
  <2>1. CASE r \in joined
    BY <1>0, <1>1, <1>2, <2>1
  <2>2. CASE r \notin joined
    BY <1>0, <1>1, <1>2, <2>2
  <2> QED
    BY <2>1, <2>2
<1>4. gone' = [r \in Rooms |-> gone'[r]] /\ here' = [r \in Rooms |-> here'[r]]
  BY <1>0
<1>5. calm' \in 0 .. Never /\ calm' <= calm + 1
  BY <1>0, <1>1, <1>2
<1>6. ClocksOK'
  <2>1. gone' \in [Rooms -> 0 .. Never] /\ here' \in [Rooms -> 0 .. Never]
    BY <1>3, <1>4
  <2> QED
    BY <1>5, <2>1 DEF ClocksOK, Never
<1> QED
  BY <1>3, <1>5, <1>6

(* A list that goes on without what failed starts the calm anew; no other step of a
   request touches it. *)
LEMMA MovesCalm ==
  ASSUME RequestsOK, EntriesOK, config \in Configs, joined \subseteq Rooms, ClocksOK,
         NEW rd \in Requests, Orderly(rd), Moves(rd)
  PROVE  /\ calm' \in 0 .. Never /\ calm' <= calm
         /\ request'[rd].trouble => request[rd].trouble \/ calm' = 0
<1> DEFINE q == request[rd]
           s == request'[rd]
           Known == s.trouble => q.trouble \/ calm' = 0
<1>0. calm \in 0 .. Never /\ Never \in Nat /\ q \in Request
  BY NeverType DEF ClocksOK, RequestsOK
<1>1. calm' = calm \/ calm' = 0
  BY DEF Moves, RequestStep, Ask, Resolve, Lookup, LookAgain, List, Acquire, Reply, Finish, Store,
         Answer, Abandon
<1>2. Known
  <2>1. CASE List(rd)
    <3>1. ASSUME NEW place \in {"entries", "rooms"}, NEW rooms \in SUBSET Rooms,
                 NEW given \in SUBSET Rooms,
                 s = [q EXCEPT !.at = place, !.waiting = rooms, !.stayed = joined, !.given = given]
          PROVE  Known
      <4> HIDE DEF s
      <4> QED
        BY <1>0, <3>1 DEF Request
    <3>2. CASE s = [q EXCEPT !.at = "failed"]
      <4> HIDE DEF s
      <4> QED
        BY <1>0, <3>2 DEF Request
    <3>3. CASE calm' = 0
      BY <3>3
    <3> QED
      BY <2>1, <3>1, <3>2, <3>3, ListActs
  <2>2. ASSUME NEW r \in Rooms, Acquire(rd, r) PROVE Known
    <3> DEFINE new == [room |-> r, step |-> 1]
    <3>1. s = [q EXCEPT !.waiting = @ \ {r}, !.free = @ - 1, !.running = @ \cup {new}]
      BY <2>2, PutActs DEF Acquire
    <3> HIDE DEF s, new
    <3> QED
      BY <1>0, <3>1 DEF Request
  <2>3. ASSUME NEW a \in q.running, Reply(rd, a) PROVE Known
    <3>1. CASE calm' = 0
      BY <3>1
    <3>2. CASE Advance(rd, a)
      <4>1. CASE a.step < Len(Steps(rd))
        <5> DEFINE rec == [q EXCEPT !.running = (@ \ {a}) \cup {[a EXCEPT !.step = @ + 1]}]
        <5>1. Put(rd, rec)
          BY <3>2, <4>1 DEF Advance
        <5>2. rec.trouble = q.trouble
          BY <1>0 DEF Request
        <5> HIDE DEF rec
        <5> QED
          BY <5>1, <5>2, PutActs
      <4>2. CASE ~(a.step < Len(Steps(rd)))
        <5> DEFINE rec(page) == [q EXCEPT !.running = @ \ {a}, !.free = @ + 1,
                                          !.found = @ \cup {a.room} \cup page,
                                          !.given = @ \cup page]
        <5>1. PICK page : Put(rd, rec(page))
          BY <3>2, <4>2 DEF Advance
        <5>2. rec(page).trouble = q.trouble
          BY <1>0 DEF Request
        <5> HIDE DEF rec
        <5> QED
          BY <5>1, <5>2, PutActs
      <4> QED
        BY <4>1, <4>2
    <3>3. CASE Drop(rd, a, FALSE)
      <4> DEFINE rec == [q EXCEPT !.running = @ \ {a}, !.free = @ + 1, !.trouble = @ \/ FALSE]
      <4>1. Put(rd, rec)
        BY <3>3 DEF Drop
      <4>2. rec.trouble => q.trouble
        BY <1>0 DEF Request
      <4> HIDE DEF rec
      <4> QED
        BY <4>1, <4>2, PutActs
    <3>4. \/ calm' = 0
          \/ \E yes \in Yes(Steps(rd)[a.step], a.room) :
               IF yes THEN Advance(rd, a) ELSE Drop(rd, a, FALSE)
      BY <2>3 DEF Reply
    <3>5. calm' = 0 \/ Advance(rd, a) \/ Drop(rd, a, FALSE)
      BY <3>4
    <3> QED
      BY <3>1, <3>2, <3>3, <3>5
  <2>4. CASE \/ Ask(rd) \/ Resolve(rd) \/ Lookup(rd) \/ LookAgain(rd) \/ Finish(rd) \/ Store(rd)
             \/ Answer(rd) \/ Abandon(rd)
    <3>1. CASE s = Idle(q.list)
      BY <3>1 DEF Idle
    <3>2. ASSUME NEW place, s = [q EXCEPT !.at = place] PROVE Known
      <4> HIDE DEF s
      <4> QED
        BY <1>0, <3>2 DEF Request
    <3>3. CASE s = [q EXCEPT !.at = "served", !.found = entry[q.list].rooms,
                             !.elapsed = entry[q.list].took]
      <4> HIDE DEF s
      <4> QED
        BY <1>0, <3>3 DEF Request
    <3>4. CASE s = [q EXCEPT !.at = "rooms", !.waiting = q.found, !.found = {}]
      <4> HIDE DEF s
      <4> QED
        BY <1>0, <3>4 DEF Request
    <3>5. ASSUME NEW place, s = [q EXCEPT !.at = place, !.found = @ \ Unlisted(q.list)]
          PROVE  Known
      <4> HIDE DEF s
      <4> QED
        BY <1>0, <3>5 DEF Request
    <3> QED
      BY <2>4, <3>1, <3>2, <3>3, <3>4, <3>5, ElseActs
  <2> QED
    BY <2>1, <2>2, <2>3, <2>4 DEF Moves, RequestStep
<1> QED
  BY <1>0, <1>1, <1>2

(* The invariant in the parts the lemmas are about. *)
LEMMA TypeParts ==
  /\ Ordered <=> /\ config \in Configs /\ joined \subseteq Rooms /\ changes \in Nat
                 /\ EntriesOK /\ RequestsOK /\ ClocksOK
                 /\ \A rd \in Requests : Orderly(rd)
  BY DEF Ordered, TypeOK, EntriesOK, RequestsOK, Whole, ClocksOK

(* All of it holds at first, *)
LEMMA InitOrdered == Init => Ordered
<1> SUFFICES ASSUME Init PROVE Ordered
  OBVIOUS
<1>1. \A rd \in Requests : \E l \in Lists : request[rd] = Idle(l)
  BY ListingsAssumption DEF Init
<1>2. \A rd \in Requests : Whole(request[rd])
  BY <1>1, IdleType
<1>3. RequestsOK
  BY <1>2 DEF RequestsOK, Whole, Init
<1>4. ASSUME NEW rd \in Requests PROVE Orderly(rd)
  <2>1. PICK l \in Lists : request[rd] = Idle(l)
    BY <1>1
  <2>2. /\ request[rd].at = "idle" /\ request[rd].running = {} /\ request[rd].waiting = {}
        /\ request[rd].found = {} /\ request[rd].stayed = {} /\ request[rd].given = {}
        /\ ~request[rd].trouble
    BY <2>1 DEF Idle
  <2> QED
    BY <2>2 DEF Orderly
<1>5. EntriesOK
  BY ListingsAssumption DEF Init, EntriesOK, NoEntry
<1>6. ClocksOK
  BY NeverType DEF Init, ClocksOK
<1> QED
  BY <1>3, <1>4, <1>5, <1>6, TypeParts DEF Init

(* Whoever makes a step: a request, the user, or the clock. *)
LEMMA WhoSteps ==
  ASSUME [Next]_vars, joined \subseteq Rooms
  PROVE  \/ \E rd \in Requests : Moves(rd)
         \/ \E rooms \in SUBSET Rooms : Change(rooms)
         \/ Tick
         \/ UNCHANGED vars
<1>1. \A r \in Rooms : Join(r) \/ Leave(r) => \E rooms \in SUBSET Rooms : Change(rooms)
  BY DEF Join, Leave
<1> QED
  BY <1>1 DEF Next, Moves

(* The settings stay. *)
LEMMA ConfigStays ==
  ASSUME Ordered, [Next]_vars
  PROVE  UNCHANGED config
<1>1. ASSUME NEW rd \in Requests, Moves(rd) PROVE UNCHANGED config
  BY <1>1, MovesType, TypeParts
<1>2. joined \subseteq Rooms
  BY TypeParts
<1> QED
  BY <1>1, <1>2, WhoSteps DEF Change, Tick, vars

(* and after every step. *)
LEMMA NextOrdered == Ordered /\ [Next]_vars => Ordered'
<1> SUFFICES ASSUME Ordered, [Next]_vars PROVE Ordered'
  OBVIOUS
<1>0. /\ config \in Configs /\ joined \subseteq Rooms /\ changes \in Nat
      /\ EntriesOK /\ RequestsOK /\ ClocksOK
      /\ \A rd \in Requests : Orderly(rd)
  BY TypeParts
<1> DEFINE Goal == /\ config' \in Configs /\ joined' \subseteq Rooms /\ changes' \in Nat
                   /\ EntriesOK' /\ RequestsOK' /\ ClocksOK'
                   /\ \A rd \in Requests : Orderly(rd)'
<1> SUFFICES Goal
  BY DEF Ordered, TypeOK, EntriesOK, RequestsOK, Whole, ClocksOK
<1>1. ASSUME NEW rd \in Requests, Moves(rd) PROVE Goal
  <2>1. calm' \in 0 .. Never
    BY <1>0, <1>1, MovesCalm
  <2> QED
    BY <1>0, <1>1, <2>1, MovesType, MovesEntry DEF ClocksOK, Never
<1>2. ASSUME NEW rooms \in SUBSET Rooms, Change(rooms) PROVE Goal
  <2>1. /\ joined' = rooms /\ changes' \in Nat /\ UNCHANGED <<config, entry>>
    BY <1>0, <1>2 DEF Change
  <2>2. RequestsOK' /\ ClocksOK' /\ EntriesOK'
    BY <1>0, <1>2, <2>1, ChangeActs, ChangeClocks DEF EntriesOK
  <2>3. ASSUME NEW rd \in Requests PROVE Orderly(rd)'
    BY <1>0, <1>2, <2>1, ChangeActs, WaitsOrder
  <2> QED
    BY <1>0, <2>1, <2>2, <2>3
<1>3. CASE Tick
  <2>1. UNCHANGED <<config, joined, changes>>
    BY <1>3 DEF Tick
  <2>2. RequestsOK' /\ ClocksOK' /\ EntriesOK'
    BY <1>0, <1>3, TickActs, TickClocks, TickEntries
  <2>3. ASSUME NEW rd \in Requests PROVE Orderly(rd)'
    <3>1. request'[rd].stayed = request[rd].stayed /\ Waits(request[rd], request'[rd])
      BY <1>0, <1>3, TickActs
    <3>2. request[rd].stayed \subseteq joined
      BY <1>0 DEF Orderly
    <3> QED
      BY <1>0, <2>1, <3>1, <3>2, WaitsOrder
  <2> QED
    BY <1>0, <2>1, <2>2, <2>3
<1>4. CASE UNCHANGED vars
  <2>1. UNCHANGED <<config, joined, entry, request, changes, gone, here, calm>>
    BY <1>4 DEF vars
  <2>2. \A rd \in Requests : Orderly(rd)'
    BY <1>0, <2>1 DEF Orderly, Gathering, Curated, Steps, ListOf, IncludeAll
  <2> QED
    BY <1>0, <2>1, <2>2 DEF EntriesOK, RequestsOK, ClocksOK, Never
<1> QED
  BY <1>0, <1>1, <1>2, <1>3, <1>4, WhoSteps

(* Types, and that permits add up: whatever rooms are asked about, dropped or
   abandoned, those a request holds and those it has left are Permits. *)
THEOREM TypeCorrect == Spec => []TypeOK
<1>1. Ordered => TypeOK
  BY DEF Ordered
<1> QED
  BY <1>1, InitOrdered, NextOrdered, PTL DEF Spec

------------------------------------------------------------------------------
(* Whole lists. *)

(* More rooms the user stayed in, more are due; those are rooms it stayed in. *)
LEMMA DueMonotone ==
  ASSUME NEW l \in Lists, NEW S \in SUBSET Rooms, NEW T \in SUBSET Rooms, S \subseteq T
  PROVE  Due(l, S) \subseteq Due(l, T) /\ Due(l, S) \subseteq S
  BY DEF Due, Lists

(* The same of all that is owed. *)
LEMMA OwedMonotone ==
  ASSUME NEW q \in Request, NEW t, t.list = q.list, t.given = q.given, t.stayed \subseteq q.stayed
  PROVE  Owed(t) \subseteq Owed(q) /\ Owed(q) \subseteq q.stayed
<1>1. q.list \in Lists /\ q.stayed \in SUBSET Rooms /\ t.stayed \in SUBSET Rooms
  BY DEF Request
<1>2. /\ Due(q.list, t.stayed) \subseteq Due(q.list, q.stayed)
      /\ Due(q.list, q.stayed) \subseteq q.stayed
  BY <1>1, DueMonotone
<1> QED
  BY <1>2 DEF Owed

(* What is to be shown of a request after a step. *)
EntriesWholeOf(s) ==
  s.at = "entries" /\ ~s.trouble =>
    /\ s.given \subseteq s.found
    /\ \A e \in IncludeRooms \cap s.stayed :
         \/ e \in Asked(s)
         \/ e \in s.found /\ (Fits(e) => Children[e] \cap s.stayed \subseteq s.found)

(* The same of a record, for the steps from one to the next. *)
RoomsWholeOf(s) ==
  s.at \in {"rooms", "store"} /\ ~s.trouble => Owed(s) \subseteq s.found \cup Asked(s)

(* They say the same. *)
LEMMA WholeNext ==
  ASSUME UNCHANGED config, NEW rd \in Requests
  PROVE  /\ EntriesWhole(rd)' <=> EntriesWholeOf(request'[rd])
         /\ RoomsWhole(rd)' <=> RoomsWholeOf(request'[rd])
         /\ EntriesWhole(rd) <=> EntriesWholeOf(request[rd])
         /\ RoomsWhole(rd) <=> RoomsWholeOf(request[rd])
  BY DEF EntriesWhole, EntriesWholeOf, RoomsWhole, RoomsWholeOf, Owed, Unlisted, Due,
         Fits, PageSize, Curated, IncludeAll, Asked

(* The homeserver says yes to all that is asked about a room that is owed. *)
LEMMA DueIsYes ==
  ASSUME RequestsOK, NEW rd \in Requests, Orderly(rd), Gathering(rd), NEW a \in request[rd].running,
         \/ request[rd].at = "entries" /\ a.room \in request[rd].stayed
         \/ request[rd].at = "rooms" /\ a.room \in Owed(request[rd])
  PROVE  FALSE \notin Yes(Steps(rd)[a.step], a.room)
<1> DEFINE q == request[rd]
           st == Steps(rd)[a.step]
<1>1. q \in Request /\ a \in Query /\ q.stayed \subseteq joined
  BY DEF RequestsOK, Request, Orderly
<1>2. a.room \in q.stayed
  BY <1>1, OwedMonotone
<1>3. st = "is_space" => Hierarchy(a.room) # {}
  <2> SUFFICES ASSUME st = "is_space" PROVE Hierarchy(a.room) # {}
    OBVIOUS
  <2>1. a.step \in 1 .. 3 /\ a.step <= Len(Steps(rd))
    BY <1>1 DEF Orderly, Query
  <2>2. q.at = "rooms" /\ q.list = "public_spaces" /\ IncludeAll
    BY <2>1 DEF Steps, ListOf
  <2>3. q.given = {}
    BY <2>2 DEF Orderly
  <2>4. a.room \in Due(q.list, q.stayed)
    BY <2>2, <2>3 DEF Owed
  <2>5. Children[a.room] \cap q.stayed # {}
    BY <2>2, <2>4 DEF Due
  <2> QED
    BY <1>1, <2>5 DEF Hierarchy
<1>4. a.room \in joined
  BY <1>1, <1>2
<1> HIDE DEF st
<1>5. Yes(st, a.room) = {TRUE}
  BY <1>3, <1>4 DEF Yes
<1> QED
  BY <1>5 DEF st

(* A permit moves a room from those that wait to those asked about. *)
LEMMA AcquireWhole ==
  ASSUME RequestsOK, NEW rd \in Requests, NEW r \in Rooms, Acquire(rd, r),
         EntriesWholeOf(request[rd]), RoomsWholeOf(request[rd])
  PROVE  EntriesWholeOf(request'[rd]) /\ RoomsWholeOf(request'[rd])
<1> DEFINE q == request[rd]
           s == request'[rd]
           new == [room |-> r, step |-> 1]
<1>1. q \in Request /\ r \in q.waiting
      /\ s = [q EXCEPT !.waiting = @ \ {r}, !.free = @ - 1, !.running = @ \cup {new}]
  BY PutActs DEF Acquire, RequestsOK
<1>2. new.room = r
  OBVIOUS
<1> HIDE DEF s, new
<1>3. /\ s.waiting = q.waiting \ {r} /\ s.running = q.running \cup {new}
      /\ s.at = q.at /\ s.list = q.list /\ s.stayed = q.stayed /\ s.found = q.found
      /\ s.trouble = q.trouble /\ s.given = q.given
  BY <1>1 DEF Request
<1>4. Asked(s) = Asked(q) /\ Owed(s) = Owed(q)
  BY <1>1, <1>2, <1>3 DEF Asked, Owed
<1> QED
  BY <1>3, <1>4 DEF EntriesWholeOf, RoomsWholeOf, s

(* An answer loses a room only if it was no, or with trouble. *)
LEMMA ReplyWhole ==
  ASSUME RequestsOK, config \in Configs, NEW rd \in Requests, Orderly(rd),
         NEW a \in request[rd].running, Reply(rd, a),
         EntriesWholeOf(request[rd]), RoomsWholeOf(request[rd])
  PROVE  EntriesWholeOf(request'[rd]) /\ RoomsWholeOf(request'[rd])
<1> DEFINE q == request[rd]
           s == request'[rd]
           next == NextAbout(a)
           About(t) == t.list = q.list /\ t.at = q.at /\ t.stayed = q.stayed /\ t.waiting = q.waiting
<1> SUFFICES EntriesWholeOf(s) /\ RoomsWholeOf(s)
  OBVIOUS
<1>1. q \in Request /\ a \in Query /\ a.room \in Rooms /\ Gathering(rd) /\ q.stayed \subseteq joined
  BY ReplyActs DEF RequestsOK, Orderly, Query
<1>2. \A t : About(t) /\ q.running \ {a} \subseteq t.running => Asked(q) \ {a.room} \subseteq Asked(t)
  BY DEF Asked
<1>6. \A t : About(t) /\ t.given = q.given => Owed(t) = Owed(q)
  BY DEF Owed
<1>3. CASE s = [q EXCEPT !.running = (@ \ {a}) \cup {next}]
  <2>1. next.room = a.room
    BY DEF NextAbout
  <2> HIDE DEF s, next
  <2>2. /\ s.running = (q.running \ {a}) \cup {next} /\ s.found = q.found
        /\ s.trouble = q.trouble /\ About(s) /\ s.given = q.given
    BY <1>1, <1>3 DEF Request
  <2>3. Asked(q) \subseteq Asked(s) /\ Owed(s) = Owed(q)
    BY <1>6, <2>1, <2>2 DEF Asked
  <2> QED
    BY <2>2, <2>3 DEF EntriesWholeOf, RoomsWholeOf
<1>4. ASSUME NEW page \in Brings(rd, a.room),
             s = [q EXCEPT !.running = @ \ {a}, !.free = @ + 1,
                           !.found = @ \cup {a.room} \cup page, !.given = @ \cup page]
      PROVE  EntriesWholeOf(s) /\ RoomsWholeOf(s)
  <2> HIDE DEF s
  <2>1. /\ s.running = q.running \ {a} /\ s.found = q.found \cup {a.room} \cup page
        /\ s.trouble = q.trouble /\ About(s) /\ s.given = q.given \cup page
    BY <1>1, <1>4 DEF Request
  <2>2. Asked(q) \ {a.room} \subseteq Asked(s)
    BY <1>2, <2>1
  <2>3. CASE q.at = "entries"
    <3>1. page \in Pages(a.room)
      BY <2>3 DEF Brings
    <3>2. Fits(a.room) => Children[a.room] \cap q.stayed \subseteq page
      BY <1>1, <3>1, PagesAre DEF Hierarchy
    <3>3. EntriesWholeOf(s)
      <4> SUFFICES ASSUME ~s.trouble
                   PROVE  /\ s.given \subseteq s.found
                          /\ \A e \in IncludeRooms \cap s.stayed :
                               \/ e \in Asked(s)
                               \/ e \in s.found /\ (Fits(e) => Children[e] \cap s.stayed \subseteq s.found)
        BY DEF EntriesWholeOf
      <4>1. s.given \subseteq s.found
        BY <2>1, <2>3 DEF EntriesWholeOf
      <4>2. ASSUME NEW e \in IncludeRooms \cap s.stayed
            PROVE  \/ e \in Asked(s)
                   \/ e \in s.found /\ (Fits(e) => Children[e] \cap s.stayed \subseteq s.found)
        <5>1. CASE e = a.room
          BY <2>1, <3>2, <5>1
        <5>2. CASE e # a.room
          BY <2>1, <2>2, <2>3, <5>2 DEF EntriesWholeOf
        <5> QED
          BY <5>1, <5>2
      <4> QED
        BY <4>1, <4>2
    <3> QED
      BY <2>1, <2>3, <3>3 DEF RoomsWholeOf
  <2>4. CASE q.at # "entries"
    <3>1. page = {}
      BY <2>4 DEF Brings
    <3>2. Owed(s) = Owed(q)
      BY <1>6, <2>1, <3>1
    <3> QED
      BY <2>1, <2>2, <2>4, <3>2 DEF EntriesWholeOf, RoomsWholeOf
  <2> QED
    BY <2>3, <2>4
<1>5. ASSUME NEW troubled \in BOOLEAN,
             troubled \/ FALSE \in Yes(Steps(rd)[a.step], a.room),
             s = [q EXCEPT !.running = @ \ {a}, !.free = @ + 1, !.trouble = @ \/ troubled]
      PROVE  EntriesWholeOf(s) /\ RoomsWholeOf(s)
  <2> HIDE DEF s
  <2>1. /\ s.running = q.running \ {a} /\ s.found = q.found /\ About(s) /\ s.given = q.given
    BY <1>1, <1>5 DEF Request
  <2>2. ~s.trouble => ~q.trouble /\ ~troubled
    BY <1>1, <1>5 DEF Request
  <2>3. Asked(q) \ {a.room} \subseteq Asked(s) /\ Owed(s) = Owed(q)
    BY <1>2, <1>6, <2>1
  <2>4. ~troubled => /\ q.at = "entries" => a.room \notin q.stayed
                     /\ q.at = "rooms" => a.room \notin Owed(q)
    BY <1>1, <1>5, DueIsYes
  <2>5. q.at # "store"
    BY <1>1 DEF Gathering
  <2> QED
    BY <2>1, <2>2, <2>3, <2>4, <2>5 DEF EntriesWholeOf, RoomsWholeOf
<1> QED
  BY <1>3, <1>4, <1>5, ReplyActs

(* What a request begins with. *)
LEMMA ListWhole ==
  ASSUME RequestsOK, config \in Configs, joined \subseteq Rooms, NEW rd \in Requests, Orderly(rd), List(rd)
  PROVE  EntriesWholeOf(request'[rd]) /\ RoomsWholeOf(request'[rd])
<1> DEFINE q == request[rd]
           s == request'[rd]
<1> SUFFICES EntriesWholeOf(s) /\ RoomsWholeOf(s)
  OBVIOUS
<1>1. q \in Request
  BY DEF RequestsOK
<1>2. ASSUME NEW place \in {"entries", "rooms"}, NEW rooms \in SUBSET Rooms,
             NEW given \in SUBSET Rooms, given \subseteq rooms,
             given # {} => q.list = "space_rooms",
             s = [q EXCEPT !.at = place, !.waiting = rooms, !.stayed = joined, !.given = given],
             place = "entries" => q.list = "public_rooms" /\ rooms = IncludeRooms,
             place = "rooms" => Due(q.list, joined) \subseteq rooms
      PROVE  EntriesWholeOf(s) /\ RoomsWholeOf(s)
  <2> HIDE DEF s
  <2>1. /\ s.at = place /\ s.waiting = rooms /\ s.stayed = joined /\ s.list = q.list
        /\ s.given = given
    BY <1>1, <1>2 DEF Request
  <2>2. rooms \subseteq Asked(s)
    BY <2>1 DEF Asked
  <2>3. place = "entries" => given = {}
    BY <1>2
  <2>4. place = "rooms" => Owed(s) \subseteq rooms
    BY <1>2, <2>1 DEF Owed
  <2> QED
    BY <1>2, <2>1, <2>2, <2>3, <2>4 DEF EntriesWholeOf, RoomsWholeOf
<1>3. CASE s = [q EXCEPT !.at = "rooms", !.trouble = TRUE]
  <2> HIDE DEF s
  <2>1. s.trouble
    BY <1>1, <1>3 DEF Request
  <2> QED
    BY <2>1 DEF EntriesWholeOf, RoomsWholeOf
<1>4. CASE s = [q EXCEPT !.at = "failed"]
  <2> HIDE DEF s
  <2>1. s.at = "failed"
    BY <1>1, <1>4 DEF Request
  <2> QED
    BY <2>1 DEF EntriesWholeOf, RoomsWholeOf
<1> QED
  BY <1>2, <1>3, <1>4, ListActs

(* A curated list goes on from its entries with all that is due. *)
LEMMA EntriesAreDue ==
  ASSUME NEW q \in Request, EntriesWholeOf(q), q.at = "entries", ~q.trouble,
         q.list = "public_rooms", Curated, q.waiting = {}, q.running = {}
  PROVE  Owed(q) \subseteq q.found
<1>1. Asked(q) = {}
  BY DEF Asked
<1>2. /\ q.given \subseteq q.found
      /\ \A e \in IncludeRooms \cap q.stayed :
           e \in q.found /\ (Fits(e) => Children[e] \cap q.stayed \subseteq q.found)
  BY <1>1 DEF EntriesWholeOf
<1>3. Due(q.list, q.stayed) =
        {r \in q.stayed : \/ r \in IncludeRooms
                          \/ \E e \in IncludeRooms \cap q.stayed : Fits(e) /\ r \in Children[e]}
  BY DEF Due
<1>4. Due(q.list, q.stayed) \subseteq q.found
  BY <1>2, <1>3
<1> QED
  BY <1>2, <1>4 DEF Owed

(* The steps outside of the fan-out lose none. *)
LEMMA ElseWhole ==
  ASSUME RequestsOK, EntriesOK, NEW rd \in Requests, Orderly(rd),
         \/ Ask(rd) \/ Resolve(rd) \/ Lookup(rd) \/ LookAgain(rd) \/ Finish(rd) \/ Store(rd)
         \/ Answer(rd) \/ Abandon(rd),
         EntriesWholeOf(request[rd]), RoomsWholeOf(request[rd])
  PROVE  EntriesWholeOf(request'[rd]) /\ RoomsWholeOf(request'[rd])
<1> DEFINE q == request[rd]
           s == request'[rd]
<1> SUFFICES EntriesWholeOf(s) /\ RoomsWholeOf(s)
  OBVIOUS
<1>1. q \in Request
  BY DEF RequestsOK
<1>2. ASSUME s.at \notin {"entries", "rooms", "store"}
      PROVE  EntriesWholeOf(s) /\ RoomsWholeOf(s)
  BY <1>2 DEF EntriesWholeOf, RoomsWholeOf
<1>3. CASE s = Idle(q.list)
  BY <1>2, <1>3 DEF Idle
<1>4. ASSUME NEW place \in {"resolve", "lookup", "again", "list", "failed", "refused", "served"},
             s = [q EXCEPT !.at = place]
      PROVE  EntriesWholeOf(s) /\ RoomsWholeOf(s)
  <2> HIDE DEF s
  <2>1. s.at = place
    BY <1>1, <1>4 DEF Request
  <2> QED
    BY <2>1 DEF EntriesWholeOf, RoomsWholeOf
<1>5. CASE s = [q EXCEPT !.at = "served", !.found = entry[q.list].rooms,
                         !.elapsed = entry[q.list].took]
  <2> HIDE DEF s
  <2>1. s.at = "served"
    BY <1>1, <1>5 DEF Request
  <2> QED
    BY <2>1 DEF EntriesWholeOf, RoomsWholeOf
<1>6. CASE /\ q.at = "entries" /\ Gathered(rd)
           /\ s = [q EXCEPT !.at = "rooms", !.waiting = q.found, !.found = {}]
  <2>1. q.list = "public_rooms" /\ Curated /\ q.waiting = {} /\ q.running = {}
    BY <1>6 DEF Orderly, Gathered
  <2> HIDE DEF s
  <2>2. /\ s.at = "rooms" /\ s.waiting = q.found /\ s.list = q.list /\ s.stayed = q.stayed
        /\ s.trouble = q.trouble /\ s.given = q.given
    BY <1>1, <1>6 DEF Request
  <2>3. ~q.trouble => Owed(q) \subseteq q.found
    BY <1>1, <1>6, <2>1, EntriesAreDue
  <2>4. q.found \subseteq Asked(s) /\ Owed(s) = Owed(q)
    BY <2>2 DEF Asked, Owed
  <2> QED
    BY <2>2, <2>3, <2>4 DEF EntriesWholeOf, RoomsWholeOf
<1>7. ASSUME q.at = "rooms", NEW place \in {"store", "served"},
             s = [q EXCEPT !.at = place, !.found = @ \ Unlisted(q.list)]
      PROVE  EntriesWholeOf(s) /\ RoomsWholeOf(s)
  <2> HIDE DEF s
  <2>1. /\ s.at = place /\ s.list = q.list /\ s.stayed = q.stayed /\ s.trouble = q.trouble
        /\ s.found = q.found \ Unlisted(q.list) /\ s.waiting = q.waiting /\ s.running = q.running
        /\ s.given = q.given
    BY <1>1, <1>7 DEF Request
  <2>2. Asked(s) = Asked(q) /\ Owed(s) = Owed(q) /\ Owed(s) \cap Unlisted(q.list) = {}
    BY <2>1 DEF Asked, Owed
  <2> QED
    BY <1>7, <2>1, <2>2 DEF EntriesWholeOf, RoomsWholeOf
<1> QED
  BY <1>3, <1>4, <1>5, <1>6, <1>7, ElseActs

(* No request is under way at first. *)
LEMMA InitWhole == Init => AllWhole
<1> SUFFICES ASSUME Init, NEW rd \in Requests PROVE EntriesWhole(rd) /\ RoomsWhole(rd)
  BY DEF AllWhole
<1>1. request[rd].at = "idle"
  BY DEF Init, Idle
<1> QED
  BY <1>1 DEF EntriesWhole, RoomsWhole

(* To wait loses none. *)
LEMMA WaitsWhole ==
  ASSUME NEW q \in Request, NEW s, Waits(q, s), s.stayed \subseteq q.stayed,
         EntriesWholeOf(q), RoomsWholeOf(q)
  PROVE  EntriesWholeOf(s) /\ RoomsWholeOf(s)
<1>1. Asked(s) = Asked(q)
  BY DEF Asked, Waits
<1>2. Owed(s) \subseteq Owed(q)
  BY OwedMonotone DEF Waits
<1> QED
  BY <1>1, <1>2 DEF EntriesWholeOf, RoomsWholeOf, Waits

(* So no step does. *)
LEMMA NextWhole == Ordered /\ AllWhole /\ [Next]_vars => AllWhole'
<1> SUFFICES ASSUME Ordered, AllWhole, [Next]_vars PROVE AllWhole'
  OBVIOUS
<1> SUFFICES ASSUME NEW rd \in Requests
             PROVE  EntriesWholeOf(request'[rd]) /\ RoomsWholeOf(request'[rd])
  BY ConfigStays, WholeNext DEF AllWhole
<1>0. /\ joined \subseteq Rooms /\ EntriesOK /\ RequestsOK /\ request[rd] \in Request
      /\ config \in Configs
      /\ \A other \in Requests : Orderly(other)
  BY TypeParts DEF RequestsOK
<1>1. EntriesWholeOf(request[rd]) /\ RoomsWholeOf(request[rd])
  BY DEF AllWhole, EntriesWhole, EntriesWholeOf, RoomsWhole, RoomsWholeOf
<1>2. CASE Moves(rd)
  BY <1>0, <1>1, <1>2, AcquireWhole, ReplyWhole, ListWhole, ElseWhole DEF Moves, RequestStep
<1>3. ASSUME NEW other \in Requests, other # rd, Moves(other)
      PROVE  request'[rd] = request[rd]
  BY <1>0, <1>3, MovesType
<1>4. CASE Tick \/ \E rooms \in SUBSET Rooms : Change(rooms)
  BY <1>0, <1>1, <1>4, TickActs, ChangeActs, WaitsWhole
<1> QED
  BY <1>0, <1>1, <1>2, <1>3, <1>4, WhoSteps DEF vars

(* However the requests about the rooms interleave, with each other, with other
   lists and with joins and leaves: a list none of whose requests failed has every
   room the user stayed in that was due or on a page of a hierarchy it was given,
   but for bridged ones.  It need not have what is past the first page. *)
THEOREM ListsAreWhole == Spec => []ListsWhole
<1>1. Ordered /\ AllWhole => ListsWhole
  <2> SUFFICES ASSUME Ordered, AllWhole, NEW rd \in Requests, ~request[rd].trouble,
                      request[rd].at = "store" \/ (request[rd].at = "rooms" /\ Gathered(rd))
               PROVE  Owed(request[rd]) \subseteq request[rd].found
    BY DEF ListsWhole
  <2>1. request[rd].waiting = {} /\ request[rd].running = {}
    BY DEF Gathered, Gathering, Ordered, Orderly
  <2>2. Asked(request[rd]) = {}
    BY <2>1 DEF Asked
  <2> QED
    BY <2>2 DEF AllWhole, RoomsWhole
<1> QED
  BY <1>1, InitOrdered, NextOrdered, InitWhole, NextWhole, PTL DEF Spec

------------------------------------------------------------------------------
(* Ages. *)

(* Every step keeps the clocks right. *)
LEMMA NextClocks ==
  ASSUME Ordered, Clocks, [Next]_vars
  PROVE  /\ Clocks' /\ calm \in Nat /\ calm' \in Nat
         /\ \A r \in Rooms : /\ gone[r] \in Nat /\ gone'[r] \in Nat
                             /\ here[r] \in Nat /\ here'[r] \in Nat
<1>0. /\ config \in Configs /\ joined \subseteq Rooms /\ EntriesOK /\ RequestsOK /\ ClocksOK /\ ClocksOK'
      /\ \A other \in Requests : Orderly(other)
  <2>1. Ordered'
    BY NextOrdered
  <2> QED
    BY <2>1, TypeParts DEF Ordered, TypeOK, ClocksOK
<1>1. /\ \A r \in Rooms : gone[r] \in Nat /\ gone'[r] \in Nat /\ here[r] \in Nat /\ here'[r] \in Nat
      /\ calm \in Nat /\ calm' \in Nat
  BY <1>0, NeverType DEF ClocksOK, Never
<1> SUFFICES Clocks'
  BY <1>1
<1>2. ASSUME NEW rd \in Requests, Moves(rd) PROVE Clocks'
  BY <1>0, <1>2, MovesType DEF Clocks
<1>3. ASSUME NEW rooms \in SUBSET Rooms, Change(rooms) PROVE Clocks'
  <2>1. joined' = rooms
    BY <1>3 DEF Change
  <2> QED
    BY <1>0, <1>3, <2>1, ChangeClocks DEF Clocks
<1>4. CASE Tick
  <2>1. joined' = joined
    BY <1>4 DEF Tick
  <2>2. \A r \in Rooms : (r \in joined => gone'[r] = 0) /\ (r \notin joined => here'[r] = 0)
    BY <1>0, <1>4, TickClocks
  <2> QED
    BY <2>1, <2>2 DEF Clocks
<1>5. CASE UNCHANGED vars
  <2>1. UNCHANGED <<joined, gone, here>>
    BY <1>5 DEF vars
  <2> QED
    BY <2>1 DEF Clocks
<1> QED
  BY <1>0, <1>2, <1>3, <1>4, <1>5, WhoSteps

(* Between its first request and its end a request keeps its list and its start. *)
LEMMA GatherKeeps ==
  ASSUME RequestsOK, NEW rd \in Requests,
         \/ \E r \in Rooms : Acquire(rd, r)
         \/ \E a \in request[rd].running : Reply(rd, a)
  PROVE  LET q == request[rd]
             s == request'[rd]
         IN /\ s.at = q.at /\ s.list = q.list /\ s.stayed = q.stayed /\ s.elapsed = q.elapsed
            /\ ~s.trouble => ~q.trouble
            /\ UNCHANGED <<config, joined, gone, here>>
<1> DEFINE q == request[rd]
           s == request'[rd]
           Keeps == /\ s.at = q.at /\ s.list = q.list /\ s.stayed = q.stayed
                    /\ s.elapsed = q.elapsed /\ (~s.trouble => ~q.trouble)
<1>1. q \in Request
  BY DEF RequestsOK
<1>2. ASSUME NEW r \in Rooms, Acquire(rd, r)
      PROVE  Keeps /\ UNCHANGED <<config, joined, gone, here>>
  <2> DEFINE new == [room |-> r, step |-> 1]
  <2>1. s = [q EXCEPT !.waiting = @ \ {r}, !.free = @ - 1, !.running = @ \cup {new}]
        /\ UNCHANGED <<config, joined, gone, here>>
    BY <1>2, PutActs DEF Acquire
  <2> HIDE DEF s, new
  <2> QED
    BY <1>1, <2>1 DEF Request
<1>3. ASSUME NEW a \in q.running, Reply(rd, a)
      PROVE  Keeps /\ UNCHANGED <<config, joined, gone, here>>
  <2>1. UNCHANGED <<config, joined, gone, here>>
    BY <1>3 DEF Reply, Advance, Drop, Put
  <2>2. CASE s = [q EXCEPT !.running = (@ \ {a}) \cup {NextAbout(a)}]
    <3> HIDE DEF s
    <3> QED
      BY <1>1, <2>1, <2>2 DEF Request
  <2>3. ASSUME NEW page \in Brings(rd, a.room),
               s = [q EXCEPT !.running = @ \ {a}, !.free = @ + 1,
                             !.found = @ \cup {a.room} \cup page, !.given = @ \cup page]
        PROVE  Keeps
    <3> HIDE DEF s
    <3> QED
      BY <1>1, <2>3 DEF Request
  <2>4. ASSUME NEW troubled \in BOOLEAN,
               s = [q EXCEPT !.running = @ \ {a}, !.free = @ + 1, !.trouble = @ \/ troubled]
        PROVE  Keeps
    <3> HIDE DEF s
    <3>1. s.at = q.at /\ s.list = q.list /\ s.stayed = q.stayed /\ s.elapsed = q.elapsed
      BY <1>1, <2>4 DEF Request
    <3>2. ~s.trouble => ~q.trouble
      BY <1>1, <2>4 DEF Request
    <3> QED
      BY <3>1, <3>2
  <2> QED
    BY <1>3, <2>1, <2>2, <2>3, <2>4, ReplyActs
<1> QED
  BY <1>2, <1>3

(* What a request has seen after a step it had seen before, or it is a room the
   user is in. *)
LEMMA AcquireSeen ==
  ASSUME RequestsOK, NEW rd \in Requests, Orderly(rd), NEW r \in Rooms, Acquire(rd, r)
  PROVE  Seen(rd)' \subseteq Seen(rd)
<1> DEFINE q == request[rd]
           s == request'[rd]
           new == [room |-> r, step |-> 1]
<1>1. q \in Request /\ r \in q.waiting /\ Gathering(rd)
      /\ s = [q EXCEPT !.waiting = @ \ {r}, !.free = @ - 1, !.running = @ \cup {new}]
      /\ UNCHANGED config
  BY PutActs DEF Acquire, RequestsOK
<1>2. new.room = r /\ new.step = 1
  OBVIOUS
<1> HIDE DEF s, new
<1>3. /\ s.waiting = q.waiting \ {r} /\ s.running = q.running \cup {new} /\ s.found = q.found
      /\ s.at = q.at /\ s.list = q.list
  BY <1>1 DEF Request
<1>4. Steps(rd)' = Steps(rd)
  BY <1>1, <1>3, StepsStay DEF s
<1>5. q.at = "rooms" /\ Len(Steps(rd)) = 1 => q.list = "public_rooms"
  BY DEF Steps, ListOf
<1>6. CASE q.at = "rooms"
  <2>1. ASSUME NEW b \in s.running, b.step = Len(Steps(rd)) PROVE b.room \in Seen(rd)
    <3>1. CASE b = new
      BY <1>1, <1>2, <1>5, <1>6, <2>1, <3>1 DEF Seen
    <3>2. CASE b \in q.running
      BY <1>6, <2>1, <3>2 DEF Seen
    <3> QED
      BY <1>3, <2>1, <3>1, <3>2
  <2>2. s.found \subseteq Seen(rd) /\ (s.list = "public_rooms" => s.waiting \subseteq Seen(rd))
    BY <1>3, <1>6 DEF Seen
  <2>3. Seen(rd)' = s.found \cup {b.room : b \in {c \in s.running : c.step = Len(Steps(rd))}}
                      \cup (IF s.list = "public_rooms" THEN s.waiting ELSE {})
    BY <1>3, <1>4, <1>6 DEF Seen, s
  <2> QED
    BY <2>1, <2>2, <2>3
<1>7. CASE q.at # "rooms"
  BY <1>1, <1>3, <1>7 DEF Seen, Gathering, s
<1> QED
  BY <1>6, <1>7

(* A request has seen a room only if the user was in it then: by an answer, *)
LEMMA ReplySeen ==
  ASSUME RequestsOK, NEW rd \in Requests, Orderly(rd), NEW a \in request[rd].running, Reply(rd, a)
  PROVE  Seen(rd)' \subseteq Seen(rd) \cup joined
<1> DEFINE q == request[rd]
           s == request'[rd]
           next == NextAbout(a)
           Kept == s.waiting = q.waiting /\ s.at = q.at /\ s.list = q.list
<1>1. q \in Request /\ a \in Query /\ Gathering(rd) /\ UNCHANGED config
  BY ReplyActs, GatherKeeps DEF RequestsOK
<1>2. Steps(rd)' = Steps(rd) /\ s.at = q.at /\ s.list = q.list
  BY <1>1, StepsStay, GatherKeeps
<1>3. a.step \in 1 .. 3 /\ a.step <= Len(Steps(rd)) /\ Len(Steps(rd)) \in 1 .. 3
  BY <1>1, StepsType DEF Query, Orderly
<1>4. CASE q.at # "rooms"
  BY <1>1, <1>2, <1>4 DEF Seen, Gathering
<1>5. CASE q.at = "rooms"
  <2>1. Seen(rd)' = s.found \cup {b.room : b \in {c \in s.running : c.step = Len(Steps(rd))}}
                      \cup (IF q.list = "public_rooms" THEN s.waiting ELSE {})
    BY <1>2, <1>5 DEF Seen
  <2>2. Seen(rd) = q.found \cup {b.room : b \in {c \in q.running : c.step = Len(Steps(rd))}}
                     \cup (IF q.list = "public_rooms" THEN q.waiting ELSE {})
    BY <1>5 DEF Seen
  <2>3. ASSUME Kept, s.running \subseteq q.running, s.found \subseteq Seen(rd)
        PROVE  Seen(rd)' \subseteq Seen(rd)
    BY <2>1, <2>2, <2>3
  <2>4. CASE /\ a.step < Len(Steps(rd)) /\ TRUE \in Yes(Steps(rd)[a.step], a.room)
             /\ s = [q EXCEPT !.running = (@ \ {a}) \cup {next}]
    <3>1. next.room = a.room /\ next.step = a.step + 1
      BY DEF NextAbout
    <3> HIDE DEF s, next
    <3>2. s.running = (q.running \ {a}) \cup {next} /\ s.found = q.found /\ Kept
      BY <1>1, <2>4 DEF Request
    <3>3. next.step = Len(Steps(rd)) => a.room \in joined
      <4> SUFFICES ASSUME next.step = Len(Steps(rd)) PROVE a.room \in joined
        OBVIOUS
      <4>1. Len(Steps(rd)) \in {2, 3} /\ a.step = Len(Steps(rd)) - 1
        BY <1>3, <2>4, <3>1
      <4>2. Steps(rd)[a.step] = "joined"
        BY <1>5, <4>1 DEF Steps
      <4> QED
        BY <2>4, <4>2 DEF Yes
    <3> QED
      BY <2>1, <2>2, <3>1, <3>2, <3>3
  <2>5. ASSUME ~(a.step < Len(Steps(rd))), NEW page \in Brings(rd, a.room),
               s = [q EXCEPT !.running = @ \ {a}, !.free = @ + 1,
                             !.found = @ \cup {a.room} \cup page, !.given = @ \cup page]
        PROVE  Seen(rd)' \subseteq Seen(rd)
    <3>1. a.step = Len(Steps(rd)) /\ page = {}
      BY <1>3, <1>5, <2>5 DEF Brings
    <3>2. a.room \in Seen(rd)
      BY <2>2, <3>1
    <3> HIDE DEF s
    <3>3. s.running = q.running \ {a} /\ s.found = q.found \cup {a.room} /\ Kept
      BY <1>1, <2>5, <3>1 DEF Request
    <3> QED
      BY <2>2, <2>3, <3>2, <3>3
  <2>6. ASSUME NEW troubled \in BOOLEAN,
               s = [q EXCEPT !.running = @ \ {a}, !.free = @ + 1, !.trouble = @ \/ troubled]
        PROVE  Seen(rd)' \subseteq Seen(rd)
    <3> HIDE DEF s
    <3>1. s.running = q.running \ {a} /\ s.found = q.found /\ Kept
      BY <1>1, <2>6 DEF Request
    <3> QED
      BY <2>2, <2>3, <3>1
  <2> QED
    BY <2>4, <2>5, <2>6, ReplyActs
<1> QED
  BY <1>4, <1>5

(* by the list of joined rooms, *)
LEMMA ListSeen ==
  ASSUME RequestsOK, config \in Configs, joined \subseteq Rooms, NEW rd \in Requests,
         Orderly(rd), List(rd)
  PROVE  LET q == request[rd]
             s == request'[rd]
         IN /\ Seen(rd)' \subseteq joined
            /\ s.list = q.list /\ s.elapsed = q.elapsed
            /\ s.at \in {"entries", "rooms", "store"} /\ ~s.trouble => s.stayed = joined
<1> DEFINE q == request[rd]
           s == request'[rd]
           Goal == /\ Seen(rd)' \subseteq joined
                   /\ s.list = q.list /\ s.elapsed = q.elapsed
                   /\ s.at \in {"entries", "rooms", "store"} /\ ~s.trouble => s.stayed = joined
<1> SUFFICES Goal
  OBVIOUS
<1>1. q \in Request /\ q.running = {} /\ q.waiting = {} /\ q.found = {}
  BY DEF RequestsOK, List, Orderly, Gathering
<1>2. ASSUME NEW place \in {"entries", "rooms"}, NEW rooms \in SUBSET Rooms,
             NEW given \in SUBSET Rooms,
             s = [q EXCEPT !.at = place, !.waiting = rooms, !.stayed = joined, !.given = given],
             place = "rooms" /\ q.list = "public_rooms" => rooms \subseteq joined
      PROVE  Goal
  <2> HIDE DEF s
  <2>1. /\ s.at = place /\ s.waiting = rooms /\ s.stayed = joined /\ s.list = q.list
        /\ s.found = {} /\ s.running = {} /\ s.elapsed = q.elapsed
    BY <1>1, <1>2 DEF Request
  <2>2. Seen(rd)' \subseteq joined
    BY <1>2, <2>1 DEF Seen, s
  <2> QED
    BY <2>1, <2>2
<1>3. CASE s = [q EXCEPT !.at = "rooms", !.trouble = TRUE]
  <2> HIDE DEF s
  <2>1. /\ s.at = "rooms" /\ s.waiting = {} /\ s.list = q.list /\ s.trouble
        /\ s.found = {} /\ s.running = {} /\ s.elapsed = q.elapsed
    BY <1>1, <1>3 DEF Request
  <2>2. Seen(rd)' = {}
    BY <2>1 DEF Seen, s
  <2> QED
    BY <2>1, <2>2
<1>4. CASE s = [q EXCEPT !.at = "failed"]
  <2> HIDE DEF s
  <2>1. s.at = "failed" /\ s.list = q.list /\ s.elapsed = q.elapsed
    BY <1>1, <1>4 DEF Request
  <2>2. Seen(rd)' = {}
    BY <2>1 DEF Seen, s
  <2> QED
    BY <2>1, <2>2
<1> QED
  BY <1>2, <1>3, <1>4, ListActs

(* or from what it had seen before. *)
LEMMA ElseSeen ==
  ASSUME RequestsOK, EntriesOK, NEW rd \in Requests, Orderly(rd),
         \/ Ask(rd) \/ Resolve(rd) \/ Lookup(rd) \/ LookAgain(rd) \/ Finish(rd) \/ Store(rd)
         \/ Answer(rd) \/ Abandon(rd)
  PROVE  LET q == request[rd]
             s == request'[rd]
         IN /\ s.list = q.list
            /\ s.at \in {"entries", "rooms", "store"} =>
                 /\ q.at \in {"entries", "rooms"} /\ s.elapsed = q.elapsed
                 /\ s.stayed = q.stayed /\ s.trouble = q.trouble
            /\ Sure(q.list) => Seen(rd)' \subseteq Seen(rd)
<1> DEFINE q == request[rd]
           s == request'[rd]
           Goal == /\ s.list = q.list
                   /\ s.at \in {"entries", "rooms", "store"} =>
                        /\ q.at \in {"entries", "rooms"} /\ s.elapsed = q.elapsed
                        /\ s.stayed = q.stayed /\ s.trouble = q.trouble
                   /\ Sure(q.list) => Seen(rd)' \subseteq Seen(rd)
<1> SUFFICES Goal
  OBVIOUS
<1>1. q \in Request
  BY DEF RequestsOK
<1>2. ASSUME s.at \notin {"entries", "rooms", "store"}, s.list = q.list
      PROVE  Goal
  BY <1>2 DEF Seen
<1>3. CASE s = Idle(q.list)
  BY <1>2, <1>3 DEF Idle
<1>4. ASSUME NEW place \in {"resolve", "lookup", "again", "list", "failed", "refused", "served"},
             s = [q EXCEPT !.at = place]
      PROVE  Goal
  <2> HIDE DEF s
  <2>1. s.at = place /\ s.list = q.list
    BY <1>1, <1>4 DEF Request
  <2> QED
    BY <1>2, <2>1
<1>5. CASE s = [q EXCEPT !.at = "served", !.found = entry[q.list].rooms,
                         !.elapsed = entry[q.list].took]
  <2> HIDE DEF s
  <2>1. s.at = "served" /\ s.list = q.list
    BY <1>1, <1>5 DEF Request
  <2> QED
    BY <1>2, <2>1
<1>6. CASE /\ q.at = "entries"
           /\ s = [q EXCEPT !.at = "rooms", !.waiting = q.found, !.found = {}]
  <2>1. ~Sure(q.list)
    BY <1>6 DEF Orderly, Sure
  <2> HIDE DEF s
  <2>2. s.list = q.list /\ s.elapsed = q.elapsed /\ s.stayed = q.stayed /\ s.trouble = q.trouble
    BY <1>1, <1>6 DEF Request
  <2> QED
    BY <1>6, <2>1, <2>2
<1>7. ASSUME q.at = "rooms", NEW place \in {"store", "served"},
             s = [q EXCEPT !.at = place, !.found = @ \ Unlisted(q.list)]
      PROVE  Goal
  <2> HIDE DEF s
  <2>1. /\ s.at = place /\ s.list = q.list /\ s.stayed = q.stayed /\ s.trouble = q.trouble
        /\ s.found = q.found \ Unlisted(q.list) /\ s.elapsed = q.elapsed
    BY <1>1, <1>7 DEF Request
  <2>2. Seen(rd)' \subseteq Seen(rd)
    BY <1>7, <2>1 DEF Seen, s
  <2> QED
    BY <1>7, <2>1, <2>2
<1> QED
  BY <1>3, <1>4, <1>5, <1>6, <1>7, ElseActs

(* All of it together. *)
LEMMA MovesSeen ==
  ASSUME RequestsOK, EntriesOK, config \in Configs, joined \subseteq Rooms, NEW rd \in Requests,
         Orderly(rd), Moves(rd)
  PROVE  LET q == request[rd]
             s == request'[rd]
         IN /\ s.list = q.list
            /\ Sure(q.list) => Seen(rd)' \subseteq Seen(rd) \cup joined
            /\ s.at \in {"entries", "rooms", "store"} =>
                 s.elapsed = q.elapsed /\ q.at \in {"list", "entries", "rooms", "store"}
            /\ s.at \in {"entries", "rooms", "store"} /\ ~s.trouble =>
                 \/ s.stayed = joined
                 \/ /\ q.at \in {"entries", "rooms", "store"} /\ ~q.trouble
                    /\ s.stayed = q.stayed
<1>1. CASE List(rd)
  <2>1. request[rd].at = "list"
    BY <1>1 DEF List
  <2> QED
    BY <1>1, <2>1, ListSeen
<1>2. CASE \/ \E r \in Rooms : Acquire(rd, r)
           \/ \E a \in request[rd].running : Reply(rd, a)
  <2>1. Seen(rd)' \subseteq Seen(rd) \cup joined
    BY <1>2, AcquireSeen, ReplySeen
  <2>2. request[rd].at \in {"entries", "rooms"}
    BY <1>2 DEF Acquire, Reply, Gathering
  <2> QED
    BY <1>2, <2>1, <2>2, GatherKeeps
<1>3. CASE \/ Ask(rd) \/ Resolve(rd) \/ Lookup(rd) \/ LookAgain(rd) \/ Finish(rd) \/ Store(rd)
           \/ Answer(rd) \/ Abandon(rd)
  BY <1>3, ElseSeen
<1> QED
  BY <1>1, <1>2, <1>3 DEF Moves, RequestStep

(* Nothing is cached and no clock has run at first. *)
LEMMA InitAges == Init => Lately /\ LongThere
<1> SUFFICES ASSUME Init PROVE Lately /\ LongThere
  OBVIOUS
<1>1. Clocks
  BY DEF Init, Clocks
<1>2. EntriesLately /\ EntriesThere
  BY DEF Init, EntriesLately, EntriesThere, NoEntry
<1>3. \A rd \in Requests : request[rd].at = "idle"
  BY DEF Init, Idle
<1>4. \A rd \in Requests : SeenLately(rd) /\ StayedLong(rd) /\ TroubleLately(rd)
  BY <1>3 DEF SeenLately, Seen, StayedLong, TroubleLately
<1> QED
  BY <1>1, <1>2, <1>4 DEF Lately, LongThere

(* What was seen ages with the request that saw it. *)
LEMMA NextSeenLately ==
  ASSUME Ordered, Clocks, [Next]_vars, NEW rd \in Requests, SeenLately(rd)
  PROVE  SeenLately(rd)'
<1> DEFINE q == request[rd]
           s == request'[rd]
<1>0. /\ config \in Configs /\ joined \subseteq Rooms /\ EntriesOK /\ RequestsOK /\ ClocksOK
      /\ \A other \in Requests : Orderly(other)
      /\ q.elapsed \in Nat /\ q.list \in Lists /\ UNCHANGED config
  BY TypeParts, ConfigStays DEF RequestsOK, Request
<1> SUFFICES ASSUME Sure(s.list), s.elapsed <= Latency, NEW r \in Seen(rd)'
             PROVE  gone'[r] <= s.elapsed
  BY <1>0 DEF SeenLately, Sure, Curated, ListOf
<1>1. CASE Moves(rd)
  <2>1. /\ s.list = q.list /\ Seen(rd)' \subseteq Seen(rd) \cup joined /\ gone' = gone
        /\ s.at \in {"entries", "rooms", "store"} => s.elapsed = q.elapsed
    BY <1>0, <1>1, MovesSeen, MovesType
  <2>2. s.elapsed = q.elapsed
    BY <2>1 DEF Seen
  <2>3. r \in Rooms /\ r \in joined => gone[r] = 0
    BY DEF Clocks
  <2> QED
    BY <1>0, <2>1, <2>2, <2>3 DEF SeenLately, ListOf
<1>2. ASSUME Waits(q, s), UNCHANGED config, q.elapsed <= Latency
      PROVE  /\ r \in Rooms /\ gone[r] <= q.elapsed /\ gone[r] \in Nat
  <2>1. Steps(rd)' = Steps(rd)
    BY <1>2, StepsStay DEF Waits
  <2>2. Seen(rd)' = Seen(rd) /\ s.list = q.list
    BY <1>2, <2>1 DEF Seen, Waits
  <2>3. Seen(rd) \subseteq Rooms
    BY <1>0 DEF Seen, RequestsOK, Request, Query
  <2> QED
    BY <1>0, <1>2, <2>2, <2>3, NeverType DEF SeenLately, ListOf, ClocksOK
<1>3. ASSUME NEW other \in Requests, other # rd, Moves(other)
      PROVE  gone'[r] <= s.elapsed
  <2>1. s = q /\ UNCHANGED <<config, gone>>
    BY <1>0, <1>3, MovesType
  <2> QED
    BY <1>2, <2>1 DEF Waits
<1>4. ASSUME NEW rooms \in SUBSET Rooms, Change(rooms)
      PROVE  gone'[r] <= s.elapsed
  <2>1. Waits(q, s) /\ s.elapsed = q.elapsed
    BY <1>0, <1>4, ChangeActs
  <2>2. r \in Rooms /\ gone[r] <= q.elapsed /\ gone[r] \in Nat
    BY <1>0, <1>2, <2>1
  <2> QED
    BY <1>0, <1>4, <2>1, <2>2, ChangeClocks
<1>5. CASE Tick
  <2>1. s.at \in {"rooms", "store"} /\ Waits(q, s)
    BY <1>0, <1>5, TickActs DEF Seen
  <2>2. Fetching(rd)
    BY <2>1 DEF Fetching, Waits
  <2>3. s.elapsed = q.elapsed + 1
    BY <1>0, <1>5, <2>2, TickActs
  <2>4. q.elapsed <= Latency
    BY <1>0, <2>3, ListingsAssumption
  <2>5. r \in Rooms /\ gone[r] <= q.elapsed /\ gone[r] \in Nat
    BY <1>0, <1>2, <2>1, <2>4
  <2>6. gone'[r] <= gone[r] + 1 /\ gone'[r] \in Nat
    BY <1>0, <1>5, <2>5, TickClocks, NextClocks
  <2> QED
    BY <1>0, <2>3, <2>5, <2>6
<1>6. CASE UNCHANGED vars
  <2>1. s = q /\ UNCHANGED <<config, gone>>
    BY <1>6 DEF vars
  <2> QED
    BY <1>2, <2>1 DEF Waits
<1> QED
  BY <1>0, <1>1, <1>3, <1>4, <1>5, <1>6, WhoSteps

(* A recorded list ages by as much as its time to live shrinks. *)
LEMMA NextEntriesLately ==
  ASSUME Ordered, Lately, [Next]_vars
  PROVE  EntriesLately'
<1>0. /\ config \in Configs /\ joined \subseteq Rooms /\ EntriesOK /\ RequestsOK /\ ClocksOK /\ UNCHANGED config
      /\ \A other \in Requests : Orderly(other)
      /\ \A r \in Rooms : gone[r] \in Nat /\ gone'[r] \in Nat
  BY TypeParts, ConfigStays, NextClocks DEF Lately
<1>1. Ttl \in Nat /\ Latency \in Nat
  BY ListingsAssumption
<1> SUFFICES ASSUME NEW l \in Lists, entry'[l] # NoEntry, Sure(l),
                    entry'[l].took <= Latency, NEW r \in entry'[l].rooms
             PROVE  gone'[r] + entry'[l].ttl <= Ttl + entry'[l].took
  BY <1>0 DEF EntriesLately, Sure, Curated
<1>2. ASSUME entry[l] # NoEntry, r \in entry[l].rooms, entry[l].took <= Latency
      PROVE  r \in Rooms /\ entry[l].ttl \in Nat /\ gone[r] + entry[l].ttl <= Ttl + entry[l].took
             /\ gone[r] \in Nat /\ gone'[r] \in Nat /\ entry[l].took \in Nat
  <2>1. entry[l] \in Entry
    BY <1>0, <1>2 DEF EntriesOK
  <2> QED
    BY <1>0, <1>1, <1>2, <2>1 DEF Lately, EntriesLately, Entry, Late
<1>3. ASSUME entry'[l] = entry[l], \A room \in Rooms : gone'[room] <= gone[room]
      PROVE  gone'[r] + entry'[l].ttl <= Ttl + entry'[l].took
  BY <1>1, <1>2, <1>3
<1>4. ASSUME NEW rd \in Requests, Moves(rd)
      PROVE  gone'[r] + entry'[l].ttl <= Ttl + entry'[l].took
  <2>1. gone' = gone
    BY <1>0, <1>4, MovesType
  <2>2. CASE entry'[l] = entry[l]
    BY <1>0, <1>3, <2>1, <2>2
  <2>3. CASE request[rd].at = "store" /\ l = request[rd].list /\ entry'[l] = Record(rd)
    <3>1. entry'[l].ttl = Ttl /\ r \in request[rd].found /\ entry'[l].took = request[rd].elapsed
      BY <2>3 DEF Record
    <3>2. /\ r \in Seen(rd) /\ r \in Rooms /\ request[rd].elapsed <= Latency
          /\ request[rd].elapsed \in Nat
      BY <1>0, <1>1, <2>3, <3>1 DEF Seen, RequestsOK, Request, Late
    <3>3. gone[r] <= request[rd].elapsed
      BY <2>3, <3>2 DEF Lately, SeenLately, ListOf
    <3> QED
      BY <1>0, <1>1, <2>1, <3>1, <3>2, <3>3
  <2> QED
    BY <1>0, <1>4, <2>2, <2>3, MovesEntry
<1>5. ASSUME NEW rooms \in SUBSET Rooms, Change(rooms)
      PROVE  gone'[r] + entry'[l].ttl <= Ttl + entry'[l].took
  <2>1. entry'[l] = entry[l]
    BY <1>5 DEF Change
  <2>2. \A room \in Rooms : gone'[room] <= gone[room]
    BY <1>0, <1>5, ChangeClocks
  <2> QED
    BY <1>3, <2>1, <2>2
<1>6. CASE Tick
  <2>1. /\ entry[l] \in Entry /\ entry'[l].rooms = entry[l].rooms
        /\ entry'[l].ttl + 1 = entry[l].ttl /\ entry'[l].took = entry[l].took
    BY <1>0, <1>6, TickEntries
  <2>2. entry[l] # NoEntry /\ entry'[l].ttl \in Nat
    <3>1. EntriesOK'
      BY <1>0, <1>6, TickEntries
    <3>2. entry'[l] \in Entry
      BY <3>1 DEF EntriesOK
    <3>3. entry[l].rooms # {}
      BY <2>1
    <3> QED
      BY <2>1, <3>2 DEF Entry, NoEntry
  <2>3. r \in Rooms /\ gone'[r] <= gone[r] + 1
    BY <1>0, <1>2, <1>6, <2>1, <2>2, TickClocks
  <2> QED
    BY <1>1, <1>2, <2>1, <2>2, <2>3
<1>7. CASE UNCHANGED vars
  <2>1. UNCHANGED <<entry, gone>>
    BY <1>7 DEF vars
  <2> QED
    BY <1>0, <1>3, <2>1
<1> QED
  BY <1>0, <1>4, <1>5, <1>6, <1>7, WhoSteps

(* A room the user stayed in: it was there before the request began. *)
LEMMA NextStayedLong ==
  ASSUME Ordered, Clocks, [Next]_vars, NEW rd \in Requests, StayedLong(rd)
  PROVE  StayedLong(rd)'
<1> DEFINE q == request[rd]
           s == request'[rd]
<1>0. /\ config \in Configs /\ joined \subseteq Rooms /\ EntriesOK /\ RequestsOK /\ ClocksOK
      /\ \A other \in Requests : Orderly(other)
      /\ q.elapsed \in Nat /\ q \in Request
      /\ \A r \in Rooms : here[r] \in Nat /\ here'[r] \in Nat
  BY TypeParts, NextClocks DEF RequestsOK, Request
<1> SUFFICES ASSUME s.at \in {"entries", "rooms", "store"}, ~s.trouble, s.elapsed <= Latency,
                    NEW r \in Rooms, here'[r] > s.elapsed
             PROVE  r \in s.stayed
  BY DEF StayedLong
<1>1. ASSUME s = q, here' = here
      PROVE  r \in s.stayed
  BY <1>1 DEF StayedLong
<1>2. ASSUME Waits(q, s), here[r] > q.elapsed, q.elapsed <= Latency
      PROVE  r \in q.stayed
  BY <1>2 DEF StayedLong, Waits
<1>3. CASE Moves(rd)
  <2>1. /\ s.elapsed = q.elapsed
        /\ \/ s.stayed = joined
           \/ /\ q.at \in {"entries", "rooms", "store"} /\ ~q.trouble
              /\ s.stayed = q.stayed
    BY <1>0, <1>3, MovesSeen
  <2>2. here' = here
    BY <1>0, <1>3, MovesType
  <2>3. r \notin joined => here[r] = 0
    BY DEF Clocks
  <2> QED
    BY <1>0, <2>1, <2>2, <2>3 DEF StayedLong
<1>4. ASSUME NEW other \in Requests, other # rd, Moves(other)
      PROVE  r \in s.stayed
  <2>1. s = q /\ here' = here
    BY <1>0, <1>4, MovesType
  <2> QED
    BY <1>1, <2>1
<1>5. ASSUME NEW rooms \in SUBSET Rooms, Change(rooms)
      PROVE  r \in s.stayed
  <2>1. Waits(q, s) /\ s.elapsed = q.elapsed /\ s.stayed = q.stayed \cap rooms
    BY <1>0, <1>5, ChangeActs
  <2>2. here'[r] = IF r \in rooms THEN here[r] ELSE 0
    BY <1>0, <1>5, ChangeClocks
  <2>3. r \in rooms /\ here[r] > q.elapsed
    BY <1>0, <2>1, <2>2
  <2> QED
    BY <1>2, <2>1, <2>3
<1>6. CASE Tick
  <2>1. Waits(q, s) /\ s.stayed = q.stayed
    BY <1>0, <1>6, TickActs
  <2>2. Fetching(rd)
    BY <2>1 DEF Fetching, Waits
  <2>3. s.elapsed = q.elapsed + 1
    BY <1>0, <1>6, <2>2, TickActs
  <2>4. here'[r] <= here[r] + 1
    BY <1>0, <1>6, TickClocks
  <2>5. here[r] > q.elapsed /\ q.elapsed <= Latency
    BY <1>0, <2>3, <2>4, ListingsAssumption
  <2> QED
    BY <1>2, <2>1, <2>5
<1>7. CASE UNCHANGED vars
  <2>1. s = q /\ here' = here
    BY <1>7 DEF vars
  <2> QED
    BY <1>1, <2>1
<1> QED
  BY <1>0, <1>3, <1>4, <1>5, <1>6, <1>7, WhoSteps

(* A failure is no older than the request it is part of. *)
LEMMA NextTroubleLately ==
  ASSUME Ordered, Clocks, [Next]_vars, NEW rd \in Requests, TroubleLately(rd)
  PROVE  TroubleLately(rd)'
<1> DEFINE q == request[rd]
           s == request'[rd]
<1>0. /\ config \in Configs /\ joined \subseteq Rooms /\ EntriesOK /\ RequestsOK /\ ClocksOK
      /\ \A other \in Requests : Orderly(other)
      /\ q.elapsed \in Nat /\ q \in Request /\ calm \in Nat /\ calm' \in Nat
  BY TypeParts, NextClocks DEF RequestsOK, Request
<1> SUFFICES ASSUME s.at \in {"entries", "rooms", "store"}, s.trouble, s.elapsed <= Latency
             PROVE  calm' <= s.elapsed
  BY DEF TroubleLately
<1>1. ASSUME Waits(q, s), q.elapsed <= Latency
      PROVE  calm <= q.elapsed
  BY <1>1 DEF TroubleLately, Waits
<1>2. CASE Moves(rd)
  <2>1. calm' <= calm /\ (q.trouble \/ calm' = 0) /\ s.elapsed = q.elapsed
    BY <1>0, <1>2, MovesCalm, MovesSeen
  <2>2. q.trouble => q.at \in {"entries", "rooms", "store"}
    <3> SUFFICES ASSUME q.trouble PROVE q.at \in {"entries", "rooms", "store"}
      OBVIOUS
    <3>1. q.at # "list"
      BY <1>0 DEF Orderly
    <3>2. q.at \in {"list", "entries", "rooms", "store"}
      BY <1>0, <1>2, MovesSeen
    <3> QED
      BY <3>1, <3>2
  <2> QED
    BY <1>0, <2>1, <2>2 DEF TroubleLately
<1>3. ASSUME NEW other \in Requests, other # rd, Moves(other)
      PROVE  calm' <= s.elapsed
  <2>1. s = q
    BY <1>0, <1>3, MovesType
  <2>2. calm' <= calm
    BY <1>0, <1>3, MovesCalm
  <2>3. calm <= q.elapsed
    BY <1>1, <2>1 DEF Waits
  <2> QED
    BY <1>0, <2>1, <2>2, <2>3
<1>4. ASSUME NEW rooms \in SUBSET Rooms, Change(rooms)
      PROVE  calm' <= s.elapsed
  BY <1>0, <1>1, <1>4, ChangeActs, ChangeClocks
<1>5. CASE Tick
  <2>1. Waits(q, s)
    BY <1>0, <1>5, TickActs
  <2>2. Fetching(rd)
    BY <2>1 DEF Fetching, Waits
  <2>3. s.elapsed = q.elapsed + 1 /\ calm' <= calm + 1
    BY <1>0, <1>5, <2>2, TickActs, TickClocks
  <2>4. calm <= q.elapsed
    BY <1>0, <1>1, <2>1, <2>3, ListingsAssumption
  <2> QED
    BY <1>0, <2>3, <2>4
<1>6. CASE UNCHANGED vars
  <2>1. s = q /\ calm' = calm
    BY <1>6 DEF vars
  <2> QED
    BY <1>1, <2>1 DEF Waits
<1> QED
  BY <1>0, <1>2, <1>3, <1>4, <1>5, <1>6, WhoSteps

(* The rooms a list of that age, recorded or served, is held to. *)
Owes(l, ttl, took, clock) == Due(l, {r \in Rooms : clock[r] + ttl > Ttl + took}) \ Unlisted(l)

(* What an entry owes, before and after a step. *)
LEMMA OwesNext ==
  ASSUME UNCHANGED config
  PROVE  /\ EntriesThere <=>
              \A l \in Lists :
                /\ entry[l] # NoEntry /\ entry[l].took <= Latency
                /\ calm + entry[l].ttl > Ttl + entry[l].took
                => Owes(l, entry[l].ttl, entry[l].took, here) \subseteq entry[l].rooms
         /\ EntriesThere' <=>
              \A l \in Lists :
                /\ entry'[l] # NoEntry /\ entry'[l].took <= Latency
                /\ calm' + entry'[l].ttl > Ttl + entry'[l].took
                => Owes(l, entry'[l].ttl, entry'[l].took, here') \subseteq entry'[l].rooms
  BY DEF EntriesThere, Owes, Due, Fits, PageSize, Unlisted, Curated, IncludeAll

(* Those there longer are fewer. *)
LEMMA OwesFewer ==
  ASSUME NEW l \in Lists, NEW ttl, NEW took, NEW clock, NEW ttl2, NEW took2, NEW clock2,
         \A r \in Rooms : clock2[r] + ttl2 > Ttl + took2 => clock[r] + ttl > Ttl + took
  PROVE  Owes(l, ttl2, took2, clock2) \subseteq Owes(l, ttl, took, clock)
<1> DEFINE S == {r \in Rooms : clock2[r] + ttl2 > Ttl + took2}
           T == {r \in Rooms : clock[r] + ttl > Ttl + took}
<1>1. S \subseteq T /\ S \in SUBSET Rooms /\ T \in SUBSET Rooms
  OBVIOUS
<1> HIDE DEF S, T
<1>2. Due(l, S) \subseteq Due(l, T)
  BY <1>1, DueMonotone
<1> QED
  BY <1>2 DEF S, T, Owes

(* A list put together in calm has all it will ever be held to. *)
LEMMA StoreOwes ==
  ASSUME Ordered, AllWhole, LongThere, NEW rd \in Requests, request[rd].at \in {"rooms", "store"},
         request[rd].waiting = {}, request[rd].running = {},
         request[rd].elapsed <= Latency, calm > request[rd].elapsed
  PROVE  Owes(request[rd].list, Ttl, request[rd].elapsed, here) \subseteq request[rd].found
<1> DEFINE q == request[rd]
           S == {r \in Rooms : here[r] + Ttl > Ttl + q.elapsed}
<1>0. /\ q \in Request /\ q.elapsed \in Nat /\ Ttl \in Nat /\ q.trouble \in BOOLEAN
      /\ q.list \in Lists /\ q.stayed \subseteq Rooms /\ calm \in Nat
      /\ \A r \in Rooms : here[r] \in Nat
  BY TypeParts, NeverType, ListingsAssumption DEF RequestsOK, Request, ClocksOK
<1>1. ~q.trouble
  <2> SUFFICES ASSUME q.trouble PROVE FALSE
    OBVIOUS
  <2>1. calm <= q.elapsed
    BY DEF LongThere, TroubleLately
  <2> QED
    BY <1>0, <2>1
<1>2. S \subseteq q.stayed /\ S \in SUBSET Rooms /\ q.stayed \in SUBSET Rooms
  BY <1>0, <1>1 DEF LongThere, StayedLong
<1>3. Asked(q) = {}
  BY DEF Asked
<1>4. Owed(q) \subseteq q.found
  BY <1>1, <1>3 DEF AllWhole, RoomsWhole
<1> HIDE DEF S
<1>5. Due(q.list, S) \subseteq Due(q.list, q.stayed)
  BY <1>0, <1>2, DueMonotone
<1>6. Due(q.list, S) \ Unlisted(q.list) \subseteq q.found
  BY <1>4, <1>5 DEF Owed
<1> QED
  BY <1>6 DEF S, Owes

(* An entry is stored with all it owes, and owes less as it lives. *)
LEMMA NextEntriesThere ==
  ASSUME Ordered, AllWhole, LongThere, [Next]_vars
  PROVE  EntriesThere'
<1>0. /\ config \in Configs /\ joined \subseteq Rooms /\ EntriesOK /\ RequestsOK /\ ClocksOK
      /\ UNCHANGED config
      /\ \A other \in Requests : Orderly(other)
      /\ calm \in Nat /\ calm' \in Nat
      /\ \A r \in Rooms : here[r] \in Nat /\ here'[r] \in Nat
  BY TypeParts, ConfigStays, NextClocks DEF LongThere
<1>1. Ttl \in Nat /\ Latency \in Nat
  BY ListingsAssumption
<1> DEFINE Goal(l) == Owes(l, entry'[l].ttl, entry'[l].took, here') \subseteq entry'[l].rooms
<1> SUFFICES ASSUME NEW l \in Lists, entry'[l] # NoEntry, entry'[l].took <= Latency,
                    calm' + entry'[l].ttl > Ttl + entry'[l].took
             PROVE  Goal(l)
  BY <1>0, OwesNext
<1>2. ASSUME entry[l] # NoEntry, entry[l].took <= Latency, calm + entry[l].ttl > Ttl + entry[l].took
      PROVE  Owes(l, entry[l].ttl, entry[l].took, here) \subseteq entry[l].rooms
  BY <1>0, <1>2, OwesNext DEF LongThere
<1>3. entry[l] # NoEntry => /\ entry[l].ttl \in Nat /\ entry[l].took \in Nat
                            /\ entry[l].rooms \in SUBSET Rooms
  BY <1>0, <1>1 DEF EntriesOK, Entry, Late
<1>4. ASSUME NEW rd \in Requests, Moves(rd)
      PROVE  Goal(l)
  <2>1. here' = here /\ calm' <= calm
    BY <1>0, <1>4, MovesType, MovesCalm
  <2>2. CASE entry'[l] = entry[l]
    BY <1>0, <1>1, <1>2, <1>3, <2>1, <2>2
  <2>3. CASE request[rd].at = "store" /\ l = request[rd].list /\ entry'[l] = Record(rd)
    <3>1. /\ entry'[l].ttl = Ttl /\ entry'[l].rooms = request[rd].found
          /\ entry'[l].took = request[rd].elapsed
      BY <2>3 DEF Record
    <3>2. request[rd].waiting = {} /\ request[rd].running = {} /\ request[rd].elapsed \in Nat
      BY <1>0, <1>1, <2>3 DEF Orderly, Gathering, RequestsOK, Request, Late
    <3>3. calm > request[rd].elapsed
      BY <1>0, <1>1, <2>1, <3>1, <3>2
    <3>4. Owes(request[rd].list, Ttl, request[rd].elapsed, here) \subseteq request[rd].found
      BY <2>3, <3>1, <3>2, <3>3, StoreOwes
    <3> QED
      BY <2>1, <2>3, <3>1, <3>4
  <2> QED
    BY <1>0, <1>4, <2>2, <2>3, MovesEntry
<1>5. ASSUME NEW rooms \in SUBSET Rooms, Change(rooms)
      PROVE  Goal(l)
  <2>1. entry'[l] = entry[l] /\ calm' = calm
    BY <1>5 DEF Change
  <2>2. \A r \in Rooms : here'[r] <= here[r]
    BY <1>0, <1>5, ChangeClocks
  <2>3. \A r \in Rooms : here'[r] + entry[l].ttl > Ttl + entry[l].took
                          => here[r] + entry[l].ttl > Ttl + entry[l].took
    BY <1>0, <1>1, <1>3, <2>1, <2>2
  <2>4. Owes(l, entry[l].ttl, entry[l].took, here') \subseteq Owes(l, entry[l].ttl, entry[l].took, here)
    BY <2>3, OwesFewer
  <2> QED
    BY <1>2, <2>1, <2>4
<1>6. CASE Tick
  <2>1. /\ entry[l] \in Entry /\ entry'[l].rooms = entry[l].rooms
        /\ entry'[l].took = entry[l].took /\ entry'[l].ttl + 1 = entry[l].ttl
    BY <1>0, <1>6, TickEntries
  <2>2. EntriesOK'
    BY <1>0, <1>6, TickEntries
  <2>3. entry[l] # NoEntry /\ entry'[l].ttl \in Nat
    <3>1. entry'[l] \in Entry
      BY <2>2 DEF EntriesOK
    <3>2. entry[l].ttl # 0
      BY <2>1, <3>1 DEF Entry
    <3> QED
      BY <2>1, <3>1, <3>2 DEF Entry, NoEntry
  <2>4. calm' <= calm + 1 /\ \A r \in Rooms : here'[r] <= here[r] + 1
    BY <1>0, <1>6, TickClocks
  <2>5. \A r \in Rooms : here'[r] + entry'[l].ttl > Ttl + entry'[l].took
                          => here[r] + entry[l].ttl > Ttl + entry[l].took
    BY <1>0, <1>1, <1>3, <2>1, <2>3, <2>4
  <2>6. calm + entry[l].ttl > Ttl + entry[l].took
    BY <1>0, <1>1, <1>3, <2>1, <2>3, <2>4
  <2>7. Owes(l, entry'[l].ttl, entry'[l].took, here')
          \subseteq Owes(l, entry[l].ttl, entry[l].took, here)
    BY <2>5, OwesFewer
  <2> QED
    BY <1>2, <2>1, <2>3, <2>6, <2>7
<1>7. CASE UNCHANGED vars
  <2>1. UNCHANGED <<entry, here, calm>>
    BY <1>7 DEF vars
  <2> QED
    BY <1>2, <2>1
<1> QED
  BY <1>0, <1>4, <1>5, <1>6, <1>7, WhoSteps

(* A list is served from the cache or as it was put together. *)
LEMMA ServedStep ==
  ASSUME Ordered, [Next]_vars, NEW rd \in Requests,
         request'[rd].at = "served", request[rd].at # "served"
  PROVE  LET q == request[rd]
             s == request'[rd]
         IN \/ /\ entry[q.list] \in Entry
               /\ s.found = entry[q.list].rooms /\ s.elapsed = entry[q.list].took
            \/ /\ q.at \in {"rooms", "store"} /\ q.waiting = {} /\ q.running = {}
               /\ s.elapsed = q.elapsed
               /\ \/ s.found = q.found /\ q.at = "store"
                  \/ s.found = q.found \ Unlisted(q.list)
<1> DEFINE q == request[rd]
           s == request'[rd]
           Goal == \/ /\ entry[q.list] \in Entry
                      /\ s.found = entry[q.list].rooms /\ s.elapsed = entry[q.list].took
                   \/ /\ q.at \in {"rooms", "store"} /\ q.waiting = {} /\ q.running = {}
                      /\ s.elapsed = q.elapsed
                      /\ \/ s.found = q.found /\ q.at = "store"
                         \/ s.found = q.found \ Unlisted(q.list)
<1> SUFFICES Goal
  OBVIOUS
<1>0. /\ config \in Configs /\ joined \subseteq Rooms /\ EntriesOK /\ RequestsOK /\ q \in Request
      /\ \A other \in Requests : Orderly(other)
  BY TypeParts DEF RequestsOK
<1>1. CASE List(rd)
  <2>1. q.at = "list"
    BY <1>1 DEF List
  <2>2. ASSUME NEW place \in {"entries", "rooms", "failed"}, s = [q EXCEPT !.at = place]
        PROVE  FALSE
    BY <1>0, <2>2 DEF Request
  <2>3. ASSUME NEW place \in {"entries", "rooms"}, NEW rooms \in SUBSET Rooms,
               NEW given \in SUBSET Rooms,
               s = [q EXCEPT !.at = place, !.waiting = rooms, !.stayed = joined, !.given = given]
        PROVE  FALSE
    BY <1>0, <2>3 DEF Request
  <2>4. CASE s = [q EXCEPT !.at = "rooms", !.trouble = TRUE]
    BY <1>0, <2>4 DEF Request
  <2>5. CASE s = [q EXCEPT !.at = "failed"]
    BY <1>0, <2>5 DEF Request
  <2> QED
    BY <1>0, <1>1, <2>3, <2>4, <2>5, ListActs
<1>2. CASE \/ \E r \in Rooms : Acquire(rd, r)
           \/ \E a \in q.running : Reply(rd, a)
  BY <1>0, <1>2, GatherKeeps
<1>3. CASE \/ Ask(rd) \/ Resolve(rd) \/ Lookup(rd) \/ LookAgain(rd) \/ Finish(rd) \/ Store(rd)
           \/ Answer(rd) \/ Abandon(rd)
  <2>1. CASE s = Idle(q.list)
    BY <2>1 DEF Idle
  <2>2. ASSUME NEW place \in {"resolve", "lookup", "again", "list", "failed", "refused", "store"},
               s = [q EXCEPT !.at = place]
        PROVE  FALSE
    BY <1>0, <2>2 DEF Request
  <2>3. CASE /\ entry[q.list] \in Entry
             /\ s = [q EXCEPT !.at = "served", !.found = entry[q.list].rooms,
                              !.elapsed = entry[q.list].took]
    <3> HIDE DEF s
    <3> QED
      BY <1>0, <2>3 DEF Request
  <2>4. CASE s = [q EXCEPT !.at = "rooms", !.waiting = q.found, !.found = {}]
    BY <1>0, <2>4 DEF Request
  <2>5. CASE q.at = "store" /\ s = [q EXCEPT !.at = "served"]
    <3>1. q.waiting = {} /\ q.running = {}
      BY <1>0, <2>5 DEF Orderly, Gathering
    <3> HIDE DEF s
    <3>2. s.found = q.found /\ s.elapsed = q.elapsed
      BY <1>0, <2>5 DEF Request
    <3> QED
      BY <2>5, <3>1, <3>2
  <2>6. ASSUME q.at = "rooms", Gathered(rd), NEW place \in {"store", "served"},
               s = [q EXCEPT !.at = place, !.found = @ \ Unlisted(q.list)]
        PROVE  Goal
    <3>1. q.waiting = {} /\ q.running = {}
      BY <2>6 DEF Gathered
    <3> HIDE DEF s
    <3>2. s.found = q.found \ Unlisted(q.list) /\ s.elapsed = q.elapsed
      BY <1>0, <2>6 DEF Request
    <3> QED
      BY <2>6, <3>1, <3>2
  <2> QED
    BY <1>0, <1>3, <2>1, <2>2, <2>3, <2>4, <2>5, <2>6, ElseActs
<1>4. ASSUME NEW other \in Requests, other # rd, Moves(other) PROVE FALSE
  BY <1>0, <1>4, MovesType
<1>5. CASE Tick \/ \E rooms \in SUBSET Rooms : Change(rooms)
  BY <1>0, <1>5, TickActs, ChangeActs DEF Waits
<1>6. CASE UNCHANGED vars
  BY <1>6 DEF vars
<1> QED
  BY <1>0, <1>1, <1>2, <1>3, <1>4, <1>5, <1>6, WhoSteps DEF Moves, RequestStep

(* A list names no room the user has been out of for longer than a list lives and
   took to be put together, whatever the cache, the fan-out and the leaves do in
   between: what a request has seen ages with it, what is recorded ages as its time
   to live shrinks. *)
THEOREM NoListNamesTheLongGone == Spec => ListsNoLongGone
<1> DEFINE Served(rd) ==
             /\ request'[rd].at = "served" /\ request[rd].at # "served"
             /\ ~Curated \/ ListOf(rd) # "public_rooms"
             => \A r \in request'[rd].found : gone[r] < Age(rd)'
           IInv == Ordered /\ Lately
<1>1. Init => IInv
  BY InitOrdered, InitAges
<1>2. IInv /\ [Next]_vars => IInv'
  <2> SUFFICES ASSUME IInv, [Next]_vars PROVE IInv'
    OBVIOUS
  <2>1. Ordered' /\ Clocks' /\ EntriesLately'
    BY NextOrdered, NextClocks, NextEntriesLately DEF Lately
  <2>2. \A rd \in Requests : SeenLately(rd)'
    BY NextSeenLately DEF Lately
  <2> QED
    BY <2>1, <2>2 DEF Lately
<1>3. IInv /\ [Next]_vars => \A rd \in Requests : Served(rd)
  <2> SUFFICES ASSUME IInv, [Next]_vars, NEW rd \in Requests,
                      request'[rd].at = "served", request[rd].at # "served",
                      ~Curated \/ ListOf(rd) # "public_rooms",
                      NEW r \in request'[rd].found
               PROVE  gone[r] < Ttl + request'[rd].elapsed
    BY DEF Age
  <2> DEFINE q == request[rd]
             s == request'[rd]
  <2>0. /\ q \in Request /\ q.elapsed \in 0 .. Latency + 1 /\ q.list \in Lists
        /\ Ttl \in Nat /\ Ttl > 0 /\ Latency \in Nat /\ Sure(q.list)
        /\ \A room \in Rooms : gone[room] \in 0 .. Ttl + Latency
    BY TypeParts, NeverType, ListingsAssumption
       DEF RequestsOK, Request, ClocksOK, Sure, ListOf, Late
  <2>1. CASE entry[q.list] \in Entry /\ s.found = entry[q.list].rooms /\ s.elapsed = entry[q.list].took
    <3>1. /\ r \in Rooms /\ entry[q.list].ttl \in Nat /\ entry[q.list].ttl > 0
          /\ entry[q.list] # NoEntry /\ entry[q.list].took \in 0 .. Latency + 1
      BY <2>1 DEF Entry, NoEntry, Late
    <3>2. entry[q.list].took <= Latency => gone[r] + entry[q.list].ttl <= Ttl + entry[q.list].took
      BY <2>0, <2>1, <3>1 DEF Lately, EntriesLately
    <3> QED
      BY <2>0, <2>1, <3>1, <3>2
  <2>2. CASE q.at \in {"rooms", "store"} /\ s.found \subseteq q.found /\ s.elapsed = q.elapsed
    <3>1. r \in Rooms /\ r \in Seen(rd)
      BY <2>0, <2>2 DEF Seen, Request
    <3>2. q.elapsed <= Latency => gone[r] <= q.elapsed
      BY <2>0, <3>1 DEF Lately, SeenLately, ListOf
    <3> QED
      BY <2>0, <2>2, <3>1, <3>2
  <2>3. q.found \ Unlisted(q.list) \subseteq q.found
    OBVIOUS
  <2> QED
    BY <2>1, <2>2, <2>3, ServedStep
<1>4. [][\A rd \in Requests : Served(rd)]_vars => ListsNoLongGone
  <2>1. (\A rd \in Requests : Served(rd)) =>
          \A rd \in Requests :
            /\ request'[rd].at = "served" /\ request[rd].at # "served"
            /\ ~Curated \/ ListOf(rd) # "public_rooms"
            => \A r \in request'[rd].found : gone[r] < Age(rd)'
    OBVIOUS
  <2> QED
    BY <2>1, PTL DEF ListsNoLongGone
<1> QED
  BY <1>1, <1>2, <1>3, <1>4, PTL DEF Spec

(* A list has every due room but bridged ones that the user has been in for as long
   as a list lives and this one took, when no list went on without what failed in
   that time: the request that recorded it began when the user was there, and
   nothing failed it. *)
THEOREM ListsNameTheLongThere == Spec => ListsLongThere
<1> DEFINE Served(rd) ==
             /\ request'[rd].at = "served" /\ request[rd].at # "served"
             /\ calm >= Age(rd)'
             => Due(ListOf(rd), {r \in Rooms : here[r] >= Age(rd)'}) \ Unlisted(ListOf(rd))
                  \subseteq request'[rd].found
           IInv == Ordered /\ AllWhole /\ LongThere
<1>1. Init => IInv
  BY InitOrdered, InitWhole, InitAges
<1>2. IInv /\ [Next]_vars => IInv'
  <2> SUFFICES ASSUME IInv, [Next]_vars PROVE IInv'
    OBVIOUS
  <2>1. Ordered' /\ AllWhole' /\ Clocks' /\ EntriesThere'
    BY NextOrdered, NextWhole, NextClocks, NextEntriesThere DEF LongThere
  <2>2. \A rd \in Requests : StayedLong(rd)' /\ TroubleLately(rd)'
    BY NextStayedLong, NextTroubleLately DEF LongThere
  <2> QED
    BY <2>1, <2>2 DEF LongThere
<1>3. IInv /\ [Next]_vars => \A rd \in Requests : Served(rd)
  <2> SUFFICES ASSUME IInv, [Next]_vars, NEW rd \in Requests,
                      request'[rd].at = "served", request[rd].at # "served",
                      calm >= Ttl + request'[rd].elapsed
               PROVE  Due(ListOf(rd), {r \in Rooms : here[r] >= Ttl + request'[rd].elapsed})
                        \ Unlisted(ListOf(rd)) \subseteq request'[rd].found
    BY DEF Age
  <2> DEFINE q == request[rd]
             s == request'[rd]
             S == {r \in Rooms : here[r] >= Ttl + s.elapsed}
  <2> SUFFICES Due(q.list, S) \ Unlisted(q.list) \subseteq s.found
    BY DEF ListOf
  <2>0. /\ q \in Request /\ q.elapsed \in 0 .. Latency + 1 /\ q.list \in Lists
        /\ Ttl \in Nat /\ Ttl > 0 /\ Latency \in Nat /\ calm \in 0 .. Ttl + Latency
        /\ \A room \in Rooms : here[room] \in Nat
    BY TypeParts, NeverType, ListingsAssumption
       DEF RequestsOK, Request, ClocksOK, Late
  <2>1. ASSUME NEW ttl \in Nat, ttl > 0, s.elapsed \in Nat
        PROVE  Due(q.list, S) \ Unlisted(q.list) \subseteq Owes(q.list, ttl, s.elapsed, here)
    <3> DEFINE T == {r \in Rooms : here[r] + ttl > Ttl + s.elapsed}
    <3>1. S \subseteq T /\ S \in SUBSET Rooms /\ T \in SUBSET Rooms
      BY <2>0, <2>1
    <3> HIDE DEF S, T
    <3>2. Due(q.list, S) \subseteq Due(q.list, T)
      BY <2>0, <3>1, DueMonotone
    <3> QED
      BY <3>2 DEF T, Owes
  <2> HIDE DEF S
  <2>2. CASE entry[q.list] \in Entry /\ s.found = entry[q.list].rooms /\ s.elapsed = entry[q.list].took
    <3>1. /\ entry[q.list].ttl \in Nat /\ entry[q.list].ttl > 0 /\ entry[q.list] # NoEntry
          /\ entry[q.list].took \in 0 .. Latency + 1
      BY <2>2 DEF Entry, NoEntry, Late
    <3>2. entry[q.list].took <= Latency /\ calm + entry[q.list].ttl > Ttl + entry[q.list].took
      BY <2>0, <2>2, <3>1
    <3>3. Owes(q.list, entry[q.list].ttl, entry[q.list].took, here) \subseteq entry[q.list].rooms
      BY <2>0, <3>1, <3>2 DEF LongThere, EntriesThere, Owes
    <3>4. Due(q.list, S) \ Unlisted(q.list) \subseteq Owes(q.list, entry[q.list].ttl, s.elapsed, here)
      BY <2>1, <2>2, <3>1
    <3> QED
      BY <2>2, <3>3, <3>4
  <2>3. CASE /\ q.at \in {"rooms", "store"} /\ q.waiting = {} /\ q.running = {}
             /\ s.elapsed = q.elapsed /\ q.found \ Unlisted(q.list) \subseteq s.found
    <3>1. q.elapsed <= Latency /\ calm > q.elapsed
      BY <2>0, <2>3
    <3>2. Owes(q.list, Ttl, q.elapsed, here) \subseteq q.found
      BY <2>3, <3>1, StoreOwes
    <3>3. Due(q.list, S) \ Unlisted(q.list) \subseteq Owes(q.list, Ttl, s.elapsed, here)
      BY <2>0, <2>1, <2>3
    <3> QED
      BY <2>3, <3>2, <3>3
  <2> QED
    BY <2>2, <2>3, ServedStep
<1>4. [][\A rd \in Requests : Served(rd)]_vars => ListsLongThere
  <2>1. (\A rd \in Requests : Served(rd)) =>
          \A rd \in Requests :
            /\ request'[rd].at = "served" /\ request[rd].at # "served"
            /\ calm >= Age(rd)'
            => Due(ListOf(rd), {r \in Rooms : here[r] >= Age(rd)'}) \ Unlisted(ListOf(rd))
                 \subseteq request'[rd].found
    OBVIOUS
  <2> QED
    BY <2>1, PTL DEF ListsLongThere
<1> QED
  BY <1>1, <1>2, <1>3, <1>4, PTL DEF Spec
==============================================================================
