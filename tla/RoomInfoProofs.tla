---------------------------- MODULE RoomInfoProofs ----------------------------
(***************************************************************************)
(* What holds of RoomInfo for every set of rooms, every hierarchy and any  *)
(* number of requests: a request's place says what it has shown, which     *)
(* room it is at, and that no room it should have found comes before that. *)
(***************************************************************************)
EXTENDS RoomInfo, FiniteSetTheorems, TLAPS

(* Of the rooms that are on every first page none that kept the slug, and the user
   in it, comes before q; none did. *)
Best(req, q) ==
  \A i \in Ahead(req.base) :
    Kept(req, Order(req.base)[i]) => \E j \in 1 .. i : q = Order(req.base)[j]

NoneKept(req) == \A i \in Ahead(req.base) : ~Kept(req, Order(req.base)[i])

(* The histories have what is the case. *)
Seen(req, rooms, names) ==
  req.at # "idle" => rooms \subseteq req.wasIn /\ req.stayed \subseteq rooms /\ names \subseteq req.names

(* About the room of the request, or about the one found by its slug. *)
AtBase(req) == req.current = req.base
AtFound(req) ==
  /\ req.slug # NoSlug
  /\ <<req.current, req.slug>> \in req.names
  /\ Best(req, req.current)

Place(req) ==
  /\ req.at \in {"membership", "state"} =>
       /\ req.event = {}
       /\ \/ req.shown = <<>> /\ AtBase(req)
          \/ Len(req.shown) = 1 /\ AtFound(req)
  /\ req.at = "state" => req.current \in req.wasIn
  /\ req.at = "hierarchy" =>
       req.event = {} /\ Len(req.shown) = 1 /\ AtBase(req) /\ req.slug # NoSlug
  /\ req.at \in {"event", "profile", "served"} =>
       \/ Len(req.shown) = 1 /\ AtBase(req) /\ (req.slug # NoSlug => NoneKept(req))
       \/ Len(req.shown) = 2 /\ AtFound(req) /\ req.current = req.shown[2]
  /\ req.event \subseteq {req.current}

Shown(req) ==
  /\ Len(req.shown) <= 2
  /\ \A i \in 1 .. Len(req.shown) : req.shown[i] \in req.wasIn
  /\ req.shown # <<>> => req.shown[1] = req.base

RequestInv(req, rooms, names) == Seen(req, rooms, names) /\ Place(req) /\ Shown(req)

Inv == TypeOK /\ \A rd \in Requests : RequestInv(request[rd], joined, NamesNow)

------------------------------------------------------------------------------
(* The hierarchy's order is a sequence of rooms. *)
LEMMA OrderType ==
  ASSUME NEW r \in Rooms
  PROVE  Order(r) \in Seq(Rooms)
  BY RoomInfoAssumption DEF Order

(* A request that was answered, or has not begun. *)
LEMMA IdleInv ==
  ASSUME NEW r \in Rooms, NEW rooms, NEW names
  PROVE  Idle(r) \in Request /\ RequestInv(Idle(r), rooms, names)
  BY DEF Idle, Request, RequestInv, Seen, Place, Shown, AtBase, AtFound

(* A step of one request leaves the others, the rooms and their names alone. *)
LEMMA PutInv ==
  ASSUME Inv, NEW rd \in Requests, NEW rec \in Request,
         RequestInv(rec, joined, NamesNow), Put(rd, rec)
  PROVE  Inv'
<1>1. request' \in [Requests -> Request] /\ request'[rd] = rec
  BY DEF Inv, TypeOK, Put
<1>2. \A other \in Requests : other # rd => request'[other] = request[other]
  BY DEF Inv, TypeOK, Put
<1>3. joined' = joined /\ name' = name /\ NamesNow' = NamesNow /\ changes' = changes
  BY DEF Put, NamesNow
<1>4. \A other \in Requests : RequestInv(request'[other], joined, NamesNow)
  BY <1>1, <1>2 DEF Inv
<1>5. rec.at = "served" => rec.shown # <<>>
  BY DEF RequestInv, Place
<1>6. Len(rec.shown) <= 2
  BY DEF RequestInv, Shown
<1>7. TypeOK'
  BY <1>1, <1>2, <1>3, <1>5, <1>6 DEF Inv, TypeOK
<1> QED
  BY <1>3, <1>4, <1>7 DEF Inv

(* A request that only goes somewhere else. *)
LEMMA MovedType ==
  ASSUME NEW req \in Request,
         NEW place \in {"idle", "membership", "state", "hierarchy", "event", "profile",
                        "served", "failed"}
  PROVE  [req EXCEPT !.at = place] \in Request
  BY DEF Request

(* A request that ends without an answer. *)
LEMMA FailInv ==
  ASSUME Inv, NEW rd \in Requests, request[rd].at # "idle", GoTo(rd, "failed")
  PROVE  Inv'
<1> DEFINE rec == [request[rd] EXCEPT !.at = "failed"]
<1>1. request[rd] \in Request /\ RequestInv(request[rd], joined, NamesNow)
  BY DEF Inv, TypeOK
<1>2. rec \in Request
  BY <1>1, MovedType
<1>3. RequestInv(rec, joined, NamesNow)
  BY <1>1 DEF RequestInv, Seen, Place, Shown, Request
<1> HIDE DEF rec
<1>4. Put(rd, rec)
  BY DEF GoTo, rec
<1> QED
  BY <1>2, <1>3, <1>4, PutInv

------------------------------------------------------------------------------
(* A room that kept the slug has it, and the user is in it. *)
LEMMA KeptNow ==
  ASSUME TypeOK, NEW req \in Request, Seen(req, joined, NamesNow), req.at # "idle",
         NEW r \in Rooms, Kept(req, r)
  PROVE  r \in joined /\ name[r] = req.slug
<1>1. <<r, name[r]>> \in req.names /\ name[r] \in Slugs \cup {NoSlug}
  BY DEF Seen, NamesNow, TypeOK
<1> QED
  BY <1>1 DEF Kept, Seen

(* A page stands for places of the hierarchy, and for all that are on every page. *)
LEMMA PageReaches ==
  ASSUME NEW r \in Rooms, NEW page \in Pages(r)
  PROVE  Ahead(r) \subseteq page /\ page \subseteq 1 .. Len(Order(r))
<1>1. PICK n \in 1 .. Len(Order(r)) :
        /\ page = 1 .. n
        /\ \/ n = Len(Order(r))
           \/ Cardinality({i \in 1 .. n : Listed(Order(r)[i])}) >= PageSize
  BY DEF Pages
<1>2. Len(Order(r)) \in Nat /\ n \in Nat /\ PageSize \in Nat
  BY <1>1, OrderType, RoomInfoAssumption
<1>3. IsFiniteSet(1 .. n) /\ Cardinality(1 .. n) = n
  BY <1>1, <1>2, FS_Interval
<1>4. /\ Cardinality({i \in 1 .. n : Listed(Order(r)[i])}) <= n
      /\ IsFiniteSet({i \in 1 .. n : Listed(Order(r)[i])})
  BY <1>3, FS_Subset
<1>5. Cardinality({i \in 1 .. n : Listed(Order(r)[i])}) \in Nat
  BY <1>4, FS_CardinalityType
<1>6. n = Len(Order(r)) \/ PageSize <= n
  BY <1>1, <1>2, <1>4, <1>5
<1> QED
  BY <1>1, <1>2, <1>6 DEF Ahead

(* Looking at a page: nothing found, or the first of what is. *)
LEMMA NothingFound ==
  ASSUME TypeOK, NEW req \in Request, Seen(req, joined, NamesNow), req.at # "idle",
         NEW page \in Pages(req.base), Found(req, page) = {}
  PROVE  NoneKept(req)
<1> SUFFICES ASSUME NEW i \in Ahead(req.base), Kept(req, Order(req.base)[i])
             PROVE  FALSE
  BY DEF NoneKept
<1>1. Order(req.base)[i] \in Rooms
  BY OrderType DEF Request, Ahead
<1>2. i \in page
  BY PageReaches DEF Request
<1>3. i \in Found(req, page)
  BY <1>1, <1>2, KeptNow DEF Found, Listed
<1> QED
  BY <1>3

LEMMA FirstFound ==
  ASSUME TypeOK, NEW req \in Request, Seen(req, joined, NamesNow), req.at # "idle",
         NEW page \in Pages(req.base), NEW i \in FirstOf(Found(req, page))
  PROVE  /\ Order(req.base)[i] \in Rooms
         /\ <<Order(req.base)[i], req.slug>> \in req.names
         /\ Best(req, Order(req.base)[i])
<1>0. page \subseteq 1 .. Len(Order(req.base)) /\ Ahead(req.base) \subseteq page
  BY PageReaches DEF Request
<1>1. i \in 1 .. Len(Order(req.base)) /\ name[Order(req.base)[i]] = req.slug
  BY <1>0 DEF FirstOf, Found
<1>2. Order(req.base)[i] \in Rooms
  BY <1>1, OrderType DEF Request
<1>3. <<Order(req.base)[i], req.slug>> \in req.names
  BY <1>1, <1>2 DEF Seen, NamesNow
<1>4. ASSUME NEW k \in Ahead(req.base), Kept(req, Order(req.base)[k])
      PROVE  i \in 1 .. k
  <2>1. k \in 1 .. Len(Order(req.base))
    BY DEF Ahead
  <2>2. Order(req.base)[k] \in Rooms
    BY <2>1, OrderType DEF Request
  <2>3. k \in Found(req, page)
    BY <1>0, <1>4, <2>2, KeptNow DEF Found, Listed
  <2> QED
    BY <1>1, <2>1, <2>3, OrderType DEF FirstOf, Request
<1> QED
  BY <1>2, <1>3, <1>4 DEF Best

------------------------------------------------------------------------------
(* The steps of a request. *)
LEMMA AskInv ==
  ASSUME Inv, NEW rd \in Requests, NEW slug \in Slugs \cup {NoSlug}, NEW wants \in BOOLEAN,
         Ask(rd, slug, wants)
  PROVE  Inv'
<1> DEFINE rec == [at |-> "membership", base |-> request[rd].base, slug |-> slug,
                   wants |-> wants, current |-> request[rd].base, shown |-> <<>>,
                   event |-> {}, wasIn |-> joined, stayed |-> joined, names |-> NamesNow]
<1>1. request[rd].base \in Rooms
  BY DEF Inv, TypeOK, Request
<1>2. NamesNow \subseteq Rooms \X (Slugs \cup {NoSlug}) /\ joined \subseteq Rooms
  <2>1. \A r \in Rooms : name[r] \in Slugs \cup {NoSlug}
    BY DEF Inv, TypeOK
  <2>2. \A r \in Rooms : <<r, name[r]>> \in Rooms \X (Slugs \cup {NoSlug})
    BY <2>1
  <2>3. NamesNow \subseteq Rooms \X (Slugs \cup {NoSlug})
    BY <2>2, Zenon DEF NamesNow
  <2> QED
    BY <2>3 DEF Inv, TypeOK
<1>3. rec \in Request
  BY <1>1, <1>2 DEF Request
<1>4. RequestInv(rec, joined, NamesNow)
  BY DEF RequestInv, Seen, Place, Shown, AtBase
<1>5. Put(rd, rec)
  BY DEF Ask
<1> HIDE DEF rec
<1> QED
  BY <1>3, <1>4, <1>5, PutInv

LEMMA MembershipInv ==
  ASSUME Inv, NEW rd \in Requests, Membership(rd)
  PROVE  Inv'
<1>1. CASE GoTo(rd, "failed")
  BY <1>1, FailInv DEF Membership
<1>2. CASE request[rd].current \in joined /\ GoTo(rd, "state")
  <2> DEFINE rec == [request[rd] EXCEPT !.at = "state"]
  <2>1. request[rd] \in Request /\ RequestInv(request[rd], joined, NamesNow)
    BY DEF Inv, TypeOK
  <2>2. rec \in Request
    BY <2>1, MovedType
  <2>3. RequestInv(rec, joined, NamesNow)
    BY <1>2, <2>1
    DEF Membership, RequestInv, Seen, Place, Shown, AtBase, AtFound, Best, Kept, Request
  <2> HIDE DEF rec
  <2> QED
    BY <1>2, <2>2, <2>3, PutInv DEF GoTo, rec
<1> QED
  BY <1>1, <1>2 DEF Membership

LEMMA StateInv ==
  ASSUME Inv, NEW rd \in Requests, State(rd)
  PROVE  Inv'
<1> DEFINE req == request[rd]
           rec == [req EXCEPT !.shown = Append(@, req.current), !.at = AfterSummary(req)]
<1>1. CASE GoTo(rd, "failed")
  BY <1>1, FailInv DEF State
<1>2. CASE Put(rd, rec)
  <2>1. req \in Request /\ RequestInv(req, joined, NamesNow) /\ req.at = "state"
    BY <1>2 DEF Inv, TypeOK, State
  <2>2. AfterSummary(req) \in {"hierarchy", "event", "served"}
    BY DEF AfterSummary
  <2>3. rec \in Request
    <3>1. Append(req.shown, req.current) \in Seq(Rooms)
      BY <2>1 DEF Request
    <3> QED
      BY <2>1, <2>2, <3>1 DEF Request
  <2>4. /\ rec.at = AfterSummary(req) /\ rec.shown = Append(req.shown, req.current)
        /\ rec.base = req.base /\ rec.slug = req.slug /\ rec.current = req.current
        /\ rec.event = req.event /\ rec.wasIn = req.wasIn /\ rec.stayed = req.stayed
        /\ rec.names = req.names
    BY <2>1 DEF Request
  <2>5. req.shown \in Seq(Rooms) /\ req.current \in Rooms
    BY <2>1 DEF Request
  <2>6. req.event = {} /\ req.current \in req.wasIn /\ Seen(rec, joined, NamesNow)
    BY <2>1, <2>4 DEF RequestInv, Place, Seen
  <2>7. CASE req.shown = <<>> /\ AtBase(req)
    <3>1. rec.shown = <<req.base>> /\ Len(rec.shown) = 1 /\ AtBase(rec)
      BY <2>4, <2>5, <2>7 DEF AtBase
    <3>2. AfterSummary(req) = "hierarchy" <=> req.slug # NoSlug
      BY <2>7 DEF AfterSummary
    <3>3. Place(rec)
      BY <2>2, <2>4, <2>6, <3>1, <3>2 DEF Place
    <3>4. Shown(rec)
      BY <2>4, <2>6, <2>7, <3>1 DEF Shown, AtBase
    <3> QED
      BY <1>2, <2>3, <2>6, <3>3, <3>4, PutInv DEF RequestInv
  <2>8. CASE Len(req.shown) = 1 /\ AtFound(req)
    <3>1. Len(rec.shown) = 2 /\ rec.shown[2] = req.current /\ rec.shown[1] = req.shown[1]
      <4> HIDE DEF rec, req
      <4> QED
        BY <2>4, <2>5, <2>8
    <3>2. AfterSummary(req) # "hierarchy"
      BY <2>8 DEF AfterSummary
    <3>3. AtFound(rec)
      BY <2>4, <2>8 DEF AtFound, Best, Kept
    <3>4. Place(rec)
      BY <2>2, <2>4, <2>6, <3>1, <3>2, <3>3 DEF Place
    <3>5. Shown(rec)
      BY <2>1, <2>4, <2>5, <2>6, <2>8, <3>1 DEF Shown, RequestInv
    <3> QED
      BY <1>2, <2>3, <2>6, <3>4, <3>5, PutInv DEF RequestInv
  <2> QED
    BY <2>1, <2>7, <2>8 DEF RequestInv, Place
<1> QED
  BY <1>1, <1>2 DEF State

LEMMA HierarchyInv ==
  ASSUME Inv, NEW rd \in Requests, Hierarchy(rd)
  PROVE  Inv'
<1> DEFINE req == request[rd]
<1>1. /\ req \in Request /\ RequestInv(req, joined, NamesNow) /\ req.at = "hierarchy"
      /\ TypeOK /\ Seen(req, joined, NamesNow)
  BY DEF Inv, TypeOK, Hierarchy, RequestInv
<1>2. req.event = {} /\ Len(req.shown) = 1 /\ AtBase(req) /\ req.slug # NoSlug
  BY <1>1 DEF RequestInv, Place
<1>3. CASE GoTo(rd, "failed")
  BY <1>1, <1>3, FailInv
<1>4. ASSUME NEW page \in Pages(req.base), Found(req, page) = {},
             GoTo(rd, IF req.wants THEN "event" ELSE "served")
      PROVE  Inv'
  <2> DEFINE place == IF req.wants THEN "event" ELSE "served"
             rec == [req EXCEPT !.at = place]
  <2>1. place \in {"event", "served"}
    OBVIOUS
  <2> HIDE DEF place
  <2>2. rec \in Request
    BY <1>1, <2>1, MovedType
  <2>3. NoneKept(req)
    BY <1>1, <1>4, NothingFound
  <2>4. /\ rec.at = place /\ rec.shown = req.shown /\ rec.base = req.base
        /\ rec.slug = req.slug /\ rec.current = req.current /\ rec.event = req.event
        /\ rec.wasIn = req.wasIn /\ rec.stayed = req.stayed /\ rec.names = req.names
    BY <1>1 DEF Request
  <2>5. NoneKept(rec)
    BY <2>3, <2>4 DEF NoneKept, Kept
  <2>6. RequestInv(rec, joined, NamesNow)
    BY <1>1, <1>2, <2>1, <2>4, <2>5 DEF RequestInv, Seen, Place, Shown, AtBase
  <2>7. Put(rd, rec)
    BY <1>4 DEF GoTo, place
  <2> QED
    BY <2>2, <2>6, <2>7, PutInv
<1>5. ASSUME NEW page \in Pages(req.base), NEW i \in FirstOf(Found(req, page)),
             Put(rd, [req EXCEPT !.at = "membership", !.current = Order(req.base)[i]])
      PROVE  Inv'
  <2> DEFINE rec == [req EXCEPT !.at = "membership", !.current = Order(req.base)[i]]
  <2>1. /\ Order(req.base)[i] \in Rooms
        /\ <<Order(req.base)[i], req.slug>> \in req.names
        /\ Best(req, Order(req.base)[i])
    BY <1>1, FirstFound
  <2>2. rec \in Request
    BY <1>1, <2>1 DEF Request
  <2>3. /\ rec.at = "membership" /\ rec.current = Order(req.base)[i]
        /\ rec.shown = req.shown /\ rec.base = req.base
        /\ rec.slug = req.slug /\ rec.event = req.event
        /\ rec.wasIn = req.wasIn /\ rec.stayed = req.stayed /\ rec.names = req.names
    BY <1>1 DEF Request
  <2>4. AtFound(rec)
    BY <1>2, <2>1, <2>3 DEF AtFound, Best, Kept
  <2>5. RequestInv(rec, joined, NamesNow)
    BY <1>1, <1>2, <2>3, <2>4 DEF RequestInv, Seen, Place, Shown
  <2> QED
    BY <1>5, <2>2, <2>5, PutInv
<1> QED
  BY <1>3, <1>4, <1>5 DEF Hierarchy, Pick

LEMMA EventInv ==
  ASSUME Inv, NEW rd \in Requests, Event(rd)
  PROVE  Inv'
<1> DEFINE req == request[rd]
           rec == [req EXCEPT !.event = EventRoom(req), !.at = "profile"]
<1>1. req \in Request /\ RequestInv(req, joined, NamesNow) /\ req.at = "event"
  BY DEF Inv, TypeOK, Event
<1>2. CASE GoTo(rd, "failed")
  BY <1>1, <1>2, FailInv
<1>3. CASE Put(rd, rec)
  <2>1. rec \in Request
    BY <1>1 DEF Request, EventRoom
  <2>2. /\ rec.at = "profile" /\ rec.event = {req.current} /\ rec.current = req.current
        /\ rec.shown = req.shown /\ rec.base = req.base /\ rec.slug = req.slug
        /\ rec.wasIn = req.wasIn /\ rec.stayed = req.stayed /\ rec.names = req.names
    BY <1>1 DEF Request, EventRoom
  <2>3. Place(rec)
    BY <1>1, <2>2 DEF RequestInv, Place, AtBase, AtFound, Best, NoneKept, Kept
  <2>4. RequestInv(rec, joined, NamesNow)
    BY <1>1, <2>2, <2>3 DEF RequestInv, Seen, Shown
  <2> QED
    BY <1>3, <2>1, <2>4, PutInv
<1> QED
  BY <1>2, <1>3 DEF Event

LEMMA ProfileInv ==
  ASSUME Inv, NEW rd \in Requests, Profile(rd)
  PROVE  Inv'
<1> DEFINE req == request[rd]
           rec == [req EXCEPT !.at = "served"]
<1>1. req \in Request /\ RequestInv(req, joined, NamesNow) /\ req.at = "profile"
  BY DEF Inv, TypeOK, Profile
<1>2. CASE GoTo(rd, "failed")
  BY <1>1, <1>2, FailInv
<1>3. CASE GoTo(rd, "served")
  <2>1. rec \in Request
    BY <1>1, MovedType
  <2>2. /\ rec.at = "served" /\ rec.event = req.event /\ rec.current = req.current
        /\ rec.shown = req.shown /\ rec.base = req.base /\ rec.slug = req.slug
        /\ rec.wasIn = req.wasIn /\ rec.stayed = req.stayed /\ rec.names = req.names
    BY <1>1 DEF Request
  <2>3. Place(rec)
    BY <1>1, <2>2 DEF RequestInv, Place, AtBase, AtFound, Best, NoneKept, Kept
  <2>4. RequestInv(rec, joined, NamesNow)
    BY <1>1, <2>2, <2>3 DEF RequestInv, Seen, Shown
  <2> QED
    BY <1>3, <2>1, <2>4, PutInv DEF GoTo
<1> QED
  BY <1>2, <1>3 DEF Profile

LEMMA EndInv ==
  ASSUME Inv, NEW rd \in Requests, Answer(rd) \/ Abandon(rd)
  PROVE  Inv'
<1>1. request[rd].base \in Rooms
  BY DEF Inv, TypeOK, Request
<1> QED
  BY <1>1, IdleInv, PutInv DEF Answer, Abandon

------------------------------------------------------------------------------
(* While rooms are joined, left and renamed, a room that still has kept the slug
   had kept it before. *)
LEMMA KeptBefore ==
  ASSUME TypeOK, NEW req \in Request, Seen(req, joined, NamesNow), req.at # "idle",
         NEW rooms \in SUBSET Rooms, NEW names \in SUBSET (Rooms \X (Slugs \cup {NoSlug})),
         NEW rec, rec.stayed = req.stayed \cap rooms, rec.names = req.names \cup names,
         rec.slug = req.slug
  PROVE  \A r \in Rooms : Kept(rec, r) => Kept(req, r)
<1> SUFFICES ASSUME NEW r \in Rooms, Kept(rec, r)
             PROVE  Kept(req, r)
  OBVIOUS
<1>1. r \in req.stayed /\ <<r, name[r]>> \in req.names /\ name[r] \in Slugs \cup {NoSlug}
  BY DEF Kept, Seen, NamesNow, TypeOK
<1>2. name[r] = req.slug
  BY <1>1 DEF Kept
<1> QED
  BY <1>1, <1>2 DEF Kept

LEMMA ChangeInv ==
  ASSUME Inv, NEW rooms \in SUBSET Rooms, NEW names \in [Rooms -> Slugs \cup {NoSlug}],
         Change(rooms, names)
  PROVE  Inv'
<1> DEFINE now == {<<r, names[r]>> : r \in Rooms}
<1>1. joined' = rooms /\ name' = names /\ NamesNow' = now /\ changes' \in Nat
  <2>1. joined' = rooms /\ name' = names /\ changes' \in Nat
    <3>1. changes \in Nat
      BY DEF Inv, TypeOK
    <3>2. changes' = changes + 1 /\ joined' = rooms /\ name' = names
      BY Zenon DEF Change
    <3> QED
      BY <3>1, <3>2
  <2>2. NamesNow' = now
    BY <2>1, Zenon DEF NamesNow
  <2> QED
    BY <2>1, <2>2
<1>2. now \in SUBSET (Rooms \X (Slugs \cup {NoSlug}))
  OBVIOUS
<1>3. ASSUME NEW rd \in Requests
      PROVE  /\ request'[rd] \in Request
             /\ RequestInv(request'[rd], rooms, now)
             /\ request'[rd].at = request[rd].at /\ request'[rd].shown = request[rd].shown
  <2> DEFINE req == request[rd]
             rec == [req EXCEPT !.wasIn = @ \cup rooms, !.stayed = @ \cap rooms,
                                !.names = @ \cup now]
  <2>1. req \in Request /\ RequestInv(req, joined, NamesNow) /\ TypeOK
    BY DEF Inv, TypeOK
  <2>2. CASE req.at = "idle"
    <3>1. request'[rd] = req
      BY <2>2 DEF Change
    <3> QED
      BY <2>1, <2>2, <3>1 DEF RequestInv, Seen
  <2>3. CASE req.at # "idle"
    <3>1. request'[rd] = rec
      BY <2>3 DEF Change
    <3>2. rec \in Request
      BY <1>2, <2>1 DEF Request
    <3>3. /\ rec.at = req.at /\ rec.event = req.event /\ rec.current = req.current
          /\ rec.shown = req.shown /\ rec.base = req.base /\ rec.slug = req.slug
          /\ rec.wasIn = req.wasIn \cup rooms /\ rec.stayed = req.stayed \cap rooms
          /\ rec.names = req.names \cup now
      BY <2>1 DEF Request
    <3> HIDE DEF rec, now
    <3>4. req.base \in Rooms /\ Order(req.base) \in Seq(Rooms) /\ Seen(req, joined, NamesNow)
      BY <2>1, OrderType DEF Request, RequestInv
    <3>5. \A i \in Ahead(req.base) :
            Kept(rec, Order(req.base)[i]) => Kept(req, Order(req.base)[i])
      <4> SUFFICES ASSUME NEW i \in Ahead(req.base), Kept(rec, Order(req.base)[i])
                   PROVE  Kept(req, Order(req.base)[i])
        OBVIOUS
      <4>1. Order(req.base)[i] \in Rooms
        BY <3>4 DEF Ahead
      <4>2. \A r \in Rooms : Kept(rec, r) => Kept(req, r)
        <5> HIDE DEF req
        <5> QED
          BY <1>2, <2>1, <2>3, <3>3, <3>4, KeptBefore
      <4> QED
        BY <4>1, <4>2
    <3>6. NoneKept(req) => NoneKept(rec)
      BY <3>3, <3>5 DEF NoneKept
    <3>7. Best(req, req.current) => Best(rec, rec.current)
      BY <3>3, <3>5 DEF Best
    <3>8. (AtBase(req) => AtBase(rec)) /\ (AtFound(req) => AtFound(rec))
      BY <3>3, <3>7 DEF AtBase, AtFound
    <3>9. Place(rec)
      BY <2>1, <3>3, <3>6, <3>8 DEF RequestInv, Place
    <3>10. Seen(rec, rooms, now) /\ Shown(rec)
      BY <2>1, <3>3 DEF RequestInv, Seen, Shown
    <3> QED
      BY <3>1, <3>2, <3>3, <3>9, <3>10 DEF RequestInv
  <2> QED
    BY <2>2, <2>3
<1>4. request' \in [Requests -> Request]
  BY <1>3 DEF Change
<1> HIDE DEF now
<1>5. TypeOK'
  BY <1>1, <1>3, <1>4 DEF Inv, TypeOK
<1> QED
  BY <1>1, <1>3, <1>5 DEF Inv

------------------------------------------------------------------------------
LEMMA InitInv == Init => Inv
<1> SUFFICES ASSUME Init
             PROVE  Inv
  OBVIOUS
<1>1. request \in [Requests -> Request]
  BY IdleInv DEF Init
<1>2. ASSUME NEW rd \in Requests
      PROVE  /\ RequestInv(request[rd], joined, NamesNow)
             /\ Len(request[rd].shown) <= 2 /\ request[rd].at # "served"
  <2>1. PICK r \in Rooms : request[rd] = Idle(r)
    BY DEF Init
  <2> QED
    BY <2>1, IdleInv DEF Idle
<1> QED
  BY <1>1, <1>2 DEF Inv, TypeOK, Init

LEMMA NextInv == Inv /\ [Next]_vars => Inv'
<1> SUFFICES ASSUME Inv, [Next]_vars
             PROVE  Inv'
  OBVIOUS
<1>1. ASSUME NEW rd \in Requests,
             \/ \E slug \in Slugs \cup {NoSlug}, wants \in BOOLEAN : Ask(rd, slug, wants)
             \/ RequestStep(rd)
             \/ Abandon(rd)
      PROVE  Inv'
  BY <1>1, AskInv, MembershipInv, StateInv, HierarchyInv, EventInv, ProfileInv, EndInv
  DEF RequestStep
<1>2. ASSUME NEW r \in Rooms,
             Join(r) \/ Leave(r) \/ \E slug \in Slugs \cup {NoSlug} : Rename(r, slug)
      PROVE  Inv'
  <2>1. /\ joined \cup {r} \in SUBSET Rooms /\ joined \ {r} \in SUBSET Rooms
        /\ name \in [Rooms -> Slugs \cup {NoSlug}]
        /\ \A slug \in Slugs \cup {NoSlug} :
             [name EXCEPT ![r] = slug] \in [Rooms -> Slugs \cup {NoSlug}]
    BY DEF Inv, TypeOK
  <2> QED
    BY <1>2, <2>1, ChangeInv DEF Join, Leave, Rename, Inv, TypeOK
<1>3. CASE UNCHANGED vars
  BY <1>3 DEF vars, Inv, TypeOK, NamesNow
<1> QED
  BY <1>1, <1>2, <1>3 DEF Next

(* The types hold: a request shows at most the room asked about and one found in
   its hierarchy. *)
THEOREM InfoTypeCorrect == Spec => []TypeOK
<1>1. Inv => TypeOK
  BY DEF Inv
<1> QED
  BY <1>1, InitInv, NextInv, PTL DEF Spec

(* No summary is served of a room the user was not in while the request was under
   way, whatever the gate let through and the hierarchy lists. *)
THEOREM SummariesAreOwn == Spec => []ShowsOwnRooms
<1>1. Inv => ShowsOwnRooms
  BY DEF Inv, RequestInv, Shown, ShowsOwnRooms
<1> QED
  BY <1>1, InitInv, NextInv, PTL DEF Spec

(* The answer is about one room, which is the room asked about or had the slug. *)
THEOREM AnswersHangTogether == Spec => []AnswerHangsTogether
<1>1. Inv => AnswerHangsTogether
  <2> SUFFICES ASSUME Inv, NEW rd \in Requests, Served(rd)
               PROVE  /\ request[rd].shown[1] = request[rd].base
                      /\ request[rd].event \subseteq {request[rd].shown[Len(request[rd].shown)]}
                      /\ Len(request[rd].shown) = 2 =>
                           <<request[rd].shown[2], request[rd].slug>> \in request[rd].names
    BY DEF AnswerHangsTogether
  <2>1. Place(request[rd]) /\ Shown(request[rd]) /\ request[rd].at = "served"
    BY DEF Inv, RequestInv, Served
  <2> QED
    BY <2>1 DEF Place, Shown, AtBase, AtFound
<1> QED
  BY <1>1, InitInv, NextInv, PTL DEF Spec

(* The room with the slug is found, or one before it, when its place is on every
   first page of the hierarchy, which is all that is asked for. *)
THEOREM FirstIsFound == Spec => []FindsFirstOfName
<1>1. Inv => FindsFirstOfName
  <2> SUFFICES ASSUME Inv, NEW rd \in Requests, Served(rd), request[rd].slug # NoSlug,
                      NEW i \in Ahead(request[rd].base),
                      Kept(request[rd], Order(request[rd].base)[i])
               PROVE  /\ Len(request[rd].shown) = 2
                      /\ \E j \in 1 .. i : request[rd].shown[2] = Order(request[rd].base)[j]
    BY DEF FindsFirstOfName
  <2>1. Place(request[rd]) /\ request[rd].at = "served"
    BY DEF Inv, RequestInv, Served
  <2>2. ~NoneKept(request[rd])
    BY DEF NoneKept
  <2>3. /\ Len(request[rd].shown) = 2 /\ AtFound(request[rd])
        /\ request[rd].current = request[rd].shown[2]
    BY <2>1, <2>2 DEF Place
  <2> QED
    BY <2>3 DEF AtFound, Best
<1> QED
  BY <1>1, InitInv, NextInv, PTL DEF Spec
===============================================================================
