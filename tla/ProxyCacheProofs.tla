--------------------------- MODULE ProxyCacheProofs ---------------------------
(***************************************************************************)
(* What holds of ProxyCache for every set of keys, every section of the    *)
(* configuration, any number of requests and tasks, every latency, and     *)
(* whatever Redis and the homeserver do.                                   *)
(***************************************************************************)
EXTENDS ProxyCache, TLAPS

------------------------------------------------------------------------------
(* The configuration. *)

(* Every time to live that is read is one Redis takes. *)
LEMMA TtlType ==
  ASSUME section \in Sections
  PROVE  /\ MessagesTtl \in TimesToLive
         /\ RefreshTtl \in 0 .. (2 * Half - 1)
         /\ \A k \in Keys : TtlOf(k) \in TimesToLive
         /\ TtlOf("messages") \in TimesToLive
  BY ProxyCacheAssumption DEF MessagesTtl, RefreshTtl, Option, TtlOf, TimesToLive

(* ttl - refresh_ttl, where it does not wrap: a u64 and an i64 alike. *)
LEMMA ThresholdIsDifference ==
  ASSUME TypeOK, RefreshTtl <= MessagesTtl
  PROVE  Threshold = MessagesTtl - RefreshTtl
<1> DEFINE d == MessagesTtl - RefreshTtl
<1>1. Half \in Nat \ {0} /\ MessagesTtl \in Nat /\ MessagesTtl < Half /\ RefreshTtl \in Nat
  BY ProxyCacheAssumption, TtlType DEF TypeOK, TimesToLive
<1>2. d \in Nat /\ d < Half
  BY <1>1
<1> HIDE DEF d
<1>3. d % (2 * Half) = d
  BY <1>1, <1>2
<1>4. AsSigned(d) = d
  BY <1>2 DEF AsSigned
<1> QED
  BY <1>3, <1>4 DEF Threshold, d

------------------------------------------------------------------------------
(* Types. *)

(* An entry is told from no entry by its time to live. *)
LEMMA EntryType ==
  ASSUME TypeOK, NEW k \in Keys
  PROVE  /\ entry[k] = NoEntry <=> entry[k].ttl = 0
         /\ entry[k] # NoEntry => /\ entry[k] \in Entry
                                  /\ entry[k].ttl \in 1 .. TtlOf(k)
                                  /\ entry[k].body \in Body
  BY TtlType DEF TypeOK, Entry, NoEntry, TimesToLive

(* Bodies: what the homeserver gives, what ages, and none. *)
LEMMA BodyType ==
  ASSUME TypeOK
  PROVE  /\ Fresh \in Body /\ NoBody \in Body
         /\ \A body \in Body : Older(body) \in Body
  BY ProxyCacheAssumption DEF TypeOK, Fresh, NoBody, Body, Older

(* The entries of Redis and what goes into them. *)
EntryOK ==
  /\ entry \in [Keys -> Entry \cup {NoEntry}]
  /\ \A k \in Keys : entry[k].ttl <= TtlOf(k)

(* Writing to Redis. *)
LEMMA WriteType ==
  ASSUME TypeOK, NEW k \in KeyTypes, k \in Keys \/ k = "messages", NEW body \in Body,
         Write(k, body), UNCHANGED section
  PROVE  /\ EntryOK'
         /\ \A j \in Keys : \/ entry'[j] = entry[j]
                            \/ j = k /\ entry'[j] = [body |-> body, ttl |-> TtlOf(k)]
<1>1. TtlOf(k) \in Nat \ {0} /\ \A j \in Keys : TtlOf(j)' = TtlOf(j)
  BY TtlType DEF TypeOK, TimesToLive, TtlOf, MessagesTtl, Option
<1>2. [body |-> body, ttl |-> TtlOf(k)] \in Entry
  BY <1>1 DEF Entry
<1>3. CASE UNCHANGED entry
  BY <1>1, <1>3 DEF EntryOK, TypeOK
<1>4. CASE entry' = [entry EXCEPT ![k] = [body |-> body, ttl |-> TtlOf(k)]]
  <2> DEFINE new == [body |-> body, ttl |-> TtlOf(k)]
  <2>1. new \in Entry /\ new.ttl = TtlOf(k)
    BY <1>2
  <2> HIDE DEF new
  <2>2. entry' = [j \in Keys |-> IF j = k THEN new ELSE entry[j]]
    BY <1>4 DEF TypeOK, new
  <2>3. \A j \in Keys : entry'[j] = IF j = k THEN new ELSE entry[j]
    BY <2>2
  <2>4. entry' \in [Keys -> Entry \cup {NoEntry}]
    BY <2>1, <2>2 DEF TypeOK
  <2>5. \A j \in Keys : entry'[j].ttl <= TtlOf(j)'
    BY <1>1, <2>1, <2>3 DEF TypeOK
  <2> QED
    BY <2>3, <2>4, <2>5 DEF EntryOK, new
<1> QED
  BY <1>3, <1>4 DEF Write

(* What a request may become: another place, with its own body or one from Redis
   or the homeserver. *)
LEMMA PlaceType ==
  ASSUME TypeOK, NEW rd \in Requests
  PROVE  /\ KeyOf(rd) \in Keys /\ request[rd].body \in Body /\ request[rd].trouble \in BOOLEAN
         /\ \A place \in Places : /\ GoTo(rd, place) \/ Fail(rd, place)
                                     => request' \in [Requests -> Request]
                                  /\ \A body \in Body : Update(rd, place, body)
                                     => request' \in [Requests -> Request]
         /\ End(rd) => request' \in [Requests -> Request]
<1>1. request[rd] \in Request
  BY DEF TypeOK
<1>2. KeyOf(rd) \in Keys /\ request[rd].body \in Body /\ request[rd].trouble \in BOOLEAN
  BY <1>1 DEF Request, KeyOf
<1>3. ASSUME NEW place \in Places, NEW body \in Body, NEW trouble \in BOOLEAN,
             Become(rd, place, body, trouble)
      PROVE  request' \in [Requests -> Request]
  <2> DEFINE new == [at |-> place, key |-> KeyOf(rd), body |-> body, trouble |-> trouble]
  <2>1. new \in Request
    BY <1>2 DEF Request
  <2>2. request' = [request EXCEPT ![rd] = new]
    BY <1>3 DEF Become
  <2> HIDE DEF new
  <2> QED
    BY <2>1, <2>2 DEF TypeOK
<1>4. NoBody \in Body /\ "idle" \in Places
  BY BodyType DEF Places
<1>5. \A place \in Places, body \in Body :
        Update(rd, place, body) => request' \in [Requests -> Request]
  BY <1>2, <1>3 DEF Update
<1>6. \A place \in Places : GoTo(rd, place) => request' \in [Requests -> Request]
  BY <1>2, <1>5 DEF GoTo
<1>7. \A place \in Places : Fail(rd, place) => request' \in [Requests -> Request]
  BY <1>2, <1>3 DEF Fail
<1>8. End(rd) => request' \in [Requests -> Request]
  BY <1>3, <1>4 DEF End
<1> QED
  BY <1>2, <1>5, <1>6, <1>7, <1>8

(* Nothing is in Redis and nobody has asked at the start. *)
LEMMA InitType == Init => TypeOK
<1> SUFFICES ASSUME Init PROVE TypeOK
  OBVIOUS
<1>1. section \in Sections
  BY DEF Init
<1>2. \A k \in Keys : TtlOf(k) \in TimesToLive
  BY <1>1, TtlType
<1>3. entry \in [Keys -> {NoEntry}] /\ NoEntry.ttl = 0
  BY DEF Init, NoEntry
<1>4. \A k \in Keys : entry[k].ttl <= TtlOf(k)
  <2>1. TimesToLive \subseteq Nat
    BY ProxyCacheAssumption DEF TimesToLive
  <2> SUFFICES ASSUME NEW k \in Keys PROVE entry[k].ttl <= TtlOf(k)
    OBVIOUS
  <2>2. entry[k].ttl = 0
    BY <1>3
  <2>3. TtlOf(k) \in Nat
    BY <1>2, <2>1
  <2> QED
    BY <2>2, <2>3
<1>5. request \in [Requests -> Request]
  <2>1. NoBody \in Body /\ "idle" \in Places
    BY DEF Body, NoBody, Places
  <2>2. [at : {"idle"}, key : Keys, body : {NoBody}, trouble : {FALSE}] \subseteq Request
    BY <2>1 DEF Request
  <2> QED
    BY <2>2 DEF Init
<1>6. entry \in [Keys -> Entry \cup {NoEntry}]
  BY <1>3
<1>7. /\ version = 1 /\ spawned = 0 /\ redacted = 0
      /\ undelivered = {} /\ tasks = {} /\ excused = FALSE
  BY DEF Init
<1>8. version \in Nat /\ spawned \in Nat /\ redacted \in 0 .. version
  BY <1>7
<1>9. undelivered \subseteq Happening /\ tasks \subseteq Task /\ excused \in BOOLEAN
  BY <1>7
<1> QED
  BY <1>1, <1>4, <1>5, <1>6, <1>8, <1>9 DEF TypeOK

(* Every step of a request keeps the types. *)
LEMMA RequestType ==
  ASSUME TypeOK, NEW rd \in Requests,
         RequestStep(rd) \/ Abandon(rd) \/ \E k \in Keys : Ask(rd, k)
  PROVE  TypeOK'
<1>1. CASE UNCHANGED <<section, version, undelivered, entry, tasks, spawned, redacted, excused>>
  <2>1. request' \in [Requests -> Request]
    <3>1. ASSUME NEW k \in Keys, Ask(rd, k) PROVE request' \in [Requests -> Request]
      <4>1. [at |-> IF SkipCache(k) THEN "direct" ELSE "lookup",
             key |-> k, body |-> NoBody, trouble |-> FALSE] \in Request
        BY BodyType DEF Request, Places
      <4> QED
        BY <3>1, <4>1 DEF Ask, TypeOK
    <3>2. CASE Answer(rd) \/ Abandon(rd)
      BY <3>2, PlaceType DEF Answer, Abandon
    <3>3. Hit(rd) => entry[KeyOf(rd)].body \in Body
      BY PlaceType, EntryType DEF Hit
    <3>4. CASE Lookup(rd) \/ LookAgain(rd) \/ Get(rd)
      BY <3>3, <3>4, PlaceType DEF Lookup, LookAgain, Get, Places
    <3>5. CASE SearchLookup(rd) \/ SearchGet(rd)
      BY <3>3, <3>5, PlaceType, BodyType DEF SearchLookup, SearchGet, Places
    <3>6. CASE Fetch(rd) \/ Direct(rd) \/ SearchFetch(rd)
      BY <3>6, PlaceType, BodyType DEF Fetch, Direct, SearchFetch, Places
    <3>7. CASE Store(rd)
      BY <3>7, PlaceType DEF Store, Places
    <3> QED
      BY <3>1, <3>2, <3>4, <3>5, <3>6, <3>7 DEF RequestStep
  <2> QED
    BY <1>1, <2>1 DEF TypeOK, TtlOf, MessagesTtl, Option
<1>2. CASE Store(rd)
  <2>1. EntryOK'
    BY <1>2, PlaceType, WriteType, ProxyCacheAssumption DEF Store
  <2>2. request' \in [Requests -> Request]
    BY <1>2, PlaceType DEF Store, Places
  <2> QED
    BY <1>2, <2>1, <2>2 DEF Store, TypeOK, EntryOK
<1>3. CASE SearchFetch(rd)
  <2>1. request' \in [Requests -> Request]
    BY <1>3, PlaceType, BodyType DEF SearchFetch, Places
  <2>2. tasks' \subseteq Task
    BY <1>3, BodyType DEF SearchFetch, TypeOK, Task
  <2> QED
    BY <1>3, <2>1, <2>2 DEF SearchFetch, TypeOK, TtlOf, MessagesTtl, Option
<1> QED
  BY <1>1, <1>2, <1>3
     DEF RequestStep, Lookup, LookAgain, Get, Fetch, SearchLookup, SearchGet, Direct, Answer,
         Abandon, Ask

(* So does every step of a task. *)
LEMMA TaskType ==
  ASSUME TypeOK, NEW t \in tasks, TaskStep(t)
  PROVE  TypeOK'
<1>1. /\ t \in Task /\ t.body \in Body /\ Fresh \in Body
      /\ section \in Sections /\ KeyOfTask(t) \in {"messages", "search"}
  BY BodyType DEF TypeOK, Task, KeyOfTask
<1>2. \A place \in {"check", "store"}, body \in Body :
        Proceed(t, place, body) => tasks' \subseteq Task
  BY <1>1 DEF Proceed, TypeOK, Task
<1>3. EndTask(t) => tasks' \subseteq Task
  BY DEF EndTask, TypeOK
<1>4. CASE TaskFetch(t) \/ TaskCheck(t)
  <2>1. tasks' \subseteq Task
    BY <1>1, <1>2, <1>3, <1>4 DEF TaskFetch, TaskCheck
  <2>2. UNCHANGED <<section, version, undelivered, entry, request, spawned, redacted>>
    BY <1>4 DEF TaskFetch, TaskCheck
  <2>3. excused' \in BOOLEAN
    BY <1>4 DEF TaskFetch, TaskCheck, TypeOK
  <2> QED
    BY <2>1, <2>2, <2>3 DEF TypeOK, TtlOf, MessagesTtl, Option
<1>5. CASE TaskStore(t)
  <2>1. EntryOK'
    <3>1. CASE KeyOfTask(t) \in Keys \/ KeyOfTask(t) = "messages"
      BY <1>1, <1>5, <3>1, WriteType DEF TaskStore, KeyTypes
    <3>2. CASE KeyOfTask(t) \notin Keys
      <4>1. entry' = entry
        BY <1>5, <3>2 DEF TaskStore, Write, TypeOK
      <4> QED
        BY <1>5, <4>1 DEF TaskStore, EntryOK, TypeOK, TtlOf, MessagesTtl, Option
    <3> QED
      BY <3>1, <3>2
  <2>2. tasks' \subseteq Task
    BY <1>3, <1>5 DEF TaskStore
  <2>3. UNCHANGED <<section, version, undelivered, request, spawned, redacted>>
    BY <1>5 DEF TaskStore
  <2>4. excused' \in BOOLEAN
    BY <1>5 DEF TaskStore, TypeOK
  <2> QED
    BY <2>1, <2>2, <2>3, <2>4 DEF TypeOK, EntryOK
<1> QED
  BY <1>4, <1>5 DEF TaskStep

(* The clock only makes bodies older and entries shorter lived. *)
LEMMA TickType ==
  ASSUME TypeOK, Tick
  PROVE  TypeOK'
<1>1. \A k \in Keys : TtlOf(k)' = TtlOf(k) /\ TtlOf(k) \in Nat
  BY TtlType, ProxyCacheAssumption DEF Tick, TypeOK, TtlOf, MessagesTtl, Option, TimesToLive
<1>2. ASSUME NEW k \in Keys
      PROVE  /\ entry'[k] \in Entry \cup {NoEntry}
             /\ entry'[k].ttl <= TtlOf(k)
  <2>1. CASE entry[k].ttl <= 1
    <3>1. entry'[k] = NoEntry /\ NoEntry.ttl = 0
      BY <2>1 DEF Tick, NoEntry
    <3> QED
      BY <1>1, <3>1
  <2>2. CASE ~(entry[k].ttl <= 1)
    <3> DEFINE new == [body |-> Older(entry[k].body), ttl |-> entry[k].ttl - 1]
    <3>1. entry'[k] = new
      BY <2>2 DEF Tick
    <3>2. entry[k] # NoEntry
      BY <2>2 DEF NoEntry
    <3>3. entry[k].ttl \in 1 .. TtlOf(k) /\ Older(entry[k].body) \in Body
      BY <3>2, EntryType, BodyType
    <3>4. entry[k].ttl - 1 \in Nat \ {0} /\ entry[k].ttl - 1 <= TtlOf(k)
      BY <1>1, <2>2, <3>3
    <3>5. new \in Entry /\ new.ttl = entry[k].ttl - 1
      BY <3>3, <3>4 DEF Entry
    <3> QED
      BY <3>1, <3>4, <3>5
  <2> QED
    BY <2>1, <2>2
<1>3. entry' \in [Keys -> Entry \cup {NoEntry}] /\ \A k \in Keys : entry'[k].ttl <= TtlOf(k)'
  <2>1. entry' = [k \in Keys |-> entry'[k]]
    BY DEF Tick
  <2> QED
    BY <1>1, <1>2, <2>1
<1>4. request' \in [Requests -> Request]
  <2>1. ASSUME NEW rd \in Requests PROVE WaitOn(rd) \in Request
    <3>1. request[rd] \in Request
      BY DEF TypeOK
    <3>2. /\ request[rd].at \in Places /\ KeyOf(rd) \in Keys
          /\ request[rd].body \in Body /\ Older(request[rd].body) \in Body
          /\ request[rd].trouble \/ Expires(rd) \in BOOLEAN
      BY <3>1, BodyType DEF Request, KeyOf, Expires
    <3> QED
      BY <3>2 DEF WaitOn, Request
  <2> QED
    BY <2>1 DEF Tick
<1>5. tasks' \subseteq Task
  <2>1. ASSUME NEW t \in tasks PROVE WaitingTask(t) \in Task
    BY BodyType DEF TypeOK, Task, WaitingTask
  <2> QED
    BY <2>1 DEF Tick
<1> QED
  BY <1>3, <1>4, <1>5 DEF Tick, TypeOK

(* Every step keeps the types. *)
LEMMA NextType == TypeOK /\ [Next]_vars => TypeOK'
<1> SUFFICES ASSUME TypeOK, [Next]_vars PROVE TypeOK'
  OBVIOUS
<1>0. section' = section => \A k \in Keys : TtlOf(k)' = TtlOf(k)
  BY DEF TtlOf, MessagesTtl, Option
<1>1. ASSUME NEW kind \in {"message", "redaction"}, Happens(kind) PROVE TypeOK'
  <2>1. version' \in Nat /\ redacted' \in 0 .. version'
    BY <1>1 DEF Happens, TypeOK
  <2>4. excused' \in BOOLEAN
    BY <1>1 DEF Happens, TypeOK
  <2>2. undelivered' \subseteq Happening
    BY <1>1 DEF Happens, TypeOK, Happening
  <2>3. UNCHANGED <<section, entry, request, tasks, spawned>>
    BY <1>1 DEF Happens
  <2> QED
    BY <1>0, <2>1, <2>2, <2>3, <2>4 DEF TypeOK
<1>2. ASSUME NEW e \in undelivered, Recache(e) PROVE TypeOK'
  <2>1. spawned' \in Nat /\ undelivered' \subseteq Happening
    BY <1>2 DEF Recache, TypeOK
  <2>2. e.kind \in {"message", "redaction"}
    BY DEF TypeOK, Happening
  <2>3. [kind |-> e.kind, at |-> "fetch", body |-> NoBody, id |-> spawned'] \in Task
    BY <2>1, <2>2, BodyType DEF Task
  <2>4. tasks' \subseteq Task
    BY <1>2, <2>3 DEF Recache, TypeOK
  <2> QED
    BY <1>0, <1>2, <2>1, <2>4 DEF Recache, TypeOK
<1>3. CASE Crash
  <2>1. request' \in [Requests -> Request]
    <3>1. ASSUME NEW rd \in Requests
          PROVE  [at |-> "idle", key |-> KeyOf(rd), body |-> NoBody, trouble |-> FALSE] \in Request
      BY PlaceType, BodyType DEF Request, Places
    <3> QED
      BY <1>3, <3>1 DEF Crash
  <2> QED
    BY <1>0, <1>3, <2>1 DEF Crash, TypeOK
<1>4. CASE UNCHANGED vars
  BY <1>0, <1>4 DEF vars, TypeOK
<1> QED
  BY <1>1, <1>2, <1>3, <1>4, RequestType, TaskType, TickType DEF Next

(* Types are kept by every behaviour: no entry lives longer than its key allows,
   and the last redaction is one of the room's events. *)
THEOREM TypeCorrect == Spec => []TypeOK
  BY InitType, NextType, PTL DEF Spec

------------------------------------------------------------------------------
(* What the steps do, as far as the properties ask. *)

(* A step of a request touches that request only. *)
LEMMA BecomeActs ==
  ASSUME TypeOK, NEW rd \in Requests, NEW place, NEW body, NEW trouble,
         Become(rd, place, body, trouble)
  PROVE  /\ request'[rd].at = place /\ request'[rd].key = request[rd].key
         /\ request'[rd].body = body /\ request'[rd].trouble = trouble
         /\ \A o \in Requests \ {rd} : request'[o] = request[o]
<1> DEFINE new == [at |-> place, key |-> KeyOf(rd), body |-> body, trouble |-> trouble]
<1>1. request' = [request EXCEPT ![rd] = new]
  BY DEF Become
<1>2. /\ new.at = place /\ new.key = request[rd].key
      /\ new.body = body /\ new.trouble = trouble
  BY DEF KeyOf
<1> HIDE DEF new
<1> QED
  BY <1>1, <1>2 DEF TypeOK

(* What a request that has moved holds, and where it has that from. *)
Moved(rd) ==
  /\ \A o \in Requests \ {rd} : request'[o] = request[o]
  /\ request'[rd].at # "lookup" => request'[rd].key = request[rd].key \/ request'[rd].at = "direct"
  /\ request'[rd].at = "store" => request'[rd].body = Fresh
  /\ request'[rd].at = "get" => Hit(rd)
  /\ request'[rd].at = "served" =>
       /\ request'[rd].key = request[rd].key
       /\ \/ Hit(rd) /\ request'[rd].body = entry[KeyOf(rd)].body
          \/ request'[rd].body = Fresh
          \/ request[rd].at = "store" /\ request'[rd].body = request[rd].body
          \/ /\ request[rd].at = "get" /\ ~Hit(rd) /\ request'[rd].body = NoBody
             /\ request'[rd].trouble = request[rd].trouble
  /\ request'[rd].at = "failed" =>
       \/ request'[rd].trouble
       \/ request[rd].at = "get" /\ ~Hit(rd) /\ request'[rd].trouble = request[rd].trouble

(* A failure, a miss and what a request is sent on with. *)
LEMMA FailMoves ==
  ASSUME TypeOK, NEW rd \in Requests, NEW place \in {"again", "fetch", "failed"}, Fail(rd, place)
  PROVE  Moved(rd)
  BY BecomeActs DEF Fail, Moved

(* Going on to another await moves the request and nothing else; *)
LEMMA GoMoves ==
  ASSUME TypeOK, NEW rd \in Requests, NEW place \in {"again", "fetch"}, GoTo(rd, place)
  PROVE  Moved(rd)
  BY BecomeActs DEF GoTo, Update, Moved

(* so does finding the key there, *)
LEMMA GetMoves ==
  ASSUME TypeOK, NEW rd \in Requests, Hit(rd), GoTo(rd, "get")
  PROVE  Moved(rd)
  BY BecomeActs DEF GoTo, Update, Moved

(* and serving a response, which is new, the entry's, the one in hand, or empty when the entry
   expired. *)
LEMMA ServeMoves ==
  ASSUME TypeOK, NEW rd \in Requests, NEW body, Update(rd, "served", body),
         \/ body = Fresh
         \/ Hit(rd) /\ body = entry[KeyOf(rd)].body
         \/ request[rd].at = "store" /\ body = request[rd].body
         \/ request[rd].at = "get" /\ ~Hit(rd) /\ body = NoBody
  PROVE  Moved(rd)
<1>1. /\ request'[rd].at = "served" /\ request'[rd].key = request[rd].key
      /\ request'[rd].body = body /\ request'[rd].trouble = request[rd].trouble
      /\ \A o \in Requests \ {rd} : request'[o] = request[o]
  BY BecomeActs DEF Update
<1> QED
  BY <1>1 DEF Moved

(* What a search leaves behind to be stored. *)
NewSearch == [kind |-> "search", at |-> "store", body |-> Fresh, id |-> 0]

(* All that a step of a request changes: itself, one entry it had a body for, or the tasks by a
   search's. *)
LEMMA RequestActs ==
  ASSUME TypeOK, NEW rd \in Requests,
         RequestStep(rd) \/ Abandon(rd) \/ \E k \in Keys : Ask(rd, k)
  PROVE  /\ Moved(rd)
         /\ \/ entry' = entry
            \/ /\ request[rd].at = "store" /\ Write(KeyOf(rd), request[rd].body)
               /\ request'[rd].at = "served"
         /\ tasks' \in {tasks, tasks \cup {NewSearch}}
         /\ UNCHANGED <<section, version, undelivered, spawned, redacted, excused>>
<1>1. Moved(rd)
  <2>1. ASSUME NEW k \in Keys, Ask(rd, k) PROVE Moved(rd)
    <3>1. request'[rd].at = IF SkipCache(k) THEN "direct" ELSE "lookup"
      BY <2>1 DEF Ask, TypeOK
    <3>2. \A o \in Requests \ {rd} : request'[o] = request[o]
      BY <2>1 DEF Ask, TypeOK
    <3> QED
      BY <2>1, <3>1, <3>2 DEF Ask, Moved
  <2>2. CASE Answer(rd) \/ Abandon(rd)
    <3>1. End(rd)
      BY <2>2 DEF Answer, Abandon
    <3> QED
      <4>1. request'[rd].at = "idle" /\ request'[rd].key = request[rd].key
        BY <3>1, BecomeActs DEF End
      <4>2. \A o \in Requests \ {rd} : request'[o] = request[o]
        BY <3>1, BecomeActs DEF End
      <4> QED
        BY <4>1, <4>2 DEF Moved
  <2>3. CASE Lookup(rd) \/ Get(rd)
    <3>1. \/ Hit(rd) /\ Update(rd, "served", entry[KeyOf(rd)].body)
          \/ GoTo(rd, "again")
          \/ request[rd].at = "get" /\ ~Hit(rd) /\ GoTo(rd, "failed")
          \/ Fail(rd, "again") \/ Fail(rd, "failed")
      BY <2>3 DEF Lookup, Get
    <3>2. CASE request[rd].at = "get" /\ ~Hit(rd) /\ GoTo(rd, "failed")
      <4>1. /\ request'[rd].at = "failed" /\ request'[rd].key = request[rd].key
            /\ request'[rd].trouble = request[rd].trouble
            /\ \A o \in Requests \ {rd} : request'[o] = request[o]
        BY <3>2, BecomeActs DEF GoTo, Update
      <4> QED
        BY <3>2, <4>1 DEF Moved
    <3> QED
      BY <3>1, <3>2, ServeMoves, GoMoves, FailMoves
  <2>4. CASE LookAgain(rd) \/ SearchLookup(rd)
    <3>1. \/ Hit(rd) /\ GoTo(rd, "get")
          \/ GoTo(rd, "fetch")
          \/ Fail(rd, "failed") \/ Fail(rd, "fetch")
      BY <2>4 DEF LookAgain, SearchLookup
    <3> QED
      BY <3>1, GetMoves, GoMoves, FailMoves
  <2>5. CASE Fetch(rd)
    <3>1. CASE Update(rd, "store", Fresh)
      BY <3>1, BecomeActs DEF Moved, Update
    <3> QED
      BY <2>5, <3>1, FailMoves DEF Fetch
  <2>6. CASE SearchGet(rd)
    <3>1. CASE Update(rd, "served", IF Hit(rd) THEN entry[KeyOf(rd)].body ELSE NoBody)
      <4>1. request[rd].at = "get"
        BY <2>6 DEF SearchGet
      <4> QED
        BY <3>1, <4>1, ServeMoves
    <3> QED
      BY <2>6, <3>1, FailMoves DEF SearchGet
  <2>7. CASE SearchFetch(rd) \/ Direct(rd)
    <3>1. Update(rd, "served", Fresh) \/ Fail(rd, "failed")
      BY <2>7 DEF SearchFetch, Direct
    <3> QED
      BY <3>1, ServeMoves, FailMoves
  <2>8. CASE Store(rd)
    BY <2>8, ServeMoves DEF Store, GoTo
  <2> QED
    BY <2>1, <2>2, <2>3, <2>4, <2>5, <2>6, <2>7, <2>8 DEF RequestStep
<1>2. UNCHANGED <<section, version, undelivered, spawned, redacted, excused>>
  BY DEF RequestStep, Abandon, Ask, Lookup, LookAgain, Get, Fetch, SearchLookup, SearchGet,
         SearchFetch, Store, Direct, Answer
<1>3. tasks' \in {tasks, tasks \cup {NewSearch}}
  BY DEF RequestStep, Abandon, Ask, Lookup, LookAgain, Get, Fetch, SearchLookup, SearchGet,
         SearchFetch, Store, Direct, Answer, NewSearch
<1>4. \/ entry' = entry
       \/ /\ request[rd].at = "store" /\ Write(KeyOf(rd), request[rd].body)
          /\ request'[rd].at = "served"
  <2>1. CASE Store(rd)
    BY <2>1, BecomeActs DEF Store, Update, GoTo
  <2> QED
    BY <2>1 DEF RequestStep, Abandon, Ask, Lookup, LookAgain, Get, Fetch, SearchLookup,
         SearchGet, SearchFetch, Direct, Answer
<1> QED
  BY <1>1, <1>2, <1>3, <1>4

(* A task touches its own record and the page. *)
LEMMA TaskActs ==
  ASSUME TypeOK, NEW t \in tasks, TaskStep(t)
  PROVE  /\ tasks \ {t} \subseteq tasks'
         /\ \A u \in tasks' :
              \/ u \in tasks \ {t}
              \/ /\ u.kind = t.kind /\ u.id = t.id /\ t.at \in {"fetch", "check"}
                 /\ u.body = IF t.at = "fetch" THEN Fresh ELSE t.body
                 /\ u.at = "check" => t.at = "fetch" /\ t.kind # "redaction"
                 /\ u.at = "store" \/ u.at = "check"
         /\ entry' = entry \/ (t.at = "store" /\ Write(KeyOfTask(t), t.body))
         /\ UNCHANGED <<section, version, undelivered, request, spawned, redacted>>
<1>1. CASE TaskFetch(t)
  BY <1>1 DEF TaskFetch, Proceed, EndTask
<1>2. CASE TaskCheck(t)
  BY <1>2 DEF TaskCheck, Proceed, EndTask
<1>3. CASE TaskStore(t)
  BY <1>3 DEF TaskStore, EndTask
<1> QED
  BY <1>1, <1>2, <1>3 DEF TaskStep

(* A body in hand is with a request that is about to write it or with a task. *)
LEMMA InHandIs ==
  ASSUME TypeOK, NEW K, NEW body
  PROVE  body \in InHand(K) <=>
           \/ \E o \in Requests : request[o].at = "store" /\ request[o].key \in K
                                  /\ body = request[o].body
           \/ \E t \in tasks : t.at # "fetch" /\ KeyOfTask(t) \in K /\ body = t.body
  BY DEF InHand

(* The steps that put nothing in hand but what the homeserver gives now. *)
Handles ==
  \/ \E rd \in Requests : RequestStep(rd) \/ Abandon(rd) \/ \E k \in Keys : Ask(rd, k)
  \/ \E t \in tasks : TaskStep(t)
  \/ \E e \in undelivered : Recache(e)
  \/ Crash

(* Only what the homeserver gives now is taken in hand. *)
LEMMA HandsAct ==
  ASSUME TypeOK, TypeOK', NEW K,
         Handles
  PROVE  InHand(K)' \subseteq InHand(K) \cup {Fresh}
<1> SUFFICES ASSUME NEW body \in InHand(K)', body # Fresh
             PROVE  body \in InHand(K)
  OBVIOUS
<1>1. \/ \E o \in Requests : request'[o].at = "store" /\ request'[o].key \in K
                             /\ body = request'[o].body
      \/ \E t \in tasks' : t.at # "fetch" /\ KeyOfTask(t) \in K /\ body = t.body
  BY DEF InHand, KeyOfTask
<1>2. ASSUME NEW rd \in Requests, RequestStep(rd) \/ Abandon(rd) \/ \E k \in Keys : Ask(rd, k)
      PROVE  body \in InHand(K)
  <2>1. /\ \A o \in Requests \ {rd} : request'[o] = request[o]
        /\ request'[rd].at = "store" => request'[rd].body = Fresh
    BY <1>2, RequestActs DEF Moved
  <2>2. \A t \in tasks' : t \in tasks \/ t.body = Fresh
    BY <1>2, RequestActs DEF NewSearch
  <2> QED
    BY <1>1, <2>1, <2>2, InHandIs
<1>3. ASSUME NEW t \in tasks, TaskStep(t)
      PROVE  body \in InHand(K)
  <2>1. request' = request
    BY <1>3, TaskActs
  <2>2. ASSUME NEW u \in tasks', u.at # "fetch", KeyOfTask(u) \in K, body = u.body
        PROVE  body \in InHand(K)
    <3>1. CASE u \in tasks
      BY <2>2, <3>1, InHandIs
    <3>2. CASE u \notin tasks
      <4>1. u.kind = t.kind /\ u.body = t.body /\ t.at = "check"
        BY <1>3, <2>2, <3>2, TaskActs
      <4> QED
        BY <2>2, <4>1, InHandIs DEF KeyOfTask
    <3> QED
      BY <3>1, <3>2
  <2> QED
    BY <1>1, <2>1, <2>2, InHandIs
<1>4. ASSUME NEW e \in undelivered, Recache(e)
      PROVE  body \in InHand(K)
  <2>1. request' = request /\ \A t \in tasks' : t \in tasks \/ t.at = "fetch"
    BY <1>4 DEF Recache
  <2> QED
    BY <1>1, <2>1, InHandIs
<1>5. CASE Crash
  <2>1. tasks' = {} /\ \A o \in Requests : request'[o].at = "idle"
    BY <1>5 DEF Crash
  <2> QED
    BY <1>1, <2>1
<1> QED
  BY <1>2, <1>3, <1>4, <1>5 DEF Handles

(* An entry that is written is a body that was in hand. *)
LEMMA EntriesAct ==
  ASSUME TypeOK, Handles, NEW k \in Keys
  PROVE  /\ \/ entry'[k] = entry[k]
            \/ \E body \in InHand({k}) : entry'[k] = [body |-> body, ttl |-> TtlOf(k)]
         /\ UNCHANGED section
<1>1. ASSUME NEW rd \in Requests, RequestStep(rd) \/ Abandon(rd) \/ \E j \in Keys : Ask(rd, j)
      PROVE  /\ \/ entry'[k] = entry[k]
                \/ \E body \in InHand({k}) : entry'[k] = [body |-> body, ttl |-> TtlOf(k)]
             /\ UNCHANGED section
  <2>1. CASE entry' = entry
    BY <1>1, <2>1, RequestActs
  <2>2. CASE request[rd].at = "store" /\ Write(KeyOf(rd), request[rd].body)
    <3>0. UNCHANGED section
      BY <1>1, RequestActs
    <3>1. CASE k = KeyOf(rd)
      <4>1. request[rd].body \in InHand({k})
        BY <2>2, <3>1, InHandIs DEF KeyOf
      <4>2. \/ entry'[k] = [body |-> request[rd].body, ttl |-> TtlOf(k)]
            \/ entry'[k] = entry[k]
        BY <2>2, <3>1 DEF Write, TypeOK
      <4> QED
        BY <3>0, <4>1, <4>2
    <3>2. CASE k # KeyOf(rd)
      BY <2>2, <3>0, <3>2 DEF Write, TypeOK
    <3> QED
      BY <3>1, <3>2
  <2> QED
    BY <1>1, <2>1, <2>2, RequestActs
<1>2. ASSUME NEW t \in tasks, TaskStep(t)
      PROVE  /\ \/ entry'[k] = entry[k]
                \/ \E body \in InHand({k}) : entry'[k] = [body |-> body, ttl |-> TtlOf(k)]
             /\ UNCHANGED section
  <2>1. CASE entry' = entry
    BY <1>2, <2>1, TaskActs
  <2>2. CASE t.at = "store" /\ Write(KeyOfTask(t), t.body)
    <3>1. CASE k = KeyOfTask(t)
      <4>1. t.body \in Body /\ t.body \in InHand({k})
        BY <2>2, <3>1, InHandIs DEF TypeOK, Task
      <4> QED
        BY <1>2, <2>2, <3>1, <4>1, TaskActs, WriteType, ProxyCacheAssumption
    <3>2. CASE k # KeyOfTask(t)
      BY <1>2, <2>2, <3>2, TaskActs DEF Write, TypeOK
    <3> QED
      BY <3>1, <3>2
  <2> QED
    BY <1>2, <2>1, <2>2, TaskActs
<1> QED
  BY <1>1, <1>2 DEF Handles, Recache, Crash

(* A tick ages what is in hand and what is cached, and takes an entry whose time
   is over. *)
LEMMA TickAges ==
  ASSUME TypeOK, Tick
  PROVE  /\ \A K : \A body \in InHand(K)' : \E old \in InHand(K) : body = Older(old)
         /\ \A k \in Keys : \/ entry'[k] = NoEntry /\ entry[k].ttl <= 1
                            \/ /\ entry[k] # NoEntry /\ entry[k].ttl > 1
                               /\ entry'[k] = [body |-> Older(entry[k].body),
                                               ttl |-> entry[k].ttl - 1]
<1>1. ASSUME NEW K, NEW body \in InHand(K)'
      PROVE  \E old \in InHand(K) : body = Older(old)
  <2>1. \/ \E o \in Requests : request'[o].at = "store" /\ request'[o].key \in K
                               /\ body = request'[o].body
        \/ \E t \in tasks' : t.at # "fetch" /\ KeyOfTask(t) \in K /\ body = t.body
    BY <1>1 DEF InHand, KeyOfTask
  <2>2. ASSUME NEW o \in Requests, request'[o].at = "store", request'[o].key \in K,
               body = request'[o].body
        PROVE  \E old \in InHand(K) : body = Older(old)
    <3>1. request'[o] = WaitOn(o)
      BY DEF Tick
    <3>2. request[o].at = "store" /\ request[o].key \in K /\ body = Older(request[o].body)
      BY <2>2, <3>1 DEF WaitOn, KeyOf
    <3> QED
      BY <3>2, InHandIs
  <2>3. ASSUME NEW t \in tasks', t.at # "fetch", KeyOfTask(t) \in K, body = t.body
        PROVE  \E old \in InHand(K) : body = Older(old)
    <3>1. PICK u \in tasks : t = WaitingTask(u)
      BY DEF Tick
    <3>2. u.at # "fetch" /\ KeyOfTask(u) \in K /\ body = Older(u.body)
      BY <2>3, <3>1 DEF WaitingTask, KeyOfTask
    <3> QED
      BY <3>2, InHandIs
  <2> QED
    BY <2>1, <2>2, <2>3
<1>2. ASSUME NEW k \in Keys
      PROVE  \/ entry'[k] = NoEntry /\ entry[k].ttl <= 1
             \/ /\ entry[k] # NoEntry /\ entry[k].ttl > 1
                /\ entry'[k] = [body |-> Older(entry[k].body), ttl |-> entry[k].ttl - 1]
  <2>1. entry'[k] = IF entry[k].ttl <= 1 THEN NoEntry
                    ELSE [body |-> Older(entry[k].body), ttl |-> entry[k].ttl - 1]
    BY DEF Tick
  <2>2. entry[k].ttl \in Nat
    BY EntryType
  <2>3. entry[k].ttl > 1 => entry[k] # NoEntry
    BY DEF NoEntry
  <2> QED
    BY <2>1, <2>2, <2>3
<1> QED
  BY <1>1, <1>2

(* An entry that outlives a tick has aged by one and lost one. *)
LEMMA TickEntry ==
  ASSUME TypeOK, Tick, NEW k \in Keys, entry'[k] # NoEntry
  PROVE  /\ entry[k] # NoEntry
         /\ entry'[k].body = Older(entry[k].body)
         /\ entry'[k].ttl = entry[k].ttl - 1
<1> DEFINE new == [body |-> Older(entry[k].body), ttl |-> entry[k].ttl - 1]
<1>1. entry[k] # NoEntry /\ entry'[k] = new
  BY TickAges
<1>2. new.body = Older(entry[k].body) /\ new.ttl = entry[k].ttl - 1
  OBVIOUS
<1> QED
  BY <1>1, <1>2

(* An entry that a step other than the clock's changes is a body somebody had in hand, with all
   its time. *)
LEMMA HandlesEntry ==
  ASSUME TypeOK, Handles, NEW k \in Keys, entry'[k] # entry[k]
  PROVE  entry'[k].body \in InHand({k}) /\ entry'[k].ttl = TtlOf(k)
<1>1. PICK body \in InHand({k}) : entry'[k] = [body |-> body, ttl |-> TtlOf(k)]
  BY EntriesAct
<1> QED
  BY <1>1

(* What happens in the room, and a step of nothing, leave hands and cache alone. *)
LEMMA HappensActs ==
  ASSUME TypeOK, (\E kind \in {"message", "redaction"} : Happens(kind)) \/ UNCHANGED vars
  PROVE  /\ \A K : InHand(K)' = InHand(K)
         /\ UNCHANGED <<section, entry, request, tasks, spawned>>
         /\ version' \in {version, version + 1}
  BY DEF Happens, vars, InHand, KeyOfTask

(* Neither the section nor the room changes by what the process does. *)
LEMMA HandlesActs ==
  ASSUME TypeOK, Handles
  PROVE  UNCHANGED <<section, version>>
  BY RequestActs, TaskActs DEF Handles, Recache, Crash

(* The three sorts of steps: the room's, the process's, the clock's. *)
LEMMA NextIs ==
  [Next]_vars => \/ (\E kind \in {"message", "redaction"} : Happens(kind)) \/ UNCHANGED vars
                 \/ Handles
                 \/ Tick
  BY DEF Next, Handles

(* Nobody has a response in hand at first. *)
LEMMA InitHand == Init => \A K : InHand(K) = {}
<1> SUFFICES ASSUME Init, NEW K PROVE InHand(K) = {}
  OBVIOUS
<1>1. tasks = {} /\ \A rd \in Requests : request[rd].at = "idle"
  BY DEF Init
<1> QED
  BY <1>1 DEF InHand

(* What is in hand for a key is in hand. *)
LEMMA HandOfAll ==
  ASSUME TypeOK, NEW k \in Keys
  PROVE  InHand({k}) \subseteq InHand(Keys)
  BY InHandIs

(* What the homeserver answers is the room as it is. *)
LEMMA FreshType == TypeOK => Fresh \in Body /\ Fresh.version = version /\ Fresh.age = 0
  BY DEF TypeOK, Fresh, Body

(* What is in hand is a response. *)
LEMMA HandType == TypeOK => \A K : InHand(K) \subseteq Body
<1> SUFFICES ASSUME TypeOK, NEW K, NEW body \in InHand(K) PROVE body \in Body
  OBVIOUS
<1>1. \A t \in tasks : t.body \in Body
  BY DEF TypeOK, Task
<1>2. \A rd \in Requests : request[rd].body \in Body
  BY PlaceType
<1> QED
  BY <1>1, <1>2, InHandIs

------------------------------------------------------------------------------
(* Errors and empty answers. *)

(* What the homeserver gave shows at least the room's
   first event. *)
BodiesReal ==
  /\ version >= 1
  /\ \A k \in Keys : entry[k] # NoEntry => entry[k].body.version >= 1
  /\ \A body \in InHand(Keys) : body.version >= 1

(* An entry that EXISTS saw is there for GET, unless it expires in between. *)
SeenIsThere ==
  \A rd \in Requests : request[rd].at = "get" /\ ~request[rd].trouble => Hit(rd)

(* BodiesReal holds at first. *)
LEMMA InitReal == Init => BodiesReal
<1> SUFFICES ASSUME Init PROVE BodiesReal
  OBVIOUS
<1>1. InHand(Keys) = {}
  BY InitHand
<1> QED
  BY <1>1 DEF Init, BodiesReal

(* What the homeserver gave shows at least the room's first event. *)
LEMMA NextReal == TypeOK /\ TypeOK' /\ BodiesReal /\ [Next]_vars => BodiesReal'
<1> SUFFICES ASSUME TypeOK, TypeOK', BodiesReal, [Next]_vars PROVE BodiesReal'
  OBVIOUS
<1> USE DEF BodiesReal
<1>1. CASE (\E kind \in {"message", "redaction"} : Happens(kind)) \/ UNCHANGED vars
  BY <1>1, HappensActs DEF TypeOK
<1>2. CASE Handles
  <2>1. version' = version /\ Fresh.version = version
    BY <1>2, HandlesActs DEF Fresh
  <2>2. \A body \in InHand(Keys)' : body.version >= 1
    BY <1>2, <2>1, HandsAct, FreshType
  <2>4. ASSUME NEW k \in Keys, entry'[k] # NoEntry PROVE entry'[k].body.version >= 1
    <3>1. InHand({k}) \subseteq InHand(Keys)
      BY HandOfAll
    <3> QED
      BY <1>2, <2>4, <3>1, HandlesEntry
  <2> QED
    BY <2>1, <2>2, <2>4
<1>3. CASE Tick
  <2>1. \A body : Older(body).version = body.version
    BY DEF Older
  <2>2. version' = version
    BY <1>3 DEF Tick
  <2>3. \A body \in InHand(Keys)' : body.version >= 1
    BY <1>3, <2>1, TickAges
  <2>4. ASSUME NEW k \in Keys, entry'[k] # NoEntry PROVE entry'[k].body.version >= 1
    <3>1. entry[k] # NoEntry /\ entry'[k].body = Older(entry[k].body)
      BY <1>3, <2>4, TickEntry
    <3> QED
      BY <2>1, <3>1
  <2> QED
    BY <2>2, <2>3, <2>4
<1> QED
  BY <1>1, <1>2, <1>3, NextIs

(* No step but the passing of time takes an entry away. *)
LEMMA StaysCached ==
  ASSUME TypeOK, Handles, NEW k \in Keys, entry[k] # NoEntry
  PROVE  entry'[k] # NoEntry
<1>1. CASE entry'[k] # entry[k]
  <2>1. entry'[k].ttl = TtlOf(k)
    BY <1>1, HandlesEntry
  <2>2. TtlOf(k) \in Nat \ {0}
    BY TtlType DEF TypeOK, TimesToLive, TtlOf, MessagesTtl, Option
  <2> QED
    BY <2>1, <2>2 DEF NoEntry
<1> QED
  BY <1>1

(* A request a step of another actor leaves where it is. *)
LEMMA RequestKept ==
  ASSUME TypeOK, Handles, NEW o \in Requests
  PROVE  \/ request'[o] = request[o]
         \/ request'[o].at = "idle"
         \/ /\ Moved(o)
            /\ entry' = entry \/ request'[o].at = "served"
<1>1. ASSUME NEW rd \in Requests, RequestStep(rd) \/ Abandon(rd) \/ \E k \in Keys : Ask(rd, k)
      PROVE  \/ request'[o] = request[o]
             \/ Moved(o) /\ (entry' = entry \/ request'[o].at = "served")
  <2>1. CASE o = rd
    BY <1>1, <2>1, RequestActs
  <2>2. CASE o # rd
    BY <1>1, <2>2, RequestActs DEF Moved
  <2> QED
    BY <2>1, <2>2
<1>2. ASSUME NEW t \in tasks, TaskStep(t) PROVE request'[o] = request[o]
  BY <1>2, TaskActs
<1>3. ASSUME NEW e \in undelivered, Recache(e) PROVE request'[o] = request[o]
  BY <1>3 DEF Recache
<1>4. Crash => request'[o].at = "idle"
  BY DEF Crash
<1> QED
  BY <1>1, <1>2, <1>3, <1>4 DEF Handles

(* What a tick does to a request: it ages what it has in hand, and sees the entry it is about to
   read expire. *)
LEMMA WaitActs ==
  ASSUME TypeOK, Tick, NEW o \in Requests
  PROVE  /\ request'[o].at = request[o].at /\ request'[o].key = request[o].key
         /\ request[o].at # "store" => request'[o].body = request[o].body
         /\ request[o].trouble \/ Expires(o) => request'[o].trouble
<1>1. request'[o] = WaitOn(o)
  BY DEF Tick
<1>2. request'[o].trouble = (request[o].trouble \/ Expires(o))
  BY <1>1 DEF WaitOn
<1>3. request[o].trouble \/ Expires(o) => request'[o].trouble
  BY <1>2, Zenon
<1> QED
  BY <1>1, <1>3 DEF WaitOn, KeyOf

(* Nobody has failed at first. *)
LEMMA InitCause == Init => SeenIsThere /\ FailureHasCause
<1> SUFFICES ASSUME Init PROVE SeenIsThere /\ FailureHasCause
  OBVIOUS
<1>1. \A rd \in Requests : request[rd].at = "idle"
  BY DEF Init
<1> QED
  BY <1>1 DEF SeenIsThere, FailureHasCause

(* The entry a request saw is there until it reads it, or expired, which it knows. *)
LEMMA NextSeen == TypeOK /\ TypeOK' /\ SeenIsThere /\ [Next]_vars => SeenIsThere'
<1> SUFFICES ASSUME TypeOK, TypeOK', SeenIsThere, [Next]_vars,
                    NEW o \in Requests, request'[o].at = "get", ~request'[o].trouble
             PROVE  entry'[request'[o].key] # NoEntry
  BY DEF SeenIsThere, Hit, KeyOf
<1>0. /\ request[o].key \in Keys
      /\ request[o].at = "get" /\ ~request[o].trouble => entry[request[o].key] # NoEntry
  BY PlaceType DEF SeenIsThere, Hit, KeyOf
<1>1. CASE (\E kind \in {"message", "redaction"} : Happens(kind)) \/ UNCHANGED vars
  <2>1. request' = request /\ entry' = entry
    BY <1>1, HappensActs
  <2> QED
    BY <1>0, <2>1
<1>2. CASE Handles
  <2>1. CASE request'[o] = request[o]
    BY <1>0, <1>2, <2>1, StaysCached
  <2>2. CASE Moved(o) /\ (entry' = entry \/ request'[o].at = "served")
    <3>1. entry' = entry /\ request'[o].key = request[o].key /\ Hit(o)
      BY <2>2 DEF Moved
    <3> QED
      BY <3>1 DEF Hit, KeyOf
  <2> QED
    BY <1>2, <2>1, <2>2, RequestKept
<1>3. CASE Tick
  <2>2. /\ request[o].at = "get" /\ request'[o].key = request[o].key
        /\ ~(request[o].trouble \/ Expires(o))
    BY <1>3, WaitActs
  <2>3. entry[request[o].key].ttl # 1 /\ entry[request[o].key] # NoEntry
    BY <1>0, <2>2 DEF Expires, KeyOf
  <2>4. entry[request[o].key].ttl \in Nat \ {0}
    BY <1>0, <2>3, EntryType
  <2>5. ~(entry[request[o].key].ttl <= 1)
    BY <2>3, <2>4
  <2>6. entry'[request[o].key] = [body |-> Older(entry[request[o].key].body),
                                  ttl |-> entry[request[o].key].ttl - 1]
    BY <1>0, <1>3, <2>5, TickAges
  <2>7. entry'[request[o].key].ttl # 0
    BY <2>3, <2>4, <2>6
  <2> QED
    BY <2>2, <2>7 DEF NoEntry
<1> QED
  BY <1>1, <1>2, <1>3, NextIs

(* Every step that fails a request or empties its body has a cause. *)
LEMMA NextCause ==
  TypeOK /\ TypeOK' /\ BodiesReal /\ SeenIsThere /\ FailureHasCause /\ [Next]_vars
    => FailureHasCause'
<1> SUFFICES ASSUME TypeOK, TypeOK', BodiesReal, SeenIsThere, FailureHasCause, [Next]_vars,
                    NEW o \in Requests,
                    \/ request'[o].at = "failed"
                    \/ request'[o].at = "served" /\ request'[o].body = NoBody
             PROVE  request'[o].trouble
  BY DEF FailureHasCause
<1>0. \/ request[o].at = "failed"
      \/ request[o].at = "served" /\ request[o].body = NoBody
      => request[o].trouble
  BY DEF FailureHasCause
<1>1. CASE (\E kind \in {"message", "redaction"} : Happens(kind)) \/ UNCHANGED vars
  <2>1. request' = request
    BY <1>1, HappensActs
  <2> QED
    BY <1>0, <2>1
<1>2. CASE Handles
  <2>1. CASE request'[o] = request[o]
    BY <1>0, <2>1
  <2>2. CASE Moved(o)
    <3>1. request[o].at = "get" /\ ~Hit(o) => request[o].trouble
      BY DEF SeenIsThere
    <3>2. ASSUME request'[o].at = "served", request'[o].body = NoBody
          PROVE  request[o].at = "get" /\ ~Hit(o) /\ request'[o].trouble = request[o].trouble
      <4>1. \/ Hit(o) /\ request'[o].body = entry[KeyOf(o)].body
            \/ request'[o].body = Fresh
            \/ request[o].at = "store" /\ request'[o].body = request[o].body
            \/ /\ request[o].at = "get" /\ ~Hit(o)
               /\ request'[o].trouble = request[o].trouble
        BY <2>2, <3>2 DEF Moved
      <4>2. ~(NoBody.version >= 1)
        BY DEF NoBody
      <4>3. KeyOf(o) \in Keys /\ (Hit(o) => entry[KeyOf(o)].body.version >= 1)
        BY PlaceType DEF BodiesReal, Hit
      <4>4. Fresh.version >= 1
        BY FreshType DEF BodiesReal
      <4>5. request[o].at = "store" => request[o].body \in InHand(Keys)
        BY <4>3, InHandIs DEF KeyOf
      <4>6. request[o].at = "store" => request[o].body.version >= 1
        BY <4>5 DEF BodiesReal
      <4> QED
        BY <3>2, <4>1, <4>2, <4>3, <4>4, <4>6
    <3> QED
      BY <2>2, <3>1, <3>2 DEF Moved
  <2> QED
    BY <1>2, <2>1, <2>2, RequestKept
<1>3. CASE Tick
  BY <1>0, <1>3, WaitActs
<1> QED
  BY <1>1, <1>2, <1>3, NextIs

(* A request of the room is answered 502, or with an empty body, only when Redis
   or the homeserver failed it or the entry it had seen expired under it:
   whatever requests, refreshing tasks, crashes and ticks come between its
   lookups, and for every set of keys and every time to live. *)
THEOREM FailuresHaveCauses == Spec => []FailureHasCause
<1> DEFINE IInv == TypeOK /\ BodiesReal /\ SeenIsThere /\ FailureHasCause
<1>1. Init => IInv
  BY InitType, InitReal, InitCause
<1>2. IInv /\ [Next]_vars => IInv'
  BY NextType, NextReal, NextSeen, NextCause
<1>3. IInv => FailureHasCause
  OBVIOUS
<1> QED
  BY <1>1, <1>2, <1>3, PTL DEF Spec

------------------------------------------------------------------------------
(* How old a response may be. *)

(* The time to live of a key does not change. *)
LEMMA TtlKept ==
  ASSUME TypeOK, NEW k \in Keys
  PROVE  /\ TtlOf(k) \in Nat \ {0} /\ Latency \in Nat
         /\ [Next]_vars => TtlOf(k)' = TtlOf(k)
<1>1. TtlOf(k) \in Nat \ {0} /\ Latency \in Nat
  BY TtlType, ProxyCacheAssumption DEF TypeOK, TimesToLive, TtlOf, MessagesTtl, Option
<1>2. [Next]_vars => section' = section
  BY NextIs, HandlesActs, HappensActs DEF Tick
<1>3. section' = section => TtlOf(k)' = TtlOf(k)
  BY DEF TtlOf, MessagesTtl, Option
<1> QED
  BY <1>1, <1>2, <1>3

(* An entry is as old as it has lived and was in hand. *)
BodiesYoung ==
  /\ \A k \in Keys : entry[k] # NoEntry => entry[k].body.age + entry[k].ttl <= TtlOf(k) + Latency
  /\ \A body \in InHand(Keys) : body.age <= Latency

(* Nothing is cached or served at first. *)
LEMMA InitYoung == Init => BodiesYoung /\ ServesYoung
<1> SUFFICES ASSUME Init PROVE BodiesYoung /\ ServesYoung
  OBVIOUS
<1>1. InHand(Keys) = {} /\ \A rd \in Requests : request[rd].at = "idle"
  BY InitHand DEF Init
<1> QED
  BY <1>1 DEF Init, BodiesYoung, ServesYoung

(* A tick adds to the age of an entry what it takes from its time to live, and
   nobody sits on a body longer than Latency. *)
LEMMA NextYoung == TypeOK /\ TypeOK' /\ BodiesYoung /\ [Next]_vars => BodiesYoung'
<1> SUFFICES ASSUME TypeOK, TypeOK', BodiesYoung, [Next]_vars PROVE BodiesYoung'
  OBVIOUS
<1> DEFINE EntryYoung(k) == entry'[k].body.age + entry'[k].ttl <= TtlOf(k) + Latency
<1>0. SUFFICES /\ \A k \in Keys : entry'[k] # NoEntry => EntryYoung(k)
               /\ \A body \in InHand(Keys)' : body.age <= Latency
  BY TtlKept DEF BodiesYoung
<1>1. CASE (\E kind \in {"message", "redaction"} : Happens(kind)) \/ UNCHANGED vars
  BY <1>1, HappensActs DEF BodiesYoung
<1>2. CASE Handles
  <2>1. \A body \in InHand(Keys)' : body.age <= Latency
    BY <1>2, HandsAct, FreshType, ProxyCacheAssumption DEF BodiesYoung
  <2>2. ASSUME NEW k \in Keys, entry'[k] # NoEntry PROVE EntryYoung(k)
    <3>1. CASE entry'[k] = entry[k]
      BY <2>2, <3>1 DEF BodiesYoung
    <3>2. CASE entry'[k] # entry[k]
      <4>1. entry'[k].body \in InHand(Keys) /\ entry'[k].ttl = TtlOf(k)
        BY <1>2, <3>2, HandlesEntry, HandOfAll
      <4>2. entry'[k].body.age \in Nat /\ entry'[k].body.age <= Latency
        BY <4>1, HandType DEF BodiesYoung, Body
      <4> QED
        BY <4>1, <4>2, TtlKept
    <3> QED
      BY <3>1, <3>2
  <2> QED
    BY <2>1, <2>2
<1>3. CASE Tick
  <2>1. \A body \in Body : Older(body).age \in Nat /\ Older(body).age <= body.age + 1
    BY DEF Older, Body
  <2>2. ASSUME NEW body \in InHand(Keys)' PROVE body.age <= Latency
    <3>1. PICK old \in InHand(Keys) : body = Older(old)
      BY <1>3, TickAges
    <3>2. old \in Body /\ old.age \in Nat /\ old.age < Latency
      BY <1>3, HandType DEF Tick, Body
    <3>3. Older(old).age \in Nat /\ Older(old).age <= old.age + 1
      BY <2>1, <3>2
    <3> QED
      BY <3>1, <3>2, <3>3, ProxyCacheAssumption
  <2>3. ASSUME NEW k \in Keys, entry'[k] # NoEntry PROVE EntryYoung(k)
    <3>1. /\ entry[k] # NoEntry /\ entry'[k].body = Older(entry[k].body)
          /\ entry'[k].ttl = entry[k].ttl - 1
      BY <1>3, <2>3, TickEntry
    <3>2. entry[k].body \in Body /\ entry[k].ttl \in Nat
      BY <3>1, EntryType
    <3>3. entry[k].body.age + entry[k].ttl <= TtlOf(k) + Latency
      BY <3>1 DEF BodiesYoung
    <3>4. entry[k].body.age \in Nat
      BY <3>2 DEF Body
    <3>5. /\ Older(entry[k].body).age \in Nat
          /\ Older(entry[k].body).age <= entry[k].body.age + 1
      BY <2>1, <3>2
    <3> QED
      BY <3>1, <3>2, <3>3, <3>4, <3>5, TtlKept
  <2> QED
    BY <2>2, <2>3
<1> QED
  BY <1>1, <1>2, <1>3, NextIs

(* What is served is in hand or in Redis, so it is as young as those. *)
LEMMA NextServes ==
  TypeOK /\ TypeOK' /\ BodiesYoung /\ ServesYoung /\ [Next]_vars => ServesYoung'
<1> SUFFICES ASSUME TypeOK, TypeOK', BodiesYoung, ServesYoung, [Next]_vars
             PROVE  ServesYoung'
  OBVIOUS
<1>a. section' = section
  BY NextIs, HandlesActs, HappensActs DEF Tick
<1> SUFFICES ASSUME NEW o \in Requests, request'[o].at = "served"
             PROVE  /\ request'[o].key = request[o].key
                    /\ request'[o].body.age < TtlOf(request[o].key) + Latency
  BY <1>a DEF ServesYoung, KeyOf, TtlOf, MessagesTtl, Option
<1>0. /\ request[o].key \in Keys
      /\ request[o].at = "served" => request[o].body.age < TtlOf(request[o].key) + Latency
  BY PlaceType DEF ServesYoung, KeyOf
<1>2. CASE request'[o].key = request[o].key /\ request'[o].at = request[o].at
             /\ request'[o].body = request[o].body
  BY <1>0, <1>2
<1>3. CASE Handles /\ Moved(o)
  <2> DEFINE k == KeyOf(o)
  <2>1. k \in Keys /\ k = request[o].key /\ request'[o].key = k
    BY <1>3, PlaceType DEF KeyOf, Moved
  <2>2. TtlOf(k) \in Nat \ {0} /\ Latency \in Nat
    BY <2>1, TtlKept
  <2>3. CASE Hit(o) /\ request'[o].body = entry[k].body
    <3>1. entry[k] # NoEntry /\ entry[k].body.age + entry[k].ttl <= TtlOf(k) + Latency
      BY <2>1, <2>3 DEF BodiesYoung, Hit
    <3>2. entry[k].body.age \in Nat /\ entry[k].ttl \in Nat \ {0}
      BY <2>1, <3>1, EntryType DEF Body
    <3> QED
      BY <2>1, <2>2, <2>3, <3>1, <3>2
  <2>4. CASE request'[o].body \in {Fresh, NoBody}
    <3>1. request'[o].body.age = 0
      BY <2>4, FreshType DEF NoBody
    <3> QED
      BY <2>1, <2>2, <3>1
  <2>5. CASE request[o].at = "store" /\ request'[o].body = request[o].body
    <3>1. request[o].body \in InHand(Keys)
      BY <2>1, <2>5, InHandIs
    <3>2. request[o].body.age \in Nat /\ request[o].body.age <= Latency
      BY <3>1, HandType DEF BodiesYoung, Body
    <3> QED
      BY <2>1, <2>2, <2>5, <3>2
  <2> QED
    BY <1>3, <2>3, <2>4, <2>5 DEF Moved
<1>4. CASE Handles
  BY <1>2, <1>3, <1>4, RequestKept
<1>5. CASE (\E kind \in {"message", "redaction"} : Happens(kind)) \/ UNCHANGED vars
  BY <1>2, <1>5, HappensActs
<1>6. CASE Tick
  BY <1>2, <1>6, WaitActs
<1> QED
  BY <1>4, <1>5, <1>6, NextIs

(* Whatever writes overlap, tasks are lost and requests are abandoned: what is
   served was the homeserver's answer less than the key's time to live and one
   write ago, for every time to live the configuration sets. *)
THEOREM WhatIsServedIsYoung == Spec => []ServesYoung
<1> DEFINE IInv == TypeOK /\ BodiesYoung /\ ServesYoung
<1>1. Init => IInv
  BY InitType, InitYoung
<1>2. IInv /\ [Next]_vars => IInv'
  BY NextType, NextYoung, NextServes
<1>3. IInv => ServesYoung
  OBVIOUS
<1> QED
  BY <1>1, <1>2, <1>3, PTL DEF Spec

------------------------------------------------------------------------------
(* Redactions reach the page. *)

(* A redaction that has not reached the page is on its way, and nothing older
   can be written over it. *)
RedactionOnItsWay ==
  \/ \E e \in undelivered : e.kind = "redaction"
  \/ \E t \in tasks : t.kind = "redaction"

(* The page is not from before the last redaction. *)
PageIsNew == entry["messages"] = NoEntry \/ entry["messages"].body.version >= redacted

(* The strengthening: the redaction's task is on its way or the page is new, and everybody who
   could overwrite it has a newer one. *)
Redacting ==
  /\ ~excused => /\ RedactionOnItsWay \/ PageIsNew
                 /\ \A body \in InHand({"messages"}) : body.version >= redacted
  /\ \A t \in tasks : t.kind = "redaction" => t.at # "check"
  /\ redacted <= version

(* There was no redaction at first. *)
LEMMA InitRedacting == "messages" \in Keys /\ Init => Redacting
<1> SUFFICES ASSUME "messages" \in Keys, Init PROVE Redacting
  OBVIOUS
<1>1. InHand({"messages"}) = {} /\ tasks = {} /\ redacted = 0 /\ version = 1
  BY InitHand DEF Init
<1>2. entry["messages"] = NoEntry
  BY DEF Init
<1> QED
  BY <1>1, <1>2 DEF Redacting, PageIsNew

(* What is written to the page is as new as what is in hand, which is as new as
   the last redaction. *)
LEMMA HandlesPage ==
  ASSUME TypeOK, TypeOK', "messages" \in Keys, Handles, redacted' = redacted,
         \A body \in InHand({"messages"}) : body.version >= redacted
  PROVE  /\ \A body \in InHand({"messages"})' : body.version >= redacted'
         /\ PageIsNew \/ entry'["messages"] # entry["messages"] => PageIsNew'
<1>1. Fresh.version >= redacted
  BY FreshType DEF TypeOK
<1>2. \A body \in InHand({"messages"})' : body.version >= redacted'
  <2>1. InHand({"messages"})' \subseteq InHand({"messages"}) \cup {Fresh}
    BY HandsAct
  <2> QED
    BY <1>1, <2>1
<1>3. ASSUME entry'["messages"] # entry["messages"] PROVE PageIsNew'
  <2>1. entry'["messages"].body \in InHand({"messages"})
    BY <1>3, HandlesEntry
  <2> QED
    BY <2>1 DEF PageIsNew
<1>4. ASSUME entry'["messages"] = entry["messages"], PageIsNew PROVE PageIsNew'
  BY <1>4 DEF PageIsNew
<1> QED
  BY <1>2, <1>3, <1>4

(* The task of a redaction goes on, fails, or writes the page. *)
LEMMA RedactionTaskActs ==
  ASSUME TypeOK, "messages" \in Keys, NEW t \in tasks, TaskStep(t), t.kind = "redaction",
         t.at # "check", ~excused'
  PROVE  \/ \E u \in tasks' : u.kind = "redaction"
         \/ entry'["messages"] # entry["messages"]
<1>1. CASE TaskFetch(t)
  <2>1. CASE t.at = "fetch" /\ EndTask(t) /\ excused' = (excused \/ t.kind = "redaction")
    BY <2>1, Zenon
  <2>2. CASE Proceed(t, "store", Fresh)
    <3> DEFINE new == [kind |-> t.kind, at |-> "store", body |-> Fresh, id |-> t.id]
    <3>1. new \in tasks' /\ new.kind = "redaction"
      BY <2>2 DEF Proceed
    <3> QED
      BY <3>1
  <2> QED
    BY <1>1, <2>1, <2>2 DEF TaskFetch
<1>2. CASE TaskStore(t)
  <2>1. ~(t.kind = "redaction" /\ entry' = entry)
    <3>1. excused' = (excused \/ (t.kind = "redaction" /\ entry' = entry))
      BY <1>2 DEF TaskStore
    <3> QED
      BY <3>1, Zenon
  <2>2. entry' = [entry EXCEPT !["messages"] = [body |-> t.body, ttl |-> TtlOf("messages")]]
    BY <1>2, <2>1 DEF TaskStore, Write, KeyOfTask
  <2>3. entry' # entry
    BY <2>1
  <2> QED
    BY <2>2, <2>3 DEF TypeOK
<1> QED
  BY <1>1, <1>2 DEF TaskStep, TaskCheck

(* A failure is not forgotten before the next redaction. *)
LEMMA ExcusedStays ==
  ASSUME TypeOK, Handles \/ Tick, ~excused'
  PROVE  ~excused /\ redacted' = redacted
<1>1. ASSUME NEW t \in tasks, TaskStep(t) PROVE excused => excused'
  <2>1. \/ excused' = excused
        \/ excused' = (excused \/ t.kind = "redaction")
        \/ excused' = (excused \/ (t.kind = "redaction" /\ entry' = entry))
    BY <1>1 DEF TaskStep, TaskFetch, TaskCheck, TaskStore
  <2> QED
    BY <2>1, Zenon
<1>2. redacted' = redacted
  BY RequestActs, TaskActs DEF Handles, Recache, Crash, Tick
<1>3. CASE excused' = excused
  BY <1>2, <1>3
<1>4. CASE \E t \in tasks : TaskStep(t)
  BY <1>1, <1>2, <1>4
<1>5. excused' = excused \/ \E t \in tasks : TaskStep(t)
  BY RequestActs DEF Handles, Recache, Crash, Tick
<1> QED
  BY <1>3, <1>4, <1>5

(* Every step keeps the redaction on its way or the page new. *)
LEMMA NextRedacting ==
  "messages" \in Keys /\ TypeOK /\ TypeOK' /\ Redacting /\ [Next]_vars => Redacting'
<1> SUFFICES ASSUME "messages" \in Keys, TypeOK, TypeOK', Redacting, [Next]_vars
             PROVE  Redacting'
  OBVIOUS
<1>0. /\ redacted <= version
      /\ \A t \in tasks : t.kind = "redaction" => t.at # "check"
  BY DEF Redacting
<1>1. redacted' <= version'
  BY DEF TypeOK
<1>2. \A t \in tasks' : t.kind = "redaction" => t.at # "check"
  <2>1. ASSUME NEW rd \in Requests, RequestStep(rd) \/ Abandon(rd) \/ \E k \in Keys : Ask(rd, k),
               NEW t \in tasks', t.kind = "redaction"
        PROVE  t.at # "check"
    BY <1>0, <2>1, RequestActs DEF NewSearch
  <2>2. ASSUME NEW u \in tasks, TaskStep(u), NEW t \in tasks', t.kind = "redaction"
        PROVE  t.at # "check"
    BY <1>0, <2>2, TaskActs
  <2>3. ASSUME NEW e \in undelivered, Recache(e), NEW t \in tasks', t.kind = "redaction"
        PROVE  t.at # "check"
    BY <1>0, <2>3 DEF Recache
  <2>4. CASE Tick
    <3>1. ASSUME NEW t \in tasks', t.kind = "redaction" PROVE t.at # "check"
      <4>1. PICK u \in tasks : t = WaitingTask(u)
        BY <2>4 DEF Tick
      <4> QED
        BY <1>0, <3>1, <4>1 DEF WaitingTask
    <3> QED
      BY <3>1
  <2>5. CASE Crash
    BY <2>5 DEF Crash
  <2>6. CASE (\E kind \in {"message", "redaction"} : Happens(kind)) \/ UNCHANGED vars
    BY <1>0, <2>6, HappensActs
  <2> QED
    BY <2>1, <2>2, <2>3, <2>4, <2>5, <2>6, NextIs DEF Handles
<1>3. ASSUME ~excused'
      PROVE  /\ RedactionOnItsWay' \/ PageIsNew'
             /\ \A body \in InHand({"messages"})' : body.version >= redacted'
  <2>1. CASE Happens("redaction")
    <3>1. InHand({"messages"}) = {}
      BY <1>3, <2>1, Zenon DEF Happens
    <3>2. InHand({"messages"})' = {}
      BY <2>1, <3>1, HappensActs
    <3>3. \E e \in undelivered' : e.kind = "redaction"
      <4> DEFINE new == [kind |-> "redaction", version |-> version + 1]
      <4>1. new \in undelivered' /\ new.kind = "redaction"
        BY <2>1 DEF Happens
      <4> QED
        BY <4>1
    <3> QED
      BY <3>2, <3>3 DEF RedactionOnItsWay
  <2>2. CASE Happens("message") \/ UNCHANGED vars
    <3>1. /\ excused' = excused /\ redacted' = redacted /\ undelivered \subseteq undelivered'
          /\ tasks' = tasks /\ entry' = entry
      BY <2>2 DEF Happens, vars
    <3>2. InHand({"messages"})' = InHand({"messages"})
      BY <2>2, HappensActs
    <3>3. /\ RedactionOnItsWay \/ PageIsNew
          /\ \A body \in InHand({"messages"}) : body.version >= redacted
      BY <1>3, <3>1 DEF Redacting
    <3>4. RedactionOnItsWay => RedactionOnItsWay'
      BY <3>1 DEF RedactionOnItsWay
    <3>5. PageIsNew => PageIsNew'
      BY <3>1 DEF PageIsNew
    <3> QED
      BY <3>1, <3>2, <3>3, <3>4, <3>5
  <2>3. ASSUME Handles \/ Tick
        PROVE  /\ ~excused /\ redacted' = redacted
               /\ RedactionOnItsWay \/ PageIsNew
               /\ \A body \in InHand({"messages"}) : body.version >= redacted
    BY <1>3, <2>3, ExcusedStays DEF Redacting
  <2>4. CASE Handles
    <3>1. /\ \A body \in InHand({"messages"})' : body.version >= redacted'
          /\ PageIsNew \/ entry'["messages"] # entry["messages"] => PageIsNew'
      BY <2>3, <2>4, HandlesPage
    <3>2. ASSUME RedactionOnItsWay
          PROVE  RedactionOnItsWay' \/ entry'["messages"] # entry["messages"]
      <4>1. ASSUME NEW rd \in Requests,
                   RequestStep(rd) \/ Abandon(rd) \/ \E k \in Keys : Ask(rd, k)
            PROVE  RedactionOnItsWay'
        <5>1. undelivered' = undelivered /\ tasks \subseteq tasks'
          BY <4>1, RequestActs
        <5> QED
          BY <3>2, <5>1 DEF RedactionOnItsWay
      <4>2. ASSUME NEW t \in tasks, TaskStep(t)
            PROVE  RedactionOnItsWay' \/ entry'["messages"] # entry["messages"]
        <5>1. undelivered' = undelivered /\ tasks \ {t} \subseteq tasks'
          BY <4>2, TaskActs
        <5>2. CASE t.kind = "redaction"
          BY <1>0, <1>3, <4>2, <5>2, RedactionTaskActs DEF RedactionOnItsWay
        <5>3. CASE t.kind # "redaction"
          BY <3>2, <5>1, <5>3 DEF RedactionOnItsWay
        <5> QED
          BY <5>2, <5>3
      <4>3. ASSUME NEW e \in undelivered, Recache(e) PROVE RedactionOnItsWay'
        <5> DEFINE new == [kind |-> e.kind, at |-> "fetch", body |-> NoBody, id |-> spawned']
        <5>1. /\ undelivered' \in {undelivered, undelivered \ {e}}
              /\ tasks' = tasks \cup {new} /\ new.kind = e.kind
          BY <4>3 DEF Recache
        <5> HIDE DEF new
        <5> QED
          BY <3>2, <5>1 DEF RedactionOnItsWay
      <4>4. ~Crash
        BY <1>3 DEF Crash
      <4> QED
        BY <2>4, <4>1, <4>2, <4>3, <4>4 DEF Handles
    <3> QED
      BY <2>3, <2>4, <3>1, <3>2
  <2>5. CASE Tick
    <3>1. \A body : Older(body).version = body.version
      BY DEF Older
    <3>2. \A body \in InHand({"messages"})' : body.version >= redacted'
      <4>1. ASSUME NEW body \in InHand({"messages"})'
            PROVE  \E old \in InHand({"messages"}) : body = Older(old)
        BY <2>5, <4>1, TickAges
      <4> QED
        BY <2>3, <2>5, <3>1, <4>1
    <3>3. ASSUME RedactionOnItsWay PROVE RedactionOnItsWay'
      <4>1. \A t : WaitingTask(t).kind = t.kind
        BY DEF WaitingTask
      <4>2. undelivered' = undelivered /\ tasks' = {WaitingTask(t) : t \in tasks}
        BY <2>5 DEF Tick
      <4> QED
        BY <3>3, <4>1, <4>2 DEF RedactionOnItsWay
    <3>4. ASSUME PageIsNew PROVE PageIsNew'
      <4>1. CASE entry'["messages"] = NoEntry
        BY <4>1 DEF PageIsNew
      <4>2. CASE entry'["messages"] # NoEntry
        <5>1. /\ entry["messages"] # NoEntry
              /\ entry'["messages"].body = Older(entry["messages"].body)
          BY <2>5, <4>2, TickEntry
        <5> QED
          BY <2>3, <2>5, <3>1, <3>4, <5>1 DEF PageIsNew
      <4> QED
        BY <4>1, <4>2
    <3> QED
      BY <2>3, <2>5, <3>2, <3>3, <3>4
  <2> QED
    BY <2>1, <2>2, <2>4, <2>5, NextIs
<1> QED
  BY <1>1, <1>2, <1>3 DEF Redacting

(* A redaction reaches the page of messages: whatever tasks and requests do, once
   its task has run, without a failure or a crash since and with no older
   response in hand when it happened, the page is gone or as new as the redaction. *)
THEOREM RedactionsReachTheCache == "messages" \in Keys => (Spec => []RedactionReachesCache)
<1> SUFFICES ASSUME "messages" \in Keys PROVE Spec => []RedactionReachesCache
  OBVIOUS
<1> DEFINE IInv == TypeOK /\ Redacting
<1>1. Init => IInv
  BY InitType, InitRedacting
<1>2. IInv /\ [Next]_vars => IInv'
  BY NextType, NextRedacting
<1>3. IInv => RedactionReachesCache
  BY DEF Redacting, RedactionReachesCache, Quiet, RedactionOnItsWay, PageIsNew
<1> QED
  BY <1>1, <1>2, <1>3, PTL DEF Spec

------------------------------------------------------------------------------
(* What a message leaves as it is. *)

(* No two tasks an event spawned are the same. *)
TasksApart ==
  /\ \A t \in tasks : t.id <= spawned
  /\ \A t, u \in {t \in tasks : t.kind # "search"} : t.id = u.id => t = u
  /\ \A t \in tasks : t.kind = "search" => t.at = "store"

(* There are no tasks at first. *)
LEMMA InitApart == Init => TasksApart
  BY DEF Init, TasksApart

(* A step of a task ends it or puts one task in its place. *)
LEMMA TaskReplaces ==
  ASSUME NEW t \in tasks, TaskStep(t)
  PROVE  \/ tasks' = tasks \ {t}
         \/ /\ t.at # "store"
            /\ \E new : /\ tasks' = (tasks \ {t}) \cup {new}
                        /\ new.kind = t.kind /\ new.id = t.id
<1>1. ASSUME NEW place, NEW body, Proceed(t, place, body)
      PROVE  \E new : /\ tasks' = (tasks \ {t}) \cup {new}
                      /\ new.kind = t.kind /\ new.id = t.id
  <2> DEFINE new == [kind |-> t.kind, at |-> place, body |-> body, id |-> t.id]
  <2>1. tasks' = (tasks \ {t}) \cup {new} /\ new.kind = t.kind /\ new.id = t.id
    BY <1>1 DEF Proceed
  <2> QED
    BY <2>1
<1> QED
  BY <1>1 DEF TaskStep, TaskFetch, TaskCheck, TaskStore, EndTask

(* A task keeps its number, and a new one gets a new number. *)
LEMMA NextApart == TypeOK /\ TypeOK' /\ TasksApart /\ [Next]_vars => TasksApart'
<1> SUFFICES ASSUME TypeOK, TypeOK', TasksApart, [Next]_vars PROVE TasksApart'
  OBVIOUS
<1> USE DEF TasksApart
<1>0. spawned \in Nat /\ \A t \in tasks : t.id \in Nat
  BY DEF TypeOK, Task
<1>1. CASE (\E kind \in {"message", "redaction"} : Happens(kind)) \/ UNCHANGED vars
  BY <1>1, HappensActs
<1>2. ASSUME NEW rd \in Requests, RequestStep(rd) \/ Abandon(rd) \/ \E k \in Keys : Ask(rd, k)
      PROVE  TasksApart'
  <2>1. tasks' \in {tasks, tasks \cup {NewSearch}} /\ spawned' = spawned
    BY <1>2, RequestActs
  <2>2. NewSearch.kind = "search" /\ NewSearch.id = 0 /\ NewSearch.at = "store"
    BY DEF NewSearch
  <2> QED
    BY <1>0, <2>1, <2>2
<1>3. ASSUME NEW t \in tasks, TaskStep(t) PROVE TasksApart'
  <2>1. spawned' = spawned
    BY <1>3, TaskActs
  <2>2. CASE tasks' = tasks \ {t}
    BY <2>1, <2>2
  <2>3. ASSUME t.at # "store", NEW new, tasks' = (tasks \ {t}) \cup {new},
               new.kind = t.kind, new.id = t.id
        PROVE  TasksApart'
    BY <2>1, <2>3
  <2> QED
    BY <1>3, <2>2, <2>3, TaskReplaces
<1>4. ASSUME NEW e \in undelivered, Recache(e) PROVE TasksApart'
  <2> DEFINE new == [kind |-> e.kind, at |-> "fetch", body |-> NoBody, id |-> spawned']
  <2>1. /\ tasks' = tasks \cup {new} /\ spawned' = spawned + 1
        /\ new.kind = e.kind /\ new.id = spawned + 1
    BY <1>4 DEF Recache
  <2>2. e.kind # "search"
    BY DEF TypeOK, Happening
  <2> HIDE DEF new
  <2> QED
    BY <1>0, <2>1, <2>2
<1>5. CASE Crash
  BY <1>0, <1>5 DEF Crash
<1>6. CASE Tick
  <2>1. \A t : /\ WaitingTask(t).kind = t.kind /\ WaitingTask(t).at = t.at
               /\ WaitingTask(t).id = t.id
    BY DEF WaitingTask
  <2>2. tasks' = {WaitingTask(t) : t \in tasks} /\ spawned' = spawned
    BY <1>6 DEF Tick
  <2> QED
    BY <2>1, <2>2
<1> QED
  BY <1>1, <1>2, <1>3, <1>4, <1>5, <1>6, NextIs DEF Handles

(* A message that does not write the page has found one that is young enough. *)
LEMMA CheckLeaves ==
  ASSUME TypeOK, TasksApart, "messages" \in Keys, ~Lossy, NEW t \in tasks, TaskStep(t),
         t.at = "check", tasks' = tasks \ {t}
  PROVE  /\ entry["messages"] # NoEntry
         /\ MessagesTtl - entry["messages"].ttl <= RefreshTtl
<1>1. TaskCheck(t)
  BY DEF TaskStep, TaskFetch, TaskStore
<1>2. ~Proceed(t, "store", t.body)
  <2> SUFFICES ASSUME Proceed(t, "store", t.body) PROVE FALSE
    OBVIOUS
  <2> DEFINE new == [kind |-> t.kind, at |-> "store", body |-> t.body, id |-> t.id]
  <2>1. new \in tasks' /\ new.kind = t.kind /\ new.id = t.id /\ new.at = "store"
    BY DEF Proceed
  <2> HIDE DEF new
  <2> QED
    BY <2>1 DEF TasksApart
<1>3. ~Due
  BY <1>1, <1>2 DEF TaskCheck
<1>4. entry["messages"] # NoEntry
  BY <1>3 DEF Due, Remaining
<1>5. ~(entry["messages"].ttl < Threshold)
  BY <1>3, <1>4 DEF Due, Remaining
<1>6. MessagesTtl \in Nat /\ RefreshTtl \in Nat /\ entry["messages"].ttl \in Nat
      /\ entry["messages"].ttl >= 1
  BY <1>4, EntryType, TtlType, ProxyCacheAssumption DEF TypeOK, TimesToLive
<1>7. CASE RefreshTtl <= MessagesTtl
  BY <1>4, <1>5, <1>6, <1>7, ThresholdIsDifference
<1>8. CASE RefreshTtl > MessagesTtl
  BY <1>4, <1>6, <1>8
<1> QED
  BY <1>6, <1>7, <1>8

(* Where nothing fails, a message leaves the page as it is only when that was
   written no more than refresh_ttl before, for every ttl and refresh_ttl a
   configuration can set, those whose difference wraps included. *)
THEOREM MessagesLeaveYoungPages == "messages" \in Keys => (Spec => LeavesYoungPages)
<1> SUFFICES ASSUME "messages" \in Keys PROVE Spec => LeavesYoungPages
  OBVIOUS
<1> DEFINE Leaves ==
      \A t \in tasks :
        ~Lossy /\ TaskStep(t) /\ t.at = "check" /\ tasks' = tasks \ {t}
          => /\ entry["messages"] # NoEntry
             /\ MessagesTtl - entry["messages"].ttl <= RefreshTtl
<1> DEFINE IInv == TypeOK /\ TasksApart
<1>1. Init => IInv
  BY InitType, InitApart
<1>2. IInv /\ [Next]_vars => IInv'
  BY NextType, NextApart
<1>3. IInv => Leaves
  BY CheckLeaves
<1>4. Spec => [][Leaves]_vars
  <2> HIDE DEF Leaves
  <2> QED
    BY <1>1, <1>2, <1>3, PTL DEF Spec
<1> QED
  BY <1>4 DEF LeavesYoungPages
==============================================================================
