------------------------------ MODULE ProxyCache ------------------------------
(***************************************************************************)
(* The read side behind the gate: requests about a room proxied to the     *)
(* homeserver through Redis (src/requests.rs, src/cache.rs), and the tasks *)
(* the event side spawns to write the page of messages anew when a message *)
(* or a redaction arrives (refresh_messages_cache, src/api.rs).            *)
(*                                                                         *)
(* A key stands for one URL; "messages" is the one refresh_messages_cache  *)
(* writes, /messages?limit=100&dir=b of one room.  A response is told      *)
(* apart by the version of the room it shows.  Its status is not looked at *)
(* on the cached path: an error response is a body like any other.         *)
(***************************************************************************)
EXTENDS Integers

CONSTANTS
  Keys,            \* the URLs, named by the type of request they are
  Enabled,         \* the cache.<name>.enabled that are true
  Ttl,             \* cache.<name>.ttl of the keys but "messages", in clock ticks
  Sections,        \* the sections [cache.messages] of this instance
  Absent,          \* an option a section does not set
  DefaultTtl,      \* default_cache_ttl
  Half,            \* 2^63, half the values of a u64: an i64 is smaller
  OverflowChecks,  \* the build panics on overflow (debug) or wraps (release)
  Requests,        \* the requests under way at a time
  Lossy,           \* Redis and the homeserver may fail
  Latency,         \* bound: ticks from the homeserver's answer to its being written
  MaxAge,          \* bound: ages are not told apart from here on (ServesYoung
                   \* wants all Ttl + Latency of them, the other properties Latency)
  MaxVersion,      \* bound: events of the room
  MaxTasks         \* bound: tasks spawned

KeyTypes == {"messages", "state", "media", "other", "search"}

TimesToLive == 1 .. (Half - 1)      \* Redis takes no 0 and nothing beyond an i64

ASSUME ProxyCacheAssumption ==
  /\ Keys \subseteq KeyTypes
  /\ Enabled \subseteq {"requests", "room_state", "messages", "search"}
  /\ Half \in Nat \ {0}
  /\ Ttl \in [Keys \ {"messages"} -> TimesToLive] /\ DefaultTtl \in TimesToLive
  /\ Sections \subseteq [ttl : {Absent} \cup TimesToLive,
                          refresh_ttl : {Absent} \cup 0 .. (2 * Half - 1)]
  /\ OverflowChecks \in BOOLEAN
  /\ Lossy \in BOOLEAN
  /\ Latency \in Nat
  /\ MaxAge \in Nat /\ Latency <= MaxAge
  /\ MaxVersion \in Nat
  /\ MaxTasks \in Nat

VARIABLES
  section,      \* the section [cache.messages]: one of Sections, for good
  version,      \* the room's version: the number of its last event
  undelivered,  \* events the event side has not handled yet
  entry,        \* Redis: [Keys -> Entry or NoEntry]
  request,      \* [Requests -> where it is, its key and body]
  tasks,        \* the spawned tasks that have not finished
  spawned,      \* tasks spawned (for the bound, and to tell them apart)
  redacted,     \* history: the version of the last redaction
  excused       \* history: a body older than it was in hand when it happened, or its task
                \* failed or died since

vars == <<section, version, undelivered, entry, request, tasks, spawned, redacted, excused>>

(* What is read of the section: an option it does not set has the value of
   default_cache_ttl, refresh_ttl too. *)
Option(value) == IF value = Absent THEN DefaultTtl ELSE value
MessagesTtl == Option(section.ttl)
RefreshTtl == Option(section.refresh_ttl)
TtlOf(k) == IF k = "messages" THEN MessagesTtl ELSE Ttl[k]

Body == [version : Nat, age : Nat]      \* age: ticks since the homeserver gave it
NoBody == [version |-> 0, age |-> 0]    \* nothing yet, or an empty response
Entry == [body : Body, ttl : Nat \ {0}]
NoEntry == [ttl |-> 0]
Happening == [kind : {"message", "redaction"}, version : Nat]
Places == {"idle", "lookup", "again", "get", "fetch", "direct", "store", "served", "failed"}
Request == [at : Places,
            key : Keys, body : Body, trouble : BOOLEAN]
Task == [kind : {"message", "redaction", "search"}, at : {"fetch", "check", "store"},
         body : Body, id : Nat]

TypeOK ==
  /\ section \in Sections
  /\ version \in Nat /\ spawned \in Nat /\ redacted \in 0 .. version
  /\ undelivered \subseteq Happening
  /\ entry \in [Keys -> Entry \cup {NoEntry}]
  /\ \A k \in Keys : entry[k].ttl <= TtlOf(k)
  /\ request \in [Requests -> Request]
  /\ tasks \subseteq Task
  /\ excused \in BOOLEAN

Init ==
  /\ section \in Sections
  /\ version = 1 /\ undelivered = {}
  /\ entry = [k \in Keys |-> NoEntry]
  /\ request \in [Requests -> [at : {"idle"}, key : Keys, body : {NoBody}, trouble : {FALSE}]]
  /\ tasks = {} /\ spawned = 0
  /\ redacted = 0 /\ excused = FALSE

(* GET of the homeserver. *)
Fresh == [version |-> version, age |-> 0]

(* Bodies the homeserver gave that are about to be written to a key of K. *)
KeyOfTask(t) == IF t.kind = "search" THEN "search" ELSE "messages"
InHand(K) ==
  {request[rd].body : rd \in {rd \in Requests : request[rd].at = "store" /\ request[rd].key \in K}}
    \cup {t.body : t \in {t \in tasks : t.at # "fetch" /\ KeyOfTask(t) \in K}}

(* Fault: every entry lives as long as a page of messages. *)
WriteOneTtl(k, body) ==
  \/ entry' = [entry EXCEPT ![k] = [body |-> body, ttl |-> MessagesTtl]]
  \/ Lossy /\ UNCHANGED entry

(* SET key body EX ttl. *)
Write(k, body) ==
  \/ entry' = [entry EXCEPT ![k] = [body |-> body, ttl |-> TtlOf(k)]]
  \/ Lossy /\ UNCHANGED entry

------------------------------------------------------------------------------
(* The room and the event side. *)

Happens(kind) ==
  /\ version < MaxVersion
  /\ version' = version + 1
  /\ undelivered' = undelivered \cup {[kind |-> kind, version |-> version + 1]}
  /\ IF kind = "redaction"
       THEN redacted' = version + 1 /\ excused' = (InHand({"messages"}) # {})
       ELSE UNCHANGED <<redacted, excused>>
  /\ UNCHANGED <<section, entry, request, tasks, spawned>>

(* The transactions handler spawns handle_recache; a transaction that is sent
   again spawns it again. *)
Recache(e) ==
  /\ spawned < MaxTasks
  /\ spawned' = spawned + 1
  /\ tasks' = tasks \cup {[kind |-> e.kind, at |-> "fetch", body |-> NoBody, id |-> spawned']}
  /\ undelivered' \in {undelivered, undelivered \ {e}}
  /\ UNCHANGED <<section, version, entry, request, redacted, excused>>

------------------------------------------------------------------------------
(* matrix_proxy and matrix_proxy_search. *)

KeyOf(rd) == request[rd].key

Become(rd, place, body, trouble) ==
  request' = [request EXCEPT ![rd] =
    [at |-> place, key |-> KeyOf(rd), body |-> body, trouble |-> trouble]]

Update(rd, place, body) == Become(rd, place, body, request[rd].trouble)
GoTo(rd, place) == Update(rd, place, request[rd].body)
Fail(rd, place) == Become(rd, place, request[rd].body, TRUE)
End(rd) == Become(rd, "idle", NoBody, FALSE)

IsSearch(rd) == KeyOf(rd) = "search"
Hit(rd) == entry[KeyOf(rd)] # NoEntry

SkipCache(k) ==
  \/ k = "media"
  \/ k = "search" /\ "search" \notin Enabled
  \/ k # "search" /\ "requests" \notin Enabled
  \/ k = "state" /\ "room_state" \notin Enabled
  \/ k = "messages" /\ "messages" \notin Enabled

Ask(rd, k) ==
  /\ request[rd].at = "idle"
  /\ request' = [request EXCEPT ![rd] =
       [at |-> IF SkipCache(k) THEN "direct" ELSE "lookup",
        key |-> k, body |-> NoBody, trouble |-> FALSE]]
  /\ UNCHANGED <<section, version, undelivered, entry, tasks, spawned, redacted, excused>>

(* Fault: an entry that is used is renewed. *)
LookupRenews(rd) ==
  /\ request[rd].at = "lookup" /\ ~IsSearch(rd)
  /\ \/ /\ Hit(rd) /\ Update(rd, "served", entry[KeyOf(rd)].body)
        /\ Write(KeyOf(rd), entry[KeyOf(rd)].body)
     \/ ~Hit(rd) /\ GoTo(rd, "again") /\ UNCHANGED entry
  /\ UNCHANGED <<section, version, undelivered, tasks, spawned, redacted, excused>>

(* matrix_proxy looks the key up first: anything but a body is a miss. *)
Lookup(rd) ==
  /\ request[rd].at = "lookup" /\ ~IsSearch(rd)
  /\ \/ Hit(rd) /\ Update(rd, "served", entry[KeyOf(rd)].body)
     \/ ~Hit(rd) /\ GoTo(rd, "again")
     \/ Lossy /\ Fail(rd, "again")
  /\ UNCHANGED <<section, version, undelivered, entry, tasks, spawned, redacted, excused>>

(* Fault: a missing key is an error, as in get_cached_rooms. *)
LookAgainFails(rd) ==
  /\ request[rd].at = "again"
  /\ IF Hit(rd) THEN GoTo(rd, "get") ELSE GoTo(rd, "failed")
  /\ UNCHANGED <<section, version, undelivered, entry, tasks, spawned, redacted, excused>>

(* The EXISTS of the lookup in cache_or_fetch, whose errors end the request. *)
LookAgain(rd) ==
  /\ request[rd].at = "again"
  /\ \/ GoTo(rd, IF Hit(rd) THEN "get" ELSE "fetch")
     \/ Lossy /\ Fail(rd, "failed")
  /\ UNCHANGED <<section, version, undelivered, entry, tasks, spawned, redacted, excused>>

(* The GET after it.  A key that is gone by now reads as nil, which is no
   String: an error. *)
Get(rd) ==
  /\ request[rd].at = "get" /\ ~IsSearch(rd)
  /\ \/ Hit(rd) /\ Update(rd, "served", entry[KeyOf(rd)].body)
     \/ ~Hit(rd) /\ GoTo(rd, "failed")
     \/ Lossy /\ Fail(rd, "failed")
  /\ UNCHANGED <<section, version, undelivered, entry, tasks, spawned, redacted, excused>>

(* The request to the homeserver, given 25 seconds. *)
Fetch(rd) ==
  /\ request[rd].at = "fetch" /\ ~IsSearch(rd)
  /\ Update(rd, "store", Fresh) \/ (Lossy /\ Fail(rd, "failed"))
  /\ UNCHANGED <<section, version, undelivered, entry, tasks, spawned, redacted, excused>>

(* matrix_proxy_search looks once; its errors are misses. *)
SearchLookup(rd) ==
  /\ request[rd].at = "lookup" /\ IsSearch(rd)
  /\ GoTo(rd, IF Hit(rd) THEN "get" ELSE "fetch") \/ (Lossy /\ Fail(rd, "fetch"))
  /\ UNCHANGED <<section, version, undelivered, entry, tasks, spawned, redacted, excused>>

(* It reads bytes, and nil reads as no bytes: an empty response. *)
SearchGet(rd) ==
  /\ request[rd].at = "get" /\ IsSearch(rd)
  /\ \/ Update(rd, "served", IF Hit(rd) THEN entry[KeyOf(rd)].body ELSE NoBody)
     \/ Lossy /\ Fail(rd, "fetch")
  /\ UNCHANGED <<section, version, undelivered, entry, tasks, spawned, redacted, excused>>

(* It answers at once and leaves the writing to a task. *)
SearchFetch(rd) ==
  /\ request[rd].at = "fetch" /\ IsSearch(rd)
  /\ \/ /\ Update(rd, "served", Fresh)
        /\ tasks' = tasks \cup {[kind |-> "search", at |-> "store", body |-> Fresh, id |-> 0]}
     \/ Lossy /\ Fail(rd, "failed") /\ UNCHANGED tasks
  /\ UNCHANGED <<section, version, undelivered, entry, spawned, redacted, excused>>

(* cache_or_fetch writes what it fetched and ignores how that went. *)
Store(rd) ==
  /\ request[rd].at = "store"
  /\ Write(KeyOf(rd), request[rd].body)
  /\ GoTo(rd, "served")
  /\ UNCHANGED <<section, version, undelivered, tasks, spawned, redacted, excused>>

(* proxy_request_no_cache, and search with its cache disabled. *)
Direct(rd) ==
  /\ request[rd].at = "direct"
  /\ Update(rd, "served", Fresh) \/ (Lossy /\ Fail(rd, "failed"))
  /\ UNCHANGED <<section, version, undelivered, entry, tasks, spawned, redacted, excused>>

Answer(rd) ==
  /\ request[rd].at \in {"served", "failed"}
  /\ End(rd)
  /\ UNCHANGED <<section, version, undelivered, entry, tasks, spawned, redacted, excused>>

(* The client goes away: its request is dropped at an await. *)
Abandon(rd) ==
  /\ request[rd].at \notin {"idle", "served", "failed"}
  /\ End(rd)
  /\ UNCHANGED <<section, version, undelivered, entry, tasks, spawned, redacted, excused>>

RequestStep(rd) ==
  \/ Lookup(rd) \/ LookAgain(rd) \/ Get(rd) \/ Fetch(rd) \/ Store(rd)
  \/ SearchLookup(rd) \/ SearchGet(rd) \/ SearchFetch(rd)
  \/ Direct(rd) \/ Answer(rd)

------------------------------------------------------------------------------
(* refresh_messages_cache, and the write a search spawns. *)

EndTask(t) == tasks' = tasks \ {t}
Proceed(t, place, body) ==
  tasks' = (tasks \ {t}) \cup {[kind |-> t.kind, at |-> place, body |-> body, id |-> t.id]}

(* messages.ttl - messages.refresh_ttl in u64, then "as i64". *)
Overflows == RefreshTtl > MessagesTtl
AsSigned(n) == IF n < Half THEN n ELSE n - 2 * Half

(* Fault: the threshold is refresh_ttl itself. *)
ThresholdIsRefresh == RefreshTtl

Threshold == AsSigned((MessagesTtl - RefreshTtl) % (2 * Half))

(* Fault: a redaction is treated as a message. *)
TaskFetchChecks(t) ==
  /\ t.at = "fetch"
  /\ IF "messages" \in Enabled THEN Proceed(t, "check", Fresh) ELSE EndTask(t)
  /\ UNCHANGED <<section, version, undelivered, entry, request, spawned, redacted, excused>>

TaskFetch(t) ==
  /\ t.at = "fetch"
  /\ \/ /\ "messages" \in Enabled
        /\ ~(Overflows /\ OverflowChecks)
        /\ Proceed(t, IF t.kind = "redaction" THEN "store" ELSE "check", Fresh)
        /\ UNCHANGED excused
     \/ /\ "messages" \notin Enabled \/ Lossy \/ (Overflows /\ OverflowChecks)
        /\ EndTask(t)
        /\ excused' = (excused \/ t.kind = "redaction")
  /\ UNCHANGED <<section, version, undelivered, entry, request, spawned, redacted>>

(* cache_with_ttl_threshold: a message writes the page only when there is none
   or it has little time left.  TTL of a missing key is -2. *)
Remaining == IF entry["messages"] = NoEntry THEN -2 ELSE entry["messages"].ttl
Due == Remaining = -2 \/ Remaining < Threshold

TaskCheck(t) ==
  /\ t.at = "check"
  /\ \/ Due /\ Proceed(t, "store", t.body)
     \/ (~Due \/ Lossy) /\ EndTask(t)
  /\ UNCHANGED <<section, version, undelivered, entry, request, spawned, redacted, excused>>

TaskStore(t) ==
  /\ t.at = "store"
  /\ Write(KeyOfTask(t), t.body)
  /\ EndTask(t)
  /\ excused' = (excused \/ (t.kind = "redaction" /\ entry' = entry))
  /\ UNCHANGED <<section, version, undelivered, request, spawned, redacted>>

TaskStep(t) == TaskFetch(t) \/ TaskCheck(t) \/ TaskStore(t)

------------------------------------------------------------------------------
(* The process dies: Redis keeps what it has, events not acknowledged come
   again, the tasks of those that were are lost. *)
Crash ==
  /\ request' = [rd \in Requests |-> [at |-> "idle", key |-> KeyOf(rd), body |-> NoBody,
                                      trouble |-> FALSE]]
  /\ tasks' = {}
  /\ excused' = TRUE
  /\ UNCHANGED <<section, version, undelivered, entry, spawned, redacted>>

(* Time passes.  Nobody sits on a body for more than Latency ticks. *)
Older(body) ==
  [version |-> body.version, age |-> IF body.age < MaxAge THEN body.age + 1 ELSE body.age]

(* A request that writes holds a body; the entry one is about to GET may be gone. *)
Expires(rd) == request[rd].at = "get" /\ entry[KeyOf(rd)].ttl = 1
WaitOn(rd) ==
  [at |-> request[rd].at, key |-> KeyOf(rd),
   body |-> IF request[rd].at = "store" THEN Older(request[rd].body) ELSE request[rd].body,
   trouble |-> request[rd].trouble \/ Expires(rd)]

WaitingTask(t) ==
  [kind |-> t.kind, at |-> t.at, id |-> t.id,
   body |-> IF t.at = "fetch" THEN t.body ELSE Older(t.body)]

Tick ==
  /\ \A body \in InHand(Keys) : body.age < Latency
  /\ entry' = [k \in Keys |-> IF entry[k].ttl <= 1 THEN NoEntry
                               ELSE [body |-> Older(entry[k].body), ttl |-> entry[k].ttl - 1]]
  /\ request' = [rd \in Requests |-> WaitOn(rd)]
  /\ tasks' = {WaitingTask(t) : t \in tasks}
  /\ UNCHANGED <<section, version, undelivered, spawned, redacted, excused>>

Next ==
  \/ \E kind \in {"message", "redaction"} : Happens(kind)
  \/ \E e \in undelivered : Recache(e)
  \/ \E rd \in Requests : (\E k \in Keys : Ask(rd, k)) \/ RequestStep(rd) \/ Abandon(rd)
  \/ \E t \in tasks : TaskStep(t)
  \/ Crash
  \/ Tick

Spec == Init /\ [][Next]_vars

(* Requests to the homeserver end within their 25 seconds; of Redis it is assumed
   that it answers or fails.  And time passes. *)
FairSpec ==
  /\ Spec
  /\ \A rd \in Requests : WF_vars(RequestStep(rd))
  /\ WF_vars(\E t \in tasks : TaskStep(t))
  /\ WF_vars(Tick)

------------------------------------------------------------------------------
(* A request is answered 502, or with an empty body, only when Redis or the
   homeserver failed it, or the entry it had seen expired under it. *)
FailureHasCause ==
  \A rd \in Requests :
    \/ request[rd].at = "failed"
    \/ request[rd].at = "served" /\ request[rd].body = NoBody
    => request[rd].trouble

(* What is served was the homeserver's answer less than the key's time to live
   and one write ago, whatever writes overlap. *)
ServesYoung ==
  \A rd \in Requests :
    request[rd].at = "served" => request[rd].body.age < TtlOf(KeyOf(rd)) + Latency

(* A redaction reaches the page of messages: once its task has run, with no
   older response in hand when it happened and no failure of it or crash since, the
   page is gone or as new as the redaction, whatever other tasks and requests did. *)
Quiet == undelivered = {} /\ tasks = {}

RedactionReachesCache ==
  Quiet /\ ~excused => entry["messages"] = NoEntry \/ entry["messages"].body.version >= redacted

(* A message leaves the page as it is only when that was written no more than
   refresh_ttl before, also where ttl - refresh_ttl wraps: then the page does not
   live that long. *)
LeavesYoungPages ==
  [][\A t \in tasks :
       ~Lossy /\ TaskStep(t) /\ t.at = "check" /\ tasks' = tasks \ {t}
         => /\ entry["messages"] # NoEntry
            /\ MessagesTtl - entry["messages"].ttl <= RefreshTtl]_vars

(* However writes overlap and tasks are lost, each key in the end shows each
   event of the room or nothing, and keeps doing so. *)
CatchesUp ==
  \A v \in 1 .. MaxVersion :
    version = v ~> [](\A k \in Keys : entry[k] = NoEntry \/ entry[k].body.version >= v)
==============================================================================
