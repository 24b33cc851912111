# TLA+ models of public-appservice

public-appservice is a Matrix application service. Its user joins public rooms,
and people without an account read those rooms through it. This directory holds
TLA+ modules that model its stateful core, the TLC configurations that check
them on small instances, and proofs for every instance of the properties that
matter most. `PROJECT.json` maps each definition to the lines it models.

    tlc -config MCRoomGate_requests.cfg MCRoomGate.tla      # one run
    tlapm RoomGateProofs.tla                                 # the proofs, with
    tlapm TransactionsProofs.tla                             # those it rests on
    tlapm ServiceProofs.tla                                  # the process around it
    tlapm RestProofs.tla                                     # what holds at rest
    tlapm ProxyCacheProofs.tla                               # the cached requests
    tlapm ListingsProofs.tla                                 # the lists
    tlapm RoomInfoProofs.tla                                 # GET .../info
    tlapm RoomInputsProofs.tla                               # texts, states, lists of rooms

## The system

| Component | Code | State | Operations | Model |
|---|---|---|---|---|
| Transactions handler | `api.rs` | none of its own; it awaits inside a loop over events | `PUT /_matrix/app/v1/transactions/{txn_id}`; spawned joins and refreshes | `Transactions` |
| AppService | `appservice.rs` | `joined_rooms` (a `Vec` behind a `Mutex`) | join, leave (children first), membership, alias, state, hierarchy; fan-out over rooms behind a semaphore of 10 | parts of `Transactions`, `RoomGate`, `Listings`, `RoomInfo`, `RoomState` |
| Room gate | `middleware.rs` | Redis keys `appservice:joined:<room>`, 300 s | `validate_room_id`, `validate_public_room` | `RoomGate` |
| Request proxy | `requests.rs` | Redis entries per URL | `matrix_proxy`, `matrix_proxy_search`, the uncached path | `ProxyCache` |
| Redis cache | `cache.rs` | Redis | look up, look up or fetch, write below a TTL threshold, delete | steps inside the other modules |
| Message refresh | `api.rs` | the page `/messages?limit=100&dir=b` of a room | `handle_recache`, `refresh_messages_cache` | `ProxyCache` |
| Listings | `rooms.rs`, `space.rs` | Redis entries per list | `/publicRooms`, `/spaces`, `/spaces/{space}`, `/spaces/{space}/rooms` | `Listings`; what they say of a room: `RoomState` |
| Room info | `rooms.rs` | none; up to seven awaits in a request | `/rooms/{room_id}/info` with a room's slug and an event | `RoomInfo` |
| Admin endpoints | `rooms.rs` | none | join and leave a room by id | `Transactions` |
| Ping | `ping.rs`, `server.rs` | one transaction id in an `RwLock` | ping at startup, its call back | `Service` |
| Server | `server.rs`, `lib.rs`, `main.rs` | none after startup | the order of the start; routing, CORS | the start: `Service` |
| Id and alias checks | `utils.rs`, `middleware.rs`, `space.rs`, `appservice.rs` | none | what a text in a path or in the configuration names | `RoomNames` |
| Configuration, errors, logging | `config.rs`, `error.rs`, `log.rs` | none after startup | defaults, error bodies, log files | options as constants; defaults of `[cache.messages]` in `ProxyCache` |

How they meet. The homeserver pushes events to the transactions handler, one
transaction at a time, again and again until it gets a 200. The handler calls
the homeserver back (join, leave, hierarchy), and these calls make new events.
It writes and deletes verdicts in Redis, and spawns tasks that outlive the
request. The room gate reads and writes the same verdicts and asks the
homeserver for the membership the event side is changing. Behind the gate the
proxy and the refreshing tasks write the same Redis entries. The listings ask
about many rooms at once while the user joins and leaves them.

What is hard: calls that make events that make calls; redelivery of a
transaction that was handled in full; tasks that run five seconds late or die
with the process after their event was acknowledged; a verdict recorded after it
was deleted; `EXISTS` then `GET`, `TTL` then `SETEX`; overlapping writers of one
entry; a `leave` of a space that stops half-way; a fan-out that drops rooms.
`PROJECT.json` lists each hazard at its line with the properties that cover it.

## The modules

**`Homeserver`** is what the code relies on: memberships, the numbered log of
events (`log`), and what join, leave and hierarchy do to them. Users invite,
kick, ban and raise room events (`MaxRaised` of them). An own leave that changes the
membership puts an event on the log; the event of an own join is left out, as the
handler has no arm for it. A hierarchy comes in pages (`Pages`) of which the code reads
the first; where it ends is for the homeserver to say. With `Lossy` any request may fail,
done or not. Federation, power levels and other users' memberships are left out.

**`Transactions`** is the event side. `pc` is the await the handler is suspended
in, `cursor` the event of the transaction it is at, `acked .. sent` the
transaction. One action is what the code does between two awaits; a request and
its answer are one step. Every branch of the loop of `transactions` is an action:

| Code | Action |
|---|---|
| the two `return`s of `auto_join` (`api.rs:48-87`) | `SpawnJoin` |
| messages and redactions (`api.rs:133-147`) | `SpawnRecache` |
| `commune.public.room` (`api.rs:89-131`) | `StartJoin`/`JoinPublic`/`RecordPublic`, `StartLeave`/`DeleteVerdict` |
| own membership (`api.rs:149-236`) | `StartJoin`/`JoinInvite`, `StartLeave`/`ForgetRoom`, `Banned`, `Skip` |
| `leave_room` (`appservice.rs:214-243`) | `GetHierarchy`, `LeaveChild`, `LeaveSelf`, for the handler and for the admin |
| `AppState::new` again | `Restart` |

`Disconnect` drops the handler at any await; a join that was under way may have
been carried out. The modules keep the history the properties need (`handled`,
`cuts`, `adminJoins`, `adminLeaves`) apart from the state (`histVars`).

**`Service`** extends `Transactions` by the process it runs in: `Start`,
`Authenticate`, `ReadRooms` and `Bind` are the awaits of `main` down to the
listener, `Exit` and `Crash` its ends at any of them or later, `PingStore`,
`PingSend` and `CallBack` the ping, the last also for the pings of earlier lives.
`Serve` lets the event side run only while somebody listens. `Restart` of
`Transactions` happens when a process dies and when the next reads its rooms.

**`InOrderDelivery`** is the abstract specification of the event side: events
are handled in order, at least once, and acknowledged only when all are handled.
Without `auto_join`, `Transactions` implements it (`InOrder`); with it, it does
not (see the findings).

**`RoomGate`** extends `Transactions` by readers that pass the gate. It composes
the two sides: every step of `Transactions!Work` is a step of it, and both sides
write `cached`. `gone` counts how long the user has been out of a room.

**`ProxyCache`** models one URL per type of request. A response is a version of
the room and an age. `matrix_proxy` looks a key up twice (`Lookup`, then
`LookAgain`, `Get`), `matrix_proxy_search` once (`SearchLookup`, `SearchGet`) and
writes in a task. `Threshold` computes `ttl - refresh_ttl` as an
unsigned number of two times `Half` values cast to signed, as the code does with a
`u64` (`Half` is 2^63); with `OverflowChecks` the task
panics instead. An option that `[cache.messages]` does not set has the value of
`default_cache_ttl`, `refresh_ttl` too (`Option`); the section is chosen by `Init`.
The status of a response is not looked at on the cached path, so
an error body is a body like any other. The event side is `Happens` and
`Recache`, which may repeat.

**`Listings`** models the four lists from cache to cache; the summary of one space
is a list of one. A request has its own
semaphore (`free`), rooms that wait for a permit (`waiting`), rooms that hold one
and the request about them that is under way (`running`), and rooms that made it
(`found`). `Steps` are the requests made about each room; a "no" or an error
drops the room, and gives its permit back. Of a hierarchy the code reads the first page
(`Pages`, of `PageSize` rooms when there are more), and what `process_rooms` drops for
the bridge's mark in its name (`Unlisted`) is in no list of public rooms. `gone` and
`here` count how long the user has been out of a room or in it, `calm` how long no
failure has been passed over. A list may take any time: `elapsed` counts it up to one
tick more than `Latency`, and of lists that took longer the two properties of ages
say nothing.

**`RoomInfo`** models `room_info`: each request to the homeserver is an action
(`Membership` and `State` of `get_room_summary`, once or twice, `Hierarchy`,
`Event`, `Profile`), and rooms are joined, left and renamed in between. The slug is
looked for on the first page of the hierarchy (`Pages`), the only one
`get_room_hierarchy` asks for. A reader's room is any room, since the gate's verdict may be stale.

**`RoomNames`** holds the functions on texts: `IsValidRoomId` and its parts,
`RoomAliasLike`, the three ways of completing an alias (`MiddlewareAlias`,
`SpaceAlias`, `EntryAlias`), `Slugify`. A text is a sequence of characters, one for
each class the code tells apart, and the limits on lengths are constants.

**`RoomState`** is the two loops over the state of a room, that of `process_rooms`
(`Read`, into `pub_room`) and that of `get_room_summary` (`Summarise`, into
`room_info`), side by side: a step, `ReadEvent`, is one round of both, and the
events come in any order. An event is told apart by type, state key, whether its
content parses and the value read from it. `Curate` is the curated order: how many
rooms are ahead of a room (`Ahead`) is its place, which is what a stable sort by
`Position` does.

**`RoomInputs`** extends it by a machine that grows a text, a name or a list of rooms
one element at a time, so that what is claimed of a function for every argument is an
invariant. It models no code but the loops of `RoomState`, which are a step of it too.

## The runs

Every run explores its whole state space. Rooms are a space, a room in it and
possibly one more: hierarchies are only ever one level deep in the code (the
homeserver flattens them), so two levels exercise every path.

| Run | Asks | Bounds |
|---|---|---|
| `MCTransactions_causes` | every join, verdict and leave goes back to somebody who asked for it; only `auto_join` loses events; the echoes of own leaves die out (`ComesToRest`, under `FairSpec`) | 2 rooms, one of them public, 2 events of the kinds that join or leave, 1 admin call, 1 break, pages of any size, `Lossy` |
| `MCTransactions_rest` | refinement of `InOrderDelivery`; at rest the list names only joined rooms and public: false was obeyed | no `auto_join`, 3 events, 1 break, pages of any size |
| `MCService_lives` | the ping of this life finds its id; the process ends up listening, at rest, and invites were obeyed (`ServiceComesToRest` under `FairServiceSpec`) | a space and a room, 3 events, 4 breaks shared by deaths, starts and lost answers, users who wait for the appservice (`Paced`) |
| `MCRoomGate_requests` | nothing passes for a room the user was neither in from the start nor asked into; a verdict outlives membership by at most its life and one recording; a room left for good is refused in the end | 1 room of a server whose invites are ignored, 2 events, 1 break, `VerdictTtl` 2, `Latency` 1, `Lossy` |
| `MCProxyCache_requests` | failures have a cause, no body too old is served | 4 keys, 1 request, 1 task, `Lossy` |
| `MCProxyCache_redaction` | a redaction reaches the page; a message leaves only young pages alone; the page catches up with every event | 2 events, 2 tasks, 1 request, `MaxAge` 1, crashes; a section with both options (3 and 1 ticks) and one whose `ttl` of 2 is below the default of 3 |
| `MCListings_lists` | lists are whole as far as one page reaches, name no room long left, miss no due room long joined; a list is answered or one request for it never ends; permits go round | 3 rooms, one of them bridged, 2 permits, 1 join or leave, `Ttl` 2, `Latency` 1, `Lossy`; from the joined rooms with pages of 2, from names, curated, with pages of 1 |
| `MCRoomState_inputs` | host names, ids, aliases and slugs of texts; what the two loops have read of a state, and that they agree; the curated order | 6 characters of 7 (names: of 5, one letter in both cases), 3 events of one state, names and topics under two state keys, 3 rooms of 16, 3 entries; lengths limited to 3, 4 and 2 |
| `MCRoomInfo_info` | no summary of a room the user was not in; one room per answer; the first with the slug is found if it is on every first page | a space with two rooms, one of them open to look into; pages of 2 or more; 2 slugs, 1 request, 2 changes, `Lossy` |

In `MCRoomState_inputs` three events reach every pair of events that write one
field with one more between them; six characters hold an id with a port, a whole
alias of a dotted host, and a label one longer than its limit. In `MCRoomInfo_info`
two changes are a leave and a rename between any two of the seven requests.

Why the bounds are enough. A race needs two actors and one room: a reader and
the handler, two writers of one entry, an event and its redelivery. The first
interesting transaction has two events (one that returns early, one behind it),
the first redelivery needs one break, the first echo of an own leave one more
event than users raise. Times to live of two or three ticks with a latency of one
are the smallest in which an entry can be young, about to expire and rewritten
late. The semaphore has ten permits in the code; what matters is fewer permits
than rooms. A page shorter than the hierarchy and one as long are the two cases of a
page. Each bound is a constant in a guard; the log is bounded through
`MaxRaised` only, so that own joins and leaves are never cut off.

One request at a time is enough: requests meet only in Redis, where a later
request of the same client does what another one would, except for a reader that
records late, which the handler's own record (`RecordPublic`) stands in for.

Deadlock is not checked in the runs of `MCTransactions` and `MCService`: with a
bounded number of user events the system really does come to rest. Neither is it in
`MCRoomState_inputs`, where the inputs end at their bounds. It is checked everywhere
else.

Each property of a passing run has a mutant, a plausible bug that TLC finds with
that property. Their definitions are marked `Fault:` and stand before the
definition they would replace.

## Disagreements between code and documents

Three runs end in a violation: each is a claim of a document or comment that the
code does not keep (`findings` in `PROJECT.json`).

- `MCTransactions_whitelist`: the whitelist test at `api.rs:172` works the wrong
  way round; a room of a server that is not listed is joined (README.md:102).
- `MCTransactions_autojoin_skips`: with `auto_join` the handler returns from
  inside the loop; later events of the transaction are acknowledged unhandled.
- `MCRoomGate_recache`: a reader that asked before a leave records its verdict
  after the leave deleted it.

Met on the way, and visible in the models, without a run of their own:

- The task spawned for a space child under "Auto joining space child room"
  (`api.rs:73`) joins the space the event is in, never the child (`SpawnJoin`).
- Handling a kick calls `leave_room`, which rejects an invite that came after the
  kick (`api.rs:214`): `InviteHonoured` fails as soon as users are not `Paced`.
- `leave_room` ends at the first child whose leave fails (`appservice.rs:230`): a
  space with a child the user is banned from stays joined after public: false.
  `WithdrawalHonoured` leaves spaces out for that reason.
- `spaces` does not take an empty list from Redis and goes on under the comment
  "cache missed" (`space.rs:59`), but `cache_or_fetch` takes it (`LookAgain`).
- `/spaces` is refused when `spaces.default` is empty, also with `include_all`
  (`space.rs:24`), with which the defaults "will be ignored"
  (config-sample.toml:63).
- A failure to read the joined rooms is cached as an empty list of public rooms
  (`rooms.rs:84`). `ListsLongThere` allows it, for as long as it is cached (`calm`).
- `/hierarchy` is paginated and nobody follows `next_batch`. What is past the first page
  is missing from the lists though no request failed (`appservice.rs:298`, `:622`);
  `room_info` does not find it and answers about the room of the path
  (`appservice.rs:606`); `leave_room` does not leave it (`appservice.rs:215`). `ListsWhole`,
  `ListsLongThere` and `FindsFirstOfName` claim what one page can give; no property
  says that `leave_room` leaves every child.
- `docs/security.md:8` says that the appservice cannot read events from rooms it has
  not been invited to, and that the middleware enforces this on every API route. It
  also reads rooms it joined because of public: true, of an event `auto_join` acts on, or
  of an admin, with no invite (the causes of `ServedHasCause`); and search, media,
  `/publicRooms` and `/spaces` are routed past the gate (`server.rs:132-156`).
- No request of `AppService` has a timeout (`appservice.rs:60-62`): one that is never
  answered keeps a list, a start or a transaction waiting for ever.
- The curated order formats every entry as `#entry:server_name` (`rooms.rs:312`),
  the requests for the same entries know whole aliases (`appservice.rs:283`): rooms
  of whole aliases come last (`CuratedInOrder` says so).
- Whole aliases are recognised in three ways: with one colon and no leading `!` in
  a room's path, with a colon and a dot in a space's path, and with or without `#`
  in the configuration. `a:host`, of a host without a dot, is an alias in a room's path
  only; in paths `#a:host` becomes `##a:host`, another name; an alias with a port is known
  under some of the rules only. `SameAliasEverywhere` states the rest: no text without
  the `#` means two rooms.
- `is_valid_room_id` parts at the last colon, so its branch for ports is never
  taken and an id with a port is refused; it passes the gate under its own name
  nevertheless, since it is no alias that parses (`IdsAreNoAliases`), unless the
  server's name is a number. Ids without a colon, which `api.rs:184` expects of some rooms,
  are outside that property: they are completed like the name of an alias.
- Of several `m.room.name` events, under several state keys, the list has the first
  and the summary the last; only the list knows `commune.room.name` (`SummaryAgrees`).
- The type of a room that is both created with a type and given one by
  `commune.room.type` is the one that comes last in the state (`ReadsAsReference`).
- A slug no room on the page has is not an error of `room_info`: the event is
  then looked for in the room of the path (`Hierarchy`).
- `default_refresh_ttl` (60) is used only when there is no `[cache.messages]`, where
  the cache is off; a section without `refresh_ttl` gets 300 (`config.rs:117`), and
  with a smaller `ttl` the subtraction at `api.rs:290` wraps.
- `docs/security.md:3` names the event `commune.room.public`; the code reads
  `commune.public.room` (`api.rs:26`). It also says DM and encrypted rooms are
  rejected, which no code in `src/` does.
- Nothing in `src/` reads `AppService.joined_rooms`; `ListAgreesAtRest` is about a
  list that is kept and not used yet.

## Fairness

- The runtime polls every handler and task that is ready, and every request made to the
  homeserver and to Redis ends: weak fairness of `HandlerStep`, of the admin's leave,
  of the tasks together (no more than `MaxTasks` at a time, of events and crashes
  that are bounded; the run of `CatchesUp` has no key whose requests start tasks),
  of each reader or request. It is per request, so one request is not starved by another; tokio
  schedules fairly. That requests end is the code's doing only where it proxies: that
  client has a timeout of 30 s (`lib.rs:33-35`) and each of its requests one of 25 s. The
  client of `AppService` (`appservice.rs:60-62`) has none, and nothing bounds a
  command to Redis. So `ComesToRest`, `ServiceComesToRest` and `StopsServing` rest on the
  assumption that the homeserver and Redis answer or break the connection, and
  `CatchesUp` on Redis alone.
- `Listings` does not assume that anybody answers: `FairSpec` is weak fairness of
  `OwnStep`, what the appservice does with what it has. `EveryRequestAnswered`
  therefore says what holds when a request never ends: it keeps its own
  permit and the list it is made for, and nothing else waits without such a request.
- The homeserver sends a transaction again until it is acknowledged: weak
  fairness of `Deliver \/ Redeliver`. It is what the application service API
  promises.
- `Service` adds that the supervisor starts the process again and the start is
  carried through (`Startup`: systemd's `Restart=on-failure`, and again requests that
  end, which is assumed)
  and that the homeserver calls back for a ping it received, while the process
  may die `MaxBreaks` times in all. A ping that is never answered is allowed to fail;
  the start does not wait for it.
- Time passes: weak fairness of `Tick`. Users, admins, disconnects, restarts and
  clients that go away are never forced to do anything.

In `RoomGate` and `ProxyCache`, `Latency` is an assumption, not something the code
enforces: an answer, once given, is recorded within that many ticks. Without it no bound on staleness holds, since
a suspended task may record an answer arbitrarily late. The guard on `Tick`
that states it is the only way a property could come to depend on it unnoticed;
`StopsServing` and `CatchesUp` assume that time does pass. `Listings` has no such guard:
its bounds on ages name the time the list served took (`Age`).

## The proofs

`TransactionsProofs` proves for every set of rooms, every hierarchy, every
setting of the rules, any number of events, admin calls, batches, lost answers and
restarts:

- `TypeCorrect`: `Spec => []TypeOK`
- `JoinsHaveCause`: `Spec => []JoinHasCause`
- `VerdictsHaveCause`: `Spec => []VerdictHasCause`
- `LeavesHaveCause`: `Spec => []LeaveHasCause`
- `OnlyAutoJoinMaySkip`: `Spec => []OnlyAutoJoinSkips`
- `HandlerDeliversInOrder`: `~AutoJoin => (Spec => InOrder)`, the refinement of
  `InOrderDelivery`
- `NothingIsSkipped`: by it, every acknowledged event was handled

`RestProofs` proves what the event side has reached when it is at rest:

- `ListsAgreeAtRest`: `~Lossy /\ ~AutoJoin => (Spec => []ListAgreesAtRest)`
- `WithdrawalsAreHonoured`: `~Lossy /\ ~AutoJoin => (Spec => []WithdrawalHonoured)`
- `InvitesAreHonoured`: `Paced /\ ~Lossy /\ Nested => (Spec => []InviteHonoured)`

`RoomGateProofs` proves, beside the event side for any number of readers, every life of a
verdict and every latency:

- `GateTypeCorrect`: `GateSpec => []GateTypeOK`
- `ServedAreAskedFor`: `GateSpec => []ServedHasCause`
- `VerdictsAge`: `GateSpec => []VerdictAge`
- `ServedAreRecent`: `GateSpec => ServesNoLongGone`, a property of steps

`ServiceProofs` proves, for any number of lives of the process and any number of
call backs:

- `ServiceImplementsTransactions`: `ServiceSpec => Spec`, the refinement by which
  all that is proved of `Transactions` holds of the process
- `ServiceHasCauses`, `ServiceDelivers`: causes and delivery in order over all its lives,
  by that refinement
- `ServiceKeepsInvites`: `Paced /\ ~Lossy /\ Nested => (ServiceSpec => []InviteHonoured)`,
  by that refinement; without `Paced` it is false of the code
- `PingIdIsFound`: `ServiceSpec => []PingFindsItsId`
- `ServiceTypeCorrect`: `ServiceSpec => []ServiceTypeOK`

`ProxyCacheProofs` proves, for every set of keys, every time to live that Redis
takes, any number of requests, tasks and events:

- `TypeCorrect`: `Spec => []TypeOK`
- `FailuresHaveCauses`: `Spec => []FailureHasCause`
- `WhatIsServedIsYoung`: `Spec => []ServesYoung`
- `RedactionsReachTheCache`: `"messages" \in Keys => (Spec => []RedactionReachesCache)`
- `MessagesLeaveYoungPages`: `"messages" \in Keys => (Spec => LeavesYoungPages)`, a
  property of steps

`ListingsProofs` proves, for every set of rooms, every hierarchy, every size of a page,
any number of requests, permits, joins and leaves, of what is on the first page:

- `TypeCorrect`: `Spec => []TypeOK`, by which permits add up
- `ListsAreWhole`: `Spec => []ListsWhole`
- `NoListNamesTheLongGone`: `Spec => ListsNoLongGone`, a property of steps
- `ListsNameTheLongThere`: `Spec => ListsLongThere`, a property of steps

`RoomInfoProofs` proves, for every set of rooms, every hierarchy, every size of a page,
any number of requests and of changes:

- `InfoTypeCorrect`: `Spec => []TypeOK`
- `SummariesAreOwn`: `Spec => []ShowsOwnRooms`
- `AnswersHangTogether`: `Spec => []AnswerHangsTogether`
- `FirstIsFound`: `Spec => []FindsFirstOfName`, of the places every first page has

`RoomInputsProofs` proves, for texts, names, states and lists of any length, any
characters, limits, events, entries and servers:

- `InputTypes`: `SpecInputs => []TypeOKInputs`
- `EntrySaysTheState`: `Spec => []ReadsAsReference`, whatever the order of the events
- `SummaryAgreesWithEntry`: `Spec => []SummaryAgrees`
- `HostnamesAsReference`: `SpecInputs => []Hostnames`
- `IdsAreNeverLookedUp`: `SpecInputs => []IdsPassAsThemselves`
- `OneMeaningEverywhere`: `SpecInputs => []OneMeaning`, no text without `#` means two rooms
- `SlugsAreCanonical`: `SpecInputs => []Slugs`, case included
- `CuratedAsConfigured`: `SpecInputs => []InOrderOfEntries`

The type invariants of the event side and the gate are inductive. The other properties are not: a join that is
about to be sent must have its cause before it is sent, and so must a leave half
done, a verdict not yet recorded and a task not yet run. The inductive invariant
of the event side is `Causes`:

    JoinCauses: TypeOK, HandlerHasCause, LeavingHasCause, TasksHaveCause,
                JoinHasCause
    VerdictHasCause, LeaveHasCause

`HandlerHasCause` ties `pc` to the event at the cursor, `LeavingHasCause` the
rooms still to be left to the event or the admin that asked for it,
`TasksHaveCause` a pending join to a delivered event. They are monotone because
the log only grows, `sent` never falls and the admin histories never shrink:
`LogStep` states the first for every request to the homeserver. `NextVerdict`,
`NextLeave` and `NextCauses` carry the parts over a step, one action at a time.

For delivery, `InTransaction` says that the events of the transaction under way that
lie before the cursor are handled, and when it answers all of them, or those up to
where `auto_join` returned; `CutsBehind` keeps the ends of transactions apart. `DeliveryStep` sorts the steps by what they do to a
transaction (leave it alone, send, end early, finish the event at the cursor), so
that both theorems look at four cases and not at thirty actions.

The properties at rest say nothing before rest, so none of them is inductive. Each
is strengthened to a claim about every event the handler is past (`Done`):

    ListOwed        a listed room the user is not in is owed an event still to come
    WithdrawnStays  a withdrawn room is left, for every event up to Done
    InvitesTaken    an invite nothing contradicts is followed, up to Done

`Done` falls when the handler loses its connection or the process dies, which makes
a claim up to `Done` weaker; it rises by one event, whose handling has to establish it. `ListOwed` is the
other way round and needs `InvitesStand`: a membership never changes without an event
that says so. `WithdrawnStays` needs that a room stays left between the leave and the
deletion of its verdict (`LeftIsOut`), where only a task of `auto_join` or an admin
could join it. `InvitesTaken` is the hardest: handling a leave leaves a space and
its children, each leave is an event that makes the handler leave again, and none of
that may hit a room invited since. `OneAtATime` and `OwnLeavesAsked` tie each of these
leaves to the last event of a user, or to an admin.

What their hypotheses stand for, and why they cannot be dropped: with `Lossy` a
leave or a join may fail and is never tried again; with `AutoJoin` the handler skips
events; users who are not `Paced` can invite the user again before the leave they
asked for is handled (see the disagreements). `Nested` says that what is in the
hierarchy of a child is in that of its space, as the homeserver flattens hierarchies.
Rooms are still any number, and admins and lost connections may come in between;
the runs have `MaxCalls` 0 there.

Beside readers `VerdictHasCause` is false, since a reader records a verdict for
a room the user was invited to. `GateCauses` therefore keeps `JoinCauses` and
adds that a verdict, an answer in hand and a request that got through are of
rooms somebody asked the user into. For the age of a verdict, `GateYoung` adds
`AnswersYoung`: the user has been out of the room of an answer in hand no longer
than that answer has waited. `VerdictStep` (only the handler that is about to
record raises a verdict) and `RecordStep` (it gets there from a join that went
through) say all that the gate needs to know of a step of the event side, so that
none of its actions is opened a second time. `FourSteps` splits a step of
`RoomGate` into event side, restart, reader and clock; `BesideActs`, `ReaderActs`
and `TickActs` say what each may change.

`PingFindsItsId` needs to know that an id is stored only by the task of this life
and that a ping is sent only once its id is stored; the strengthening ties `ping`,
`stored` and `pings` together.

`ServesYoung` is not inductive either: a response in hand or in Redis will be
served. `BodiesYoung` bounds the age of what is in hand by the time it has waited,
and of what is in Redis by the time it has lived on top of that; `TickEntry` and
`HandlesEntry` say that an entry gets old or is replaced by something in hand, and
nothing else. `FailuresHaveCauses` needs `SeenIsThere` (an entry `EXISTS` saw is there
at `GET`, or expired in between) and `BodiesReal`. `Redacting` says that the task of
the last redaction is on its way or the page is new, and that nobody has an older
response in hand. `LeavesYoungPages` rests on `TasksApart` (of each message there is
one task) and on arithmetic: where `ttl - refresh_ttl` wraps, it wraps to a
threshold no entry reaches, or to one every entry does, never to one in between.
Two of the theorems are about the page of messages and ask for a key of that type.

`Listings` has two tools. `Ordered` adds to the types that a room is in one place of
the fan-out at a time; with it `TypeCorrect` gets through, since permits are counted
by the cardinality of `running`. `AllWhole` says of a list under way what
`ListsWhole` says at its end: a room that is due or was given on a page is found, waits,
or is asked about; `PagesAre` relates a page to its hierarchy. For ages
there are two invariants. `Lately`: the user was in each room a request has seen
since it began, and in each room of an entry within its life and the time it took.
`LongThere`: a room the user was in since before a request began is in `stayed`,
what failed in a request failed since it began (`TroubleLately`), and an entry made in
calm has the rooms due that the user had been in then (`EntriesThere`).

The invariant of `RoomInfo` is `Inv`: each request says what it has shown and which
room it is at (`Place`, `Shown`), its histories hold what is the case (`Seen`), and,
once it has looked into the hierarchy, that of the places on every first page
(`Ahead`, `PageReaches`) none before the one it found has a room that kept the slug
(`Best`), or that none has (`NoneKept`). The last two are
stable because a room that still has kept the slug had kept it before
(`KeptBefore`), and they become true in `Hierarchy` because such a room has the
slug there (`KeptNow`, `FirstFound`, `NothingFound`).

Of `RoomState` the entry's invariant is inductive beside the types: `ReadRound` says
field by field what a round does, and `RoomStateAssumption`, that a name that parses
is a text, is why the first `m.room.name` stays. The summary needs `SummaryName`: its
name is that of an event, the last of several where the entry has the first.
`InputsRead` (`SpecInputs => Spec`) carries both to the machine of all inputs.

The properties of texts and lists are of functions, not of steps, so their proofs need
induction over positions. `Least` (a set of numbers has a least member, from the
library's well-founded order on Nat) gives it: of the positions where the claim fails
take the least. `MinIs` rests on it, by which the first colon, the label a character
is in (`LabelAround`) and the first entry of a room are found. `CompletedIsNoAlias`
finds that what follows the first colon of a completed text with a colon ends in a
colon and the server's name, so it parses only if that name is a number, as a port is;
`IdsAreNoAliases` and `CuratedInOrder` exclude such a name, with which an id could be
looked up as an alias. For slugs, `SlugsExist` shows that the recursive definition has a
value, `SlugsAgree` that two slugs that agree at some place agree as long as the rest
of their texts does, and `DashesAreOne` that what is between words is one dash. For
curated lists, `Ranked` shows by cardinalities that counting what precedes each
member numbers a finite set from 0 on, so none is lost or comes twice.

The assumptions are `HomeserverAssumption`, `TransactionsAssumption`,
`RoomGateAssumption`, `ProxyCacheAssumption`, `ListingsAssumption`,
`RoomInfoAssumption`, `RoomNamesAssumption`, `RoomStateAssumption` and
`RoomInputsAssumption`, by which the alias of a room is one the client library parsed. They type the constants, make verdicts and entries live for at
least one tick, keep times to live within what Redis takes and the handler apart
from the readers. `ServedAreRecent`, `VerdictsAge` and `WhatIsServedIsYoung` rest also on
the guard of the clock, by which nobody sits on an answer for more than `Latency`
ticks; `ServedAreAskedFor` and the theorems about lists do not.

What stays with TLC: liveness (`ComesToRest`, `StopsServing`, `CatchesUp`,
`EveryRequestAnswered`, `ServiceComesToRest`), since the prover has neither fairness
nor ENABLED. Every invariant and every property of steps of a passing run is a theorem.
No module declares a RECURSIVE operator; the one recursion, of `Slugify`, is a
recursive function.

## What is not modelled

- `joined_rooms_state_alt`, `get_room_messages`, `get_room_state`, `joined_rooms` and
  the typed wrappers of `cache.rs`, which no route reaches.
- `authenticate_homeserver` and `is_admin` (a comparison with a token), `/health`
  and `/identity` (one request, or none, and no state).
- `config.rs` but for the options the models read and the defaults of
  `[cache.messages]`; the verdict's 300 s ignore `cache.joined_rooms.ttl`.
  `RoomGate!Resolve` takes the outcome of resolving an alias as a choice.
- Texts that are not ASCII; the time and the sender of a room's creation. The mark of a
  bridged room is a name of its own in `RoomState` and a constant of `Listings`
  (`Bridged`), where rooms are not renamed.
- Pages after the first, which no code asks for.
- URLs, headers, CORS, error bodies, logging.

The lock around `joined_rooms` is held for one change only, so the list is
changed in one step. The list on `Vec` is kept without duplicates by the code and
is a set here. The homeserver gives or does not give the state of a room the user
has left (`Listings!Yes`): implementations differ.

## Plan

1. Done, in this order: `Homeserver`, `Transactions` with `InOrderDelivery`,
   `RoomGate`, `ProxyCache`, `Listings`, proofs about `Transactions` and `RoomGate`;
   then `Service`, `RoomNames`, `RoomState`, `RoomInfo`, the fourth list, sections of
   `[cache.messages]`, proofs about `Service` and `RoomInfo`.
2. Done: proofs about delivery and rest, `ProxyCache` and `Listings`, then
   `RoomInputs`, for which `RoomState` became a machine.
3. Left: what "What is not modelled" names.
