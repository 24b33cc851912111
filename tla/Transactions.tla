----------------------------- MODULE Transactions -----------------------------
(***************************************************************************)
(* The event side of the appservice: the handler of                        *)
(* PUT /_matrix/app/v1/transactions/{txn_id} (src/api.rs) with the joins   *)
(* and leaves it makes (src/appservice.rs), the tasks it spawns, the two   *)
(* admin endpoints that make the same calls (src/rooms.rs), the Redis keys *)
(* "appservice:joined:<room>" it writes and deletes, and the loss of all   *)
(* of it but Redis when the process restarts.                              *)
(*                                                                         *)
(* One action is what the code does between two awaits; a request and its  *)
(* answer are one step.  The homeserver sends one transaction at a time    *)
(* and sends it again until it is answered with 200.                       *)
(***************************************************************************)
EXTENDS Homeserver

CONSTANTS
  LocalRooms,         \* rooms whose id names matrix.server_name
  WhitelistedRooms,   \* rooms whose server ends with a federation_domain_whitelist entry
  UnnamedRooms,       \* rooms whose id has no server name
  AutoJoin,           \* appservice.rules.auto_join
  InviteByLocalUser,  \* appservice.rules.invite_by_local_user
  VerdictTtl,         \* the 300 seconds of a cached verdict, in clock ticks
  MaxCalls,           \* bound: admin requests
  MaxBreaks           \* bound: lost connections and restarts

ASSUME TransactionsAssumption ==
  /\ LocalRooms \subseteq Rooms
  /\ WhitelistedRooms \subseteq Rooms
  /\ UnnamedRooms \subseteq Rooms
  /\ AutoJoin \in BOOLEAN
  /\ InviteByLocalUser \in BOOLEAN
  /\ VerdictTtl \in Nat \ {0}
  /\ MaxCalls \in Nat
  /\ MaxBreaks \in Nat

VARIABLES
  acked,        \* number of the last event the homeserver saw acknowledged
  sent,         \* last event of the transaction being sent; = acked when there is none
  cursor,       \* the event the handler is at
  pc,           \* where the handler is
  leaving,      \* the two callers' runs of AppService::leave_room
  tasks,        \* the spawned tasks that have not finished
  joinedRooms,  \* AppService.joined_rooms: a Vec kept free of duplicates
  cached,       \* seconds left of "appservice:joined:<room>" = true; 0: no such key
  calls,        \* admin requests made (counted for the bound only)
  breaks,       \* connections lost and restarts (for the bound, and to tell tasks apart)
  handled,      \* history: numbers of the events handled to the end
  cuts,         \* history: the values acked has had
  adminJoins,   \* history: rooms an admin asked to join
  adminLeaves   \* history: rooms an admin asked to leave

txnVars == <<acked, sent, cursor, pc>>
histVars == <<handled, cuts, adminJoins, adminLeaves>>
vars == <<hsVars, txnVars, leaving, tasks, joinedRooms, cached, calls, breaks, histVars>>

Callers == {"transaction", "admin"}
NotLeaving == [at |-> "none"]
LeaveRun == [at : {"hierarchy", "children", "done"}, room : Rooms, todo : SUBSET Rooms]

TaskKinds == {"world_readable", "space_child", "message", "redaction"}
Task == [kind : TaskKinds, room : Rooms, event : Nat, attempt : Nat]

TypeOK ==
  /\ HomeserverTypeOK
  /\ acked \in Nat /\ sent \in Nat /\ cursor \in Nat
  /\ acked <= sent /\ sent <= Len(log)
  /\ pc \in {"idle", "dispatch", "join", "record", "leave", "respond"}
  /\ pc # "idle" => acked < cursor /\ cursor <= sent
  /\ leaving \in [Callers -> LeaveRun \cup {NotLeaving}]
  /\ pc = "leave" <=> leaving["transaction"] # NotLeaving
  /\ tasks \subseteq Task
  /\ joinedRooms \subseteq Rooms
  /\ cached \in [Rooms -> 0 .. VerdictTtl]
  /\ calls \in Nat /\ breaks \in Nat
  /\ handled \subseteq Nat /\ cuts \subseteq Nat /\ adminJoins \subseteq Rooms
  /\ adminLeaves \subseteq Rooms

(* AppService::new reads joined_rooms from the homeserver and starts with an
   empty list when that fails. *)
Unread == IF Lossy THEN {{}} ELSE {}

Init ==
  /\ HomeserverInit
  /\ acked = 0 /\ sent = 0 /\ cursor = 0 /\ pc = "idle"
  /\ leaving = [c \in Callers |-> NotLeaving]
  /\ tasks = {}
  /\ joinedRooms \in {Joined} \cup Unread
  /\ cached = [r \in Rooms |-> 0]
  /\ calls = 0 /\ breaks = 0
  /\ handled = {} /\ cuts = {} /\ adminJoins = {} /\ adminLeaves = {}

CurrentEvent == log[cursor]
Room == CurrentEvent.room

------------------------------------------------------------------------------
(* The transport.  The txn_id of the path is not looked at, so a transaction
   whose answer was lost is handled again from its first event. *)

Deliver ==
  /\ pc = "idle" /\ acked = sent
  /\ \E n \in (acked + 1) .. Len(log) : sent' = n
  /\ cursor' = acked + 1
  /\ pc' = "dispatch"
  /\ UNCHANGED <<hsVars, acked, leaving, tasks, joinedRooms, cached, calls, breaks, histVars>>

(* Fault: a txn_id seen before is answered at once. *)
RedeliverAnswersAtOnce ==
  /\ pc = "idle" /\ acked < sent
  /\ cursor' = acked + 1
  /\ pc' = "respond"
  /\ UNCHANGED <<hsVars, acked, sent, leaving, tasks, joinedRooms, cached, calls, breaks, histVars>>

Redeliver ==
  /\ pc = "idle" /\ acked < sent
  /\ cursor' = acked + 1
  /\ pc' = "dispatch"
  /\ UNCHANGED <<hsVars, acked, sent, leaving, tasks, joinedRooms, cached, calls, breaks, histVars>>

Acknowledge ==
  /\ pc = "respond"
  /\ acked' = sent
  /\ pc' = "idle"
  /\ cuts' = cuts \cup {sent}
  /\ UNCHANGED <<hsVars, sent, cursor, leaving, tasks, joinedRooms, cached, calls, breaks,
                 handled, adminJoins, adminLeaves>>

Break ==
  /\ breaks < MaxBreaks
  /\ breaks' = breaks + 1

(* A join request whose answer nobody waits for any more may have been carried
   out. (The answer to the last leave is still on its way while at = "done".) *)
Unanswered == UNCHANGED hsVars \/ (pc = "join" /\ HsJoin(Room, "ok"))

(* Fault: leave_room runs in a task of its own, which outlives the handler. *)
DisconnectLeavesOn ==
  /\ pc \in {"join", "record", "leave", "respond"}
  /\ Break
  /\ Unanswered
  /\ pc' = "idle"
  /\ UNCHANGED <<acked, sent, cursor, leaving, tasks, joinedRooms, cached, calls, histVars>>

(* The homeserver gives up on the connection: the handler is dropped at the
   await it is suspended in, or its answer is lost.  Spawned tasks live on. *)
Disconnect ==
  /\ pc \in {"join", "record", "leave", "respond"}
  /\ Break
  /\ Unanswered
  /\ pc' = "idle"
  /\ leaving' = [leaving EXCEPT !["transaction"] = NotLeaving]
  /\ UNCHANGED <<acked, sent, cursor, tasks, joinedRooms, cached, calls, histVars>>

(* The process dies and is started again: everything in memory is lost, the
   list of rooms is read again, Redis keeps what it has. *)
Restart ==
  /\ Break
  /\ Unanswered
  /\ pc' = "idle"
  /\ leaving' = [c \in Callers |-> NotLeaving]
  /\ tasks' = {}
  /\ joinedRooms' \in {Joined'} \cup Unread
  /\ UNCHANGED <<acked, sent, cursor, cached, calls, histVars>>

------------------------------------------------------------------------------
(* The loop over the events. *)

(* Events of the user's own membership are acted on unless the room id has no
   server name, or names a whitelisted remote server while only local users
   may invite. *)
Ignored(r) ==
  \/ r \in UnnamedRooms
  \/ r \notin LocalRooms /\ r \in WhitelistedRooms /\ InviteByLocalUser

(* The end of the loop body: on to the next event, or out of the loop. *)
Advance ==
  /\ handled' = handled \cup {cursor}
  /\ IF cursor = sent
       THEN pc' = "respond" /\ UNCHANGED cursor
       ELSE pc' = "dispatch" /\ cursor' = cursor + 1
  /\ UNCHANGED <<acked, sent, cuts, adminJoins, adminLeaves>>

At(place, kinds) == pc = place /\ CurrentEvent.kind \in kinds

Spawn == tasks' = tasks \cup {[kind |-> CurrentEvent.kind, room |-> Room,
                               event |-> cursor, attempt |-> breaks]}

(* auto_join: a join of the event's room is spawned (after five seconds for a
   world_readable room) and the handler returns, whatever events follow. *)
AutoJoinKinds == {"world_readable", "space_child"}

SpawnJoin ==
  /\ AutoJoin
  /\ At("dispatch", AutoJoinKinds)
  /\ Spawn
  /\ handled' = handled \cup {cursor}
  /\ pc' = "respond"
  /\ UNCHANGED <<hsVars, acked, sent, cursor, leaving, joinedRooms, cached, calls, breaks,
                 cuts, adminJoins, adminLeaves>>

(* Fault: the handler returns after spawning, as it does for auto_join. *)
SpawnRecacheReturns ==
  /\ At("dispatch", {"message", "redaction"})
  /\ Spawn
  /\ handled' = handled \cup {cursor}
  /\ pc' = "respond"
  /\ UNCHANGED <<hsVars, acked, sent, cursor, leaving, joinedRooms, cached, calls, breaks,
                 cuts, adminJoins, adminLeaves>>

(* A message or a redaction spawns handle_recache for its room. *)
SpawnRecache ==
  /\ At("dispatch", {"message", "redaction"})
  /\ Spawn
  /\ Advance
  /\ UNCHANGED <<hsVars, leaving, joinedRooms, cached, calls, breaks>>

(* Fault: a ban leaves the list alone. *)
BannedKeepsRoom ==
  /\ At("dispatch", {"ban"}) /\ ~Ignored(Room)
  /\ Advance
  /\ UNCHANGED <<hsVars, leaving, tasks, joinedRooms, cached, calls, breaks>>

(* A ban takes the room off the list. *)
Banned ==
  /\ At("dispatch", {"ban"}) /\ ~Ignored(Room)
  /\ joinedRooms' = joinedRooms \ {Room}
  /\ Advance
  /\ UNCHANGED <<hsVars, leaving, tasks, cached, calls, breaks>>

(* An event no branch acts on. *)
Skip ==
  /\ \/ At("dispatch", {"other"})
     \/ At("dispatch", AutoJoinKinds) /\ ~AutoJoin
     \/ At("dispatch", MemberKinds) /\ Ignored(Room)
  /\ Advance
  /\ UNCHANGED <<hsVars, leaving, tasks, joinedRooms, cached, calls, breaks>>

(* Fault: an invite is followed wherever the room is. *)
StartJoinAnywhere ==
  /\ At("dispatch", {"public_true", "invite"})
  /\ pc' = "join"
  /\ UNCHANGED <<hsVars, acked, sent, cursor, leaving, tasks, joinedRooms, cached, calls,
                 breaks, histVars>>

(* commune.public.room with public: true, or an invite: join_room is awaited. *)
StartJoin ==
  /\ \/ At("dispatch", {"public_true"})
     \/ At("dispatch", {"invite"}) /\ ~Ignored(Room)
  /\ pc' = "join"
  /\ UNCHANGED <<hsVars, acked, sent, cursor, leaving, tasks, joinedRooms, cached, calls,
                 breaks, histVars>>

(* Fault: a failed join ends the handler. *)
JoinPublicOrReturn(reply) ==
  /\ At("join", {"public_true"})
  /\ HsJoin(Room, reply)
  /\ IF reply = "ok" THEN pc' = "record" ELSE pc' = "respond"
  /\ UNCHANGED <<acked, sent, cursor, histVars, leaving, tasks, joinedRooms, cached, calls,
                 breaks>>

(* public: true.  The verdict is recorded when the join succeeded. *)
JoinPublic(reply) ==
  /\ At("join", {"public_true"})
  /\ HsJoin(Room, reply)
  /\ IF reply = "ok"
       THEN pc' = "record" /\ UNCHANGED <<acked, sent, cursor, histVars>>
       ELSE Advance
  /\ UNCHANGED <<leaving, tasks, joinedRooms, cached, calls, breaks>>

(* Fault: one second too many. *)
CacheVerdictLonger(r) ==
  \/ cached' = [cached EXCEPT ![r] = VerdictTtl + 1]
  \/ Lossy /\ UNCHANGED cached

(* SETEX "appservice:joined:<room>" true 300. *)
CacheVerdict(r) ==
  \/ cached' = [cached EXCEPT ![r] = VerdictTtl]
  \/ Lossy /\ UNCHANGED cached

RecordPublic ==
  /\ pc = "record"
  /\ CacheVerdict(Room)
  /\ Advance
  /\ UNCHANGED <<hsVars, leaving, tasks, joinedRooms, calls, breaks>>

(* Fault: an accepted invite is recorded as a verdict, too. *)
JoinInviteRecords(reply) ==
  /\ At("join", {"invite"})
  /\ HsJoin(Room, reply)
  /\ joinedRooms' = joinedRooms \cup {Room}
  /\ IF reply = "ok"
       THEN pc' = "record" /\ UNCHANGED <<acked, sent, cursor, histVars>>
       ELSE Advance
  /\ UNCHANGED <<leaving, tasks, cached, calls, breaks>>

(* Fault: a failed join is tried again for ever. *)
JoinInviteRetries(reply) ==
  /\ At("join", {"invite"})
  /\ HsJoin(Room, reply)
  /\ joinedRooms' = joinedRooms \cup {Room}
  /\ IF reply = "ok" THEN Advance ELSE UNCHANGED <<txnVars, histVars>>
  /\ UNCHANGED <<leaving, tasks, cached, calls, breaks>>

(* Invite: the room goes on the list whether or not the join succeeded. *)
JoinInvite(reply) ==
  /\ At("join", {"invite"})
  /\ HsJoin(Room, reply)
  /\ joinedRooms' = joinedRooms \cup {Room}
  /\ Advance
  /\ UNCHANGED <<leaving, tasks, cached, calls, breaks>>

(* Fault: a leave is followed wherever the room is. *)
StartLeaveAnywhere ==
  /\ At("dispatch", {"public_false", "leave"})
  /\ pc' = "leave"
  /\ leaving' = [leaving EXCEPT !["transaction"] =
                   [at |-> "hierarchy", room |-> Room, todo |-> {}]]
  /\ UNCHANGED <<hsVars, acked, sent, cursor, tasks, joinedRooms, cached, calls, breaks,
                 histVars>>

(* public: false, or the user's own leave: leave_room is awaited. *)
StartLeave ==
  /\ \/ At("dispatch", {"public_false"})
     \/ At("dispatch", {"leave"}) /\ ~Ignored(Room)
  /\ pc' = "leave"
  /\ leaving' = [leaving EXCEPT !["transaction"] =
                   [at |-> "hierarchy", room |-> Room, todo |-> {}]]
  /\ UNCHANGED <<hsVars, acked, sent, cursor, tasks, joinedRooms, cached, calls, breaks,
                 histVars>>

------------------------------------------------------------------------------
(* AppService::leave_room, for either caller: the first page of the hierarchy is
   fetched, every room on it is left, then the room itself.  The first error ends
   it. *)

Proceed(c, place, todo) ==
  leaving' = [leaving EXCEPT ![c] = [at |-> place, room |-> leaving[c].room, todo |-> todo]]

GetHierarchy(c) ==
  /\ leaving[c].at = "hierarchy"
  /\ \E reply \in Replies :
       /\ HsHierarchy(leaving[c].room, reply)
       /\ IF reply = "ok" THEN \E page \in Pages(leaving[c].room) : Proceed(c, "children", page)
                          ELSE Proceed(c, "done", {})
  /\ UNCHANGED <<txnVars, tasks, joinedRooms, cached, calls, breaks, histVars>>

LeaveChild(c) ==
  /\ leaving[c].at = "children"
  /\ \E r \in leaving[c].todo, reply \in Replies :
       /\ HsLeave(r, reply)
       /\ IF reply = "ok" THEN Proceed(c, "children", leaving[c].todo \ {r})
                          ELSE Proceed(c, "done", {})
  /\ UNCHANGED <<txnVars, tasks, joinedRooms, cached, calls, breaks, histVars>>

LeaveSelf(c) ==
  /\ leaving[c].at = "children" /\ leaving[c].todo = {}
  /\ \E reply \in Replies : HsLeave(leaving[c].room, reply)
  /\ Proceed(c, "done", {})
  /\ UNCHANGED <<txnVars, tasks, joinedRooms, cached, calls, breaks, histVars>>

LeaveStep(c) == GetHierarchy(c) \/ LeaveChild(c) \/ LeaveSelf(c)

(* After it, whatever its outcome: public: false deletes the verdict, an own
   leave takes the room off the list. *)
Left ==
  /\ pc = "leave" /\ leaving["transaction"].at = "done"
  /\ leaving' = [leaving EXCEPT !["transaction"] = NotLeaving]
  /\ Advance
  /\ UNCHANGED <<hsVars, tasks, calls, breaks>>

(* Fault: the verdict stays until it expires. *)
DeleteNothing ==
  /\ At("leave", {"public_false"})
  /\ UNCHANGED <<joinedRooms, cached>>
  /\ Left

DeleteVerdict ==
  /\ At("leave", {"public_false"})
  /\ \/ cached' = [cached EXCEPT ![Room] = 0]
     \/ Lossy /\ UNCHANGED cached
  /\ UNCHANGED joinedRooms
  /\ Left

ForgetRoom ==
  /\ At("leave", {"leave"})
  /\ joinedRooms' = joinedRooms \ {Room}
  /\ UNCHANGED cached
  /\ Left

------------------------------------------------------------------------------
(* Tasks, admin requests, time. *)

(* A spawned task: a join of its room, or handle_recache, whose work is on the
   message cache only (module ProxyCache). *)
RunTask(t) ==
  /\ tasks' = tasks \ {t}
  /\ IF t.kind \in AutoJoinKinds
       THEN \E reply \in Replies : HsJoin(t.room, reply)
       ELSE UNCHANGED hsVars
  /\ UNCHANGED <<txnVars, leaving, joinedRooms, cached, calls, breaks, histVars>>

AdminJoin(r) ==
  /\ calls < MaxCalls /\ calls' = calls + 1
  /\ \E reply \in Replies : HsJoin(r, reply)
  /\ adminJoins' = adminJoins \cup {r}
  /\ UNCHANGED <<txnVars, leaving, tasks, joinedRooms, cached, breaks, handled, cuts,
                 adminLeaves>>

AdminLeave(r) ==
  /\ calls < MaxCalls /\ calls' = calls + 1
  /\ leaving["admin"] = NotLeaving
  /\ leaving' = [leaving EXCEPT !["admin"] = [at |-> "hierarchy", room |-> r, todo |-> {}]]
  /\ adminLeaves' = adminLeaves \cup {r}
  /\ UNCHANGED <<hsVars, txnVars, tasks, joinedRooms, cached, breaks, handled, cuts,
                 adminJoins>>

AdminLeft ==
  /\ leaving["admin"].at = "done"
  /\ leaving' = [leaving EXCEPT !["admin"] = NotLeaving]
  /\ UNCHANGED <<hsVars, txnVars, tasks, joinedRooms, cached, calls, breaks, histVars>>

(* The admin's connection goes away and its handler with it. *)
AdminDisconnect ==
  /\ leaving["admin"] # NotLeaving
  /\ Break
  /\ leaving' = [leaving EXCEPT !["admin"] = NotLeaving]
  /\ UNCHANGED <<hsVars, txnVars, tasks, joinedRooms, cached, calls, histVars>>

(* The time to live of every verdict runs down. *)
Expire == cached' = [r \in Rooms |-> IF cached[r] > 0 THEN cached[r] - 1 ELSE 0]

Tick ==
  /\ \E r \in Rooms : cached[r] > 0
  /\ Expire
  /\ UNCHANGED <<hsVars, txnVars, leaving, tasks, joinedRooms, calls, breaks, histVars>>

(* Nothing is left for the appservice to do. *)
AtRest ==
  /\ pc = "idle" /\ acked = Len(log)
  /\ tasks = {}
  /\ leaving["admin"] = NotLeaving

UserStep ==
  /\ Paced => AtRest
  /\ \E r \in Rooms : UserAct(r)
  /\ UNCHANGED <<txnVars, leaving, tasks, joinedRooms, cached, calls, breaks, histVars>>

HandlerStep ==
  \/ SpawnJoin \/ SpawnRecache \/ Banned \/ Skip \/ StartJoin \/ StartLeave
  \/ \E reply \in Replies : JoinPublic(reply) \/ JoinInvite(reply)
  \/ RecordPublic
  \/ LeaveStep("transaction")
  \/ DeleteVerdict \/ ForgetRoom
  \/ Acknowledge

Work ==
  \/ UserStep
  \/ Deliver \/ Redeliver
  \/ HandlerStep
  \/ \E t \in tasks : RunTask(t)
  \/ \E r \in Rooms : AdminJoin(r) \/ AdminLeave(r)
  \/ LeaveStep("admin") \/ AdminLeft
  \/ Disconnect \/ AdminDisconnect

Next == Work \/ Restart \/ Tick

Spec == Init /\ [][Next]_vars

(* The runtime polls every handler and task that is ready, and the homeserver keeps
   sending what is not acknowledged.  That it and Redis answer every request, or
   let it fail, is assumed of them: AppService's client has no timeout. *)
Fairness ==
  /\ WF_vars(Deliver \/ Redeliver)
  /\ WF_vars(HandlerStep)
  /\ WF_vars(\E t \in tasks : RunTask(t))
  /\ WF_vars(LeaveStep("admin") \/ AdminLeft)
  /\ WF_vars(Tick)

FairSpec == Spec /\ Fairness
------------------------------------------------------------------------------
(* Who asked for it. *)

(* An event that asks the user into room r. *)
AsksIn(e, r) ==
  /\ e.room = r
  /\ \/ e.kind = "public_true"
     \/ e.kind = "invite" /\ ~Ignored(r)
     \/ e.kind \in AutoJoinKinds /\ AutoJoin

(* An event that asks the user out of room r: of the room itself, or of a space
   whose hierarchy lists it. *)
AsksOut(e, r) ==
  /\ r = e.room \/ r \in Children[e.room]
  /\ e.kind = "public_false" \/ (e.kind = "leave" /\ ~Ignored(e.room))

AskedIn(r) ==
  \/ r \in BootRooms \cup adminJoins
  \/ \E i \in 1 .. sent : AsksIn(log[i], r)

(* The user is in a room only when it was there from the start, or an admin or
   an event that was delivered asked it in: no order of batches, retries, late
   tasks and restarts brings it into another. *)
JoinHasCause == \A r \in Joined : AskedIn(r)

(* A verdict is in Redis only for a room that said public: true. *)
VerdictHasCause ==
  \A r \in Rooms : cached[r] > 0 =>
    \E i \in 1 .. sent : log[i].room = r /\ log[i].kind = "public_true"

(* The user leaves a room by itself only after somebody asked it out: the
   leaves that come back as events never make it leave one more room. *)
LeaveHasCause ==
  \A i \in 1 .. Len(log) : log[i].sender = "appservice" =>
    \/ \E r \in adminLeaves : log[i].room \in {r} \cup Children[r]
    \/ \E j \in 1 .. (i - 1) : AsksOut(log[j], log[i].room)

(* What makes the three inductive: whatever is about to join, record or leave
   has its cause already. *)
HandlerHasCause ==
  /\ pc = "join" => AsksIn(CurrentEvent, Room)
  /\ pc = "record" => CurrentEvent.kind = "public_true"

LeavingHasCause ==
  \A c \in Callers : leaving[c] # NotLeaving =>
    /\ leaving[c].todo \subseteq Children[leaving[c].room]
    /\ c = "transaction" => leaving[c].room = Room /\ AsksOut(CurrentEvent, Room)
    /\ c = "admin" => leaving[c].room \in adminLeaves

TasksHaveCause == \A t \in tasks : t.kind \in AutoJoinKinds => AskedIn(t.room)

JoinCauses ==
  /\ TypeOK
  /\ HandlerHasCause /\ LeavingHasCause /\ TasksHaveCause
  /\ JoinHasCause

Causes == JoinCauses /\ VerdictHasCause /\ LeaveHasCause

------------------------------------------------------------------------------
(* Nothing delivered is lost. *)

(* The events of one transaction: no value acked has had lies between them. *)
SameTransaction(i, j) == \A k \in cuts : k < i <=> k < j

(* An acknowledged event was handled to the end, unless auto_join made the
   handler return at an earlier event of the same transaction. *)
OnlyAutoJoinSkips ==
  \A i \in 1 .. acked : i \in handled \/
    /\ AutoJoin
    /\ \E j \in 1 .. (i - 1) : /\ SameTransaction(i, j)
                               /\ log[j].kind \in AutoJoinKinds
                               /\ j \in handled

(* Without auto_join the handler delivers in order and skips nothing. *)
Delivery == INSTANCE InOrderDelivery WITH raisedTo <- Len(log)
InOrder == Delivery!Spec

------------------------------------------------------------------------------
(* What the appservice has reached when nothing is left to do. *)

(* The list of joined rooms, kept by the handler beside what the homeserver knows,
   names only rooms the user is in. *)
ListAgreesAtRest == AtRest => \A r \in joinedRooms : Ignored(r) \/ r \in Joined

(* public: false is the last word on a room that is not a space, where no admin
   joined it: the user is out of it and no verdict says otherwise. *)
WithdrawalHonoured ==
  AtRest => \A i \in 1 .. Len(log) : LET r == log[i].room IN
    /\ log[i].kind = "public_false"
    /\ Children[r] = {}
    /\ r \notin adminJoins
    /\ \A j \in (i + 1) .. Len(log) : ~AsksIn(log[j], r)
    => r \notin Joined /\ cached[r] = 0

(* An invite is the last word on a room, which no admin had left, with a space or
   by itself: the user is in it. *)
Dismisses(e, r) ==
  /\ e.sender = "user"
  /\ AsksOut(e, r) \/ (e.kind = "ban" /\ e.room = r)

LeftByAdmin(r) == \E s \in adminLeaves : r \in {s} \cup Children[s]

InviteHonoured ==
  AtRest => \A i \in 1 .. Len(log) : LET r == log[i].room IN
    /\ log[i].kind = "invite"
    /\ ~Ignored(r)
    /\ ~LeftByAdmin(r)
    /\ \A j \in (i + 1) .. Len(log) : ~Dismisses(log[j], r)
    => r \in Joined

(* The leaves the appservice makes come back to it as events and make it leave
   again; that dies out, retries and restarts included. *)
ComesToRest == <>[]AtRest
------------------------------------------------------------------------------
(* What the documents and comments promise and the code does not do. *)

(* README.md: with an empty whitelist only rooms of the local homeserver are
   joined, otherwise those of the listed domains too. *)
JoinsObeyWhitelist == Joined \subseteq LocalRooms \cup WhitelistedRooms
==============================================================================
