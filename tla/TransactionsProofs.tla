-------------------------- MODULE TransactionsProofs --------------------------
(***************************************************************************)
(* What holds of Transactions for every set of rooms, every hierarchy, and *)
(* every setting of the rules: its types; that every join, leave and       *)
(* verdict goes back to somebody who asked for it; and, whatever the       *)
(* batches, lost answers and restarts, that events are handled in order    *)
(* and none is skipped but by auto_join.                                   *)
(***************************************************************************)
EXTENDS Transactions, TLAPS

------------------------------------------------------------------------------
(* The homeserver. *)

(* Events are only ever added to the log. *)
Grows ==
  /\ Len(log) <= Len(log')
  /\ \A i \in 1 .. Len(log) : log'[i] = log[i]

(* A request that puts the user into no room. *)
JoinsNobody == \A s \in Rooms : membership'[s] = "join" => membership[s] = "join"

(* What appending an event does. *)
LEMMA AppendGrows ==
  ASSUME log \in Seq(Event), NEW e \in Event, log' = Append(log, e)
  PROVE  /\ log' \in Seq(Event)
         /\ Len(log') = Len(log) + 1
         /\ log'[Len(log) + 1] = e
         /\ Grows
  BY DEF Grows

(* A log that stays the same grows, too. *)
LEMMA StaysGrows ==
  ASSUME log \in Seq(Event), log' = log
  PROVE  Grows
  BY DEF Grows

(* The member events are events. *)
LEMMA MemberEventType ==
  ASSUME NEW kind \in MemberKinds, NEW r \in Rooms, NEW by \in {"user", "appservice"}
  PROVE  MemberEvent(kind, r, by) \in Event
  BY DEF MemberEvent, Event, Kinds, MemberKinds

(* Users never make the appservice's user join. *)
LEMMA UserActs ==
  ASSUME HomeserverTypeOK, NEW r \in Rooms, UserAct(r)
  PROVE  /\ HomeserverTypeOK'
         /\ JoinsNobody
         /\ \E e \in Event : e.sender = "user" /\ log' = Append(log, e)
<1> USE HomeserverAssumption DEF HomeserverTypeOK, JoinsNobody, Raise
<1>1. ASSUME NEW kind \in RoomKinds, RoomEvent(r, kind)
      PROVE  /\ HomeserverTypeOK'
             /\ JoinsNobody
             /\ \E e \in Event : e.sender = "user" /\ log' = Append(log, e)
  <2>1. PICK child \in Rooms :
          Raise([kind |-> kind, room |-> r, child |-> child, sender |-> "user"])
    BY <1>1 DEF RoomEvent
  <2>2. [kind |-> kind, room |-> r, child |-> child, sender |-> "user"] \in Event
    BY DEF Event, Kinds
  <2> QED
    BY <1>1, <2>1, <2>2, AppendGrows DEF RoomEvent
<1>2. ASSUME NEW kind \in MemberKinds, Raise(MemberEvent(kind, r, "user")),
             NEW m \in Membership \ {"join"}, membership' = [membership EXCEPT ![r] = m]
      PROVE  /\ HomeserverTypeOK'
             /\ JoinsNobody
             /\ \E e \in Event : e.sender = "user" /\ log' = Append(log, e)
  <2>1. MemberEvent(kind, r, "user") \in Event /\ MemberEvent(kind, r, "user").sender = "user"
    BY MemberEventType DEF MemberEvent
  <2>2. log' \in Seq(Event)
    BY <1>2, <2>1, AppendGrows
  <2>3. membership' \in [Rooms -> Membership] /\ JoinsNobody
    BY <1>2 DEF Membership
  <2> QED
    BY <1>2, <2>1, <2>2, <2>3
<1>3. CASE Invite(r)
  BY <1>2, <1>3 DEF Invite, MemberKinds, Membership
<1>4. CASE Kick(r)
  BY <1>2, <1>4 DEF Kick, MemberKinds, Membership
<1>5. CASE Ban(r)
  BY <1>2, <1>5 DEF Ban, MemberKinds, Membership
<1> QED
  BY <1>1, <1>3, <1>4, <1>5 DEF UserAct

(* A join concerns one room and leaves the log alone. *)
LEMMA JoinActs ==
  ASSUME HomeserverTypeOK, NEW r \in Rooms, NEW reply \in Replies, HsJoin(r, reply)
  PROVE  /\ HomeserverTypeOK'
         /\ log' = log
         /\ \A s \in Rooms : membership'[s] = "join" => membership[s] = "join" \/ s = r
  BY DEF HomeserverTypeOK, HsJoin, hsVars, Membership

(* A leave joins nothing and adds at most the leave of that room. *)
LEMMA LeaveActs ==
  ASSUME HomeserverTypeOK, NEW r \in Rooms, NEW reply \in Replies, HsLeave(r, reply)
  PROVE  /\ HomeserverTypeOK'
         /\ JoinsNobody
         /\ \/ log' = log
            \/ log' = Append(log, MemberEvent("leave", r, "appservice"))
<1>1. CASE UNCHANGED hsVars
  BY <1>1 DEF HomeserverTypeOK, hsVars, JoinsNobody
<1>2. CASE /\ membership' = [membership EXCEPT ![r] = "leave"]
           /\ log' = Append(log, MemberEvent("leave", r, "appservice"))
           /\ UNCHANGED raised
  <2>1. MemberEvent("leave", r, "appservice") \in Event
    BY MemberEventType DEF MemberKinds
  <2> QED
    BY <1>2, <2>1, AppendGrows DEF HomeserverTypeOK, JoinsNobody, Membership
<1> QED
  BY <1>1, <1>2 DEF HsLeave
------------------------------------------------------------------------------
(* Types. *)

(* The part of TypeOK about the transport. *)
TransportOK ==
  /\ acked \in Nat /\ sent \in Nat /\ cursor \in Nat
  /\ acked <= sent /\ sent <= Len(log)
  /\ pc \in {"idle", "dispatch", "join", "record", "leave", "respond"}
  /\ pc # "idle" => acked < cursor /\ cursor <= sent

(* Moving on keeps the cursor in the transaction. *)
LEMMA AdvanceActs ==
  ASSUME TypeOK, HomeserverTypeOK', Grows, pc # "idle", Advance
  PROVE  TransportOK' /\ pc' \in {"respond", "dispatch"} /\ handled' \subseteq Nat
<1>1. log \in Seq(Event) /\ log' \in Seq(Event)
  BY DEF TypeOK, HomeserverTypeOK
<1> QED
  BY <1>1 DEF TypeOK, HomeserverTypeOK, Advance, Grows, TransportOK

(* The event the handler is at is an event of the log. *)
LEMMA RoomType ==
  ASSUME TypeOK, pc # "idle"
  PROVE  CurrentEvent \in Event /\ Room \in Rooms
<1>1. log \in Seq(Event) /\ cursor \in 1 .. Len(log)
  BY DEF TypeOK, HomeserverTypeOK
<1>2. log[cursor] \in Event
  BY <1>1
<1> QED
  BY <1>2 DEF CurrentEvent, Room, Event

(* Transactions start with no types broken. *)
LEMMA InitType == Init => TypeOK
<1> SUFFICES ASSUME Init PROVE TypeOK
  OBVIOUS
<1> USE HomeserverAssumption, TransactionsAssumption
<1>1. HomeserverTypeOK
  BY DEF Init, HomeserverInit, HomeserverTypeOK, Membership
<1>2. leaving \in [Callers -> LeaveRun \cup {NotLeaving}]
  BY DEF Init
<1>3. joinedRooms \subseteq Rooms
  BY DEF Init, Joined, Unread
<1>4. cached \in [Rooms -> 0 .. VerdictTtl]
  BY DEF Init
<1>5. leaving["transaction"] = NotLeaving
  BY DEF Init, Callers
<1> QED
  BY <1>1, <1>2, <1>3, <1>4, <1>5 DEF Init, HomeserverInit, TypeOK

(* A step that leaves the homeserver alone. *)
LEMMA HsStays ==
  ASSUME HomeserverTypeOK, UNCHANGED hsVars
  PROVE  HomeserverTypeOK' /\ Grows /\ JoinsNobody
  BY StaysGrows DEF HomeserverTypeOK, hsVars, JoinsNobody

(* Every step of Next keeps the types. *)
LEMMA NextType == TypeOK /\ [Next]_vars => TypeOK'
<1> SUFFICES ASSUME TypeOK, [Next]_vars PROVE TypeOK'
  OBVIOUS
<1> USE HomeserverAssumption, TransactionsAssumption
<1>0. /\ HomeserverTypeOK
      /\ UNCHANGED hsVars => HomeserverTypeOK' /\ Grows
  BY HsStays DEF TypeOK
<1>1. CASE UserStep
  <2>1. HomeserverTypeOK' /\ Grows
    BY <1>0, <1>1, UserActs, AppendGrows DEF UserStep, HomeserverTypeOK
  <2> QED
    BY <1>1, <2>1 DEF UserStep, TypeOK, txnVars, histVars, Grows, HomeserverTypeOK
<1>2. CASE Deliver \/ Redeliver \/ Acknowledge
  <2>1. TransportOK' /\ pc # "leave" /\ pc' # "leave" /\ cuts' \subseteq Nat
    <3>1. CASE Deliver
      BY <3>1 DEF Deliver, TypeOK, TransportOK, hsVars, histVars
    <3>2. CASE Redeliver
      BY <3>2 DEF Redeliver, TypeOK, TransportOK, hsVars, histVars
    <3>3. CASE Acknowledge
      BY <3>3 DEF Acknowledge, TypeOK, TransportOK, hsVars
    <3> QED
      BY <1>2, <3>1, <3>2, <3>3
  <2>2. UNCHANGED <<hsVars, leaving, tasks, joinedRooms, cached, calls, breaks,
                    handled, adminJoins, adminLeaves>>
    BY <1>2 DEF Deliver, Redeliver, Acknowledge, histVars
  <2> QED
    BY <1>0, <2>1, <2>2 DEF TypeOK, TransportOK
<1>3. CASE SpawnJoin
  <2>1. [kind |-> CurrentEvent.kind, room |-> Room, event |-> cursor, attempt |-> breaks] \in Task
    BY <1>3, RoomType DEF SpawnJoin, At, AutoJoinKinds, Task, TaskKinds, TypeOK
  <2> QED
    BY <1>0, <1>3, <2>1 DEF SpawnJoin, Spawn, At, TypeOK, hsVars
<1>4. CASE SpawnRecache
  <2>1. [kind |-> CurrentEvent.kind, room |-> Room, event |-> cursor, attempt |-> breaks] \in Task
    BY <1>4, RoomType DEF SpawnRecache, At, Task, TaskKinds, TypeOK
  <2>2. TransportOK' /\ pc' \in {"respond", "dispatch"} /\ handled' \subseteq Nat
    BY <1>0, <1>4, AdvanceActs DEF SpawnRecache, At
  <2> QED
    BY <1>0, <1>4, <2>1, <2>2 DEF SpawnRecache, Spawn, At, TypeOK, TransportOK, hsVars, Advance
<1>5. CASE Banned \/ Skip
  <2>2. TransportOK' /\ pc' \in {"respond", "dispatch"} /\ handled' \subseteq Nat
    BY <1>0, <1>5, AdvanceActs DEF Banned, Skip, At
  <2> QED
    BY <1>0, <1>5, <2>2 DEF Banned, Skip, At, TypeOK, TransportOK, hsVars, Advance
<1>6. CASE StartJoin
  BY <1>0, <1>6 DEF StartJoin, At, TypeOK, hsVars, histVars
<1>7. CASE StartLeave
  <2>1. leaving' \in [Callers -> LeaveRun \cup {NotLeaving}] /\ leaving'["transaction"] # NotLeaving
    BY <1>7, RoomType DEF StartLeave, At, LeaveRun, NotLeaving, Callers, TypeOK
  <2> QED
    BY <1>0, <1>7, <2>1 DEF StartLeave, At, TypeOK, hsVars, histVars
<1>8. ASSUME NEW reply \in Replies, JoinPublic(reply) PROVE TypeOK'
  <2>1. HomeserverTypeOK' /\ Grows
    BY <1>0, <1>8, RoomType, JoinActs, StaysGrows DEF JoinPublic, At, HomeserverTypeOK
  <2>2. CASE reply = "ok"
    <3>1. pc = "join" /\ pc' = "record" /\ UNCHANGED <<acked, sent, cursor, histVars>>
      BY <1>8, <2>2 DEF JoinPublic, At
    <3>2. UNCHANGED <<leaving, tasks, joinedRooms, cached, calls, breaks>>
      BY <1>8 DEF JoinPublic
    <3> QED
      BY <2>1, <3>1, <3>2 DEF TypeOK, histVars, Grows, HomeserverTypeOK
  <2>3. CASE reply # "ok"
    <3>1. TransportOK' /\ pc' \in {"respond", "dispatch"} /\ handled' \subseteq Nat
      BY <1>8, <2>1, <2>3, AdvanceActs DEF JoinPublic, At
    <3> QED
      BY <1>8, <2>1, <2>3, <3>1 DEF JoinPublic, At, TypeOK, TransportOK, Advance
  <2> QED
    BY <2>2, <2>3
<1>9. ASSUME NEW reply \in Replies, JoinInvite(reply) PROVE TypeOK'
  <2>1. HomeserverTypeOK' /\ Grows /\ Room \in Rooms
    BY <1>0, <1>9, RoomType, JoinActs, StaysGrows DEF JoinInvite, At, HomeserverTypeOK
  <2>2. TransportOK' /\ pc' \in {"respond", "dispatch"} /\ handled' \subseteq Nat
    BY <1>9, <2>1, AdvanceActs DEF JoinInvite, At
  <2> QED
    BY <1>9, <2>1, <2>2 DEF JoinInvite, At, TypeOK, TransportOK, Advance
<1>10. CASE RecordPublic
  <2>1. TransportOK' /\ pc' \in {"respond", "dispatch"} /\ handled' \subseteq Nat
    BY <1>0, <1>10, AdvanceActs DEF RecordPublic
  <2> QED
    BY <1>0, <1>10, <2>1 DEF RecordPublic, CacheVerdict, TypeOK, TransportOK, hsVars, Advance
<1>11. CASE DeleteVerdict \/ ForgetRoom
  <2>1. TransportOK' /\ pc' \in {"respond", "dispatch"} /\ handled' \subseteq Nat
    BY <1>0, <1>11, AdvanceActs DEF DeleteVerdict, ForgetRoom, Left
  <2>2. cached' \in [Rooms -> 0 .. VerdictTtl] /\ joinedRooms' \subseteq Rooms
    BY <1>11 DEF DeleteVerdict, ForgetRoom, TypeOK
  <2>3. leaving' \in [Callers -> LeaveRun \cup {NotLeaving}] /\ leaving'["transaction"] = NotLeaving
    BY <1>11 DEF DeleteVerdict, ForgetRoom, Left, TypeOK, Callers
  <2> QED
    BY <1>0, <1>11, <2>1, <2>2, <2>3
       DEF DeleteVerdict, ForgetRoom, Left, TypeOK, TransportOK, hsVars, Advance
<1>12. ASSUME NEW c \in Callers, LeaveStep(c) PROVE TypeOK'
  <2>1. leaving[c] \in LeaveRun /\ leaving[c].room \in Rooms /\ leaving[c].todo \subseteq Rooms
    BY <1>12 DEF LeaveStep, GetHierarchy, LeaveChild, LeaveSelf, TypeOK, NotLeaving, LeaveRun
  <2>2. HomeserverTypeOK' /\ Grows
    <3>1. CASE GetHierarchy(c)
      BY <1>0, <3>1 DEF GetHierarchy, HsHierarchy
    <3>2. CASE LeaveChild(c)
      BY <1>0, <3>2, <2>1, LeaveActs, AppendGrows, StaysGrows, MemberEventType
         DEF LeaveChild, HomeserverTypeOK, MemberKinds
    <3>3. CASE LeaveSelf(c)
      BY <1>0, <3>3, <2>1, LeaveActs, AppendGrows, StaysGrows, MemberEventType
         DEF LeaveSelf, HomeserverTypeOK, MemberKinds
    <3> QED
      BY <1>12, <3>1, <3>2, <3>3 DEF LeaveStep
  <2>3. PICK run \in LeaveRun : leaving' = [leaving EXCEPT ![c] = run]
    <3>1. \A place \in {"children", "done"}, todo \in SUBSET Rooms :
            [at |-> place, room |-> leaving[c].room, todo |-> todo] \in LeaveRun
      BY <2>1 DEF LeaveRun
    <3>2. \A page \in Pages(leaving[c].room) : page \subseteq Rooms
      BY <2>1 DEF Pages, Listed
    <3> QED
      BY <1>12, <2>1, <3>1, <3>2 DEF LeaveStep, GetHierarchy, LeaveChild, LeaveSelf, Proceed
  <2>4. /\ leaving' \in [Callers -> LeaveRun \cup {NotLeaving}]
        /\ leaving'["transaction"] = NotLeaving <=> leaving["transaction"] = NotLeaving
    BY <2>1, <2>3 DEF TypeOK, Callers, NotLeaving, LeaveRun
  <2>5. UNCHANGED <<txnVars, tasks, joinedRooms, cached, calls, breaks, histVars>>
    BY <1>12 DEF LeaveStep, GetHierarchy, LeaveChild, LeaveSelf
  <2> QED
    BY <2>2, <2>4, <2>5 DEF TypeOK, txnVars, histVars, Grows, HomeserverTypeOK
<1>13. ASSUME NEW t \in tasks, RunTask(t) PROVE TypeOK'
  <2>1. HomeserverTypeOK' /\ Grows
    BY <1>0, <1>13, JoinActs, StaysGrows DEF RunTask, TypeOK, Task, HomeserverTypeOK
  <2> QED
    BY <1>13, <2>1 DEF RunTask, TypeOK, txnVars, histVars, Grows, HomeserverTypeOK
<1>14. ASSUME NEW r \in Rooms, AdminJoin(r) PROVE TypeOK'
  <2>1. HomeserverTypeOK' /\ Grows
    BY <1>0, <1>14, JoinActs, StaysGrows DEF AdminJoin, HomeserverTypeOK
  <2> QED
    BY <1>14, <2>1 DEF AdminJoin, TypeOK, txnVars, Grows, HomeserverTypeOK
<1>15. ASSUME NEW r \in Rooms, AdminLeave(r) PROVE TypeOK'
  <2>1. /\ leaving' \in [Callers -> LeaveRun \cup {NotLeaving}]
        /\ leaving'["transaction"] = leaving["transaction"]
    BY <1>15 DEF AdminLeave, TypeOK, Callers, LeaveRun
  <2> QED
    BY <1>0, <1>15, <2>1 DEF AdminLeave, TypeOK, txnVars, hsVars
<1>16. CASE AdminLeft \/ AdminDisconnect
  <2>1. /\ leaving' \in [Callers -> LeaveRun \cup {NotLeaving}]
        /\ leaving'["transaction"] = leaving["transaction"]
    BY <1>16 DEF AdminLeft, AdminDisconnect, TypeOK, Callers
  <2>2. breaks' \in Nat /\ UNCHANGED <<hsVars, txnVars, tasks, joinedRooms, cached, calls, histVars>>
    BY <1>16 DEF AdminLeft, AdminDisconnect, Break, TypeOK
  <2> QED
    BY <1>0, <2>1, <2>2 DEF TypeOK, txnVars, hsVars, histVars
<1>17. CASE Disconnect \/ Restart
  <2>1. HomeserverTypeOK' /\ Grows
    BY <1>0, <1>17, RoomType, JoinActs, StaysGrows
       DEF Disconnect, Restart, Unanswered, HomeserverTypeOK, Replies
  <2>2. leaving' \in [Callers -> LeaveRun \cup {NotLeaving}] /\ leaving'["transaction"] = NotLeaving
    BY <1>17 DEF Disconnect, Restart, TypeOK, Callers
  <2>3. joinedRooms' \subseteq Rooms /\ tasks' \subseteq Task
    BY <1>17 DEF Disconnect, Restart, Joined, Unread, TypeOK
  <2>4. pc' = "idle" /\ breaks' \in Nat /\ UNCHANGED <<acked, sent, cursor, cached, calls, histVars>>
    BY <1>17 DEF Disconnect, Restart, Break, TypeOK
  <2> QED
    BY <2>1, <2>2, <2>3, <2>4 DEF TypeOK, histVars, Grows, HomeserverTypeOK
<1>18. CASE Tick
  <2>1. cached' \in [Rooms -> 0 .. VerdictTtl]
    BY <1>18 DEF Tick, Expire, TypeOK
  <2> QED
    BY <1>0, <1>18, <2>1 DEF Tick, TypeOK, hsVars, txnVars, histVars
<1>19. CASE UNCHANGED vars
  BY <1>0, <1>19 DEF vars, TypeOK, txnVars, histVars, hsVars
<1> QED
  BY <1>1, <1>2, <1>3, <1>4, <1>5, <1>6, <1>7, <1>8, <1>9, <1>10, <1>11, <1>12, <1>13, <1>14,
     <1>15, <1>16, <1>17, <1>18, <1>19
     DEF Next, Work, HandlerStep, Callers

(* Types are kept by every behaviour: the handler stays inside the transaction
   it was sent, and is in leave_room exactly when it waits for it. *)
THEOREM TypeCorrect == Spec => []TypeOK
  BY InitType, NextType, PTL DEF Spec
------------------------------------------------------------------------------
(* Causes.  First: a cause, once there, stays. *)

(* What only grows: the log, what was sent, what admins did. *)
Monotone ==
  /\ Grows
  /\ sent <= sent' /\ sent' <= Len(log')
  /\ adminJoins \subseteq adminJoins' /\ adminLeaves \subseteq adminLeaves'

(* Every step only adds to the log, to what was sent, and to what admins asked. *)
LEMMA NextMonotone == TypeOK /\ [Next]_vars => Monotone
<1> SUFFICES ASSUME TypeOK, [Next]_vars PROVE Monotone
  OBVIOUS
<1>0. /\ HomeserverTypeOK
      /\ TypeOK'
      /\ UNCHANGED hsVars => Grows
  BY NextType, HsStays DEF TypeOK
<1>1. Grows
  <2>1. CASE UserStep
    BY <1>0, <2>1, UserActs, AppendGrows DEF UserStep, HomeserverTypeOK
  <2>2. ASSUME NEW r \in Rooms, NEW reply \in Replies, HsJoin(r, reply) PROVE Grows
    BY <1>0, <2>2, JoinActs, StaysGrows DEF HomeserverTypeOK
  <2>3. ASSUME NEW r \in Rooms, NEW reply \in Replies, HsLeave(r, reply) PROVE Grows
    BY <1>0, <2>3, LeaveActs, AppendGrows, StaysGrows, MemberEventType
       DEF HomeserverTypeOK, MemberKinds
  <2>4. ASSUME NEW c \in Callers, LeaveStep(c) PROVE Grows
    <3>1. leaving[c].room \in Rooms /\ leaving[c].todo \subseteq Rooms
      BY <2>4 DEF LeaveStep, GetHierarchy, LeaveChild, LeaveSelf, TypeOK, NotLeaving, LeaveRun
    <3> QED
      BY <1>0, <2>3, <2>4, <3>1 DEF LeaveStep, GetHierarchy, LeaveChild, LeaveSelf, HsHierarchy
  <2>5. ASSUME NEW reply \in Replies, JoinPublic(reply) \/ JoinInvite(reply) PROVE Grows
    BY <2>2, <2>5, RoomType DEF JoinPublic, JoinInvite, At
  <2>6. ASSUME NEW t \in tasks, RunTask(t) PROVE Grows
    BY <1>0, <2>2, <2>6 DEF RunTask, TypeOK, Task
  <2>7. ASSUME NEW r \in Rooms, AdminJoin(r) PROVE Grows
    BY <2>2, <2>7 DEF AdminJoin
  <2>8. CASE Disconnect \/ Restart
    BY <1>0, <2>2, <2>8, RoomType DEF Disconnect, Restart, Unanswered, Replies
  <2>9. CASE UNCHANGED hsVars
    BY <1>0, <2>9
  <2>10. CASE HandlerStep
    BY <2>4, <2>5, <2>9, <2>10
       DEF HandlerStep, SpawnJoin, SpawnRecache, Banned, Skip, StartJoin, StartLeave, RecordPublic,
           DeleteVerdict, ForgetRoom, Left, Acknowledge, Callers
  <2> QED
    BY <2>1, <2>4, <2>6, <2>7, <2>8, <2>9, <2>10
       DEF Next, Work, Deliver, Redeliver, AdminLeave, AdminLeft, AdminDisconnect, Tick, vars, Callers
<1>2. sent <= sent' /\ adminJoins \subseteq adminJoins' /\ adminLeaves \subseteq adminLeaves'
  <2>1. CASE Deliver
    BY <2>1 DEF Deliver, TypeOK, HomeserverTypeOK, histVars
  <2>2. CASE HandlerStep
    BY <2>2 DEF HandlerStep, SpawnJoin, SpawnRecache, Banned, Skip, StartJoin, StartLeave, JoinPublic,
       JoinInvite, RecordPublic, DeleteVerdict, ForgetRoom, Left, Acknowledge, LeaveStep,
       GetHierarchy, LeaveChild, LeaveSelf, Advance, TypeOK, txnVars, histVars
  <2>3. CASE Next /\ ~Deliver /\ ~HandlerStep
    BY <2>3 DEF Next, Work, UserStep, Redeliver, RunTask, AdminJoin, AdminLeave, LeaveStep,
       GetHierarchy, LeaveChild, LeaveSelf, AdminLeft, AdminDisconnect, Disconnect, Restart, Tick,
       TypeOK, txnVars, histVars
  <2> QED
    BY <2>1, <2>2, <2>3 DEF vars, TypeOK, txnVars, histVars
<1> QED
  BY <1>0, <1>1, <1>2 DEF Monotone, TypeOK

(* Who was asked in stays asked in. *)
LEMMA AskedInStays ==
  ASSUME TypeOK, TypeOK', Monotone, NEW r \in Rooms, AskedIn(r)
  PROVE  AskedIn(r)'
<1>1. CASE r \in BootRooms \cup adminJoins
  BY <1>1 DEF AskedIn, Monotone
<1>2. ASSUME NEW i \in 1 .. sent, AsksIn(log[i], r)
      PROVE  AskedIn(r)'
  <2>1. i \in 1 .. sent' /\ log'[i] = log[i]
    BY DEF TypeOK, HomeserverTypeOK, Monotone, Grows
  <2>2. AsksIn(log'[i], r)
    BY <1>2, <2>1
  <2> QED
    BY <2>1, <2>2 DEF AskedIn, AsksIn, Ignored
<1> QED
  BY <1>1, <1>2 DEF AskedIn

(* An event that asks the user into its room has asked once it was sent. *)
LEMMA SentAsks ==
  ASSUME TypeOK, pc # "idle", AsksIn(CurrentEvent, Room)
  PROVE  AskedIn(Room)
  BY DEF TypeOK, CurrentEvent, AskedIn

------------------------------------------------------------------------------
(* Nothing is raised or sent before the first step. *)
LEMMA InitCauses == Init => Causes
<1> SUFFICES ASSUME Init PROVE Causes
  OBVIOUS
<1>1. TypeOK
  BY InitType
<1>2. HandlerHasCause /\ LeavingHasCause /\ TasksHaveCause /\ VerdictHasCause
  BY DEF Init, HandlerHasCause, LeavingHasCause, TasksHaveCause, VerdictHasCause
<1>3. JoinHasCause
  BY DEF Init, HomeserverInit, JoinHasCause, Joined, AskedIn
<1>4. LeaveHasCause
  BY DEF Init, HomeserverInit, LeaveHasCause
<1> QED
  BY <1>1, <1>2, <1>3, <1>4 DEF Causes, JoinCauses

(* The handler joins for an event that asks, and records for one that says
   public: true. *)
LEMMA NextHandler ==
  ASSUME JoinCauses, [Next]_vars
  PROVE  HandlerHasCause'
<1>1. TypeOK /\ HandlerHasCause /\ Monotone
  BY NextMonotone DEF JoinCauses
<1>2. CASE pc' \notin {"join", "record"}
  BY <1>2 DEF HandlerHasCause
<1>3. CASE pc' = pc /\ cursor' = cursor /\ pc # "idle"
  <2>1. log'[cursor] = log[cursor]
    BY <1>1, <1>3 DEF TypeOK, HomeserverTypeOK, Monotone, Grows
  <2> QED
    BY <1>1, <1>3, <2>1 DEF HandlerHasCause, CurrentEvent, Room, AsksIn, Ignored
<1>4. CASE StartJoin
  BY <1>4 DEF StartJoin, At, HandlerHasCause, CurrentEvent, Room, AsksIn, Ignored, hsVars
<1>5. ASSUME NEW reply \in Replies, JoinPublic(reply)
      PROVE  HandlerHasCause'
  <2>1. CASE pc' = "record"
    <3>1. cursor' = cursor /\ log'[cursor] = log[cursor] /\ CurrentEvent.kind = "public_true"
      BY <1>1, <1>5, <2>1 DEF JoinPublic, At, Advance, TypeOK, HomeserverTypeOK, Monotone, Grows
    <3> QED
      BY <2>1, <3>1 DEF HandlerHasCause, CurrentEvent
  <2>2. CASE pc' # "record"
    BY <1>2, <1>5, <2>2 DEF JoinPublic, Advance, At
  <2> QED
    BY <2>1, <2>2
<1>6. CASE HandlerStep
  BY <1>2, <1>3, <1>4, <1>5, <1>6
     DEF HandlerStep, SpawnJoin, SpawnRecache, Banned, Skip, StartLeave, JoinInvite, RecordPublic,
         DeleteVerdict, ForgetRoom, Left, Advance, Acknowledge, LeaveStep, GetHierarchy, LeaveChild,
         LeaveSelf, txnVars
<1>7. CASE UNCHANGED txnVars
  BY <1>1, <1>2, <1>3, <1>7 DEF txnVars, TypeOK
<1> QED
  BY <1>2, <1>6, <1>7
     DEF Next, Work, UserStep, Deliver, Redeliver, RunTask, AdminJoin, AdminLeave, LeaveStep,
         GetHierarchy, LeaveChild, LeaveSelf, AdminLeft, AdminDisconnect, Disconnect, Restart,
         Tick, vars

(* leave_room works on a room somebody asked the user out of, and its children. *)
LEMMA NextLeaving ==
  ASSUME JoinCauses, [Next]_vars
  PROVE  LeavingHasCause'
<1> USE HomeserverAssumption
<1>1. TypeOK /\ LeavingHasCause /\ Monotone
  BY NextMonotone DEF JoinCauses
<1>2. CASE StartLeave
  <2>1. /\ leaving'["transaction"] = [at |-> "hierarchy", room |-> Room, todo |-> {}]
        /\ leaving'["admin"] = leaving["admin"]
        /\ UNCHANGED <<log, cursor, adminLeaves>>
    BY <1>1, <1>2 DEF StartLeave, TypeOK, Callers, hsVars, histVars
  <2>2. AsksOut(CurrentEvent, Room)
    BY <1>2 DEF StartLeave, At, AsksOut, Room, Ignored
  <2> QED
    BY <1>1, <2>1, <2>2 DEF LeavingHasCause, Callers, CurrentEvent, Room, AsksOut, Ignored
<1>3. ASSUME NEW r \in Rooms, AdminLeave(r)
      PROVE  LeavingHasCause'
  <2>1. /\ leaving'["admin"] = [at |-> "hierarchy", room |-> r, todo |-> {}]
        /\ leaving'["transaction"] = leaving["transaction"]
        /\ UNCHANGED <<log, cursor>> /\ adminLeaves' = adminLeaves \cup {r}
    BY <1>1, <1>3 DEF AdminLeave, TypeOK, Callers, hsVars, txnVars
  <2> QED
    BY <1>1, <2>1 DEF LeavingHasCause, Callers, CurrentEvent, Room, AsksOut, Ignored
<1>4. ASSUME NEW c \in Callers, LeaveStep(c)
      PROVE  LeavingHasCause'
  <2>1. leaving[c] \in LeaveRun /\ leaving[c] # NotLeaving
    BY <1>1, <1>4 DEF LeaveStep, GetHierarchy, LeaveChild, LeaveSelf, TypeOK, NotLeaving, LeaveRun
  <2>2. PICK place \in {"children", "done"}, todo \in SUBSET Children[leaving[c].room] :
          Proceed(c, place, todo)
    <3>1. leaving[c].todo \subseteq Children[leaving[c].room]
      BY <1>1, <2>1 DEF LeavingHasCause
    <3>2. \A page \in Pages(leaving[c].room) : page \in SUBSET Children[leaving[c].room]
      BY DEF Pages, Listed
    <3>3. \E place \in {"children", "done"}, todo \in SUBSET Children[leaving[c].room] :
            Proceed(c, place, todo)
      <4>1. CASE GetHierarchy(c)
        BY <3>2, <4>1 DEF GetHierarchy
      <4>2. CASE LeaveChild(c)
        <5>1. PICK r \in leaving[c].todo, reply \in Replies :
                IF reply = "ok" THEN Proceed(c, "children", leaving[c].todo \ {r})
                                ELSE Proceed(c, "done", {})
          BY <4>2 DEF LeaveChild
        <5>2. leaving[c].todo \ {r} \in SUBSET Children[leaving[c].room]
          BY <3>1
        <5> QED
          BY <5>1, <5>2
      <4>3. CASE LeaveSelf(c)
        BY <4>3 DEF LeaveSelf
      <4> QED
        BY <1>4, <4>1, <4>2, <4>3 DEF LeaveStep
    <3> QED
      BY <3>3
  <2>3. /\ leaving'[c] = [at |-> place, room |-> leaving[c].room, todo |-> todo]
        /\ \A d \in Callers \ {c} : leaving'[d] = leaving[d]
    BY <1>1, <2>2 DEF Proceed, TypeOK
  <2>4. UNCHANGED <<pc, cursor, adminLeaves>>
    BY <1>4 DEF LeaveStep, GetHierarchy, LeaveChild, LeaveSelf, txnVars, histVars
  <2>5. leaving["transaction"] # NotLeaving => log'[cursor] = log[cursor]
    BY <1>1 DEF TypeOK, HomeserverTypeOK, Monotone, Grows
  <2> QED
    BY <1>1, <2>1, <2>2, <2>3, <2>4, <2>5
       DEF LeavingHasCause, CurrentEvent, Room, AsksOut, Ignored
<1>5. CASE /\ leaving' \in {leaving, [leaving EXCEPT !["transaction"] = NotLeaving],
                            [leaving EXCEPT !["admin"] = NotLeaving],
                            [c \in Callers |-> NotLeaving]}
           /\ adminLeaves' = adminLeaves
           /\ leaving'["transaction"] # NotLeaving => cursor' = cursor
  <2>1. \A c \in Callers : leaving'[c] = NotLeaving \/ leaving'[c] = leaving[c]
    BY <1>1, <1>5 DEF TypeOK
  <2>2. leaving'["transaction"] # NotLeaving => cursor' = cursor /\ log'[cursor] = log[cursor]
    BY <1>1, <1>5, <2>1 DEF TypeOK, HomeserverTypeOK, Monotone, Grows, Callers
  <2> QED
    BY <1>1, <1>5, <2>1, <2>2 DEF LeavingHasCause, CurrentEvent, Room, AsksOut, Ignored
<1>6. CASE HandlerStep /\ pc # "leave"
  <2>1. leaving["transaction"] = NotLeaving
    BY <1>1, <1>6 DEF TypeOK
  <2>2. CASE StartLeave \/ LeaveStep("transaction")
    BY <1>2, <1>4, <2>2 DEF Callers
  <2>3. CASE leaving' = leaving /\ adminLeaves' = adminLeaves
    BY <1>5, <2>1, <2>3
  <2> QED
    BY <1>6, <2>2, <2>3
       DEF HandlerStep, SpawnJoin, SpawnRecache, Banned, Skip, StartJoin, JoinPublic, JoinInvite,
           RecordPublic, DeleteVerdict, ForgetRoom, At, Advance, Acknowledge, histVars
<1>7. CASE HandlerStep /\ pc = "leave"
  <2>1. CASE LeaveStep("transaction")
    BY <1>4, <2>1 DEF Callers
  <2>2. CASE DeleteVerdict \/ ForgetRoom
    <3>1. leaving'["transaction"] = NotLeaving
      BY <1>1, <2>2 DEF DeleteVerdict, ForgetRoom, Left, TypeOK, Callers
    <3> QED
      BY <1>5, <2>2, <3>1 DEF DeleteVerdict, ForgetRoom, Left, Advance
  <2> QED
    BY <1>7, <2>1, <2>2
       DEF HandlerStep, SpawnJoin, SpawnRecache, Banned, Skip, StartJoin, StartLeave, JoinPublic,
           JoinInvite, RecordPublic, At, Acknowledge
<1>8. CASE Deliver \/ Redeliver
  BY <1>1, <1>5, <1>8 DEF Deliver, Redeliver, TypeOK, histVars
<1>9. CASE UserStep \/ Tick \/ AdminLeft \/ AdminDisconnect \/ Disconnect \/ Restart
  BY <1>5, <1>9
     DEF UserStep, Tick, AdminLeft, AdminDisconnect, Disconnect, Restart, txnVars, histVars
<1>10. CASE (\E t \in tasks : RunTask(t)) \/ (\E r \in Rooms : AdminJoin(r))
  BY <1>5, <1>10 DEF RunTask, AdminJoin, txnVars, histVars
<1>11. CASE UNCHANGED vars
  BY <1>5, <1>11 DEF vars, txnVars, histVars
<1> QED
  BY <1>3, <1>4, <1>6, <1>7, <1>8, <1>9, <1>10, <1>11 DEF Next, Work, Callers

(* A task joins a room somebody asked the user into. *)
LEMMA NextTasks ==
  ASSUME JoinCauses, [Next]_vars
  PROVE  TasksHaveCause'
<1>1. TypeOK /\ TypeOK' /\ TasksHaveCause /\ Monotone
  BY NextMonotone, NextType DEF JoinCauses
<1>2. \A t \in tasks : t.kind \in AutoJoinKinds => AskedIn(t.room)'
  BY <1>1, AskedInStays DEF TasksHaveCause, TypeOK, Task
<1>3. CASE tasks' \subseteq tasks
  BY <1>2, <1>3 DEF TasksHaveCause
<1>4. CASE SpawnJoin \/ SpawnRecache
  <2>1. pc = "dispatch" /\ Room \in Rooms
    BY <1>1, <1>4, RoomType DEF SpawnJoin, SpawnRecache, At
  <2>2. CurrentEvent.kind \in AutoJoinKinds => AskedIn(Room)
    BY <1>1, <1>4, <2>1, SentAsks DEF SpawnJoin, SpawnRecache, At, AsksIn, Room, AutoJoinKinds
  <2>3. \A r \in Rooms : r = Room /\ CurrentEvent.kind \in AutoJoinKinds => AskedIn(r)'
    BY <1>1, <2>2, AskedInStays
  <2>4. tasks' = tasks \cup {[kind |-> CurrentEvent.kind, room |-> Room,
                              event |-> cursor, attempt |-> breaks]}
    BY <1>4 DEF SpawnJoin, SpawnRecache, Spawn
  <2>5. ASSUME NEW t \in tasks', t.kind \in AutoJoinKinds
        PROVE  AskedIn(t.room)'
    BY <1>2, <2>1, <2>3, <2>4, <2>5
  <2> QED
    BY <2>5 DEF TasksHaveCause
<1> QED
  BY <1>3, <1>4
     DEF Next, Work, HandlerStep, Banned, Skip, StartJoin, StartLeave, JoinPublic, JoinInvite,
         RecordPublic, DeleteVerdict, ForgetRoom, Left, Acknowledge, UserStep, Deliver, Redeliver,
         RunTask, AdminJoin, AdminLeave, LeaveStep, GetHierarchy, LeaveChild, LeaveSelf, AdminLeft,
         AdminDisconnect, Disconnect, Restart, Tick, vars

(* A step makes the user join only where it was asked in. *)
LEMMA NextJoin ==
  ASSUME JoinCauses, [Next]_vars
  PROVE  JoinHasCause'
<1>1. TypeOK /\ TypeOK' /\ Monotone /\ HandlerHasCause /\ TasksHaveCause /\ JoinHasCause
  BY NextMonotone, NextType DEF JoinCauses
<1> SUFFICES ASSUME NEW r \in Rooms, membership'[r] = "join"
             PROVE  AskedIn(r)'
  BY DEF JoinHasCause, Joined
<1> DEFINE Before == membership[r] = "join" \/ AskedIn(r)
<1>2. Before => AskedIn(r)'
  BY <1>1, AskedInStays DEF JoinHasCause, Joined
<1>3. ASSUME NEW s \in Rooms, NEW reply \in Replies, HsJoin(s, reply)
      PROVE  membership[r] = "join" \/ r = s
  BY <1>1, <1>3, JoinActs DEF TypeOK
<1>4. CASE UserStep
  BY <1>1, <1>2, <1>4, UserActs DEF UserStep, TypeOK, JoinsNobody
<1>5. ASSUME NEW c \in Callers, LeaveStep(c)
      PROVE  AskedIn(r)'
  <2>1. leaving[c].room \in Rooms /\ leaving[c].todo \subseteq Rooms
    BY <1>1, <1>5 DEF LeaveStep, GetHierarchy, LeaveChild, LeaveSelf, TypeOK, NotLeaving, LeaveRun
  <2>2. JoinsNobody
    <3>1. CASE GetHierarchy(c)
      BY <3>1 DEF GetHierarchy, HsHierarchy, hsVars, JoinsNobody
    <3>2. CASE LeaveChild(c)
      BY <1>1, <2>1, <3>2, LeaveActs DEF LeaveChild, TypeOK
    <3>3. CASE LeaveSelf(c)
      BY <1>1, <2>1, <3>3, LeaveActs DEF LeaveSelf, TypeOK
    <3> QED
      BY <1>5, <3>1, <3>2, <3>3 DEF LeaveStep
  <2> QED
    BY <1>2, <2>2 DEF JoinsNobody
<1>6. CASE pc = "join" /\ \E reply \in Replies : HsJoin(Room, reply)
  <2>1. Room \in Rooms /\ AskedIn(Room)
    BY <1>1, <1>6, RoomType, SentAsks DEF HandlerHasCause
  <2> QED
    BY <1>2, <1>3, <1>6, <2>1
<1>7. ASSUME NEW t \in tasks, RunTask(t)
      PROVE  AskedIn(r)'
  <2>1. t.room \in Rooms /\ (t.kind \in AutoJoinKinds => AskedIn(t.room))
    BY <1>1 DEF TypeOK, Task, TasksHaveCause
  <2>2. CASE t.kind \in AutoJoinKinds
    BY <1>2, <1>3, <1>7, <2>1, <2>2 DEF RunTask
  <2>3. CASE t.kind \notin AutoJoinKinds
    BY <1>2, <1>7, <2>3 DEF RunTask, hsVars
  <2> QED
    BY <2>2, <2>3
<1>8. ASSUME NEW s \in Rooms, AdminJoin(s)
      PROVE  AskedIn(r)'
  <2>1. r = s => r \in adminJoins'
    BY <1>8 DEF AdminJoin
  <2>2. r \in adminJoins' => AskedIn(r)'
    BY DEF AskedIn
  <2> QED
    BY <1>2, <1>3, <1>8, <2>1, <2>2 DEF AdminJoin
<1>9. CASE UNCHANGED hsVars
  BY <1>2, <1>9 DEF hsVars
<1>10. CASE HandlerStep
  BY <1>5, <1>6, <1>9, <1>10
     DEF HandlerStep, SpawnJoin, SpawnRecache, Banned, Skip, StartJoin, StartLeave, JoinPublic,
         JoinInvite, At, RecordPublic, DeleteVerdict, ForgetRoom, Left, Acknowledge, Callers
<1>11. CASE Disconnect \/ Restart
  BY <1>6, <1>9, <1>11 DEF Disconnect, Restart, Unanswered, Replies
<1> QED
  BY <1>4, <1>5, <1>7, <1>8, <1>9, <1>10, <1>11
     DEF Next, Work, Deliver, Redeliver, AdminLeave, AdminLeft, AdminDisconnect, Tick, vars, Callers

(* A verdict is written for the event the handler is at, and only then. *)
LEMMA VerdictStep ==
  ASSUME TypeOK, [Next]_vars, NEW r \in Rooms, cached'[r] > cached[r]
  PROVE  pc = "record" /\ r = Room
<1>1. cached \in [Rooms -> 0 .. VerdictTtl]
  BY DEF TypeOK
<1>2. CASE RecordPublic
  BY <1>1, <1>2 DEF RecordPublic, CacheVerdict
<1>3. CASE ~RecordPublic
  <2>1. cached' # cached
    BY <1>1
  <2>2. ~Tick
    BY <1>1, TransactionsAssumption DEF Tick, Expire
  <2>3. ~DeleteVerdict
    BY <1>1, TransactionsAssumption DEF DeleteVerdict
  <2>4. ~HandlerStep
    BY <1>3, <2>1, <2>3
       DEF HandlerStep, SpawnJoin, SpawnRecache, Banned, Skip, StartJoin, StartLeave, JoinPublic,
           JoinInvite, ForgetRoom, Acknowledge, LeaveStep, GetHierarchy, LeaveChild, LeaveSelf
  <2> QED
    BY <2>1, <2>2, <2>4
       DEF Next, Work, UserStep, Deliver, Redeliver, RunTask, AdminJoin, AdminLeave, LeaveStep,
           GetHierarchy, LeaveChild, LeaveSelf, AdminLeft, AdminDisconnect, Disconnect, Restart,
           vars
<1> QED
  BY <1>2, <1>3

(* So a verdict goes back to the public: true the handler is at, or was there
   before. *)
LEMMA NextVerdict ==
  ASSUME Causes, [Next]_vars
  PROVE  VerdictHasCause'
<1>1. TypeOK /\ TypeOK' /\ Monotone /\ HandlerHasCause /\ VerdictHasCause
  BY NextMonotone, NextType DEF Causes, JoinCauses
<1> SUFFICES ASSUME NEW r \in Rooms, cached'[r] > 0
             PROVE  \E i \in 1 .. sent' : log'[i].room = r /\ log'[i].kind = "public_true"
  BY DEF VerdictHasCause
<1>2. ASSUME NEW i \in 1 .. sent, log[i].room = r, log[i].kind = "public_true"
      PROVE  \E k \in 1 .. sent' : log'[k].room = r /\ log'[k].kind = "public_true"
  <2>1. i \in 1 .. sent' /\ log'[i] = log[i]
    BY <1>1 DEF TypeOK, HomeserverTypeOK, Monotone, Grows
  <2> QED
    BY <1>2, <2>1
<1>3. CASE cached[r] > 0
  BY <1>1, <1>2, <1>3 DEF VerdictHasCause
<1>4. CASE cached'[r] > cached[r]
  <2>1. cursor \in 1 .. sent /\ CurrentEvent.kind = "public_true" /\ r = Room
    BY <1>1, <1>4, VerdictStep DEF HandlerHasCause, TypeOK
  <2> QED
    BY <1>2, <2>1 DEF Room, CurrentEvent
<1> QED
  BY <1>1, <1>3, <1>4 DEF TypeOK

(* The handler comes to record a verdict from a join of the same room. *)
LEMMA RecordStep ==
  ASSUME TypeOK, [Next]_vars, pc' = "record"
  PROVE  /\ pc # "idle" /\ Room' = Room
         /\ pc = "record" \/ Room \in Joined'
<1>1. ASSUME cursor' = cursor, pc # "idle" PROVE Room' = Room
  <2>1. cursor \in 1 .. Len(log)
    BY <1>1 DEF TypeOK, HomeserverTypeOK
  <2>2. \A i \in 1 .. Len(log) : log'[i] = log[i]
    BY NextMonotone DEF Monotone, Grows
  <2> QED
    BY <1>1, <2>1, <2>2 DEF Room, CurrentEvent
<1>2. CASE UNCHANGED txnVars
  BY <1>1, <1>2 DEF txnVars
<1>3. ASSUME NEW reply \in Replies, JoinPublic(reply)
      PROVE  cursor' = cursor /\ pc # "idle" /\ Room \in Joined'
  <2>1. reply = "ok" /\ UNCHANGED cursor /\ pc = "join"
    BY <1>3 DEF JoinPublic, Advance, At
  <2>2. Room \in Rooms /\ membership \in [Rooms -> Membership]
    BY <2>1, RoomType DEF TypeOK, HomeserverTypeOK
  <2>3. membership' = [membership EXCEPT ![Room] = "join"]
    BY <1>3, <2>1 DEF JoinPublic, HsJoin
  <2> QED
    BY <2>1, <2>2, <2>3 DEF Joined
<1>4. ~StartJoin /\ ~StartLeave /\ ~RecordPublic /\ ~Acknowledge /\ ~SpawnJoin /\ ~SpawnRecache
      /\ ~Banned /\ ~Skip /\ ~DeleteVerdict /\ ~ForgetRoom
  BY DEF StartJoin, StartLeave, RecordPublic, Acknowledge, SpawnJoin, SpawnRecache, Banned, Skip,
         DeleteVerdict, ForgetRoom, Left, Advance
<1>5. \A reply \in Replies : ~JoinInvite(reply)
  BY DEF JoinInvite, Advance
<1>6. CASE HandlerStep
  <2>1. UNCHANGED txnVars \/ \E reply \in Replies : JoinPublic(reply)
    BY <1>4, <1>5, <1>6 DEF HandlerStep, LeaveStep, GetHierarchy, LeaveChild, LeaveSelf
  <2> QED
    BY <1>1, <1>2, <1>3, <2>1
<1>7. CASE ~HandlerStep
  <2>1. UNCHANGED txnVars \/ pc' \in {"dispatch", "idle"}
    BY <1>7
       DEF Next, Work, UserStep, Deliver, Redeliver, RunTask, AdminJoin, AdminLeave, LeaveStep,
           GetHierarchy, LeaveChild, LeaveSelf, AdminLeft, AdminDisconnect, Disconnect, Restart,
           Tick, vars
  <2> QED
    BY <1>2, <2>1
<1> QED
  BY <1>6, <1>7

(* What a step adds to the log: nothing, an event a user caused, or the leave
   of a room leave_room is working on. *)
LEMMA LogStep ==
  ASSUME TypeOK, [Next]_vars
  PROVE  \/ log' = log
         \/ UserStep /\ \E e \in Event : e.sender = "user" /\ log' = Append(log, e)
         \/ \E c \in Callers : /\ leaving[c] # NotLeaving
                               /\ \E r \in {leaving[c].room} \cup leaving[c].todo :
                                    log' = Append(log, MemberEvent("leave", r, "appservice"))
<1> DEFINE Added ==
      \/ log' = log
      \/ UserStep /\ \E e \in Event : e.sender = "user" /\ log' = Append(log, e)
      \/ \E c \in Callers : /\ leaving[c] # NotLeaving
                            /\ \E r \in {leaving[c].room} \cup leaving[c].todo :
                                 log' = Append(log, MemberEvent("leave", r, "appservice"))
<1> SUFFICES Added
  OBVIOUS
<1>1. HomeserverTypeOK
  BY DEF TypeOK
<1>2. CASE UserStep
  BY <1>1, <1>2, UserActs DEF UserStep
<1>3. ASSUME NEW c \in Callers, LeaveStep(c)
      PROVE  Added
  <2>1. /\ leaving[c] # NotLeaving
        /\ leaving[c].room \in Rooms /\ leaving[c].todo \subseteq Rooms
    BY <1>3 DEF LeaveStep, GetHierarchy, LeaveChild, LeaveSelf, TypeOK, NotLeaving, LeaveRun
  <2>2. CASE GetHierarchy(c)
    BY <2>2 DEF GetHierarchy, HsHierarchy, hsVars
  <2>3. CASE LeaveChild(c)
    <3>1. PICK r \in leaving[c].todo, reply \in Replies : HsLeave(r, reply)
      BY <2>3 DEF LeaveChild
    <3> QED
      BY <1>1, <2>1, <3>1, LeaveActs
  <2>4. CASE LeaveSelf(c)
    BY <1>1, <2>1, <2>4, LeaveActs DEF LeaveSelf
  <2> QED
    BY <1>3, <2>2, <2>3, <2>4 DEF LeaveStep
<1>4. ASSUME NEW r \in Rooms, NEW reply \in Replies, HsJoin(r, reply)
      PROVE  log' = log
  BY <1>1, <1>4, JoinActs
<1>5. CASE HandlerStep
  <2>1. ASSUME NEW reply \in Replies, JoinPublic(reply) \/ JoinInvite(reply)
        PROVE  log' = log
    BY <1>4, <2>1, RoomType DEF JoinPublic, JoinInvite, At
  <2> QED
    BY <1>3, <1>5, <2>1
       DEF HandlerStep, SpawnJoin, SpawnRecache, Banned, Skip, StartJoin, StartLeave, RecordPublic,
           DeleteVerdict, ForgetRoom, Left, Acknowledge, Callers, hsVars
<1>6. ASSUME NEW t \in tasks, RunTask(t)
      PROVE  log' = log
  BY <1>4, <1>6 DEF RunTask, TypeOK, Task, hsVars
<1>7. ASSUME NEW r \in Rooms, AdminJoin(r)
      PROVE  log' = log
  BY <1>4, <1>7 DEF AdminJoin
<1>8. CASE Disconnect \/ Restart
  BY <1>4, <1>8, RoomType DEF Disconnect, Restart, Unanswered, Replies, hsVars
<1> QED
  BY <1>2, <1>3, <1>5, <1>6, <1>7, <1>8
     DEF Next, Work, Deliver, Redeliver, AdminLeave, AdminLeft, AdminDisconnect, Tick, vars, hsVars,
         Callers

(* A leave the appservice adds to the log was asked for earlier in the log, or
   by an admin. *)
LEMMA NextLeave ==
  ASSUME Causes, [Next]_vars
  PROVE  LeaveHasCause'
<1>1. TypeOK /\ Monotone /\ LeavingHasCause /\ LeaveHasCause /\ log \in Seq(Event)
  BY NextMonotone DEF Causes, JoinCauses, TypeOK, HomeserverTypeOK
<1> DEFINE HasCause(e, before) ==
      \/ \E r \in adminLeaves' : e.room \in {r} \cup Children[r]
      \/ \E j \in 1 .. before : AsksOut(log'[j], e.room)
<1>2. ASSUME NEW i \in 1 .. Len(log), log'[i].sender = "appservice"
      PROVE  HasCause(log'[i], i - 1)
  <2>1. log'[i] = log[i] /\ \A j \in 1 .. (i - 1) : log'[j] = log[j]
    BY <1>1 DEF Monotone, Grows
  <2> QED
    BY <1>1, <1>2, <2>1 DEF LeaveHasCause, Monotone
<1>3. ASSUME NEW c \in Callers, leaving[c] # NotLeaving,
             NEW r \in {leaving[c].room} \cup leaving[c].todo,
             log' = Append(log, MemberEvent("leave", r, "appservice"))
      PROVE  HasCause(log'[Len(log) + 1], Len(log))
  <2>1. log'[Len(log) + 1].room = r
    BY <1>1, <1>3 DEF MemberEvent
  <2>2. r = leaving[c].room \/ r \in Children[leaving[c].room]
    BY <1>1, <1>3 DEF LeavingHasCause
  <2>3. CASE c = "admin"
    BY <1>1, <1>3, <2>1, <2>2, <2>3 DEF LeavingHasCause, Monotone
  <2>4. CASE c = "transaction"
    <3>1. leaving[c].room = Room /\ AsksOut(CurrentEvent, Room)
      BY <1>1, <1>3, <2>4 DEF LeavingHasCause
    <3>2. cursor \in 1 .. Len(log) /\ log'[cursor] = CurrentEvent
      BY <1>1, <1>3, <2>4 DEF TypeOK, Monotone, Grows, CurrentEvent
    <3>3. AsksOut(CurrentEvent, r)
      BY <2>2, <3>1 DEF AsksOut, Room
    <3> QED
      BY <2>1, <3>2, <3>3
  <2> QED
    BY <2>3, <2>4 DEF Callers
<1>4. ASSUME NEW i \in 1 .. Len(log'), log'[i].sender = "appservice"
      PROVE  HasCause(log'[i], i - 1)
  <2>1. CASE i \in 1 .. Len(log)
    BY <1>2, <1>4, <2>1
  <2>2. CASE i \notin 1 .. Len(log)
    <3>1. ASSUME NEW e, log' = Append(log, e)
          PROVE  i = Len(log) + 1 /\ i - 1 = Len(log) /\ log'[i] = e
      BY <1>1, <2>2, <3>1
    <3>2. log' # log
      BY <2>2
    <3>3. CASE \E e \in Event : e.sender = "user" /\ log' = Append(log, e)
      BY <1>4, <3>1, <3>3
    <3>4. CASE \E c \in Callers :
                 /\ leaving[c] # NotLeaving
                 /\ \E r \in {leaving[c].room} \cup leaving[c].todo :
                      log' = Append(log, MemberEvent("leave", r, "appservice"))
      <4>1. i = Len(log) + 1 /\ i - 1 = Len(log)
        BY <3>1, <3>4
      <4>2. HasCause(log'[Len(log) + 1], Len(log))
        BY <1>3, <3>4
      <4> QED
        BY <4>1, <4>2
    <3> QED
      BY <1>1, <3>2, <3>3, <3>4, LogStep
  <2> QED
    BY <2>1, <2>2
<1> QED
  BY <1>4 DEF LeaveHasCause, AsksOut, Ignored

(* The three invariants and what makes them inductive are kept together. *)
LEMMA NextCauses == Causes /\ [Next]_vars => Causes'
  BY NextType, NextHandler, NextLeaving, NextTasks, NextJoin, NextVerdict, NextLeave DEF Causes, JoinCauses

(* Whatever the batches, retries, late tasks, restarts and lost answers, the
   user is only ever in rooms somebody asked it into. *)
THEOREM JoinsHaveCause == Spec => []JoinHasCause
<1>1. Causes => JoinHasCause
  BY DEF Causes, JoinCauses
<1> QED
  BY <1>1, InitCauses, NextCauses, PTL DEF Spec

(* A verdict in Redis goes back to a public: true of its room. *)
THEOREM VerdictsHaveCause == Spec => []VerdictHasCause
<1>1. Causes => VerdictHasCause
  BY DEF Causes, JoinCauses
<1> QED
  BY <1>1, InitCauses, NextCauses, PTL DEF Spec

(* Every leave the appservice makes goes back to somebody who asked it out: the
   leaves that come back to it as events start nothing new. *)
THEOREM LeavesHaveCause == Spec => []LeaveHasCause
<1>1. Causes => LeaveHasCause
  BY DEF Causes, JoinCauses
<1> QED
  BY <1>1, InitCauses, NextCauses, PTL DEF Spec

------------------------------------------------------------------------------
(* The steps, as far as delivery tells them apart. *)

(* The handler or its connection goes away, or it waits for a reply. *)
Waits ==
  /\ UNCHANGED <<acked, sent, cursor, handled, cuts>>
  /\ pc' = "idle" \/ (pc \in {"dispatch", "join"} /\ pc' \in {"join", "record", "leave"})

(* A transaction is sent, for the first time or again. *)
Sends ==
  /\ pc = "idle" /\ pc' = "dispatch"
  /\ cursor' = acked + 1
  /\ sent' \in Nat /\ acked < sent' /\ sent' <= Len(log)
  /\ UNCHANGED <<acked, handled, cuts>>

(* The loop body comes to its end for an event. *)
Finishes ==
  \/ SpawnRecache \/ Banned \/ Skip \/ RecordPublic \/ DeleteVerdict \/ ForgetRoom
  \/ \E reply \in Replies : JoinPublic(reply) \/ JoinInvite(reply)

(* A step elsewhere: the handler stays at its await, or goes on to the next for the same event.
   *)
Elsewhere == UNCHANGED <<txnVars, handled, cuts>>

(* What a step is for the order of events: it leaves the transaction alone, is one of the
   homeserver's or of an early end, or is done with the event at the cursor. *)
LEMMA DeliveryStep ==
  ASSUME TypeOK, [Next]_vars
  PROVE  \/ Elsewhere /\ Len(log') \in {Len(log), Len(log) + 1}
         \/ log' = log /\ (Waits \/ Sends \/ SpawnJoin \/ Acknowledge)
         \/ log' = log /\ Finishes /\ Advance /\ pc \notin {"idle", "respond"}
<1> DEFINE Goal ==
      \/ Elsewhere /\ Len(log') \in {Len(log), Len(log) + 1}
      \/ log' = log /\ (Waits \/ Sends \/ SpawnJoin \/ Acknowledge)
      \/ log' = log /\ Finishes /\ Advance /\ pc \notin {"idle", "respond"}
<1> SUFFICES Goal
  OBVIOUS
<1>0. HomeserverTypeOK /\ log \in Seq(Event) /\ acked \in Nat /\ sent \in Nat
  BY DEF TypeOK, HomeserverTypeOK
<1>1. Len(log') \in {Len(log), Len(log) + 1}
  BY <1>0, LogStep
<1>2. CASE UserStep \/ LeaveStep("transaction") \/ LeaveStep("admin") \/ AdminLeft
           \/ AdminDisconnect \/ Tick \/ UNCHANGED vars
           \/ (\E t \in tasks : RunTask(t)) \/ (\E r \in Rooms : AdminJoin(r) \/ AdminLeave(r))
  BY <1>1, <1>2
     DEF UserStep, LeaveStep, GetHierarchy, LeaveChild, LeaveSelf, AdminLeft, AdminDisconnect,
         Tick, vars, RunTask, AdminJoin, AdminLeave, Elsewhere, txnVars, histVars
<1>3. CASE Deliver
  <2>1. log' = log /\ Sends
    BY <1>0, <1>3 DEF Deliver, Sends, hsVars, histVars
  <2> QED
    BY <2>1
<1>4. CASE Redeliver
  <2>1. log' = log /\ Sends
    BY <1>0, <1>4 DEF Redeliver, Sends, hsVars, histVars, TypeOK
  <2> QED
    BY <2>1
<1>5. CASE Disconnect \/ Restart
  <2>1. log' = log
    BY <1>0, <1>5, RoomType, JoinActs DEF Disconnect, Restart, Unanswered, Replies, hsVars
  <2> QED
    BY <1>5, <2>1 DEF Disconnect, Restart, Waits, histVars
<1>6. CASE StartJoin \/ StartLeave
  BY <1>6 DEF StartJoin, StartLeave, At, Waits, hsVars, histVars
<1>7. CASE SpawnJoin \/ Acknowledge
  BY <1>7 DEF SpawnJoin, Acknowledge, hsVars
<1>8. CASE SpawnRecache \/ Banned \/ Skip \/ RecordPublic \/ DeleteVerdict \/ ForgetRoom
  <2>1. log' = log /\ Advance /\ pc \notin {"idle", "respond"}
    BY <1>8
       DEF SpawnRecache, Banned, Skip, RecordPublic, DeleteVerdict, ForgetRoom, Left, At, hsVars
  <2> QED
    BY <1>8, <2>1 DEF Finishes
<1>9. ASSUME NEW reply \in Replies, JoinPublic(reply) \/ JoinInvite(reply)
      PROVE  Goal
  <2>1. log' = log /\ pc = "join"
    BY <1>0, <1>9, RoomType, JoinActs DEF JoinPublic, JoinInvite, At
  <2> QED
    BY <1>9, <2>1 DEF JoinPublic, JoinInvite, Waits, Finishes, histVars
<1> QED
  BY <1>2, <1>3, <1>4, <1>5, <1>6, <1>7, <1>8, <1>9 DEF Next, Work, HandlerStep

------------------------------------------------------------------------------
(* An acknowledged event was handled, or auto_join skipped it. *)

(* Event i was handled, or an auto-joined event behind number n has ended its
   transaction before it. *)
HandledOrCut(i, n) ==
  i \in handled \/
    /\ AutoJoin
    /\ \E j \in (n + 1) .. (i - 1) : log[j].kind \in AutoJoinKinds /\ j \in handled

(* The transaction under way has been handled up to the event the handler is at,
   and to its end when it answers. *)
InTransaction ==
  /\ pc \notin {"idle", "respond"} => (acked + 1) .. (cursor - 1) \subseteq handled
  /\ pc = "respond" => \A i \in (acked + 1) .. sent : HandledOrCut(i, acked)

(* Transactions have ended only where acked has been. *)
CutsBehind == cuts \subseteq 0 .. acked

(* Nothing has been sent or handled at first. *)
LEMMA InitDelivery == Init => CutsBehind /\ InTransaction /\ OnlyAutoJoinSkips
  BY DEF Init, CutsBehind, InTransaction, OnlyAutoJoinSkips

(* What has been handled stays handled, and the log keeps its events. *)
LEMMA HandledStays ==
  ASSUME TypeOK, TypeOK', Monotone, handled \subseteq handled',
         NEW n \in Nat, NEW i \in 1 .. sent, HandledOrCut(i, n)
  PROVE  HandledOrCut(i, n)'
<1>1. CASE i \in handled
  BY <1>1 DEF HandledOrCut
<1>2. ASSUME AutoJoin, NEW j \in (n + 1) .. (i - 1), log[j].kind \in AutoJoinKinds, j \in handled
      PROVE  HandledOrCut(i, n)'
  <2>1. log'[j] = log[j]
    BY <1>2 DEF TypeOK, HomeserverTypeOK, Monotone, Grows
  <2> QED
    BY <1>2, <2>1 DEF HandledOrCut, AutoJoinKinds
<1> QED
  BY <1>1, <1>2 DEF HandledOrCut

(* Every step keeps what is handled in the transaction under way, action by action. *)
LEMMA NextInTransaction ==
  ASSUME TypeOK, TypeOK', InTransaction, [Next]_vars
  PROVE  InTransaction'
<1>0. /\ acked \in Nat /\ sent \in Nat /\ cursor \in Nat /\ acked <= sent
      /\ pc # "idle" => acked < cursor /\ cursor <= sent
      /\ Monotone
  BY NextMonotone DEF TypeOK
<1>1. CASE Elsewhere
  <2>1. UNCHANGED <<acked, sent, cursor, pc, handled>>
    BY <1>1 DEF Elsewhere, txnVars
  <2>2. pc = "respond" => \A i \in (acked + 1) .. sent : HandledOrCut(i, acked)'
    BY <1>0, <2>1, HandledStays DEF InTransaction
  <2> QED
    BY <2>1, <2>2 DEF InTransaction, HandledOrCut
<1>2. CASE Waits
  BY <1>2 DEF Waits, InTransaction
<1>3. CASE Sends
  BY <1>0, <1>3 DEF Sends, InTransaction
<1>4. CASE Acknowledge
  BY <1>4 DEF Acknowledge, InTransaction
<1>5. CASE SpawnJoin /\ log' = log
  <2>1. /\ AutoJoin /\ pc = "dispatch" /\ log[cursor].kind \in AutoJoinKinds
        /\ handled' = handled \cup {cursor} /\ pc' = "respond"
        /\ UNCHANGED <<acked, sent, cursor>>
    BY <1>5 DEF SpawnJoin, At, CurrentEvent
  <2>2. ASSUME NEW i \in (acked + 1) .. sent PROVE HandledOrCut(i, acked)'
    <3>1. CASE i <= cursor
      BY <1>0, <2>1, <3>1 DEF InTransaction, HandledOrCut
    <3>2. CASE i > cursor
      <4>1. cursor \in (acked + 1) .. (i - 1) /\ cursor \in handled'
        BY <1>0, <2>1, <3>2
      <4> QED
        BY <1>5, <2>1, <4>1 DEF HandledOrCut
    <3> QED
      BY <1>0, <3>1, <3>2
  <2> QED
    BY <2>1, <2>2 DEF InTransaction, HandledOrCut
<1>6. CASE Advance /\ pc \notin {"idle", "respond"}
  <2>1. handled' = handled \cup {cursor} /\ UNCHANGED <<acked, sent>>
    BY <1>6 DEF Advance
  <2>2. (acked + 1) .. cursor \subseteq handled'
    BY <1>0, <1>6, <2>1 DEF InTransaction
  <2>3. CASE cursor = sent
    <3>1. pc' = "respond" /\ \A i \in (acked + 1) .. sent : i \in handled'
      BY <1>6, <2>2, <2>3 DEF Advance
    <3> QED
      BY <2>1, <3>1 DEF InTransaction, HandledOrCut
  <2>4. CASE cursor # sent
    BY <1>0, <1>6, <2>1, <2>2, <2>4 DEF Advance, InTransaction
  <2> QED
    BY <2>3, <2>4
<1> QED
  BY <1>1, <1>2, <1>3, <1>4, <1>5, <1>6, DeliveryStep

(* Only an answer moves acked, and records where it was. *)
LEMMA NextCuts ==
  ASSUME TypeOK, CutsBehind, [Next]_vars
  PROVE  /\ CutsBehind'
         /\ handled \subseteq handled'
         /\ \/ UNCHANGED <<acked, cuts>>
            \/ /\ pc = "respond" /\ acked < sent /\ acked' = sent /\ cuts' = cuts \cup {sent}
               /\ log' = log /\ handled' = handled
<1>0. acked \in Nat /\ sent \in Nat /\ acked <= sent /\ (pc # "idle" => acked < sent)
  BY DEF TypeOK
<1>1. CASE Acknowledge
  BY <1>0, <1>1 DEF Acknowledge, CutsBehind, hsVars
<1>2. CASE ~Acknowledge
  <2>1. UNCHANGED <<acked, cuts>> /\ handled \subseteq handled'
    BY <1>2, DeliveryStep DEF Elsewhere, txnVars, Waits, Sends, SpawnJoin, Advance
  <2> QED
    BY <2>1 DEF CutsBehind
<1> QED
  BY <1>1, <1>2

(* Every step keeps what is acknowledged handled, but behind a cut. *)
LEMMA NextSkips ==
  ASSUME TypeOK, TypeOK', CutsBehind, InTransaction, OnlyAutoJoinSkips, [Next]_vars
  PROVE  OnlyAutoJoinSkips'
<1>0. /\ acked \in Nat /\ sent \in Nat /\ acked <= sent /\ cuts \subseteq Nat
      /\ sent <= Len(log)
      /\ Monotone /\ handled \subseteq handled'
  BY NextMonotone, NextCuts DEF TypeOK
<1>a. \A i \in 1 .. Len(log) : log'[i] = log[i]
  BY <1>0 DEF Monotone, Grows
<1>1. CASE UNCHANGED <<acked, cuts>>
  <2> SUFFICES ASSUME NEW i \in 1 .. acked, i \notin handled'
               PROVE  /\ AutoJoin
                      /\ \E j \in 1 .. (i - 1) : /\ SameTransaction(i, j)'
                                                 /\ log'[j].kind \in AutoJoinKinds
                                                 /\ j \in handled'
    BY <1>1 DEF OnlyAutoJoinSkips
  <2>1. PICK j \in 1 .. (i - 1) : /\ AutoJoin
                                  /\ SameTransaction(i, j)
                                  /\ log[j].kind \in AutoJoinKinds
                                  /\ j \in handled
    BY <1>0 DEF OnlyAutoJoinSkips
  <2>2. log'[j] = log[j] /\ j \in handled'
    BY <1>0, <1>a, <2>1
  <2>3. SameTransaction(i, j)'
    BY <1>1, <2>1 DEF SameTransaction
  <2> QED
    BY <2>1, <2>2, <2>3
<1>2. CASE /\ pc = "respond" /\ acked < sent /\ acked' = sent /\ cuts' = cuts \cup {sent}
           /\ log' = log /\ handled' = handled
  <2> SUFFICES ASSUME NEW i \in 1 .. sent, i \notin handled
               PROVE  /\ AutoJoin
                      /\ \E j \in 1 .. (i - 1) : /\ SameTransaction(i, j)'
                                                 /\ log[j].kind \in AutoJoinKinds
                                                 /\ j \in handled
    BY <1>2 DEF OnlyAutoJoinSkips
  <2>1. CASE i <= acked
    <3>1. PICK j \in 1 .. (i - 1) : /\ AutoJoin
                                    /\ SameTransaction(i, j)
                                    /\ log[j].kind \in AutoJoinKinds
                                    /\ j \in handled
      BY <2>1 DEF OnlyAutoJoinSkips
    <3>2. ~(sent < i) /\ ~(sent < j)
      BY <1>0, <1>2, <2>1
    <3>3. SameTransaction(i, j)'
      BY <1>2, <3>1, <3>2 DEF SameTransaction
    <3> QED
      BY <3>1, <3>3
  <2>2. CASE i > acked
    <3>1. PICK j \in (acked + 1) .. (i - 1) : /\ AutoJoin
                                              /\ log[j].kind \in AutoJoinKinds
                                              /\ j \in handled
      BY <1>0, <1>2, <2>2 DEF InTransaction, HandledOrCut
    <3>2. /\ \A k \in cuts : k < i /\ k < j
          /\ ~(sent < i) /\ ~(sent < j)
      BY <1>0, <2>2 DEF CutsBehind
    <3>3. SameTransaction(i, j)'
      BY <1>2, <3>2 DEF SameTransaction
    <3> QED
      BY <1>0, <3>1, <3>3
  <2> QED
    BY <1>0, <2>1, <2>2
<1> QED
  BY <1>1, <1>2, NextCuts

(* Whatever the batches, lost answers and restarts: an acknowledged event was
   handled to the end, unless auto_join made the handler return at an earlier
   event of its transaction. *)
THEOREM OnlyAutoJoinMaySkip == Spec => []OnlyAutoJoinSkips
<1> DEFINE IInv == TypeOK /\ CutsBehind /\ InTransaction /\ OnlyAutoJoinSkips
<1>1. Init => IInv
  BY InitType, InitDelivery
<1>2. IInv /\ [Next]_vars => IInv'
  BY NextType, NextCuts, NextInTransaction, NextSkips
<1>3. IInv => OnlyAutoJoinSkips
  OBVIOUS
<1> QED
  BY <1>1, <1>2, <1>3, PTL DEF Spec

------------------------------------------------------------------------------
(* Without auto_join the handler is an InOrderDelivery: it starts where that
   starts, and each of its steps is one of that or leaves its variables alone. *)

(* Its initial states are initial states of InOrderDelivery, *)
LEMMA InitInOrder == Init => Delivery!Init
  BY DEF Init, HomeserverInit, Delivery!Init

(* and without auto_join its steps are steps of InOrderDelivery, or stutter. *)
LEMMA NextInOrder ==
  ASSUME ~AutoJoin, TypeOK, InTransaction, [Next]_vars
  PROVE  [Delivery!Next]_(Delivery!vars)
<1>0. /\ acked \in Nat /\ sent \in Nat /\ cursor \in Nat
      /\ acked <= sent /\ sent <= Len(log) /\ Len(log) \in Nat
      /\ pc # "idle" => acked < cursor /\ cursor <= sent
  BY DEF TypeOK, HomeserverTypeOK
<1>1. CASE Elsewhere /\ Len(log') \in {Len(log), Len(log) + 1}
  BY <1>1 DEF Elsewhere, txnVars, Delivery!vars, Delivery!Next, Delivery!RaiseEvent
<1>2. CASE log' = log /\ (Waits \/ Sends)
  BY <1>2 DEF Waits, Sends, Delivery!vars
<1>3. CASE log' = log /\ Acknowledge
  <2>1. (acked + 1) .. sent \subseteq handled /\ sent \in (acked + 1) .. Len(log)
    BY <1>0, <1>3 DEF Acknowledge, InTransaction, HandledOrCut
  <2>2. Delivery!Acknowledge(sent)
    BY <1>3, <2>1 DEF Acknowledge, Delivery!Acknowledge
  <2> QED
    BY <2>1, <2>2 DEF Delivery!Next
<1>4. CASE log' = log /\ Advance /\ pc \notin {"idle", "respond"}
  <2>1. (acked + 1) .. (cursor - 1) \subseteq handled /\ cursor \in (acked + 1) .. Len(log)
    BY <1>0, <1>4 DEF InTransaction
  <2>2. Delivery!Handle(cursor)
    BY <1>4, <2>1 DEF Advance, Delivery!Handle
  <2> QED
    BY <2>1, <2>2 DEF Delivery!Next
<1>5. ~SpawnJoin
  BY DEF SpawnJoin
<1> QED
  BY <1>1, <1>2, <1>3, <1>4, <1>5, DeliveryStep

(* Without auto_join: whatever batches the homeserver makes, answers get lost and
   processes restart, events are handled in order and none is skipped. *)
THEOREM HandlerDeliversInOrder == ~AutoJoin => (Spec => InOrder)
<1> SUFFICES ASSUME ~AutoJoin PROVE Spec => InOrder
  OBVIOUS
<1> DEFINE IInv == TypeOK /\ InTransaction
<1>1. Init => IInv /\ Delivery!Init
  BY InitType, InitDelivery, InitInOrder
<1>2. IInv /\ [Next]_vars => IInv'
  BY NextType, NextInTransaction
<1>3. IInv /\ [Next]_vars => [Delivery!Next]_(Delivery!vars)
  BY NextInOrder
<1> QED
  BY <1>1, <1>2, <1>3, PTL DEF Spec, InOrder, Delivery!Spec
(* So nothing that was acknowledged was left out. *)
COROLLARY NothingIsSkipped == ~AutoJoin => (Spec => []Delivery!NothingSkipped)
<1> SUFFICES ASSUME ~AutoJoin PROVE Spec => []Delivery!NothingSkipped
  OBVIOUS
<1>1. OnlyAutoJoinSkips => Delivery!NothingSkipped
  BY DEF OnlyAutoJoinSkips, Delivery!NothingSkipped
<1> QED
  BY <1>1, OnlyAutoJoinMaySkip, PTL
==============================================================================
