------------------------------- MODULE RestProofs -------------------------------
(***************************************************************************)
(* What the event side has reached when it is at rest, for every set of    *)
(* rooms, every hierarchy, any batches, lost connections, restarts and     *)
(* admin requests.  Where requests do not fail and auto_join is off, its   *)
(* list of rooms names rooms the user is in, and a room that was withdrawn *)
(* is left.  Where requests do not fail and users wait for the appservice, *)
(* the user is in every room it was invited to and not sent away from.     *)
(* All three say of every event what holds once the handler is past it,    *)
(* however often it goes back.                                             *)
(***************************************************************************)
EXTENDS TransactionsProofs

------------------------------------------------------------------------------
(* How far the handler is. *)

(* Facts about intervals. *)
LEMMA Between ==
  \A a, b, c, n \in Nat : a < c /\ c <= b /\ b <= n => c - 1 \in 0 .. n
  OBVIOUS

(* Arithmetic of positions in the log. *)
LEMMA Behind ==
  \A d, m, n \in Nat : \A k \in 1 .. m : d < k /\ m <= n => k \in (d + 1) .. n
  OBVIOUS

(* The same, of what lies two events on. *)
LEMMA Ahead ==
  \A a, b, n \in Nat : \A k \in (b + 2) .. n : a <= b => k \in Nat /\ k \in 1 .. n /\ a + 2 <= k
  OBVIOUS

(* The last event it is done with, as far as it remembers. *)
Done == IF pc = "idle" THEN acked ELSE IF pc = "respond" THEN sent ELSE cursor - 1

(* Where that is. *)
LEMMA DoneType ==
  ASSUME TypeOK
  PROVE  /\ Done \in 0 .. Len(log) /\ acked <= Done
         /\ Len(log) \in Nat /\ cursor \in Nat
         /\ AtRest => Done = Len(log)
         /\ pc \notin {"idle", "respond"} => cursor = Done + 1 /\ cursor \in 1 .. Len(log)
  BY DEF TypeOK, HomeserverTypeOK, Done, AtRest

(* The same in the next state. *)
LEMMA DoneTypeNext ==
  ASSUME TypeOK'
  PROVE  Done' \in 0 .. Len(log')
<1>1. /\ acked' \in Nat /\ sent' \in Nat /\ cursor' \in Nat /\ Len(log') \in Nat
      /\ acked' <= sent' /\ sent' <= Len(log')
      /\ pc' # "idle" => acked' < cursor' /\ cursor' <= sent'
  BY DEF TypeOK, HomeserverTypeOK
<1>2. Done' = IF pc' = "idle" THEN acked' ELSE IF pc' = "respond" THEN sent' ELSE cursor' - 1
  BY DEF Done
<1>3. CASE pc' = "idle"
  BY <1>1, <1>2, <1>3
<1>4. CASE pc' = "respond"
  BY <1>1, <1>2, <1>4
<1>5. CASE pc' \notin {"idle", "respond"}
  <2>1. Done' = cursor' - 1
    BY <1>2, <1>5
  <2>2. acked' < cursor' /\ cursor' <= sent'
    BY <1>1, <1>5
  <2> QED
    BY <1>1, <2>1, <2>2, Between
<1> QED
  BY <1>3, <1>4, <1>5

(* It goes on by one event at its end, to the end of the transaction where
   auto_join returns, and back to the last acknowledged one when its connection is
   lost. *)
LEMMA DoneStepAny ==
  ASSUME TypeOK, TypeOK', [Next]_vars
  PROVE  \/ Done' <= Done
         \/ log' = log /\ Finishes /\ Done' = cursor /\ cursor = Done + 1
         \/ log' = log /\ SpawnJoin /\ cursor = Done + 1
<1>0. /\ acked \in Nat /\ sent \in Nat /\ cursor \in Nat /\ acked <= sent
      /\ pc # "idle" => acked < cursor /\ cursor <= sent
      /\ Done \in Nat /\ acked <= Done
  BY DoneType DEF TypeOK
<1>1. CASE Elsewhere
  BY <1>0, <1>1 DEF Elsewhere, txnVars, Done
<1>2. CASE Waits
  <2>1. CASE pc' = "idle"
    BY <1>0, <1>2, <2>1 DEF Waits, Done
  <2>2. CASE pc' # "idle"
    BY <1>0, <1>2, <2>2 DEF Waits, Done
  <2> QED
    BY <2>1, <2>2
<1>3. CASE Sends
  BY <1>0, <1>3 DEF Sends, Done
<1>4. CASE Acknowledge
  BY <1>0, <1>4 DEF Acknowledge, Done
<1>5. CASE log' = log /\ Finishes /\ Advance /\ pc \notin {"idle", "respond"}
  <2>1. Done' = cursor
    BY <1>0, <1>5 DEF Advance, Done
  <2>2. cursor = Done + 1
    BY <1>5, DoneType
  <2> QED
    BY <1>5, <2>1, <2>2
<1>6. CASE SpawnJoin
  <2>1. log' = log /\ pc = "dispatch"
    BY <1>6 DEF SpawnJoin, At, hsVars
  <2> QED
    BY <1>6, <2>1, DoneType
<1> QED
  BY <1>1, <1>2, <1>3, <1>4, <1>5, <1>6, DeliveryStep

(* Without auto_join it goes on by one. *)
LEMMA DoneStep ==
  ASSUME ~AutoJoin, TypeOK, TypeOK', [Next]_vars
  PROVE  \/ Done' <= Done
         \/ log' = log /\ Finishes /\ Done' = cursor /\ cursor = Done + 1
  BY DoneStepAny DEF SpawnJoin

------------------------------------------------------------------------------
(* How the user's membership changes. *)

(* An event that takes the user out of its room. *)
Takes(e, r) == e.room = r /\ e.kind \in {"leave", "ban"}

(* Who may make the user join room r. *)
JoinsNow(r) ==
  \/ pc = "join" /\ r = Room
  \/ \E t \in tasks : t.kind \in AutoJoinKinds /\ t.room = r
  \/ r \in adminJoins'

(* How a membership may change in a step, and the event that tells of it. *)
MembershipMoves(r) ==
  \/ membership'[r] = membership[r]
  \/ membership[r] = "leave" /\ membership'[r] = "invite"
  \/ membership'[r] = "join" /\ JoinsNow(r) /\ log' = log
  \/ /\ membership'[r] \notin {"invite", "join"}
     /\ \E e \in Event : Takes(e, r) /\ log' = Append(log, e)

(* What users do moves a membership so. *)
LEMMA UserMoves ==
  ASSUME HomeserverTypeOK, NEW s \in Rooms, UserAct(s), NEW r \in Rooms
  PROVE  MembershipMoves(r)
<1>1. ASSUME NEW kind \in RoomKinds, RoomEvent(s, kind)
      PROVE  MembershipMoves(r)
  BY <1>1 DEF RoomEvent, MembershipMoves
<1>2. CASE Invite(s)
  BY <1>2 DEF Invite, MembershipMoves, HomeserverTypeOK
<1>3. ASSUME NEW kind \in {"leave", "ban"}, log' = Append(log, MemberEvent(kind, s, "user")),
             membership' = [membership EXCEPT ![s] = kind]
      PROVE  MembershipMoves(r)
  <2>1. CASE r = s
    <3>1. MemberEvent(kind, r, "user") \in Event /\ Takes(MemberEvent(kind, r, "user"), r)
      BY <1>3, MemberEventType DEF MemberEvent, Takes, MemberKinds
    <3>2. membership'[r] = kind
      BY <1>3, <2>1 DEF HomeserverTypeOK
    <3> QED
      BY <1>3, <2>1, <3>1, <3>2 DEF MembershipMoves
  <2>2. CASE r # s
    BY <1>3, <2>2 DEF MembershipMoves, HomeserverTypeOK
  <2> QED
    BY <2>1, <2>2
<1>4. CASE Kick(s) \/ Ban(s)
  BY <1>3, <1>4 DEF Kick, Ban, Raise
<1> QED
  BY <1>1, <1>2, <1>4 DEF UserAct

(* So does a join of the appservice, which puts no event on the log, *)
LEMMA JoinMoves ==
  ASSUME HomeserverTypeOK, NEW s \in Rooms, NEW reply \in Replies, HsJoin(s, reply),
         NEW r \in Rooms, JoinsNow(s)
  PROVE  MembershipMoves(r)
<1>1. CASE UNCHANGED hsVars
  BY <1>1 DEF hsVars, MembershipMoves
<1>2. CASE membership' = [membership EXCEPT ![s] = "join"] /\ log' = log
  <2>1. CASE r = s
    <3>1. membership'[r] = "join"
      BY <1>2, <2>1 DEF HomeserverTypeOK
    <3> QED
      BY <1>2, <2>1, <3>1 DEF MembershipMoves
  <2>2. CASE r # s
    BY <1>2, <2>2 DEF MembershipMoves, HomeserverTypeOK
  <2> QED
    BY <2>1, <2>2
<1> QED
  BY <1>1, <1>2 DEF HsJoin

(* and a leave, which puts one there, also when its answer is lost. *)
LEMMA LeaveMoves ==
  ASSUME HomeserverTypeOK, NEW s \in Rooms, NEW reply \in Replies, HsLeave(s, reply),
         NEW r \in Rooms
  PROVE  MembershipMoves(r)
<1>1. CASE UNCHANGED hsVars
  BY <1>1 DEF hsVars, MembershipMoves
<1>2. CASE /\ membership' = [membership EXCEPT ![s] = "leave"]
           /\ log' = Append(log, MemberEvent("leave", s, "appservice"))
  <2>1. CASE r = s
    <3>1. /\ MemberEvent("leave", r, "appservice") \in Event
          /\ Takes(MemberEvent("leave", r, "appservice"), r)
      BY MemberEventType DEF MemberEvent, Takes, MemberKinds
    <3>2. membership'[r] = "leave"
      BY <1>2, <2>1 DEF HomeserverTypeOK
    <3> QED
      BY <1>2, <2>1, <3>1, <3>2 DEF MembershipMoves
  <2>2. CASE r # s
    BY <1>2, <2>2 DEF MembershipMoves, HomeserverTypeOK
  <2> QED
    BY <2>1, <2>2
<1> QED
  BY <1>1, <1>2 DEF HsLeave

(* Whoever makes the step: the user is out of a room only with an event that says
   so, and into it only by who may. *)
LEMMA MembershipStep ==
  ASSUME TypeOK, [Next]_vars, NEW r \in Rooms
  PROVE  MembershipMoves(r)
<1>0. HomeserverTypeOK
  BY DEF TypeOK
<1>1. CASE UserStep
  BY <1>0, <1>1, UserMoves DEF UserStep
<1>2. CASE UNCHANGED hsVars
  BY <1>2 DEF hsVars, MembershipMoves
<1>3. ASSUME NEW c \in Callers, LeaveStep(c)
      PROVE  MembershipMoves(r)
  <2>1. leaving[c].room \in Rooms /\ leaving[c].todo \subseteq Rooms
    BY <1>3 DEF LeaveStep, GetHierarchy, LeaveChild, LeaveSelf, TypeOK, NotLeaving, LeaveRun
  <2>2. CASE GetHierarchy(c)
    BY <1>2, <2>2 DEF GetHierarchy, HsHierarchy
  <2>3. CASE LeaveChild(c) \/ LeaveSelf(c)
    BY <1>0, <2>1, <2>3, LeaveMoves DEF LeaveChild, LeaveSelf
  <2> QED
    BY <1>3, <2>2, <2>3 DEF LeaveStep
<1>4. CASE pc = "join" /\ \E reply \in Replies : HsJoin(Room, reply)
  BY <1>0, <1>4, RoomType, JoinMoves DEF JoinsNow
<1>5. ASSUME NEW t \in tasks, RunTask(t) PROVE MembershipMoves(r)
  <2>1. t.room \in Rooms
    BY DEF TypeOK, Task
  <2> QED
    BY <1>0, <1>2, <1>5, <2>1, JoinMoves DEF RunTask, JoinsNow
<1>6. ASSUME NEW s \in Rooms, AdminJoin(s) PROVE MembershipMoves(r)
  BY <1>0, <1>6, JoinMoves DEF AdminJoin, JoinsNow
<1>7. CASE HandlerStep
  BY <1>2, <1>3, <1>4, <1>7
     DEF HandlerStep, SpawnJoin, SpawnRecache, Banned, Skip, StartJoin, StartLeave, JoinPublic,
         JoinInvite, At, RecordPublic, DeleteVerdict, ForgetRoom, Left, Acknowledge, Callers
<1>8. CASE Disconnect \/ Restart
  BY <1>2, <1>4, <1>8 DEF Disconnect, Restart, Unanswered, Replies
<1> QED
  BY <1>1, <1>2, <1>3, <1>5, <1>6, <1>7, <1>8
     DEF Next, Work, Deliver, Redeliver, AdminLeave, AdminLeft, AdminDisconnect, Tick, vars, Callers

------------------------------------------------------------------------------
(* Invites stand until an event takes them back. *)

(* An invite that no longer stands was followed by an event that took it back. *)
InvitesStand ==
  \A i \in 1 .. Len(log) : log[i].kind = "invite" =>
    \/ membership[log[i].room] \in {"invite", "join"}
    \/ \E k \in (i + 1) .. Len(log) : Takes(log[k], log[i].room)

(* The log of a step: the old events, and at most one more. *)
LEMMA LogKept ==
  ASSUME TypeOK, [Next]_vars
  PROVE  /\ Len(log) \in Nat /\ Len(log') \in {Len(log), Len(log) + 1}
         /\ \A i \in 1 .. Len(log) : log'[i] = log[i] /\ log[i] \in Event
         /\ \A e \in Event : log' = Append(log, e) =>
              Len(log') = Len(log) + 1 /\ log'[Len(log) + 1] = e
         /\ Len(log') = Len(log) + 1 => \E e \in Event : log' = Append(log, e)
<1>1. log \in Seq(Event)
  BY DEF TypeOK, HomeserverTypeOK
<1>2. \A i \in 1 .. Len(log) : log'[i] = log[i]
  BY NextMonotone DEF Monotone, Grows
<1>3. log' = log \/ \E e \in Event : log' = Append(log, e)
  <2>1. ASSUME NEW c \in Callers, leaving[c] # NotLeaving,
               NEW r \in {leaving[c].room} \cup leaving[c].todo
        PROVE  MemberEvent("leave", r, "appservice") \in Event
    <3>1. r \in Rooms
      BY <2>1 DEF TypeOK, LeaveRun
    <3> QED
      BY <3>1, MemberEventType DEF MemberKinds
  <2> QED
    BY <2>1, LogStep
<1> QED
  BY <1>1, <1>2, <1>3

(* An event that invites leaves the user invited. *)
LEMMA NewInvite ==
  ASSUME TypeOK, [Next]_vars, NEW e \in Event, log' = Append(log, e), e.kind = "invite"
  PROVE  membership'[e.room] = "invite"
<1>0. log \in Seq(Event) /\ membership \in [Rooms -> Membership]
  BY DEF TypeOK, HomeserverTypeOK
<1>1. ASSUME NEW f, log' = Append(log, f) PROVE e = f
  <2>1. log'[Len(log) + 1] = e
    BY LogKept
  <2>2. log'[Len(log) + 1] = f
    BY <1>0, <1>1
  <2> QED
    BY <2>1, <2>2
<1>2. CASE UserStep
  <2>1. PICK s \in Rooms : UserAct(s)
    BY <1>2 DEF UserStep
  <2>2. ASSUME NEW kind \in RoomKinds, RoomEvent(s, kind)
        PROVE  FALSE
    <3>1. PICK child : log' = Append(log, [kind |-> kind, room |-> s, child |-> child,
                                           sender |-> "user"])
      BY <2>2 DEF RoomEvent, Raise
    <3>2. e.kind = kind
      BY <1>1, <3>1
    <3> QED
      BY <3>2 DEF RoomKinds
  <2>3. CASE Invite(s)
    <3>1. e = MemberEvent("invite", s, "user")
      BY <1>1, <2>3 DEF Invite, Raise
    <3> QED
      BY <1>0, <2>3, <3>1 DEF Invite, MemberEvent
  <2>4. ~Kick(s) /\ ~Ban(s)
    <3>1. \A kind : log' = Append(log, MemberEvent(kind, s, "user")) => e.kind = kind
      BY <1>1 DEF MemberEvent
    <3> QED
      BY <3>1 DEF Kick, Ban, Raise
  <2> QED
    BY <2>1, <2>2, <2>3, <2>4 DEF UserAct
<1>3. CASE ~UserStep
  <2>1. log' # log
    BY <1>0
  <2>2. PICK r : e = MemberEvent("leave", r, "appservice")
    BY <1>1, <1>3, <2>1, LogStep
  <2> QED
    BY <2>2 DEF MemberEvent
<1> QED
  BY <1>2, <1>3

(* There are no invites at first. *)
LEMMA InitInvites == Init => InvitesStand
  BY DEF Init, HomeserverInit, InvitesStand

(* Every change of a membership puts its event on the log, so invites keep standing. *)
LEMMA NextInvites ==
  ASSUME TypeOK, TypeOK', InvitesStand, [Next]_vars
  PROVE  InvitesStand'
<1> SUFFICES ASSUME NEW i \in 1 .. Len(log'), log'[i].kind = "invite",
                    membership'[log'[i].room] \notin {"invite", "join"}
             PROVE  \E k \in (i + 1) .. Len(log') : Takes(log'[k], log'[i].room)
  BY DEF InvitesStand
<1>1. CASE i \in 1 .. Len(log)
  <2> DEFINE r == log[i].room
  <2>1. log'[i] = log[i] /\ r \in Rooms
    BY <1>1, LogKept DEF Event
  <2>2. ASSUME NEW k \in (i + 1) .. Len(log), Takes(log[k], r)
        PROVE  \E j \in (i + 1) .. Len(log') : Takes(log'[j], log'[i].room)
    <3>1. k \in (i + 1) .. Len(log') /\ log'[k] = log[k]
      BY <1>1, <2>2, LogKept
    <3> QED
      BY <2>1, <2>2, <3>1
  <2>3. CASE membership[r] \in {"invite", "join"}
    <3>1. PICK e \in Event : Takes(e, r) /\ log' = Append(log, e)
      BY <2>1, <2>3, MembershipStep DEF MembershipMoves
    <3>2. Len(log) + 1 \in (i + 1) .. Len(log') /\ log'[Len(log) + 1] = e
      BY <1>1, <3>1, LogKept
    <3> QED
      BY <2>1, <3>1, <3>2
  <2> QED
    BY <1>1, <2>1, <2>2, <2>3 DEF InvitesStand
<1>2. CASE i \notin 1 .. Len(log)
  <2>1. PICK e \in Event : log' = Append(log, e)
    BY <1>2, LogKept
  <2>2. log'[i] = e
    BY <1>2, <2>1, LogKept
  <2> QED
    BY <2>1, <2>2, NewInvite
<1> QED
  BY <1>1, <1>2

------------------------------------------------------------------------------
(* The list of rooms.  A room on it that the user has left is owed an event the
   handler is not done with. *)

(* A room in the list that the user is not in is taken out by an event still to be handled. *)
ListOwed ==
  \A r \in joinedRooms :
    \/ Ignored(r) \/ r \in Joined
    \/ \E k \in (Done + 1) .. Len(log) : Takes(log[k], r)

(* The list is read from the homeserver at first. *)
LEMMA InitOwed == ~Lossy /\ Init => ListOwed
  BY DEF Init, Unread, ListOwed

(* Four steps change the list. *)
LEMMA ListStep ==
  ASSUME [Next]_vars
  PROVE  \/ joinedRooms' = joinedRooms
         \/ Restart \/ Banned \/ ForgetRoom
         \/ \E reply \in Replies : JoinInvite(reply)
  BY DEF Next, Work, HandlerStep, SpawnJoin, SpawnRecache, Skip, StartJoin, StartLeave, JoinPublic,
         RecordPublic, DeleteVerdict, Acknowledge, UserStep, Deliver, Redeliver, RunTask,
         AdminJoin, AdminLeave, LeaveStep, GetHierarchy, LeaveChild, LeaveSelf, AdminLeft,
         AdminDisconnect, Disconnect, Tick, vars

(* Past a leave or a ban the room is off the list. *)
LEMMA FinishTakes ==
  ASSUME TypeOK, HandlerHasCause, Finishes, CurrentEvent.kind \in {"leave", "ban"}
  PROVE  Ignored(Room) \/ Room \notin joinedRooms'
<1>1. CASE Banned \/ ForgetRoom
  BY <1>1 DEF Banned, ForgetRoom
<1>2. CASE Skip
  BY <1>2 DEF Skip, At, AutoJoinKinds
<1>3. ~SpawnRecache /\ ~DeleteVerdict /\ ~RecordPublic
  BY DEF SpawnRecache, DeleteVerdict, RecordPublic, At, HandlerHasCause
<1>4. \A reply \in Replies : ~JoinPublic(reply) /\ ~JoinInvite(reply)
  BY DEF JoinPublic, JoinInvite, At
<1> QED
  BY <1>1, <1>2, <1>3, <1>4 DEF Finishes

(* What the list owes is still to come after every step: the handler is done only with events it
   acted on. *)
LEMMA NextOwed ==
  ASSUME ~Lossy, ~AutoJoin, TypeOK, TypeOK', HandlerHasCause, InvitesStand, ListOwed, [Next]_vars
  PROVE  ListOwed'
<1> SUFFICES ASSUME NEW r \in joinedRooms', ~Ignored(r), r \notin Joined'
             PROVE  \E k \in (Done' + 1) .. Len(log') : Takes(log'[k], r)
  BY DEF ListOwed, Ignored
<1>a. Done \in 0 .. Len(log) /\ Len(log) \in Nat /\ r \in Rooms
  BY DoneType DEF TypeOK
<1>b. Done' \in 0 .. Len(log')
  BY DoneTypeNext
<1>c. /\ Len(log') \in Nat /\ Len(log) <= Len(log')
      /\ \A i \in 1 .. Len(log) : log'[i] = log[i]
  BY <1>a, LogKept
<1>0. /\ Done \in Nat /\ Done <= Len(log) /\ Done' \in Nat /\ Done' <= Len(log')
      /\ Len(log) \in Nat /\ r \in Rooms
  BY <1>a, <1>b, <1>c
<1>1. ASSUME NEW k \in 1 .. Len(log), Takes(log[k], r), Done' < k
      PROVE  \E j \in (Done' + 1) .. Len(log') : Takes(log'[j], r)
  <2>1. k \in (Done' + 1) .. Len(log')
    BY <1>0, <1>1, <1>c, Behind
  <2>2. log'[k] = log[k]
    BY <1>c, <1>1
  <2> QED
    BY <1>1, <2>1, <2>2
<1>2. ~Restart
  BY DEF Restart, Unread
<1>3. CASE r \in joinedRooms
  <2>1. CASE r \in Joined
    <3>1. membership[r] = "join" /\ membership'[r] # "join"
      BY <1>0, <2>1 DEF Joined
    <3>2. PICK e \in Event : Takes(e, r) /\ log' = Append(log, e)
      BY <1>0, <3>1, MembershipStep DEF MembershipMoves
    <3>3. Len(log') = Len(log) + 1 /\ log'[Len(log) + 1] = e
      BY <3>2, LogKept
    <3>4. Done' <= Done
      BY <1>0, <3>3, DoneStep
    <3>5. Len(log') \in (Done' + 1) .. Len(log')
      BY <1>0, <3>3, <3>4
    <3> QED
      BY <3>2, <3>3, <3>5
  <2>2. ASSUME NEW k \in (Done + 1) .. Len(log), Takes(log[k], r)
        PROVE  Done' < k
    <3>1. CASE Done' <= Done
      BY <1>0, <3>1
    <3>2. CASE Finishes /\ Done' = cursor /\ cursor = Done + 1
      <4>1. k # cursor
        BY <2>2, <3>2, FinishTakes DEF Takes, Room, CurrentEvent
      <4> QED
        BY <1>0, <3>2, <4>1
    <3> QED
      BY <3>1, <3>2, DoneStep
  <2>3. \A k \in (Done + 1) .. Len(log) : k \in 1 .. Len(log)
    BY <1>0
  <2> QED
    BY <1>1, <1>3, <2>1, <2>2, <2>3 DEF ListOwed
<1>4. ASSUME NEW reply \in Replies, JoinInvite(reply), r \notin joinedRooms
      PROVE  \E k \in (Done' + 1) .. Len(log') : Takes(log'[k], r)
  <2>1. r = Room /\ pc = "join" /\ log[cursor].kind = "invite" /\ log[cursor].room = r
    BY <1>4 DEF JoinInvite, At, Room, CurrentEvent
  <2>2. cursor \in 1 .. Len(log) /\ cursor = Done + 1
    BY <2>1, DoneType
  <2>3. membership[r] \notin {"invite", "join"}
    <3>1. HsJoin(r, reply) /\ membership \in [Rooms -> Membership]
      BY <1>4, <2>1 DEF JoinInvite, TypeOK, HomeserverTypeOK
    <3>2. membership' # [membership EXCEPT ![r] = "join"]
      BY <1>0, <3>1 DEF Joined
    <3> QED
      BY <3>1, <3>2 DEF HsJoin, MayJoin
  <2>4. PICK k \in (cursor + 1) .. Len(log) : Takes(log[k], r)
    BY <2>1, <2>2, <2>3 DEF InvitesStand
  <2>5. Done' <= cursor
    BY <1>0, <2>2, DoneStep
  <2>6. k \in 1 .. Len(log) /\ Done' < k
    BY <1>0, <2>2, <2>4, <2>5
  <2> QED
    BY <1>1, <2>4, <2>6
<1> QED
  BY <1>2, <1>3, <1>4, ListStep DEF Banned, ForgetRoom

(* Where auto_join is off and no request fails: whatever the order of batches,
   invites, kicks, bans, lost answers, restarts and admin requests, a list at
   rest names only rooms the user is in. *)
THEOREM ListsAgreeAtRest == ~Lossy /\ ~AutoJoin => (Spec => []ListAgreesAtRest)
<1> SUFFICES ASSUME ~Lossy, ~AutoJoin PROVE Spec => []ListAgreesAtRest
  OBVIOUS
<1> DEFINE IInv == Causes /\ InvitesStand /\ ListOwed
<1>1. Init => IInv
  BY InitCauses, InitInvites, InitOwed
<1>2. IInv /\ [Next]_vars => IInv'
  BY NextCauses, NextInvites, NextOwed DEF Causes, JoinCauses
<1>3. IInv => ListAgreesAtRest
  <2> SUFFICES ASSUME TypeOK, ListOwed, AtRest, NEW r \in joinedRooms
               PROVE  Ignored(r) \/ r \in Joined
    BY DEF Causes, JoinCauses, ListAgreesAtRest
  <2>1. Done = Len(log) /\ Len(log) \in Nat
    BY DoneType
  <2> QED
    BY <2>1 DEF ListOwed
<1> QED
  BY <1>1, <1>2, <1>3, PTL DEF Spec

------------------------------------------------------------------------------
(* The withdrawal of a room.  No task is about to join, so only the handler and
   admins do. *)

(* Without auto_join no task joins a room. *)
NoJoinTasks == \A t \in tasks : t.kind \notin AutoJoinKinds

(* There are no tasks at first, *)
LEMMA InitNoTasks == Init => NoJoinTasks
  BY DEF Init, NoJoinTasks

(* and no step spawns one that joins. *)
LEMMA NextNoTasks == ~AutoJoin /\ NoJoinTasks /\ [Next]_vars => NoJoinTasks'
<1> SUFFICES ASSUME ~AutoJoin, NoJoinTasks, [Next]_vars PROVE NoJoinTasks'
  OBVIOUS
<1>1. CASE tasks' \subseteq tasks
  BY <1>1 DEF NoJoinTasks, AutoJoinKinds
<1>2. CASE SpawnRecache
  <2>1. /\ CurrentEvent.kind \notin AutoJoinKinds
        /\ tasks' = tasks \cup {[kind |-> CurrentEvent.kind, room |-> Room,
                                 event |-> cursor, attempt |-> breaks]}
    BY <1>2 DEF SpawnRecache, Spawn, At, AutoJoinKinds
  <2> QED
    BY <2>1 DEF NoJoinTasks, AutoJoinKinds
<1>3. ~SpawnJoin
  BY DEF SpawnJoin
<1> QED
  BY <1>1, <1>2, <1>3
     DEF Next, Work, HandlerStep, Banned, Skip, StartJoin, StartLeave, JoinPublic, JoinInvite,
         RecordPublic, DeleteVerdict, ForgetRoom, Left, Acknowledge, UserStep, Deliver, Redeliver,
         RunTask, AdminJoin, AdminLeave, LeaveStep, GetHierarchy, LeaveChild, LeaveSelf, AdminLeft,
         AdminDisconnect, Disconnect, Restart, Tick, vars

(* The event the handler is at stays the same while its cursor does. *)
LEMMA EventStays ==
  ASSUME TypeOK, [Next]_vars, pc # "idle", cursor' = cursor
  PROVE  CurrentEvent' = CurrentEvent /\ Room' = Room
<1>1. cursor \in 1 .. Len(log)
  BY DEF TypeOK, HomeserverTypeOK
<1>2. log'[cursor] = log[cursor]
  BY <1>1, LogKept
<1> QED
  BY <1>2 DEF CurrentEvent, Room

(* leave_room for the handler comes to its end, or has come. *)
LEMMA LeaveDoneStep ==
  ASSUME TypeOK, [Next]_vars, leaving'["transaction"].at = "done"
  PROVE  /\ pc = "leave" /\ UNCHANGED txnVars
         /\ \/ leaving'["transaction"] = leaving["transaction"]
            \/ LeaveStep("transaction")
<1>0. leaving \in [Callers -> LeaveRun \cup {NotLeaving}] /\ "transaction" \in Callers
  BY DEF TypeOK, Callers
<1>1. leaving["transaction"].at = "done" => pc = "leave"
  BY DEF TypeOK, NotLeaving
<1>2. CASE LeaveStep("transaction")
  <2>1. leaving["transaction"] # NotLeaving /\ UNCHANGED txnVars
    BY <1>2 DEF LeaveStep, GetHierarchy, LeaveChild, LeaveSelf, NotLeaving
  <2> QED
    BY <1>2, <2>1 DEF TypeOK
<1>3. ~Disconnect /\ ~Restart /\ ~StartLeave /\ ~DeleteVerdict /\ ~ForgetRoom
  BY <1>0 DEF Disconnect, Restart, StartLeave, DeleteVerdict, ForgetRoom, Left, NotLeaving
<1>4. CASE LeaveStep("admin") \/ AdminLeft \/ AdminDisconnect \/ \E r \in Rooms : AdminLeave(r)
  <2>1. leaving'["transaction"] = leaving["transaction"] /\ UNCHANGED txnVars
    BY <1>0, <1>4
       DEF LeaveStep, GetHierarchy, LeaveChild, LeaveSelf, Proceed, AdminLeft, AdminDisconnect,
           AdminLeave
  <2> QED
    BY <1>1, <2>1
<1>5. CASE UNCHANGED leaving
  <2>1. pc = "leave"
    BY <1>1, <1>5
  <2>2. ~HandlerStep \/ LeaveStep("transaction")
    BY <1>3, <2>1
       DEF HandlerStep, SpawnJoin, SpawnRecache, Banned, Skip, StartJoin, JoinPublic, JoinInvite,
           RecordPublic, Acknowledge, At
  <2>3. CASE ~HandlerStep
    <3>1. UNCHANGED txnVars
      BY <1>3, <1>4, <1>5, <2>1, <2>3
         DEF Next, Work, UserStep, Deliver, Redeliver, RunTask, AdminJoin, AdminLeave, LeaveStep,
             GetHierarchy, LeaveChild, LeaveSelf, AdminLeft, AdminDisconnect, Tick, vars
    <3> QED
      BY <1>5, <2>1, <3>1
  <2> QED
    BY <1>2, <2>2, <2>3
<1> QED
  BY <1>2, <1>3, <1>4, <1>5
     DEF Next, Work, HandlerStep, SpawnJoin, SpawnRecache, Banned, Skip, StartJoin, JoinPublic,
         JoinInvite, RecordPublic, Acknowledge, UserStep, Deliver, Redeliver, RunTask, AdminJoin,
         Tick, vars

(* When leave_room has come to its end for a withdrawn room, the user is out. *)
LeftIsOut ==
  /\ leaving["transaction"].at = "done"
  /\ CurrentEvent.kind = "public_false"
  /\ Children[Room] = {}
  /\ Room \notin adminJoins
  => Room \notin Joined

(* leave_room of a room without children, carried out, leaves the user outside. *)
LEMMA LeaveEndsOutside ==
  ASSUME ~Lossy, TypeOK, LeavingHasCause, LeaveStep("transaction"),
         leaving'["transaction"].at = "done", Children[Room] = {}
  PROVE  membership'[Room] # "join"
<1>0. /\ leaving \in [Callers -> LeaveRun \cup {NotLeaving}] /\ "transaction" \in Callers
      /\ membership \in [Rooms -> Membership]
      /\ leaving["transaction"] # NotLeaving
  BY DEF TypeOK, HomeserverTypeOK, Callers, LeaveStep, GetHierarchy, LeaveChild, LeaveSelf,
         NotLeaving
<1>1. /\ leaving["transaction"].room = Room
      /\ leaving["transaction"].todo = {}
      /\ Room \in Rooms
  BY <1>0, RoomType DEF LeavingHasCause, TypeOK
<1>2. CASE GetHierarchy("transaction")
  <2>1. PICK reply \in Replies :
          /\ HsHierarchy(Room, reply)
          /\ reply = "ok" => \E page \in Pages(Room) : Proceed("transaction", "children", page)
    BY <1>1, <1>2 DEF GetHierarchy
  <2>2. \A page : ~Proceed("transaction", "children", page)
    BY <1>0 DEF Proceed
  <2>3. ~MayLook(Room) /\ membership' = membership
    BY <2>1, <2>2 DEF HsHierarchy, hsVars
  <2> QED
    BY <2>3 DEF MayLook
<1>3. CASE LeaveSelf("transaction")
  <2>1. PICK reply \in Replies : HsLeave(Room, reply)
    BY <1>1, <1>3 DEF LeaveSelf
  <2> QED
    BY <1>0, <1>1, <2>1 DEF HsLeave, hsVars
<1>4. ~LeaveChild("transaction")
  BY <1>1 DEF LeaveChild
<1> QED
  BY <1>2, <1>3, <1>4 DEF LeaveStep

(* Nobody is leaving at first. *)
LEMMA InitLeft == Init => LeftIsOut
  BY DEF Init, LeftIsOut, Callers, NotLeaving

(* A room left stays left until its verdict is deleted: nobody but the admin could join it
   meanwhile. *)
LEMMA NextLeft ==
  ASSUME ~Lossy, TypeOK, LeavingHasCause, NoJoinTasks, LeftIsOut, [Next]_vars
  PROVE  LeftIsOut'
<1> SUFFICES ASSUME leaving'["transaction"].at = "done", CurrentEvent'.kind = "public_false",
                    Children[Room'] = {}, Room' \notin adminJoins'
             PROVE  membership'[Room'] # "join"
  BY DEF LeftIsOut, Joined
<1>1. /\ pc = "leave" /\ Room' = Room /\ Room \in Rooms /\ CurrentEvent' = CurrentEvent
      /\ \/ leaving'["transaction"] = leaving["transaction"]
         \/ LeaveStep("transaction")
  BY LeaveDoneStep, EventStays, RoomType DEF txnVars
<1>2. CASE LeaveStep("transaction")
  BY <1>1, <1>2, LeaveEndsOutside
<1>3. CASE leaving'["transaction"] = leaving["transaction"]
  <2>1. adminJoins \subseteq adminJoins'
    BY NextMonotone DEF Monotone
  <2>2. membership[Room] # "join"
    BY <1>1, <1>3, <2>1 DEF LeftIsOut, Joined
  <2>3. ~JoinsNow(Room)
    BY <1>1 DEF JoinsNow, NoJoinTasks
  <2> QED
    BY <1>1, <2>2, <2>3, MembershipStep DEF MembershipMoves
<1> QED
  BY <1>1, <1>2, <1>3

------------------------------------------------------------------------------
(* public: false is the last word on the room of event i: it is no space, no admin
   joined it and nothing after it asks the user in. *)
Withdrawn(i) == LET r == log[i].room IN
  /\ log[i].kind = "public_false"
  /\ Children[r] = {}
  /\ r \notin adminJoins
  /\ \A j \in (i + 1) .. Len(log) : ~AsksIn(log[j], r)

(* A withdrawn room the handler is done with stays left, and has no verdict. *)
WithdrawnStays ==
  \A i \in 1 .. Done : Withdrawn(i) =>
    /\ membership[log[i].room] # "join"
    /\ cached[log[i].room] = 0

(* Nothing is handled at first. *)
LEMMA InitWithdrawn == Init => WithdrawnStays
  BY DEF Init, Done, WithdrawnStays

(* What is withdrawn after a step was so before it. *)
LEMMA WithdrawnBefore ==
  ASSUME TypeOK, [Next]_vars, NEW i \in 1 .. Len(log), Withdrawn(i)'
  PROVE  Withdrawn(i) /\ log'[i] = log[i] /\ log[i].room \in Rooms
<1>1. /\ Len(log) \in Nat /\ Len(log) <= Len(log')
      /\ \A j \in 1 .. Len(log) : log'[j] = log[j]
      /\ log[i] \in Event
      /\ adminJoins \subseteq adminJoins'
  BY LogKept, NextMonotone DEF Monotone
<1>2. \A j \in (i + 1) .. Len(log) : j \in (i + 1) .. Len(log') /\ log'[j] = log[j]
  <2>1. Len(log') \in Nat
    BY LogKept
  <2> QED
    BY <1>1, <2>1
<1> QED
  BY <1>1, <1>2 DEF Withdrawn, AsksIn, Ignored, Event

(* Nothing brings the user, or a verdict, back to a withdrawn room behind the
   event the handler is at. *)
LEMMA StaysWithdrawn ==
  ASSUME ~Lossy, TypeOK, HandlerHasCause, NoJoinTasks, [Next]_vars,
         NEW i \in 1 .. Len(log), i <= Done, Withdrawn(i)', WithdrawnStays
  PROVE  membership'[log[i].room] # "join" /\ cached'[log[i].room] = 0
<1> DEFINE r == log[i].room
<1>1. Withdrawn(i) /\ log'[i] = log[i] /\ r \in Rooms
  BY WithdrawnBefore
<1>2. Done \in Nat /\ Len(log) \in Nat
  BY DoneType
<1>3. membership[r] # "join" /\ cached[r] = 0
  BY <1>1, <1>2 DEF WithdrawnStays
<1>4. pc \in {"join", "record"} => r # Room
  <2> SUFFICES ASSUME pc \in {"join", "record"}, r = Room PROVE FALSE
    OBVIOUS
  <2>1. cursor \in (i + 1) .. Len(log)
    BY <1>2, DoneType
  <2>2. AsksIn(log[cursor], r)
    BY DEF HandlerHasCause, AsksIn, Room, CurrentEvent
  <2> QED
    BY <1>1, <2>1, <2>2 DEF Withdrawn
<1>5. r \notin adminJoins'
  BY <1>1 DEF Withdrawn
<1>6. membership'[r] # "join"
  <2>1. ~JoinsNow(r)
    BY <1>4, <1>5 DEF JoinsNow, NoJoinTasks
  <2> QED
    BY <1>1, <1>3, <2>1, MembershipStep DEF MembershipMoves
<1>7. cached'[r] = 0
  <2>1. cached' \in [Rooms -> 0 .. VerdictTtl] /\ VerdictTtl \in Nat
    BY NextType, TransactionsAssumption DEF TypeOK
  <2>2. ~(cached'[r] > cached[r])
    BY <1>1, <1>4, VerdictStep
  <2> QED
    BY <1>1, <1>3, <2>1, <2>2
<1> QED
  BY <1>6, <1>7

(* The handler is past a public: false only when it has left and deleted the
   verdict. *)
LEMMA FinishWithdrawn ==
  ASSUME ~Lossy, TypeOK, HandlerHasCause, LeftIsOut, Finishes, log' = log,
         CurrentEvent.kind = "public_false", Children[Room] = {}, Room \notin adminJoins
  PROVE  membership'[Room] # "join" /\ cached'[Room] = 0
<1>1. DeleteVerdict
  <2>1. ~SpawnRecache /\ ~Banned /\ ~Skip /\ ~RecordPublic /\ ~ForgetRoom
    BY DEF SpawnRecache, Banned, Skip, RecordPublic, ForgetRoom, At, HandlerHasCause,
           AutoJoinKinds, MemberKinds
  <2>2. \A reply \in Replies : ~JoinPublic(reply) /\ ~JoinInvite(reply)
    BY DEF JoinPublic, JoinInvite, At
  <2> QED
    BY <2>1, <2>2 DEF Finishes
<1>2. Room \in Rooms /\ cached \in [Rooms -> 0 .. VerdictTtl]
  BY <1>1, RoomType DEF DeleteVerdict, At, TypeOK
<1>3. leaving["transaction"].at = "done" /\ membership' = membership
      /\ cached' = [cached EXCEPT ![Room] = 0]
  BY <1>1 DEF DeleteVerdict, Left, hsVars
<1> QED
  BY <1>2, <1>3 DEF LeftIsOut, Joined

(* What was withdrawn and handled stays so, and what is handled now was obeyed. *)
LEMMA NextWithdrawn ==
  ASSUME ~Lossy, ~AutoJoin, TypeOK, TypeOK', HandlerHasCause, NoJoinTasks, LeftIsOut,
         WithdrawnStays, [Next]_vars
  PROVE  WithdrawnStays'
<1> SUFFICES ASSUME NEW i \in 1 .. Done', Withdrawn(i)'
             PROVE  membership'[log'[i].room] # "join" /\ cached'[log'[i].room] = 0
  BY DEF WithdrawnStays
<1>1. Done \in Nat /\ Done <= Len(log) /\ Len(log) \in Nat /\ i \in Nat
  <2>1. i \in Nat
    BY DoneTypeNext
  <2> QED
    BY <2>1, DoneType
<1>2. CASE i <= Done
  <2>1. i \in 1 .. Len(log)
    BY <1>1, <1>2
  <2> QED
    BY <1>2, <2>1, StaysWithdrawn, WithdrawnBefore
<1>3. CASE ~(i <= Done)
  <2>1. Done' \in Nat /\ i <= Done'
    BY DoneTypeNext
  <2>2. ~(Done' <= Done)
    BY <1>1, <1>3, <2>1
  <2>3. log' = log /\ Finishes /\ Done' = cursor /\ cursor = Done + 1
    BY <2>2, DoneStep
  <2>4. log' = log /\ Finishes /\ i = cursor
    BY <1>1, <1>3, <2>1, <2>3
  <2>5. /\ CurrentEvent.kind = "public_false" /\ Children[Room] = {}
        /\ Room \notin adminJoins'
    BY <2>4 DEF Withdrawn, CurrentEvent, Room
  <2>6. adminJoins \subseteq adminJoins'
    BY NextMonotone DEF Monotone
  <2> QED
    BY <2>4, <2>5, <2>6, FinishWithdrawn DEF CurrentEvent, Room
<1> QED
  BY <1>2, <1>3

(* Where auto_join is off and no request fails: whatever invites, kicks, lost
   answers, restarts and other rooms' events come between, at rest the user is out
   of every room that is no space, whose public: false nothing contradicts, and no
   verdict says otherwise. *)
THEOREM WithdrawalsAreHonoured == ~Lossy /\ ~AutoJoin => (Spec => []WithdrawalHonoured)
<1> SUFFICES ASSUME ~Lossy, ~AutoJoin PROVE Spec => []WithdrawalHonoured
  OBVIOUS
<1> DEFINE IInv == Causes /\ NoJoinTasks /\ LeftIsOut /\ WithdrawnStays
<1>1. Init => IInv
  BY InitCauses, InitNoTasks, InitLeft, InitWithdrawn
<1>2. IInv /\ [Next]_vars => IInv'
  BY NextCauses, NextNoTasks, NextLeft, NextWithdrawn DEF Causes, JoinCauses
<1>3. IInv => WithdrawalHonoured
  <2> SUFFICES ASSUME TypeOK, WithdrawnStays, AtRest, NEW i \in 1 .. Len(log), Withdrawn(i)
               PROVE  log[i].room \notin Joined /\ cached[log[i].room] = 0
    BY DEF Causes, JoinCauses, WithdrawalHonoured, Withdrawn
  <2>1. Done = Len(log)
    BY DoneType
  <2> QED
    BY <2>1 DEF WithdrawnStays, Joined
<1> QED
  BY <1>1, <1>2, <1>3, PTL DEF Spec

------------------------------------------------------------------------------
(* Invites, where users wait for the appservice.  Hierarchies are flat: what is in
   the hierarchy of a child is in that of its space. *)

(* Hierarchies as the homeserver answers them: flattened, so what is below a room's child is
   below the room. *)
Nested == \A r \in Rooms : \A c \in Children[r] : Children[c] \subseteq Children[r]

(* Of the events that are not acknowledged only the first is a user's. *)
OneAtATime == \A k \in (acked + 2) .. Len(log) : log[k].sender = "appservice"

(* Every leave of the appservice goes back to the user's event before it, or to an
   admin. *)
LastUserAsks(k) ==
  \E j \in 1 .. (k - 1) :
    /\ log[j].sender = "user" /\ AsksOut(log[j], log[k].room)
    /\ \A m \in (j + 1) .. (k - 1) : log[m].sender = "appservice"

(* A leave of the appservice is an admin's, or the last event of a user asked for it. *)
OwnLeavesAsked ==
  \A k \in 1 .. Len(log) : log[k].sender = "appservice" =>
    log[k].kind = "leave" /\ (LeftByAdmin(log[k].room) \/ LastUserAsks(k))

(* The invite of event i is the last word on its room. *)
Standing(i) == LET r == log[i].room IN
  /\ log[i].kind = "invite"
  /\ ~Ignored(r)
  /\ ~LeftByAdmin(r)
  /\ \A j \in (i + 1) .. Len(log) : ~Dismisses(log[j], r)

(* A standing invite the handler is done with has been followed. *)
InvitesTaken == \A i \in 1 .. Done : Standing(i) => membership[log[i].room] = "join"

(* The number of acknowledged events only grows. *)
LEMMA AckedGrows ==
  ASSUME TypeOK, [Next]_vars
  PROVE  acked <= acked' /\ acked \in Nat
<1>0. acked \in Nat /\ sent \in Nat /\ acked <= sent
  BY DEF TypeOK
<1> QED
  BY <1>0, DeliveryStep
     DEF Elsewhere, txnVars, Waits, Sends, SpawnJoin, Acknowledge, Advance

(* The event a step adds to the log: a user's, when all before it are acknowledged,
   or a leave the appservice has made. *)
LEMMA NewEvent ==
  ASSUME Paced, TypeOK, LeavingHasCause, [Next]_vars, NEW k \in 1 .. Len(log'), k \notin 1 .. Len(log)
  PROVE  /\ k = Len(log) + 1
         /\ \/ log'[k].sender = "user" /\ acked = Len(log)
            \/ /\ log'[k].sender = "appservice" /\ log'[k].kind = "leave"
               /\ log'[k].room \in Rooms
               /\ \/ LeftByAdmin(log'[k].room)
                  \/ /\ cursor \in (acked + 1) .. Len(log)
                     /\ AsksOut(CurrentEvent, Room)
                     /\ log'[k].room \in {Room} \cup Children[Room]
<1>0. /\ log \in Seq(Event) /\ Len(log) \in Nat /\ k = Len(log) + 1 /\ Len(log') = Len(log) + 1
      /\ leaving \in [Callers -> LeaveRun \cup {NotLeaving}]
  BY LogKept DEF TypeOK, HomeserverTypeOK
<1>1. CASE UserStep /\ \E e \in Event : e.sender = "user" /\ log' = Append(log, e)
  <2>1. acked = Len(log)
    BY <1>1 DEF UserStep, AtRest
  <2>2. log'[k].sender = "user"
    BY <1>0, <1>1
  <2> QED
    BY <1>0, <2>1, <2>2
<1>2. ASSUME NEW c \in Callers, leaving[c] # NotLeaving,
             NEW r \in {leaving[c].room} \cup leaving[c].todo,
             log' = Append(log, MemberEvent("leave", r, "appservice"))
      PROVE  /\ log'[k].sender = "appservice" /\ log'[k].kind = "leave"
             /\ log'[k].room \in Rooms
             /\ \/ LeftByAdmin(log'[k].room)
                \/ /\ cursor \in (acked + 1) .. Len(log)
                   /\ AsksOut(CurrentEvent, Room)
                   /\ log'[k].room \in {Room} \cup Children[Room]
  <2>1. /\ leaving[c] \in LeaveRun /\ r \in Rooms
        /\ leaving[c].todo \subseteq Children[leaving[c].room]
    BY <1>0, <1>2 DEF LeavingHasCause, LeaveRun
  <2>2. log'[k] = MemberEvent("leave", r, "appservice")
    BY <1>0, <1>2
  <2>3. log'[k].sender = "appservice" /\ log'[k].kind = "leave" /\ log'[k].room = r
    BY <2>2 DEF MemberEvent
  <2>4. CASE c = "admin"
    BY <1>2, <2>1, <2>3, <2>4 DEF LeavingHasCause, LeftByAdmin
  <2>5. CASE c = "transaction"
    <3>1. leaving[c].room = Room /\ AsksOut(CurrentEvent, Room)
      BY <1>2, <2>5 DEF LeavingHasCause
    <3>2. pc # "idle"
      BY <1>2, <2>5 DEF TypeOK
    <3>3. cursor \in (acked + 1) .. Len(log)
      BY <3>2 DEF TypeOK, HomeserverTypeOK
    <3> QED
      BY <1>2, <2>1, <2>3, <3>1, <3>3
  <2> QED
    BY <2>4, <2>5 DEF Callers
<1> QED
  BY <1>0, <1>1, <1>2, LogStep

(* The log is empty at first. *)
LEMMA InitOneAtATime == Init => OneAtATime /\ OwnLeavesAsked
  BY DEF Init, HomeserverInit, OneAtATime, OwnLeavesAsked

(* Users who wait for rest raise one event, which is the next to be handled; whatever follows is
   the appservice's own. *)
LEMMA NextOneAtATime ==
  ASSUME Paced, TypeOK, LeavingHasCause, OneAtATime, [Next]_vars
  PROVE  OneAtATime'
<1> SUFFICES ASSUME NEW k \in (acked' + 2) .. Len(log') PROVE log'[k].sender = "appservice"
  BY DEF OneAtATime
<1>0. acked \in Nat /\ acked <= acked' /\ Len(log) \in Nat
  BY AckedGrows, LogKept
<1>1. k \in Nat /\ k \in 1 .. Len(log') /\ acked + 2 <= k
  <2>1. acked' \in Nat /\ Len(log') \in Nat
    BY <1>0, NextType, LogKept DEF TypeOK
  <2> QED
    BY <1>0, <2>1, Ahead
<1>2. CASE k \in 1 .. Len(log)
  <2>1. k \in (acked + 2) .. Len(log) /\ log'[k] = log[k]
    BY <1>0, <1>1, <1>2, LogKept
  <2> QED
    BY <2>1 DEF OneAtATime
<1>3. CASE k \notin 1 .. Len(log)
  <2>1. k = Len(log) + 1
    BY <1>1, <1>3, NewEvent
  <2>2. acked # Len(log)
    BY <1>0, <1>1, <2>1
  <2> QED
    BY <1>1, <1>3, <2>2, NewEvent
<1> QED
  BY <1>2, <1>3

(* In a flat hierarchy, who asks the user out of a room asks it out of the rooms
   below; so does an admin. *)
LEMMA AskedBelow ==
  ASSUME Nested, NEW s \in Rooms, NEW r \in {s} \cup Children[s]
  PROVE  /\ \A e \in Event : AsksOut(e, s) => AsksOut(e, r)
         /\ adminLeaves \subseteq Rooms /\ LeftByAdmin(s) => LeftByAdmin(r)
<1>1. \A t \in Rooms : s \in {t} \cup Children[t] => r \in {t} \cup Children[t]
  BY DEF Nested
<1>2. ASSUME NEW e \in Event, AsksOut(e, s) PROVE AsksOut(e, r)
  BY <1>1, <1>2 DEF AsksOut, Event
<1> QED
  BY <1>1, <1>2 DEF LeftByAdmin

(* What asked for a leave asks for it after a step. *)
LEMMA AskedStays ==
  ASSUME TypeOK, [Next]_vars, NEW k \in 1 .. Len(log)
  PROVE  /\ \A r : LeftByAdmin(r) => LeftByAdmin(r)'
         /\ LastUserAsks(k) => LastUserAsks(k)'
<1>1. adminLeaves \subseteq adminLeaves'
  BY NextMonotone DEF Monotone
<1>2. \A r : LeftByAdmin(r) => LeftByAdmin(r)'
  BY <1>1 DEF LeftByAdmin
<1>3. \A j \in 1 .. k : log'[j] = log[j]
  BY LogKept
<1>4. ASSUME LastUserAsks(k) PROVE LastUserAsks(k)'
  <2>1. PICK j \in 1 .. (k - 1) :
          /\ log[j].sender = "user" /\ AsksOut(log[j], log[k].room)
          /\ \A m \in (j + 1) .. (k - 1) : log[m].sender = "appservice"
    BY <1>4 DEF LastUserAsks
  <2>2. log'[j] = log[j] /\ log'[k] = log[k] /\ \A m \in (j + 1) .. (k - 1) : log'[m] = log[m]
    BY <1>3
  <2> QED
    BY <2>1, <2>2 DEF LastUserAsks, AsksOut, Ignored
<1> QED
  BY <1>2, <1>4

(* Each leave it makes goes back to that event, or to an admin's. *)
LEMMA NextOwnLeaves ==
  ASSUME Paced, Nested, TypeOK, LeavingHasCause, OneAtATime, OwnLeavesAsked, [Next]_vars
  PROVE  OwnLeavesAsked'
<1> SUFFICES ASSUME NEW k \in 1 .. Len(log'), log'[k].sender = "appservice"
             PROVE  log'[k].kind = "leave" /\ (LeftByAdmin(log[k].room)' \/ LastUserAsks(k)')
  BY DEF OwnLeavesAsked, LeftByAdmin
<1>0. /\ Len(log) \in Nat /\ acked \in Nat /\ cursor \in Nat /\ k \in Nat
      /\ \A i \in 1 .. Len(log) : log'[i] = log[i] /\ log[i] \in Event
  BY LogKept DEF TypeOK
<1>1. CASE k \in 1 .. Len(log)
  BY <1>0, <1>1, AskedStays DEF OwnLeavesAsked
<1>2. CASE k \notin 1 .. Len(log)
  <2> DEFINE r == log'[k].room
  <2>1. k = Len(log) + 1 /\ log'[k].kind = "leave" /\ r \in Rooms
    BY <1>2, NewEvent
  <2>2. CASE LeftByAdmin(r)
    <3>1. adminLeaves \subseteq adminLeaves'
      BY NextMonotone DEF Monotone
    <3> QED
      BY <2>1, <2>2, <3>1 DEF LeftByAdmin
  <2>3. CASE /\ cursor \in (acked + 1) .. Len(log)
             /\ AsksOut(CurrentEvent, Room)
             /\ r \in {Room} \cup Children[Room]
    <3>1. cursor \in 1 .. Len(log) /\ CurrentEvent = log[cursor] /\ Room \in Rooms
          /\ Room = log[cursor].room
      BY <1>0, <2>3 DEF CurrentEvent, Room, Event
    <3>2. \A m \in (cursor + 1) .. Len(log) : log[m].sender = "appservice"
      BY <1>0, <2>3 DEF OneAtATime
    <3>3. ASSUME NEW j \in 1 .. cursor, log[j].sender = "user", AsksOut(log[j], Room),
                 \A m \in (j + 1) .. cursor : log[m].sender = "appservice"
          PROVE  LastUserAsks(k)'
      <4>1. j \in 1 .. Len(log) /\ j \in 1 .. (k - 1)
        BY <1>0, <2>1, <3>1
      <4>2. AsksOut(log[j], r)
        BY <1>0, <2>3, <3>1, <3>3, <4>1, AskedBelow
      <4>3. \A m \in (j + 1) .. (k - 1) : log'[m].sender = "appservice"
        <5> SUFFICES ASSUME NEW m \in (j + 1) .. (k - 1) PROVE log'[m].sender = "appservice"
          OBVIOUS
        <5>1. m \in 1 .. Len(log) /\ (m \in (j + 1) .. cursor \/ m \in (cursor + 1) .. Len(log))
          BY <1>0, <2>1, <3>1, <4>1
        <5> QED
          BY <1>0, <3>2, <3>3, <5>1
      <4>4. log'[j].sender = "user" /\ AsksOut(log'[j], r)
        BY <1>0, <3>3, <4>1, <4>2
      <4> QED
        BY <4>1, <4>3, <4>4 DEF LastUserAsks, AsksOut, Ignored
    <3>4. CASE log[cursor].sender = "user"
      <4>1. cursor \in 1 .. cursor /\ \A m \in (cursor + 1) .. cursor : FALSE
        BY <1>0, <3>1
      <4> QED
        BY <2>1, <2>3, <3>1, <3>3, <3>4, <4>1
    <3>5. CASE log[cursor].sender = "appservice"
      <4>1. CASE LeftByAdmin(Room)
        <5>1. LeftByAdmin(r)
          BY <2>3, <3>1, <4>1, AskedBelow DEF TypeOK
        <5> QED
          BY <2>2, <5>1
      <4>2. CASE LastUserAsks(cursor)
        <5>1. PICK j \in 1 .. (cursor - 1) :
                /\ log[j].sender = "user" /\ AsksOut(log[j], Room)
                /\ \A m \in (j + 1) .. (cursor - 1) : log[m].sender = "appservice"
          BY <3>1, <4>2 DEF LastUserAsks
        <5>2. j \in 1 .. cursor /\ \A m \in (j + 1) .. cursor : log[m].sender = "appservice"
          BY <1>0, <3>5, <5>1
        <5> QED
          BY <2>1, <3>3, <5>1, <5>2
      <4> QED
        BY <3>1, <3>5, <4>1, <4>2 DEF OwnLeavesAsked
    <3> QED
      BY <1>0, <3>1, <3>4, <3>5 DEF Event
  <2> QED
    BY <1>2, <2>1, <2>2, <2>3, NewEvent
<1> QED
  BY <1>1, <1>2

(* Nothing has taken a standing invite back: a leave of the appservice behind it
   would go back to a user's event behind it, too. *)
StandingIn ==
  \A i \in 1 .. Len(log) : Standing(i) => membership[log[i].room] \in {"invite", "join"}

(* A standing invite has the user invited or joined. *)
LEMMA StandingAreIn == TypeOK /\ InvitesStand /\ OwnLeavesAsked => StandingIn
<1> SUFFICES ASSUME TypeOK, InvitesStand, OwnLeavesAsked, NEW i \in 1 .. Len(log), Standing(i)
             PROVE  membership[log[i].room] \in {"invite", "join"}
  BY DEF StandingIn
<1> DEFINE r == log[i].room
<1>0. Len(log) \in Nat /\ i \in Nat /\ \A k \in 1 .. Len(log) : log[k] \in Event
  BY DEF TypeOK, HomeserverTypeOK
<1>1. log[i].kind = "invite" /\ ~Ignored(r) /\ ~LeftByAdmin(r)
      /\ \A j \in (i + 1) .. Len(log) : ~Dismisses(log[j], r)
  BY DEF Standing
<1>2. ASSUME NEW k \in (i + 1) .. Len(log), Takes(log[k], r)
      PROVE  FALSE
  <2>1. k \in 1 .. Len(log) /\ log[k].room = r
    BY <1>0, <1>2 DEF Takes
  <2>2. log[k].sender # "user"
    BY <1>1, <1>2 DEF Takes, Dismisses, AsksOut
  <2>3. log[k].sender = "appservice"
    BY <1>0, <2>1, <2>2 DEF Event
  <2>4. PICK j \in 1 .. (k - 1) :
          /\ log[j].sender = "user" /\ AsksOut(log[j], r)
          /\ \A m \in (j + 1) .. (k - 1) : log[m].sender = "appservice"
    BY <1>1, <2>1, <2>3 DEF OwnLeavesAsked, LastUserAsks
  <2>5. log[i].sender # "appservice" /\ j # i
    BY <1>1, <2>4 DEF OwnLeavesAsked, AsksOut
  <2>6. ~(i \in (j + 1) .. (k - 1))
    BY <2>4, <2>5
  <2>7. j \in (i + 1) .. Len(log)
    BY <1>0, <1>2, <2>5, <2>6
  <2> QED
    BY <1>1, <2>4, <2>7 DEF Dismisses
<1> QED
  BY <1>1, <1>2 DEF InvitesStand

(* What stands after a step stood before it. *)
LEMMA StandingBefore ==
  ASSUME TypeOK, [Next]_vars, NEW i \in 1 .. Len(log), Standing(i)'
  PROVE  Standing(i) /\ log'[i] = log[i] /\ log[i].room \in Rooms
<1>1. /\ Len(log) \in Nat /\ Len(log) <= Len(log') /\ Len(log') \in Nat
      /\ \A j \in 1 .. Len(log) : log'[j] = log[j]
      /\ log[i] \in Event
      /\ adminLeaves \subseteq adminLeaves'
  BY LogKept, NextMonotone DEF Monotone
<1>2. \A j \in (i + 1) .. Len(log) : j \in (i + 1) .. Len(log') /\ log'[j] = log[j]
  BY <1>1
<1>3. ~LeftByAdmin(log[i].room)
  BY <1>1 DEF Standing, LeftByAdmin
<1> QED
  BY <1>1, <1>2, <1>3 DEF Standing, Dismisses, AsksOut, Ignored, Event

(* The handler is past an invite only when it has joined. *)
LEMMA FinishInvite ==
  ASSUME ~Lossy, TypeOK, HandlerHasCause, Finishes, CurrentEvent.kind = "invite", ~Ignored(Room),
         membership[Room] \in {"invite", "join"}
  PROVE  membership'[Room] = "join"
<1>1. ~SpawnRecache /\ ~Banned /\ ~Skip /\ ~RecordPublic /\ ~DeleteVerdict /\ ~ForgetRoom
  BY DEF SpawnRecache, Banned, Skip, RecordPublic, DeleteVerdict, ForgetRoom, At, HandlerHasCause,
         AutoJoinKinds
<1>2. PICK reply \in Replies : JoinInvite(reply)
  BY <1>1 DEF Finishes, JoinPublic, At
<1>3. HsJoin(Room, reply) /\ Room \in Rooms /\ membership \in [Rooms -> Membership]
  BY <1>2, RoomType DEF JoinInvite, At, TypeOK, HomeserverTypeOK
<1>4. membership' = [membership EXCEPT ![Room] = "join"]
  BY <1>3 DEF HsJoin, MayJoin
<1> QED
  BY <1>3, <1>4

(* Nothing is handled at first. *)
LEMMA InitTaken == Init => InvitesTaken
  BY DEF Init, Done, InvitesTaken

(* A standing invite that is handled is taken, and no own leave undoes it. *)
LEMMA NextTaken ==
  ASSUME ~Lossy, TypeOK, TypeOK', HandlerHasCause, OneAtATime, OwnLeavesAsked,
         StandingIn, StandingIn',
         InvitesTaken, [Next]_vars
  PROVE  InvitesTaken'
<1> SUFFICES ASSUME NEW i \in 1 .. Done', Standing(i)'
             PROVE  membership'[log'[i].room] = "join"
  BY DEF InvitesTaken
<1>0. /\ Done \in Nat /\ Done <= Len(log) /\ Len(log) \in Nat /\ acked \in Nat /\ acked <= Done
      /\ Done' \in Nat /\ Done' <= Len(log') /\ Len(log') \in Nat /\ i \in Nat /\ i <= Done'
  <2>1. Done' \in 0 .. Len(log') /\ Len(log') \in Nat
    BY DoneTypeNext, LogKept
  <2>2. i \in 1 .. Len(log')
    BY <2>1
  <2> QED
    BY <2>1, <2>2, DoneType DEF TypeOK
<1>a. i \in 1 .. Len(log')
  BY <1>0
<1>b. membership'[log'[i].room] \in {"invite", "join"}
  BY <1>a DEF StandingIn
<1>1. CASE i <= Done
  <2>1. i \in 1 .. Len(log)
    BY <1>0, <1>1
  <2>2. Standing(i) /\ log'[i] = log[i] /\ log[i].room \in Rooms
    BY <2>1, StandingBefore
  <2>3. membership[log[i].room] = "join"
    BY <1>0, <1>1, <2>2 DEF InvitesTaken
  <2> QED
    BY <1>b, <2>2, <2>3, MembershipStep DEF MembershipMoves
<1>2. CASE ~(i <= Done)
  <2>1. ~(Done' <= Done)
    BY <1>0, <1>2
  <2>2. CASE log' = log /\ Finishes /\ Done' = cursor /\ cursor = Done + 1
    <3>1. i = cursor /\ i \in 1 .. Len(log)
      BY <1>0, <1>2, <2>2
    <3>2. Standing(i)
      BY <3>1, StandingBefore
    <3>3. CurrentEvent.kind = "invite" /\ ~Ignored(Room)
          /\ membership[Room] \in {"invite", "join"}
      BY <3>1, <3>2 DEF StandingIn, Standing, CurrentEvent, Room
    <3> QED
      BY <2>2, <3>1, <3>3, FinishInvite DEF CurrentEvent, Room
  <2>3. CASE log' = log /\ SpawnJoin /\ cursor = Done + 1
    <3>1. i \in 1 .. Len(log)
      BY <1>0, <1>2, <2>3
    <3>2. log[i].kind = "invite"
      BY <3>1, StandingBefore DEF Standing
    <3>3. i # cursor
      BY <2>3, <3>2 DEF SpawnJoin, At, CurrentEvent, AutoJoinKinds
    <3>4. i \in (acked + 2) .. Len(log)
      BY <1>0, <1>2, <2>3, <3>1, <3>3
    <3> QED
      BY <3>1, <3>2, <3>4 DEF OneAtATime, OwnLeavesAsked
  <2> QED
    BY <2>1, <2>2, <2>3, DoneStepAny
<1> QED
  BY <1>1, <1>2

(* Where users wait for the appservice, no request fails and hierarchies are flat:
   whatever invites, kicks, bans and withdrawals of rooms and spaces come before
   and after, whatever answers are lost and wherever the process is restarted, at
   rest the user is in every room whose invite nothing contradicts. The leaves the
   appservice makes come back to it as leaves like any other; none of them takes
   the user out of a room it was invited to since. *)
THEOREM InvitesAreHonoured == Paced /\ ~Lossy /\ Nested => (Spec => []InviteHonoured)
<1> SUFFICES ASSUME Paced, ~Lossy, Nested PROVE Spec => []InviteHonoured
  OBVIOUS
<1> DEFINE IInv == Causes /\ InvitesStand /\ OneAtATime /\ OwnLeavesAsked /\ InvitesTaken
<1>1. Init => IInv
  BY InitCauses, InitInvites, InitOneAtATime, InitTaken
<1>2. IInv /\ [Next]_vars => IInv'
  <2> SUFFICES ASSUME IInv, [Next]_vars PROVE IInv'
    OBVIOUS
  <2>1. TypeOK /\ LeavingHasCause /\ HandlerHasCause /\ TypeOK' /\ Causes'
    BY NextCauses, NextType DEF Causes, JoinCauses
  <2>2. InvitesStand' /\ OneAtATime' /\ OwnLeavesAsked'
    BY <2>1, NextInvites, NextOneAtATime, NextOwnLeaves
  <2>3. StandingIn /\ StandingIn'
    BY <2>1, <2>2, StandingAreIn, PTL
  <2> QED
    BY <2>1, <2>2, <2>3, NextTaken
<1>3. IInv => InviteHonoured
  <2> SUFFICES ASSUME TypeOK, InvitesTaken, AtRest, NEW i \in 1 .. Len(log), Standing(i)
               PROVE  log[i].room \in Joined
    BY DEF Causes, JoinCauses, InviteHonoured, Standing
  <2>1. Done = Len(log)
    BY DoneType
  <2>2. log[i] \in Event
    BY DEF TypeOK, HomeserverTypeOK
  <2> QED
    BY <2>1, <2>2 DEF InvitesTaken, Joined, Event
<1> QED
  BY <1>1, <1>2, <1>3, PTL DEF Spec
==============================================================================
