------------------------------- MODULE RoomGate -------------------------------
(***************************************************************************)
(* The read side's gate: the middleware every proxied request about a room *)
(* passes (src/middleware.rs).  validate_room_id turns an alias into a     *)
(* room id; validate_public_room lets the request through when the         *)
(* appservice's user is in the room, according to the verdict in Redis or  *)
(* else to the homeserver.                                                 *)
(*                                                                         *)
(* It runs beside the event side (Transactions), which it meets in the     *)
(* membership it asks for and in the verdicts both of them write.          *)
(***************************************************************************)
EXTENDS Transactions

CONSTANTS
  Readers,           \* the requests under way at a time
  CacheJoinedRooms,  \* cache.joined_rooms.enabled
  Latency            \* bound: ticks between an answer about a room and its being recorded

Handler == "handler"    \* the recorder beside the readers

ASSUME RoomGateAssumption ==
  /\ CacheJoinedRooms \in BOOLEAN
  /\ Latency \in Nat
  /\ Handler \notin Readers

VARIABLES
  reader,   \* [Readers -> Request]
  waited,   \* ticks since the answer that a reader, or the handler, is about to record
  gone      \* history: ticks since the user was last in the room, up to Never

gateVars == <<reader, waited, gone>>
allVars == <<vars, gateVars>>

Never == VerdictTtl + Latency

Request == [at : {"idle", "resolve", "lookup", "check", "store", "served", "refused"},
            room : Rooms]

(* Recorders with an answer in hand. *)
HasAnswer(w) == IF w = Handler THEN pc = "record" ELSE reader[w].at = "store"

GateTypeOK ==
  /\ TypeOK
  /\ reader \in [Readers -> Request]
  /\ waited \in [Readers \cup {Handler} -> 0 .. Latency]
  /\ gone \in [Rooms -> 0 .. Never]

GateInit ==
  /\ Init
  /\ reader \in [Readers -> [at : {"idle"}, room : Rooms]]
  /\ waited = [w \in Readers \cup {Handler} |-> 0]
  /\ gone = [r \in Rooms |-> IF r \in Joined THEN 0 ELSE Never]

GoTo(rd, place) == reader' = [reader EXCEPT ![rd].at = place]

------------------------------------------------------------------------------

(* A request arrives, by room id or by alias. *)
Ask(rd, r) ==
  /\ reader[rd].at = "idle"
  /\ \E place \in {"resolve", "lookup"} :
        reader' = [reader EXCEPT ![rd] = [at |-> place, room |-> r]]
  /\ UNCHANGED <<vars, waited>>

(* room_id_from_alias.  An alias that does not resolve stays in the place of the
   room id, which then does not parse. *)
Resolve(rd) ==
  /\ reader[rd].at = "resolve"
  /\ \E place \in {"lookup", "refused"} : GoTo(rd, place)
  /\ UNCHANGED <<vars, waited>>

(* Fault: a verdict that is used is renewed. *)
LookupRenews(rd) ==
  /\ reader[rd].at = "lookup"
  /\ \/ /\ CacheJoinedRooms /\ cached[reader[rd].room] > 0
        /\ CacheVerdict(reader[rd].room)
        /\ GoTo(rd, "served")
     \/ GoTo(rd, "check") /\ UNCHANGED cached
  /\ UNCHANGED <<hsVars, txnVars, leaving, tasks, joinedRooms, calls, breaks, histVars, waited>>

(* check_room_membership: a verdict that is there is believed; with none, an
   error of Redis, or the cache disabled, the homeserver is asked. *)
Lookup(rd) ==
  /\ reader[rd].at = "lookup"
  /\ \/ CacheJoinedRooms /\ cached[reader[rd].room] > 0 /\ GoTo(rd, "served")
     \/ /\ ~CacheJoinedRooms \/ cached[reader[rd].room] = 0 \/ Lossy
        /\ GoTo(rd, "check")
  /\ UNCHANGED <<vars, waited>>

(* Fault: a pending invite counts as membership. *)
CheckAcceptsInvite(rd) ==
  /\ reader[rd].at = "check"
  /\ IF membership[reader[rd].room] \in {"join", "invite"}
       THEN GoTo(rd, IF CacheJoinedRooms THEN "store" ELSE "served")
       ELSE GoTo(rd, "refused")
  /\ waited' = [waited EXCEPT ![rd] = 0]
  /\ UNCHANGED vars

(* has_joined_room: the membership in the user's own member event is "join". *)
HasJoined(r) == membership[r] = "join"

(* check_membership_direct asks that; a failure refuses the request. *)
Check(rd) ==
  /\ reader[rd].at = "check"
  /\ \/ /\ HasJoined(reader[rd].room)
        /\ GoTo(rd, IF CacheJoinedRooms THEN "store" ELSE "served")
     \/ ~HasJoined(reader[rd].room) /\ GoTo(rd, "refused")
     \/ Lossy /\ GoTo(rd, "refused")
  /\ waited' = [waited EXCEPT ![rd] = 0]
  /\ UNCHANGED vars

(* cache_membership_result: a positive answer is recorded, then believed. *)
Store(rd) ==
  /\ reader[rd].at = "store"
  /\ CacheVerdict(reader[rd].room)
  /\ GoTo(rd, "served")
  /\ UNCHANGED <<hsVars, txnVars, leaving, tasks, joinedRooms, calls, breaks, histVars, waited>>

(* The request is proxied (module ProxyCache), or its refusal sent. *)
Finish(rd) ==
  /\ reader[rd].at \in {"served", "refused"}
  /\ GoTo(rd, "idle")
  /\ UNCHANGED <<vars, waited>>

(* The client goes away: its request is dropped at an await. *)
Abandon(rd) ==
  /\ reader[rd].at \in {"resolve", "lookup", "check", "store"}
  /\ GoTo(rd, "idle")
  /\ UNCHANGED <<vars, waited>>

ReaderStep(rd) == Resolve(rd) \/ Lookup(rd) \/ Check(rd) \/ Store(rd) \/ Finish(rd)

(* Steps of the event side. *)
Beside(step) ==
  /\ step
  /\ waited' = IF pc' = "record" /\ pc # "record" THEN [waited EXCEPT ![Handler] = 0] ELSE waited
  /\ UNCHANGED reader

(* A restart takes the requests under way with it. *)
RestartAll ==
  /\ Restart
  /\ reader' = [rd \in Readers |-> [reader[rd] EXCEPT !.at = "idle"]]
  /\ UNCHANGED waited

(* Time passes.  Nobody sits on an answer for more than Latency ticks. *)
GateTick ==
  /\ \A w \in DOMAIN waited : HasAnswer(w) => waited[w] < Latency
  /\ Expire
  /\ waited' = [w \in DOMAIN waited |-> IF HasAnswer(w) THEN waited[w] + 1 ELSE waited[w]]
  /\ UNCHANGED <<hsVars, txnVars, leaving, tasks, joinedRooms, calls, breaks, histVars, reader>>

(* The history: how long the user has been gone. *)
GoneAfter(ticks) ==
  gone' = [r \in Rooms |-> IF r \in Joined' THEN 0
                           ELSE IF gone[r] + ticks < Never THEN gone[r] + ticks ELSE Never]

GateNext ==
  \/ Beside(Work) /\ GoneAfter(0)
  \/ RestartAll /\ GoneAfter(0)
  \/ (\E rd \in Readers :
        \/ \E r \in Rooms : Ask(rd, r)
        \/ ReaderStep(rd)
        \/ Abandon(rd)) /\ GoneAfter(0)
  \/ GateTick /\ GoneAfter(1)

GateSpec == GateInit /\ [][GateNext]_allVars

(* Assumed of Redis and the homeserver: they answer, or fail (the gate's requests
   have no timeout).  And time passes. *)
GateFairSpec ==
  /\ GateSpec
  /\ WF_allVars(Beside(HandlerStep) /\ GoneAfter(0))
  /\ \A rd \in Readers : WF_allVars(ReaderStep(rd) /\ GoneAfter(0))
  /\ WF_allVars(GateTick /\ GoneAfter(1))

------------------------------------------------------------------------------
(* A request gets through only for a room the user was in from the start or was
   asked into: by an invite it follows, by public: true, by an event auto_join
   follows, or by an admin.  Whatever Redis holds and whoever wrote it, and
   whatever joins, leaves and verdicts do meanwhile, the gate opens no other room. *)
ServedHasCause ==
  \A rd \in Readers : reader[rd].at = "served" => AskedIn(reader[rd].room)

(* A request gets through only if the user was in the room within the life of
   a verdict and the time it takes to record one. *)
ServesNoLongGone ==
  [][\A rd \in Readers :
       reader'[rd].at = "served" /\ reader[rd].at # "served"
         => gone[reader[rd].room] < VerdictTtl + Latency]_allVars

(* How old a verdict can be. *)
VerdictAge ==
  \A r \in Rooms : cached[r] > 0 => gone[r] <= (VerdictTtl - cached[r]) + Latency

(* What makes the two inductive: whoever is about to record an answer has its
   cause, and an answer in hand is no older than it has been waited with. *)
GateCauses ==
  /\ GateTypeOK /\ JoinCauses
  /\ \A r \in Rooms : cached[r] > 0 => AskedIn(r)
  /\ \A rd \in Readers : reader[rd].at \in {"store", "served"} => AskedIn(reader[rd].room)

AnswersYoung ==
  /\ \A r \in Joined : gone[r] = 0
  /\ \A rd \in Readers : reader[rd].at = "store" => gone[reader[rd].room] <= waited[rd]
  /\ pc = "record" => gone[Room] <= waited[Handler]

GateYoung == GateTypeOK /\ AnswersYoung /\ VerdictAge

(* A room the user is out of for good is in the end refused, however often it
   is asked for. *)
StopsServing ==
  \A r \in Rooms :
    <>[](r \notin Joined)
      => <>[](\A rd \in Readers : reader[rd].at = "served" => reader[rd].room # r)
==============================================================================
