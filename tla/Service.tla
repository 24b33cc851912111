-------------------------------- MODULE Service --------------------------------
(***************************************************************************)
(* The process around the event side: its start (AppService::new,          *)
(* AppState::new, Server::run), the ping it sends the homeserver from a    *)
(* task spawned before the listener is bound (src/server.rs), the id of    *)
(* that ping in TransactionStore (src/ping.rs), its death at any step, and *)
(* the supervisor that starts it again.  While it is not listening the     *)
(* homeserver's transactions, its calls of the ping and the admin's        *)
(* requests are refused.                                                   *)
(*                                                                         *)
(* Every step is one of module Transactions or leaves its variables alone. *)
(* A Restart of that module happens twice in a life of the process: when   *)
(* it dies, and when the next one reads the list of rooms.                 *)
(***************************************************************************)
EXTENDS Transactions

VARIABLES
  process,   \* how far the process has come
  life,      \* its number; 0 before the first.  It stands for the Uuid of its ping, too
  stored,    \* TransactionStore.current_id; 0: None
  ping,      \* the task that pings the homeserver
  pings      \* lives whose ping the homeserver has yet to call back for

serviceVars == <<process, life, stored, ping, pings>>
allVars == <<vars, serviceVars>>

Phases == {"down", "auth", "rooms", "bind", "up"}
PingStates == {"none", "spawned", "stored", "sent", "ok", "failed"}

ServiceTypeOK ==
  /\ TypeOK
  /\ process \in Phases /\ ping \in PingStates
  /\ life \in Nat /\ stored \in {0, life} /\ pings \subseteq 1 .. life
  /\ process # "up" => pc = "idle" /\ tasks = {} /\ leaving["admin"] = NotLeaving
  /\ ping # "none" <=> process \in {"bind", "up"}

ServiceInit ==
  /\ Init
  /\ process = "down" /\ life = 0 /\ stored = 0 /\ ping = "none" /\ pings = {}

------------------------------------------------------------------------------
(* The start. *)

(* systemd's Restart=on-failure, or the operator.  Nothing is stored yet. *)
Start ==
  /\ process = "down"
  /\ process' = "auth" /\ life' = life + 1
  /\ UNCHANGED <<vars, stored, ping, pings>>

(* Fault: the ping is sent off before the list of rooms is read. *)
AuthenticatePings ==
  /\ process = "auth"
  /\ process' = "rooms" /\ ping' = "spawned"
  /\ UNCHANGED <<vars, life, stored, pings>>

(* whoami is answered (for its failure see Exit). *)
Authenticate ==
  /\ process = "auth"
  /\ process' = "rooms"
  /\ UNCHANGED <<vars, life, stored, ping, pings>>

(* joined_rooms; the rest of AppState::new, and Server::run up to the spawn. *)
ReadRooms ==
  /\ process = "rooms"
  /\ Restart
  /\ process' = "bind" /\ ping' = "spawned"
  /\ UNCHANGED <<life, stored, pings>>

(* Fault: the ping is awaited before the listener is bound. *)
BindAfterPing ==
  /\ process = "bind" /\ ping = "ok"
  /\ process' = "up"
  /\ UNCHANGED <<vars, life, stored, ping, pings>>

Bind ==
  /\ process = "bind"
  /\ process' = "up"
  /\ UNCHANGED <<vars, life, stored, ping, pings>>

(* What the process has in memory is lost.  The bound leaves a break for the
   next process to read its rooms with. *)
Die ==
  /\ breaks + 1 < MaxBreaks
  /\ Restart
  /\ process' = "down" /\ stored' = 0 /\ ping' = "none"
  /\ UNCHANGED <<life, pings>>

(* The homeserver rejects the token or does not answer; the port is taken. *)
Exit == process \in {"auth", "bind"} /\ Die

Crash == process # "down" /\ Die

------------------------------------------------------------------------------
(* The ping. *)

(* generate_transaction_id, under the write lock. *)
PingStore ==
  /\ ping = "spawned"
  /\ ping' = "stored" /\ stored' = life
  /\ UNCHANGED <<vars, process, life, pings>>

(* ping_homeserver, whose answer is awaited without a timeout. *)
PingSend ==
  /\ ping = "stored"
  /\ ping' = "sent" /\ pings' = pings \cup {life}
  /\ UNCHANGED <<vars, process, life, stored>>

(* The homeserver does not call back or its answer is lost. *)
PingFails ==
  /\ ping = "sent"
  /\ ping' = "failed"
  /\ UNCHANGED <<vars, process, life, stored, pings>>

(* Fault: any id takes the stored one. *)
VerifyAndRemoveAny(id) == stored' = 0

VerifyAndRemove(id) == stored' = IF stored = id THEN 0 ELSE stored

(* The homeserver calls POST /_matrix/app/v1/ping.  An id that is not the stored
   one is answered like any other; nobody answers before the listener is bound.
   The outcome is the answer to the ping, when that is still awaited. *)
CallBack(id) ==
  /\ pings' = pings \ {id}
  /\ IF process = "up" THEN VerifyAndRemove(id) ELSE UNCHANGED stored
  /\ ping' = IF id = life /\ ping = "sent"
               THEN IF process = "up" THEN "ok" ELSE "failed"
               ELSE ping
  /\ UNCHANGED <<vars, process, life>>

------------------------------------------------------------------------------
(* Listening. *)

Serve(A) == process = "up" /\ A /\ UNCHANGED serviceVars

Meanwhile == (UserStep \/ Tick) /\ UNCHANGED serviceVars

Startup == Start \/ Authenticate \/ ReadRooms \/ Bind

ServiceNext ==
  \/ Startup \/ Exit \/ Crash
  \/ PingStore \/ PingSend \/ PingFails
  \/ \E id \in pings : CallBack(id)
  \/ Serve(Work)
  \/ Meanwhile

ServiceSpec == ServiceInit /\ [][ServiceNext]_allVars

(* Besides what Transactions assumes of a process that listens: the supervisor
   starts it, the homeserver answers the requests of the start, which have no timeout
   either, and it calls back. *)
ServiceFairness ==
  /\ WF_allVars(Startup)
  /\ WF_allVars(PingStore \/ PingSend \/ \E id \in pings : CallBack(id))
  /\ WF_allVars(Serve(Deliver \/ Redeliver))
  /\ WF_allVars(Serve(HandlerStep))
  /\ WF_allVars(Serve(\E t \in tasks : RunTask(t)))
  /\ WF_allVars(Serve(LeaveStep("admin") \/ AdminLeft))
  /\ WF_allVars(Meanwhile /\ Tick)

FairServiceSpec == ServiceSpec /\ ServiceFairness

------------------------------------------------------------------------------
(* While the homeserver has yet to call back for the ping of this life, its id
   is the stored one: no call that an earlier life asked for, however late, and
   no restart takes it away, so "Transaction ID does not match" is never said of
   one's own ping. *)
PingFindsItsId == process # "down" /\ life \in pings => stored = life

(* Whatever becomes of the ping, the process ends up listening and with nothing
   left to do: the start does not wait for a call back that cannot reach it. *)
ServiceComesToRest ==
  <>[](process = "up" /\ ping \in {"ok", "failed"} /\ AtRest)
================================================================================
