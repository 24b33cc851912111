----------------------------- MODULE ServiceProofs -----------------------------
(***************************************************************************)
(* What holds of Service for every value of the constants: it is           *)
(* Transactions, whose restarts it takes apart, so what TransactionsProofs *)
(* and RestProofs prove holds of it too; and the ping's id is there when   *)
(* it is called for.                                                       *)
(***************************************************************************)
EXTENDS Service, RestProofs

(* A step of the process is a step of Transactions, or changes nothing there. *)
LEMMA ServiceSteps == [ServiceNext]_allVars => [Next]_vars
<1> SUFFICES ASSUME [ServiceNext]_allVars
             PROVE  [Next]_vars
  OBVIOUS
<1>1. CASE Start \/ Authenticate \/ Bind \/ PingStore \/ PingSend \/ PingFails
  BY <1>1 DEF Start, Authenticate, Bind, PingStore, PingSend, PingFails
<1>2. CASE ReadRooms \/ Exit \/ Crash
  BY <1>2 DEF ReadRooms, Exit, Crash, Die, Next
<1>3. CASE \E id \in pings : CallBack(id)
  BY <1>3 DEF CallBack
<1>4. CASE Serve(Work)
  BY <1>4 DEF Serve, Next
<1>5. CASE Meanwhile
  BY <1>5 DEF Meanwhile, Next, Work
<1>6. CASE UNCHANGED allVars
  BY <1>6 DEF allVars
<1> QED
  BY <1>1, <1>2, <1>3, <1>4, <1>5, <1>6 DEF ServiceNext, Startup

(* The process with its start in phases implements the event side, in which a
   restart is one step. *)
THEOREM ServiceImplementsTransactions == ServiceSpec => Spec
<1>1. ServiceInit => Init
  BY DEF ServiceInit
<1> QED
  BY <1>1, ServiceSteps, PTL DEF ServiceSpec, Spec

(* Refused deliveries, a start that fails at any phase and a process that dies at
   any step make the user join nothing, and leave nothing, that nobody asked for. *)
THEOREM ServiceHasCauses ==
  ServiceSpec => [](JoinHasCause /\ VerdictHasCause /\ LeaveHasCause)
  BY ServiceImplementsTransactions, JoinsHaveCause, VerdictsHaveCause, LeavesHaveCause, PTL

(* Nor do they make it skip an event: without auto_join it delivers in order over
   all its lives, with it, it skips only what auto_join skips. *)
THEOREM ServiceDelivers ==
  (ServiceSpec => []OnlyAutoJoinSkips) /\ (~AutoJoin => (ServiceSpec => InOrder))
<1>1. ServiceSpec => []OnlyAutoJoinSkips
  BY ServiceImplementsTransactions, OnlyAutoJoinMaySkip, PTL
<1>2. ASSUME ~AutoJoin PROVE ServiceSpec => InOrder
  <2>1. Spec => InOrder
    BY <1>2, HandlerDeliversInOrder
  <2> QED
    BY <2>1, ServiceImplementsTransactions, PTL
<1> QED
  BY <1>1, <1>2

(* A life that ends, and another that starts, lose no invite: where users wait for
   the appservice, no request fails and hierarchies are flattened, at rest the user
   is in every room whose invite nothing contradicts.  Of users who do not wait it
   is false: a late leave_room rejects an invite that came after the leave. *)
THEOREM ServiceKeepsInvites == Paced /\ ~Lossy /\ Nested => (ServiceSpec => []InviteHonoured)
<1> SUFFICES ASSUME Paced, ~Lossy, Nested PROVE ServiceSpec => []InviteHonoured
  OBVIOUS
<1>1. Spec => []InviteHonoured
  BY InvitesAreHonoured
<1> QED
  BY <1>1, ServiceImplementsTransactions, PTL

------------------------------------------------------------------------------
(* The ping's id.  Until the request is sent the homeserver does not know it, and
   the calls still to come that are not for this life name older ones. *)
PingInv ==
  /\ process \in Phases /\ ping \in PingStates
  /\ life \in Nat /\ stored \in {0, life} /\ pings \subseteq 1 .. life
  /\ ping # "none" <=> process \in {"bind", "up"}
  /\ process = "down" => stored = 0
  /\ process # "down" => life > 0
  /\ process # "down" /\ ping \in {"none", "spawned", "stored"} => life \notin pings
  /\ ping = "stored" => stored = life
  /\ PingFindsItsId

(* No ping is under way at first, *)
LEMMA PingInit == ServiceInit => PingInv
  BY DEF ServiceInit, PingInv, PingFindsItsId, Phases, PingStates

(* and each step keeps the id of this life's ping stored, those of other lives' call backs among
   them. *)
LEMMA PingNext == PingInv /\ [ServiceNext]_allVars => PingInv'
<1> SUFFICES ASSUME PingInv, [ServiceNext]_allVars
             PROVE  PingInv'
  OBVIOUS
<1> USE DEF PingInv, PingFindsItsId, Phases, PingStates
<1>1. CASE Start
  BY <1>1 DEF Start
<1>2. CASE Authenticate \/ ReadRooms \/ Bind
  BY <1>2 DEF Authenticate, ReadRooms, Bind
<1>3. CASE Exit \/ Crash
  BY <1>3 DEF Exit, Crash, Die
<1>4. CASE PingStore
  BY <1>4 DEF PingStore
<1>5. CASE PingSend
  BY <1>5 DEF PingSend
<1>6. CASE PingFails
  BY <1>6 DEF PingFails
<1>7. ASSUME NEW id \in pings, CallBack(id)
      PROVE  PingInv'
  <2>1. process' = process /\ life' = life /\ pings' = pings \ {id} /\ id \in 1 .. life
    BY <1>7 DEF CallBack
  <2>2. CASE id = life
    BY <1>7, <2>1, <2>2 DEF CallBack, VerifyAndRemove
  <2>3. CASE id # life
    BY <1>7, <2>1, <2>3 DEF CallBack, VerifyAndRemove
  <2> QED
    BY <2>2, <2>3
<1>8. CASE Serve(Work) \/ Meanwhile \/ UNCHANGED allVars
  BY <1>8 DEF Serve, Meanwhile, allVars, serviceVars
<1> QED
  BY <1>1, <1>2, <1>3, <1>4, <1>5, <1>6, <1>7, <1>8 DEF ServiceNext, Startup

(* While the homeserver has yet to call back for the ping of this life, its id
   is stored, whatever calls of earlier lives arrive late and whenever the
   process dies. *)
THEOREM PingIdIsFound == ServiceSpec => []PingFindsItsId
<1>1. PingInv => PingFindsItsId
  BY DEF PingInv
<1> QED
  BY <1>1, PingInit, PingNext, PTL DEF ServiceSpec

------------------------------------------------------------------------------
(* Types.  A process that does not listen has no handler and no task. *)
IdleUnlessUp ==
  process # "up" => pc = "idle" /\ tasks = {} /\ leaving["admin"] = NotLeaving

(* Only a process that listens has work under way: a death ends it. *)
LEMMA IdleNext == IdleUnlessUp /\ [ServiceNext]_allVars => IdleUnlessUp'
<1> SUFFICES ASSUME IdleUnlessUp, [ServiceNext]_allVars
             PROVE  IdleUnlessUp'
  OBVIOUS
<1> USE DEF IdleUnlessUp
<1>1. CASE Start \/ Authenticate \/ Bind \/ PingStore \/ PingSend \/ PingFails
  BY <1>1 DEF Start, Authenticate, Bind, PingStore, PingSend, PingFails, vars, txnVars
<1>2. CASE ReadRooms \/ Exit \/ Crash
  BY <1>2 DEF ReadRooms, Exit, Crash, Die, Restart, Callers
<1>3. CASE \E id \in pings : CallBack(id)
  BY <1>3 DEF CallBack, vars, txnVars
<1>4. CASE Serve(Work)
  BY <1>4 DEF Serve, serviceVars
<1>5. CASE Meanwhile \/ UNCHANGED allVars
  BY <1>5 DEF Meanwhile, UserStep, Tick, allVars, vars, txnVars, serviceVars
<1> QED
  BY <1>1, <1>2, <1>3, <1>4, <1>5 DEF ServiceNext, Startup

(* The types hold, and what the process had in memory never outlives it. *)
THEOREM ServiceTypeCorrect == ServiceSpec => []ServiceTypeOK
<1>1. ServiceInit => IdleUnlessUp
  BY DEF ServiceInit, Init, IdleUnlessUp, Callers
<1>2. TypeOK /\ PingInv /\ IdleUnlessUp => ServiceTypeOK
  BY DEF PingInv, IdleUnlessUp, ServiceTypeOK
<1> QED
  BY <1>1, <1>2, IdleNext, PingInit, PingNext, ServiceImplementsTransactions, TypeCorrect, PTL
  DEF ServiceSpec
================================================================================
