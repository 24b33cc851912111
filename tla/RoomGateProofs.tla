---------------------------- MODULE RoomGateProofs ----------------------------
(***************************************************************************)
(* What holds of RoomGate for every set of rooms and readers, every life   *)
(* of a verdict and every latency: its types, that a request gets through  *)
(* only for a room somebody asked the user into, and that it does so only  *)
(* shortly after the user was last in it.                                  *)
(***************************************************************************)
EXTENDS RoomGate, TransactionsProofs

------------------------------------------------------------------------------
(* The steps of the event side are steps of Transactions, the others leave all
   of it but the verdicts alone. *)

EventSideStays ==
  UNCHANGED <<hsVars, txnVars, leaving, tasks, joinedRooms, calls, breaks, histVars>>

(* A reader that goes somewhere stays on its room, and the others where they are. *)
LEMMA GoToActs ==
  ASSUME reader \in [Readers -> Request], NEW rd \in Readers,
         NEW place \in {"idle", "resolve", "lookup", "check", "store", "served", "refused"},
         GoTo(rd, place)
  PROVE  /\ reader' \in [Readers -> Request]
         /\ reader'[rd].at = place /\ reader'[rd].room = reader[rd].room
         /\ \A s \in Readers : s # rd => reader'[s] = reader[s]
<1>1. PICK q \in Request : q = reader[rd]
  OBVIOUS
<1>2. /\ [q EXCEPT !.at = place] \in Request
      /\ [q EXCEPT !.at = place].at = place
      /\ [q EXCEPT !.at = place].room = q.room
  BY DEF Request
<1>3. reader' = [reader EXCEPT ![rd] = [q EXCEPT !.at = place]]
  BY <1>1 DEF GoTo
<1> QED
  BY <1>1, <1>2, <1>3

(* The types do not depend on which verdicts there are. *)
LEMMA VerdictsApart ==
  ASSUME TypeOK, EventSideStays, cached' \in [Rooms -> 0 .. VerdictTtl]
  PROVE  TypeOK' /\ Monotone
<1>1. TypeOK'
  BY DEF TypeOK, EventSideStays, HomeserverTypeOK, hsVars, txnVars, histVars
<1>2. Monotone
  BY StaysGrows DEF TypeOK, EventSideStays, HomeserverTypeOK, Monotone, hsVars, txnVars, histVars
<1> QED
  BY <1>1, <1>2

(* Recording a verdict, or time passing, leaves verdicts of the right kind. *)
LEMMA VerdictTypes ==
  ASSUME TypeOK
  PROVE  /\ Expire => cached' \in [Rooms -> 0 .. VerdictTtl]
         /\ \A r \in Rooms : CacheVerdict(r) => cached' \in [Rooms -> 0 .. VerdictTtl]
         /\ UNCHANGED cached => cached' \in [Rooms -> 0 .. VerdictTtl]
  BY TransactionsAssumption DEF TypeOK, Expire, CacheVerdict

(* What a reader does: it goes on with its room, takes up another, and may record
   a verdict; the event side stays as it is. *)
ReaderMoves(rd) == (\E r \in Rooms : Ask(rd, r)) \/ ReaderStep(rd) \/ Abandon(rd)

(* The four kinds of steps. *)
LEMMA FourSteps ==
  ASSUME [GateNext]_allVars
  PROVE  \/ Beside(Work) /\ GoneAfter(0)
         \/ RestartAll /\ GoneAfter(0)
         \/ (\E rd \in Readers : ReaderMoves(rd)) /\ GoneAfter(0)
         \/ GateTick /\ GoneAfter(1)
         \/ UNCHANGED allVars
  BY DEF GateNext, ReaderMoves
(* A reader gets to the end by a verdict, by an answer, or by having recorded
   one; on its way the types hold, and it records for its own room only. *)
LEMMA ReaderActs ==
  ASSUME GateTypeOK, NEW rd \in Readers, ReaderMoves(rd)
  PROVE  /\ EventSideStays /\ cached' \in [Rooms -> 0 .. VerdictTtl]
         /\ reader' \in [Readers -> Request]
         /\ waited' \in [Readers \cup {Handler} -> 0 .. Latency]
         /\ \A s \in Readers : s # rd => reader'[s] = reader[s] /\ waited'[s] = waited[s]
         /\ waited'[Handler] = waited[Handler]
         /\ \/ cached' = cached
            \/ reader[rd].at = "store" /\ cached' = [cached EXCEPT ![reader[rd].room] = VerdictTtl]
         /\ reader'[rd].at \in {"store", "served"} =>
              /\ reader'[rd].room = reader[rd].room
              /\ \/ cached[reader[rd].room] > 0 /\ reader'[rd].at = "served"
                 \/ reader[rd].room \in Joined
                 \/ reader[rd].at = "store" /\ reader'[rd].at = "served"
<1> USE RoomGateAssumption
<1>0. /\ TypeOK /\ reader \in [Readers -> Request] /\ reader[rd] \in Request
      /\ waited \in [Readers \cup {Handler} -> 0 .. Latency]
      /\ \A r \in Rooms : CacheVerdict(r) => cached' \in [Rooms -> 0 .. VerdictTtl]
      /\ UNCHANGED vars => EventSideStays /\ cached' \in [Rooms -> 0 .. VerdictTtl]
  BY VerdictTypes DEF GateTypeOK, vars, EventSideStays
<1>1. ASSUME NEW r \in Rooms, Ask(rd, r)
      PROVE  /\ UNCHANGED <<vars, waited>>
             /\ reader' \in [Readers -> Request] /\ reader'[rd].at \in {"resolve", "lookup"}
             /\ \A s \in Readers : s # rd => reader'[s] = reader[s]
  <2>1. PICK place \in {"resolve", "lookup"} :
          reader' = [reader EXCEPT ![rd] = [at |-> place, room |-> r]]
    BY <1>1 DEF Ask
  <2>2. [at |-> place, room |-> r] \in Request
    BY DEF Request
  <2> QED
    BY <1>0, <1>1, <2>1, <2>2 DEF Ask
<1>2. CASE \E r \in Rooms : Ask(rd, r)
  BY <1>0, <1>1, <1>2 DEF vars
<1>3. CASE Resolve(rd) \/ Finish(rd) \/ Abandon(rd)
  BY <1>0, <1>3, GoToActs DEF Resolve, Finish, Abandon, vars
<1>4. CASE Lookup(rd)
  BY <1>0, <1>4, GoToActs DEF Lookup, vars
<1>5. CASE Check(rd)
  <2>1. /\ UNCHANGED vars
        /\ waited' \in [Readers \cup {Handler} -> 0 .. Latency]
        /\ waited'[Handler] = waited[Handler]
        /\ \A s \in Readers : s # rd => waited'[s] = waited[s]
    BY <1>0, <1>5 DEF Check
  <2>2. CASE HasJoined(reader[rd].room) /\ (GoTo(rd, "store") \/ GoTo(rd, "served"))
    <3>1. reader[rd].room \in Joined
      BY <1>0, <2>2 DEF HasJoined, Joined, Request
    <3> QED
      BY <1>0, <2>1, <2>2, <3>1, GoToActs DEF vars
  <2>3. CASE GoTo(rd, "refused")
    BY <1>0, <2>1, <2>3, GoToActs DEF vars
  <2> QED
    BY <1>5, <2>2, <2>3 DEF Check
<1>6. CASE Store(rd)
  <2>1. reader[rd].at = "store" /\ reader[rd].room \in Rooms /\ UNCHANGED waited /\ EventSideStays
    BY <1>0, <1>6 DEF Store, Request, EventSideStays
  <2> QED
    BY <1>0, <1>6, <2>1, GoToActs DEF Store, CacheVerdict
<1> QED
  BY <1>2, <1>3, <1>4, <1>5, <1>6 DEF ReaderMoves, ReaderStep
------------------------------------------------------------------------------
(* Types. *)

(* The event side's steps are steps of Transactions. *)
LEMMA BesideActs ==
  ASSUME GateTypeOK, Beside(Work) \/ RestartAll
  PROVE  /\ [Next]_vars /\ TypeOK' /\ Monotone
         /\ reader' \in [Readers -> Request]
         /\ waited' \in [Readers \cup {Handler} -> 0 .. Latency]
         /\ \A rd \in Readers : waited'[rd] = waited[rd]
         /\ \A rd \in Readers : reader'[rd] = reader[rd] \/ reader'[rd].at = "idle"
<1> USE RoomGateAssumption
<1>1. [Next]_vars
  BY DEF Beside, RestartAll, Next
<1>2. TypeOK' /\ Monotone
  BY <1>1, NextType, NextMonotone DEF GateTypeOK
<1>3. CASE Beside(Work)
  BY <1>1, <1>2, <1>3 DEF Beside, GateTypeOK
<1>4. CASE RestartAll
  <2>1. \A q \in Request : [q EXCEPT !.at = "idle"] \in Request /\ [q EXCEPT !.at = "idle"].at = "idle"
    BY DEF Request
  <2>2. UNCHANGED waited /\ reader' = [rd \in Readers |-> [reader[rd] EXCEPT !.at = "idle"]]
    BY <1>4 DEF RestartAll
  <2> QED
    BY <1>1, <1>2, <2>1, <2>2 DEF GateTypeOK
<1> QED
  BY <1>3, <1>4

(* While time passes only verdicts, answers in hand and absences get older. *)
LEMMA TickActs ==
  ASSUME GateTypeOK, GateTick
  PROVE  /\ EventSideStays /\ UNCHANGED reader
         /\ cached' = [r \in Rooms |-> IF cached[r] > 0 THEN cached[r] - 1 ELSE 0]
         /\ cached' \in [Rooms -> 0 .. VerdictTtl]
         /\ waited' \in [Readers \cup {Handler} -> 0 .. Latency]
         /\ \A w \in Readers \cup {Handler} : HasAnswer(w) => waited'[w] = waited[w] + 1
<1>1. /\ TypeOK /\ waited \in [Readers \cup {Handler} -> 0 .. Latency]
      /\ DOMAIN waited = Readers \cup {Handler}
  BY DEF GateTypeOK
<1>2. cached' \in [Rooms -> 0 .. VerdictTtl]
  BY <1>1, VerdictTypes DEF GateTick
<1> DEFINE Holds(w) == HasAnswer(w)
<1>3. /\ \A w \in Readers \cup {Handler} : Holds(w) => waited[w] < Latency
      /\ waited' = [w \in Readers \cup {Handler} |-> IF Holds(w) THEN waited[w] + 1 ELSE waited[w]]
  BY <1>1 DEF GateTick
<1> HIDE DEF Holds
<1>4. /\ waited' \in [Readers \cup {Handler} -> 0 .. Latency]
      /\ \A w \in Readers \cup {Handler} : Holds(w) => waited'[w] = waited[w] + 1
  BY <1>1, <1>3, RoomGateAssumption
<1> QED
  BY <1>2, <1>4 DEF GateTick, EventSideStays, Expire, Holds

(* How the absences are counted. *)
LEMMA GoneActs ==
  ASSUME gone \in [Rooms -> 0 .. Never], NEW ticks \in {0, 1}, GoneAfter(ticks)
  PROVE  /\ gone' \in [Rooms -> 0 .. Never]
         /\ \A r \in Rooms : /\ gone'[r] <= gone[r] + ticks
                             /\ r \in Joined' => gone'[r] = 0
  BY TransactionsAssumption, RoomGateAssumption DEF GoneAfter, Never

(* Nothing has been recorded at first. *)
LEMMA GateInitType == GateInit => GateTypeOK
<1> SUFFICES ASSUME GateInit PROVE GateTypeOK
  OBVIOUS
<1>1. TypeOK
  BY InitType DEF GateInit
<1>2. reader \in [Readers -> Request]
  BY DEF GateInit, Request
<1>3. waited \in [Readers \cup {Handler} -> 0 .. Latency]
  BY RoomGateAssumption DEF GateInit
<1>4. gone \in [Rooms -> 0 .. Never]
  BY TransactionsAssumption, RoomGateAssumption DEF GateInit, Never
<1> QED
  BY <1>1, <1>2, <1>3, <1>4 DEF GateTypeOK

(* Every step keeps the types, and a cause once there stays. *)
LEMMA GateNextType ==
  ASSUME GateTypeOK, [GateNext]_allVars
  PROVE  GateTypeOK' /\ Monotone
<1>0. TypeOK /\ gone \in [Rooms -> 0 .. Never]
  BY DEF GateTypeOK
<1>1. CASE (Beside(Work) \/ RestartAll) /\ GoneAfter(0)
  BY <1>0, <1>1, BesideActs, GoneActs DEF GateTypeOK
<1>2. ASSUME NEW rd \in Readers, ReaderMoves(rd), GoneAfter(0)
      PROVE  GateTypeOK' /\ Monotone
  BY <1>0, <1>2, ReaderActs, VerdictsApart, GoneActs DEF GateTypeOK
<1>3. CASE GateTick /\ GoneAfter(1)
  BY <1>0, <1>3, TickActs, VerdictsApart, GoneActs DEF GateTypeOK
<1>4. CASE UNCHANGED allVars
  <2>1. EventSideStays /\ UNCHANGED cached
    BY <1>4 DEF allVars, vars, EventSideStays
  <2> QED
    BY <1>0, <1>4, <2>1, VerdictTypes, VerdictsApart DEF GateTypeOK, allVars, gateVars
<1> QED
  BY <1>1, <1>2, <1>3, <1>4, FourSteps

(* The types hold whatever readers, handler and clock do. *)
THEOREM GateTypeCorrect == GateSpec => []GateTypeOK
<1>1. GateTypeOK /\ [GateNext]_allVars => GateTypeOK'
  BY GateNextType
<1> QED
  BY <1>1, GateInitType, PTL DEF GateSpec
------------------------------------------------------------------------------
(* Causes. *)

(* The causes of joins do not depend on which verdicts there are. *)
LEMMA CausesApart ==
  ASSUME JoinCauses, EventSideStays, TypeOK'
  PROVE  JoinCauses'
  BY DEF JoinCauses, EventSideStays, HandlerHasCause, LeavingHasCause, TasksHaveCause, JoinHasCause,
         CurrentEvent, Room, AskedIn, AsksIn, AsksOut, Ignored, Joined, hsVars, txnVars, histVars

(* Nobody has asked, and nothing has been recorded, at first. *)
LEMMA GateInitCauses == GateInit => GateCauses
<1> SUFFICES ASSUME GateInit PROVE GateCauses
  OBVIOUS
<1>1. GateTypeOK /\ JoinCauses
  BY GateInitType, InitCauses DEF GateInit, Causes
<1>2. \A r \in Rooms : cached[r] = 0
  BY DEF GateInit, Init
<1>3. \A rd \in Readers : reader[rd].at = "idle"
  BY DEF GateInit
<1> QED
  BY <1>1, <1>2, <1>3 DEF GateCauses

(* Whoever records or gets through has the cause that was there before, or that
   of the membership just seen. *)
LEMMA GateNextCauses ==
  ASSUME GateCauses, [GateNext]_allVars
  PROVE  GateCauses'
<1>1. /\ GateTypeOK /\ JoinCauses /\ TypeOK /\ JoinHasCause /\ HandlerHasCause
      /\ GateTypeOK' /\ TypeOK' /\ Monotone
  BY GateNextType DEF GateCauses, GateTypeOK, JoinCauses
<1>2. \A r \in Rooms : r \in Joined \/ cached[r] > 0 \/ AskedIn(r) => AskedIn(r)'
  BY <1>1, AskedInStays DEF JoinHasCause, Joined, GateCauses
<1>3. \A r \in Rooms, rd \in Readers :
        reader[rd].room = r /\ reader[rd].at \in {"store", "served"} => AskedIn(r)'
  BY <1>2 DEF GateCauses
<1> DEFINE Goal == /\ JoinCauses'
                   /\ \A r \in Rooms : cached'[r] > 0 => AskedIn(r)'
                   /\ \A r \in Rooms, rd \in Readers :
                        reader'[rd].room = r /\ reader'[rd].at \in {"store", "served"} => AskedIn(r)'
<1> SUFFICES Goal
  BY <1>1 DEF GateCauses, GateTypeOK, Request
<1>4. CASE Beside(Work) \/ RestartAll
  <2>1. [Next]_vars /\ \A rd \in Readers : reader'[rd] = reader[rd] \/ reader'[rd].at = "idle"
    BY <1>1, <1>4, BesideActs
  <2>2. JoinCauses'
    BY <1>1, <2>1, NextHandler, NextLeaving, NextTasks, NextJoin DEF JoinCauses
  <2>3. ASSUME NEW r \in Rooms, cached'[r] > 0 PROVE AskedIn(r)'
    <3>1. CASE cached'[r] > cached[r]
      <4>1. pc = "record" /\ r = Room
        BY <1>1, <2>1, <3>1, VerdictStep
      <4>2. AskedIn(Room)
        BY <1>1, <4>1, SentAsks DEF HandlerHasCause, AsksIn, Room
      <4> QED
        BY <1>2, <4>1, <4>2
    <3>2. CASE ~(cached'[r] > cached[r])
      BY <1>1, <1>2, <2>3, <3>2 DEF TypeOK
    <3> QED
      BY <3>1, <3>2
  <2> QED
    BY <1>3, <2>1, <2>2, <2>3
<1>5. ASSUME NEW rd \in Readers, ReaderMoves(rd)
      PROVE  Goal
  <2>1. JoinCauses'
    BY <1>1, <1>5, ReaderActs, CausesApart
  <2>2. PICK q \in Rooms : q = reader[rd].room
    BY <1>1 DEF GateTypeOK, Request
  <2>3. /\ \/ cached' = cached
           \/ reader[rd].at = "store" /\ cached' = [cached EXCEPT ![q] = VerdictTtl]
        /\ reader'[rd].at \in {"store", "served"} =>
             reader'[rd].room = q /\ (cached[q] > 0 \/ q \in Joined \/ reader[rd].at = "store")
        /\ \A s \in Readers : s # rd => reader'[s] = reader[s]
    BY <1>1, <1>5, <2>2, ReaderActs
  <2>4. \A r \in Rooms : cached'[r] > 0 => AskedIn(r)'
    BY <1>1, <1>2, <1>3, <2>2, <2>3 DEF TypeOK
  <2>5. reader'[rd].at \in {"store", "served"} => reader'[rd].room = q /\ AskedIn(q)'
    BY <1>2, <1>3, <2>2, <2>3
  <2> QED
    BY <1>3, <2>1, <2>3, <2>4, <2>5
<1>6. CASE GateTick
  <2>1. JoinCauses'
    BY <1>1, <1>6, TickActs, CausesApart
  <2>2. UNCHANGED reader /\ \A r \in Rooms : cached'[r] > 0 => cached[r] > 0
    BY <1>1, <1>6, TickActs
  <2> QED
    BY <1>2, <1>3, <2>1, <2>2
<1>7. CASE UNCHANGED allVars
  <2>1. EventSideStays /\ UNCHANGED <<reader, cached>>
    BY <1>7 DEF allVars, vars, gateVars, EventSideStays
  <2>2. JoinCauses'
    BY <1>1, <2>1, CausesApart
  <2> QED
    BY <1>2, <1>3, <2>1, <2>2
<1> HIDE DEF Goal
<1> QED
  BY <1>4, <1>5, <1>6, <1>7, FourSteps

(* No request gets through for a room nobody asked the user into, whatever Redis
   holds and whoever wrote it. *)
THEOREM ServedAreAskedFor == GateSpec => []ServedHasCause
<1>1. GateCauses => ServedHasCause
  BY DEF GateCauses, ServedHasCause
<1>2. GateCauses /\ [GateNext]_allVars => GateCauses'
  BY GateNextCauses
<1> QED
  BY <1>1, <1>2, GateInitCauses, PTL DEF GateSpec
------------------------------------------------------------------------------
(* Ages. *)

(* Nothing is in hand at first. *)
LEMMA GateInitYoung == GateInit => GateYoung
<1> SUFFICES ASSUME GateInit PROVE GateYoung
  OBVIOUS
<1>1. GateTypeOK
  BY GateInitType
<1>2. \A r \in Joined : gone[r] = 0
  BY DEF GateInit, Joined
<1>3. /\ \A r \in Rooms : cached[r] = 0
      /\ pc = "idle"
      /\ \A rd \in Readers : reader[rd].at = "idle"
  BY DEF GateInit, Init
<1> QED
  BY <1>1, <1>2, <1>3 DEF GateYoung, AnswersYoung, VerdictAge

(* The room of a reader, and of an answer the handler has in hand, is a room. *)
LEMMA GateRooms ==
  ASSUME GateTypeOK
  PROVE  /\ \A rd \in Readers : reader[rd].room \in Rooms
         /\ pc = "record" => Room \in Rooms
         /\ Joined \subseteq Rooms
  BY RoomType DEF GateTypeOK, Request, Joined

(* An absence grows no faster than the answers in hand and the verdicts age, and
   an answer in hand is from when the user was in the room. *)
LEMMA GateNextYoung ==
  ASSUME GateYoung, [GateNext]_allVars
  PROVE  GateYoung'
<1> USE TransactionsAssumption, RoomGateAssumption
<1>1. /\ GateTypeOK /\ TypeOK /\ GateTypeOK' /\ TypeOK'
      /\ gone \in [Rooms -> 0 .. Never] /\ gone' \in [Rooms -> 0 .. Never]
      /\ waited \in [Readers \cup {Handler} -> 0 .. Latency]
      /\ waited' \in [Readers \cup {Handler} -> 0 .. Latency]
      /\ cached \in [Rooms -> 0 .. VerdictTtl] /\ cached' \in [Rooms -> 0 .. VerdictTtl]
      /\ Never \in Nat
  <2>1. GateTypeOK
    BY DEF GateYoung
  <2>2. GateTypeOK'
    BY <2>1, GateNextType
  <2>3. TypeOK /\ TypeOK'
    BY <2>1, <2>2 DEF GateTypeOK
  <2>4. cached \in [Rooms -> 0 .. VerdictTtl] /\ cached' \in [Rooms -> 0 .. VerdictTtl]
    BY <2>3 DEF TypeOK
  <2>5. /\ gone \in [Rooms -> 0 .. Never] /\ gone' \in [Rooms -> 0 .. Never]
        /\ waited \in [Readers \cup {Handler} -> 0 .. Latency]
        /\ waited' \in [Readers \cup {Handler} -> 0 .. Latency]
    BY <2>1, <2>2 DEF GateTypeOK
  <2> QED
    BY <2>1, <2>2, <2>3, <2>4, <2>5 DEF Never
<1>2. /\ \A r \in Joined : gone[r] = 0
      /\ \A rd \in Readers : reader[rd].at = "store" => gone[reader[rd].room] <= waited[rd]
      /\ pc = "record" => gone[Room] <= waited[Handler]
      /\ \A r \in Rooms : cached[r] > 0 => gone[r] <= (VerdictTtl - cached[r]) + Latency
  BY DEF GateYoung, AnswersYoung, VerdictAge
<1>3. /\ \A rd \in Readers : reader[rd].room \in Rooms /\ reader'[rd].room \in Rooms
      /\ pc = "record" => Room \in Rooms
      /\ Joined \subseteq Rooms /\ Joined' \subseteq Rooms
  <2>1. \A rd \in Readers : reader'[rd].room \in Rooms
    BY <1>1 DEF GateTypeOK, Request
  <2> QED
    BY <1>1, <2>1, GateRooms DEF Joined
<1> DEFINE Goal == /\ \A r \in Joined' : gone'[r] = 0
                   /\ \A rd \in Readers : reader'[rd].at = "store" => gone'[reader'[rd].room] <= waited'[rd]
                   /\ pc' = "record" => gone'[Room'] <= waited'[Handler]
                   /\ \A r \in Rooms : cached'[r] > 0 => gone'[r] <= (VerdictTtl - cached'[r]) + Latency
<1> SUFFICES Goal
  BY <1>1 DEF GateYoung, AnswersYoung, VerdictAge
<1>4. ASSUME Beside(Work) \/ RestartAll, GoneAfter(0)
      PROVE  Goal
  <2>1. /\ [Next]_vars
        /\ \A rd \in Readers : waited'[rd] = waited[rd]
        /\ \A rd \in Readers : reader'[rd] = reader[rd] \/ reader'[rd].at = "idle"
    BY <1>1, <1>4, BesideActs
  <2>2. \A r \in Rooms : gone'[r] <= gone[r] /\ (r \in Joined' => gone'[r] = 0)
    BY <1>1, <1>4, GoneActs
  <2>3. ASSUME pc' = "record" PROVE gone'[Room'] <= waited'[Handler]
    <3>1. Room' = Room /\ (pc = "record" \/ Room \in Joined')
      BY <1>1, <2>1, <2>3, RecordStep
    <3>2. PICK q \in Rooms : q = Room /\ q = Room'
      BY <1>1, <2>1, <2>3, <3>1, RecordStep, RoomType
    <3>3. pc = "record" => waited' = waited
      BY <1>4 DEF Beside, RestartAll
    <3>4. CASE pc = "record"
      BY <1>1, <1>2, <2>2, <3>2, <3>3, <3>4
    <3>5. CASE q \in Joined'
      BY <1>1, <2>2, <3>2, <3>5
    <3> QED
      BY <3>1, <3>2, <3>4, <3>5
  <2>4. ASSUME NEW r \in Rooms, cached'[r] > 0
        PROVE  gone'[r] <= (VerdictTtl - cached'[r]) + Latency
    <3>1. CASE cached'[r] > cached[r]
      <4>1. pc = "record" /\ r = Room
        BY <1>1, <2>1, <3>1, VerdictStep
      <4>2. gone[r] <= Latency
        BY <1>1, <1>2, <4>1
      <4> QED
        BY <1>1, <2>2, <4>2
    <3>2. CASE ~(cached'[r] > cached[r])
      BY <1>1, <1>2, <2>2, <2>4, <3>2
    <3> QED
      BY <3>1, <3>2
  <2>5. \A rd \in Readers : reader'[rd].at = "store" => gone'[reader'[rd].room] <= waited'[rd]
    BY <1>1, <1>2, <1>3, <2>1, <2>2
  <2> QED
    BY <1>3, <2>2, <2>3, <2>4, <2>5
<1>5. ASSUME NEW rd \in Readers, ReaderMoves(rd), GoneAfter(0)
      PROVE  Goal
  <2>1. PICK q \in Rooms : q = reader[rd].room
    BY <1>3
  <2>2. /\ EventSideStays
        /\ \A s \in Readers : s # rd => reader'[s] = reader[s] /\ waited'[s] = waited[s]
        /\ waited'[Handler] = waited[Handler]
        /\ \/ cached' = cached
           \/ reader[rd].at = "store" /\ cached' = [cached EXCEPT ![q] = VerdictTtl]
        /\ reader'[rd].at = "store" => reader'[rd].room = q /\ q \in Joined
    BY <1>1, <1>5, <2>1, ReaderActs
  <2>3. UNCHANGED <<pc, Joined, Room>>
    BY <2>2 DEF EventSideStays, hsVars, txnVars, Joined, Room, CurrentEvent
  <2>4. \A r \in Rooms : gone'[r] <= gone[r] /\ (r \in Joined' => gone'[r] = 0)
    BY <1>1, <1>5, GoneActs
  <2>5. reader'[rd].at = "store" => gone'[reader'[rd].room] <= waited'[rd]
    BY <1>1, <2>1, <2>2, <2>3, <2>4
  <2>6. \A s \in Readers : reader'[s].at = "store" => gone'[reader'[s].room] <= waited'[s]
    BY <1>1, <1>2, <1>3, <2>2, <2>4, <2>5
  <2>7. reader[rd].at = "store" => gone[q] <= Latency
    BY <1>1, <1>2, <2>1
  <2>8. \A r \in Rooms : cached'[r] > 0 => gone'[r] <= (VerdictTtl - cached'[r]) + Latency
    BY <1>1, <1>2, <2>2, <2>4, <2>7
  <2>9. pc' = "record" => gone'[Room'] <= waited'[Handler]
    BY <1>1, <1>2, <1>3, <2>2, <2>3, <2>4
  <2> QED
    BY <1>3, <2>4, <2>6, <2>8, <2>9
<1>6. CASE GateTick /\ GoneAfter(1)
  <2>1. /\ EventSideStays /\ UNCHANGED reader
        /\ cached' = [r \in Rooms |-> IF cached[r] > 0 THEN cached[r] - 1 ELSE 0]
        /\ \A w \in Readers \cup {Handler} : HasAnswer(w) => waited'[w] = waited[w] + 1
    BY <1>1, <1>6, TickActs
  <2>2. /\ \A rd \in Readers : reader[rd].at = "store" => waited'[rd] = waited[rd] + 1
        /\ pc = "record" => waited'[Handler] = waited[Handler] + 1
    BY <2>1 DEF HasAnswer
  <2>3. UNCHANGED <<pc, Joined, Room>>
    BY <2>1 DEF EventSideStays, hsVars, txnVars, Joined, Room, CurrentEvent
  <2>4. \A r \in Rooms : gone'[r] <= gone[r] + 1 /\ (r \in Joined' => gone'[r] = 0)
    BY <1>1, <1>6, GoneActs
  <2>5. \A rd \in Readers : reader'[rd].at = "store" => gone'[reader'[rd].room] <= waited'[rd]
    BY <1>1, <1>2, <1>3, <2>1, <2>2, <2>4
  <2>6. pc' = "record" => gone'[Room'] <= waited'[Handler]
    BY <1>1, <1>2, <1>3, <2>2, <2>3, <2>4
  <2>7. \A r \in Rooms : cached'[r] > 0 => gone'[r] <= (VerdictTtl - cached'[r]) + Latency
    BY <1>1, <1>2, <2>1, <2>4
  <2> QED
    BY <1>3, <2>4, <2>5, <2>6, <2>7
<1>7. CASE UNCHANGED allVars
  <2>1. UNCHANGED <<reader, waited, gone, cached, pc, Joined, Room>>
    BY <1>7 DEF allVars, vars, gateVars, hsVars, txnVars, Joined, Room, CurrentEvent
  <2> QED
    BY <1>2, <2>1
<1> HIDE DEF Goal
<1> QED
  BY <1>4, <1>5, <1>6, <1>7, FourSteps

(* Verdicts age at least as fast as absences. *)
THEOREM VerdictsAge == GateSpec => []VerdictAge
<1>1. GateYoung => VerdictAge
  BY DEF GateYoung
<1>2. GateYoung /\ [GateNext]_allVars => GateYoung'
  BY GateNextYoung
<1> QED
  BY <1>1, <1>2, GateInitYoung, PTL DEF GateSpec

(* A reader that gets through has a verdict, the membership just seen, or an
   answer in hand; none of them is older than a verdict and an answer can be. *)
LEMMA GateServesYoung ==
  ASSUME GateYoung, [GateNext]_allVars, NEW rd \in Readers,
         reader'[rd].at = "served", reader[rd].at # "served"
  PROVE  gone[reader[rd].room] < VerdictTtl + Latency
<1> USE TransactionsAssumption, RoomGateAssumption
<1>1. /\ GateTypeOK
      /\ gone \in [Rooms -> 0 .. Never]
      /\ waited \in [Readers \cup {Handler} -> 0 .. Latency]
      /\ cached \in [Rooms -> 0 .. VerdictTtl]
  BY DEF GateYoung, GateTypeOK, TypeOK
<1>2. PICK q \in Rooms : q = reader[rd].room
  BY <1>1, GateRooms
<1>3. PICK s \in Readers : ReaderMoves(s)
  <2>1. Beside(Work) \/ RestartAll => reader'[rd] = reader[rd] \/ reader'[rd].at = "idle"
    BY <1>1, BesideActs
  <2>2. GateTick \/ UNCHANGED allVars => reader'[rd] = reader[rd]
    BY <1>1, TickActs DEF allVars, gateVars
  <2> QED
    BY <2>1, <2>2, FourSteps
<1>4. s = rd
  BY <1>1, <1>3, ReaderActs
<1>5. cached[q] > 0 \/ q \in Joined \/ reader[rd].at = "store"
  BY <1>1, <1>2, <1>3, <1>4, ReaderActs
<1>6. cached[q] > 0 => gone[q] < VerdictTtl + Latency
  BY <1>1 DEF GateYoung, VerdictAge
<1>7. q \in Joined \/ reader[rd].at = "store" => gone[q] <= Latency
  BY <1>1, <1>2 DEF GateYoung, AnswersYoung
<1> QED
  BY <1>1, <1>2, <1>5, <1>6, <1>7

(* No request gets through for a room the user has been out of for longer than a
   verdict lives and an answer takes to be recorded. *)
THEOREM ServedAreRecent == GateSpec => ServesNoLongGone
<1>1. GateYoung /\ [GateNext]_allVars
        => [\A rd \in Readers :
              reader'[rd].at = "served" /\ reader[rd].at # "served"
                => gone[reader[rd].room] < VerdictTtl + Latency]_allVars
  BY GateServesYoung
<1>2. GateYoung /\ [GateNext]_allVars => GateYoung'
  BY GateNextYoung
<1> QED
  BY <1>1, <1>2, GateInitYoung, PTL DEF GateSpec, ServesNoLongGone
==============================================================================
