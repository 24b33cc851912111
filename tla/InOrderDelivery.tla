---------------------------- MODULE InOrderDelivery ----------------------------
(***************************************************************************)
(* What an application service owes the homeserver that pushes events to   *)
(* it: the events are numbered in the order they are raised, an event is   *)
(* handled only when every unacknowledged one before it has been, and a    *)
(* transaction is acknowledged only when all its events have been handled. *)
(* An event may be handled again (a transaction is sent again when its     *)
(* answer is lost), never skipped.                                         *)
(***************************************************************************)
EXTENDS Naturals

VARIABLES
  raisedTo,   \* number of the last event raised
  handled,    \* numbers of the events handled at least once
  acked       \* number of the last event acknowledged

vars == <<raisedTo, handled, acked>>

TypeOK ==
  /\ raisedTo \in Nat
  /\ acked \in 0 .. raisedTo
  /\ handled \subseteq 1 .. raisedTo

Init ==
  /\ raisedTo = 0
  /\ handled = {}
  /\ acked = 0

RaiseEvent ==
  /\ raisedTo' = raisedTo + 1
  /\ UNCHANGED <<handled, acked>>

Handle(i) ==
  /\ (acked + 1) .. (i - 1) \subseteq handled
  /\ handled' = handled \cup {i}
  /\ UNCHANGED <<raisedTo, acked>>

Acknowledge(n) ==
  /\ (acked + 1) .. n \subseteq handled
  /\ acked' = n
  /\ UNCHANGED <<raisedTo, handled>>

Next ==
  \/ RaiseEvent
  \/ \E i \in (acked + 1) .. raisedTo : Handle(i) \/ Acknowledge(i)

Spec == Init /\ [][Next]_vars

(* Nothing that was acknowledged was skipped: the homeserver will not send it
   again, so an event left out here is lost for good. *)
NothingSkipped == 1 .. acked \subseteq handled
================================================================================
