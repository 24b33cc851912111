------------------------------ MODULE RoomInputs -------------------------------
(***************************************************************************)
(* Everything the functions of RoomNames and RoomState are given: a text,  *)
(* the name of a room, the state of a room or the rooms of a list, one     *)
(* element more at each step, so that a property of the functions is one   *)
(* of the states.                                                          *)
(***************************************************************************)
EXTENDS RoomState

CONSTANTS
  TextChars,      \* the characters of paths and entries
  NameChars,      \* the characters of the names of rooms
  Servers,        \* names of servers
  ListedRooms,    \* the rooms a list may have
  MaxText,        \* bounds on the lengths of the inputs
  MaxName,
  MaxRooms

(* The alias of a room is one the client library parsed. *)
ASSUME RoomInputsAssumption ==
  /\ Servers \subseteq Seq(TextChars) /\ ServerName \in Seq(TextChars)
  /\ IncludeRooms \in Seq(Seq(TextChars))
  /\ \A room \in ListedRooms : room.canonical_alias # None =>
       room.canonical_alias \in Seq(TextChars) /\ ParsesAsAlias(room.canonical_alias)
  /\ \A t \in {Completed(IncludeRooms[i], ServerName) : i \in 1 .. Len(IncludeRooms)} : t # None

VARIABLES text, name, rooms

inputs == <<text, name, rooms>>

InitInputs == Init /\ text = <<>> /\ name = <<>> /\ rooms = <<>>

GrowText ==
  /\ name = <<>> /\ rooms = <<>> /\ state = <<>>
  /\ Len(text) < MaxText
  /\ \E c \in TextChars : text' = Append(text, c)
  /\ UNCHANGED <<name, rooms, vars>>

GrowName ==
  /\ text = <<>> /\ rooms = <<>> /\ state = <<>>
  /\ Len(name) < MaxName
  /\ \E c \in NameChars : name' = Append(name, c)
  /\ UNCHANGED <<text, rooms, vars>>

GrowRooms ==
  /\ text = <<>> /\ name = <<>> /\ state = <<>>
  /\ Len(rooms) < MaxRooms
  /\ \E room \in ListedRooms \ ToSet(rooms) : rooms' = Append(rooms, room)
  /\ UNCHANGED <<text, name, vars>>

GrowState ==
  /\ text = <<>> /\ name = <<>> /\ rooms = <<>>
  /\ Next
  /\ UNCHANGED inputs

NextInput == GrowText \/ GrowName \/ GrowRooms \/ GrowState
SpecInputs == InitInputs /\ [][NextInput]_<<inputs, vars>>

TypeOKInputs ==
  /\ TypeOK
  /\ text \in Seq(TextChars) /\ name \in Seq(NameChars) /\ rooms \in Seq(ListedRooms)

------------------------------------------------------------------------------
(* Of every text: what is_valid_hostname takes for a host name. *)
Hostnames == HostnameAsReference(text)

(* Of every text: the gate's room is not looked up under an id's name. *)
IdsPassAsThemselves == \A s \in Servers : IdsAreNoAliases(text, s)

(* Of every text: what it may mean in a path and in the configuration. *)
OneMeaning == \A s \in Servers : SameAliasEverywhere(text, s)

(* Of every name: the slug room_info finds a room by. *)
Slugs == SlugIsCanonical(name)

(* Of every list of rooms: a curated list. *)
InOrderOfEntries == CuratedInOrder(rooms)
================================================================================
