---------------------------- MODULE RoomInputsProofs ---------------------------
(***************************************************************************)
(* What holds of RoomNames, RoomState and RoomInputs for every text, every *)
(* name, every state and every list of rooms, whatever the characters, the *)
(* limits on lengths and the configured entries are.                       *)
(***************************************************************************)
EXTENDS RoomInputs, FiniteSetTheorems, WellFoundedInduction, TLAPS

------------------------------------------------------------------------------
(* Reading a state. *)

(* The fields an entry has from the events of one type. *)
LEMMA FieldsOfTypes ==
  /\ DOMAIN Sets = {"commune.room.name", "m.room.canonical_alias", "m.room.avatar",
                    "m.room.topic", "m.room.history_visibility", "commune.room.banner",
                    "commune.room.type", "m.room.join_rules"}
  /\ Sets["commune.room.name"] = "name"
  /\ Sets["m.room.canonical_alias"] = "canonical_alias"
  /\ Sets["m.room.avatar"] = "avatar_url"
  /\ Sets["m.room.topic"] = "topic"
  /\ Sets["m.room.history_visibility"] = "history_visibility"
  /\ Sets["commune.room.banner"] = "banner_url"
  /\ Sets["commune.room.type"] = "type"
  /\ Sets["m.room.join_rules"] = "join_rule"
  BY DEF Sets

(* One more event. *)
LEMMA AppendSet ==
  ASSUME NEW S, NEW s \in Seq(S), NEW x \in S
  PROVE  Append(s, x) \in Seq(S) /\ ToSet(Append(s, x)) = ToSet(s) \cup {x}
<1>1. /\ Append(s, x) \in Seq(S) /\ Len(s) \in Nat
      /\ DOMAIN s = 1 .. Len(s) /\ DOMAIN Append(s, x) = 1 .. (Len(s) + 1)
      /\ \A i \in 1 .. Len(s) : Append(s, x)[i] = s[i]
      /\ Append(s, x)[Len(s) + 1] = x
  OBVIOUS
<1>2. 1 .. (Len(s) + 1) = (1 .. Len(s)) \cup {Len(s) + 1}
  BY <1>1
<1> QED BY <1>1, <1>2 DEF ToSet

(* A list that gets an element it has not has each once. *)
LEMMA AppendsOnce ==
  ASSUME NEW S, NEW s \in Seq(S), NEW x \in S, IsInjective(s), x \notin ToSet(s)
  PROVE  IsInjective(Append(s, x))
<1>1. /\ Len(s) \in Nat
      /\ DOMAIN s = 1 .. Len(s) /\ DOMAIN Append(s, x) = 1 .. (Len(s) + 1)
      /\ \A i \in 1 .. Len(s) : Append(s, x)[i] = s[i]
      /\ Append(s, x)[Len(s) + 1] = x
  OBVIOUS
<1>2. 1 .. (Len(s) + 1) = (1 .. Len(s)) \cup {Len(s) + 1}
  BY <1>1
<1> QED BY <1>1, <1>2 DEF ToSet, IsInjective

(* What an event does to the entry, field by field. *)
LEMMA ReadCases ==
  ASSUME NEW room, NEW e, e.type \notin BridgeTypes, e.parsed
  PROVE  /\ e.type = "m.room.create" =>
              Read(room, e) = [room EXCEPT !.type = IF e.value = None THEN @ ELSE e.value]
         /\ e.type = "m.room.name" => Read(room, e) = [room EXCEPT !.name = FirstName(@, e.value)]
         /\ e.type = "commune.room.name" => Read(room, e) = [room EXCEPT !.name = e.value]
         /\ e.type = "m.room.canonical_alias" =>
              Read(room, e) = [room EXCEPT !.canonical_alias = e.value]
         /\ e.type = "m.room.avatar" => Read(room, e) = [room EXCEPT !.avatar_url = e.value]
         /\ e.type = "m.room.topic" => Read(room, e) = [room EXCEPT !.topic = e.value]
         /\ e.type = "m.room.history_visibility" =>
              Read(room, e) = [room EXCEPT !.history_visibility = e.value]
         /\ e.type = "commune.room.banner" => Read(room, e) = [room EXCEPT !.banner_url = e.value]
         /\ e.type = "commune.room.type" => Read(room, e) = [room EXCEPT !.type = e.value]
         /\ e.type = "m.room.join_rules" => Read(room, e) = [room EXCEPT !.join_rule = e.value]
         /\ e.type = "m.space.child" =>
              Read(room, e) =
                [room EXCEPT !.children = IF e.value = "via" THEN Append(@, e.key) ELSE @]
         /\ e.type \notin DOMAIN Sets \cup {"m.room.create", "m.room.name", "m.space.child"} =>
              Read(room, e) = room
  BY FieldsOfTypes DEF Read

(* Entries with contents of V, keys of K and flags of B; TLAPS's solver takes no truth
   value for a flag, so the lemma on flags says it of any B. *)
Entry(V, B, K) ==
  [name : V, canonical_alias : V, avatar_url : V, topic : V, history_visibility : V,
   banner_url : V, type : V, join_rule : V, is_bridge : B, children : Seq(K)]

(* A flag changes no other field. *)
LEMMA Flagged ==
  ASSUME NEW V, NEW B, NEW K, NEW room \in Entry(V, B, K), NEW b \in B, NEW next,
         next = [room EXCEPT !.is_bridge = b]
  PROVE  /\ next \in Entry(V, B, K)
         /\ next.is_bridge = b
         /\ \A f \in {"name", "canonical_alias", "avatar_url", "topic", "history_visibility",
                      "banner_url", "type", "join_rule", "children"} : next[f] = room[f]
  BY DEF Entry

(* The value of a field after an event. *)
FieldAfter(room, e, type) ==
  IF e.parsed /\ e.type = type THEN e.value ELSE room[Sets[type]]

(* The name, which m.room.name does not overwrite. *)
NameAfter(room, e) ==
  IF ~e.parsed \/ e.type \notin {"m.room.name", "commune.room.name"} THEN room.name
  ELSE IF e.type = "m.room.name" THEN FirstName(room.name, e.value) ELSE e.value

(* The type, of which the creation need not speak. *)
TypeAfter(room, e) ==
  IF e.parsed /\ (e.type = "commune.room.type" \/ (e.type = "m.room.create" /\ e.value # None))
    THEN e.value ELSE room.type

(* The children, to which only one with servers is added. *)
ChildrenAfter(room, e) ==
  IF e.parsed /\ e.type = "m.space.child" /\ e.value = "via"
    THEN Append(room.children, e.key) ELSE room.children

(* The types whose field no other type sets. *)
Own == DOMAIN Sets \ {"commune.room.name", "commune.room.type"}

(* All fields but the flag. *)
ReadAs(room, e, next) ==
  /\ \A type \in Own : next[Sets[type]] = FieldAfter(room, e, type)
  /\ next.name = NameAfter(room, e)
  /\ next.type = TypeAfter(room, e)
  /\ next.children = ChildrenAfter(room, e)

(* An event whose content is read. *)
LEMMA ReadParsed ==
  ASSUME NEW V, NEW B, NEW K, NEW room \in Entry(V, B, K), NEW e, e.type \notin BridgeTypes,
         e.parsed, e.value \in V, e.key \in K
  PROVE  /\ Read(room, e) \in Entry(V, B, K)
         /\ Read(room, e).is_bridge = room.is_bridge
         /\ ReadAs(room, e, Read(room, e))
<1>1. FirstName(room.name, e.value) \in V
  BY DEF FirstName, Entry
<1>2. room.children \in Seq(K) /\ Append(room.children, e.key) \in Seq(K)
  BY DEF Entry
<1> DEFINE next == Read(room, e)
<1> HIDE DEF Read
<1>3. next \in Entry(V, B, K) /\ next.is_bridge = room.is_bridge
  BY <1>1, <1>2, FieldsOfTypes, ReadCases DEF Entry
<1>4. \A type \in Own : next[Sets[type]] = FieldAfter(room, e, type)
  BY FieldsOfTypes, ReadCases DEF Entry, Own, FieldAfter
<1>5. next.name = NameAfter(room, e)
  BY FieldsOfTypes, ReadCases DEF Entry, NameAfter
<1>6. next.type = TypeAfter(room, e)
  BY FieldsOfTypes, ReadCases DEF Entry, TypeAfter
<1>7. next.children = ChildrenAfter(room, e)
  <2>1. CASE e.type = "m.space.child"
    <3>1. next = [room EXCEPT !.children = IF e.value = "via" THEN Append(@, e.key) ELSE @]
      BY <2>1, ReadCases
    <3> QED BY <2>1, <3>1 DEF Entry, ChildrenAfter
  <2>2. CASE e.type # "m.space.child"
    BY <2>2, FieldsOfTypes, ReadCases DEF Entry, ChildrenAfter
  <2> QED BY <2>1, <2>2
<1> QED BY <1>3, <1>4, <1>5, <1>6, <1>7 DEF ReadAs

(* No event of a bridge's types sets a field. *)
LEMMA BridgesApart ==
  /\ BridgeTypes \cap (DOMAIN Sets \cup {"m.room.create", "m.room.name", "m.space.child"}) = {}
  /\ Own = {"m.room.canonical_alias", "m.room.avatar", "m.room.topic",
            "m.room.history_visibility", "commune.room.banner", "m.room.join_rules"}
  BY FieldsOfTypes DEF BridgeTypes, Own

(* One round of the loop of process_rooms. *)
LEMMA ReadRound ==
  ASSUME NEW V, NEW K, NEW room \in Entry(V, BOOLEAN, K), NEW e, e.value \in V, e.key \in K
  PROVE  /\ Read(room, e) \in Entry(V, BOOLEAN, K)
         /\ Read(room, e).is_bridge <=> room.is_bridge \/ e.type \in BridgeTypes
         /\ ReadAs(room, e, Read(room, e))
<1>1. CASE e.type \in BridgeTypes
  <2> DEFINE next == [room EXCEPT !.is_bridge = TRUE]
  <2>1. Read(room, e) = next
    BY <1>1, Zenon DEF Read
  <2>2. TRUE \in BOOLEAN
    OBVIOUS
  <2>3. /\ next \in Entry(V, BOOLEAN, K)
        /\ next.is_bridge = TRUE
        /\ \A f \in {"name", "canonical_alias", "avatar_url", "topic", "history_visibility",
                     "banner_url", "type", "join_rule", "children"} : next[f] = room[f]
    <3> DEFINE yes == TRUE
    <3>1. yes \in BOOLEAN /\ next = [room EXCEPT !.is_bridge = yes]
      BY <2>2, Zenon
    <3> HIDE DEF next, yes
    <3>2. /\ next \in Entry(V, BOOLEAN, K)
          /\ next.is_bridge = yes
          /\ \A f \in {"name", "canonical_alias", "avatar_url", "topic", "history_visibility",
                       "banner_url", "type", "join_rule", "children"} : next[f] = room[f]
      BY <3>1, Flagged
    <3>3. next.is_bridge = TRUE
      BY <3>2 DEF yes
    <3> QED BY <3>2, <3>3
  <2> HIDE DEF next
  <2>4. ReadAs(room, e, next)
    <3>1. /\ e.type \notin DOMAIN Sets
          /\ e.type \notin {"m.room.create", "m.room.name", "m.space.child"}
      BY <1>1, BridgesApart
    <3>2. \A type \in Own : next[Sets[type]] = FieldAfter(room, e, type)
      BY <2>3, <3>1, FieldsOfTypes, BridgesApart DEF FieldAfter
    <3>3. next.name = NameAfter(room, e) /\ next.type = TypeAfter(room, e)
      BY <2>3, <3>1, FieldsOfTypes DEF NameAfter, TypeAfter
    <3>4. next.children = ChildrenAfter(room, e)
      BY <2>3, <3>1 DEF ChildrenAfter
    <3> QED BY <3>2, <3>3, <3>4 DEF ReadAs
  <2> QED BY <1>1, <2>1, <2>3, <2>4, Zenon
<1>2. CASE e.type \notin BridgeTypes /\ ~e.parsed
  <2>1. Read(room, e) = room
    BY <1>2, Zenon DEF Read
  <2>2. ReadAs(room, e, room)
    BY <1>2 DEF ReadAs, FieldAfter, NameAfter, TypeAfter, ChildrenAfter
  <2> QED BY <1>2, <2>1, <2>2, Zenon
<1>3. CASE e.type \notin BridgeTypes /\ e.parsed
  <2>1. /\ Read(room, e) \in Entry(V, BOOLEAN, K)
        /\ Read(room, e).is_bridge = room.is_bridge
        /\ ReadAs(room, e, Read(room, e))
    BY <1>3, ReadParsed
  <2> QED BY <1>3, <2>1
<1> QED BY <1>1, <1>2, <1>3

(* Whatever the events, an entry and a summary hold values of events only. *)
LEMMA ReadingTypes == Spec => []TypeOK
<1> DEFINE Keys == {d.key : d \in StateEvents}
<1>1. Init => TypeOK
  BY DEF Init, TypeOK, PublicRoom, RoomSummary, Contents
<1>2. TypeOK /\ [Next]_vars => TypeOK'
  <2> SUFFICES ASSUME TypeOK, NEW e \in StateEvents, ReadEvent(e) PROVE TypeOK'
    BY DEF TypeOK, vars, Next
  <2>0. e.value \in Contents /\ None \in Contents /\ e.key \in Keys
    BY DEF Contents
  <2>1. state' \in Seq(StateEvents)
    BY DEF TypeOK, ReadEvent
  <2>2. pub_room' \in Entry(Contents, BOOLEAN, Keys)
    <3>0. pub_room \in Entry(Contents, BOOLEAN, Keys) /\ pub_room' = Read(pub_room, e)
      BY DEF TypeOK, ReadEvent, Entry
    <3> HIDE DEF Keys
    <3> QED BY <2>0, <3>0, ReadRound, Zenon
  <2>3. room_info' \in
       [name : Contents, canonical_alias : Contents, avatar_url : Contents,
        banner_url : Contents, topic : Contents, room_type : {"chat", "forum"}]
    BY <2>0, FieldsOfTypes DEF TypeOK, ReadEvent, Summarise, NotEmpty, RoomType
  <2> QED BY <2>1, <2>2, <2>3 DEF TypeOK, Entry
<1> QED BY <1>1, <1>2, PTL DEF Spec

(* What is said after one more event, and what a field may then be. *)
LEMMA SaidAfter ==
  ASSUME state \in Seq(StateEvents), NEW e \in StateEvents, state' = Append(state, e), NEW type
  PROVE  Said(type)' = Said(type) \cup (IF e.type = type /\ e.parsed THEN {e.value} ELSE {})
  BY AppendSet DEF Said

(* An entry says what the events say, whatever their order. *)
THEOREM EntrySaysTheState == Spec => []ReadsAsReference
<1>1. Init => ReadsAsReference
  BY FieldsOfTypes DEF Init, ReadsAsReference, PublicRoom, Said, OrNone, ToSet, IsInjective
<1>2. TypeOK /\ ReadsAsReference /\ [Next]_vars => ReadsAsReference'
  <2>1. ASSUME ReadsAsReference, UNCHANGED vars PROVE ReadsAsReference'
    BY <2>1 DEF ReadsAsReference, vars, Said
  <2>2. ASSUME TypeOK, ReadsAsReference, NEW e \in StateEvents, ReadEvent(e)
        PROVE  ReadsAsReference'
    <3> DEFINE Keys == {d.key : d \in StateEvents}
    <3>0. /\ state \in Seq(StateEvents) /\ state' = Append(state, e)
          /\ pub_room \in Entry(Contents, BOOLEAN, Keys) /\ pub_room' = Read(pub_room, e)
          /\ e.value \in Contents /\ e.key \in Keys
      BY <2>2 DEF TypeOK, ReadEvent, Entry, Contents
    <3>1. /\ pub_room'.is_bridge <=> pub_room.is_bridge \/ e.type \in BridgeTypes
          /\ ReadAs(pub_room, e, pub_room')
      <4> HIDE DEF Keys
      <4> QED BY <3>0, ReadRound
    <3>2. /\ ToSet(state') = ToSet(state) \cup {e}
          /\ \A type : Said(type)' =
               Said(type) \cup (IF e.type = type /\ e.parsed THEN {e.value} ELSE {})
      BY <3>0, AppendSet, SaidAfter
    <3>3. pub_room'.name \in
            IF Said("commune.room.name")' # {} THEN Said("commune.room.name")'
                                               ELSE OrNone(Said("m.room.name")')
      <4>1. None \notin Said("commune.room.name") /\ None \notin Said("m.room.name")
        BY <3>0, RoomStateAssumption DEF Said, ToSet
      <4>2. e.parsed /\ e.type \in {"m.room.name", "commune.room.name"} => e.value # None
        BY RoomStateAssumption
      <4>3. /\ pub_room.name \in IF Said("commune.room.name") # {} THEN Said("commune.room.name")
                                                    ELSE OrNone(Said("m.room.name"))
            /\ pub_room'.name = NameAfter(pub_room, e)
        BY <2>2, <3>1 DEF ReadsAsReference, ReadAs
      <4>4. CASE e.parsed /\ e.type = "commune.room.name"
        BY <4>3, <4>4, <3>2 DEF NameAfter
      <4>5. CASE e.parsed /\ e.type = "m.room.name"
        <5>1. /\ Said("commune.room.name")' = Said("commune.room.name")
              /\ Said("m.room.name")' = Said("m.room.name") \cup {e.value}
              /\ pub_room'.name = FirstName(pub_room.name, e.value)
          BY <4>3, <4>5, <3>2 DEF NameAfter
        <5> QED BY <4>1, <4>3, <5>1 DEF FirstName, OrNone
      <4>6. CASE ~e.parsed \/ e.type \notin {"m.room.name", "commune.room.name"}
        BY <4>3, <4>6, <3>2 DEF NameAfter
      <4> QED BY <4>4, <4>5, <4>6
    <3>4. \A type \in Own : pub_room'[Sets[type]] \in OrNone(Said(type)')
      BY <2>2, <3>1, <3>2 DEF ReadsAsReference, ReadAs, FieldAfter, OrNone, Own
    <3>5. pub_room'.type \in
            OrNone((Said("m.room.create")' \ {None}) \cup Said("commune.room.type")')
      BY <2>2, <3>1, <3>2 DEF ReadsAsReference, ReadAs, TypeAfter, OrNone
    <3>6. pub_room'.is_bridge <=> \E d \in ToSet(state') : d.type \in BridgeTypes
      BY <2>2, <3>1, <3>2 DEF ReadsAsReference
    <3>7. /\ ToSet(pub_room'.children) = {d.key : d \in {c \in ToSet(state') :
               c.type = "m.space.child" /\ c.parsed /\ c.value = "via"}}
          /\ IsInjective(pub_room'.children)
      <4> DEFINE listed(S) == {d.key : d \in {c \in S :
                   c.type = "m.space.child" /\ c.parsed /\ c.value = "via"}}
      <4>1. /\ pub_room.children \in Seq(Keys)
            /\ ToSet(pub_room.children) = listed(ToSet(state)) /\ IsInjective(pub_room.children)
            /\ pub_room'.children = ChildrenAfter(pub_room, e)
        BY <2>2, <3>0, <3>1 DEF ReadsAsReference, ReadAs, Entry
      <4>2. CASE e.parsed /\ e.type = "m.space.child" /\ e.value = "via"
        <5>1. pub_room'.children = Append(pub_room.children, e.key)
          BY <4>1, <4>2 DEF ChildrenAfter
        <5>2. listed(ToSet(state')) = listed(ToSet(state)) \cup {e.key}
          BY <3>2, <4>2
        <5>3. e.key \notin listed(ToSet(state))
          BY <2>2, <4>2 DEF ReadEvent
        <5> HIDE DEF listed, Keys
        <5>4. ToSet(pub_room'.children) = ToSet(pub_room.children) \cup {e.key}
          BY <3>0, <4>1, <5>1, AppendSet
        <5>5. IsInjective(pub_room'.children)
          BY <3>0, <4>1, <5>1, <5>3, AppendsOnce
        <5> QED BY <4>1, <5>2, <5>4, <5>5 DEF listed
      <4>3. CASE ~(e.parsed /\ e.type = "m.space.child" /\ e.value = "via")
        <5>1. pub_room'.children = pub_room.children
          BY <4>1, <4>3 DEF ChildrenAfter
        <5>2. listed(ToSet(state')) = listed(ToSet(state))
          BY <3>2, <4>3
        <5> QED BY <4>1, <5>1, <5>2
      <4> QED BY <4>2, <4>3
    <3> QED BY <3>3, <3>4, <3>5, <3>6, <3>7 DEF ReadsAsReference, Own
  <2> QED BY <2>1, <2>2 DEF Next
<1> QED BY <1>1, <1>2, ReadingTypes, PTL DEF Spec

(* One round of the loop of get_room_summary. *)
LEMMA SummaryRound ==
  ASSUME NEW V,
         NEW room \in [name : V, canonical_alias : V, avatar_url : V, banner_url : V, topic : V,
                       room_type : {"chat", "forum"}],
         NEW e, NEW next, next = Summarise(room, e)
  PROVE  /\ next.canonical_alias = IF e.parsed /\ e.type = "m.room.canonical_alias"
                                     THEN e.value ELSE room.canonical_alias
         /\ next.banner_url = IF e.parsed /\ e.type = "commune.room.banner"
                                THEN e.value ELSE room.banner_url
         /\ next.avatar_url = IF e.parsed /\ e.type = "m.room.avatar"
                                THEN NotEmpty(e.value) ELSE room.avatar_url
         /\ next.topic = IF e.parsed /\ e.type = "m.room.topic"
                           THEN NotEmpty(e.value) ELSE room.topic
         /\ next.name = IF e.parsed /\ e.type = "m.room.name"
                          THEN NotEmpty(e.value) ELSE room.name
         /\ next.room_type = IF e.parsed /\ e.type = "commune.room.type"
                               THEN RoomType(e.value) ELSE room.room_type
  BY FieldsOfTypes DEF Summarise

(* The name of a summary is that of an event, too. *)
SummaryName == room_info.name \in {NotEmpty(v) : v \in OrNone(Said("m.room.name"))}

(* The two ways of reading a state agree. *)
THEOREM SummaryAgreesWithEntry == Spec => []SummaryAgrees
<1> DEFINE Filled(value) == IF value = "" THEN None ELSE value
<1> DEFINE Same == /\ room_info.canonical_alias = pub_room.canonical_alias
                   /\ room_info.banner_url = pub_room.banner_url
                   /\ room_info.avatar_url = NotEmpty(pub_room.avatar_url)
                   /\ room_info.topic = NotEmpty(pub_room.topic)
<1> DEFINE Forum == Said("m.room.create") \subseteq {None} =>
                      (room_info.room_type = "forum" <=> pub_room.type = "forum")
<1>1. Init => Same /\ Forum /\ SummaryName
  BY RoomStateAssumption
     DEF Init, PublicRoom, RoomSummary, SummaryName, Said, OrNone, ToSet, NotEmpty
<1>2. TypeOK /\ Same /\ Forum /\ SummaryName /\ [Next]_vars => (Same /\ Forum /\ SummaryName)'
  <2>1. ASSUME Same, Forum, SummaryName, UNCHANGED vars PROVE (Same /\ Forum /\ SummaryName)'
    BY <2>1 DEF SummaryName, vars, Said
  <2>2. ASSUME TypeOK, Same, Forum, SummaryName, NEW e \in StateEvents, ReadEvent(e)
        PROVE  (Same /\ Forum /\ SummaryName)'
    <3> DEFINE Keys == {d.key : d \in StateEvents}
    <3>0. /\ state \in Seq(StateEvents) /\ state' = Append(state, e)
          /\ pub_room \in Entry(Contents, BOOLEAN, Keys) /\ pub_room' = Read(pub_room, e)
          /\ e.value \in Contents /\ e.key \in Keys
          /\ room_info \in [name : Contents, canonical_alias : Contents, avatar_url : Contents,
               banner_url : Contents, topic : Contents, room_type : {"chat", "forum"}]
          /\ room_info' = Summarise(room_info, e)
      BY <2>2 DEF TypeOK, ReadEvent, Entry, Contents
    <3>1. ReadAs(pub_room, e, pub_room')
      <4> HIDE DEF Keys
      <4> QED BY <3>0, ReadRound
    <3>2. \A type : Said(type)' =
            Said(type) \cup (IF e.type = type /\ e.parsed THEN {e.value} ELSE {})
      BY <3>0, SaidAfter
    <3>3. Same'
      <4>1. \A type \in Own : pub_room'[Sets[type]] = FieldAfter(pub_room, e, type)
        BY <3>1 DEF ReadAs
      <4>2. /\ pub_room'.canonical_alias = IF e.parsed /\ e.type = "m.room.canonical_alias"
                                             THEN e.value ELSE pub_room.canonical_alias
            /\ pub_room'.banner_url = IF e.parsed /\ e.type = "commune.room.banner"
                                        THEN e.value ELSE pub_room.banner_url
            /\ pub_room'.avatar_url = IF e.parsed /\ e.type = "m.room.avatar"
                                        THEN e.value ELSE pub_room.avatar_url
            /\ pub_room'.topic = IF e.parsed /\ e.type = "m.room.topic"
                                   THEN e.value ELSE pub_room.topic
        BY <4>1, FieldsOfTypes, BridgesApart DEF FieldAfter
      <4> QED BY <2>2, <3>0, <4>2, SummaryRound
    <3>4. Forum'
      <4>1. room_info'.room_type = IF e.parsed /\ e.type = "commune.room.type"
                                     THEN RoomType(e.value) ELSE room_info.room_type
        BY <3>0, SummaryRound
      <4>2. pub_room'.type = TypeAfter(pub_room, e)
        BY <3>1 DEF ReadAs
      <4> QED BY <2>2, <3>2, <4>1, <4>2 DEF TypeAfter, RoomType
    <3>5. SummaryName'
      <4>1. room_info'.name = IF e.parsed /\ e.type = "m.room.name"
                                THEN NotEmpty(e.value) ELSE room_info.name
        BY <3>0, SummaryRound
      <4> QED BY <2>2, <3>2, <4>1 DEF SummaryName, OrNone
    <3> QED BY <3>3, <3>4, <3>5
  <2> QED BY <2>1, <2>2 DEF Next
<1>3. ReadsAsReference /\ Same /\ Forum /\ SummaryName => SummaryAgrees
  <2> SUFFICES ASSUME ReadsAsReference, Same, Forum, SummaryName PROVE SummaryAgrees
    OBVIOUS
  <2>1. ASSUME Said("commune.room.name") = {}, \A v, w \in Said("m.room.name") : v = w
        PROVE  room_info.name = Filled(pub_room.name)
    <3>1. pub_room.name \in OrNone(Said("m.room.name"))
      BY <2>1 DEF ReadsAsReference
    <3>2. \A v, w \in OrNone(Said("m.room.name")) : v = w
      BY <2>1 DEF OrNone
    <3> QED BY <3>1, <3>2 DEF SummaryName, NotEmpty
  <2> QED BY <2>1 DEF SummaryAgrees, NotEmpty
<1> HIDE DEF Same, Forum
<1> QED BY <1>1, <1>2, <1>3, ReadingTypes, EntrySaysTheState, PTL DEF Spec

(* The machine of all inputs reads states as Spec does. *)
LEMMA InputsRead == SpecInputs => Spec
<1>1. InitInputs => Init
  BY DEF InitInputs
<1>2. [NextInput]_<<inputs, vars>> => [Next]_vars
  BY DEF NextInput, GrowText, GrowName, GrowRooms, GrowState, vars
<1> QED BY <1>1, <1>2, PTL DEF Spec, SpecInputs

(* The inputs are of their types. *)
THEOREM InputTypes == SpecInputs => []TypeOKInputs
<1> DEFINE Types == text \in Seq(TextChars) /\ name \in Seq(NameChars) /\ rooms \in Seq(ListedRooms)
<1>1. InitInputs => Types
  BY DEF InitInputs
<1>2. Types /\ [NextInput]_<<inputs, vars>> => Types'
  <2> SUFFICES ASSUME Types, [NextInput]_<<inputs, vars>> PROVE Types'
    OBVIOUS
  <2>1. CASE GrowText
    BY <2>1 DEF GrowText
  <2>2. CASE GrowName
    BY <2>2 DEF GrowName
  <2>3. CASE GrowRooms
    BY <2>3 DEF GrowRooms
  <2>4. CASE GrowState \/ UNCHANGED inputs
    BY <2>4 DEF GrowState, inputs
  <2> QED BY <2>1, <2>2, <2>3, <2>4 DEF NextInput
<1>3. TypeOK /\ Types => TypeOKInputs
  BY DEF TypeOKInputs
<1> HIDE DEF Types
<1> QED BY <1>1, <1>2, <1>3, InputsRead, ReadingTypes, PTL DEF SpecInputs

------------------------------------------------------------------------------
(* Least and greatest positions. *)

(* A set of numbers has a least one: the ground of the inductions below. *)
LEMMA Least ==
  ASSUME NEW S, S \subseteq Nat, S # {}
  PROVE  \E m \in S : \A n \in S : m <= n
<1> DEFINE R == {ss \in Nat \X Nat : ss[1] < ss[2]}
<1>1. IsWellFoundedOn(R, Nat)
  BY NatLessThanWellFounded DEF OpToRel
<1>2. PICK m \in S : \A n \in S : <<n, m>> \notin R
  <2> HIDE DEF R
  <2> QED BY <1>1, WFMin
<1>3. \A n \in S : ~(n < m)
  BY <1>2
<1> QED BY <1>3

(* It is the one Min chooses. *)
LEMMA MinIs ==
  ASSUME NEW S, S \subseteq Nat, S # {}
  PROVE  Min(S) \in S /\ \A n \in S : Min(S) <= n
  BY Least DEF Min

(* A bounded set has a greatest one. *)
LEMMA Greatest ==
  ASSUME NEW b \in Nat, NEW S, S \subseteq 0 .. b, S # {}
  PROVE  \E m \in S : \A n \in S : m >= n
<1> DEFINE T == {b - n : n \in S}
<1>0. T \subseteq Nat /\ T # {}
  <2>1. \A n \in S : b - n \in Nat
    OBVIOUS
  <2>2. PICK x : x \in S
    OBVIOUS
  <2> QED BY <2>1, <2>2
<1>1. PICK m \in T : \A n \in T : m <= n
  <2> HIDE DEF T
  <2> QED BY <1>0, Least
<1>2. PICK k \in S : m = b - k
  BY <1>1
<1>3. \A n \in S : b - k <= b - n
  BY <1>1, <1>2
<1> QED BY <1>3

------------------------------------------------------------------------------
(* Parts of texts. *)

(* The characters from a to b. *)
LEMMA SubSeqIs ==
  ASSUME NEW C, NEW t \in Seq(C), NEW a \in 1 .. (Len(t) + 1), NEW b \in (a - 1) .. Len(t)
  PROVE  /\ SubSeq(t, a, b) \in Seq(C)
         /\ Len(SubSeq(t, a, b)) = b - a + 1
         /\ SubSeq(t, a, b) = [j \in 1 .. (b - a + 1) |-> t[a + j - 1]]
  OBVIOUS

(* Those after i. *)
LEMMA AfterIs ==
  ASSUME NEW C, NEW t \in Seq(C), NEW i \in 0 .. Len(t)
  PROVE  /\ After(t, i) \in Seq(C)
         /\ Len(After(t, i)) = Len(t) - i
         /\ After(t, i) = [j \in 1 .. (Len(t) - i) |-> t[i + j]]
  BY DEF After

(* Those before i. *)
LEMMA BeforeIs ==
  ASSUME NEW C, NEW t \in Seq(C), NEW i \in 1 .. (Len(t) + 1)
  PROVE  /\ Before(t, i) \in Seq(C)
         /\ Len(Before(t, i)) = i - 1
         /\ Before(t, i) = [j \in 1 .. (i - 1) |-> t[j]]
  BY DEF Before

(* A character stands where the text is. *)
LEMMA PositionsIn == \A t, c : Positions(t, c) \subseteq 1 .. Len(t)
  BY DEF Positions

------------------------------------------------------------------------------
(* Aliases. *)

(* A colon is no part of a number. *)
LEMMA NumbersHaveNoColon ==
  ASSUME NEW C, NEW t \in Seq(C), IsNumber(t), NEW j \in 1 .. Len(t)
  PROVE  t[j] # ":"
<1>1. CASE ~StartsWith(t, "+")
  <2>1. Chars(t, Digits)
    BY <1>1 DEF IsNumber
  <2> QED BY <2>1 DEF Chars, ToSet, Digits
<1>2. CASE StartsWith(t, "+")
  <2>0. 1 \in 0 .. Len(t)
    OBVIOUS
  <2>1. /\ Len(After(t, 1)) = Len(t) - 1 /\ After(t, 1) \in Seq(C)
        /\ \A k \in 1 .. (Len(t) - 1) : After(t, 1)[k] = t[1 + k]
    BY <2>0, AfterIs
  <2>2. \A k \in 1 .. (Len(t) - 1) : After(t, 1)[k] \in Digits
    BY <1>2, <2>1 DEF IsNumber, Chars, ToSet
  <2>3. CASE j = 1
    BY <1>2, <2>3 DEF StartsWith
  <2>4. CASE j # 1
    <3>1. j - 1 \in 1 .. (Len(t) - 1) /\ 1 + (j - 1) = j
      BY <2>4
    <3> QED BY <2>1, <2>2, <3>1 DEF Digits
  <2> QED BY <2>3, <2>4
<1> QED BY <1>1, <1>2

(* Two texts, each behind a character, as in a completed alias. *)
LEMMA Glued ==
  ASSUME NEW C, NEW t \in Seq(C), NEW u \in Seq(C), NEW x \in C, NEW y \in C,
         NEW last, last = Len(t) + 2
  PROVE  LET a == <<x>> \o t \o <<y>> \o u IN
         /\ a \in Seq(C) /\ Len(a) = last + Len(u) /\ last \in 1 .. Len(a)
         /\ a[last] = y
         /\ \A j \in 1 .. Len(t) : a[j + 1] = t[j]
         /\ After(a, last) = u
<1> DEFINE a == <<x>> \o t \o <<y>> \o u
<1>1. /\ a \in Seq(C) /\ Len(a) = last + Len(u) /\ last \in 1 .. Len(a)
      /\ a[last] = y
  OBVIOUS
<1>2. /\ \A j \in 1 .. Len(t) : a[j + 1] = t[j]
      /\ \A j \in 1 .. Len(u) : a[last + j] = u[j]
  OBVIOUS
<1> HIDE DEF a
<1>3. After(a, last) = [j \in 1 .. Len(u) |-> a[last + j]]
  <2>1. last \in 0 .. Len(a) /\ Len(a) - last = Len(u)
    BY <1>1
  <2>2. After(a, last) = [j \in 1 .. (Len(a) - last) |-> a[last + j]]
    BY <1>1, <2>1, AfterIs
  <2> QED BY <2>1, <2>2
<1>4. After(a, last) = u
  BY <1>2, <1>3
<1> QED BY <1>1, <1>2, <1>4 DEF a

(* A part of a part. *)
LEMMA AfterAfter ==
  ASSUME NEW C, NEW t \in Seq(C), NEW i \in 0 .. Len(t), NEW j \in 0 .. (Len(t) - i)
  PROVE  After(After(t, i), j) = After(t, i + j)
  BY SubSeqIs DEF After

(* What follows a colon before the last is no number, nor is what follows the last. *)
LEMMA ColonsAhead ==
  ASSUME NEW C, NEW t \in Seq(C), NEW i \in 1 .. Len(t), NEW last \in 1 .. Len(t),
         i <= last, last \in Positions(t, ":"), ~IsNumber(After(t, last))
  PROVE  ~IsNumber(After(t, i))
<1>1. CASE i = last
  BY <1>1
<1>2. CASE i < last
  <2>1. PICK p : p = After(t, i)
    OBVIOUS
  <2>2. p \in Seq(C) /\ Len(p) = Len(t) - i /\ p = [j \in 1 .. (Len(t) - i) |-> t[i + j]]
    BY <2>1, AfterIs
  <2>3. last - i \in 1 .. Len(p) /\ i + (last - i) = last
    BY <1>2, <2>2
  <2>4. p[last - i] = ":"
    BY <2>2, <2>3 DEF Positions
  <2> QED BY <2>1, <2>2, <2>3, <2>4, NumbersHaveNoColon
<1> QED BY <1>1, <1>2

(* A text with a colon, completed, is no alias unless the server's name is a number:
   what follows the first colon ends in another and the server. *)
LEMMA CompletedIsNoAlias ==
  ASSUME NEW C, NEW t \in Seq(C), NEW server \in Seq(C), Has(t, ":"), ~IsNumber(server)
  PROVE  ~ParsesAsAlias(Completed(t, server))
<1> DEFINE D == C \cup {"#", ":"}
<1>1. PICK a, last : a = Completed(t, server) /\ last = Len(t) + 2
  OBVIOUS
<1>2. PICK x \in D, y \in D : x = "#" /\ y = ":"
  OBVIOUS
<1>3. /\ a \in Seq(D) /\ Len(a) = last + Len(server) /\ last \in 1 .. Len(a)
      /\ last \in Positions(a, ":")
      /\ \A j \in 1 .. Len(t) : a[j + 1] = t[j]
      /\ After(a, last) = server
  <2>1. t \in Seq(D) /\ server \in Seq(D)
    OBVIOUS
  <2>2. a = <<x>> \o t \o <<y>> \o server
    BY <1>1, <1>2 DEF Completed, Sigil
  <2> HIDE DEF D
  <2>3. /\ a \in Seq(D) /\ Len(a) = last + Len(server) /\ last \in 1 .. Len(a)
        /\ a[last] = y
        /\ \A j \in 1 .. Len(t) : a[j + 1] = t[j]
        /\ After(a, last) = server
    BY <1>1, <2>1, <2>2, Glued
  <2> QED BY <1>2, <2>3 DEF Positions
<1> HIDE DEF D
<1>4. PICK m \in 1 .. Len(t) : m \in Positions(t, ":")
  BY DEF Has, Positions
<1>5. m + 1 \in Positions(a, ":") /\ Positions(a, ":") \subseteq 1 .. Len(a) /\ m + 1 < last
  BY <1>1, <1>3, <1>4, PositionsIn DEF Positions
<1>6. PICK first \in 1 .. Len(a) : first = Min(Positions(a, ":")) /\ first < last
  <2>1. Positions(a, ":") \subseteq Nat /\ Positions(a, ":") # {}
    BY <1>5
  <2>2. PICK i : i = Min(Positions(a, ":"))
    OBVIOUS
  <2>3. i \in Positions(a, ":") /\ i <= m + 1
    BY <1>5, <2>1, <2>2, MinIs
  <2>4. i \in 1 .. Len(a) /\ i < last
    BY <1>3, <1>5, <2>3
  <2> QED BY <2>2, <2>4
<1>7. PICK s : s = After(a, first)
  OBVIOUS
<1>8. /\ s \in Seq(D) /\ Len(s) = Len(a) - first
      /\ s = [j \in 1 .. (Len(a) - first) |-> a[first + j]]
  <2>1. a \in Seq(D) /\ first \in 0 .. Len(a)
    BY <1>3
  <2> QED BY <1>7, <2>1, AfterIs
<1>9. last - first \in Positions(s, ":") /\ Positions(s, ":") \subseteq 1 .. Len(s)
  <2>1. last - first \in 1 .. (Len(a) - first) /\ first + (last - first) = last
    BY <1>3, <1>6
  <2> QED BY <1>3, <1>8, <2>1, PositionsIn DEF Positions
<1>10. PICK second \in 1 .. Len(s) :
         second = Min(Positions(s, ":") \cup {Len(s) + 1}) /\ first + second <= last
  <2>1. Positions(s, ":") \cup {Len(s) + 1} \subseteq Nat
    BY <1>8, <1>9
  <2>2. PICK i : i = Min(Positions(s, ":") \cup {Len(s) + 1})
    OBVIOUS
  <2>3. i \in Positions(s, ":") \cup {Len(s) + 1} /\ i <= last - first
    BY <1>9, <2>1, <2>2, MinIs
  <2>4. i \in 1 .. Len(s)
    BY <1>9, <2>3
  <2>5. last \in Nat /\ first \in Nat /\ i \in Nat
    BY <1>3, <1>6, <2>4
  <2>6. first + i <= last
    BY <2>3, <2>5
  <2> QED BY <2>2, <2>4, <2>6
<1>11. ~IsNumber(After(s, second))
  <2>1. After(s, second) = After(a, first + second)
    <3>1. a \in Seq(D) /\ first \in 0 .. Len(a) /\ second \in 0 .. (Len(a) - first)
      BY <1>3, <1>8
    <3> QED BY <1>7, <3>1, AfterAfter
  <2>2. first + second \in 1 .. Len(a)
    BY <1>3, <1>8
  <2> QED BY <1>3, <1>10, <2>1, <2>2, ColonsAhead
<1> QED BY <1>1, <1>6, <1>7, <1>10, <1>11 DEF ParsesAsAlias

(* No room id is ever looked up as an alias, valid or not. *)
THEOREM IdsAreNeverLookedUp == SpecInputs => []IdsPassAsThemselves
<1>1. ASSUME NEW t \in Seq(TextChars), NEW server \in Seq(TextChars)
      PROVE  IdsAreNoAliases(t, server)
  <2> SUFFICES ASSUME StartsWith(t, "!"), Has(t, ":"), ~IsNumber(server)
               PROVE  PathAsks(t, server) = {}
    BY DEF IdsAreNoAliases
  <2>1. MiddlewareAlias(t, server) = Completed(t, server)
    BY DEF MiddlewareAlias, RoomAliasLike
  <2> QED BY <2>1, CompletedIsNoAlias DEF PathAsks, Asked
<1>2. TypeOKInputs => IdsPassAsThemselves
  BY <1>1, RoomInputsAssumption DEF TypeOKInputs, IdsPassAsThemselves
<1> QED BY <1>2, InputTypes, PTL

(* Behind a sigil a text has the characters it had. *)
LEMMA SigilKeeps ==
  ASSUME NEW C, NEW t \in Seq(C), NEW c, Has(t, c)
  PROVE  Has(Sigil(t), c)
<1>1. PICK m \in 1 .. Len(t) : t[m] = c
  BY DEF Has, Positions
<1>2. PICK a : a = Sigil(t)
  OBVIOUS
<1>3. Len(a) = Len(t) + 1 /\ \A j \in 1 .. Len(t) : a[j + 1] = t[j]
  <2>1. PICK D : D = C \cup {"#"}
    OBVIOUS
  <2>2. PICK x \in D : x = "#"
    BY <2>1
  <2>3. t \in Seq(D) /\ a = <<x>> \o t
    BY <1>2, <2>1, <2>2 DEF Sigil
  <2> QED BY <2>3
<1>4. m + 1 \in 1 .. Len(a) /\ a[m + 1] = c
  BY <1>1, <1>3
<1> QED BY <1>2, <1>4 DEF Has, Positions

(* A text never means two rooms, and one all three rules know means the same to
   all of them, in an entry with the sigil, too. *)
THEOREM OneMeaningEverywhere == SpecInputs => []OneMeaning
<1>1. ASSUME NEW t \in Seq(TextChars), NEW server \in Seq(TextChars)
      PROVE  SameAliasEverywhere(t, server)
  <2>0. \A a : Asked(a) \subseteq {a}
    BY DEF Asked
  <2>1. ASSUME ~StartsWith(t, "#"), ~IsNumber(server)
        PROVE  \A a, b \in AliasesOf(t, server) : a = b
    <3>0. /\ MiddlewareAlias(t, server) \in {Sigil(t), Completed(t, server)}
          /\ SpaceAlias(t, server) \in {Sigil(t), Completed(t, server)}
          /\ EntryAlias(t, server) = SpaceAlias(t, server)
          /\ PathAsks(t, server) \subseteq Asked(MiddlewareAlias(t, server))
      BY <2>1 DEF MiddlewareAlias, SpaceAlias, EntryAlias, PathAsks
    <3>1. CASE Has(t, ":")
      <4>1. Asked(Completed(t, server)) = {}
        BY <2>1, <3>1, CompletedIsNoAlias DEF Asked
      <4>2. AliasesOf(t, server) \subseteq {Sigil(t)}
        BY <2>0, <3>0, <4>1 DEF AliasesOf
      <4> QED BY <4>2
    <3>2. CASE ~Has(t, ":")
      <4>1. MiddlewareAlias(t, server) = Completed(t, server)
        BY <3>2 DEF MiddlewareAlias, RoomAliasLike, Has
      <4>2. SpaceAlias(t, server) = Completed(t, server)
        BY <3>2 DEF SpaceAlias, Whole
      <4>3. AliasesOf(t, server) \subseteq {Completed(t, server)}
        BY <2>0, <3>0, <4>1, <4>2 DEF AliasesOf
      <4> QED BY <4>3
    <3> QED BY <3>1, <3>2
  <2>2. ASSUME ~StartsWith(t, "!"), ~Has(t, ":") \/ (RoomAliasLike(t) /\ Has(t, "."))
        PROVE  PathAsks(t, server) = Asked(SpaceAlias(t, server))
    <3>1. ~IsValidRoomId(t)
      BY <2>2 DEF IsValidRoomId
    <3>2. CASE ~Has(t, ":")
      <4>1. ~RoomAliasLike(t)
        BY <3>2 DEF RoomAliasLike, Has
      <4> QED BY <3>1, <3>2, <4>1 DEF PathAsks, MiddlewareAlias, SpaceAlias, Whole
    <3>3. CASE RoomAliasLike(t) /\ Has(t, ".")
      <4>1. Has(t, ":")
        BY <3>3 DEF RoomAliasLike, Has
      <4> QED BY <3>1, <3>3, <4>1 DEF PathAsks, MiddlewareAlias, SpaceAlias, Whole
    <3> QED BY <2>2, <3>2, <3>3
  <2>3. ASSUME ~StartsWith(t, "#"), Whole(t)
        PROVE  EntryAlias(Sigil(t), server) = EntryAlias(t, server)
    <3>1. Whole(Sigil(t))
      BY <2>3, SigilKeeps DEF Whole
    <3>2. StartsWith(Sigil(t), "#")
      <4>1. PICK D, x : D = TextChars \cup {"#"} /\ x = "#"
        OBVIOUS
      <4>2. t \in Seq(D) /\ x \in D /\ Sigil(t) = <<x>> \o t
        BY <4>1 DEF Sigil
      <4>3. Sigil(t) # <<>> /\ Sigil(t)[1] = x
        BY <4>2
      <4> QED BY <4>1, <4>3 DEF StartsWith
    <3> QED BY <2>3, <3>1, <3>2 DEF EntryAlias, SpaceAlias
  <2> QED BY <2>1, <2>2, <2>3 DEF SameAliasEverywhere
<1>2. TypeOKInputs => OneMeaning
  BY <1>1, RoomInputsAssumption DEF TypeOKInputs, OneMeaning
<1> QED BY <1>2, InputTypes, PTL

------------------------------------------------------------------------------
(* Host names.  The classes of characters, by position. *)

Dot(t, i) == t[i] = "."
Dash(t, i) == t[i] = "-"
AlNum(t, i) == t[i] \in Alphanumeric

(* No character is of two of them. *)
LEMMA Classes ==
  \A t, i : /\ ~(Dot(t, i) /\ Dash(t, i))
            /\ ~(Dot(t, i) /\ AlNum(t, i))
            /\ ~(Dash(t, i) /\ AlNum(t, i))
  BY DEF Dot, Dash, AlNum, Alphanumeric, Digits, Lower

(* The dots, and the ends of the text. *)
Ends(t) == {0, Len(t) + 1} \cup {i \in 1 .. Len(t) : Dot(t, i)}

(* A label stands between a and b. *)
Between(t, a, b) ==
  /\ a \in Ends(t) /\ b \in Ends(t) /\ a < b
  /\ \A j \in Ends(t) : ~(a < j /\ j < b)

(* What makes it valid. *)
ValidBetween(t, a, b) ==
  /\ a + 1 < b /\ b <= a + 1 + MaxLabel
  /\ AlNum(t, a + 1) /\ AlNum(t, b - 1)
  /\ \A j \in (a + 1) .. (b - 1) : AlNum(t, j) \/ Dash(t, j)

(* The ends are of the text or beside it. *)
LEMMA EndsIn ==
  ASSUME NEW C, NEW t \in Seq(C)
  PROVE  Ends(t) \subseteq 0 .. (Len(t) + 1) /\ Ends(t) \subseteq Nat /\ Len(t) \in Nat
  BY DEF Ends

(* The label that ends where another begins. *)
LEMMA LabelBefore ==
  ASSUME NEW C, NEW t \in Seq(C), NEW b \in Ends(t), b > 0
  PROVE  \E a : Between(t, a, b)
<1> DEFINE S == {j \in Ends(t) : j < b}
<1>1. S \subseteq 0 .. (Len(t) + 1) /\ S # {} /\ Len(t) + 1 \in Nat
  BY EndsIn DEF Ends
<1>2. PICK a \in S : \A j \in S : a >= j
  <2> HIDE DEF S
  <2> QED BY <1>1, Greatest
<1>3. \A j \in Ends(t) : ~(a < j /\ j < b)
  BY <1>2, EndsIn
<1> QED BY <1>2, <1>3 DEF Between

(* The label that begins where another ends. *)
LEMMA LabelAfter ==
  ASSUME NEW C, NEW t \in Seq(C), NEW a \in Ends(t), a <= Len(t)
  PROVE  \E b : Between(t, a, b)
<1> DEFINE S == {j \in Ends(t) : a < j}
<1>1. S \subseteq Nat /\ S # {}
  BY EndsIn DEF Ends
<1>2. PICK b \in S : \A j \in S : b <= j
  <2> HIDE DEF S
  <2> QED BY <1>1, Least
<1>3. \A j \in Ends(t) : ~(a < j /\ j < b)
  BY <1>2, EndsIn
<1> QED BY <1>2, <1>3 DEF Between

(* The label a character is in. *)
LEMMA LabelAround ==
  ASSUME NEW C, NEW t \in Seq(C), NEW i \in 1 .. Len(t), ~Dot(t, i)
  PROVE  \E a, b : Between(t, a, b) /\ a < i /\ i < b
<1> DEFINE S == {j \in Ends(t) : i < j}
<1>1. S \subseteq Nat /\ S # {}
  BY EndsIn DEF Ends
<1>2. PICK b \in S : \A j \in S : b <= j
  <2> HIDE DEF S
  <2> QED BY <1>1, Least
<1>3. b \in Ends(t) /\ b > 0 /\ i < b /\ i \notin Ends(t)
  BY <1>2, EndsIn DEF Ends
<1>4. PICK a : Between(t, a, b)
  BY <1>3, LabelBefore
<1>5. a < i
  <2>1. a \in Ends(t) /\ a < b /\ ~(i < a)
    BY <1>2, <1>4, EndsIn DEF Between
  <2> QED BY <1>3, <2>1, EndsIn
<1> QED BY <1>3, <1>4, <1>5

(* What is_valid_hostname asks of a label. *)
LEMMA LabelIs ==
  ASSUME NEW C, NEW t \in Seq(C), NEW a \in 0 .. Len(t), NEW b \in (a + 1) .. (Len(t) + 1)
  PROVE  IsValidLabel(SubSeq(t, a + 1, b - 1)) <=> ValidBetween(t, a, b)
<1>1. PICK p : p = SubSeq(t, a + 1, b - 1)
  OBVIOUS
<1>2. /\ p \in Seq(C) /\ Len(p) = b - a - 1
      /\ p = [j \in 1 .. (b - a - 1) |-> t[a + j]]
  BY <1>1
<1>3. CASE b = a + 1
  BY <1>1, <1>2, <1>3 DEF IsValidLabel, ValidBetween
<1>4. CASE a + 1 < b
  <2>1. Len(p) \in Nat /\ 0 < Len(p) /\ MaxLabel \in Nat
    BY <1>2, <1>4, RoomNamesAssumption
  <2>2. Len(p) <= MaxLabel <=> b <= a + 1 + MaxLabel
    BY <1>2, <2>1
  <2>3. p[1] = t[a + 1] /\ Last(p) = t[b - 1]
    <3>1. /\ 1 \in 1 .. (b - a - 1) /\ b - a - 1 \in 1 .. (b - a - 1)
          /\ a + (b - a - 1) = b - 1
      BY <1>4
    <3> QED BY <1>2, <3>1 DEF Last
  <2>4. Chars(p, Alphanumeric \cup {"-"}) <=>
          \A j \in (a + 1) .. (b - 1) : AlNum(t, j) \/ Dash(t, j)
    <3>1. Chars(p, Alphanumeric \cup {"-"}) <=>
            \A j \in 1 .. (b - a - 1) : t[a + j] \in Alphanumeric \cup {"-"}
      BY <1>2 DEF Chars, ToSet
    <3>2. ASSUME \A j \in 1 .. (b - a - 1) : t[a + j] \in Alphanumeric \cup {"-"},
                 NEW j \in (a + 1) .. (b - 1)
          PROVE  t[j] \in Alphanumeric \cup {"-"}
      <4>1. j - a \in 1 .. (b - a - 1) /\ a + (j - a) = j
        OBVIOUS
      <4> QED BY <3>2, <4>1
    <3>3. ASSUME \A j \in (a + 1) .. (b - 1) : t[j] \in Alphanumeric \cup {"-"},
                 NEW j \in 1 .. (b - a - 1)
          PROVE  t[a + j] \in Alphanumeric \cup {"-"}
      BY <3>3
    <3> QED BY <3>1, <3>2, <3>3 DEF AlNum, Dash
  <2> QED BY <1>1, <1>4, <2>1, <2>2, <2>3, <2>4 DEF IsValidLabel, ValidBetween, AlNum
<1> QED BY <1>3, <1>4

(* Taken apart at its dots, a text has the labels between neighbouring ends. *)
LEMMA LabelsAre ==
  ASSUME NEW C, NEW t \in Seq(C)
  PROVE  (\A label \in Labels(t) : IsValidLabel(label)) <=>
           \A a, b : Between(t, a, b) => ValidBetween(t, a, b)
<1>1. Ends(t) = {0, Len(t) + 1} \cup Positions(t, ".")
  BY DEF Ends, Positions, Dot
<1>2. Labels(t) = {SubSeq(t, a + 1, Min({j \in Ends(t) : j > a}) - 1) : a \in Ends(t) \ {Len(t) + 1}}
  BY <1>1, Zenon DEF Labels
<1>3. ASSUME NEW a, NEW b, Between(t, a, b)
      PROVE  /\ a \in Ends(t) \ {Len(t) + 1} /\ b = Min({j \in Ends(t) : j > a})
             /\ a \in 0 .. Len(t) /\ b \in (a + 1) .. (Len(t) + 1)
  <2> DEFINE S == {j \in Ends(t) : j > a}
  <2>1. S \subseteq Nat /\ S # {} /\ b \in S
    BY <1>3, EndsIn DEF Between
  <2>2. PICK m : m = Min(S)
    OBVIOUS
  <2>3. m \in S /\ m <= b
    <3> HIDE DEF S
    <3> QED BY <2>1, <2>2, MinIs
  <2>4. m = b
    BY <1>3, <2>3, EndsIn DEF Between
  <2> QED BY <1>3, <2>2, <2>4, EndsIn DEF Between
<1>4. ASSUME NEW a \in Ends(t) \ {Len(t) + 1}
      PROVE  Between(t, a, Min({j \in Ends(t) : j > a}))
  <2>1. a <= Len(t)
    BY EndsIn
  <2>2. PICK b : Between(t, a, b)
    BY <2>1, LabelAfter
  <2> QED BY <1>3, <2>2
<1>5. \A a, b : Between(t, a, b) =>
        (IsValidLabel(SubSeq(t, a + 1, b - 1)) <=> ValidBetween(t, a, b))
  BY <1>3, LabelIs
<1>6. ASSUME \A label \in Labels(t) : IsValidLabel(label), NEW a, NEW b, Between(t, a, b)
      PROVE  ValidBetween(t, a, b)
  <2>1. SubSeq(t, a + 1, b - 1) \in Labels(t)
    <3>1. a \in Ends(t) \ {Len(t) + 1} /\ b = Min({j \in Ends(t) : j > a})
      BY <1>3, <1>6
    <3>2. SubSeq(t, a + 1, Min({j \in Ends(t) : j > a}) - 1) \in Labels(t)
      BY <1>2, <3>1
    <3> QED BY <3>1, <3>2
  <2> QED BY <1>5, <1>6, <2>1
<1>7. ASSUME \A a, b : Between(t, a, b) => ValidBetween(t, a, b), NEW label \in Labels(t)
      PROVE  IsValidLabel(label)
  <2>1. PICK a \in Ends(t) \ {Len(t) + 1} :
          label = SubSeq(t, a + 1, Min({j \in Ends(t) : j > a}) - 1)
    BY <1>2
  <2> QED BY <1>4, <1>5, <1>7, <2>1
<1> QED BY <1>6, <1>7

(* The same of each character and its neighbours. *)
GoodChar(t, i) ==
  \/ AlNum(t, i)
  \/ /\ Dot(t, i) \/ Dash(t, i)
     /\ i > 1 /\ i < Len(t)
     /\ Dot(t, i) => AlNum(t, i - 1) /\ AlNum(t, i + 1)
     /\ Dash(t, i) => ~Dot(t, i - 1) /\ ~Dot(t, i + 1)

(* In any MaxLabel + 1 characters there is a dot. *)
NoLongLabel(t) ==
  \A i \in 1 .. (Len(t) - MaxLabel) : \E j \in i .. (i + MaxLabel) : Dot(t, j)

(* A text begins and ends with neither dot nor dash. *)
NoEdge(t) ==
  ~Dot(t, 1) /\ ~Dash(t, 1) /\ ~Dot(t, Len(t)) /\ ~Dash(t, Len(t))

(* Valid labels make every character a good one. *)
LEMMA GoodFromLabels ==
  ASSUME NEW C, NEW t \in Seq(C), t # <<>>, NoEdge(t),
         \A a, b : Between(t, a, b) => ValidBetween(t, a, b)
  PROVE  (\A i \in 1 .. Len(t) : GoodChar(t, i)) /\ NoLongLabel(t)
<1>0. Len(t) \in Nat /\ Len(t) > 0 /\ MaxLabel \in Nat /\ Ends(t) \subseteq 0 .. (Len(t) + 1)
  BY RoomNamesAssumption, EndsIn
<1>1. ASSUME NEW i \in 1 .. Len(t), Dot(t, i) PROVE GoodChar(t, i)
  <2>1. i > 1 /\ i < Len(t) /\ i \in Ends(t)
    BY <1>0, <1>1 DEF NoEdge, Ends
  <2>2. PICK a : Between(t, a, i)
    BY <2>1, LabelBefore
  <2>3. PICK b : Between(t, i, b)
    BY <2>1, LabelAfter
  <2> QED BY <1>1, <2>1, <2>2, <2>3, Classes DEF ValidBetween, GoodChar
<1>2. ASSUME NEW i \in 1 .. Len(t), ~Dot(t, i) PROVE GoodChar(t, i)
  <2>1. PICK a, b : Between(t, a, b) /\ a < i /\ i < b
    BY <1>2, LabelAround
  <2>2. a \in 0 .. Len(t) /\ b \in 1 .. (Len(t) + 1) /\ i \in (a + 1) .. (b - 1)
    BY <1>0, <2>1 DEF Between
  <2>3. AlNum(t, a + 1) /\ AlNum(t, b - 1) /\ (AlNum(t, i) \/ Dash(t, i))
    BY <2>1, <2>2 DEF ValidBetween
  <2>4. CASE AlNum(t, i)
    BY <2>4 DEF GoodChar
  <2>5. CASE Dash(t, i)
    <3>1. i # a + 1 /\ i # b - 1
      BY <2>3, <2>5, Classes
    <3>2. i - 1 \in (a + 1) .. (b - 1) /\ i + 1 \in (a + 1) .. (b - 1)
      BY <2>2, <3>1
    <3>3. ~Dot(t, i - 1) /\ ~Dot(t, i + 1)
      BY <2>1, <3>2, Classes DEF ValidBetween
    <3>4. i > 1 /\ i < Len(t)
      BY <1>0, <2>2, <3>2
    <3> QED BY <1>2, <2>5, <3>3, <3>4 DEF GoodChar
  <2> QED BY <2>3, <2>4, <2>5
<1>3. ASSUME NEW i \in 1 .. (Len(t) - MaxLabel), \A j \in i .. (i + MaxLabel) : ~Dot(t, j)
      PROVE  FALSE
  <2>1. i \in 1 .. Len(t) /\ ~Dot(t, i) /\ i + MaxLabel <= Len(t)
    BY <1>0, <1>3
  <2>2. PICK a, b : Between(t, a, b) /\ a < i /\ i < b
    BY <2>1, LabelAround
  <2>3. a \in 0 .. Len(t) /\ b \in 1 .. (Len(t) + 1)
    BY <1>0, <2>1, <2>2 DEF Between
  <2>4. b > i + MaxLabel
    <3>1. CASE b = Len(t) + 1
      BY <1>0, <2>1, <3>1
    <3>2. CASE b # Len(t) + 1
      <4>1. Dot(t, b)
        BY <2>2, <2>3, <3>2 DEF Between, Ends
      <4> QED BY <1>0, <1>3, <2>2, <2>3, <4>1
    <3> QED BY <3>1, <3>2
  <2>5. b <= a + 1 + MaxLabel
    BY <2>2 DEF ValidBetween
  <2> QED BY <1>0, <2>2, <2>3, <2>4, <2>5
<1> QED BY <1>1, <1>2, <1>3 DEF NoLongLabel

(* Good characters make every label valid. *)
LEMMA LabelsFromGood ==
  ASSUME NEW C, NEW t \in Seq(C), t # <<>>, \A i \in 1 .. Len(t) : GoodChar(t, i), NoLongLabel(t)
  PROVE  NoEdge(t) /\ \A a, b : Between(t, a, b) => ValidBetween(t, a, b)
<1>0. Len(t) \in Nat /\ Len(t) > 0 /\ MaxLabel \in Nat /\ Ends(t) \subseteq 0 .. (Len(t) + 1)
  BY RoomNamesAssumption, EndsIn
<1>1. AlNum(t, 1) /\ AlNum(t, Len(t))
  <2>1. 1 \in 1 .. Len(t) /\ Len(t) \in 1 .. Len(t)
    BY <1>0
  <2> QED BY <1>0, <2>1 DEF GoodChar
<1>2. NoEdge(t)
  BY <1>1, Classes DEF NoEdge
<1>3. ASSUME NEW a, NEW b, Between(t, a, b) PROVE ValidBetween(t, a, b)
  <2>1. a \in 0 .. Len(t) /\ b \in 1 .. (Len(t) + 1) /\ a < b
    BY <1>0, <1>3 DEF Between
  <2>2. /\ a = 0 \/ (a \in 1 .. Len(t) /\ Dot(t, a))
        /\ b = Len(t) + 1 \/ (b \in 1 .. Len(t) /\ Dot(t, b))
    BY <1>3, <2>1 DEF Between, Ends
  <2>3. AlNum(t, a + 1) /\ AlNum(t, b - 1) /\ a + 1 <= Len(t)
    <3>1. AlNum(t, a + 1) /\ a + 1 <= Len(t)
      <4>1. CASE a = 0
        BY <1>0, <1>1, <4>1
      <4>2. CASE a \in 1 .. Len(t) /\ Dot(t, a)
        BY <1>0, <4>2, Classes DEF GoodChar
      <4> QED BY <2>2, <4>1, <4>2
    <3>2. AlNum(t, b - 1)
      <4>1. CASE b = Len(t) + 1
        BY <1>0, <1>1, <4>1
      <4>2. CASE b \in 1 .. Len(t) /\ Dot(t, b)
        BY <1>0, <4>2, Classes DEF GoodChar
      <4> QED BY <2>2, <4>1, <4>2
    <3> QED BY <3>1, <3>2
  <2>4. a + 1 # b
    BY <1>0, <2>1, <2>2, <2>3, Classes
  <2>5. \A j \in (a + 1) .. (b - 1) : j \in 1 .. Len(t) /\ ~Dot(t, j)
    BY <1>0, <1>3, <2>1 DEF Between, Ends
  <2>6. \A j \in (a + 1) .. (b - 1) : AlNum(t, j) \/ Dash(t, j)
    BY <2>5 DEF GoodChar
  <2>7. b <= a + 1 + MaxLabel
    <3> SUFFICES ASSUME a + 1 + MaxLabel < b PROVE FALSE
      BY <1>0, <2>1
    <3>1. a + 1 \in 1 .. (Len(t) - MaxLabel)
      BY <1>0, <2>1
    <3>2. PICK j \in (a + 1) .. (a + 1 + MaxLabel) : Dot(t, j)
      BY <3>1 DEF NoLongLabel
    <3>3. j \in (a + 1) .. (b - 1)
      BY <1>0, <2>1
    <3> QED BY <2>5, <3>2, <3>3
  <2> QED BY <1>0, <2>1, <2>3, <2>4, <2>6, <2>7 DEF ValidBetween
<1> QED BY <1>2, <1>3

(* A host name is told by each character and its neighbours. *)
THEOREM HostnamesAsReference == SpecInputs => []Hostnames
<1>1. ASSUME NEW t \in Seq(TextChars) PROVE HostnameAsReference(t)
  <2>1. (\A i \in 1 .. Len(t) :
           \/ t[i] \in Alphanumeric
           \/ /\ t[i] \in {".", "-"} /\ i > 1 /\ i < Len(t)
              /\ t[i] = "." => {t[i - 1], t[i + 1]} \subseteq Alphanumeric
              /\ t[i] = "-" => "." \notin {t[i - 1], t[i + 1]})
        <=> \A i \in 1 .. Len(t) : GoodChar(t, i)
    BY DEF GoodChar, AlNum, Dot, Dash
  <2>2. (\A i \in 1 .. Len(t) - MaxLabel : \E j \in i .. (i + MaxLabel) : t[j] = ".")
        <=> NoLongLabel(t)
    BY DEF NoLongLabel, Dot
  <2>3. t # <<>> => (NoEdge(t) <=> t[1] \notin {".", "-"} /\ Last(t) \notin {".", "-"})
    BY DEF NoEdge, Dot, Dash, Last
  <2>4. t # <<>> <=> 0 < Len(t)
    OBVIOUS
  <2>5. IsValidHostname(t) <=>
          /\ t # <<>> /\ Len(t) <= MaxHostname /\ NoEdge(t)
          /\ \A label \in Labels(t) : IsValidLabel(label)
    BY <2>3, <2>4 DEF IsValidHostname
  <2>6. t # <<>> =>
          (NoEdge(t) /\ (\A label \in Labels(t) : IsValidLabel(label)) <=>
             (\A i \in 1 .. Len(t) : GoodChar(t, i)) /\ NoLongLabel(t))
    BY LabelsAre, GoodFromLabels, LabelsFromGood
  <2> QED BY <2>1, <2>2, <2>5, <2>6 DEF HostnameAsReference
<1>2. TypeOKInputs => Hostnames
  BY <1>1 DEF TypeOKInputs, Hostnames
<1> QED BY <1>2, InputTypes, PTL
------------------------------------------------------------------------------
(* Curated lists. *)

(* By place, and by position where the places are equal. *)
Precedes(p, j, i) == p[j] < p[i] \/ (p[j] = p[i] /\ j < i)

(* Counting what precedes each numbers the members from 0 on, in order. *)
LEMMA Ranked ==
  ASSUME NEW m \in Nat, NEW S \in SUBSET (1 .. m), NEW p \in [S -> Nat],
         NEW before \in [S -> SUBSET S],
         \A i, j \in S : j \in before[i] <=> Precedes(p, j, i)
  PROVE  /\ Cardinality(S) \in Nat /\ Cardinality(S) <= m
         /\ \A i \in S : Cardinality(before[i]) \in 0 .. (Cardinality(S) - 1)
         /\ \A i, j \in S :
              Precedes(p, j, i) => Cardinality(before[j]) < Cardinality(before[i])
         /\ \A k \in 0 .. (Cardinality(S) - 1) : \E i \in S : Cardinality(before[i]) = k
<1> DEFINE n == Cardinality(S)
<1>1. IsFiniteSet(S) /\ n \in Nat /\ n <= m
  <2>1. IsFiniteSet(1 .. m) /\ Cardinality(1 .. m) = m
    BY FS_Interval
  <2>2. IsFiniteSet(S) /\ n <= m
    BY <2>1, FS_Subset
  <2> QED BY <2>2, FS_CardinalityType
<1>2. ASSUME NEW T \in SUBSET S, NEW U \in SUBSET T, NEW x \in T, x \notin U
      PROVE  Cardinality(U) \in Nat /\ Cardinality(T) \in Nat /\ Cardinality(U) < Cardinality(T)
  <2>1. IsFiniteSet(T)
    BY <1>1, FS_Subset
  <2>2. IsFiniteSet(U) /\ Cardinality(U) <= Cardinality(T) /\ U # T
    BY <1>2, <2>1, FS_Subset
  <2>3. Cardinality(U) # Cardinality(T)
    BY <2>1, <2>2, FS_Subset
  <2>4. Cardinality(U) \in Nat /\ Cardinality(T) \in Nat
    BY <2>1, <2>2, FS_CardinalityType
  <2> QED BY <2>2, <2>3, <2>4
<1>3. \A i \in S : before[i] \in SUBSET S /\ i \notin before[i]
  BY DEF Precedes
<1>4. \A i \in S : Cardinality(before[i]) \in 0 .. (n - 1)
  BY <1>1, <1>2, <1>3
<1>5. ASSUME NEW i \in S, NEW j \in S, Precedes(p, j, i)
      PROVE  Cardinality(before[j]) < Cardinality(before[i])
  <2>1. before[j] \in SUBSET before[i]
    <3> SUFFICES ASSUME NEW k \in S, Precedes(p, k, j) PROVE Precedes(p, k, i)
      OBVIOUS
    <3>1. /\ p[i] \in Nat /\ p[j] \in Nat /\ p[k] \in Nat
          /\ i \in Nat /\ j \in Nat /\ k \in Nat
      OBVIOUS
    <3> QED BY <1>5, <3>1 DEF Precedes
  <2>2. j \in before[i] /\ j \notin before[j] /\ before[i] \in SUBSET S
    BY <1>3, <1>5
  <2> QED BY <1>2, <2>1, <2>2
<1> DEFINE r == [i \in S |-> Cardinality(before[i])]
<1>6. r \in Injection(S, 0 .. (n - 1))
  <2>1. ASSUME NEW i \in S, NEW j \in S, i # j PROVE r[i] # r[j]
    <3>1. Precedes(p, j, i) \/ Precedes(p, i, j)
      BY <2>1 DEF Precedes
    <3> QED BY <1>4, <1>5, <3>1
  <2> QED BY <1>4, <2>1 DEF Injection, IsInjective
<1>7. r \in Surjection(S, 0 .. (n - 1))
  <2>1. PICK T : T = 0 .. (n - 1)
    OBVIOUS
  <2>2. IsFiniteSet(T) /\ Cardinality(T) = n
    BY <1>1, <2>1, FS_Interval
  <2> HIDE DEF r
  <2>3. r \in Surjection(S, T)
    BY <1>6, <2>1, <2>2, FS_Injection
  <2> QED BY <2>1, <2>3
<1> QED BY <1>1, <1>4, <1>5, <1>7 DEF Surjection

(* The entries that, completed, are a room's alias. *)
Listed(room) ==
  {i \in 1 .. Len(IncludeRooms) : Completed(IncludeRooms[i], ServerName) = room.canonical_alias}

(* A room's position is that of its first entry, or the one after all. *)
LEMMA PositionIs ==
  ASSUME NEW room
  PROVE  /\ Position(room) \in 1 .. (Len(IncludeRooms) + 1)
         /\ Position(room) <= Len(IncludeRooms) =>
              Listed(room) # {} /\ Position(room) = Min(Listed(room))
         /\ Listed(room) # {} =>
              Position(room) <= Len(IncludeRooms) /\ Position(room) = Min(Listed(room))
<1> DEFINE L == Len(IncludeRooms)
<1>0. L \in Nat /\ Listed(room) \subseteq 1 .. L
  BY RoomInputsAssumption DEF Listed
<1>1. PICK p : p = Min(Listed(room) \cup {L + 1})
  OBVIOUS
<1>2. p = Position(room)
  BY <1>1 DEF Position, Listed
<1>3. p \in Listed(room) \cup {L + 1} /\ \A i \in Listed(room) \cup {L + 1} : p <= i
  <2>1. Listed(room) \cup {L + 1} \subseteq Nat /\ Listed(room) \cup {L + 1} # {}
    BY <1>0
  <2> HIDE DEF L
  <2> QED BY <1>1, <2>1, MinIs
<1>4. ASSUME Listed(room) # {} PROVE p <= L /\ p = Min(Listed(room))
  <2>1. PICK q : q = Min(Listed(room))
    OBVIOUS
  <2>2. q \in Listed(room) /\ \A i \in Listed(room) : q <= i
    <3>1. Listed(room) \subseteq Nat
      BY <1>0
    <3> QED BY <1>4, <2>1, <3>1, MinIs
  <2> QED BY <1>0, <1>3, <2>1, <2>2
<1>5. ASSUME p <= L PROVE Listed(room) # {}
  BY <1>0, <1>3, <1>5
<1> QED BY <1>0, <1>2, <1>3, <1>4, <1>5

(* Of a server whose name is no number, an entry that completed is the alias of a
   room names the room by its local part. *)
LEMMA ListedIsNamed ==
  ASSUME NEW room \in ListedRooms, ~IsNumber(ServerName)
  PROVE  Named(room) = Listed(room)
<1>1. ASSUME NEW i \in 1 .. Len(IncludeRooms), ~Whole(IncludeRooms[i])
      PROVE  EntryAlias(IncludeRooms[i], ServerName) = Completed(IncludeRooms[i], ServerName)
  BY <1>1 DEF EntryAlias, SpaceAlias
<1>2. ASSUME NEW i \in 1 .. Len(IncludeRooms),
             Completed(IncludeRooms[i], ServerName) = room.canonical_alias
      PROVE  ~Whole(IncludeRooms[i])
  <2>1. ParsesAsAlias(Completed(IncludeRooms[i], ServerName))
    BY <1>2, RoomInputsAssumption
  <2>2. IncludeRooms[i] \in Seq(TextChars) /\ ServerName \in Seq(TextChars)
    BY RoomInputsAssumption
  <2>3. ~Has(IncludeRooms[i], ":")
    BY <2>1, <2>2, CompletedIsNoAlias
  <2> QED BY <2>3 DEF Whole
<1> QED BY <1>1, <1>2 DEF Named, Listed

(* The k-th room of a list is the one k - 1 of the shown ones are ahead of. *)
LEMMA CuratedIs ==
  ASSUME NEW rs \in Seq(ListedRooms), NEW list, list = Curate(rs)
  PROVE  \E n \in Nat : \E at \in [1 .. n -> Shown(rs)] :
           /\ n <= Len(rs) /\ list = [k \in 1 .. n |-> rs[at[k]]]
           /\ \A i \in Shown(rs) : \E k \in 1 .. n : at[k] = i
           /\ \A i, j \in 1 .. n : j < i => Position(rs[at[j]]) <= Position(rs[at[i]])
<1>0. PICK S, p, before :
        /\ S = Shown(rs)
        /\ p = [i \in S |-> Position(rs[i])]
        /\ before = [i \in S |-> {j \in S : Precedes(p, j, i)}]
  OBVIOUS
<1>1. Len(rs) \in Nat /\ S \in SUBSET (1 .. Len(rs)) /\ p \in [S -> Nat]
  BY <1>0, PositionIs, RoomInputsAssumption DEF Shown
<1>2. \A i \in S : before[i] = Ahead(rs, i)
  BY <1>0 DEF Ahead, Precedes
<1> DEFINE n == Cardinality(S)
<1>3. /\ n \in Nat /\ n <= Len(rs)
      /\ \A i \in S : Cardinality(Ahead(rs, i)) \in 0 .. (n - 1)
      /\ \A i, j \in S :
           Precedes(p, j, i) => Cardinality(Ahead(rs, j)) < Cardinality(Ahead(rs, i))
      /\ \A k \in 0 .. (n - 1) : \E i \in S : Cardinality(Ahead(rs, i)) = k
  <2>1. /\ n \in Nat /\ n <= Len(rs)
        /\ \A i \in S : Cardinality(before[i]) \in 0 .. (n - 1)
        /\ \A i, j \in S :
             Precedes(p, j, i) => Cardinality(before[j]) < Cardinality(before[i])
        /\ \A k \in 0 .. (n - 1) : \E i \in S : Cardinality(before[i]) = k
    <3>1. /\ before \in [S -> SUBSET S]
          /\ \A i, j \in S : j \in before[i] <=> Precedes(p, j, i)
      BY <1>0
    <3> QED BY <1>1, <3>1, Ranked
  <2> QED BY <1>2, <2>1
<1> DEFINE at == [k \in 1 .. n |-> CHOOSE i \in S : Cardinality(Ahead(rs, i)) = k - 1]
<1>4. \A k \in 1 .. n : at[k] \in S /\ Cardinality(Ahead(rs, at[k])) = k - 1
  <2> SUFFICES ASSUME NEW k \in 1 .. n
               PROVE  at[k] \in S /\ Cardinality(Ahead(rs, at[k])) = k - 1
    OBVIOUS
  <2>1. k - 1 \in 0 .. (n - 1)
    BY <1>3
  <2>2. \E i \in S : Cardinality(Ahead(rs, i)) = k - 1
    BY <1>3, <2>1
  <2> HIDE DEF n
  <2> QED BY <2>2
<1>5. list = [k \in 1 .. n |-> rs[at[k]]]
  BY <1>0 DEF Curate
<1>6. ASSUME NEW i \in S PROVE \E k \in 1 .. n : at[k] = i
  <2>1. PICK k \in 1 .. n : Cardinality(Ahead(rs, i)) = k - 1
    <3>1. Cardinality(Ahead(rs, i)) + 1 \in 1 .. n
      BY <1>3
    <3> QED BY <1>3, <3>1
  <2>2. at[k] \in S /\ Cardinality(Ahead(rs, at[k])) = Cardinality(Ahead(rs, i))
    BY <1>4, <2>1
  <2>3. ~Precedes(p, at[k], i) /\ ~Precedes(p, i, at[k])
    <3> HIDE DEF at, n
    <3> QED BY <1>3, <2>2
  <2>4. at[k] = i
    <3>1. p[at[k]] \in Nat /\ p[i] \in Nat /\ at[k] \in Nat /\ i \in Nat
      BY <1>1, <2>2
    <3> HIDE DEF at
    <3> QED BY <2>3, <3>1 DEF Precedes
  <2> QED BY <2>4
<1>7. ASSUME NEW i \in 1 .. n, NEW j \in 1 .. n, j < i
      PROVE  Position(rs[at[j]]) <= Position(rs[at[i]])
  <2>1. at[i] \in S /\ at[j] \in S /\ ~Precedes(p, at[i], at[j])
    <3>1. /\ at[i] \in S /\ at[j] \in S
          /\ Cardinality(Ahead(rs, at[i])) = i - 1 /\ Cardinality(Ahead(rs, at[j])) = j - 1
      BY <1>4
    <3> HIDE DEF at, n
    <3> QED BY <1>3, <1>7, <3>1
  <2>2. p[at[i]] \in Nat /\ p[at[j]] \in Nat /\ ~(p[at[i]] < p[at[j]])
    <3> HIDE DEF at
    <3> QED BY <1>1, <2>1 DEF Precedes
  <2>3. p[at[i]] = Position(rs[at[i]]) /\ p[at[j]] = Position(rs[at[j]])
    <3> HIDE DEF at
    <3> QED BY <1>0, <2>1
  <2> QED BY <2>2, <2>3
<1>8. at \in [1 .. n -> S]
  BY <1>4
<1> HIDE DEF at, n
<1> QED BY <1>0, <1>3, <1>5, <1>6, <1>7, <1>8

(* A curated list is in the order of its entries, whatever they and the rooms are. *)
THEOREM CuratedAsConfigured == SpecInputs => []InOrderOfEntries
<1>1. ASSUME NEW rs \in Seq(ListedRooms) PROVE CuratedInOrder(rs)
  <2>1. PICK list : list = Curate(rs)
    OBVIOUS
  <2>0. PICK n \in Nat : \E at \in [1 .. n -> Shown(rs)] :
          /\ n <= Len(rs) /\ list = [k \in 1 .. n |-> rs[at[k]]]
          /\ \A i \in Shown(rs) : \E k \in 1 .. n : at[k] = i
          /\ \A i, j \in 1 .. n : j < i => Position(rs[at[j]]) <= Position(rs[at[i]])
    BY <2>1, CuratedIs
  <2>2. PICK at \in [1 .. n -> Shown(rs)] :
          /\ n <= Len(rs) /\ list = [k \in 1 .. n |-> rs[at[k]]]
          /\ \A i \in Shown(rs) : \E k \in 1 .. n : at[k] = i
          /\ \A i, j \in 1 .. n : j < i => Position(rs[at[j]]) <= Position(rs[at[i]])
    BY <2>0
  <2>3. Len(list) = n /\ \A k \in 1 .. n : list[k] = rs[at[k]] /\ list[k] \in ListedRooms
    BY <2>2 DEF Shown
  <2>4. ToSet(list) = ToSet(rs) \ {room \in ToSet(rs) : room.name = Bridged}
    <3>1. ToSet(list) = {rs[at[k]] : k \in 1 .. n}
      BY <2>2 DEF ToSet
    <3>2. {rs[at[k]] : k \in 1 .. n} = {rs[i] : i \in Shown(rs)}
      BY <2>2
    <3>3. {rs[i] : i \in Shown(rs)} = ToSet(rs) \ {room \in ToSet(rs) : room.name = Bridged}
      BY DEF Shown, ToSet
    <3> QED BY <3>1, <3>2, <3>3
  <2>5. ASSUME NEW i \in 1 .. n, NEW j \in 1 .. (i - 1), Named(list[i]) # {}, ~IsNumber(ServerName)
        PROVE  Named(list[j]) # {} /\ Min(Named(list[j])) <= Min(Named(list[i]))
    <3>1. j \in 1 .. n /\ j < i /\ Position(list[j]) <= Position(list[i])
      BY <2>2, <2>3
    <3>2. Named(list[i]) = Listed(list[i]) /\ Named(list[j]) = Listed(list[j])
      BY <2>3, <2>5, <3>1, ListedIsNamed
    <3>3. Position(list[i]) <= Len(IncludeRooms) /\ Position(list[i]) = Min(Named(list[i]))
      BY <2>5, <3>2, PositionIs
    <3>4. Position(list[j]) <= Len(IncludeRooms)
      BY <3>1, <3>3, PositionIs, RoomInputsAssumption
    <3>5. Named(list[j]) # {} /\ Position(list[j]) = Min(Named(list[j]))
      BY <3>2, <3>4, PositionIs
    <3> QED BY <3>1, <3>3, <3>5
  <2> QED BY <2>1, <2>2, <2>3, <2>4, <2>5 DEF CuratedInOrder
<1>2. TypeOKInputs => InOrderOfEntries
  BY <1>1 DEF TypeOKInputs, InOrderOfEntries
<1> QED BY <1>2, InputTypes, PTL
------------------------------------------------------------------------------
(* Slugs. *)

(* The characters of slugs. *)
SlugChars == {"0", "1", "a", "-"}

(* A slug another dash would add nothing to. *)
Dashed(s) == s # <<>> /\ Last(s) = "-"

(* No two dashes in a row. *)
Slug == {s \in Seq(SlugChars) : \A i \in 1 .. Len(s) - 1 : ~(s[i] = "-" /\ s[i + 1] = "-")}

(* A slug one character longer. *)
LEMMA LongerSlug ==
  ASSUME NEW s \in Slug, NEW c \in SlugChars, ~(c = "-" /\ Dashed(s))
  PROVE  Append(s, c) \in Slug /\ Last(Append(s, c)) = c /\ Append(s, c) # <<>>
<1>1. /\ s \in Seq(SlugChars) /\ Len(s) \in Nat
      /\ Append(s, c) \in Seq(SlugChars) /\ Len(Append(s, c)) = Len(s) + 1
      /\ \A i \in 1 .. Len(s) : Append(s, c)[i] = s[i]
      /\ Append(s, c)[Len(s) + 1] = c
      /\ \A i \in 1 .. Len(s) - 1 : ~(s[i] = "-" /\ s[i + 1] = "-")
  <2>1. s \in Seq(SlugChars) /\ \A i \in 1 .. Len(s) - 1 : ~(s[i] = "-" /\ s[i + 1] = "-")
    BY DEF Slug
  <2>2. /\ Len(s) \in Nat
        /\ Append(s, c) \in Seq(SlugChars) /\ Len(Append(s, c)) = Len(s) + 1
        /\ \A i \in 1 .. Len(s) : Append(s, c)[i] = s[i]
        /\ Append(s, c)[Len(s) + 1] = c
    <3>1. s \in Seq(SlugChars)
      BY <2>1
    <3> QED BY <3>1
  <2> QED BY <2>1, <2>2
<1>2. PICK a : a = Append(s, c)
  OBVIOUS
<1>3. ASSUME NEW i \in 1 .. Len(s), a[i] = "-", a[i + 1] = "-" PROVE FALSE
  <2>1. CASE i = Len(s)
    <3>1. s[i] = "-" /\ c = "-" /\ s # <<>>
      BY <1>1, <1>2, <1>3, <2>1
    <3> QED BY <2>1, <3>1 DEF Dashed, Last
  <2>2. CASE i # Len(s)
    <3>1. i \in 1 .. (Len(s) - 1) /\ i + 1 <= Len(s)
      BY <1>1, <2>2
    <3> QED BY <1>1, <1>2, <1>3, <3>1
  <2> QED BY <2>1, <2>2
<1>4. a \in Slug
  <2>1. a \in Seq(SlugChars) /\ Len(a) - 1 = Len(s)
    BY <1>1, <1>2
  <2>2. \A i \in 1 .. Len(a) - 1 : ~(a[i] = "-" /\ a[i + 1] = "-")
    BY <1>3, <2>1
  <2> QED BY <2>1, <2>2 DEF Slug
<1>5. Last(a) = c /\ a # <<>>
  BY <1>1, <1>2 DEF Last
<1> QED BY <1>2, <1>4, <1>5

(* What a character does to a slug. *)
LEMMA JoinedIs ==
  ASSUME NEW s, NEW c
  PROVE  /\ c \in SlugChars /\ ~(c = "-" /\ Dashed(s)) => Joined(s, c) = Append(s, c)
         /\ c = "A" => Joined(s, c) = Append(s, "a")
         /\ c \notin SlugChars \cup {"A"} \/ c = "-" =>
              Joined(s, c) = IF Dashed(s) THEN s ELSE Append(s, "-")
<1>1. /\ Digits = {"0", "1"} /\ DOMAIN Lower = {"a", "A"}
      /\ Lower["a"] = "a" /\ Lower["A"] = "a"
      /\ Alphanumeric = {"0", "1", "a", "A"}
  BY DEF Digits, Lower, Alphanumeric
<1>2. CASE c \in {"0", "1"}
  BY <1>1, <1>2 DEF Joined, SlugChars
<1>3. CASE c \in {"a", "A"}
  BY <1>1, <1>3 DEF Joined, SlugChars
<1>4. CASE c \notin {"0", "1", "a", "A"}
  BY <1>1, <1>4 DEF Joined, SlugChars, Dashed
<1> QED BY <1>2, <1>3, <1>4

(* A slug stays one, whatever the character. *)
LEMMA JoinedSlug ==
  ASSUME NEW s \in Slug, NEW c
  PROVE  Joined(s, c) \in Slug
<1>1. CASE c \in SlugChars /\ ~(c = "-" /\ Dashed(s))
  <2>1. Joined(s, c) = Append(s, c)
    BY <1>1, JoinedIs
  <2>2. Append(s, c) \in Slug
    BY <1>1, LongerSlug
  <2> QED BY <2>1, <2>2
<1>2. CASE c = "A"
  <2>1. "a" \in SlugChars /\ ~("a" = "-" /\ Dashed(s))
    BY DEF SlugChars
  <2>2. Joined(s, c) = Append(s, "a")
    BY <1>2, JoinedIs
  <2>3. Append(s, "a") \in Slug
    BY <2>1, LongerSlug
  <2> QED BY <2>2, <2>3
<1>3. CASE c \notin SlugChars \cup {"A"} \/ c = "-"
  <2>1. "-" \in SlugChars
    BY DEF SlugChars
  <2>2. Joined(s, c) = IF Dashed(s) THEN s ELSE Append(s, "-")
    BY <1>3, JoinedIs
  <2>3. ~Dashed(s) => Append(s, "-") \in Slug
    BY <2>1, LongerSlug
  <2> QED BY <2>2, <2>3
<1> QED BY <1>1, <1>2, <1>3

(* Two dashes make one, and so does any other character. *)
LEMMA DashesAreOne ==
  ASSUME NEW s \in Slug
  PROVE  Joined(Joined(s, "-"), "-") = Joined(s, "/")
<1>1. /\ "-" \in SlugChars /\ "/" \notin SlugChars \cup {"A"}
  BY DEF SlugChars
<1>2. Joined(s, "-") = Joined(s, "/") /\ Dashed(Joined(s, "-"))
  <2>1. CASE Dashed(s)
    BY <1>1, <2>1, JoinedIs
  <2>2. CASE ~Dashed(s)
    <3>1. Joined(s, "-") = Append(s, "-") /\ Joined(s, "/") = Append(s, "-")
      BY <1>1, <2>2, JoinedIs
    <3> QED BY <1>1, <2>2, <3>1, LongerSlug DEF Dashed
  <2> QED BY <2>1, <2>2
<1> QED BY <1>2, JoinedIs

(* f has the slugs of the beginnings of t. *)
Steps(f, t, n) ==
  /\ f[0] = <<>>
  /\ \A i \in 1 .. n : f[i] = Joined(f[i - 1], t[i])

(* There are such slugs: otherwise there were a least length without. *)
LEMMA SlugsExist ==
  ASSUME NEW t, NEW n \in Nat
  PROVE  \E f \in [0 .. n -> Slug] : Steps(f, t, n)
<1> DEFINE B == {m \in Nat : ~\E f \in [0 .. m -> Slug] : Steps(f, t, m)}
<1> SUFFICES B = {}
  OBVIOUS
<1>1. ASSUME B # {} PROVE FALSE
  <2>1. PICK m \in B : \A k \in B : m <= k
    <3>1. B \subseteq Nat
      OBVIOUS
    <3> HIDE DEF B
    <3> QED BY <1>1, <3>1, Least
  <2>2. m # 0
    <3>1. <<>> \in Slug
      BY DEF Slug
    <3>2. PICK f \in [0 .. 0 -> Slug] : f[0] = <<>>
      <4>1. [i \in 0 .. 0 |-> <<>>] \in [0 .. 0 -> Slug] /\ [i \in 0 .. 0 |-> <<>>][0] = <<>>
        BY <3>1
      <4> QED BY <4>1
    <3>3. Steps(f, t, 0)
      BY <3>2 DEF Steps
    <3> QED BY <3>2, <3>3
  <2>3. m \in Nat /\ m - 1 \in Nat /\ m - 1 \notin B
    BY <2>1, <2>2
  <2>4. PICK f \in [0 .. (m - 1) -> Slug] : Steps(f, t, m - 1)
    BY <2>3
  <2>5. PICK g : g = [i \in 0 .. m |-> IF i = m THEN Joined(f[m - 1], t[m]) ELSE f[i]]
    OBVIOUS
  <2>6. Joined(f[m - 1], t[m]) \in Slug
    <3>1. f[m - 1] \in Slug
      BY <2>3, <2>4
    <3> QED BY <3>1, JoinedSlug
  <2>7. g \in [0 .. m -> Slug]
    BY <2>3, <2>4, <2>5, <2>6
  <2>8. Steps(g, t, m)
    <3>1. g[0] = <<>>
      BY <2>3, <2>4, <2>5 DEF Steps
    <3>2. ASSUME NEW i \in 1 .. m PROVE g[i] = Joined(g[i - 1], t[i])
      <4>1. i - 1 \in 0 .. m /\ i - 1 # m /\ g[i - 1] = f[i - 1]
        BY <2>3, <2>5
      <4>2. CASE i = m
        BY <2>3, <2>5, <4>1, <4>2
      <4>3. CASE i # m
        <5>1. i \in 1 .. (m - 1) /\ g[i] = f[i]
          BY <2>3, <2>5, <4>3
        <5> QED BY <2>4, <4>1, <5>1 DEF Steps
      <4> QED BY <4>2, <4>3
    <3> QED BY <3>1, <3>2 DEF Steps
  <2> QED BY <2>1, <2>7, <2>8
<1> QED BY <1>1

(* From a and b on, f and g have the slugs of u and v, which have the same n characters. *)
Alike(f, g, u, v, a, b, n) ==
  /\ f[a] = g[b]
  /\ \A i \in 1 .. n : /\ u[a + i] = v[b + i]
                       /\ f[a + i] = Joined(f[a + i - 1], u[a + i])
                       /\ g[b + i] = Joined(g[b + i - 1], v[b + i])

(* From a and b on, f and g have the same n slugs. *)
SameFrom(f, g, a, b, n) == \A i \in 0 .. n : f[a + i] = g[b + i]

(* By least counterexample: slugs that agree once agree as long as the texts do. *)
LEMMA SlugsAgree ==
  ASSUME NEW f, NEW g, NEW u, NEW v, NEW a \in Nat, NEW b \in Nat, NEW n \in Nat,
         Alike(f, g, u, v, a, b, n)
  PROVE  SameFrom(f, g, a, b, n)
<1> DEFINE B == {i \in 0 .. n : f[a + i] # g[b + i]}
<1>1. ASSUME B # {} PROVE FALSE
  <2>1. PICK m \in B : \A k \in B : m <= k
    <3>1. B \subseteq Nat
      OBVIOUS
    <3> HIDE DEF B
    <3> QED BY <1>1, <3>1, Least
  <2>2. m \in 1 .. n
    <3>1. a + 0 = a /\ b + 0 = b
      OBVIOUS
    <3> QED BY <2>1, <3>1 DEF Alike
  <2>3. f[a + (m - 1)] = g[b + (m - 1)]
    <3>1. m - 1 \in 0 .. n /\ m - 1 \notin B
      BY <2>1, <2>2
    <3> QED BY <3>1
  <2>4. a + (m - 1) = a + m - 1 /\ b + (m - 1) = b + m - 1
    BY <2>2
  <2>5. f[a + m] = g[b + m]
    BY <2>2, <2>3, <2>4 DEF Alike
  <2> QED BY <2>1, <2>5
<1> QED BY <1>1 DEF SameFrom

(* The slug of a text is that of its last beginning. *)
LEMMA SlugifyIs ==
  ASSUME NEW C, NEW t \in Seq(C)
  PROVE  \E f \in [0 .. Len(t) -> Slug] : Steps(f, t, Len(t)) /\ Slugify(t) = f[Len(t)]
<1>0. PICK n \in Nat : n = Len(t)
  OBVIOUS
<1>1. PICK f \in [0 .. n -> Slug] : Steps(f, t, n)
  BY SlugsExist
<1> DEFINE Is(h) == h = [i \in 0 .. n |-> IF i = 0 THEN <<>> ELSE Joined(h[i - 1], t[i])]
<1>2. PICK g : g = CHOOSE h : Is(h)
  OBVIOUS
<1>3. Is(f)
  <2>1. \A i \in 0 .. n : f[i] = IF i = 0 THEN <<>> ELSE Joined(f[i - 1], t[i])
    BY <1>1 DEF Steps
  <2> QED BY <1>1, <2>1
<1>4. Is(g)
  <2> HIDE DEF Is
  <2> QED BY <1>2, <1>3
<1>5. g[0] = <<>> /\ \A i \in 1 .. n : g[i] = Joined(g[i - 1], t[i])
  BY <1>4
<1>6. \A i \in 0 .. n : f[i] = g[i]
  <2>1. PICK z \in Nat : z = 0
    OBVIOUS
  <2>2. f[z] = g[z]
    BY <1>1, <1>5, <2>1 DEF Steps
  <2>3. Alike(f, g, t, t, z, z, n)
    BY <1>1, <1>5, <2>1, <2>2 DEF Steps, Alike
  <2>4. SameFrom(f, g, z, z, n)
    BY <2>3, SlugsAgree
  <2> QED BY <2>1, <2>4 DEF SameFrom
<1>7. Slugify(t) = g[n]
  BY <1>0, <1>2 DEF Slugify
<1> QED BY <1>0, <1>1, <1>6, <1>7

(* A slug is its own. *)
LEMMA SlugOfSlug ==
  ASSUME NEW s \in Slug
  PROVE  Slugify(s) = s
<1>0. s \in Seq(SlugChars) /\ Len(s) \in Nat
  BY DEF Slug
<1>1. PICK f \in [0 .. Len(s) -> Slug] : Steps(f, s, Len(s)) /\ Slugify(s) = f[Len(s)]
  BY <1>0, SlugifyIs
<1> DEFINE B == {i \in 0 .. Len(s) : f[i] # SubSeq(s, 1, i)}
<1>2. ASSUME B # {} PROVE FALSE
  <2>1. PICK m \in B : \A k \in B : m <= k
    <3>1. B \subseteq Nat
      OBVIOUS
    <3> HIDE DEF B
    <3> QED BY <1>2, <3>1, Least
  <2>2. m \in 1 .. Len(s)
    <3>1. SubSeq(s, 1, 0) = <<>> /\ f[0] = <<>>
      BY <1>0, <1>1 DEF Steps
    <3>2. m \in 0 .. Len(s) /\ f[m] # SubSeq(s, 1, m)
      BY <2>1
    <3>3. m # 0
      BY <3>1, <3>2
    <3> QED BY <1>0, <3>2, <3>3
  <2>3. PICK p : p = SubSeq(s, 1, m - 1)
    OBVIOUS
  <2>4. /\ p \in Seq(SlugChars) /\ Len(p) = m - 1
        /\ p = [j \in 1 .. (m - 1) |-> s[j]]
        /\ SubSeq(s, 1, m) = Append(p, s[m])
    BY <1>0, <2>2, <2>3
  <2>5. f[m - 1] = p
    <3>1. m - 1 \in 0 .. Len(s) /\ m - 1 \notin B
      BY <1>0, <2>1, <2>2
    <3> QED BY <2>3, <3>1
  <2>6. s[m] \in SlugChars /\ ~(s[m] = "-" /\ Dashed(p))
    <3>1. s[m] \in SlugChars
      BY <1>0, <2>2
    <3>2. ASSUME s[m] = "-", Dashed(p) PROVE FALSE
      <4>1. m - 1 \in 1 .. (Len(s) - 1) /\ m - 1 + 1 = m /\ s[m - 1] = "-"
        BY <1>0, <2>2, <2>4, <3>2 DEF Dashed, Last
      <4> QED BY <3>2, <4>1 DEF Slug
    <3> QED BY <3>1, <3>2
  <2>7. f[m] = Joined(p, s[m])
    BY <1>1, <2>2, <2>5 DEF Steps
  <2>8. f[m] = SubSeq(s, 1, m)
    BY <2>4, <2>6, <2>7, JoinedIs
  <2> QED BY <2>1, <2>8
<1>3. f[Len(s)] = SubSeq(s, 1, Len(s))
  BY <1>0, <1>2
<1> QED BY <1>0, <1>1, <1>3

(* Two texts with a character between them. *)
LEMMA InsertedOne ==
  ASSUME NEW D, NEW p \in Seq(D), NEW q \in Seq(D), NEW x \in D, NEW u, u = p \o <<x>> \o q
  PROVE  /\ u \in Seq(D) /\ Len(u) = Len(p) + 1 + Len(q)
         /\ \A j \in 1 .. Len(p) : u[j] = p[j]
         /\ u[Len(p) + 1] = x
         /\ \A j \in 1 .. Len(q) : u[Len(p) + 1 + j] = q[j]
  OBVIOUS

(* The same with a character twice. *)
LEMMA InsertedTwo ==
  ASSUME NEW D, NEW p \in Seq(D), NEW q \in Seq(D), NEW x \in D, NEW u, u = p \o <<x, x>> \o q
  PROVE  /\ u \in Seq(D) /\ Len(u) = Len(p) + 2 + Len(q)
         /\ \A j \in 1 .. Len(p) : u[j] = p[j]
         /\ u[Len(p) + 1] = x /\ u[Len(p) + 2] = x
         /\ \A j \in 1 .. Len(q) : u[Len(p) + 2 + j] = q[j]
  OBVIOUS

(* What stands between the words of a name is no part of its slug. *)
LEMMA BetweenWords ==
  ASSUME NEW D, NEW p \in Seq(D), NEW q \in Seq(D), "-" \in D, "/" \in D
  PROVE  Slugify(p \o <<"-", "-">> \o q) = Slugify(p \o <<"/">> \o q)
<1>1. PICK x \in D, y \in D : x = "-" /\ y = "/"
  OBVIOUS
<1>2. PICK u, v : u = p \o <<x, x>> \o q /\ v = p \o <<y>> \o q
  OBVIOUS
<1>3. PICK k \in Nat, m \in Nat : k = Len(p) /\ m = Len(q)
  OBVIOUS
<1>4. /\ u \in Seq(D) /\ Len(u) = k + 2 + m
      /\ \A j \in 1 .. k : u[j] = p[j]
      /\ u[k + 1] = x /\ u[k + 2] = x
      /\ \A j \in 1 .. m : u[k + 2 + j] = q[j]
  BY <1>2, <1>3, InsertedTwo
<1>5. /\ v \in Seq(D) /\ Len(v) = k + 1 + m
      /\ \A j \in 1 .. k : v[j] = p[j]
      /\ v[k + 1] = y
      /\ \A j \in 1 .. m : v[k + 1 + j] = q[j]
  BY <1>2, <1>3, InsertedOne
<1>6. PICK f \in [0 .. Len(u) -> Slug] : Steps(f, u, Len(u)) /\ Slugify(u) = f[Len(u)]
  BY <1>4, SlugifyIs
<1>7. PICK g \in [0 .. Len(v) -> Slug] : Steps(g, v, Len(v)) /\ Slugify(v) = g[Len(v)]
  BY <1>5, SlugifyIs
<1>8. f[k] = g[k] /\ f[k] \in Slug
  <2>1. PICK z \in Nat : z = 0
    OBVIOUS
  <2>2. Alike(f, g, u, v, z, z, k)
    <3>1. f[z] = g[z]
      BY <1>6, <1>7, <2>1 DEF Steps
    <3>2. \A i \in 1 .. k : /\ u[z + i] = v[z + i]
                            /\ f[z + i] = Joined(f[z + i - 1], u[z + i])
                            /\ g[z + i] = Joined(g[z + i - 1], v[z + i])
      BY <1>4, <1>5, <1>6, <1>7, <2>1 DEF Steps
    <3> QED BY <3>1, <3>2 DEF Alike
  <2>3. SameFrom(f, g, z, z, k)
    BY <2>2, SlugsAgree
  <2> QED BY <1>4, <1>6, <2>1, <2>3 DEF SameFrom
<1>9. f[k + 2] = g[k + 1]
  <2>1. /\ k + 1 \in 1 .. Len(u) /\ k + 2 \in 1 .. Len(u) /\ k + 1 \in 1 .. Len(v)
        /\ k + 1 - 1 = k /\ k + 2 - 1 = k + 1
    BY <1>4, <1>5
  <2>2. /\ f[k + 1] = Joined(f[k], x) /\ f[k + 2] = Joined(f[k + 1], x)
        /\ g[k + 1] = Joined(g[k], y)
    BY <1>4, <1>5, <1>6, <1>7, <2>1 DEF Steps
  <2> QED BY <1>1, <1>8, <2>2, DashesAreOne
<1>10. f[k + 2 + m] = g[k + 1 + m]
  <2>1. PICK a \in Nat, b \in Nat : a = k + 2 /\ b = k + 1
    OBVIOUS
  <2>2. Alike(f, g, u, v, a, b, m)
    <3>1. f[a] = g[b]
      BY <1>9, <2>1
    <3>2. \A i \in 1 .. m : /\ u[a + i] = v[b + i]
                            /\ f[a + i] = Joined(f[a + i - 1], u[a + i])
                            /\ g[b + i] = Joined(g[b + i - 1], v[b + i])
      <4> SUFFICES ASSUME NEW i \in 1 .. m
                   PROVE  /\ u[a + i] = v[b + i]
                          /\ f[a + i] = Joined(f[a + i - 1], u[a + i])
                          /\ g[b + i] = Joined(g[b + i - 1], v[b + i])
        OBVIOUS
      <4>1. u[a + i] = q[i] /\ v[b + i] = q[i]
        BY <1>4, <1>5, <2>1
      <4>2. a + i \in 1 .. Len(u) /\ b + i \in 1 .. Len(v)
        BY <1>4, <1>5, <2>1
      <4> QED BY <1>6, <1>7, <4>1, <4>2 DEF Steps
    <3> QED BY <3>1, <3>2 DEF Alike
  <2>3. SameFrom(f, g, a, b, m)
    BY <2>2, SlugsAgree
  <2>4. f[a + m] = g[b + m]
    BY <2>3 DEF SameFrom
  <2> QED BY <2>1, <2>4
<1> QED BY <1>1, <1>2, <1>4, <1>5, <1>6, <1>7, <1>10

(* Case is no part of a slug. *)
LEMMA CaseIsLost ==
  ASSUME NEW C, NEW t \in Seq(C)
  PROVE  Slugify(Lowered(t)) = Slugify(t)
<1>1. PICK D, u, n : D = C \cup {"a"} /\ u = Lowered(t) /\ n = Len(t)
  OBVIOUS
<1>2. /\ n \in Nat /\ u \in Seq(D) /\ Len(u) = n
      /\ \A i \in 1 .. n : u[i] = t[i] \/ (t[i] = "A" /\ u[i] = "a")
  <2>1. \A c : c \in DOMAIN Lower => Lower[c] = "a" /\ (c = "a" \/ c = "A")
    BY DEF Lower
  <2>2. u = [i \in 1 .. n |-> IF t[i] \in DOMAIN Lower THEN Lower[t[i]] ELSE t[i]]
    BY <1>1 DEF Lowered
  <2>3. \A i \in 1 .. n : u[i] \in D /\ (u[i] = t[i] \/ (t[i] = "A" /\ u[i] = "a"))
    BY <1>1, <2>1, <2>2
  <2>4. n \in Nat
    BY <1>1
  <2>5. u \in [1 .. n -> D]
    BY <2>2, <2>3
  <2> QED BY <2>3, <2>4, <2>5
<1>3. PICK f \in [0 .. n -> Slug] : Steps(f, t, n) /\ Slugify(t) = f[n]
  BY <1>1, SlugifyIs
<1>4. PICK g \in [0 .. n -> Slug] : Steps(g, u, n) /\ Slugify(u) = g[n]
  BY <1>2, SlugifyIs
<1>5. \A s : Joined(s, "A") = Joined(s, "a")
  BY JoinedIs DEF SlugChars
<1>6. PICK z \in Nat : z = 0
  OBVIOUS
<1>7. Alike(f, g, t, t, z, z, n)
  <2>1. f[z] = g[z]
    BY <1>3, <1>4, <1>6 DEF Steps
  <2>2. \A i \in 1 .. n : /\ f[z + i] = Joined(f[z + i - 1], t[z + i])
                          /\ g[z + i] = Joined(g[z + i - 1], t[z + i])
    <3> SUFFICES ASSUME NEW i \in 1 .. n
                 PROVE  /\ f[i] = Joined(f[i - 1], t[i])
                        /\ g[i] = Joined(g[i - 1], t[i])
      BY <1>2, <1>6
    <3>1. f[i] = Joined(f[i - 1], t[i]) /\ g[i] = Joined(g[i - 1], u[i])
      BY <1>3, <1>4 DEF Steps
    <3>2. Joined(g[i - 1], u[i]) = Joined(g[i - 1], t[i])
      BY <1>2, <1>5
    <3> QED BY <3>1, <3>2
  <2> QED BY <2>1, <2>2 DEF Alike
<1>8. SameFrom(f, g, z, z, n)
  BY <1>2, <1>7, SlugsAgree
<1>9. f[n] = g[n]
  BY <1>2, <1>6, <1>8 DEF SameFrom
<1> QED BY <1>1, <1>3, <1>4, <1>9

(* A room is found by its slug, however its name is written. *)
THEOREM SlugsAreCanonical == SpecInputs => []Slugs
<1>1. ASSUME NEW t \in Seq(NameChars) PROVE SlugIsCanonical(t)
  <2>1. Slugify(t) \in Slug
    <3>1. PICK f \in [0 .. Len(t) -> Slug] : Slugify(t) = f[Len(t)]
      BY SlugifyIs
    <3>2. Len(t) \in 0 .. Len(t)
      OBVIOUS
    <3> QED BY <3>1, <3>2
  <2>2. ASSUME NEW i \in 1 .. Len(t)
        PROVE  Slugify(Before(t, i) \o <<"-", "-">> \o After(t, i - 1))
                 = Slugify(Before(t, i) \o <<"/">> \o After(t, i - 1))
    <3>1. PICK D : D = NameChars \cup {"-", "/"}
      OBVIOUS
    <3>2. PICK p, q : p = Before(t, i) /\ q = After(t, i - 1)
      OBVIOUS
    <3>3. p \in Seq(NameChars) /\ q \in Seq(NameChars)
      <4>1. i \in 1 .. (Len(t) + 1) /\ i - 1 \in 0 .. Len(t)
        OBVIOUS
      <4> QED BY <3>2, <4>1, BeforeIs, AfterIs
    <3>4. p \in Seq(D) /\ q \in Seq(D)
      BY <3>1, <3>3
    <3> QED BY <3>1, <3>2, <3>4, BetweenWords
  <2> QED BY <2>1, <2>2, SlugOfSlug, CaseIsLost DEF SlugIsCanonical, Slug
<1>2. TypeOKInputs => Slugs
  BY <1>1 DEF TypeOKInputs, Slugs
<1> QED BY <1>2, InputTypes, PTL
==============================================================================
