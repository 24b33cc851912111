------------------------------- MODULE RoomNames -------------------------------
(***************************************************************************)
(* What the code takes a text for: a room id (src/utils.rs), an alias, in  *)
(* the middleware, the spaces endpoints and the entries of include_rooms   *)
(* and spaces.default, or a slug.                                          *)
(*                                                                         *)
(* A text is a sequence of characters, one for each class the code tells   *)
(* apart.  The limits on lengths are constants, to be reached by short     *)
(* texts.                                                                  *)
(***************************************************************************)
EXTENDS Naturals, FiniteSets, SequencesExt

CONSTANTS
  MaxLocalpart,   \* 255
  MaxHostname,    \* 253
  MaxLabel        \* 63

ASSUME RoomNamesAssumption ==
  /\ MaxLocalpart \in Nat /\ MaxHostname \in Nat /\ MaxLabel \in Nat

Digits == {"0", "1"}
Lower == [c \in {"a", "A"} |-> "a"]
Alphanumeric == Digits \cup DOMAIN Lower

Chars(t, S) == ToSet(t) \subseteq S
Positions(t, c) == {i \in 1 .. Len(t) : t[i] = c}
Has(t, c) == Positions(t, c) # {}
StartsWith(t, c) == t # <<>> /\ t[1] = c
Before(t, i) == SubSeq(t, 1, i - 1)
After(t, i) == SubSeq(t, i + 1, Len(t))

------------------------------------------------------------------------------
(* Room ids. *)

IsValidLocalpart(t) ==
  /\ 0 < Len(t) /\ Len(t) <= MaxLocalpart
  /\ Chars(t, Alphanumeric \cup {".", "_", "=", "-"})

(* What split('.') gives. *)
Labels(t) ==
  LET ends == {0, Len(t) + 1} \cup Positions(t, ".")
  IN {SubSeq(t, i + 1, Min({j \in ends : j > i}) - 1) : i \in ends \ {Len(t) + 1}}

(* Fault: a label may end in anything. *)
IsValidLabelStart(t) ==
  0 < Len(t) /\ Len(t) <= MaxLabel /\ t[1] \in Alphanumeric /\ Chars(t, Alphanumeric \cup {"-"})

IsValidLabel(t) ==
  /\ 0 < Len(t) /\ Len(t) <= MaxLabel
  /\ t[1] \in Alphanumeric /\ Last(t) \in Alphanumeric
  /\ Chars(t, Alphanumeric \cup {"-"})

IsValidHostname(t) ==
  /\ 0 < Len(t) /\ Len(t) <= MaxHostname
  /\ t[1] \notin {".", "-"} /\ Last(t) \notin {".", "-"}
  /\ \A label \in Labels(t) : IsValidLabel(label)

(* What parses as a u16: perhaps a sign, any zeros, then, in these digits, at most
   five others. *)
IsNumber(t) ==
  LET digits == IF StartsWith(t, "+") THEN After(t, 1) ELSE t IN
  /\ digits # <<>> /\ Chars(digits, Digits)
  /\ \A i \in 1 .. Len(digits) - 5 : digits[i] = "0"

IsPort(t) == IsNumber(t) /\ Has(t, "1")

IsValidDomain(t) ==
  IF Has(t, ":")
    THEN LET i == Max(Positions(t, ":")) IN IsPort(After(t, i)) /\ IsValidHostname(Before(t, i))
    ELSE IsValidHostname(t)

(* The last colon parts the id. *)
IsValidRoomId(t) ==
  /\ StartsWith(t, "!") /\ Has(t, ":")
  /\ LET i == Max(Positions(t, ":")) IN
       IsValidLocalpart(SubSeq(t, 2, i - 1)) /\ IsValidDomain(After(t, i))

------------------------------------------------------------------------------
(* Aliases. *)

(* Fault: the id's sigil is not looked at. *)
AnyAliasLike(t) ==
  \E i \in Positions(t, ":") : Positions(t, ":") = {i} /\ i > 1 /\ i < Len(t)

RoomAliasLike(t) ==
  /\ \E i \in Positions(t, ":") : Positions(t, ":") = {i} /\ i > 1 /\ i < Len(t)
  /\ ~StartsWith(t, "!")

Sigil(t) == <<"#">> \o t
Completed(t, server) == Sigil(t) \o <<":">> \o server

(* The server part of an alias the client library parses: after the first colon
   a name and perhaps a port. *)
ParsesAsAlias(t) ==
  /\ StartsWith(t, "#") /\ Has(t, ":")
  /\ LET server == After(t, Min(Positions(t, ":")))
         i == Min(Positions(server, ":") \cup {Len(server) + 1})
     IN /\ i > 1 /\ Chars(Before(server, i), Alphanumeric \cup {".", "-"})
        /\ i <= Len(server) => IsNumber(After(server, i))

(* Fault: the local part alone is looked up. *)
LocalAlias(t, server) ==
  IF RoomAliasLike(t) THEN Completed(Before(t, Min(Positions(t, ":"))), server)
                      ELSE Completed(t, server)

(* validate_room_id *)
MiddlewareAlias(t, server) == IF RoomAliasLike(t) THEN Sigil(t) ELSE Completed(t, server)

(* Fault: a dot is taken for a whole alias. *)
DottedIsWhole(t) == Has(t, ".")

Whole(t) == Has(t, ":") /\ Has(t, ".")

(* space and space_rooms *)
SpaceAlias(t, server) == IF Whole(t) THEN Sigil(t) ELSE Completed(t, server)

(* joined_rooms_state and get_public_spaces *)
EntryAlias(t, server) ==
  IF Whole(t) /\ StartsWith(t, "#") THEN t ELSE SpaceAlias(t, server)

(* The aliases the homeserver is asked for: none when it does not parse. *)
Asked(alias) == {a \in {alias} : ParsesAsAlias(a)}

(* The aliases validate_room_id asks for when the path names t. *)
PathAsks(t, server) == IF IsValidRoomId(t) THEN {} ELSE Asked(MiddlewareAlias(t, server))

------------------------------------------------------------------------------
(* Fault: one dash for every character. *)
SlugifyEach(t) ==
  [i \in 1 .. Len(t) |-> IF t[i] \in DOMAIN Lower THEN Lower[t[i]]
                         ELSE IF t[i] \in Digits THEN t[i] ELSE "-"]

(* Fault: letters stay as they are. *)
JoinedAsIs(slug, c) ==
  CASE c \in Alphanumeric -> Append(slug, c)
    [] c \notin Alphanumeric /\ slug # <<>> /\ Last(slug) = "-" -> slug
    [] OTHER -> Append(slug, "-")

(* A run of other characters becomes one dash; letters become lower case. *)
Joined(slug, c) ==
  CASE c \in Digits -> Append(slug, c)
    [] c \in DOMAIN Lower -> Append(slug, Lower[c])
    [] c \notin Alphanumeric /\ slug # <<>> /\ Last(slug) = "-" -> slug
    [] OTHER -> Append(slug, "-")

Slugify(t) ==
  LET slug[i \in 0 .. Len(t)] == IF i = 0 THEN <<>> ELSE Joined(slug[i - 1], t[i])
  IN slug[Len(t)]

------------------------------------------------------------------------------
(* Taking a hostname apart into labels comes to looking at each character and its
   neighbours. *)
HostnameAsReference(t) ==
  IsValidHostname(t) <=>
    /\ t # <<>> /\ Len(t) <= MaxHostname
    /\ \A i \in 1 .. Len(t) :
         \/ t[i] \in Alphanumeric
         \/ /\ t[i] \in {".", "-"} /\ i > 1 /\ i < Len(t)
            /\ t[i] = "." => {t[i - 1], t[i + 1]} \subseteq Alphanumeric
            /\ t[i] = "-" => "." \notin {t[i - 1], t[i + 1]}
    /\ \A i \in 1 .. Len(t) - MaxLabel : \E j \in i .. (i + MaxLabel) : t[j] = "."

(* The gate in front of a room's requests is asked about the room the path names:
   a text with the sigil and the colon of an id, be it one is_valid_room_id
   refuses (a port, an opaque local part), is never looked up as an alias, which
   could lead to another room.  Only a server whose name is a number, and which
   could be the port of another, is no part of this. *)
IdsAreNoAliases(t, server) ==
  StartsWith(t, "!") /\ Has(t, ":") /\ ~IsNumber(server) => PathAsks(t, server) = {}

(* The aliases a text stands for: in the path of a room, in the path of a space
   and in the configuration's lists. *)
AliasesOf(t, server) ==
  PathAsks(t, server) \cup Asked(SpaceAlias(t, server)) \cup Asked(EntryAlias(t, server))

(* A text without the sigil of an alias never means two rooms, however the three
   rules take it apart: those that find an alias in it find the same one, although
   one may find none ("a:host" of a host without a dot is an alias in the path of a
   room only).  All three find it in a local part and in an alias of a host with a
   dot and no port, and there an entry of the configuration may have the sigil, too.
   With it a text in a path is another name: of "#a:host" the code makes "##a:host".
   A server whose name is a number, and could be the port of another, is no part of
   the first half. *)
SameAliasEverywhere(t, server) ==
  /\ ~StartsWith(t, "#") /\ ~IsNumber(server) =>
       \A a, b \in AliasesOf(t, server) : a = b
  /\ ~StartsWith(t, "!") /\ (~Has(t, ":") \/ (RoomAliasLike(t) /\ Has(t, "."))) =>
       PathAsks(t, server) = Asked(SpaceAlias(t, server))
  /\ ~StartsWith(t, "#") /\ Whole(t) => EntryAlias(Sigil(t), server) = EntryAlias(t, server)

Lowered(t) == [i \in 1 .. Len(t) |-> IF t[i] \in DOMAIN Lower THEN Lower[t[i]] ELSE t[i]]

(* Names that differ in case and in what stands between their words share a slug,
   and a slug is its own: room_info finds a room by the slug of its name. *)
SlugIsCanonical(t) ==
  LET slug == Slugify(t) IN
  /\ Slugify(slug) = slug
  /\ Slugify(Lowered(t)) = slug
  /\ \A i \in 1 .. Len(slug) - 1 : ~(slug[i] = "-" /\ slug[i + 1] = "-")
  /\ \A i \in 1 .. Len(t) : Slugify(Before(t, i) \o <<"-", "-">> \o After(t, i - 1))
                          = Slugify(Before(t, i) \o <<"/">> \o After(t, i - 1))
================================================================================
