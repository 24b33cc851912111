SPECIFICATION FairSpec
CONSTANTS
  space = space
  room = room
  other = other
  Rooms = {space, room, other}
  OpenRooms = {other}
  Bridged = {room}
  Children <- SpaceChildren
  Space = space
  Configs <- JoinedOrNamed
  IncludeRooms = {space, room}
  DefaultSpaces = {space}
  CachedLists = {"public_rooms", "public_spaces", "space_rooms"}
  Ttl = 2
  Permits = 2
  Requests = {r1}
  AskedLists = {"public_rooms", "public_spaces", "space_rooms", "space_summary"}
  Lossy = TRUE
  Latency = 1
  MaxChanges = 1
INVARIANTS
  TypeOK
  ListsWhole
PROPERTIES
  ListsNoLongGone
  ListsLongThere
  EveryRequestAnswered
