SPECIFICATION GateFairSpec
CONSTANTS
  room = room
  remote = remote
  Rooms = {room}
  OpenRooms = {room}
  BootRooms = {}
  Children <- NoChildren
  PageSize = 0
  RaisedKinds = {"invite", "public_true", "public_false", "leave"}
  MaxRaised = 2
  Paced = FALSE
  Lossy = TRUE
  LocalRooms = {}
  WhitelistedRooms = {room}
  UnnamedRooms = {}
  AutoJoin = FALSE
  InviteByLocalUser = TRUE
  VerdictTtl = 2
  MaxCalls = 0
  MaxBreaks = 1
  Readers = {r1}
  CacheJoinedRooms = TRUE
  Latency = 1
INVARIANTS
  GateTypeOK
  ServedHasCause
PROPERTIES
  ServesNoLongGone
  StopsServing
