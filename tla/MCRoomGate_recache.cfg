SPECIFICATION GateSpec
CONSTANTS
  room = room
  remote = remote
  Rooms = {room}
  OpenRooms = {room}
  BootRooms = {}
  Children <- NoChildren
  PageSize = 0
  RaisedKinds = {"public_true", "public_false"}
  MaxRaised = 2
  Paced = FALSE
  Lossy = FALSE
  LocalRooms = {room}
  WhitelistedRooms = {}
  UnnamedRooms = {}
  AutoJoin = FALSE
  InviteByLocalUser = TRUE
  VerdictTtl = 2
  MaxCalls = 0
  MaxBreaks = 0
  Readers = {r1}
  CacheJoinedRooms = TRUE
  Latency = 1
INVARIANT
  WithdrawalHonoured
