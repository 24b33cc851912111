SPECIFICATION Spec
CONSTANTS
  space = space
  room = room
  remote = remote
  Rooms = {room, remote}
  OpenRooms = {}
  BootRooms = {}
  Children <- NoChildren
  PageSize = 0
  RaisedKinds = {"invite"}
  MaxRaised = 2
  Paced = FALSE
  Lossy = FALSE
  LocalRooms = {room}
  WhitelistedRooms = {}
  UnnamedRooms = {}
  AutoJoin = TRUE
  InviteByLocalUser = TRUE
  VerdictTtl = 1
  MaxCalls = 0
  MaxBreaks = 0
INVARIANT
  JoinsObeyWhitelist
CHECK_DEADLOCK FALSE
