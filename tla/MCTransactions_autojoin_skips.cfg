SPECIFICATION Spec
CONSTANTS
  space = space
  room = room
  remote = remote
  Rooms = {space, room}
  OpenRooms = {}
  BootRooms = {space}
  Children <- SpaceChildren
  PageSize = 0
  RaisedKinds = {"invite", "world_readable"}
  MaxRaised = 2
  Paced = FALSE
  Lossy = FALSE
  LocalRooms = {space, room}
  WhitelistedRooms = {}
  UnnamedRooms = {}
  AutoJoin = TRUE
  InviteByLocalUser = TRUE
  VerdictTtl = 1
  MaxCalls = 0
  MaxBreaks = 0
INVARIANT
  InviteHonoured
CHECK_DEADLOCK FALSE
