SPECIFICATION FairServiceSpec
CONSTANTS
  space = space
  room = room
  Rooms = {space, room}
  OpenRooms = {space}
  BootRooms = {}
  Children <- SpaceChildren
  PageSize = 0
  RaisedKinds = {"invite", "public_true", "public_false", "leave"}
  MaxRaised = 3
  Paced = TRUE
  Lossy = FALSE
  LocalRooms = {space, room}
  WhitelistedRooms = {}
  UnnamedRooms = {}
  AutoJoin = FALSE
  InviteByLocalUser = TRUE
  VerdictTtl = 1
  MaxCalls = 0
  MaxBreaks = 4
INVARIANTS
  ServiceTypeOK
  PingFindsItsId
  InviteHonoured
PROPERTY
  ServiceComesToRest
CHECK_DEADLOCK FALSE
