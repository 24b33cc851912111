SPECIFICATION Spec
CONSTANTS
  space = space
  room = room
  remote = remote
  Rooms = {space, room}
  OpenRooms = {space, room}
  BootRooms = {room}
  Children <- SpaceChildren
  PageSize = 0
  RaisedKinds <- AccessKinds
  MaxRaised = 3
  Paced = FALSE
  Lossy = FALSE
  LocalRooms = {space, room}
  WhitelistedRooms = {}
  UnnamedRooms = {}
  AutoJoin = FALSE
  InviteByLocalUser = TRUE
  VerdictTtl = 1
  MaxCalls = 0
  MaxBreaks = 1
INVARIANTS
  ListAgreesAtRest
  WithdrawalHonoured
PROPERTY
  InOrder
CHECK_DEADLOCK FALSE
