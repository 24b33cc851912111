SPECIFICATION FairSpec
CONSTANTS
  space = space
  room = room
  remote = remote
  Rooms = {space, room}
  OpenRooms = {room}
  BootRooms = {}
  Children <- SpaceChildren
  PageSize = 0
  RaisedKinds <- CauseKinds
  MaxRaised = 2
  Paced = FALSE
  Lossy = TRUE
  LocalRooms = {space}
  WhitelistedRooms = {room}
  UnnamedRooms = {}
  AutoJoin = TRUE
  InviteByLocalUser = TRUE
  VerdictTtl = 1
  MaxCalls = 1
  MaxBreaks = 1
INVARIANTS
  TypeOK
  JoinHasCause
  VerdictHasCause
  LeaveHasCause
  OnlyAutoJoinSkips
PROPERTY
  ComesToRest
CHECK_DEADLOCK FALSE
