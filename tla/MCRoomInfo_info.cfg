SPECIFICATION Spec
CONSTANTS
  space = space
  room = room
  other = other
  Rooms = {space, room, other}
  OpenRooms = {other}
  Children <- InSpace
  PageSize = 2
  Slugs = {lobby, hall}
  NoSlug = NoSlug
  Requests = {r1}
  Lossy = TRUE
  MaxChanges = 2
INVARIANTS
  TypeOK
  ShowsOwnRooms
  AnswerHangsTogether
  FindsFirstOfName
