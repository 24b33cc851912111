SPECIFICATION FairSpec
CONSTANTS
  Keys = {"messages"}
  Enabled = {"requests", "room_state", "messages", "search"}
  Ttl <- TwoTicks
  Absent = Absent
  DefaultTtl = 3
  Sections <- BothOrTtl
  Half = 32
  OverflowChecks = FALSE
  Requests = {r1}
  Lossy = FALSE
  Latency = 1
  MaxAge = 1
  MaxVersion = 3
  MaxTasks = 2
INVARIANT
  RedactionReachesCache
PROPERTIES
  LeavesYoungPages
  CatchesUp
