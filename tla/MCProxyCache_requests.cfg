SPECIFICATION Spec
CONSTANTS
  Keys = {"messages", "state", "media", "search"}
  Enabled = {"requests", "messages", "search"}
  Ttl <- TwoTicks
  Absent = Absent
  DefaultTtl = 3
  Sections <- BothOrTtl
  Half = 32
  OverflowChecks = FALSE
  Requests = {r1}
  Lossy = TRUE
  Latency = 1
  MaxAge = 4
  MaxVersion = 2
  MaxTasks = 1
INVARIANTS
  TypeOK
  FailureHasCause
  ServesYoung
