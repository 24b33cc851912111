SPECIFICATION SpecInputs
CONSTANTS
  None = None
  Bridged = Bridged
  MaxLocalpart = 3
  MaxHostname = 4
  MaxLabel = 2
  ServerName <- Server
  IncludeRooms <- Entries
  StateEvents <- MCStateEvents
  TextChars <- MCTextChars
  NameChars <- MCNameChars
  Servers <- MCServers
  ListedRooms <- MCListedRooms
  MaxText = 6
  MaxName = 6
  MaxState = 3
  MaxRooms = 3
INVARIANTS
  TypeOKInputs
  Hostnames
  IdsPassAsThemselves
  OneMeaning
  Slugs
  ReadsAsReference
  SummaryAgrees
  InOrderOfEntries
CHECK_DEADLOCK FALSE
