SPECIFICATION Spec
CONSTANTS
  N = 4
  Concurrency = 2
  MaxChunks = 3
  MaxInline = 2
  Notice = Notice
  Absent = Absent
  MaxFaults = 2
  c1 = c1
  c2 = c2
  o1 = o1
  Calls = {c1, c2}
  Orgs = {o1}
  Global = Global
  Tries <- MCTries
  OrgOf <- MCOrgOf
  Est <- MCEst
  Act <- MCAct
  InitialCap <- MCInitialCap
  Caps = {2}
  LastDay = 2
  MaxEvents = 1
INVARIANTS
  OneFindingSet
  
  DayIsAccounted
  CapBoundsTheDay
  DeadlockNeedsCapChange
