SPECIFICATION UnattendedSpec
CONSTANTS
  t1 = t1
  t2 = t2
  Tasks <- Two
  Kinds <- OneOfEach
  Ops <- NoOps
  MaxLate = 0
  MaxRaces = 0
  MaxQueued = 1
  MaxCrashes = 1
PROPERTY TasksAreResolved
