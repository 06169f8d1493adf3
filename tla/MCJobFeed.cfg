CONSTANTS
  Workers = {w1}
  Sources = {s1, s2}
  Jobs = {j1, j2, j3}
  MaxFeed = 2
  NoSource = NoSource
  NoRow = NoRow
SPECIFICATION FairSpec
CHECK_DEADLOCK TRUE
INVARIANTS
  CopiesBounded
  RunImportsTheRest
PROPERTIES
  DeletedStaysOut
  CancelStops
