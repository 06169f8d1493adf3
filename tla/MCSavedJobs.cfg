CONSTANTS
  Users = {u1}
  Jobs = {j1, j2}
  Missing = Missing
  Requests = {r1, r2}
  DefaultLimit = 1
  Numbers = {0, 2}
  NoUser = NoUser
SPECIFICATION Spec
SYMMETRY Symmetry
CHECK_DEADLOCK TRUE
INVARIANTS
  AnswersAddUp
  TotalMatchesPage
  OnlyAdminsWriteJobs
