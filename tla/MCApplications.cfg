CONSTANTS
  Users = {u1, u2}
  Jobs = {j1}
  Apps = {a1, a2}
  Requests = {r1, r2}
  NoJob = NoJob
  NoUser = NoUser
  NoApp = NoApp
  NoRow = NoRow
SPECIFICATION Spec
CHECK_DEADLOCK TRUE
INVARIANTS
  ListsShowOwnRows
  DeletedStaysDeleted
PROPERTIES
  OnlyTheOwnerChanges
  IdHasOneLife
