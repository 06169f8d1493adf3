CONSTANTS
  Emails = {e1, e2}
  Ids = {i1, i2, i3}
  Requests = {r1, r2, r3}
  NoEmail = NoEmail
  NoId = NoId
SPECIFICATION FairSpec
CHECK_DEADLOCK TRUE
INVARIANTS
  OneAccountPerEmail
  AccountsAreWhole
  CreatedIsOwned
PROPERTY
  RegistrationEnds
