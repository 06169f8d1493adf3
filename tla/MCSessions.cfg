CONSTANTS
  Users = {u1, u2}
  Tokens = {t1, t2}
  Requests = {r1, r2}
  NoUser = NoUser
  NoToken = NoToken
SPECIFICATION FairSpec
CHECK_DEADLOCK TRUE
INVARIANTS
  SessionsStayWithTheirUser
  DeletedStaysRevoked
PROPERTIES
  TokenHasOneLife
  RevokedByItsHolder
  EveryRequestEnds
