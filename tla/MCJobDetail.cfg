CONSTANTS
  Users = {u1, u2}
  Jobs = {j1}
  Words <- MCWords
  Lower <- MCLower
  SkillSets <- MCSkillSets
  Requests = {r1}
  MaxReads = 2
  NoProfile = NoProfile
SPECIFICATION FairSpec
CHECK_DEADLOCK TRUE
INVARIANTS
  TypeOK
  ViewsAddUp
  ReplyOfOneMoment
  MatchAgrees
PROPERTIES
  CountingEnds
