CONSTANTS
  go = go
  rust = rust
  Kinds = {go, rust}
  AnyKind = AnyKind
  Filters <- MCFilters
  Requests = {r1, r2}
  MaxWrites = 2
  NoList = NoList
SPECIFICATION FairListSpec
CHECK_DEADLOCK TRUE
INVARIANTS
  ListTypeOK
  PageOfOneMoment
  TablePagesReachEveryJob
PROPERTY
  CacheSettles
