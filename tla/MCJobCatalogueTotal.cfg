CONSTANTS
  go = go
  rust = rust
  Kinds = {go}
  AnyKind = AnyKind
  Filters <- MCPages
  Requests = {r1, r2}
  MaxWrites = 2
  NoList = NoList
SPECIFICATION ListSpec
CHECK_DEADLOCK TRUE
INVARIANT
  PagesReachEveryJob
