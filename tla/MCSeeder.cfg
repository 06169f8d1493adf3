CONSTANTS
  UserRows <- MCUserRows
  JobRows <- MCJobRows
  ApplicationRows <- MCApplicationRows
  SavedRows <- MCSavedRows
  MaxFaults = 2
  MaxRuns = 3
SPECIFICATION Spec
CHECK_DEADLOCK FALSE
INVARIANTS
  TypeOK
  PositionsMeanTheirRows
  ProfilesAreNotRepaired
  CopiesNeedFaults
PROPERTIES
  RunCompletes
  RerunWritesNothing
