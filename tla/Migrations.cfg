SPECIFICATION AlembicSpec
CONSTANTS
  MaxCrashes = 2
  MaxReversals = 2
  MaxBroken = 1
INVARIANTS
  SchemaFollowsVersion
  PaymentsAreUnique
  OnlyTheseAreRefused
CHECK_DEADLOCK FALSE
