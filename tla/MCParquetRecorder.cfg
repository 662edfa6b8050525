\* Three runs, four rows, any number of failing flushes, torn files and crashes.
SPECIFICATION Spec
CONSTANTS
  N = 4
  MaxRuns = 3
  MaxRows = 4
INVARIANTS
  NothingLostOrRepeated
  NumbersFollowRuns
PROPERTIES
  ImplementsPort
