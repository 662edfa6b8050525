\* Two threads, three clients, the interpreted path.
SPECIFICATION Spec
CONSTANTS
  N = 3
  Clients = {c1, c2, c3}
  MaxWorkers = 2
  UseNumba = FALSE
  Starts = {0}
  MaxBatch = 2
  MaxRequests = 3
SYMMETRY Symmetry
INVARIANTS
  ObservationIsRecent
  NoDrawsShared
  OwnStepsAreKept
  SerialUnlessOverlapped
\* Clients may stop asking.
CHECK_DEADLOCK FALSE
