\* The compiled path, three clients and two threads, so that requests wait for a
\* thread.  A reset may ask for a bar the series does not have.
SPECIFICATION FairSpec
CONSTANTS
  N = 2
  Clients = {c1, c2, c3}
  MaxWorkers = 2
  UseNumba = TRUE
  Starts = {0, 2}
  MaxBatch = 1
  MaxRequests = 3
PROPERTIES
  ImplementsSeededEpisode
  EveryRequestAnswered
\* Clients may stop asking; the property says that none is left unanswered.
CHECK_DEADLOCK FALSE
