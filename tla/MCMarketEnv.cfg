\* Single steps, batches of up to three rows, refusals and resets, with a sink
\* that may be closed at any time.
SPECIFICATION Spec
CONSTANTS
  N = 4
  Seeds = {7, 8}
  DefaultSeed = 7
  Rows = {"hold", "order", "malformed"}
  Malformed = {"malformed"}
  Orders = {"order"}
  MaxBatch = 3
  MaxDraws = 6
  HasSink = TRUE
PROPERTIES
  ImplementsSeededEpisode
INVARIANTS
  DrawsAreFresh
  BatchingIsInvisible
  BatchAppliesItsPrefix
  ReturnedBatchIsWhole
  SinkHasEveryBatchedStep
