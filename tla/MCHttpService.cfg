\* Two processes on one trace file, which may die in the middle of a write.
SPECIFICATION HttpSpec
CONSTANTS
  N = 3
  Seeds = {7, 8}
  DefaultSeed = 7
  Rows = {"order", "malformed"}
  Malformed = {"malformed"}
  Orders = {}
  MaxBatch = 2
  MaxDraws = 3
  HasSink = TRUE
  Settings <- MCSettings
  NoSeed = NoSeed
  Unparsable = Unparsable
  BadStart = BadStart
  Undecodable = Undecodable
  MaxStarts = 2
  MaxWritten = 3
INVARIANTS
  AnsweredRowsAreTraced
  EpisodeIsReproducible
PROPERTIES
  ReadyIsServed
  BatchIsAnswered
\* A service that has been shut down for the last time stays down.
CHECK_DEADLOCK FALSE
