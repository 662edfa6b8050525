\* A row cap wider than the observation window.
SPECIFICATION Spec
CONSTANTS
  N = 5
  ObservationWindow = 2
  MaxRows = 3
  Bounds <- MCBounds
  None = None
INVARIANTS
  ServesWhatWasAsked
  HandleStaysServable
