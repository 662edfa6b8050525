\* One session by three ways, with every value that could be taken for none.
SPECIFICATION Spec
CONSTANTS
  N = 3
  DefaultSeed = 7
  Seeds = {0, 7, 8}
  Starts = {0, 1, 2, 3}
  Orders = {"hold", "limit"}
  Limits = {0, 5}
  Fills <- MCFills
  Absent = Absent
  NaN = NaN
  MaxRows = 2
INVARIANTS
  CallsArrive
  AnswersArrive
