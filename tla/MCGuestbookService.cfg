SPECIFICATION Spec
CONSTANTS
  a = a
  b = b
  Text = {a, b}
  None = None
  Requests <- MCRequests
  Id = {1, 2}
  MaxClock = 2
  Worker = {w1, w2, w3}
SYMMETRY Symmetry
\* Every worker serves one request, so a behaviour ends when all have answered.
CHECK_DEADLOCK FALSE
INVARIANTS TypeOK AnswersAreWitnessed DeletedIsGone RowsAreSound
PROPERTIES UnsetFieldIsLeftAlone BookSpec
