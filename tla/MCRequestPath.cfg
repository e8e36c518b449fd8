SPECIFICATION Spec
CONSTANTS
  t1 = t1
  t2 = t2
  short = short
  long = long
  None = None
  Task <- MCTask
  Name <- MCName
  Cut <- MCCut
SYMMETRY Symmetry
CHECK_DEADLOCK FALSE
INVARIANTS
  TypeOK
  RecordsNameTheirRequest
  OneRecordPerFailure
  EveryAnswerIsStamped
  NoTextReachesASink
  NobodyIsLeftWithoutAnAnswer
PROPERTY OneStart
