SPECIFICATION Spec
CONSTANTS
  Other <- MCOther
  Diffs <- MCDiffs
  Declared = 2
  None = None
\* A run ends with its verdict.
CHECK_DEADLOCK FALSE
INVARIANT EveryScenarioRan
