CONSTANTS
  t1 = t1
  t2 = t2
  t3 = t3
  NoTree = NoTree
  Tree <- Trees
  Revision <- Revisions
  Keep = 4
  MaxReleases = 5
  MaxVersions = 3
SPECIFICATION Spec
PROPERTY RollbackNeverReturns
\* A run stops when the releases and versions of the bounds are used up.
CHECK_DEADLOCK FALSE
