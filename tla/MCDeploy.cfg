CONSTANTS
  t1 = t1
  t2 = t2
  t3 = t3
  NoTree = NoTree
  Tree <- Trees
  Revision <- Revisions
  Keep = 3
  MaxReleases = 4
  MaxVersions = 3
SPECIFICATION Spec
INVARIANTS TypeOK SchemaIsAhead OldShellsStillLoad
PROPERTY RollbackLandsOnWhatServed
\* A run stops when the releases and versions of the bounds are used up.
CHECK_DEADLOCK FALSE
