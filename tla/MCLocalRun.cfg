SPECIFICATION Spec
CONSTANTS
  f1 = f1
  f2 = f2
  s1 = s1
  s2 = s2
  Source <- MCSource
  Seeder <- MCSeeder
  MaxClock = 3
  MaxSaves = 3
  CorpusSize = 2
  MaxGuests = 1
SYMMETRY Symmetry
CONSTRAINT Bounds
CHECK_DEADLOCK FALSE
INVARIANTS
  TypeOK
  CurrentIsOfTheseSources
  CorpusIsInOnce
  ProductionIsNotSeeded
