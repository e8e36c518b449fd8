SPECIFICATION FairSpec
CONSTANTS
  a = b
  b = b
  Text = {b}
  None = None
  STEP = 1
  PIECE_MAX = 2
  SHOWN_MAX = 4
  Id = {1, 2, 3, 4, 5}
  MaxClock = 0
  Phrase = None
  Sort = "oldest"
  Asked = {0, 3, 9}
  Books <- WholeBooks
  MaxChanges = 2
  MaxFaults = 1
\* The reader and the others may have nothing more to do.
CHECK_DEADLOCK FALSE
PROPERTY ScreenSettles
