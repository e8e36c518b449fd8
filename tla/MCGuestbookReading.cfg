SPECIFICATION Spec
CONSTANTS
  a = a
  b = b
  Text = {a, b}
  None = None
  STEP = 1
  PIECE_MAX = 2
  SHOWN_MAX = 4
  Id = {1, 2, 3, 4}
  MaxClock = 1
  Phrase <- Searched
  Sort = "newest"
  Asked = {0, 9}
  Books <- SearchedBooks
  MaxChanges = 2
  MaxFaults = 1
\* The reader and the others may have nothing more to do.
CHECK_DEADLOCK FALSE
INVARIANTS TypeOK EveryRequestIsWithinTheContract ScreenTellsTheBook
