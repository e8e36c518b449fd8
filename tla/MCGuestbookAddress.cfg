CONSTANTS
  empty = empty
  anna = anna
  annaBlank = annaBlank
  zoe = zoe
  None = None
  Empty = empty
  Raw <- Texts
  Normal <- Trimmed
  Links <- Shared
  MaxHistory = 3
SPECIFICATION FairSpec
INVARIANT TypeOK
PROPERTIES LatePhraseIsCancelled AddressWins AddressCatchesUp
