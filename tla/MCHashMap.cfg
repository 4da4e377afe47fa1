CONSTANTS
  CACHE_PAGE = 4
  SIZE_MAX = 8
  NPages = 6
  PAGE_WORDS = 4
  n_directory_blocks = 2
  Page <- MCPage
  EMPTY_PAGE <- MCEmptyPage
  Pairs <- MCPairs
  Asks = {2, 5, 6}
SPECIFICATION Spec
INVARIANTS TypeOK NoUndefinedBehaviour KeepsWhatItWasGiven PagesAccountedFor PinsBalanced
PROPERTY ImplementsFreeSpaceMap
CHECK_DEADLOCK FALSE
