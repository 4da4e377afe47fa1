CONSTANTS
  STR_CHUNK_MAX_LEN = 2
  InFront <- MCInFront
  NoValue = NoValue
  IndexEmpty <- MCIndexEmpty
  IndexReopen <- MCIndexReopen
  IndexSearch <- MCIndexSearch
  IndexInsert <- MCIndexInsert
  IndexDelete <- MCIndexDelete
  IndexRows <- MCIndexRows
  IndexCopies <- MCIndexCopies
  IndexUnpinned <- MCIndexUnpinned
  DEGREE = 2
  NPages = 6
  CACHE_PAGE = 4
  Key <- MCKey
  Value <- MCValueEmpty
  MAX_STR_LEN = 5
  Scenario <- MCScenarioEmpty
SPECIFICATION Spec
INVARIANT ReadsBack
