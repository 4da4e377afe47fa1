CONSTANTS
  STR_CHUNK_MAX_LEN = 2
  InFront <- MCInFront
  NoValue = NoValue
  IndexEmpty <- MCIndexEmpty
  IndexReopen <- MCIndexReopen
  IndexSearch <- MCIndexSearch
  IndexInsert <- MCIndexInsert
  IndexDelete <- MCIndexDelete
  IndexRows <- MCIndexRows
  IndexCopies <- MCIndexCopies
  IndexUnpinned <- MCIndexUnpinned
  DEGREE = 2
  NPages = 14
  CACHE_PAGE = 4
  Key <- MCKey
  Value <- MCValue
  MAX_STR_LEN = 5
  Scenario <- MCScenario
SPECIFICATION Spec
INVARIANTS TypeOK NothingLeaked ChunksPacked ComparisonsExact PinsBalanced
PROPERTIES ImplementsDictionary IndexKeeps
