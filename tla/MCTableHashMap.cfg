CONSTANTS
  PAGE_SIZE = 8
  HEADER = 1
  ITEM_ID = 1
  x1 = x1
  x2 = x2
  Item = {x1, x2}
  NoItem = NoItem
  SizeOf <- MCSizeOf
  NBlocks = 3
  CACHE_PAGE = 5
  SIZE_MAX = 30
  NPages = 7
  PAGE_WORDS = 4
  n_directory_blocks = 2
  Page <- MCPage
  EMPTY_PAGE <- MCEmptyPage
  FsmInit <- MCFsmInit
  FsmReopen <- MCFsmReopen
  FsmInsert <- MCFsmInsert
  FsmPop <- MCFsmPop
  FsmPopLowerBound <- MCFsmPopLowerBound
  FsmContent <- MCFsmContent
  FsmReady <- MCFsmReady
SPECIFICATION Spec
INVARIANTS FsmExact
CHECK_DEADLOCK FALSE
