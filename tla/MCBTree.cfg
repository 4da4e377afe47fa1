CONSTANTS
  Key = {1, 2, 3, 4, 5, 6, 7, 8, 9, 10, 11, 12, 13, 14, 15, 16, 17, 18, 19, 20}
  DEGREE = 2
  NPages = 20
  CACHE_PAGE = 4
  RowRowCmp <- KeyCmp
  PtrRowCmp <- KeyCmp
  InsertHandler <- CopyKey
  DeleteHandler <- DropCopy
  FewKeys = {1, 2, 3, 4, 5, 6, 7, 8, 9}
  MaxDeletes = 5
SPECIFICATION Spec
CHECK_DEADLOCK FALSE
INVARIANTS TypeOK SearchExact Balanced PagesAccountedFor CopiesExact PinsBalanced
PROPERTY GrowsOnlyWhenFull
