CONSTANTS
  PAGE_SIZE = 7
  HEADER = 1
  ITEM_ID = 1
  x1 = x1
  x2 = x2
  Item = {x1, x2}
  NoItem = NoItem
  SizeOf <- MCSizeOf
  NBlocks = 2
  Fsm <- MCFsm
  FsmInit <- MCFsmInit
  FsmReopen <- MCFsmReopen
  FsmInsert <- MCFsmInsert
  FsmPop <- MCFsmPop
  FsmPopLowerBound <- MCFsmPopLowerBound
  FsmContent <- MCFsmContent
  FsmReady <- MCFsmReady
SPECIFICATION Spec
INVARIANTS TypeOK BlockInv NoByteLost FsmExact
PROPERTIES GrowsOnlyWhenFull ImplementsRowTable
