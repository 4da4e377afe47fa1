CONSTANTS
  CACHE_PAGE = 3
  SIZE_MAX = 4
  NPages = 4
  zero = zero
  v1 = v1
  Page <- MCPage
  EMPTY_PAGE = zero
  MaxPins = 2
  MaxNest = 2
SPECIFICATION Spec
INVARIANTS TypeOK PinnedStaysPut NoUndefinedBehaviour PoolInv ColdFramesStayCold
PROPERTY ImplementsPageStore
