SPECIFICATION FairSpec
CONSTANTS
  Harts = {h1, h2}
  Backed <- MCBacked
  Contents <- MCContents
  Roots <- MCRoots
  LeftRoots <- MCLeftRoots
  Settings <- MCSettings
  LeftCounts <- MCLeftCounts
  LeftFlags <- MCLeftFlags
  Calls <- MCCalls
  Budget = 1
INVARIANTS
  TypeOK
  FaultsWriteNothing
  OnlyGrantedAccesses
  FramesStayApart
PROPERTIES
  UndisturbedIsAtomic
  MarksOnlyAdd
  EveryCallReturns
CHECK_DEADLOCK FALSE
