SPECIFICATION Spec
CONSTANTS
  Harts = {h1, h2}
  Backed <- MCBacked
  Contents <- MCContents
  Roots <- MCRoots
  LeftRoots <- MCLeftRoots
  Settings <- MCSettings
  LeftCounts <- MCLeftCounts
  LeftFlags <- MCLeftFlags
  Calls <- MCCalls
  Budget = 1
PROPERTY ReadablePagesLoad
CHECK_DEADLOCK FALSE
