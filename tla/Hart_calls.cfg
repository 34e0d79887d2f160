SPECIFICATION Spec
CONSTANTS
  Backed <- MCBacked
  Contents <- MCContents
  Registers <- MCRegisters
  LeftLevels <- MCLeftLevels
  LeftCounts <- MCLeftCounts
  LeftFlags <- MCLeftFlags
  LeftWords <- MCLeftWords
  Insts <- MCInsts
  CsrIds <- MCCsrIds
  Values <- MCValues
  Places <- MCPlaces
  Coded <- MCCoded
  Budget = 2
INVARIANTS
  TypeOK
  CodingsAgree
PROPERTIES
  FailuresKeepState
  WordResultsAgree
CHECK_DEADLOCK FALSE
