CONSTANTS
  syncLoop = syncLoop
  secondDrain = secondDrain
  MaxRow = 2
  DrainSets <- OneOrTwo
  FullSize = 2
  MaxRounds = 1
  Cap = 2
  Target = 1
  MaxOld = 1
  MaxFaults = 1
SPECIFICATION LiveSpec
PROPERTY EveryRowLeaves
CHECK_DEADLOCK FALSE
