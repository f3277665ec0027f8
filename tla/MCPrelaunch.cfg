SPECIFICATION Spec
CONSTANTS
  Games <- OneGame
  OpIds <- ThreeIds
  MaxPosted = 1
  Setups = TRUE
INVARIANTS
  NothingBeside
  Answered
CHECK_DEADLOCK FALSE
