SPECIFICATION Spec
CONSTANTS
  Games <- TwoGames
  OpIds <- TwoIds
  MaxPosted = 1
  Setups = FALSE
INVARIANTS
  OperationShown
  FollowsConfig
PROPERTY
  LaunchVerified
CHECK_DEADLOCK FALSE
