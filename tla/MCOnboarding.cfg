\* Both kinds of document, a countdown of two ticks, two callbacks at a time.
CONSTANTS
  Documents = {"long", "short"}
  Cooldown = 2
  MaxPosted = 2
SPECIFICATION Spec
INVARIANTS
  RulesReadFirst
  WayForward
PROPERTIES
  SignedInByThisAttempt
