SPECIFICATION RunnerSpec
CONSTANTS
  Commands = {"setup", "query", "game"}
  TimedCommands = {"setup", "query"}
  Pids = {1, 2}
INVARIANTS RunnerServesHolder
PROPERTIES CommandsAnswered SlotSpec
CHECK_DEADLOCK FALSE
