\* Two files of up to two pieces, an empty one among them; two attempts, both at a time.
SPECIFICATION DownloadSpec
CONSTANTS
  Files = {"game", "data"}
  Sizes = {0, 1, 2}
  Attempts = 2
  Tasks = 2
INVARIANTS
  FailureHasCause
PROPERTIES
  DownloadEnds
  DownloadIsWhole
