SPECIFICATION DialogSpec
CONSTANTS
  Runtimes = {"wine", "proton", "macos"}
  ValidationRetries = 1
  MaxGeneration = 4
INVARIANTS JobAndMarkerAgree ProgressTruthful
PROPERTIES SetupSuccessEarned DxvkKeepsMarker SetupResolves
