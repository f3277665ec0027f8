SPECIFICATION Spec
CONSTANTS
  HostPrimary = TRUE
  GamePids = {1, 2}
  MaxGeneration = 4
  StartAttemptLimit = 2
  ProbeFailureLimit = 2
  AttachedFailureLimit = 3
  MissingLimit = 2
INVARIANTS NeverStranded NothingOutlivesSession
PROPERTIES ActsOnAbsence NobodyHangs LifecycleSpec
