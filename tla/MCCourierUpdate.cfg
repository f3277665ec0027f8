SPECIFICATION Spec
CONSTANTS
  Files = {"game.exe", "data.pak", "obsolete.dll"}
  Release = {"game.exe", "data.pak"}
INVARIANTS
  UnownedBackupsAreStale
PROPERTIES
  UpdateIsAtomic
  CompletedMeansInstalled
  VerifiedFilesKept
