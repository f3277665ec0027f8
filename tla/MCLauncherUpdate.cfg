SPECIFICATION Spec
CONSTANTS
  Releases <- FourReleases
  Number <- Numbers
  First = "old"
  Mandatory <- OnlyNew
  Outdated <- OnlyLost
  Catalogues <- Published
  Endpoints = 2
  MaxRequests = 3
  MaxSessions = 2
INVARIANTS
  LauncherNeverLost
  OffersNewest
PROPERTIES
  InstalledAsAsked
  NothingHangs
CHECK_DEADLOCK FALSE
