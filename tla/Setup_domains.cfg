CONSTANTS
  Domains = {d0, d1, d2}
  MainDomain = d0
  Orphan = Orphan
  NULL = NULL
  OtherHooks = {"scan", "terminated"}
  QuietInstall = TRUE
  LeavesAtOnce = TRUE
SPECIFICATION FairSpec
INVARIANTS
  TypeOK
  HooksAreChained
  KindIsRight
  HooksAreReady
  RootsAreReached
PROPERTIES
  CallsReturn
