SPECIFICATION Spec
CONSTANTS
  Static <- MCStatic
  Leaks <- MCLeaks
INVARIANTS
  TypeOK
  NothingLeftOpen
  RecordedMeansReloaded
  ToldTheTruth
PROPERTIES
  EveryCommandEnds
  ReloadPromise
