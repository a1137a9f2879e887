SPECIFICATION Spec
CONSTANTS
  Clients <- MCClients
  RetriesFlag = 1
  ThresholdFlag = 2
  OpenFlag = 1
  MaxTime = 2
  MaxSetups = 3
INVARIANTS
  TypeOK
  AnswerFits
  CleanShutdown
PROPERTIES
  RefusesDuringStreak
  EveryClientAnswered
  SignalEnds
