SPECIFICATION FairSpec
CONSTANTS
  Commands <- TwoReports
  Reports = {15}
  Known = {1, 2, 15}
  RingSize = 1
  Budgets <- LossesOrFaults
INVARIANTS
  OnceOutsideExchanges
  AckedIsKept
  OkMeansReceived
PROPERTIES
  CommandsArrive
