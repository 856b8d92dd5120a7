SPECIFICATION FairSpec
CONSTANTS
  Tasks = {"OBDH", "COMMS", "BEACON", "EPS"}
  BootStates = {"NM"}
  Commands = {"SM"}
  MaxCommands = 1
  MaxExchange = 1
INVARIANTS
  PausedDoesNoWork
  StatePersisted
  QuietNeverFaults
PROPERTIES
  AckedPauseIsPaused
  CommandTakesEffect
