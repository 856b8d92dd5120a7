SPECIFICATION Spec
CONSTANTS
  Tasks = {"OBDH", "COMMS", "TRANSCEIVER"}
  BootStates = {"NM"}
  Commands = {"SSM"}
  MaxCommands = 1
  MaxExchange = 1
INVARIANTS
  AtMostTwoQueued
  OneRequestPerBlockedClient
  WatchdogNeedsFault
