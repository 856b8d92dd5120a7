SPECIFICATION FairSpec
CONSTANTS
  Links = {"SF9", "SF7", "SF13"}
  Invalid = {"SF13"}
  Offered <- EveryKind
  MaxTime = 2
  MaxSent = 3
  MaxClockSets = 1
  MaxResets = 1
INVARIANTS
  NoTornCommit
  UnheardLinkIsTemporary
PROPERTY SlotIsReleased
