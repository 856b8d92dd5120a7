SPECIFICATION TSpec
CONSTANTS
    Readers = {"COMMS", "TRANSCEIVER"}
    Setters = {"COMMS"}
    SecsPerDay = 2
    Epoch2000 = 946684800
    LastYear = 2099
    Epochs = {946684917, 946685531, 946685649}
    MaxSets = 2
    MaxTicks = 3
    MaxDeletions = 1
    MaxRetx = 1
    MaxCommands = 2
    MaxReports = 1
    MaxHarms = 2
INVARIANTS ReadsTheTime OnlyWhatWasSent
CHECK_DEADLOCK FALSE
