SPECIFICATION Spec
CONSTANTS
    Bits = 4
    WordBits = 2
    PacketSize = 2
    Capacity = 5
    Levels = {1, 3}
    Rates = {3}
    Anchors = {0, 2}
    Packets = {{}, {1}, {3}, {2, 3}, {1, 4}, {1, 2, 3, 4}}
    MaxPackets = 5
INVARIANTS InStep
CHECK_DEADLOCK FALSE
