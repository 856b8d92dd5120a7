\* The reference firmware's COMMS, camera and OBC.
SPECIFICATION RefFairSpec
CONSTANTS
    Commands = {"ping", "beacon", "config", "params", "report", "stop", "resume", "data", "reboot", "ignored", "unknown"}
    Images = {0, 80}
    MaxEvents = 2
    Half = 8
    Lengths <- PhotoLengths
    MaxPhotos = 2
    MaxChanges = 3
INVARIANTS
    ImageIsCovered
    ClockIsSafe
PROPERTIES
    PingIsAnswered
    CommsKeepsListening
    PhotosEnd
    ObcFollowsState
CHECK_DEADLOCK FALSE
