CONSTANTS
    LinksUsed <- ThreeLinks
    Queued <- BeaconAndReport
    MaxArrivals = 2
    MaxPauses = 1
SPECIFICATION BFairSpec
INVARIANTS NeverDeaf PassedOnOnce BlockingReadsAreFresh
PROPERTIES CutOnlyByOthers QueueIsServed
