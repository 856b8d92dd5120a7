SPECIFICATION FairSpec
CONSTANTS
  Uploads <- FourFiles
  Capacity = 4
  TleRoom = 3
  MaxLosses = 3
  MaxFailures = 2
INVARIANTS
  AcksAreExact
PROPERTIES
  WritesWholeFiles
  UploadsComplete
