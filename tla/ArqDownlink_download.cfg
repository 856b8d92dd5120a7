SPECIFICATION DlFairSpec
CONSTANTS
  Requests <- TwoFiles
  Area = 3
  Window = 2
  BitmapBits = 2
  MaxWrites = 1
  MaxLosses = 4
  MaxFailures = 1
PROPERTIES
  AcceptedIsASnapshot
  SessionsEnd
  DownloadsArrive
