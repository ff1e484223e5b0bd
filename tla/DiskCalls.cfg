SPECIFICATION Spec
CONSTANTS
  MetaSectors = 3
  SectorsPerCluster = 2
  RealClusters = 4
  ReportedClusters = 6
  CallSectors = 2
  MaxLength = 5
  MaxTransfers = 2
INVARIANTS TypeOK ReadsWhatWasSent OffersFreeSectors OptionsParsed
PROPERTIES InsideRam
CHECK_DEADLOCK FALSE
