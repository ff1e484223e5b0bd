SPECIFICATION Spec
CONSTANTS
  RealClusters <- MCRealClusters
  FarClusters <- MCFarClusters
  Texts <- MCTexts
  Default <- MCDefault
  Values <- MCValues
  LogSize = 3
  SectorLines = 4
  MaxLine = 2
  Setups <- DefaultBuild
  UserClusters <- MCUserClusters
  MaxEdits = 2
INVARIANT LogEntryKept
CHECK_DEADLOCK FALSE
