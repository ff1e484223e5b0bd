SPECIFICATION Spec
CONSTANTS
  RealClusters <- MCRealClusters
  FarClusters <- MCFarClusters
  Texts <- MCTexts
  Default <- MCDefault
  Values <- MCValues
  LogSize = 3
  SectorLines = 4
  MaxLine = 2
  Setups <- MCSetups
  UserClusters <- MCUserClusters
  MaxEdits = 3
INVARIANTS TypeOK LogEntryKept ConfigCurrent Uf2Programmed ReadsBack
PROPERTY ConfigWhole
CHECK_DEADLOCK FALSE
