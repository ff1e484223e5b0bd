SPECIFICATION FairSpec
CONSTANTS
  MaxErases = 2
  MaxChunks = 2
  MaxResets = 2
INVARIANTS
  TypeOK
  ReachesItsChip
  FpgaOffFirmwareBus
  CommandsHeeded
  SendsToClearedFpga
  FpgaFreeWhenIdle
PROPERTY OperationsEnd
\* After a reset a polling loop may wait for a status bit that never comes.
CHECK_DEADLOCK FALSE
