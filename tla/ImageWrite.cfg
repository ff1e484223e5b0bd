SPECIFICATION Spec
CONSTANTS
  Bits = 2
  FlashSize = 16
  HeaderSize = 7
  BufferSize = 7
  LengthSize = 2
  Sync <- MCSync
  CrcBits = 4
  CrcTable <- MCCrcTable
  PageSize = 4
  EraseSize = 8
  Files <- MCFiles
  OldFlash <- MCOldFlash
  MaxFaults = 1
INVARIANTS TypeOK SendsBitstream LengthFromHeader NoSilentDamage NoFalseAlarm FpgaGetsFile
CHECK_DEADLOCK FALSE
