SPECIFICATION Spec
CONSTANTS
  Lines <- MCLines
  OldConfig <- MCOldConfig
  SectorSize = 40
  MaxLines = 2
INVARIANTS TypeOK PlainFileRead CutBetweenLines
PROPERTIES ConvertsWhatItChecked ParserEnds
CHECK_DEADLOCK FALSE
