SPECIFICATION Spec
CONSTANTS
  bsA = bsA  bsB = bsB  bsC = bsC  fw = fw  alien = alien
  Files = {bsA, bsC}
  FamilyId <- MCFamilyId
  NumBlocks <- MCNumBlocks
  Nibble <- MCNibble
  SlotPages = 4
  ErasePages = 2
  BufBlocks = 2
  HostOverlap = "any"
  HostMayAbort = TRUE
  HostMayRepeat = TRUE
  MaxBoots = 1
  Erased = Erased  Mixed = Mixed  None = None  Blank = Blank  Failed = Failed
INVARIANTS TypeOK BlocksLeftPositive FpgaRunsSelected
