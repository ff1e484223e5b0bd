SPECIFICATION FairSpec
CONSTANTS
  bsA = bsA  bsB = bsB  bsC = bsC  fw = fw  alien = alien
  Files = {bsA, bsB, fw}
  FamilyId <- MCFamilyId
  NumBlocks <- MCNumBlocks
  Nibble <- MCNibble
  SlotPages = 4
  ErasePages = 2
  BufBlocks = 2
  HostOverlap = "otherKind"
  HostMayAbort = FALSE
  HostMayRepeat = FALSE
  MaxBoots = 1
  Erased = Erased  Mixed = Mixed  None = None  Blank = Blank  Failed = Failed
INVARIANTS SlotInv WholeImage
PROPERTIES LastBlockCompletes NeverMixes ImplementsSlotStore SessionEnds
