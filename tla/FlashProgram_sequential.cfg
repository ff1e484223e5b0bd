SPECIFICATION Spec
CONSTANTS
  bsA = bsA  bsB = bsB  bsC = bsC  fw = fw  alien = alien
  Files = {bsA, bsC, fw, alien}
  FamilyId <- MCFamilyId
  NumBlocks <- MCNumBlocks
  Nibble <- MCNibble
  SlotPages = 4
  ErasePages = 2
  BufBlocks = 2
  HostOverlap = "never"
  HostMayAbort = FALSE
  HostMayRepeat = FALSE
  MaxBoots = 2
  Erased = Erased  Mixed = Mixed  None = None  Blank = Blank  Failed = Failed
INVARIANT FpgaErasedInSession
PROPERTY TouchesOwnSlotOnly
