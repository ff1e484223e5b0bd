------------------------ MODULE FlashProgram_proofs ------------------------
(***************************************************************************)
(* Proofs about FlashProgram, for every set of files, every block count,   *)
(* slot and erase block size, and any number of power cycles.              *)
(***************************************************************************)
EXTENDS FlashProgram, FiniteSetTheorems, TLAPS

Page == Pages \cup {Erased, Mixed}

-----------------------------------------------------------------------------
(* Slots, offsets and pages. *)

\* A file has a slot, and its kind is one of three.
LEMMA SlotType == \A f \in Files : Slot(f) \in Slots
  BY FilesAssumption DEF Slot, Slots

\* An offset and a block of a file give a page of the chip.
LEMMA OffsetType ==
  \A s \in Slots : /\ FLASH_BITSTREAM_OFFSET(s) \in Nat
                   /\ \A n \in 0..(SlotPages - 1) :
                        FLASH_BITSTREAM_OFFSET(s) + n \in Addr
  BY SizesAssumption DEF FLASH_BITSTREAM_OFFSET, Slots, Addr

\* Two slots share no page.
LEMMA SlotsDisjoint ==
  \A s, t \in Slots : \A n, m \in 0..(SlotPages - 1) :
    FLASH_BITSTREAM_OFFSET(s) + n = FLASH_BITSTREAM_OFFSET(t) + m => s = t /\ n = m
  BY SizesAssumption DEF FLASH_BITSTREAM_OFFSET, Slots

\* The blocks of a file fit in a slot, and block 0 is one of them.
LEMMA BlocksInSlot ==
  \A f \in Files : /\ NumBlocks[f] \in Nat \ {0}
                   /\ NumBlocks[f] <= SlotPages
                   /\ Blocks(f) \subseteq 0..(SlotPages - 1)
                   /\ 0 \in Blocks(f)
  BY SizesAssumption, FilesAssumption DEF Blocks

\* The offset of a file is the offset of its slot.
LEMMA TargetType ==
  \A f \in Files : /\ TargetOffset(f) \in Nat
                   /\ TargetOffset(f) \in {FLASH_BITSTREAM_OFFSET(s) : s \in Slots}
                   /\ \A n \in 0..(SlotPages - 1) : TargetOffset(f) + n \in Addr
  BY SlotType, OffsetType DEF TargetOffset

\* Erasing and programming keep a chip a chip.
LEMMA ChipType ==
  ASSUME NEW c \in [Addr -> Page], NEW off, NEW n, NEW a, NEW f \in Files,
         NEW m \in Nat
  PROVE  /\ EraseLoop(c, off, n) \in [Addr -> Page]
         /\ ProgramPage(c, a, <<f, m>>) \in [Addr -> Page]
         /\ TornPage(c, a) \in [Addr -> Page]
  BY DEF EraseLoop, ProgramPage, TornPage, Page, Pages

\* So does an erase loop that power cuts short.
LEMMA PartErasesType ==
  ASSUME NEW c \in [Addr -> Page], NEW off, NEW n, NEW d \in PartErases(c, off, n)
  PROVE  d \in [Addr -> Page]
<1>1. PICK m : \/ d = EraseLoop(c, off, m)
               \/ d = [a \in Addr |->
                         IF a >= off /\ (a - off) - ((a - off) % ErasePages) = m
                           THEN Mixed ELSE EraseLoop(c, off, m)[a]]
  BY DEF PartErases
<1>2. EraseLoop(c, off, m) \in [Addr -> Page]
  BY DEF EraseLoop, Page
<1> QED
  BY <1>1, <1>2 DEF Page

\* The FPGA ends up with a file, blank or failed.
LEMMA LoadType ==
  ASSUME NEW c, NEW s, NEW before \in Files \cup {Blank, Failed},
         NEW x \in LoadOutcomes(c, s, before)
  PROVE  x \in Files \cup {Blank, Failed}
  BY DEF LoadOutcomes

-----------------------------------------------------------------------------
(* Type correctness, and the count of an open session, for any host. *)

TypeInv == TypeOK /\ BlocksLeftPositive

\* The initial state has its types.
LEMMA TypeInit == Init => TypeInv
<1> SUFFICES ASSUME Init PROVE TypeInv
  OBVIOUS
<1>1. blocks_left \in [Kinds -> 0..SlotPages] /\ left \in [Files -> SUBSET (0..(SlotPages - 1))]
  BY SizesAssumption DEF Init
<1>2. offset \in [Kinds -> {FLASH_BITSTREAM_OFFSET(s) : s \in Slots}]
  <2>1. FLASH_BITSTREAM_OFFSET(0) = 0 /\ 0 \in Slots
    BY DEF FLASH_BITSTREAM_OFFSET, Slots
  <2> QED
    BY <2>1 DEF Init
<1> QED
  BY <1>1, <1>2 DEF Init, TypeInv, TypeOK, BlocksLeftPositive, Slots

\* The buffer of a step, its block and the effect of the block, spelled out.
BlockStep(f, k, n) ==
  /\ f \in Files /\ k \in Kinds /\ k = KindOf(f) /\ n \in Blocks(f)
  /\ buf # None /\ buf.file = f /\ buf.next = n
  /\ buf.last \in Blocks(f) /\ n <= buf.last
  /\ flash' = [flash EXCEPT ![k] = ChipAfterBlock(k, f, n)]
  /\ offset' = [offset EXCEPT ![k] = SessionOffset(k, f)]
  /\ blocks_left' = [blocks_left EXCEPT ![k] = SessionLeft(k, f) - 1]
  /\ in_progress' = [in_progress EXCEPT ![k] = (SessionLeft(k, f) - 1 # 0)]
  /\ \/ /\ SessionLeft(k, f) - 1 = 0
        /\ StartupProgramBitstream(flash'["bitstream"], SessionFpga(k))
     \/ /\ SessionLeft(k, f) - 1 # 0
        /\ fpga' = SessionFpga(k) /\ loaded' = loaded
  /\ \/ n = buf.last /\ buf' = None
     \/ /\ n # buf.last
        /\ buf' \in Buffers /\ buf'.file = f
        /\ buf'.next = n + 1 /\ buf'.last = buf.last
  /\ sel' = sel /\ active' = active /\ left' = left /\ copied' = copied /\ boots' = boots

\* What ProgramBlock does to the session, the chip and the FPGA, with the LETs of the
\* action and its two cases out of the way.
LEMMA BlockStepOf ==
  TypeOK /\ ProgramBlock => BlockStep(buf.file, KindOf(buf.file), buf.next)
<1> SUFFICES ASSUME TypeOK, ProgramBlock
             PROVE  BlockStep(buf.file, KindOf(buf.file), buf.next)
  OBVIOUS
<1>1. /\ buf # None /\ buf \in Buffers
      /\ buf.next <= buf.last /\ buf.last \in Blocks(buf.file)
  BY DEF TypeOK, ProgramBlock
<1>2. buf.file \in Files /\ buf.next \in Nat /\ buf.last \in Nat
  BY <1>1 DEF Buffers
<1>3. buf.next \in Blocks(buf.file)
  BY <1>1, <1>2, BlocksInSlot DEF Blocks
<1>4. CASE buf.next = buf.last
  <2>1. buf' = None
    BY <1>4 DEF ProgramBlock, BufferAfterBlock
  <2> QED
    BY <1>1, <1>2, <1>3, <1>4, <2>1 DEF ProgramBlock, BlockStep, host
<1>5. CASE buf.next # buf.last
  <2>1. buf' = [buf EXCEPT !.next = buf.next + 1]
    BY <1>5 DEF ProgramBlock, BufferAfterBlock
  <2>2. /\ buf' \in Buffers /\ buf'.file = buf.file
        /\ buf'.next = buf.next + 1 /\ buf'.last = buf.last
    BY <1>1, <1>2, <2>1 DEF Buffers
  <2> QED
    BY <1>1, <1>2, <1>3, <1>5, <2>2 DEF ProgramBlock, BlockStep, host
<1> QED
  BY <1>4, <1>5

\* The count a block starts from is between 1 and the size of a slot.
LEMMA SessionLeftType ==
  ASSUME TypeInv, NEW f \in Files, NEW k \in Kinds
  PROVE  SessionLeft(k, f) \in 1..SlotPages
<1>1. CASE in_progress[k]
  <2>1. blocks_left[k] \in 0..SlotPages /\ blocks_left[k] > 0
    BY <1>1 DEF TypeInv, TypeOK, BlocksLeftPositive
  <2> QED
    BY <1>1, <2>1, SizesAssumption DEF SessionLeft
<1>2. CASE ~ in_progress[k]
  <2>1. SessionLeft(k, f) = NumBlocks[f]
    BY <1>2 DEF SessionLeft
  <2> QED
    BY <2>1, FilesAssumption
<1> QED
  BY <1>1, <1>2

\* The session, the chip and the FPGA that a block starts from have their types.
LEMMA SessionTypes ==
  ASSUME TypeInv, NEW f \in Files, NEW k \in Kinds, NEW n \in Nat
  PROVE  /\ SessionOffset(k, f) \in {FLASH_BITSTREAM_OFFSET(s) : s \in Slots}
         /\ SessionChip(k, f) \in [Addr -> Page]
         /\ ChipAfterBlock(k, f, n) \in [Addr -> Page]
         /\ SessionFpga(k) \in Files \cup {Blank, Failed}
<1>1. flash[k] \in [Addr -> Page]
  BY DEF TypeInv, TypeOK, Page
<1>2. SessionChip(k, f) \in [Addr -> Page]
  BY <1>1, ChipType DEF SessionChip
<1>3. ChipAfterBlock(k, f, n) \in [Addr -> Page]
  BY <1>2, ChipType DEF ChipAfterBlock
<1>4. SessionOffset(k, f) \in {FLASH_BITSTREAM_OFFSET(s) : s \in Slots}
  BY TargetType DEF SessionOffset, TypeInv, TypeOK
<1> QED
  BY <1>2, <1>3, <1>4 DEF SessionFpga, TypeInv, TypeOK

\* What a block does to the session, the chips and the buffer keeps the types.
LEMMA TypeProgramBlock == TypeInv /\ ProgramBlock => TypeInv'
<1> SUFFICES ASSUME TypeInv, ProgramBlock PROVE TypeInv'
  OBVIOUS
<1>1. PICK f, k, n : BlockStep(f, k, n)
  BY BlockStepOf DEF TypeInv
<1>2. f \in Files /\ k \in Kinds /\ n \in Nat
  BY <1>1, BlocksInSlot DEF BlockStep, Blocks
<1>3. SessionLeft(k, f) - 1 \in 0..SlotPages
  BY <1>2, SessionLeftType, SizesAssumption
<1>4. flash' \in [Kinds -> [Addr -> Page]]
  BY <1>1, <1>2, SessionTypes DEF BlockStep, TypeInv, TypeOK, Page
<1>5. fpga' \in Files \cup {Blank, Failed} /\ loaded' \in Slots
  <2>1. SessionFpga(k) \in Files \cup {Blank, Failed}
    BY <1>2, SessionTypes
  <2> QED
    BY <1>1, <2>1, LoadType DEF BlockStep, StartupProgramBitstream, TypeInv, TypeOK
<1>6. /\ blocks_left' \in [Kinds -> 0..SlotPages]
      /\ in_progress' \in [Kinds -> BOOLEAN]
      /\ offset' \in [Kinds -> {FLASH_BITSTREAM_OFFSET(s) : s \in Slots}]
  BY <1>1, <1>2, <1>3, SessionTypes DEF BlockStep, TypeInv, TypeOK
<1>7. buf' = None \/ /\ buf' \in Buffers
                     /\ buf'.next <= buf'.last
                     /\ buf'.last \in Blocks(buf'.file)
  BY <1>1, <1>2, BlocksInSlot DEF BlockStep, Blocks
<1>8. BlocksLeftPositive'
  <2> SUFFICES ASSUME NEW j \in Kinds, in_progress'[j] PROVE blocks_left'[j] > 0
    BY DEF BlocksLeftPositive
  <2>1. CASE j = k
    <3>1. blocks_left'[k] = SessionLeft(k, f) - 1 /\ SessionLeft(k, f) - 1 # 0
      BY <1>1, <1>2, <2>1 DEF BlockStep, TypeInv, TypeOK
    <3>2. \A r \in 0..SlotPages : r # 0 => r > 0
      BY SizesAssumption
    <3>3. SessionLeft(k, f) - 1 > 0
      BY <1>3, <3>1, <3>2
    <3> QED
      BY <2>1, <3>1, <3>3
  <2>2. CASE j # k
    <3>1. in_progress[j] /\ blocks_left'[j] = blocks_left[j]
      BY <1>1, <1>2, <2>2 DEF BlockStep, TypeInv, TypeOK
    <3> QED
      BY <3>1 DEF TypeInv, BlocksLeftPositive
  <2> QED
    BY <2>1, <2>2
<1>9. /\ sel' \in Slots /\ active' \subseteq Files /\ copied' \subseteq Files
      /\ left' \in [Files -> SUBSET (0..(SlotPages - 1))] /\ boots' \in Nat
  BY <1>1 DEF BlockStep, TypeInv, TypeOK
<1> QED
  BY <1>4, <1>5, <1>6, <1>7, <1>8, <1>9 DEF TypeInv, TypeOK, Page

\* The steps of the host that hand nothing over keep the types.
LEMMA TypeHost ==
  ASSUME TypeInv,
         \/ \E f \in Files : \/ BeginCopy(f) \/ EndCopy(f) \/ AbortCopy(f)
         \/ \E s \in Slots : FlipSwitch(s)
         \/ RejectBlock
  PROVE  TypeInv'
<1> USE DEF TypeInv, session, host
<1>1. ASSUME NEW f \in Files, BeginCopy(f) PROVE TypeInv'
  <2>1. left' \in [Files -> SUBSET (0..(SlotPages - 1))]
    BY <1>1, BlocksInSlot DEF BeginCopy, TypeOK
  <2> QED
    BY <1>1, <2>1 DEF BeginCopy, TypeOK, BlocksLeftPositive
<1>2. ASSUME NEW f \in Files, EndCopy(f) PROVE TypeInv'
  BY <1>2 DEF EndCopy, TypeOK, BlocksLeftPositive
<1>3. ASSUME NEW f \in Files, AbortCopy(f) PROVE TypeInv'
  BY <1>3 DEF AbortCopy, TypeOK, BlocksLeftPositive
<1>4. ASSUME NEW s \in Slots, FlipSwitch(s) PROVE TypeInv'
  BY <1>4 DEF FlipSwitch, TypeOK, BlocksLeftPositive
<1>5. CASE RejectBlock
  BY <1>5 DEF RejectBlock, TypeOK, BlocksLeftPositive
<1> QED
  BY <1>1, <1>2, <1>3, <1>4, <1>5

\* A cluster ends within its file and not before it begins.
LEMMA ClusterEndType ==
  \A f \in Files : \A n \in Blocks(f) :
    ClusterEnd(f, n) \in Blocks(f) /\ n <= ClusterEnd(f, n)
  BY SizesAssumption, BlocksInSlot DEF ClusterEnd, Blocks

\* So does handing over a cluster.
LEMMA TypeHandOver ==
  ASSUME TypeInv, NEW f \in Files, NEW n \in Blocks(f),
         SendCluster(f, n) \/ ResendCluster(f, n)
  PROVE  TypeInv'
<1>1. HandOver(f, n) /\ left' \in [Files -> SUBSET (0..(SlotPages - 1))]
  BY DEF SendCluster, ResendCluster, TypeInv, TypeOK
<1>2. /\ buf' \in Buffers /\ buf'.next <= buf'.last
      /\ buf'.last \in Blocks(buf'.file)
  <2>1. buf' = [file |-> f, next |-> n, last |-> ClusterEnd(f, n)]
    BY <1>1 DEF HandOver
  <2>2. n \in Nat /\ ClusterEnd(f, n) \in Nat
    BY ClusterEndType, BlocksInSlot DEF Blocks
  <2> QED
    BY <2>1, <2>2, ClusterEndType DEF Buffers
<1> QED
  BY <1>1, <1>2 DEF HandOver, session, TypeInv, TypeOK, BlocksLeftPositive

\* And so does a power cycle, whatever it leaves of the chips.
LEMMA TypePowerCycle == TypeInv /\ PowerCycle => TypeInv'
<1> SUFFICES ASSUME TypeInv, PowerCycle PROVE TypeInv'
  OBVIOUS
<1>1. flash' \in [Kinds -> [Addr -> Page]]
  <2>1. CASE UNCHANGED flash
    BY <2>1 DEF TypeInv, TypeOK, Page
  <2>2. ASSUME buf # None, NEW k \in Kinds, k = KindOf(buf.file),
               NEW c \in CutChips(k), flash' = [flash EXCEPT ![k] = c]
        PROVE  flash' \in [Kinds -> [Addr -> Page]]
    <3>1. buf.file \in Files /\ buf.next \in Nat /\ flash[k] \in [Addr -> Page]
      BY <2>2 DEF TypeInv, TypeOK, Buffers, Page
    <3>2. c \in [Addr -> Page]
      <4>1. \/ c = SessionChip(k, buf.file)
            \/ c = TornPage(SessionChip(k, buf.file), SessionOffset(k, buf.file) + buf.next)
            \/ c = ChipAfterBlock(k, buf.file, buf.next)
            \/ c \in PartErases(flash[k], TargetOffset(buf.file), NumBlocks[buf.file])
        BY <2>2 DEF CutChips
      <4>2. /\ SessionChip(k, buf.file) \in [Addr -> Page]
            /\ ChipAfterBlock(k, buf.file, buf.next) \in [Addr -> Page]
        BY <2>2, <3>1, SessionTypes
      <4> QED
        BY <3>1, <4>1, <4>2, ChipType, PartErasesType
    <3> QED
      BY <2>2, <3>2 DEF TypeInv, TypeOK, Page
  <2> QED
    BY <2>1, <2>2 DEF PowerCycle
<1>2. fpga' \in Files \cup {Blank, Failed} /\ loaded' \in Slots
  BY LoadType DEF PowerCycle, StartupProgramBitstream, TypeInv, TypeOK
<1>3. offset' \in [Kinds -> {FLASH_BITSTREAM_OFFSET(s) : s \in Slots}]
  <2>1. FLASH_BITSTREAM_OFFSET(0) = 0 /\ 0 \in Slots
    BY DEF FLASH_BITSTREAM_OFFSET, Slots
  <2> QED
    BY <2>1 DEF PowerCycle
<1>4. /\ blocks_left' \in [Kinds -> 0..SlotPages]
      /\ in_progress' \in [Kinds -> BOOLEAN]
      /\ left' \in [Files -> SUBSET (0..(SlotPages - 1))]
  BY SizesAssumption DEF PowerCycle
<1>5. BlocksLeftPositive'
  BY DEF PowerCycle, BlocksLeftPositive
<1> QED
  BY <1>1, <1>2, <1>3, <1>4, <1>5 DEF PowerCycle, TypeInv, TypeOK, Page

\* TypeInv is inductive.
LEMMA TypeNext == TypeInv /\ [Next]_vars => TypeInv'
<1> SUFFICES ASSUME TypeInv, [Next]_vars PROVE TypeInv'
  OBVIOUS
<1>1. CASE ProgramBlock
  BY <1>1, TypeProgramBlock
<1>2. ASSUME NEW f \in Files, Send(f) \/ \E n \in Blocks(f) : ResendCluster(f, n)
      PROVE  TypeInv'
  BY <1>2, TypeHandOver DEF Send
<1>3. CASE PowerCycle
  BY <1>3, TypePowerCycle
<1>4. CASE UNCHANGED vars
  BY <1>4 DEF vars, session, host, TypeInv, TypeOK, BlocksLeftPositive
<1> QED
  BY <1>1, <1>2, <1>3, <1>4, TypeHost DEF Next

\* For any host, every variable stays within its type: the count of a session
\* within the slot, the buffer within its file.
THEOREM TypeCorrect == Spec => []TypeOK
<1>1. TypeInv => TypeOK
  BY DEF TypeInv
<1> QED
  BY TypeInit, TypeNext, <1>1, PTL DEF Spec

\* The count of an open session is positive, for any host: blocks_left-- never
\* wraps around.
THEOREM CountsPositive == Spec => []BlocksLeftPositive
<1>1. TypeInv => BlocksLeftPositive
  BY DEF TypeInv
<1> QED
  BY TypeInit, TypeNext, <1>1, PTL DEF Spec

-----------------------------------------------------------------------------
(* The FPGA runs the image of the slot it was loaded from, for any host.   *)

\* Loading from a slot with the first block of f runs f, or fails if the rest of
\* f is not there.
LEMMA LoadRuns ==
  ASSUME NEW c, NEW s, NEW f \in Files, c[FLASH_BITSTREAM_OFFSET(s)] = <<f, 0>>,
         NEW before, NEW x \in LoadOutcomes(c, s, before)
  PROVE  x = IF StoredAt(c, FLASH_BITSTREAM_OFFSET(s), f) THEN f ELSE Failed
<1> DEFINE base == FLASH_BITSTREAM_OFFSET(s)
           headers == {g \in Files : c[base] = <<g, 0>>}
<1>1. c[base] # Mixed
  BY ValuesAssumption DEF Pages
<1>2. headers = {f}
  OBVIOUS
<1>3. x \in {IF StoredAt(c, base, g) THEN g ELSE Failed : g \in headers}
  BY <1>1, <1>2 DEF LoadOutcomes
<1> QED
  BY <1>2, <1>3

\* After the FPGA has been loaded it runs the selected image.
LEMMA StartupRuns ==
  ASSUME NEW before, StartupProgramBitstream(flash'["bitstream"], before)
  PROVE  FpgaRunsSelected'
<1> SUFFICES ASSUME NEW f \in Files,
                    flash'["bitstream"][FLASH_BITSTREAM_OFFSET(loaded')] = <<f, 0>>
             PROVE  fpga' = IF StoredAt(flash'["bitstream"],
                                        FLASH_BITSTREAM_OFFSET(loaded'), f)
                              THEN f ELSE Failed
  BY DEF FpgaRunsSelected, StoredAt
<1>1. loaded' = sel /\ fpga' \in LoadOutcomes(flash'["bitstream"], loaded', before)
  BY DEF StartupProgramBitstream
<1> QED
  BY <1>1, LoadRuns

\* No step breaks FpgaRunsSelected.
LEMMA RunsNext == TypeInv /\ FpgaRunsSelected /\ [Next]_vars => FpgaRunsSelected'
<1> SUFFICES ASSUME TypeInv, FpgaRunsSelected, [Next]_vars PROVE FpgaRunsSelected'
  OBVIOUS
<1>1. CASE ProgramBlock
  <2>1. PICK f, k, n : BlockStep(f, k, n)
    BY <1>1, BlockStepOf DEF TypeInv
  <2>2. CASE SessionLeft(k, f) - 1 = 0
    BY <2>1, <2>2, StartupRuns DEF BlockStep
  <2>3. CASE SessionLeft(k, f) - 1 # 0
    <3>1. k \in Kinds /\ in_progress'[k]
      BY <2>1, <2>3 DEF BlockStep, TypeInv, TypeOK
    <3> QED
      BY <3>1 DEF FpgaRunsSelected
  <2> QED
    BY <2>2, <2>3
<1>2. CASE PowerCycle
  BY <1>2, StartupRuns DEF PowerCycle
<1>3. ASSUME UNCHANGED <<in_progress, flash, fpga, loaded>>
      PROVE  FpgaRunsSelected'
  BY <1>3 DEF FpgaRunsSelected, StoredAt
<1>4. ASSUME NEW f \in Files, Send(f) \/ \E n \in Blocks(f) : ResendCluster(f, n)
      PROVE  UNCHANGED <<in_progress, flash, fpga, loaded>>
  BY <1>4 DEF Send, SendCluster, ResendCluster, HandOver, session
<1>5. ASSUME NEW f \in Files, BeginCopy(f) \/ EndCopy(f) \/ AbortCopy(f)
      PROVE  UNCHANGED <<in_progress, flash, fpga, loaded>>
  BY <1>5 DEF BeginCopy, EndCopy, AbortCopy, session
<1>6. ASSUME RejectBlock \/ (\E s \in Slots : FlipSwitch(s)) \/ UNCHANGED vars
      PROVE  UNCHANGED <<in_progress, flash, fpga, loaded>>
  BY <1>6 DEF RejectBlock, FlipSwitch, vars, session
<1> QED
  BY <1>1, <1>2, <1>3, <1>4, <1>5, <1>6 DEF Next

\* When no session is open, the FPGA runs the image of the slot it was loaded
\* from, or failed to load an image that is not whole, whatever the host does.
THEOREM RunsSelected == Spec => []FpgaRunsSelected
<1>1. Init => FpgaRunsSelected
  <2> SUFFICES ASSUME Init, NEW f \in Files,
                      flash["bitstream"][FLASH_BITSTREAM_OFFSET(loaded)] = <<f, 0>>
               PROVE  FALSE
    BY DEF FpgaRunsSelected
  <2>1. FLASH_BITSTREAM_OFFSET(loaded) + 0 \in Addr
    BY OffsetType, SizesAssumption DEF Init
  <2>2. FLASH_BITSTREAM_OFFSET(loaded) \in Addr
    BY <2>1, OffsetType DEF Init
  <2>3. <<f, 0>> = Erased
    BY <2>2 DEF Init, Kinds
  <2> QED
    BY <2>3, ValuesAssumption DEF Pages
<1> QED
  BY <1>1, TypeInit, TypeNext, RunsNext, PTL DEF Spec

-----------------------------------------------------------------------------
(* Which pages an erase, a block or a power cut may change.                *)

\* A remainder by the erase block size is no larger than its dividend.
LEMMA Remainder == \A x \in Nat : x % ErasePages \in Nat /\ x - (x % ErasePages) <= x
  BY SizesAssumption

\* Chips c and d agree outside slot s.
SameOutside(c, d, s) == \A a \in Addr : d[a] # c[a] => a \in SlotRange(s)

\* The erases reach every page of the file ...
LEMMA EraseCovers ==
  ASSUME NEW c, NEW f \in Files, NEW m \in Blocks(f)
  PROVE  EraseLoop(c, TargetOffset(f), NumBlocks[f])[TargetOffset(f) + m] = Erased
<1>1. /\ m \in Nat /\ m < NumBlocks[f] /\ NumBlocks[f] \in Nat
      /\ TargetOffset(f) \in Nat /\ TargetOffset(f) + m \in Addr
  BY BlocksInSlot, TargetType DEF Blocks
<1>2. m - (m % ErasePages) < NumBlocks[f]
  BY <1>1, Remainder
<1>3. /\ TargetOffset(f) + m >= TargetOffset(f)
      /\ (TargetOffset(f) + m) - TargetOffset(f) = m
  BY <1>1
<1> QED
  BY <1>1, <1>2, <1>3 DEF EraseLoop

\* ... and no page of another slot.
LEMMA InSlotOf ==
  ASSUME NEW f \in Files, NEW a \in Addr, a >= TargetOffset(f),
         (a - TargetOffset(f)) - ((a - TargetOffset(f)) % ErasePages) < NumBlocks[f]
  PROVE  a \in SlotRange(Slot(f))
<1>1. TargetOffset(f) \in Nat /\ a \in Nat
  BY TargetType, SizesAssumption DEF Addr
<1>2. a - TargetOffset(f) \in Addr
  BY <1>1, SizesAssumption DEF Addr
<1>3. a - TargetOffset(f) < SlotPages
  BY <1>2, ErasureAssumption
<1> QED
  BY <1>1, <1>3, SizesAssumption DEF SlotRange, TargetOffset

\* An erase for a file changes pages of its slot only.
LEMMA EraseConfined ==
  ASSUME NEW c \in [Addr -> Page], NEW f \in Files, NEW n \in 0..NumBlocks[f]
  PROVE  SameOutside(c, EraseLoop(c, TargetOffset(f), n), Slot(f))
<1> SUFFICES ASSUME NEW a \in Addr,
                    EraseLoop(c, TargetOffset(f), n)[a] # c[a]
             PROVE  a \in SlotRange(Slot(f))
  BY DEF SameOutside
<1> DEFINE x == a - TargetOffset(f)
<1>1. a >= TargetOffset(f) /\ x - (x % ErasePages) < n
  BY DEF EraseLoop
<1>2. TargetOffset(f) \in Nat /\ a \in Nat /\ n \in Nat /\ NumBlocks[f] \in Nat /\ n <= NumBlocks[f]
  BY TargetType, BlocksInSlot, SizesAssumption DEF Addr
<1>3. x \in Nat
  BY <1>1, <1>2
<1>4. x % ErasePages \in Nat
  BY <1>3, Remainder
<1>5. x - (x % ErasePages) < NumBlocks[f]
  BY <1>1, <1>2, <1>3, <1>4
<1> QED
  BY <1>1, <1>5, InSlotOf

\* So does an erase that power cuts short.
LEMMA PartErasesConfined ==
  ASSUME NEW c \in [Addr -> Page], NEW f \in Files,
         NEW d \in PartErases(c, TargetOffset(f), NumBlocks[f])
  PROVE  SameOutside(c, d, Slot(f))
<1>1. PICK m \in 0..(NumBlocks[f] - 1) :
        \/ d = EraseLoop(c, TargetOffset(f), m)
        \/ d = [a \in Addr |->
                  IF a >= TargetOffset(f) /\
                     (a - TargetOffset(f)) - ((a - TargetOffset(f)) % ErasePages) = m
                    THEN Mixed ELSE EraseLoop(c, TargetOffset(f), m)[a]]
  BY DEF PartErases
<1>2. m \in 0..NumBlocks[f] /\ m < NumBlocks[f]
  BY BlocksInSlot
<1>3. SameOutside(c, EraseLoop(c, TargetOffset(f), m), Slot(f))
  BY <1>2, EraseConfined
<1> SUFFICES ASSUME NEW a \in Addr, d[a] # c[a] PROVE a \in SlotRange(Slot(f))
  BY DEF SameOutside
<1>4. \/ EraseLoop(c, TargetOffset(f), m)[a] # c[a]
      \/ /\ a >= TargetOffset(f)
         /\ (a - TargetOffset(f)) - ((a - TargetOffset(f)) % ErasePages) = m
  BY <1>1
<1> QED
  BY <1>2, <1>3, <1>4, InSlotOf DEF SameOutside

\* A file in another slot of the same chip stays where it is.
LEMMA StoredKept ==
  ASSUME NEW c, NEW d, NEW f \in Files, NEW s \in Slots, s # Slot(f),
         SameOutside(c, d, s), Stored(c, f)
  PROVE  Stored(d, f)
<1> SUFFICES ASSUME NEW n \in Blocks(f)
             PROVE  d[TargetOffset(f) + n] = <<f, n>>
  BY DEF Stored, StoredAt
<1>1. n \in 0..(SlotPages - 1) /\ TargetOffset(f) + n \in Addr
  BY BlocksInSlot, TargetType
<1>2. TargetOffset(f) + n \notin SlotRange(s)
  <2> SUFFICES ASSUME TargetOffset(f) + n \in SlotRange(s) PROVE FALSE
    OBVIOUS
  <2>1. PICK m \in 0..(SlotPages - 1) :
          FLASH_BITSTREAM_OFFSET(s) + m = FLASH_BITSTREAM_OFFSET(Slot(f)) + n
    <3>1. /\ FLASH_BITSTREAM_OFFSET(s) \in Nat /\ FLASH_BITSTREAM_OFFSET(Slot(f)) \in Nat
          /\ n \in Nat
      BY <1>1, OffsetType, SlotType
    <3> DEFINE m == FLASH_BITSTREAM_OFFSET(Slot(f)) + n - FLASH_BITSTREAM_OFFSET(s)
    <3>2. m \in 0..(SlotPages - 1)
      BY <3>1, SizesAssumption DEF SlotRange, TargetOffset
    <3> QED
      BY <3>1, <3>2
  <2> QED
    BY <1>1, <2>1, SlotsDisjoint, SlotType
<1> QED
  BY <1>1, <1>2 DEF SameOutside, Stored, StoredAt

-----------------------------------------------------------------------------
(* A block of a careful copy.                                              *)

\* A file has as many blocks as its header says.
LEMMA BlocksCardinality ==
  \A f \in Files : IsFiniteSet(Blocks(f)) /\ Cardinality(Blocks(f)) = NumBlocks[f]
<1> SUFFICES ASSUME NEW f \in Files
             PROVE  IsFiniteSet(Blocks(f)) /\ Cardinality(Blocks(f)) = NumBlocks[f]
  OBVIOUS
<1> DEFINE last == NumBlocks[f] - 1
<1>1. last \in Nat /\ NumBlocks[f] = last - 0 + 1 /\ Blocks(f) = 0..last
  BY BlocksInSlot DEF Blocks
<1>2. 0 \in Int /\ last \in Int /\ ~ (0 > last)
  BY <1>1
<1> HIDE DEF last
<1>3. IsFiniteSet(0..last) /\ Cardinality(0..last) = last - 0 + 1
  BY <1>2, FS_Interval
<1> QED
  BY <1>1, <1>3

\* The pending blocks of a copy are a finite set of its blocks.
LEMMA PendingType ==
  ASSUME TypeOK, BufferOfCopy, NEW f \in Files
  PROVE  /\ Pending(f) \subseteq Blocks(f)
         /\ IsFiniteSet(Pending(f))
         /\ Cardinality(Pending(f)) \in Nat
<1>1. Pending(f) \subseteq Blocks(f)
  <2>1. left[f] \subseteq Blocks(f)
    BY DEF BufferOfCopy
  <2>2. buf # None /\ buf.file = f => buf.next..buf.last \subseteq Blocks(f)
    <3> HAVE buf # None /\ buf.file = f
    <3>1. buf.next \in Nat /\ buf.last \in Blocks(f)
      BY DEF TypeOK, Buffers
    <3> QED
      BY <3>1, BlocksInSlot DEF Blocks
  <2> QED
    BY <2>1, <2>2 DEF Pending
<1>2. IsFiniteSet(Pending(f))
  BY <1>1, BlocksCardinality, FS_Subset
<1> QED
  BY <1>1, <1>2, FS_CardinalityType

\* What the device knows of the copy whose block it is about to handle.
LEMMA SessionKnown ==
  ASSUME CarefulInv, NEW f \in Files, buf # None, buf.file = f,
         NEW k \in Kinds, k = KindOf(f)
  PROVE  /\ f \in active
         /\ buf.next \in Pending(f)
         /\ SessionOffset(k, f) = TargetOffset(f)
         /\ SessionLeft(k, f) = Cardinality(Pending(f))
         /\ \A m \in Blocks(f) : SessionChip(k, f)[TargetOffset(f) + m]
                                  = IF m \in Pending(f) THEN Erased ELSE <<f, m>>
<1> USE DEF CarefulInv
<1>1. f \in active
  BY DEF BufferOfCopy
<1>2. buf.next \in Pending(f)
  <2>1. buf.next \in Nat /\ buf.last \in Nat /\ buf.next <= buf.last
    BY DEF TypeOK, Buffers
  <2>2. buf.next \in buf.next..buf.last
    BY <2>1
  <2> QED
    BY <2>2 DEF Pending
<1>3. CASE in_progress[k]
  <2>1. PICK g \in active : SessionOf(k, g)
    BY <1>3 DEF SessionsExact
  <2>2. g = f
    BY <1>1, <2>1 DEF OneCopyPerKind, SessionOf
  <2>3. SessionOf(k, f)
    BY <2>1, <2>2
  <2> QED
    BY <1>1, <1>2, <1>3, <2>3
       DEF SessionOf, SessionOffset, SessionLeft, SessionChip
<1>4. CASE ~ in_progress[k]
  <2>1. Pending(f) = Blocks(f)
    BY <1>1, <1>2, <1>4 DEF CopiesExact
  <2>2. SessionLeft(k, f) = NumBlocks[f] /\ SessionOffset(k, f) = TargetOffset(f)
    BY <1>4 DEF SessionLeft, SessionOffset
  <2>3. SessionChip(k, f) = EraseLoop(flash[k], TargetOffset(f), NumBlocks[f])
    BY <1>4 DEF SessionChip
  <2>4. \A m \in Blocks(f) : SessionChip(k, f)[TargetOffset(f) + m] = Erased
    <3> SUFFICES ASSUME NEW m \in Blocks(f)
                 PROVE  SessionChip(k, f)[TargetOffset(f) + m] = Erased
      OBVIOUS
    <3>1. EraseLoop(flash[k], TargetOffset(f), NumBlocks[f])[TargetOffset(f) + m] = Erased
      BY EraseCovers
    <3> QED
      BY <2>3, <3>1
  <2> QED
    BY <1>1, <1>2, <2>1, <2>2, <2>4, BlocksCardinality
<1> QED
  BY <1>3, <1>4

\* Before and after the block the chip differs in the slot of the file only.
LEMMA BlockConfined ==
  ASSUME CarefulInv, NEW f \in Files, buf # None, buf.file = f,
         NEW k \in Kinds, k = KindOf(f)
  PROVE  /\ SameOutside(flash[k], SessionChip(k, f), Slot(f))
         /\ SameOutside(flash[k], ChipAfterBlock(k, f, buf.next), Slot(f))
         /\ SameOutside(flash[k], TornPage(SessionChip(k, f),
                                           SessionOffset(k, f) + buf.next), Slot(f))
<1>1. flash[k] \in [Addr -> Page] /\ NumBlocks[f] \in 0..NumBlocks[f]
  BY BlocksInSlot DEF CarefulInv, TypeOK, Page
<1>2. SameOutside(flash[k], SessionChip(k, f), Slot(f))
  <2>1. CASE in_progress[k]
    BY <2>1 DEF SessionChip, SameOutside
  <2>2. CASE ~ in_progress[k]
    BY <1>1, <2>2, EraseConfined DEF SessionChip
  <2> QED
    BY <2>1, <2>2
<1>3. SessionOffset(k, f) + buf.next \in SlotRange(Slot(f))
  <2>1. SessionOffset(k, f) = TargetOffset(f) /\ buf.next \in Pending(f)
    BY SessionKnown
  <2>2. buf.next \in 0..(SlotPages - 1)
    BY <2>1, PendingType, BlocksInSlot DEF CarefulInv
  <2>3. TargetOffset(f) \in Nat
    BY TargetType
  <2> QED
    BY <2>1, <2>2, <2>3, SizesAssumption DEF SlotRange, TargetOffset
<1>4. SessionChip(k, f) \in [Addr -> Page]
  BY SessionTypes DEF CarefulInv, TypeInv
<1> QED
  BY <1>2, <1>3, <1>4 DEF SameOutside, ChipAfterBlock, ProgramPage, TornPage

\* The block fills its own erased page and becomes one pending block less.
LEMMA BlockFills ==
  ASSUME CarefulInv, NEW f \in Files, NEW k \in Kinds, NEW n, BlockStep(f, k, n)
  PROVE  /\ Pending(f)' = Pending(f) \ {n}
         /\ \A g \in Files : g # f => Pending(g)' = Pending(g)
         /\ SessionLeft(k, f) - 1 = Cardinality(Pending(f)')
         /\ offset'[k] = TargetOffset(f)
         /\ \A m \in Blocks(f) : flash'[k][TargetOffset(f) + m]
                                  = IF m \in Pending(f)' THEN Erased ELSE <<f, m>>
         /\ BufferOfCopy'
<1>1. /\ buf # None /\ buf.file = f /\ buf.next = n /\ k = KindOf(f)
      /\ n \in Nat /\ buf.last \in Nat /\ n <= buf.last
      /\ n \in 0..(SlotPages - 1) /\ n \in Blocks(f)
  BY BlocksInSlot DEF BlockStep, Blocks
<1>2. /\ f \in active /\ n \in Pending(f)
      /\ SessionOffset(k, f) = TargetOffset(f)
      /\ SessionLeft(k, f) = Cardinality(Pending(f))
      /\ \A m \in Blocks(f) : SessionChip(k, f)[TargetOffset(f) + m]
                               = IF m \in Pending(f) THEN Erased ELSE <<f, m>>
  BY <1>1, SessionKnown
<1>3. (n..buf.last) \cap left[f] = {}
  BY <1>1 DEF CarefulInv, BufferOfCopy
<1>4. left' = left
  BY DEF BlockStep
<1>5. Pending(f)' = Pending(f) \ {n} /\ BufferOfCopy'
  <2>1. CASE n = buf.last
    <3>1. buf' = None /\ n..buf.last = {n}
      BY <1>1, <2>1 DEF BlockStep
    <3> QED
      BY <1>1, <1>3, <1>4, <3>1 DEF Pending, CarefulInv, BufferOfCopy
  <2>2. CASE n # buf.last
    <3>1. /\ buf' # None /\ buf'.file = f
          /\ buf'.next = n + 1 /\ buf'.last = buf.last
      BY <1>1, <2>2, ValuesAssumption DEF BlockStep
    <3>2. n..buf.last = {n} \cup (n + 1)..buf.last /\ n \notin (n + 1)..buf.last
      BY <1>1
    <3>3. Pending(f)' = Pending(f) \ {n}
      BY <1>1, <1>3, <1>4, <3>1, <3>2 DEF Pending
    <3>4. active' = active
      BY DEF BlockStep
    <3> QED
      BY <1>2, <1>3, <1>4, <3>1, <3>2, <3>3, <3>4 DEF CarefulInv, BufferOfCopy
  <2> QED
    BY <2>1, <2>2
<1>6. \A g \in Files : g # f => Pending(g)' = Pending(g)
  BY <1>1, <1>4 DEF BlockStep, Pending
<1>7. SessionLeft(k, f) - 1 = Cardinality(Pending(f)')
  <2>1. IsFiniteSet(Pending(f))
    BY PendingType DEF CarefulInv
  <2> QED
    BY <1>2, <1>5, <2>1, FS_RemoveElement
<1>8. offset'[k] = TargetOffset(f)
  BY <1>2 DEF BlockStep, CarefulInv, TypeOK
<1>9. ASSUME NEW m \in Blocks(f)
      PROVE  flash'[k][TargetOffset(f) + m]
               = IF m \in Pending(f)' THEN Erased ELSE <<f, m>>
  <2>1. flash'[k] = ProgramPage(SessionChip(k, f), TargetOffset(f) + n, <<f, n>>)
    BY <1>2 DEF BlockStep, ChipAfterBlock, CarefulInv, TypeOK
  <2>2. /\ TargetOffset(f) \in Nat /\ m \in Nat
        /\ TargetOffset(f) + m \in Addr
    BY TargetType, BlocksInSlot
  <2>3. SessionChip(k, f) \in [Addr -> Page]
    BY SessionTypes DEF CarefulInv, TypeInv
  <2>4. CASE m = n
    <3>1. SessionChip(k, f)[TargetOffset(f) + n] = Erased
      BY <1>1, <1>2
    <3> QED
      BY <1>5, <2>1, <2>2, <2>3, <2>4, <3>1 DEF ProgramPage
  <2>5. CASE m # n
    <3>1. TargetOffset(f) + m # TargetOffset(f) + n
      BY <1>1, <2>2, <2>5
    <3>2. flash'[k][TargetOffset(f) + m] = SessionChip(k, f)[TargetOffset(f) + m]
      BY <2>1, <2>2, <2>3, <3>1 DEF ProgramPage
    <3> QED
      BY <1>2, <1>5, <2>5, <3>2
  <2> QED
    BY <2>4, <2>5
<1> QED
  BY <1>5, <1>6, <1>7, <1>8, <1>9

-----------------------------------------------------------------------------
(* The invariant of careful copies, action by action.                      *)

\* What the session, the copies and the images say depends on the pending
\* blocks and the device only.
LEMMA SessionOfKept ==
  ASSUME NEW k, NEW f, SessionOf(k, f), Pending(f)' = Pending(f),
         offset'[k] = offset[k], blocks_left'[k] = blocks_left[k],
         flash'[k] = flash[k]
  PROVE  SessionOf(k, f)'
  BY DEF SessionOf, TargetOffset

\* CarefulInv is inductive, with one lemma for every action: a block is programmed.
LEMMA CarefulProgramBlock == CarefulInv /\ ProgramBlock => CarefulInv'
<1> SUFFICES ASSUME CarefulInv, ProgramBlock PROVE CarefulInv'
  OBVIOUS
<1>1. PICK f, k, n : BlockStep(f, k, n)
  BY BlockStepOf DEF CarefulInv
<1>2. /\ f \in Files /\ k \in Kinds /\ k = KindOf(f)
      /\ buf # None /\ buf.file = f /\ buf.next = n
      /\ active' = active /\ copied' = copied
  BY <1>1 DEF BlockStep
<1>3. TypeOK' /\ BlocksLeftPositive'
  BY TypeProgramBlock DEF CarefulInv, TypeInv
<1>4. f \in active
  BY <1>2, SessionKnown
<1>5. /\ \A g \in Files : g # f => Pending(g)' = Pending(g)
      /\ SessionLeft(k, f) - 1 = Cardinality(Pending(f)')
      /\ offset'[k] = TargetOffset(f)
      /\ \A m \in Blocks(f) : flash'[k][TargetOffset(f) + m]
                               = IF m \in Pending(f)' THEN Erased ELSE <<f, m>>
      /\ BufferOfCopy'
  BY <1>1, <1>2, BlockFills
<1>6. /\ in_progress'[k] = (SessionLeft(k, f) - 1 # 0)
      /\ blocks_left'[k] = SessionLeft(k, f) - 1
      /\ flash'[k] = ChipAfterBlock(k, f, n)
      /\ \A j \in Kinds : j # k => /\ in_progress'[j] = in_progress[j]
                                   /\ blocks_left'[j] = blocks_left[j]
                                   /\ offset'[j] = offset[j]
                                   /\ flash'[j] = flash[j]
  BY <1>1, <1>2 DEF BlockStep, CarefulInv, TypeOK
<1>7. OneCopyPerKind'
  BY <1>2 DEF CarefulInv, OneCopyPerKind, KindOf
<1>8. SessionsExact'
  <2> SUFFICES ASSUME NEW j \in Kinds, in_progress'[j]
               PROVE  \E g \in active : SessionOf(j, g)'
    BY <1>2 DEF SessionsExact
  <2>1. CASE j = k
    <3>1. SessionOf(k, f)'
      BY <1>2, <1>5, <1>6 DEF SessionOf, TargetOffset
    <3> QED
      BY <1>4, <2>1, <3>1
  <2>2. CASE j # k
    <3>1. in_progress[j]
      BY <1>6, <2>2
    <3>2. PICK g \in active : SessionOf(j, g)
      BY <3>1 DEF CarefulInv, SessionsExact
    <3>3. g # f /\ g \in Files
      BY <1>2, <2>2, <3>2 DEF SessionOf, CarefulInv, TypeOK
    <3>4. SessionOf(j, g)'
      BY <1>5, <1>6, <2>2, <3>2, <3>3, SessionOfKept
    <3> QED
      BY <3>4
  <2> QED
    BY <2>1, <2>2
<1>9. CopiesExact'
  <2> SUFFICES ASSUME NEW g \in active, KindOf(g) \in Kinds, ~ in_progress'[KindOf(g)]
               PROVE  \/ Pending(g)' = Blocks(g)
                      \/ Pending(g)' = {} /\ Stored(flash'[KindOf(g)], g)
    BY <1>2 DEF CopiesExact, Stored, StoredAt
  <2>1. CASE KindOf(g) = k
    <3>1. g = f
      BY <1>2, <1>4, <2>1 DEF CarefulInv, OneCopyPerKind
    <3>2. Cardinality(Pending(f)') = 0
      BY <1>5, <1>6, <2>1
    <3>3. Pending(f)' = {}
      <4>1. IsFiniteSet(Pending(f)) /\ Pending(f)' \subseteq Pending(f)
        BY <1>1, <1>2, BlockFills, PendingType DEF CarefulInv
      <4>2. IsFiniteSet(Pending(f)')
        BY <4>1, FS_Subset
      <4> QED
        BY <3>2, <4>2, FS_EmptySet
    <3>4. Stored(flash'[k], f)
      BY <1>5, <3>3 DEF Stored, StoredAt
    <3> QED
      BY <2>1, <3>1, <3>3, <3>4
  <2>2. CASE KindOf(g) # k
    <3>1. g \in Files /\ g # f
      BY <1>2, <2>2 DEF CarefulInv, TypeOK
    <3>2. /\ Pending(g)' = Pending(g) /\ flash'[KindOf(g)] = flash[KindOf(g)]
          /\ ~ in_progress[KindOf(g)]
      BY <1>5, <1>6, <2>2, <3>1
    <3> QED
      BY <3>2 DEF CarefulInv, CopiesExact
  <2> QED
    BY <2>1, <2>2
<1>10. CopiedSafe'
  BY <1>2 DEF CarefulInv, CopiedSafe, SameDestination, KindOf, Slot
<1>11. WholeImage'
  <2> SUFFICES ASSUME NEW g \in copied, KindOf(g) \in Kinds
               PROVE  Stored(flash'[KindOf(g)], g)
    BY <1>2 DEF WholeImage, Stored, StoredAt
  <2>1. Stored(flash[KindOf(g)], g) /\ g \in Files
    BY DEF CarefulInv, WholeImage, TypeOK
  <2>2. CASE KindOf(g) = k
    <3>1. Slot(g) # Slot(f)
      BY <1>2, <1>4, <2>2 DEF CarefulInv, CopiedSafe, SameDestination
    <3>2. SameOutside(flash[k], flash'[k], Slot(f))
      BY <1>2, <1>6, BlockConfined
    <3> QED
      BY <1>2, <2>1, <2>2, <3>1, <3>2, SlotType, StoredKept
  <2>3. CASE KindOf(g) # k
    BY <1>6, <2>1, <2>3
  <2> QED
    BY <2>2, <2>3
<1> QED
  BY <1>3, <1>5, <1>7, <1>8, <1>9, <1>10, <1>11 DEF CarefulInv

\* The steps of the host that keep the device as it is: what is left to show
\* is that the pending blocks of every known copy stay in step with it.
LEMMA CarefulHostStep ==
  ASSUME CarefulInv, TypeOK', OneCopyPerKind', BufferOfCopy', CopiedSafe',
         UNCHANGED <<in_progress, blocks_left, offset, flash>>,
         \A g \in active \cap active' :
           KindOf(g) \in Kinds => Pending(g)' = Pending(g),
         \A g \in active \ active' : Pending(g) = {} \/ KindOf(g) \notin Kinds,
         \A g \in active' \ active : Pending(g)' = Blocks(g),
         \A g \in copied' \ copied :
           KindOf(g) \in Kinds => Stored(flash[KindOf(g)], g)
  PROVE  CarefulInv'
<1>1. BlocksLeftPositive'
  BY DEF CarefulInv, BlocksLeftPositive
<1>2. SessionsExact'
  <2> SUFFICES ASSUME NEW k \in Kinds, in_progress[k]
               PROVE  \E g \in active' : SessionOf(k, g)'
    BY DEF SessionsExact
  <2>1. PICK g \in active : SessionOf(k, g)
    BY DEF CarefulInv, SessionsExact
  <2>2. KindOf(g) = k /\ blocks_left[k] = Cardinality(Pending(g)) /\ blocks_left[k] > 0
    BY <2>1 DEF SessionOf, CarefulInv, BlocksLeftPositive
  <2>3. Pending(g) # {}
    BY <2>2, FS_EmptySet
  <2>4. g \in active'
    BY <2>2, <2>3
  <2>5. SessionOf(k, g)'
    BY <2>1, <2>2, <2>4, SessionOfKept
  <2> QED
    BY <2>4, <2>5
<1>3. CopiesExact'
  <2> SUFFICES ASSUME NEW g \in active', KindOf(g) \in Kinds, ~ in_progress[KindOf(g)]
               PROVE  \/ Pending(g)' = Blocks(g)
                      \/ Pending(g)' = {} /\ Stored(flash[KindOf(g)], g)
    BY DEF CopiesExact, Stored, StoredAt
  <2>1. CASE g \in active
    BY <2>1 DEF CarefulInv, CopiesExact
  <2> QED
    BY <2>1
<1>4. WholeImage'
  BY DEF CarefulInv, WholeImage, Stored, StoredAt
<1> QED
  BY <1>1, <1>2, <1>3, <1>4 DEF CarefulInv

\* A block of an unknown family leaves CarefulInv as it is.
LEMMA CarefulRejectBlock == CarefulInv /\ RejectBlock => CarefulInv'
<1> SUFFICES ASSUME CarefulInv, RejectBlock PROVE CarefulInv'
  OBVIOUS
<1>1. TypeOK'
  BY TypeHost DEF CarefulInv, TypeInv
<1>2. buf' = None /\ buf # None /\ KindOf(buf.file) = "unknown"
      /\ UNCHANGED <<in_progress, blocks_left, offset, flash, active, left, copied>>
  BY DEF RejectBlock, session, host
<1>3. OneCopyPerKind' /\ BufferOfCopy' /\ CopiedSafe'
  BY <1>2 DEF CarefulInv, OneCopyPerKind, BufferOfCopy, CopiedSafe, SameDestination,
              KindOf, Slot
<1>4. \A g \in active : KindOf(g) \in Kinds => Pending(g)' = Pending(g)
  <2> SUFFICES ASSUME NEW g \in active, KindOf(g) \in Kinds PROVE Pending(g)' = Pending(g)
    OBVIOUS
  <2>1. buf.file # g
    BY <1>2 DEF Kinds
  <2> QED
    BY <1>2, <2>1 DEF Pending
<1> QED
  BY <1>1, <1>2, <1>3, <1>4, CarefulHostStep

\* A copy that begins has no session and all its blocks pending.
LEMMA CarefulBeginCopy ==
  ASSUME CarefulHost, CarefulInv, NEW f \in Files, BeginCopy(f)
  PROVE  CarefulInv'
<1>1. TypeOK'
  BY TypeHost DEF CarefulInv, TypeInv
<1>2. /\ f \notin active /\ active' = active \cup {f} /\ buf' = buf
      /\ left' = [left EXCEPT ![f] = Blocks(f)]
      /\ copied' = {g \in copied : ~ SameDestination(f, g)}
      /\ UNCHANGED <<in_progress, blocks_left, offset, flash>>
  BY DEF BeginCopy, session
<1>3. \A g \in active : KindOf(f) # KindOf(g)
  BY DEF BeginCopy, MayOverlap, CarefulHost
<1>4. buf # None => buf.file # f
  BY <1>2 DEF CarefulInv, BufferOfCopy
<1>5. /\ left'[f] = Blocks(f)
      /\ \A g \in Files : g # f => left'[g] = left[g]
  BY <1>2 DEF CarefulInv, TypeOK
<1>6. OneCopyPerKind'
  BY <1>2, <1>3 DEF CarefulInv, OneCopyPerKind, KindOf
<1>7. BufferOfCopy'
  <2>1. buf # None => buf.file \in Files
    BY DEF CarefulInv, TypeOK, Buffers
  <2> QED
    BY <1>2, <1>4, <1>5, <2>1 DEF CarefulInv, BufferOfCopy, Blocks
<1>8. CopiedSafe'
  <2> SUFFICES ASSUME NEW g \in copied', NEW h \in active'
               PROVE  ~ SameDestination(g, h)
    BY DEF CopiedSafe, SameDestination, KindOf, Slot
  <2>1. g \in copied /\ ~ SameDestination(f, g)
    BY <1>2
  <2>2. CASE h \in active
    BY <2>1, <2>2 DEF CarefulInv, CopiedSafe
  <2>3. CASE h = f
    BY <2>1, <2>3 DEF SameDestination
  <2> QED
    BY <1>2, <2>2, <2>3
<1>9. \A g \in active : Pending(g)' = Pending(g)
  <2> SUFFICES ASSUME NEW g \in active PROVE Pending(g)' = Pending(g)
    OBVIOUS
  <2>1. g \in Files /\ g # f
    BY <1>2 DEF CarefulInv, TypeOK
  <2> QED
    BY <1>2, <1>5, <2>1 DEF Pending
<1>10. Pending(f)' = Blocks(f)
  BY <1>2, <1>4, <1>5 DEF Pending
<1> QED
  BY <1>1, <1>2, <1>6, <1>7, <1>8, <1>9, <1>10, CarefulHostStep

\* A cluster that is handed over stays pending until its blocks are written.
LEMMA CarefulSendCluster ==
  ASSUME CarefulInv, NEW f \in Files, NEW n \in Blocks(f), SendCluster(f, n)
  PROVE  CarefulInv'
<1> DEFINE cluster == n..ClusterEnd(f, n)
<1>1. TypeOK'
  BY TypeHandOver DEF CarefulInv, TypeInv
<1>2. /\ f \in active /\ active' = active /\ copied' = copied
      /\ buf = None /\ buf' = [file |-> f, next |-> n, last |-> ClusterEnd(f, n)]
      /\ cluster \subseteq left[f]
      /\ left' = [left EXCEPT ![f] = left[f] \ cluster]
      /\ UNCHANGED <<in_progress, blocks_left, offset, flash>>
  BY DEF SendCluster, HandOver, session
<1>3. /\ buf' # None /\ buf'.file = f /\ buf'.next = n
      /\ buf'.last = ClusterEnd(f, n)
  <2>1. n \in Nat /\ ClusterEnd(f, n) \in Nat
    BY ClusterEndType, BlocksInSlot
  <2>2. buf' \in Buffers
    BY <1>2, <2>1 DEF Buffers
  <2> QED
    BY <1>2, <2>2, ValuesAssumption
<1>4. /\ left'[f] = left[f] \ cluster
      /\ \A g \in Files : g # f => left'[g] = left[g]
  BY <1>2 DEF CarefulInv, TypeOK
<1>5. OneCopyPerKind' /\ CopiedSafe'
  BY <1>2 DEF CarefulInv, OneCopyPerKind, CopiedSafe, SameDestination, KindOf, Slot
<1>6. BufferOfCopy'
  <2>1. \A g \in Files : left'[g] \subseteq Blocks(g)
    BY <1>4 DEF CarefulInv, BufferOfCopy
  <2>2. cluster \cap left'[f] = {}
    BY <1>4
  <2> QED
    BY <1>2, <1>3, <2>1, <2>2 DEF BufferOfCopy, Blocks
<1>7. ASSUME NEW g \in active PROVE Pending(g)' = Pending(g)
  <2>1. g \in Files
    BY DEF CarefulInv, TypeOK
  <2>2. CASE g = f
    BY <1>2, <1>3, <1>4, <2>2 DEF Pending
  <2>3. CASE g # f
    BY <1>2, <1>3, <1>4, <2>1, <2>3 DEF Pending
  <2> QED
    BY <2>2, <2>3
<1> QED
  BY <1>1, <1>2, <1>5, <1>6, <1>7, CarefulHostStep

\* A copy that ends has no pending blocks, so that its file is whole.
LEMMA CarefulEndCopy ==
  ASSUME CarefulInv, NEW f \in Files, EndCopy(f)
  PROVE  CarefulInv'
<1>1. TypeOK'
  BY TypeHost DEF CarefulInv, TypeInv
<1>2. /\ f \in active /\ left[f] = {} /\ (buf # None => buf.file # f)
      /\ active' = active \ {f} /\ copied' = copied \cup {f}
      /\ buf' = buf /\ left' = left
      /\ UNCHANGED <<in_progress, blocks_left, offset, flash>>
  BY DEF EndCopy, session
<1>3. Pending(f) = {}
  BY <1>2 DEF Pending
<1>4. OneCopyPerKind' /\ BufferOfCopy'
  BY <1>2 DEF CarefulInv, OneCopyPerKind, BufferOfCopy, KindOf, Blocks
<1>5. CopiedSafe'
  <2> SUFFICES ASSUME NEW g \in copied \cup {f}, NEW h \in active, h # f
               PROVE  ~ SameDestination(g, h)
    BY <1>2 DEF CopiedSafe, SameDestination, KindOf, Slot
  <2>1. CASE g \in copied
    BY <2>1 DEF CarefulInv, CopiedSafe
  <2>2. CASE g = f
    BY <1>2, <2>2 DEF CarefulInv, OneCopyPerKind, SameDestination
  <2> QED
    BY <2>1, <2>2
<1>6. \A g \in active : Pending(g)' = Pending(g)
  BY <1>2 DEF Pending
<1>7. KindOf(f) \in Kinds => Stored(flash[KindOf(f)], f)
  <2> HAVE KindOf(f) \in Kinds
  <2>1. CASE in_progress[KindOf(f)]
    <3>1. PICK g \in active : SessionOf(KindOf(f), g)
      BY <2>1 DEF CarefulInv, SessionsExact
    <3>2. g = f
      BY <1>2, <3>1 DEF CarefulInv, OneCopyPerKind, SessionOf
    <3>3. blocks_left[KindOf(f)] = Cardinality({}) /\ blocks_left[KindOf(f)] > 0
      BY <1>3, <2>1, <3>1, <3>2 DEF SessionOf, CarefulInv, BlocksLeftPositive
    <3> QED
      BY <3>3, FS_EmptySet
  <2>2. CASE ~ in_progress[KindOf(f)]
    <3>1. Blocks(f) # {}
      BY BlocksInSlot
    <3> QED
      BY <1>2, <1>3, <2>2, <3>1 DEF CarefulInv, CopiesExact
  <2> QED
    BY <2>1, <2>2
<1> QED
  BY <1>1, <1>2, <1>3, <1>4, <1>5, <1>6, <1>7, CarefulHostStep

\* A power cut changes at most the slot of the copy it interrupts.
LEMMA CutConfined ==
  ASSUME CarefulInv, NEW f \in Files, buf # None, buf.file = f,
         NEW k \in Kinds, k = KindOf(f), NEW c \in CutChips(k)
  PROVE  SameOutside(flash[k], c, Slot(f))
<1>1. flash[k] \in [Addr -> Page]
  BY DEF CarefulInv, TypeOK, Page
<1>2. \/ c \in {SessionChip(k, f), ChipAfterBlock(k, f, buf.next),
               TornPage(SessionChip(k, f), SessionOffset(k, f) + buf.next)}
      \/ c \in PartErases(flash[k], TargetOffset(f), NumBlocks[f])
  BY DEF CutChips
<1> QED
  BY <1>1, <1>2, BlockConfined, PartErasesConfined

\* A power cut ends all copies and reaches no slot with a copied file.
LEMMA CarefulPowerCycle == CarefulInv /\ PowerCycle => CarefulInv'
<1> SUFFICES ASSUME CarefulInv, PowerCycle PROVE CarefulInv'
  OBVIOUS
<1>1. TypeOK' /\ BlocksLeftPositive'
  BY TypePowerCycle DEF CarefulInv, TypeInv
<1>2. /\ active' = {} /\ buf' = None /\ copied' = copied
      /\ \A k \in Kinds : ~ in_progress'[k]
      /\ \A f \in Files : left'[f] = {}
  BY DEF PowerCycle
<1>3. OneCopyPerKind' /\ BufferOfCopy' /\ SessionsExact' /\ CopiesExact' /\ CopiedSafe'
  BY <1>2 DEF OneCopyPerKind, BufferOfCopy, SessionsExact, CopiesExact, CopiedSafe
<1>4. WholeImage'
  <2> SUFFICES ASSUME NEW g \in copied, KindOf(g) \in Kinds
               PROVE  Stored(flash'[KindOf(g)], g)
    BY <1>2 DEF WholeImage, Stored, StoredAt
  <2>1. Stored(flash[KindOf(g)], g) /\ g \in Files
    BY DEF CarefulInv, WholeImage, TypeOK
  <2>2. CASE UNCHANGED flash
    BY <2>1, <2>2
  <2>3. ASSUME buf # None, NEW k \in Kinds, k = KindOf(buf.file),
               NEW c \in CutChips(k), flash' = [flash EXCEPT ![k] = c]
        PROVE  Stored(flash'[KindOf(g)], g)
    <3>1. buf.file \in active /\ buf.file \in Files
      BY <2>3 DEF CarefulInv, BufferOfCopy, TypeOK, Buffers
    <3>2. CASE KindOf(g) = k
      <4>1. Slot(g) # Slot(buf.file)
        BY <2>3, <3>1, <3>2 DEF CarefulInv, CopiedSafe, SameDestination
      <4>2. SameOutside(flash[k], c, Slot(buf.file))
        BY <2>3, <3>1, CutConfined
      <4>3. Stored(c, g)
        BY <2>1, <3>1, <3>2, <4>1, <4>2, SlotType, StoredKept
      <4> QED
        BY <2>3, <3>2, <4>3 DEF CarefulInv, TypeOK
    <3>3. CASE KindOf(g) # k
      BY <2>1, <2>3, <3>3 DEF CarefulInv, TypeOK
    <3> QED
      BY <3>2, <3>3
  <2> QED
    BY <2>2, <2>3 DEF PowerCycle
<1> QED
  BY <1>1, <1>3, <1>4 DEF CarefulInv

\* CarefulInv holds at first.
LEMMA CarefulInit == Init => CarefulInv
<1> SUFFICES ASSUME Init PROVE CarefulInv
  OBVIOUS
<1> QED
  BY TypeInit DEF Init, CarefulInv, TypeInv, OneCopyPerKind, BufferOfCopy, SessionsExact,
                  CopiesExact, CopiedSafe, WholeImage

\* Together: no step of a careful host breaks CarefulInv.
LEMMA CarefulNext == CarefulHost /\ CarefulInv /\ [Next]_vars => CarefulInv'
<1> SUFFICES ASSUME CarefulHost, CarefulInv, [Next]_vars PROVE CarefulInv'
  OBVIOUS
<1>1. CASE ProgramBlock
  BY <1>1, CarefulProgramBlock
<1>2. CASE RejectBlock
  BY <1>2, CarefulRejectBlock
<1>3. ASSUME NEW f \in Files,
             \/ BeginCopy(f) \/ Send(f)
             \/ \E n \in Blocks(f) : ResendCluster(f, n)
             \/ EndCopy(f) \/ AbortCopy(f)
      PROVE  CarefulInv'
  <2>1. CASE BeginCopy(f)
    BY <2>1, CarefulBeginCopy
  <2>2. CASE Send(f)
    BY <2>2, CarefulSendCluster DEF Send
  <2>3. CASE EndCopy(f)
    BY <2>3, CarefulEndCopy
  <2> QED
    BY <1>3, <2>1, <2>2, <2>3 DEF CarefulHost, ResendCluster, AbortCopy
<1>4. CASE PowerCycle
  BY <1>4, CarefulPowerCycle
<1>5. CASE (\E s \in Slots : FlipSwitch(s)) \/ UNCHANGED vars
  <2>1. UNCHANGED <<in_progress, blocks_left, offset, flash, active, left, copied, buf>>
    BY <1>5 DEF FlipSwitch, vars, session, host
  <2>2. TypeOK'
    BY <1>5, TypeNext DEF CarefulInv, TypeInv, Next
  <2>3. OneCopyPerKind' /\ BufferOfCopy' /\ CopiedSafe'
    BY <2>1 DEF CarefulInv, OneCopyPerKind, BufferOfCopy, CopiedSafe,
                SameDestination, KindOf, Slot, Blocks
  <2>4. \A g \in active : Pending(g)' = Pending(g)
    BY <2>1 DEF Pending
  <2> QED
    BY <2>1, <2>2, <2>3, <2>4, CarefulHostStep
<1> QED
  BY <1>1, <1>2, <1>3, <1>4, <1>5 DEF Next

\* The inductive invariant: for a careful host, an open session knows exactly
\* which pages of its copy are still to be written, and their number.
THEOREM Careful == CarefulHost => (Spec => []CarefulInv)
<1> SUFFICES ASSUME CarefulHost PROVE Spec => []CarefulInv
  OBVIOUS
<1>1. CarefulInv /\ [Next]_vars => CarefulInv'
  BY CarefulNext
<1> QED
  BY CarefulInit, <1>1, PTL DEF Spec

\* A file that a careful host has copied to the end is whole in its slot, in
\* whatever order its clusters came, until a copy to the same slot begins, and
\* across power cuts.
THEOREM WholeImages == CarefulHost => (Spec => []WholeImage)
<1>1. CarefulInv => WholeImage
  BY DEF CarefulInv
<1> QED
  BY Careful, <1>1, PTL

\* No session outlives the copy it serves: the session of a careful copy is
\* closed by the last block of the copy.
THEOREM SessionsHaveCopies == CarefulHost => (Spec => []SessionHasCopy)
<1>1. CarefulInv => SessionHasCopy
  BY DEF CarefulInv, SessionsExact, SessionOf, SessionHasCopy
<1> QED
  BY Careful, <1>1, PTL

-----------------------------------------------------------------------------
(* What a step of a careful copy may never do.                             *)

\* Only a block and a power cut change the chips or close a session.
LEMMA OtherSteps ==
  ASSUME CarefulHost, [Next]_vars, ~ ProgramBlock, ~ PowerCycle
  PROVE  UNCHANGED <<in_progress, flash>>
<1>1. ASSUME NEW f \in Files,
             \/ BeginCopy(f) \/ Send(f)
             \/ \E n \in Blocks(f) : ResendCluster(f, n)
             \/ EndCopy(f) \/ AbortCopy(f)
      PROVE  UNCHANGED <<in_progress, flash>>
  BY <1>1 DEF BeginCopy, Send, SendCluster, ResendCluster, HandOver, EndCopy, AbortCopy,
              session
<1>2. ASSUME RejectBlock \/ (\E s \in Slots : FlipSwitch(s)) \/ UNCHANGED vars
      PROVE  UNCHANGED <<in_progress, flash>>
  BY <1>2 DEF RejectBlock, FlipSwitch, vars, session
<1> QED
  BY <1>1, <1>2 DEF Next

\* The block that closes the session of a careful copy completes the file.
THEOREM LastBlocksComplete == CarefulHost => (Spec => LastBlockCompletes)
<1> SUFFICES ASSUME CarefulHost PROVE Spec => LastBlockCompletes
  OBVIOUS
<1>1. CarefulInv /\ [Next]_vars => LastBlockStep
  <2> SUFFICES ASSUME CarefulInv, [Next]_vars, NEW j \in Kinds,
                      in_progress[j], ~ in_progress'[j], boots' = boots
               PROVE  Stored(flash'[j], buf.file)
    BY DEF LastBlockStep
  <2>1. CASE ProgramBlock
    <3>1. PICK f, k, n : BlockStep(f, k, n)
      BY <2>1, BlockStepOf DEF CarefulInv
    <3>2. f \in Files /\ k \in Kinds /\ buf.file = f
      BY <3>1 DEF BlockStep
    <3>3. j = k /\ SessionLeft(k, f) - 1 = 0
      BY <3>1, <3>2 DEF BlockStep, CarefulInv, TypeOK
    <3>4. /\ Pending(f)' = Pending(f) \ {n} /\ Cardinality(Pending(f)') = 0
          /\ \A m \in Blocks(f) : flash'[k][TargetOffset(f) + m]
                                  = IF m \in Pending(f)' THEN Erased ELSE <<f, m>>
      BY <3>1, <3>2, <3>3, BlockFills
    <3>5. IsFiniteSet(Pending(f)')
      BY <3>2, <3>4, PendingType, FS_Subset DEF CarefulInv
    <3>6. Pending(f)' = {}
      BY <3>4, <3>5, FS_EmptySet
    <3> QED
      BY <3>2, <3>3, <3>4, <3>6 DEF Stored, StoredAt
  <2>2. CASE PowerCycle
    <3>1. boots \in Nat /\ boots' = boots + 1
      BY <2>2 DEF PowerCycle, CarefulInv, TypeOK
    <3> QED
      BY <3>1
  <2> QED
    BY <2>1, <2>2, OtherSteps
<1> QED
  BY Careful, <1>1, PTL DEF Spec, LastBlockCompletes

\* No step but a power cut leaves a page that mixes two writes.
THEOREM NothingMixed == CarefulHost => (Spec => NeverMixes)
<1> SUFFICES ASSUME CarefulHost PROVE Spec => NeverMixes
  OBVIOUS
<1>1. CarefulInv /\ [Next]_vars => NoMixingStep
  <2> SUFFICES ASSUME CarefulInv, [Next]_vars, NEW j \in Kinds, NEW a \in Addr,
                      flash'[j][a] = Mixed, boots' = boots
               PROVE  flash[j][a] = Mixed
    BY DEF NoMixingStep
  <2>1. CASE ProgramBlock
    <3>1. PICK f, k, n : BlockStep(f, k, n)
      BY <2>1, BlockStepOf DEF CarefulInv
    <3>2. /\ f \in Files /\ k \in Kinds /\ buf # None /\ buf.file = f
          /\ buf.next = n /\ k = KindOf(f) /\ n \in Blocks(f)
      BY <3>1 DEF BlockStep
    <3>3. CASE j = k
      <4>1. SessionChip(k, f)[TargetOffset(f) + n] = Erased
        BY <3>2, SessionKnown
      <4>2. flash'[k] = ProgramPage(SessionChip(k, f), TargetOffset(f) + n, <<f, n>>)
        BY <3>1, <3>2, SessionKnown DEF BlockStep, ChipAfterBlock, CarefulInv, TypeOK
      <4>3. SessionChip(k, f) \in [Addr -> Page] /\ n \in Nat
        BY <3>2, SessionTypes, BlocksInSlot DEF CarefulInv, TypeInv
      <4>4. SessionChip(k, f)[a] = Mixed
        <5>1. flash'[k][a] = IF a = TargetOffset(f) + n
                               THEN <<f, n>> ELSE SessionChip(k, f)[a]
          BY <4>1, <4>2, <4>3 DEF ProgramPage
        <5>2. <<f, n>> # Mixed
          BY <3>2, <4>3, ValuesAssumption DEF Pages
        <5> QED
          BY <3>3, <5>1, <5>2
      <4>5. SessionChip(k, f)[a] \in {Erased, flash[k][a]}
        BY DEF SessionChip, EraseLoop
      <4> QED
        BY <3>3, <4>4, <4>5, ValuesAssumption
    <3>4. CASE j # k
      BY <3>1, <3>2, <3>4 DEF BlockStep, CarefulInv, TypeOK
    <3> QED
      BY <3>3, <3>4
  <2>2. CASE PowerCycle
    <3>1. boots \in Nat /\ boots' = boots + 1
      BY <2>2 DEF PowerCycle, CarefulInv, TypeOK
    <3> QED
      BY <3>1
  <2> QED
    BY <2>1, <2>2, OtherSteps
<1> QED
  BY Careful, <1>1, PTL DEF Spec, NeverMixes

\* Neither a block nor a power cut changes another chip or slot than those of
\* the copy being handled.
THEOREM OwnSlotOnly == CarefulHost => (Spec => TouchesOwnSlotOnly)
<1> SUFFICES ASSUME CarefulHost PROVE Spec => TouchesOwnSlotOnly
  OBVIOUS
<1>1. CarefulInv /\ [Next]_vars => OwnSlotStep
  <2> SUFFICES ASSUME CarefulInv, [Next]_vars, NEW j \in Kinds, NEW a \in Addr,
                      flash'[j][a] # flash[j][a]
               PROVE  /\ buf # None /\ KindOf(buf.file) = j
                      /\ a \in SlotRange(Slot(buf.file))
    BY DEF OwnSlotStep
  <2>1. CASE ProgramBlock
    <3>1. PICK f, k, n : BlockStep(f, k, n)
      BY <2>1, BlockStepOf DEF CarefulInv
    <3>2. /\ f \in Files /\ k \in Kinds /\ buf # None /\ buf.file = f
          /\ buf.next = n /\ k = KindOf(f)
      BY <3>1 DEF BlockStep
    <3>3. j = k /\ flash'[k] = ChipAfterBlock(k, f, n)
      BY <3>1, <3>2 DEF BlockStep, CarefulInv, TypeOK
    <3>4. SameOutside(flash[k], ChipAfterBlock(k, f, n), Slot(f))
      BY <3>2, BlockConfined
    <3> QED
      BY <3>2, <3>3, <3>4 DEF SameOutside
  <2>2. CASE PowerCycle
    <3> DEFINE k == KindOf(buf.file)
    <3>1. PICK c \in CutChips(k) :
            buf # None /\ k \in Kinds /\ flash' = [flash EXCEPT ![k] = c]
      BY <2>2 DEF PowerCycle
    <3>2. j = k /\ flash'[k] = c /\ buf.file \in Files
      BY <3>1 DEF CarefulInv, TypeOK, Buffers
    <3>3. SameOutside(flash[k], c, Slot(buf.file))
      BY <3>1, <3>2, CutConfined
    <3> QED
      BY <3>1, <3>2, <3>3 DEF SameOutside
  <2> QED
    BY <2>1, <2>2, OtherSteps
<1> QED
  BY Careful, <1>1, PTL DEF Spec, TouchesOwnSlotOnly

-----------------------------------------------------------------------------
(* One copy at a time: the FPGA stays erased while a chip is programmed.   *)

OneCopy == \A f, g \in active : f = g
ErasedInv == CarefulInv /\ OneCopy /\ FpgaErasedInSession

\* Without overlap there is at most one copy, and the open session is its own.
LEMMA OneCopyNext ==
  ASSUME HostOverlap = "never", OneCopy, [Next]_vars
  PROVE  OneCopy'
<1>1. ASSUME NEW f \in Files, BeginCopy(f) PROVE OneCopy'
  BY <1>1 DEF BeginCopy, MayOverlap, OneCopy
<1>2. ASSUME NEW f \in Files, EndCopy(f) \/ AbortCopy(f) PROVE OneCopy'
  BY <1>2 DEF EndCopy, AbortCopy, OneCopy
<1>3. ASSUME NEW f \in Files, Send(f) \/ \E n \in Blocks(f) : ResendCluster(f, n)
      PROVE  OneCopy'
  BY <1>3 DEF Send, SendCluster, ResendCluster, HandOver, OneCopy
<1>4. CASE ProgramBlock \/ RejectBlock \/ (\E s \in Slots : FlipSwitch(s)) \/ UNCHANGED vars
  BY <1>4 DEF ProgramBlock, RejectBlock, FlipSwitch, vars, host, OneCopy
<1>5. CASE PowerCycle
  BY <1>5 DEF PowerCycle, OneCopy
<1> QED
  BY <1>1, <1>2, <1>3, <1>4, <1>5 DEF Next

\* Then no step loads the FPGA while a session is open.
LEMMA ErasedNext ==
  ASSUME CarefulHost, HostOverlap = "never", ErasedInv, [Next]_vars
  PROVE  FpgaErasedInSession'
<1> USE DEF ErasedInv
<1>1. CASE ProgramBlock
  <2>1. PICK f, k, n : BlockStep(f, k, n)
    BY <1>1, BlockStepOf DEF CarefulInv
  <2>2. /\ f \in Files /\ k \in Kinds /\ k = KindOf(f) /\ buf # None /\ buf.file = f
    BY <2>1 DEF BlockStep
  <2> SUFFICES ASSUME NEW j \in Kinds, in_progress'[j] PROVE fpga' = Blank
    BY DEF FpgaErasedInSession
  <2>3. j = k
    <3> SUFFICES ASSUME j # k PROVE FALSE
      OBVIOUS
    <3>1. in_progress[j]
      BY <2>1, <2>2 DEF BlockStep, CarefulInv, TypeOK
    <3>2. PICK g \in active : SessionOf(j, g)
      BY <3>1 DEF CarefulInv, SessionsExact
    <3>3. f \in active
      BY <2>2, SessionKnown
    <3> QED
      BY <2>2, <3>2, <3>3 DEF SessionOf, OneCopy
  <2>4. SessionLeft(k, f) - 1 # 0
    BY <2>1, <2>2, <2>3 DEF BlockStep, CarefulInv, TypeOK
  <2>5. fpga' = SessionFpga(k)
    BY <2>1, <2>4 DEF BlockStep
  <2> QED
    BY <2>2, <2>5 DEF SessionFpga, FpgaErasedInSession
<1>2. CASE PowerCycle
  BY <1>2 DEF PowerCycle, FpgaErasedInSession
<1>3. ASSUME NEW f \in Files,
             \/ BeginCopy(f) \/ Send(f)
             \/ \E n \in Blocks(f) : ResendCluster(f, n)
             \/ EndCopy(f) \/ AbortCopy(f)
      PROVE  UNCHANGED <<in_progress, fpga>>
  BY <1>3 DEF BeginCopy, Send, SendCluster, ResendCluster, HandOver, EndCopy, AbortCopy,
              session
<1>4. ASSUME RejectBlock \/ (\E s \in Slots : FlipSwitch(s)) \/ UNCHANGED vars
      PROVE  UNCHANGED <<in_progress, fpga>>
  BY <1>4 DEF RejectBlock, FlipSwitch, vars, session
<1> QED
  BY <1>1, <1>2, <1>3, <1>4 DEF Next, FpgaErasedInSession

\* With one copy at a time the FPGA is erased from the first block of a session
\* to the last, whichever of the two chips is programmed.
THEOREM FpgaErased ==
  CarefulHost /\ HostOverlap = "never" => (Spec => []FpgaErasedInSession)
<1> SUFFICES ASSUME CarefulHost, HostOverlap = "never"
             PROVE  Spec => []FpgaErasedInSession
  OBVIOUS
<1>1. Init => ErasedInv
  BY CarefulInit DEF Init, ErasedInv, OneCopy, FpgaErasedInSession
<1>2. ErasedInv /\ [Next]_vars => ErasedInv'
  BY CarefulNext, OneCopyNext, ErasedNext DEF ErasedInv
<1>3. ErasedInv => FpgaErasedInSession
  BY DEF ErasedInv
<1> QED
  BY <1>1, <1>2, <1>3, PTL DEF Spec

-----------------------------------------------------------------------------
(***************************************************************************)
(* FlashProgram implements SlotStore for a careful host: every step of the *)
(* device and its host is a step of the store of images, or changes        *)
(* nothing that the store shows.                                           *)
(***************************************************************************)
-----------------------------------------------------------------------------
(* Every page holds a block of a file that has its place there.            *)

\* Neither erasing nor tearing a page misplaces a block.
LEMMA PlacedLess ==
  ASSUME NEW k, NEW c \in [Addr -> Page], NEW d, Placed(c, k),
         \A a \in Addr : d[a] \in {c[a], Erased, Mixed}
  PROVE  Placed(d, k)
  BY DEF Placed

\* A block that is programmed at its own place is not misplaced.
LEMMA PlacedProgram ==
  ASSUME NEW c \in [Addr -> Page], NEW f \in Files, NEW n \in Blocks(f),
         Placed(c, KindOf(f))
  PROVE  Placed(ProgramPage(c, TargetOffset(f) + n, <<f, n>>), KindOf(f))
<1> DEFINE d == ProgramPage(c, TargetOffset(f) + n, <<f, n>>)
<1>1. \A a \in Addr : d[a] \in {c[a], Mixed} \/ (a = TargetOffset(f) + n /\ d[a] = <<f, n>>)
  BY DEF ProgramPage
<1> QED
  BY <1>1 DEF Placed

\* What a block or a cut in its middle leaves of the chip is placed.
LEMMA PlacedBlock ==
  ASSUME CarefulInv, NEW f \in Files, buf # None, buf.file = f,
         NEW k \in Kinds, k = KindOf(f), Placed(flash[k], k)
  PROVE  /\ Placed(ChipAfterBlock(k, f, buf.next), k)
         /\ \A c \in CutChips(k) : Placed(c, k)
<1>1. flash[k] \in [Addr -> Page] /\ SessionChip(k, f) \in [Addr -> Page]
  BY SessionTypes DEF CarefulInv, TypeInv, TypeOK, Page
<1>2. Placed(SessionChip(k, f), k)
  <2>1. \A a \in Addr : SessionChip(k, f)[a] \in {flash[k][a], Erased, Mixed}
    BY <1>1 DEF SessionChip, EraseLoop
  <2> QED
    BY <1>1, <2>1, PlacedLess
<1>3. SessionOffset(k, f) = TargetOffset(f) /\ buf.next \in Blocks(f)
  BY SessionKnown, PendingType DEF CarefulInv
<1>4. Placed(ChipAfterBlock(k, f, buf.next), k)
  BY <1>1, <1>2, <1>3, PlacedProgram DEF ChipAfterBlock
<1>5. Placed(TornPage(SessionChip(k, f), SessionOffset(k, f) + buf.next), k)
  <2> DEFINE d == TornPage(SessionChip(k, f), SessionOffset(k, f) + buf.next)
  <2>1. \A a \in Addr : d[a] \in {SessionChip(k, f)[a], Erased, Mixed}
    BY <1>1 DEF TornPage
  <2> HIDE DEF d
  <2> QED
    BY <1>1, <1>2, <2>1, PlacedLess DEF d
<1>6. ASSUME NEW c \in PartErases(flash[k], TargetOffset(f), NumBlocks[f])
      PROVE  Placed(c, k)
  <2>1. PICK m : \/ c = EraseLoop(flash[k], TargetOffset(f), m)
                 \/ c = [a \in Addr |->
                           IF a >= TargetOffset(f) /\
                              (a - TargetOffset(f)) - ((a - TargetOffset(f)) % ErasePages) = m
                             THEN Mixed ELSE EraseLoop(flash[k], TargetOffset(f), m)[a]]
    BY DEF PartErases
  <2>2. \A a \in Addr : EraseLoop(flash[k], TargetOffset(f), m)[a] \in {flash[k][a], Erased}
    BY DEF EraseLoop
  <2>3. \A a \in Addr : c[a] \in {flash[k][a], Erased, Mixed}
    BY <2>1, <2>2
  <2> QED
    BY <1>1, <2>3, PlacedLess
<1> QED
  BY <1>2, <1>4, <1>5, <1>6 DEF CutChips

\* SlotInv is inductive for a careful host.
LEMMA SlotNext == CarefulHost /\ SlotInv /\ [Next]_vars => SlotInv'
<1> SUFFICES ASSUME CarefulHost, SlotInv, [Next]_vars PROVE SlotInv'
  OBVIOUS
<1>1. CarefulInv'
  BY CarefulNext DEF SlotInv
<1> SUFFICES ASSUME NEW j \in Kinds PROVE Placed(flash'[j], j)
  BY <1>1 DEF SlotInv, Placed, KindOf, TargetOffset, Slot, Blocks
<1>2. Placed(flash[j], j)
  BY DEF SlotInv
<1>3. CASE ProgramBlock
  <2>1. PICK f, k, n : BlockStep(f, k, n)
    BY <1>3, BlockStepOf DEF SlotInv, CarefulInv
  <2>2. /\ f \in Files /\ k \in Kinds /\ k = KindOf(f)
        /\ buf # None /\ buf.file = f /\ buf.next = n
    BY <2>1 DEF BlockStep
  <2>3. flash'[j] = IF j = k THEN ChipAfterBlock(k, f, n) ELSE flash[j]
    BY <2>1, <2>2 DEF BlockStep, SlotInv, CarefulInv, TypeOK
  <2> QED
    BY <1>2, <2>2, <2>3, PlacedBlock DEF SlotInv
<1>4. CASE PowerCycle
  <2>1. CASE UNCHANGED flash
    BY <1>2, <2>1
  <2>2. ASSUME buf # None, NEW k \in Kinds, k = KindOf(buf.file),
               NEW c \in CutChips(k), flash' = [flash EXCEPT ![k] = c]
        PROVE  Placed(flash'[j], j)
    <3>1. buf.file \in Files
      BY <2>2 DEF SlotInv, CarefulInv, TypeOK, Buffers
    <3>2. flash'[j] = IF j = k THEN c ELSE flash[j]
      BY <2>2 DEF SlotInv, CarefulInv, TypeOK
    <3> QED
      BY <1>2, <2>2, <3>1, <3>2, PlacedBlock DEF SlotInv
  <2> QED
    BY <1>4, <2>1, <2>2 DEF PowerCycle
<1> QED
  BY <1>2, <1>3, <1>4, OtherSteps

\* For a careful host a page holds no block but that of a file which has its
\* place there: a header found at the start of a slot is that of a file for it.
THEOREM PagesPlaced == CarefulHost => (Spec => []SlotInv)
<1> SUFFICES ASSUME CarefulHost PROVE Spec => []SlotInv
  OBVIOUS
<1>1. Init => SlotInv
  BY CarefulInit DEF Init, SlotInv, Placed
<1>2. SlotInv /\ [Next]_vars => SlotInv'
  BY SlotNext
<1> QED
  BY <1>1, <1>2, PTL DEF Spec

-----------------------------------------------------------------------------
(* The image of a slot.                                                    *)

Base(s) == FLASH_BITSTREAM_OFFSET(s)

\* A file that is whole in a slot has its header at the start of the slot.
LEMMA HeaderOfWhole ==
  ASSUME NEW c, NEW k, NEW s, NEW f \in WholeFiles(c, k, s)
  PROVE  f \in Files /\ c[Base(s)] = <<f, 0>>
<1>1. f \in Files /\ c[TargetOffset(f) + 0] = <<f, 0>> /\ TargetOffset(f) = Base(s)
  BY BlocksInSlot DEF WholeFiles, Stored, StoredAt, TargetOffset, Base
<1>2. TargetOffset(f) + 0 = TargetOffset(f)
  BY <1>1, TargetType
<1> QED
  BY <1>1, <1>2

\* It is the image of the slot: no other file is whole there.
LEMMA ImageOfWhole ==
  ASSUME NEW c, NEW k, NEW s, NEW f \in WholeFiles(c, k, s)
  PROVE  WholeFiles(c, k, s) = {f} /\ ImageAt(c, k, s) = f
<1>1. \A g \in WholeFiles(c, k, s) : g = f
  <2> SUFFICES ASSUME NEW g \in WholeFiles(c, k, s) PROVE g = f
    OBVIOUS
  <2>1. <<g, 0>> = <<f, 0>>
    BY HeaderOfWhole
  <2> QED
    BY <2>1
<1> QED
  BY <1>1 DEF ImageAt

\* Where the page at the start of a slot is blank, torn or the header of f, the
\* image of the slot is f or none.
LEMMA ImageOfWritten ==
  ASSUME NEW c, NEW f \in Files, NEW k, k = KindOf(f),
         c[Base(Slot(f))] \in {Erased, Mixed, <<f, 0>>}
  PROVE  ImageAt(c, k, Slot(f)) = IF Stored(c, f) THEN f ELSE None
<1>1. CASE Stored(c, f)
  <2>1. f \in WholeFiles(c, k, Slot(f))
    BY <1>1 DEF WholeFiles
  <2> QED
    BY <1>1, <2>1, ImageOfWhole
<1>2. CASE ~ Stored(c, f)
  <2>1. WholeFiles(c, k, Slot(f)) = {}
    <3> SUFFICES ASSUME NEW g \in WholeFiles(c, k, Slot(f)) PROVE FALSE
      OBVIOUS
    <3>1. g \in Files /\ c[Base(Slot(f))] = <<g, 0>> /\ Stored(c, g)
      BY HeaderOfWhole DEF WholeFiles
    <3>2. <<g, 0>> \in Pages
      BY <3>1 DEF Pages
    <3>3. <<g, 0>> = <<f, 0>>
      BY <3>1, <3>2, ValuesAssumption
    <3> QED
      BY <1>2, <3>1, <3>3
  <2> QED
    BY <1>2, <2>1 DEF ImageAt
<1> QED
  BY <1>1, <1>2

\* Two chips that differ in one slot only have the same images in the others.
LEMMA ImageElsewhere ==
  ASSUME NEW c, NEW d, NEW k, NEW s \in Slots, NEW t \in Slots, t # s,
         SameOutside(c, d, s)
  PROVE  ImageAt(d, k, t) = ImageAt(c, k, t)
<1>1. SameOutside(d, c, s)
  BY DEF SameOutside
<1>2. \A f \in Files : Slot(f) = t => (Stored(c, f) <=> Stored(d, f))
  BY <1>1, StoredKept
<1>3. WholeFiles(d, k, t) = WholeFiles(c, k, t)
  BY <1>2 DEF WholeFiles
<1> QED
  BY <1>3 DEF ImageAt

\* What a step that writes to the slot of f does to the images.
LEMMA ImagesAfter ==
  ASSUME TypeOK, NEW f \in Files, NEW k \in Kinds, k = KindOf(f), NEW c,
         flash' = [flash EXCEPT ![k] = c],
         SameOutside(flash[k], c, Slot(f)),
         c[Base(Slot(f))] \in {Erased, Mixed, <<f, 0>>}
  PROVE  StoreImage' = [StoreImage EXCEPT ![k][Slot(f)] =
                          IF Stored(c, f) THEN f ELSE None]
<1>1. Slot(f) \in Slots
  BY SlotType
<1>2. \A j \in Kinds : flash'[j] = IF j = k THEN c ELSE flash[j]
  BY DEF TypeOK
<1>3. ASSUME NEW j \in Kinds, NEW s \in Slots
      PROVE  ImageAt(flash'[j], j, s) =
               IF j = k /\ s = Slot(f) THEN IF Stored(c, f) THEN f ELSE None
                                       ELSE ImageAt(flash[j], j, s)
  <2>1. CASE j # k
    BY <1>2, <2>1
  <2>2. CASE j = k /\ s # Slot(f)
    BY <1>1, <1>2, <2>2, ImageElsewhere
  <2>3. CASE j = k /\ s = Slot(f)
    BY <1>2, <2>3, ImageOfWritten
  <2> QED
    BY <2>1, <2>2, <2>3
<1>4. StoreImage' = [j \in Kinds |-> [s \in Slots |-> ImageAt(flash'[j], j, s)]]
  BY DEF StoreImage, ImageAt, WholeFiles, KindOf, Slot, Stored, StoredAt, Blocks, TargetOffset
<1> DEFINE new == IF Stored(c, f) THEN f ELSE None
<1> HIDE DEF new
<1>5. [StoreImage EXCEPT ![k][Slot(f)] = new] =
        [j \in Kinds |-> [s \in Slots |->
           IF j = k /\ s = Slot(f) THEN new ELSE ImageAt(flash[j], j, s)]]
  BY <1>1 DEF StoreImage
<1>6. \A j \in Kinds, s \in Slots : ImageAt(flash'[j], j, s) =
        IF j = k /\ s = Slot(f) THEN new ELSE ImageAt(flash[j], j, s)
  BY <1>3 DEF new
<1> QED
  BY <1>4, <1>5, <1>6 DEF new

\* Loading the FPGA from a slot is what SlotStore's Load says of its image.
LEMMA LoadMatches ==
  ASSUME NEW c, Placed(c, "bitstream"), NEW s \in Slots, NEW before,
         NEW x \in LoadOutcomes(c, s, before)
  PROVE  x \in IF ImageAt(c, "bitstream", s) = None
                 THEN {before, Failed} ELSE {ImageAt(c, "bitstream", s)}
<1> DEFINE headers == {f \in Files : c[Base(s)] = <<f, 0>>}
           whole == WholeFiles(c, "bitstream", s)
<1>1. whole \subseteq headers
  BY HeaderOfWhole
<1>2. CASE c[Base(s)] = Mixed
  <2>1. \A f \in Files : c[Base(s)] # <<f, 0>>
    BY <1>2, ValuesAssumption DEF Pages
  <2>2. ImageAt(c, "bitstream", s) = None
    BY <1>1, <2>1 DEF ImageAt
  <2> QED
    BY <1>2, <2>2 DEF LoadOutcomes, Base
<1>3. CASE c[Base(s)] # Mixed /\ headers = {}
  <2>1. ImageAt(c, "bitstream", s) = None
    BY <1>1, <1>3 DEF ImageAt
  <2> QED
    BY <1>3, <2>1 DEF LoadOutcomes, Base
<1>4. ASSUME c[Base(s)] # Mixed, NEW f \in headers,
             x = IF StoredAt(c, Base(s), f) THEN f ELSE Failed
      PROVE  x \in IF ImageAt(c, "bitstream", s) = None
                     THEN {before, Failed} ELSE {ImageAt(c, "bitstream", s)}
  <2>1. f \in Files /\ c[Base(s)] = <<f, 0>> /\ Base(s) \in Addr
    <3>1. Base(s) + 0 \in Addr /\ Base(s) \in Nat
      BY OffsetType, SizesAssumption DEF Base
    <3> QED
      BY <3>1
  <2>2. KindOf(f) = "bitstream" /\ Base(s) = TargetOffset(f)
    <3>1. c[Base(s)] \notin {Erased, Mixed}
      BY <2>1, ValuesAssumption DEF Pages
    <3>2. PICK g \in Files : /\ KindOf(g) = "bitstream"
                             /\ \E n \in Blocks(g) : /\ Base(s) = TargetOffset(g) + n
                                                     /\ c[Base(s)] = <<g, n>>
      BY <2>1, <3>1 DEF Placed
    <3>3. PICK n \in Blocks(g) : Base(s) = TargetOffset(g) + n /\ c[Base(s)] = <<g, n>>
      BY <3>2
    <3>4. g = f /\ n = 0
      BY <2>1, <3>3
    <3> QED
      BY <3>2, <3>3, <3>4, TargetType
  <2>3. Slot(f) = s
    <3>1. Base(s) + 0 = Base(Slot(f)) + 0 /\ Slot(f) \in Slots /\ 0 \in 0..(SlotPages - 1)
      BY <2>1, <2>2, SlotType, SizesAssumption DEF TargetOffset, Base
    <3> QED
      BY <3>1, SlotsDisjoint DEF Base
  <2>4. f \in whole <=> StoredAt(c, Base(s), f)
    BY <2>1, <2>2, <2>3 DEF WholeFiles, Stored
  <2>5. CASE f \in whole
    BY <1>4, <2>1, <2>4, <2>5, ImageOfWhole, ValuesAssumption
  <2>6. CASE f \notin whole
    <3>1. whole = {}
      <4> SUFFICES ASSUME NEW g \in whole PROVE FALSE
        OBVIOUS
      <4>1. <<g, 0>> = <<f, 0>>
        BY <2>1, HeaderOfWhole
      <4> QED
        BY <2>6, <4>1
    <3> QED
      BY <1>4, <2>4, <2>6, <3>1 DEF ImageAt
  <2> QED
    BY <2>5, <2>6
<1> QED
  BY <1>2, <1>3, <1>4 DEF LoadOutcomes, Base

-----------------------------------------------------------------------------
(* Every step is a step of the store, or changes nothing it shows.         *)

\* The store loads the FPGA where the device does.
LEMMA StoreLoads ==
  ASSUME TypeOK, SlotInv', NEW before,
         StartupProgramBitstream(flash'["bitstream"], before)
  PROVE  Store!Load(before)
<1>1. Placed(flash'["bitstream"], "bitstream") /\ sel \in Slots
  BY DEF SlotInv, Kinds, Placed, KindOf, TargetOffset, Slot, Blocks, TypeOK
<1>2. StoreImage'["bitstream"][sel] = ImageAt(flash'["bitstream"], "bitstream", sel)
  BY <1>1 DEF StoreImage, Kinds, ImageAt, WholeFiles, KindOf, Slot, Stored, StoredAt,
              Blocks, TargetOffset
<1>3. fpga' \in LoadOutcomes(flash'["bitstream"], sel, before)
  BY DEF StartupProgramBitstream
<1> QED
  BY <1>1, <1>2, <1>3, LoadMatches DEF Store!Load

\* The slot that an open session writes to is told by its offset.
LEMMA WritingSlot ==
  ASSUME NEW s \in Slots
  PROVE  SlotAt(FLASH_BITSTREAM_OFFSET(s)) = s
<1> DEFINE off == FLASH_BITSTREAM_OFFSET(s)
<1>1. \A t \in Slots : FLASH_BITSTREAM_OFFSET(t) = off => t = s
  <2> SUFFICES ASSUME NEW t \in Slots, FLASH_BITSTREAM_OFFSET(t) = off PROVE t = s
    OBVIOUS
  <2>1. FLASH_BITSTREAM_OFFSET(t) + 0 = FLASH_BITSTREAM_OFFSET(s) + 0
        /\ 0 \in 0..(SlotPages - 1)
    BY SizesAssumption
  <2> QED
    BY <2>1, SlotsDisjoint
<1> QED
  BY <1>1 DEF SlotAt

\* Destroying the image of a slot that has none changes nothing.
LEMMA PutNothing ==
  ASSUME NEW k \in Kinds, NEW s \in Slots, StoreImage[k][s] = None
  PROVE  [StoreImage EXCEPT ![k][s] = None] = StoreImage
<1>1. /\ StoreImage \in [Kinds -> {StoreImage[j] : j \in Kinds}]
      /\ StoreImage[k] \in [Slots -> {StoreImage[k][t] : t \in Slots}]
  BY DEF StoreImage
<1>2. [StoreImage[k] EXCEPT ![s] = StoreImage[k][s]] = StoreImage[k]
  BY <1>1
<1> QED
  BY <1>1, <1>2

\* While a block of f is handled, the store sees its slot written, and without an
\* image, exactly when a session is open.
LEMMA StoreInSession ==
  ASSUME CarefulInv, NEW f \in Files, buf # None, buf.file = f,
         NEW k \in Kinds, k = KindOf(f)
  PROVE  /\ StoreWriting[k] = IF in_progress[k] THEN Slot(f) ELSE None
         /\ in_progress[k] => StoreImage[k][Slot(f)] = None
<1>1. /\ Slot(f) \in Slots /\ TargetOffset(f) = FLASH_BITSTREAM_OFFSET(Slot(f))
      /\ SessionOffset(k, f) = TargetOffset(f)
  BY SlotType, SessionKnown DEF TargetOffset
<1>2. StoreWriting[k] = IF in_progress[k] THEN Slot(f) ELSE None
  BY <1>1, WritingSlot DEF StoreWriting, WritingAt, SessionOffset
<1>3. ASSUME in_progress[k] PROVE StoreImage[k][Slot(f)] = None
  <2>1. /\ buf.next \in Pending(f) /\ Pending(f) \subseteq Blocks(f)
        /\ \A m \in Blocks(f) : flash[k][TargetOffset(f) + m]
                                = IF m \in Pending(f) THEN Erased ELSE <<f, m>>
    BY <1>3, SessionKnown, PendingType DEF SessionChip, CarefulInv
  <2>2. /\ 0 \in Blocks(f) /\ TargetOffset(f) + 0 = Base(Slot(f))
        /\ \A m \in Blocks(f) : <<f, m>> # Erased
    BY BlocksInSlot, TargetType, ValuesAssumption DEF Base, TargetOffset, Pages
  <2>3. flash[k][Base(Slot(f))] \in {Erased, Mixed, <<f, 0>>}
    BY <2>1, <2>2
  <2>4. ~ Stored(flash[k], f)
    BY <2>1, <2>2 DEF Stored, StoredAt
  <2>5. ImageAt(flash[k], k, Slot(f)) = None
    BY <2>3, <2>4, ImageOfWritten
  <2> QED
    BY <1>1, <2>5 DEF StoreImage
<1> QED
  BY <1>2, <1>3

\* The slot being written, after a block of f.
LEMMA WritingAfter ==
  ASSUME CarefulInv, NEW f, NEW k, NEW n, BlockStep(f, k, n)
  PROVE  StoreWriting' = [StoreWriting EXCEPT ![k] =
                            IF in_progress'[k] THEN Slot(f) ELSE None]
<1>1. /\ f \in Files /\ k \in Kinds /\ k = KindOf(f) /\ buf # None
      /\ buf.file = f /\ buf.next = n
  BY DEF BlockStep
<1>2. /\ Slot(f) \in Slots /\ TargetOffset(f) = FLASH_BITSTREAM_OFFSET(Slot(f))
      /\ SessionOffset(k, f) = TargetOffset(f)
  BY <1>1, SlotType, SessionKnown DEF TargetOffset
<1>4. \A j \in Kinds : j # k => in_progress'[j] = in_progress[j] /\ offset'[j] = offset[j]
  BY <1>1 DEF BlockStep, CarefulInv, TypeOK
<1>5. offset'[k] = FLASH_BITSTREAM_OFFSET(Slot(f))
  BY <1>1, <1>2 DEF BlockStep, CarefulInv, TypeOK
<1>6. StoreWriting' =
        [j \in Kinds |-> IF in_progress'[j] THEN SlotAt(offset'[j]) ELSE None]
  BY DEF StoreWriting, WritingAt, SlotAt, FLASH_BITSTREAM_OFFSET
<1>7. ASSUME NEW j \in Kinds
      PROVE  (IF in_progress'[j] THEN SlotAt(offset'[j]) ELSE None)
             = IF j = k THEN IF in_progress'[k] THEN Slot(f) ELSE None
                        ELSE StoreWriting[j]
  <2>1. CASE j = k
    BY <1>2, <1>5, <2>1, WritingSlot
  <2>2. CASE j # k
    BY <1>4, <2>2 DEF StoreWriting, WritingAt
  <2> QED
    BY <2>1, <2>2
<1> DEFINE new == IF in_progress'[k] THEN Slot(f) ELSE None
<1> HIDE DEF new
<1>8. [StoreWriting EXCEPT ![k] = new] =
        [j \in Kinds |-> IF j = k THEN new ELSE StoreWriting[j]]
  BY DEF StoreWriting
<1>9. StoreWriting' = [j \in Kinds |-> IF j = k THEN new ELSE StoreWriting[j]]
  BY <1>6, <1>7 DEF new
<1> QED
  BY <1>8, <1>9 DEF new

\* What a block does to the images: f is the image of its slot once its last block
\* is written, and before that the slot has none.
LEMMA ImagesAfterBlock ==
  ASSUME CarefulInv, NEW f, NEW k, NEW n, BlockStep(f, k, n)
  PROVE  StoreImage' = [StoreImage EXCEPT ![k][Slot(f)] =
                          IF SessionLeft(k, f) - 1 = 0 THEN f ELSE None]
<1>1. /\ f \in Files /\ k \in Kinds /\ k = KindOf(f) /\ buf # None
      /\ buf.file = f /\ buf.next = n
  BY DEF BlockStep
<1>2. /\ Pending(f)' = Pending(f) \ {n}
      /\ SessionLeft(k, f) - 1 = Cardinality(Pending(f)')
      /\ \A m \in Blocks(f) : flash'[k][TargetOffset(f) + m]
                              = IF m \in Pending(f)' THEN Erased ELSE <<f, m>>
  BY <1>1, BlockFills
<1>3. /\ Pending(f) \subseteq Blocks(f) /\ n \in Pending(f)
      /\ IsFiniteSet(Pending(f)')
  BY <1>1, <1>2, SessionKnown, PendingType, FS_Subset DEF CarefulInv
<1>4. /\ 0 \in Blocks(f) /\ TargetOffset(f) + 0 = Base(Slot(f))
      /\ \A m \in Blocks(f) : <<f, m>> # Erased
  BY <1>1, BlocksInSlot, TargetType, ValuesAssumption DEF Base, TargetOffset, Pages
<1> DEFINE c == ChipAfterBlock(k, f, n)
<1>5. flash' = [flash EXCEPT ![k] = c] /\ flash'[k] = c
  BY <1>1 DEF BlockStep, CarefulInv, TypeOK
<1> HIDE DEF c
<1>6. c[Base(Slot(f))] \in {Erased, Mixed, <<f, 0>>}
  <2>1. flash'[k][TargetOffset(f) + 0] \in {Erased, <<f, 0>>}
    BY <1>2, <1>4
  <2> QED
    BY <1>4, <1>5, <2>1
<1>7. SameOutside(flash[k], c, Slot(f))
  BY <1>1, BlockConfined DEF c
<1>8. Stored(c, f) <=> Pending(f)' = {}
  BY <1>2, <1>3, <1>4, <1>5 DEF Stored, StoredAt
<1>9. Pending(f)' = {} <=> SessionLeft(k, f) - 1 = 0
  BY <1>2, <1>3, FS_EmptySet
<1>10. StoreImage' = [StoreImage EXCEPT ![k][Slot(f)] =
                        IF Stored(c, f) THEN f ELSE None]
  BY <1>1, <1>5, <1>6, <1>7, ImagesAfter DEF CarefulInv
<1> QED
  BY <1>8, <1>9, <1>10

\* A block begins an image, finishes one, or is in the middle of one.
LEMMA BlockSimulates ==
  ASSUME SlotInv, SlotInv', ProgramBlock
  PROVE  Store!Next \/ UNCHANGED Store!vars
<1>1. PICK f, k, n : BlockStep(f, k, n)
  BY BlockStepOf DEF SlotInv, CarefulInv
<1>2. /\ f \in KnownFiles /\ k \in Kinds /\ k = KindOf(f) /\ sel' = sel
  BY <1>1 DEF BlockStep, KnownFiles
<1>3. /\ StoreWriting[k] = IF in_progress[k] THEN Slot(f) ELSE None
      /\ StoreWriting' = [StoreWriting EXCEPT ![k] =
                            IF in_progress'[k] THEN Slot(f) ELSE None]
      /\ StoreImage' = [StoreImage EXCEPT ![k][Slot(f)] =
                          IF SessionLeft(k, f) - 1 = 0 THEN f ELSE None]
      /\ in_progress[k] => StoreImage[k][Slot(f)] = None
  <2>1. f \in Files /\ buf # None /\ buf.file = f
    BY <1>1 DEF BlockStep
  <2> QED
    BY <1>1, <1>2, <2>1, StoreInSession, WritingAfter, ImagesAfterBlock DEF SlotInv
<1>4. in_progress'[k] = (SessionLeft(k, f) - 1 # 0)
  BY <1>1, <1>2 DEF BlockStep, SlotInv, CarefulInv, TypeOK
<1>5. Slot(f) \in Slots /\ Slot(f) # None
  BY <1>2, SlotType, ValuesAssumption DEF KnownFiles
<1>6. CASE SessionLeft(k, f) - 1 = 0
  <2>1. SessionFpga(k) = IF StoreWriting[k] = None THEN Blank ELSE fpga
    BY <1>3, <1>5 DEF SessionFpga
  <2>2. Store!Load(SessionFpga(k))
    BY <1>1, <1>6, StoreLoads DEF BlockStep, SlotInv, CarefulInv
  <2>3. Store!Finish(f)
    BY <1>2, <1>3, <1>4, <1>6, <2>1, <2>2 DEF Store!Finish, Store!Put
  <2> QED
    BY <1>2, <2>3 DEF Store!Next
<1>7. CASE SessionLeft(k, f) - 1 # 0 /\ ~ in_progress[k]
  <2>1. fpga' = Blank
    BY <1>1, <1>7 DEF BlockStep, SessionFpga
  <2>2. Store!Begin(f)
    BY <1>2, <1>3, <1>4, <1>7, <2>1 DEF Store!Begin, Store!Put
  <2> QED
    BY <1>2, <2>2 DEF Store!Next
<1>8. CASE SessionLeft(k, f) - 1 # 0 /\ in_progress[k]
  <2>1. fpga' = fpga
    BY <1>1, <1>8 DEF BlockStep, SessionFpga
  <2>2. StoreImage' = StoreImage
    BY <1>2, <1>3, <1>5, <1>8, PutNothing
  <2>3. StoreWriting' = StoreWriting
    BY <1>2, <1>3, <1>4, <1>8 DEF StoreWriting
  <2> QED
    BY <1>2, <2>1, <2>2, <2>3 DEF Store!vars
<1> QED
  BY <1>6, <1>7, <1>8

\* What a power cut in a block of f leaves: the chip as it was, or a page at the
\* start of the slot that is blank, torn or the header of f.
LEMMA CutHeader ==
  ASSUME CarefulInv, NEW f \in Files, buf # None, buf.file = f,
         NEW k \in Kinds, k = KindOf(f), NEW c \in CutChips(k)
  PROVE  c = flash[k] \/ c[Base(Slot(f))] \in {Erased, Mixed, <<f, 0>>}
<1> DEFINE base == Base(Slot(f))
           d == SessionChip(k, f)
<1>1. /\ base = TargetOffset(f) /\ base \in Addr /\ base \in Nat
      /\ base + 0 = base /\ 0 \in Blocks(f) /\ base - base = 0
  <2>1. TargetOffset(f) + 0 \in Addr /\ TargetOffset(f) \in Nat
    BY TargetType, SizesAssumption
  <2> QED
    BY <2>1, BlocksInSlot DEF Base, TargetOffset
<1>2. d \in [Addr -> Page] /\ flash[k] \in [Addr -> Page] /\ d[base] \in {Erased, <<f, 0>>}
  <2>1. \A m \in Blocks(f) : SessionChip(k, f)[TargetOffset(f) + m]
                              = IF m \in Pending(f) THEN Erased ELSE <<f, m>>
    BY SessionKnown
  <2> QED
    BY <1>1, <2>1, SessionTypes DEF CarefulInv, TypeInv, TypeOK, Page
<1> HIDE DEF base, d
<1>3. CASE c = d
  BY <1>2, <1>3 DEF base
<1>4. CASE c = TornPage(d, SessionOffset(k, f) + buf.next)
  BY <1>2, <1>4 DEF TornPage, base
<1>5. CASE c = ChipAfterBlock(k, f, buf.next)
  <2>1. buf.next \in Pending(f) /\ SessionOffset(k, f) = base /\ buf.next \in Nat
    BY <1>1, SessionKnown DEF CarefulInv, TypeOK, Buffers
  <2>2. CASE buf.next = 0
    BY <1>1, <1>2, <1>5, <2>1, <2>2 DEF ChipAfterBlock, ProgramPage, base, d
  <2>3. CASE buf.next # 0
    <3>1. base + buf.next # base
      BY <1>1, <2>1, <2>3
    <3>2. c[base] = d[base]
      BY <1>1, <1>2, <1>5, <2>1, <3>1 DEF ChipAfterBlock, ProgramPage, d
    <3> QED
      BY <1>2, <3>2 DEF base
  <2> QED
    BY <2>2, <2>3
<1>6. ASSUME NEW m \in 0..(NumBlocks[f] - 1),
             \/ c = EraseLoop(flash[k], base, m)
             \/ c = [a \in Addr |-> IF a >= base /\ (a - base) - ((a - base) % ErasePages) = m
                                      THEN Mixed ELSE EraseLoop(flash[k], base, m)[a]]
      PROVE  c = flash[k] \/ c[base] \in {Erased, Mixed}
  <2>1. 0 % ErasePages = 0 /\ m \in Nat
    BY SizesAssumption, BlocksInSlot
  <2>2. EraseLoop(flash[k], base, m)[base] = IF 0 < m THEN Erased ELSE flash[k][base]
    BY <1>1, <2>1 DEF EraseLoop
  <2>3. CASE c = EraseLoop(flash[k], base, m) /\ m = 0
    <3>1. \A a \in Addr : a >= base => ~ ((a - base) - ((a - base) % ErasePages) < 0)
      <4> SUFFICES ASSUME NEW a \in Addr, a >= base
                   PROVE  ~ ((a - base) - ((a - base) % ErasePages) < 0)
        OBVIOUS
      <4>1. a - base \in Nat
        BY <1>1, SizesAssumption DEF Addr
      <4>2. \A x \in Nat : x % ErasePages \in Nat /\ x % ErasePages <= x
        BY SizesAssumption
      <4> QED
        BY <4>1, <4>2
    <3>2. c \in [Addr -> Page] /\ \A a \in Addr : c[a] = flash[k][a]
      BY <1>2, <2>3, <3>1 DEF EraseLoop
    <3> QED
      BY <1>2, <3>2
  <2>4. CASE c = EraseLoop(flash[k], base, m) /\ m # 0
    <3>1. 0 < m
      BY <2>1, <2>4
    <3> QED
      BY <2>2, <2>4, <3>1
  <2>5. CASE c # EraseLoop(flash[k], base, m)
    <3>1. c[base] = IF 0 = m THEN Mixed ELSE EraseLoop(flash[k], base, m)[base]
      BY <1>1, <1>6, <2>1, <2>5
    <3>2. m # 0 => 0 < m
      BY <2>1
    <3> QED
      BY <2>2, <3>1, <3>2
  <2> QED
    BY <2>3, <2>4, <2>5
<1> QED
  BY <1>1, <1>3, <1>4, <1>5, <1>6 DEF CutChips, PartErases, base, d

\* A power cycle is one of the store, wherever it falls in a block.
LEMMA PowerCycleSimulates ==
  ASSUME SlotInv, SlotInv', PowerCycle
  PROVE  Store!PowerCycle
<1> USE DEF SlotInv
<1>1. StoreWriting' = [j \in Kinds |-> None] /\ sel' = sel
  BY DEF PowerCycle, StoreWriting, WritingAt
<1>2. Store!Load(Blank)
  BY StoreLoads DEF PowerCycle, CarefulInv
<1> DEFINE LostOrDone(i) ==
             \/ /\ StoreWriting[KindOf(i)] = None
                /\ StoreImage' = [StoreImage EXCEPT ![KindOf(i)][Slot(i)] = None]
             \/ /\ StoreWriting[KindOf(i)] \in {Slot(i), None}
                /\ StoreImage' = [StoreImage EXCEPT ![KindOf(i)][Slot(i)] = i]
<1>3. StoreImage' = StoreImage \/ \E i \in KnownFiles : LostOrDone(i)
  <2>1. ASSUME UNCHANGED flash PROVE StoreImage' = StoreImage
    BY <2>1 DEF StoreImage, ImageAt, WholeFiles, KindOf, Slot, Stored, StoredAt, Blocks,
                TargetOffset
  <2>2. ASSUME buf # None, NEW k \in Kinds, k = KindOf(buf.file),
               NEW c \in CutChips(k), flash' = [flash EXCEPT ![k] = c]
        PROVE  StoreImage' = StoreImage \/ \E i \in KnownFiles : LostOrDone(i)
    <3> DEFINE f == buf.file
    <3>1. f \in Files /\ f \in KnownFiles /\ Slot(f) \in Slots
      BY <2>2, SlotType DEF CarefulInv, TypeOK, Buffers, KnownFiles
    <3>2. CASE c = flash[k]
      <4>1. UNCHANGED flash
        BY <2>2, <3>2 DEF CarefulInv, TypeOK
      <4> QED
        BY <2>1, <4>1
    <3>3. CASE c # flash[k]
      <4>1. c[Base(Slot(f))] \in {Erased, Mixed, <<f, 0>>}
        BY <2>2, <3>1, <3>3, CutHeader
      <4>2. SameOutside(flash[k], c, Slot(f))
        BY <2>2, <3>1, CutConfined
      <4>3. StoreImage' = [StoreImage EXCEPT ![k][Slot(f)] =
                             IF Stored(c, f) THEN f ELSE None]
        BY <2>2, <3>1, <4>1, <4>2, ImagesAfter DEF CarefulInv
      <4>4. /\ StoreWriting[k] = IF in_progress[k] THEN Slot(f) ELSE None
            /\ in_progress[k] => StoreImage[k][Slot(f)] = None
        BY <2>2, <3>1, StoreInSession
      <4>5. CASE Stored(c, f)
        BY <2>2, <3>1, <4>3, <4>4, <4>5
      <4>6. CASE ~ Stored(c, f) /\ in_progress[k]
        BY <3>1, <4>3, <4>4, <4>6, PutNothing
      <4>7. CASE ~ Stored(c, f) /\ ~ in_progress[k]
        BY <2>2, <3>1, <4>3, <4>4, <4>7
      <4> QED
        BY <4>5, <4>6, <4>7
    <3> QED
      BY <3>2, <3>3
  <2> QED
    BY <2>1, <2>2 DEF PowerCycle
<1>4. Store!Chips = Kinds
  BY DEF Store!Chips, Kinds
<1>5. \A i \in KnownFiles : KindOf(i) \in Kinds
  BY DEF KnownFiles
<1> QED
  BY <1>1, <1>2, <1>3, <1>4, <1>5 DEF Store!PowerCycle, Store!Put

\* Flipping the switch is the store's; the rest of what a host does is invisible.
LEMMA OtherSimulates ==
  ASSUME CarefulHost, [Next]_vars, ~ ProgramBlock, ~ PowerCycle
  PROVE  Store!Next \/ UNCHANGED Store!vars
<1>1. ASSUME UNCHANGED <<in_progress, offset, flash>>
      PROVE  StoreImage' = StoreImage /\ StoreWriting' = StoreWriting
  BY <1>1 DEF StoreImage, StoreWriting, ImageAt, WholeFiles, KindOf, Slot, Stored, StoredAt,
              Blocks, TargetOffset, WritingAt, SlotAt, FLASH_BITSTREAM_OFFSET
<1>2. ASSUME NEW f \in Files,
             \/ BeginCopy(f) \/ Send(f)
             \/ \E n \in Blocks(f) : ResendCluster(f, n)
             \/ EndCopy(f) \/ AbortCopy(f)
      PROVE  UNCHANGED <<in_progress, offset, flash, fpga, sel>>
  BY <1>2 DEF BeginCopy, Send, SendCluster, ResendCluster, HandOver, EndCopy, AbortCopy,
              session
<1>3. ASSUME RejectBlock \/ UNCHANGED vars
      PROVE  UNCHANGED <<in_progress, offset, flash, fpga, sel>>
  BY <1>3 DEF RejectBlock, vars, session
<1>4. ASSUME UNCHANGED <<in_progress, offset, flash, fpga, sel>>
      PROVE  UNCHANGED Store!vars
  BY <1>1, <1>4 DEF Store!vars
<1>5. ASSUME NEW s \in Slots, FlipSwitch(s) PROVE Store!Next
  <2>1. UNCHANGED <<in_progress, offset, flash, fpga>> /\ sel' = s
    BY <1>5 DEF FlipSwitch, session
  <2>2. Store!Select(s)
    BY <1>1, <2>1 DEF Store!Select
  <2> QED
    BY <2>2 DEF Store!Next, Store!Slots, Slots
<1> QED
  BY <1>2, <1>3, <1>4, <1>5 DEF Next

\* For a host that neither cancels nor repeats nor mixes copies of one kind, the
\* device with its blocks, erases and power cuts shows a store in which a slot
\* holds a whole image or none, and the FPGA is loaded exactly when an image
\* becomes whole.
THEOREM SlotsImplemented == CarefulHost => (Spec => ImplementsSlotStore)
<1> SUFFICES ASSUME CarefulHost PROVE Spec => ImplementsSlotStore
  OBVIOUS
<1>1. Init => Store!Init
  <2> SUFFICES ASSUME Init PROVE Store!Init
    OBVIOUS
  <2>1. ASSUME NEW k \in Kinds, NEW s \in Slots PROVE ImageAt(flash[k], k, s) = None
    <3>1. Base(s) \in Addr
      <4>1. Base(s) + 0 \in Addr /\ Base(s) \in Nat
        BY OffsetType, SizesAssumption DEF Base
      <4> QED
        BY <4>1
    <3>2. flash[k][Base(s)] = Erased
      BY <3>1 DEF Init
    <3>3. ASSUME NEW f \in WholeFiles(flash[k], k, s) PROVE FALSE
      <4>1. f \in Files /\ <<f, 0>> = Erased
        BY <3>2, HeaderOfWhole
      <4> QED
        BY <4>1, ValuesAssumption DEF Pages
    <3> QED
      BY <3>3 DEF ImageAt
  <2>2. StoreImage = [k \in Kinds |-> [s \in Slots |-> None]]
    BY <2>1 DEF StoreImage
  <2>3. StoreWriting = [k \in Kinds |-> None]
    BY DEF StoreWriting, WritingAt, Init
  <2> QED
    BY <2>2, <2>3 DEF Init, Store!Init, Store!Chips, Kinds, Store!Slots, Slots
<1>2. SlotInv /\ SlotInv' /\ [Next]_vars => [Store!Next]_Store!vars
  <2> SUFFICES ASSUME SlotInv, SlotInv', [Next]_vars
               PROVE  Store!Next \/ UNCHANGED Store!vars
    OBVIOUS
  <2>1. CASE ProgramBlock
    BY <2>1, BlockSimulates
  <2>2. CASE PowerCycle
    BY <2>2, PowerCycleSimulates DEF Store!Next
  <2> QED
    BY <2>1, <2>2, OtherSimulates
<1>3. SlotInv /\ [Next]_vars => SlotInv'
  BY SlotNext
<1> QED
  BY PagesPlaced, <1>1, <1>2, <1>3, PTL DEF Spec, ImplementsSlotStore, Store!Spec

=============================================================================
