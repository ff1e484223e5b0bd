---------------------------- MODULE FlashProgram ----------------------------
(***************************************************************************)
(* Programming the two SPI flashes from UF2 files copied to the USB drive: *)
(* flash_program_uf2 (usb_msc/msc_disk.c), called once per UF2 buffer by   *)
(* the USB write callback, and startup_program_bitstream (usb_msc/main.c), *)
(* which loads the FPGA from the slot chosen by the select switch.         *)
(*                                                                         *)
(* The unit of flash is the page: 256 bytes, the payload of a UF2 block.   *)
(* A page is Erased, holds block n of file f (the pair <<f, n>>), or is    *)
(* Mixed: programmed without having been erased, or torn by a power cut.   *)
(* The host writes the clusters of a file in any order; one cluster is one *)
(* buffer of the callback.  The device handles it block after block.       *)
(***************************************************************************)
EXTENDS Integers, FiniteSets

CONSTANTS
  Files,          \* the UF2 files a user may copy
  FamilyId,       \* Files -> the family ID in every block of the file
  NumBlocks,      \* Files -> the number of blocks of the file
  Nibble,         \* Files -> the top nibble of the target address
  SlotPages,      \* the size of a flash slot (10 MB in the code), in pages
  ErasePages,     \* the size of an erase block (64 KB in the code), in pages
  BufBlocks,      \* the blocks in a buffer of the callback (8 in the code)
  HostOverlap,    \* which copies overlap: "never", "otherKind" or "any"
  HostMayAbort,   \* the user may cancel a copy half way
  HostMayRepeat,  \* the host may write the same cluster twice
  MaxBoots,       \* a bound on the power cycles, for model checking
  Erased, Mixed, None, Blank, Failed

Kinds == {"bitstream", "firmware"}      \* the two flash chips
Slots == 0..2
Addr  == 0..(3 * SlotPages - 1)
Pages == Files \X Nat                   \* block n of file f, as a page
Buffers == [file : Files, next : Nat, last : Nat]

ASSUME SizesAssumption ==
  /\ SlotPages \in Nat \ {0}
  /\ ErasePages \in Nat \ {0}
  /\ BufBlocks \in Nat \ {0}
  /\ MaxBoots \in Nat

ASSUME FilesAssumption ==
  /\ FamilyId \in [Files -> Nat]
  /\ NumBlocks \in [Files -> 1..SlotPages]
  /\ Nibble \in [Files -> 0..15]

\* The 64 KB blocks that a file covers lie within its slot.
ASSUME ErasureAssumption ==
  \A f \in Files, x \in Addr :
    x - (x % ErasePages) < NumBlocks[f] => x < SlotPages

ASSUME HostAssumption ==
  /\ HostOverlap \in {"never", "otherKind", "any"}
  /\ HostMayAbort \in BOOLEAN
  /\ HostMayRepeat \in BOOLEAN

ASSUME ValuesAssumption ==
  /\ Erased \notin Pages /\ Mixed \notin Pages /\ Erased # Mixed
  /\ Blank \notin Files /\ Failed \notin Files /\ Blank # Failed
  /\ None \notin Buffers \cup Files \cup Slots

VARIABLES
  in_progress,  \* [Kinds -> BOOLEAN]  state->in_progress
  blocks_left,  \* [Kinds -> Nat]      state->blocks_left
  offset,       \* [Kinds -> Nat]      state->offset
  flash,        \* [Kinds -> [Addr -> page]], the contents of the two chips
  fpga,         \* Blank, Failed or the bitstream file the FPGA is running
  sel,          \* the slot of the select switch
  loaded,       \* the slot the last startup_program_bitstream read
  active,       \* the files whose copy the host has begun and not ended
  left,         \* [Files -> blocks of the copy not yet handed to the device]
  buf,          \* the buffer being handled: [file, next, last], or None
  copied,       \* history: files copied to the end and not yet overwritten
  boots         \* the number of power cycles

session == <<in_progress, blocks_left, offset>>
host == <<active, left, copied>>
vars == <<session, flash, fpga, sel, loaded, host, buf, boots>>

-----------------------------------------------------------------------------
(* The UF2 file and the slot it is for. *)

SONATA_FIRMWARE_ID  == 1826791008   \* 0x6CE29E60
SONATA_BITSTREAM_ID == 1826791019   \* 0x6CE29E6B

KindOf(f) == CASE FamilyId[f] = SONATA_BITSTREAM_ID -> "bitstream"
               [] FamilyId[f] = SONATA_FIRMWARE_ID  -> "firmware"
               [] OTHER -> "unknown"

Slot(f) == IF Nibble[f] > 2 THEN 0 ELSE Nibble[f]

FLASH_BITSTREAM_OFFSET(s) ==
  CASE s = 0 -> 0
    [] s = 1 -> SlotPages
    [] OTHER -> SlotPages + SlotPages

TargetOffset(f) == FLASH_BITSTREAM_OFFSET(Slot(f))

Blocks(f) == 0..(NumBlocks[f] - 1)
SlotRange(s) == FLASH_BITSTREAM_OFFSET(s)
                  ..(FLASH_BITSTREAM_OFFSET(s) + SlotPages - 1)

\* Chip c holds the whole of f from offset off on; f, in its own slot.
StoredAt(c, off, f) == \A n \in Blocks(f) : c[off + n] = <<f, n>>
Stored(c, f) == StoredAt(c, TargetOffset(f), f)

-----------------------------------------------------------------------------
(* What the chips do. *)

\* Mutants: the first 64 KB block is left out; the whole chip is erased.
MutEraseLoopLate(c, off, n) ==
  [a \in Addr |-> IF a >= off + ErasePages /\ (a - off) - ((a - off) % ErasePages) < n
                    THEN Erased ELSE c[a]]
MutEraseLoopChip(c, off, n) == [a \in Addr |-> Erased]

\* The 64 KB erases from off until n pages are covered, begun at any page of
\* the chip whose erase block starts before off + n.
EraseLoop(c, off, n) ==
  [a \in Addr |-> IF a >= off /\ (a - off) - ((a - off) % ErasePages) < n
                    THEN Erased ELSE c[a]]

\* Programming only clears bits: over anything but an erased page, or the same
\* data, it leaves neither the old nor the new data.
ProgramPage(c, a, page) ==
  [c EXCEPT ![a] = IF c[a] \in {Erased, page} THEN page ELSE Mixed]

\* What a power cut leaves of a page write it interrupts.
TornPage(c, a) == [c EXCEPT ![a] = Mixed]

\* What a power cut leaves of the erases: those before page off + m done, the
\* next one not begun or torn.
PartErases(c, off, n) ==
  UNION {{EraseLoop(c, off, m),
          [a \in Addr |-> IF a >= off /\ (a - off) - ((a - off) % ErasePages) = m
                            THEN Mixed ELSE EraseLoop(c, off, m)[a]]} :
           m \in {i \in 0..(n - 1) : i % ErasePages = 0}}

-----------------------------------------------------------------------------
(* startup_program_bitstream: the header in the selected slot decides.     *)

\* No header: the FPGA is left as it was.  A header of which some bytes are
\* wrong may or may not be recognised.  A header with the rest of the file
\* missing starts a configuration that does not raise DONE.
LoadOutcomes(c, s, before) ==
  LET base == FLASH_BITSTREAM_OFFSET(s)
      headers == {f \in Files : c[base] = <<f, 0>>}
  IN  IF c[base] = Mixed THEN {before, Failed}
      ELSE IF headers = {} THEN {before}
      ELSE {IF StoredAt(c, base, f) THEN f ELSE Failed : f \in headers}

\* Mutant: the FPGA is not loaded.
MutStartupProgramBitstream(c, before) == fpga' = before /\ loaded' = sel

StartupProgramBitstream(c, before) ==
  /\ fpga' \in LoadOutcomes(c, sel, before)
  /\ loaded' = sel

-----------------------------------------------------------------------------
(* flash_program_uf2, for the next block of the buffer.                    *)

BufferAfterBlock ==
  IF buf.next = buf.last THEN None ELSE [buf EXCEPT !.next = @ + 1]

\* The session the block belongs to: the one in progress, or a new one.
SessionOffset(k, f) == IF in_progress[k] THEN offset[k] ELSE TargetOffset(f)

\* Mutants of the count a session starts with: one too many, one too few, and
\* what the last session left.
MutSessionLeftLong(k, f) == IF in_progress[k] THEN blocks_left[k] ELSE NumBlocks[f] + 1
MutSessionLeftShort(k, f) == IF in_progress[k] THEN blocks_left[k] ELSE NumBlocks[f] - 1
MutSessionLeftStale(k, f) == blocks_left[k]
SessionLeft(k, f) == IF in_progress[k] THEN blocks_left[k] ELSE NumBlocks[f]

\* Mutant: nothing is erased.
MutSessionChip(k, f) == flash[k]
SessionChip(k, f) == IF in_progress[k]
                       THEN flash[k]
                       ELSE EraseLoop(flash[k], TargetOffset(f), NumBlocks[f])

\* Mutant: fpga_erase is not called.
MutSessionFpga(k) == fpga
SessionFpga(k) == IF in_progress[k] THEN fpga ELSE Blank   \* fpga_erase

ChipAfterBlock(k, f, n) ==
  ProgramPage(SessionChip(k, f), SessionOffset(k, f) + n, <<f, n>>)

\* A block of a known family: open a session if none is in progress, write the
\* block, count it, and when it was the last one reprogram the FPGA.
ProgramBlock ==
  /\ buf # None
  /\ LET f == buf.file
         k == KindOf(f)
         chip == ChipAfterBlock(k, f, buf.next)
         remaining == SessionLeft(k, f) - 1
     IN  /\ k \in Kinds
         /\ flash' = [flash EXCEPT ![k] = chip]
         /\ offset' = [offset EXCEPT ![k] = SessionOffset(k, f)]
         /\ blocks_left' = [blocks_left EXCEPT ![k] = remaining]
         /\ in_progress' = [in_progress EXCEPT ![k] = remaining # 0]
         /\ \/ /\ remaining = 0
               /\ StartupProgramBitstream(flash'["bitstream"], SessionFpga(k))
            \/ /\ remaining # 0
               /\ fpga' = SessionFpga(k)
               /\ UNCHANGED loaded
  /\ buf' = BufferAfterBlock
  /\ UNCHANGED <<sel, host, boots>>

\* A block of an unknown family: return -1, the rest of the buffer is skipped.
RejectBlock ==
  /\ buf # None
  /\ KindOf(buf.file) = "unknown"
  /\ buf' = None
  /\ UNCHANGED <<session, flash, fpga, sel, loaded, host, boots>>

-----------------------------------------------------------------------------
(* The host, the switch and the power. *)

SameDestination(f, g) == KindOf(f) = KindOf(g) /\ Slot(f) = Slot(g)

MayOverlap(f, g) == \/ HostOverlap = "any"
                    \/ HostOverlap = "otherKind" /\ KindOf(f) # KindOf(g)

BeginCopy(f) ==
  /\ f \notin active
  /\ \A g \in active : MayOverlap(f, g)
  /\ active' = active \cup {f}
  /\ left' = [left EXCEPT ![f] = Blocks(f)]
  /\ copied' = {g \in copied : ~ SameDestination(f, g)}
  /\ UNCHANGED <<session, flash, fpga, sel, loaded, buf, boots>>

ClusterEnd(f, n) ==
  IF n + BufBlocks < NumBlocks[f] THEN n + BufBlocks - 1 ELSE NumBlocks[f] - 1

HandOver(f, n) ==
  /\ f \in active
  /\ buf = None
  /\ n % BufBlocks = 0
  /\ buf' = [file |-> f, next |-> n, last |-> ClusterEnd(f, n)]
  /\ UNCHANGED <<session, flash, fpga, sel, loaded, active, copied, boots>>

\* The clusters come in any order.
SendCluster(f, n) ==
  /\ n..ClusterEnd(f, n) \subseteq left[f]
  /\ HandOver(f, n)
  /\ left' = [left EXCEPT ![f] = @ \ (n..ClusterEnd(f, n))]

ResendCluster(f, n) ==
  /\ HostMayRepeat
  /\ n \in Blocks(f) \ left[f]
  /\ HandOver(f, n)
  /\ UNCHANGED left

EndCopy(f) ==
  /\ f \in active
  /\ left[f] = {}
  /\ buf # None => buf.file # f
  /\ active' = active \ {f}
  /\ copied' = copied \cup {f}
  /\ UNCHANGED <<session, flash, fpga, sel, loaded, left, buf, boots>>

AbortCopy(f) ==
  /\ HostMayAbort
  /\ f \in active
  /\ active' = active \ {f}
  /\ left' = [left EXCEPT ![f] = {}]
  /\ UNCHANGED <<session, flash, fpga, sel, loaded, buf, copied, boots>>

FlipSwitch(s) ==
  /\ sel' = s
  /\ s # sel
  /\ UNCHANGED <<session, flash, fpga, loaded, host, buf, boots>>

\* The chips a power cut may leave, when the next block of the buffer is
\* of kind k: anywhere in its erases or in its page write.
CutChips(k) ==
  LET f == buf.file IN
    {SessionChip(k, f),
     TornPage(SessionChip(k, f), SessionOffset(k, f) + buf.next),
     ChipAfterBlock(k, f, buf.next)}
      \cup (IF in_progress[k]
              THEN {} ELSE PartErases(flash[k], TargetOffset(f), NumBlocks[f]))

\* Power is lost and comes back: main resets every session, erases the FPGA
\* and loads it from the selected slot.  The host starts every copy anew.
PowerCycle ==
  /\ boots < MaxBoots
  /\ boots' = boots + 1
  /\ \/ UNCHANGED flash
     \/ /\ buf # None
        /\ KindOf(buf.file) \in Kinds
        /\ \E c \in CutChips(KindOf(buf.file)) :
             flash' = [flash EXCEPT ![KindOf(buf.file)] = c]
  /\ in_progress' = [k \in Kinds |-> FALSE]
  /\ blocks_left' = [k \in Kinds |-> 0]
  /\ offset' = [k \in Kinds |-> 0]
  /\ StartupProgramBitstream(flash'["bitstream"], Blank)
  /\ active' = {}
  /\ left' = [f \in Files |-> {}]
  /\ buf' = None
  /\ UNCHANGED <<sel, copied>>

-----------------------------------------------------------------------------
Init ==
  /\ in_progress = [k \in Kinds |-> FALSE]
  /\ blocks_left = [k \in Kinds |-> 0]
  /\ offset = [k \in Kinds |-> 0]
  /\ flash = [k \in Kinds |-> [a \in Addr |-> Erased]]
  /\ fpga = Blank
  /\ sel \in Slots
  /\ loaded = sel
  /\ active = {}
  /\ left = [f \in Files |-> {}]
  /\ buf = None
  /\ copied = {}
  /\ boots = 0

Send(f) == \E n \in Blocks(f) : SendCluster(f, n)

Next ==
  \/ ProgramBlock
  \/ RejectBlock
  \/ \E f \in Files :
       \/ BeginCopy(f)
       \/ Send(f)
       \/ \E n \in Blocks(f) : ResendCluster(f, n)
       \/ EndCopy(f)
       \/ AbortCopy(f)
  \/ \E s \in Slots : FlipSwitch(s)
  \/ PowerCycle

Spec == Init /\ [][Next]_vars

\* The main loop polls USB forever, and a callback runs to its end.  A host
\* that has begun a copy and does not abort it sends the rest of it.
Fairness ==
  /\ WF_vars(ProgramBlock \/ RejectBlock)
  /\ \A f \in Files : SF_vars(Send(f)) /\ WF_vars(EndCopy(f))

FairSpec == Spec /\ Fairness

-----------------------------------------------------------------------------
TypeOK ==
  /\ in_progress \in [Kinds -> BOOLEAN]
  /\ blocks_left \in [Kinds -> 0..SlotPages]
  /\ offset \in [Kinds -> {FLASH_BITSTREAM_OFFSET(s) : s \in Slots}]
  /\ flash \in [Kinds -> [Addr -> Pages \cup {Erased, Mixed}]]
  /\ fpga \in Files \cup {Blank, Failed}
  /\ sel \in Slots
  /\ loaded \in Slots
  /\ active \subseteq Files
  /\ left \in [Files -> SUBSET (0..(SlotPages - 1))]
  /\ \/ buf = None
     \/ /\ buf \in Buffers
        /\ buf.next <= buf.last
        /\ buf.last \in Blocks(buf.file)
  /\ copied \subseteq Files
  /\ boots \in Nat

\* Whatever the host does, the count of an open session is not used up, so that
\* blocks_left-- never wraps around.
BlocksLeftPositive == \A k \in Kinds : in_progress[k] => blocks_left[k] > 0

\* A bitstream or firmware file that was copied to the end, and whose slot no
\* later copy has taken, is in its slot block for block, whatever the order of
\* its clusters, the copies that ran beside it and the power cuts before it.
WholeImage ==
  \A f \in copied : KindOf(f) \in Kinds => Stored(flash[KindOf(f)], f)

\* A session never outlives the copy it serves: when the host has sent the last
\* block, the device has counted it as the last one.
SessionHasCopy ==
  \A k \in Kinds : in_progress[k] => \E f \in active : KindOf(f) = k

\* While a session is open the FPGA is erased: "the FPGA will be erased" during
\* the programming of either flash, so that it cannot disturb the chips.
FpgaErasedInSession == \A k \in Kinds : in_progress[k] => fpga = Blank

\* When no session is open the FPGA runs exactly the image of the slot that
\* was selected when it was last loaded.
FpgaRunsSelected ==
  (\A k \in Kinds : ~ in_progress[k]) =>
     \A f \in Files :
       flash["bitstream"][FLASH_BITSTREAM_OFFSET(loaded)] = <<f, 0>> =>
         fpga = IF StoredAt(flash["bitstream"], FLASH_BITSTREAM_OFFSET(loaded), f)
                  THEN f ELSE Failed

\* The block that closes a session is the last one of its file to arrive: the
\* whole file is in flash when the FPGA is loaded again.
LastBlockStep ==
  \A k \in Kinds :
    in_progress[k] /\ ~ in_progress'[k] /\ boots' = boots =>
      Stored(flash'[k], buf.file)
LastBlockCompletes == [][LastBlockStep]_vars

\* Without a power cut a page that is programmed was erased before: no page
\* ever becomes a mixture of two writes.
NoMixingStep ==
  boots' = boots =>
    \A k \in Kinds, a \in Addr : flash'[k][a] = Mixed => flash[k][a] = Mixed
NeverMixes == [][NoMixingStep]_vars

\* A copy changes the chip and the slot its blocks name, and nothing else:
\* neither the erases, which cover whole 64 KB blocks, nor a torn write reach
\* the image of another slot.
OwnSlotStep ==
  \A k \in Kinds, a \in Addr :
    flash'[k][a] # flash[k][a] =>
      /\ buf # None
      /\ KindOf(buf.file) = k
      /\ a \in SlotRange(Slot(buf.file))
TouchesOwnSlotOnly == [][OwnSlotStep]_vars

\* README.md:18-21: the select switch "controls both where bitstream/firmware
\* are written to when programming, as well as where bitstreams are loaded from".
WritesToSelectedSlot ==
  [][\A k \in Kinds :
       ~ in_progress[k] /\ in_progress'[k] =>
         offset'[k] = FLASH_BITSTREAM_OFFSET(sel)]_vars

\* Every session that is opened ends, with the FPGA loaded again.
SessionEnds == \A k \in Kinds : in_progress[k] ~> ~ in_progress[k]

-----------------------------------------------------------------------------
(* Why whole copies become whole images: an inductive invariant, for a     *)
(* host that neither cancels nor repeats nor mixes two copies of one kind. *)

CarefulHost == ~ HostMayAbort /\ ~ HostMayRepeat /\ HostOverlap # "any"

\* The blocks of the copy of f that the device has not yet handled.
Pending(f) ==
  left[f] \cup IF buf # None /\ buf.file = f THEN buf.next..buf.last ELSE {}

OneCopyPerKind ==
  \A f, g \in active : KindOf(f) = KindOf(g) => f = g

BufferOfCopy ==
  /\ \A f \in Files : left[f] \subseteq Blocks(f)
  /\ buf # None => /\ buf.file \in active
                   /\ (buf.next..buf.last) \cap left[buf.file] = {}

\* A session counts the pending blocks of its copy; their pages are erased, and
\* the pages of all other blocks are written.
SessionOf(k, f) ==
  /\ KindOf(f) = k
  /\ offset[k] = TargetOffset(f)
  /\ blocks_left[k] = Cardinality(Pending(f))
  /\ \A n \in Blocks(f) :
       flash[k][TargetOffset(f) + n] = IF n \in Pending(f) THEN Erased ELSE <<f, n>>

SessionsExact == \A k \in Kinds : in_progress[k] => \E f \in active : SessionOf(k, f)

\* A copy without a session has not begun or has ended.
CopiesExact ==
  \A f \in active :
    KindOf(f) \in Kinds /\ ~ in_progress[KindOf(f)] =>
      \/ Pending(f) = Blocks(f)
      \/ Pending(f) = {} /\ Stored(flash[KindOf(f)], f)

CopiedSafe ==
  \A f \in copied : \A g \in active : ~ SameDestination(f, g)

\* The parts above together; WholeImage alone does not say why it lasts.
CarefulInv ==
  /\ TypeOK
  /\ BlocksLeftPositive
  /\ OneCopyPerKind
  /\ BufferOfCopy
  /\ SessionsExact
  /\ CopiesExact
  /\ CopiedSafe
  /\ WholeImage

\* A page that holds a block holds it where the file it is of has its place: a
\* header found in a slot is that of a file for this slot and chip.
Placed(c, k) ==
  \A a \in Addr :
    c[a] \notin {Erased, Mixed} =>
      \E f \in Files : /\ KindOf(f) = k
                        /\ \E n \in Blocks(f) : a = TargetOffset(f) + n /\ c[a] = <<f, n>>

\* With it the two sides of ImplementsSlotStore agree on what the FPGA loads.
SlotInv == CarefulInv /\ \A k \in Kinds : Placed(flash[k], k)

-----------------------------------------------------------------------------
(* What SlotStore sees of this state: the files that are whole in their    *)
(* slot, and the slots that are being written.                             *)

WholeFiles(c, k, s) ==
  {f \in Files : KindOf(f) = k /\ Slot(f) = s /\ Stored(c, f)}

ImageAt(c, k, s) ==
  IF WholeFiles(c, k, s) = {} THEN None ELSE CHOOSE f \in WholeFiles(c, k, s) : TRUE

SlotAt(off) == CHOOSE s \in Slots : FLASH_BITSTREAM_OFFSET(s) = off
WritingAt(k) == IF in_progress[k] THEN SlotAt(offset[k]) ELSE None

KnownFiles == {f \in Files : KindOf(f) \in Kinds}
StoreImage == [k \in Kinds |-> [s \in Slots |-> ImageAt(flash[k], k, s)]]
StoreWriting == [k \in Kinds |-> WritingAt(k)]

Store == INSTANCE SlotStore WITH
  Images <- KnownFiles,
  Chip <- [f \in KnownFiles |-> KindOf(f)],
  Place <- [f \in KnownFiles |-> Slot(f)],
  Nothing <- None, Off <- Blank, Bad <- Failed,
  image <- StoreImage, writing <- StoreWriting

\* Each slot holds a whole image or nothing usable, changes only from one to
\* the other, and the FPGA is loaded exactly when an image becomes whole.
ImplementsSlotStore == Store!Spec

=============================================================================
