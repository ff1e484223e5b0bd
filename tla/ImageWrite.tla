------------------------------ MODULE ImageWrite ------------------------------
(***************************************************************************)
(* One UF2 file on its way into the bitstream flash, byte by byte: the     *)
(* addresses and the erase computed from the block that came first         *)
(* (flash_program_uf2, usb_msc/msc_disk.c), the split of a payload into    *)
(* pages (spi_flash_write_buffer, usb_msc/flash_util.c), the comparison    *)
(* with what is read back, and the load at the end (BitstreamLoad).        *)
(*                                                                         *)
(* FlashProgram has the sessions of both chips, with hosts and power cuts, *)
(* but blocks of exactly one page and a chip that does not fail.           *)
(***************************************************************************)
EXTENDS BitstreamLoad

CONSTANTS
  PageSize,   \* 256
  EraseSize,  \* CONST_64k
  Files,      \* sets of UF2 files: sequences of payloads, in the order of blockNo
  OldFlash,   \* what the flash may hold at first
  MaxFaults   \* a bound on the failures of the chip

\* Each file fits into the flash, and into the uint32_t of uf2_get_filesize.
ASSUME WriteAssumption ==
  /\ PageSize \in Nat \ {0} /\ EraseSize \in Nat \ {0}
  /\ EraseSize % PageSize = 0 /\ FlashSize % EraseSize = 0
  /\ Files \subseteq Seq(Seq(Byte) \ {<< >>}) /\ MaxFaults \in Nat
  /\ \A f \in Files : f # << >> /\ \A i \in DOMAIN f :
       Len(f) * Len(f[i]) <= FlashSize /\ Len(f) * Len(f[i]) < Word
  /\ OldFlash \subseteq [Address -> Byte]

VARIABLES
  file,      \* the file that is or was copied; << >> before that
  toSend,    \* the blockNos the host has still to send
  session,   \* [open, left, size]: in_progress, blocks_left, block_size
  block,     \* the blockNo of the block in hand
  written,   \* bytes_written
  reported,  \* history: an error was printed for a block of the file
  opener,    \* history: the blockNo that opened the session
  faults     \* the number of times the chip has failed

writeVars == <<file, toSend, session, block, written, reported, opener, faults>>
vars == <<loadVars, writeVars>>

Blocks(f) == 0..(Len(f) - 1)
Payload(n) == file[n + 1]
Image(f) == FlattenSeq(f)

\* cur_blk->data: what is behind the payload is 0.
Data(n, k) == IF k < Len(Payload(n)) THEN Payload(n)[k + 1] ELSE {}

-----------------------------------------------------------------------------
(* The chip.  A faulty erase or program leaves one byte as it was. *)

Chip(after, touched) ==
  \/ flash' = after /\ UNCHANGED faults
  \/ /\ faults < MaxFaults
     /\ faults' = faults + 1
     /\ \E a \in touched : flash' = [after EXCEPT ![a] = flash[a]]

-----------------------------------------------------------------------------
StartCopy(f) ==
  /\ pc = "idle" /\ file = << >>
  /\ file' = f
  /\ toSend' = Blocks(f)
  /\ UNCHANGED <<loadVars, session, block, written, reported, opener, faults>>

\* The 64 KB blocks at 0, 64 KB, ... below uf2_get_filesize.
EraseRange(bytes) ==
  {a \in Address : a < ((bytes + (EraseSize - 1)) \div EraseSize) * EraseSize}

BlockAddr(n) == n * session.size

OpenSession(n) ==
  LET range == EraseRange(Len(Payload(n)) * Len(file))
  IN  /\ session' = [open |-> TRUE, left |-> Len(file), size |-> Len(Payload(n))]
      /\ opener' = n
      /\ fpga' = << >>
      /\ Chip([a \in Address |-> IF a \in range THEN Erased ELSE flash[a]], range)

Block(n) ==
  /\ pc \in {"idle", "session"}
  /\ n \in toSend
  /\ toSend' = toSend \ {n}
  /\ IF session.open THEN UNCHANGED <<session, opener, fpga, flash, faults>> ELSE OpenSession(n)
  /\ UNCHANGED <<left, crc, file, reported>>
  /\ block' = n
  /\ addr' = BlockAddr(n)'
  /\ written' = 0
  /\ pc' = "write"

WithinPage(a, n) == a + n <= (a - (a % PageSize)) + PageSize

\* Mutant: no bound but the length, which runs over the end of the page.
MutPieceLen(a, len) == len

PieceLen(a, len) ==
  LET nextPage == (a + PageSize) - ((a + PageSize) % PageSize)
  IN  IF nextPage - a < len THEN nextPage - a ELSE len

\* One turn of the loop of spi_flash_write_buffer.
WritePiece ==
  LET n == PieceLen(addr, Len(Payload(block)))
      piece == {(addr + k) % FlashSize : k \in 0..(n - 1)}
      new(a) == Data(block, written + ((a - addr) % FlashSize))
  IN  /\ pc = "write"
      /\ IF WithinPage(addr, n)
           THEN /\ Chip([a \in Address |->
                           IF a \in piece THEN flash[a] \cap new(a) ELSE flash[a]], piece)
                /\ addr' = addr + n
                /\ written' = written + n
                /\ pc' = IF written' < Len(Payload(block)) THEN "write" ELSE "verify"
                /\ UNCHANGED reported
           ELSE /\ pc' = "verify"
                /\ reported' = TRUE
                /\ UNCHANGED <<flash, faults, addr, written>>
      /\ UNCHANGED <<left, fpga, crc, file, toSend, session, block, opener>>

\* Mutant: the comparison stops one byte early.
MutVerified(n) ==
  LET len == Len(Payload(n))
  IN  SpiFlashRead(BlockAddr(n), len - 1) = SubSeq(Payload(n), 1, len - 1)

Verified(n) == SpiFlashRead(BlockAddr(n), Len(Payload(n))) = Payload(n)

\* A block that does not verify is reported, and counted all the same.
VerifyAndCount ==
  /\ pc = "verify"
  /\ reported' = (reported \/ ~ Verified(block))
  /\ session' = [session EXCEPT !.left = @ - 1, !.open = (@ /\ session.left # 1)]
  /\ pc' = IF session'.open THEN "session" ELSE "load"
  /\ UNCHANGED <<flash, left, addr, fpga, crc, file, toSend, block, written, opener, faults>>

LoadFpga == Load /\ UNCHANGED writeVars

\* At boot the FPGA has just been erased and a load is about to begin.
Init ==
  /\ flash \in OldFlash
  /\ pc = "load" /\ left = 0 /\ addr = 0 /\ fpga = << >> /\ crc = {}
  /\ file = << >> /\ toSend = {} /\ session = [open |-> FALSE, left |-> 0, size |-> 0]
  /\ block = 0 /\ written = 0 /\ reported = FALSE /\ opener = 0 /\ faults = 0

Next ==
  \/ \E f \in Files : StartCopy(f)
  \/ \E n \in toSend : Block(n)
  \/ WritePiece
  \/ VerifyAndCount
  \/ LoadFpga

Spec == Init /\ [][Next]_vars

-----------------------------------------------------------------------------
TypeOK ==
  /\ flash \in [Address -> Byte]
  /\ pc \in {"load", "send", "idle", "session", "write", "verify"}
  /\ left \in 0..(Word - 1)
  /\ addr \in Nat /\ (pc = "write" => addr < FlashSize)
  /\ \A i \in DOMAIN fpga : fpga[i] \in Byte
  /\ crc \subseteq 0..(CrcBits - 1)
  /\ toSend \subseteq Blocks(file)
  /\ session \in [open : BOOLEAN, left : 0..Len(file), size : Nat]
  /\ session.open <=> session.left > 0
  /\ {block, opener} \subseteq Nat
  /\ reported \in BOOLEAN /\ faults \in 0..MaxFaults

\* "a maximum block size of 256 bytes" (README.md:9-10) is not enough for a file
\* to be written well: its blocks, but the last, must be of one size that divides
\* a page or is a multiple of it, and a shorter last block must not come first.
Regular ==
  LET size == Len(file[1])
  IN  /\ PageSize % size = 0 \/ size % PageSize = 0
      /\ \A i \in 1..(Len(file) - 1) : Len(file[i]) = size
      /\ Len(file[Len(file)]) <= size
      /\ Len(file[opener + 1]) = size

\* The session has ended and the image has not been replaced since.
Finished == file # << >> /\ toSend = {} /\ pc \in {"load", "send", "idle"}

Stored == SpiFlashRead(0, Len(Image(file))) = Image(file)

\* The verification is worth what it seems to be: if no error was printed for any
\* block, the flash holds exactly the file, even though each block is compared
\* when it is written and others of its page are written later.
NoSilentDamage == Finished /\ Regular => Stored \/ reported

\* And an error is only printed if the chip has failed: the split into pieces
\* never runs into the check of the page program, and no block damages another.
NoFalseAlarm == file # << >> /\ reported /\ Regular => faults > 0

\* A copied bitstream reaches the FPGA: what it is sent is the file up to the
\* length in its header, from flash that was written in another order.
FpgaGetsFile ==
  LET b == [i \in 0..(HeaderSize - 1) |->
              IF i < Len(Image(file)) THEN Image(file)[i + 1] ELSE Erased]
  IN  Finished /\ pc = "idle" /\ Regular /\ ~ reported =>
        \A o \in 0..(HeaderSize - LengthSize) :
          WellFormed(b, o) /\ LengthAt(b, o) + o + LengthSize = Len(Image(file)) =>
            fpga = Image(file)

=============================================================================
