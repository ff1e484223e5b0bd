---------------------------- MODULE BitstreamLoad ----------------------------
(***************************************************************************)
(* startup_program_bitstream (usb_msc/main.c): the search of the first     *)
(* bytes of a slot for a Xilinx header with the length of the bitstream    *)
(* (usb_msc/fpga_program.c), and the loop that sends that many bytes to    *)
(* the FPGA and computes their CRC (usb_msc/crc32.c).                      *)
(*                                                                         *)
(* A byte is the set of its bits that are 1, so that the NOR flash ANDs    *)
(* with \cap.  Addresses count from the base of the slot.                  *)
(***************************************************************************)
EXTENDS Integers, SequencesExt

CONSTANTS
  Bits,        \* of a byte
  FlashSize,   \* bytes from the base of the slot until the chip wraps around
  HeaderSize,  \* what is searched for the header: 256
  BufferSize,  \* sizeof(TEST_RD_BUF)
  LengthSize,  \* the bytes of the length, and of a uint32_t: 4
  Sync,        \* magic_seq
  CrcBits,     \* of a CRC
  CrcTable     \* crc32c_table

Byte == SUBSET (0..(Bits - 1))
Erased == 0..(Bits - 1)     \* 0xFF
Word == 2 ^ (Bits * LengthSize)
Address == 0..(FlashSize - 1)

\* The sync word, the bytes 00 00 00 BB 11 22 00 44, has no byte of the padding and is
\* not shorter than the length.
ASSUME LoadAssumption ==
  /\ Bits \in Nat \ {0} /\ CrcBits \in Nat \ {0}
  /\ FlashSize \in Nat \ {0} /\ BufferSize \in Nat \ {0}
  /\ LengthSize \in Nat \ {0} /\ HeaderSize \in 1..BufferSize
  /\ Sync \in Seq(Byte) /\ Len(Sync) \in LengthSize..(HeaderSize - 1)
  /\ \A k \in 1..Len(Sync) : Sync[k] # Erased
  /\ CrcTable \in [Byte -> SUBSET (0..(CrcBits - 1))]

VARIABLES
  flash,  \* [Address -> Byte]
  pc,     \* what the processor is doing
  left,   \* bs_len
  addr,   \* the next address: flash_addr, or where a write goes on
  fpga,   \* the bytes sent to the FPGA since it was last erased
  crc     \* their CRC, for the log

loadVars == <<flash, pc, left, addr, fpga, crc>>

-----------------------------------------------------------------------------
(* The header.  b is a buffer of HeaderSize bytes, from 0 on. *)

\* Where the sync word is found: behind a byte 0xFF, and not at the very end.
SyncsIn(b) ==
  {i \in 0..(HeaderSize - Len(Sync) - 1) :
     /\ \A k \in 1..Len(Sync) : b[i + k - 1] = Sync[k]
     /\ \E f \in 0..i : b[f] = Erased}

\* The search goes back from the first sync word over the padding.
BeforePadding(b) ==
  {p \in 0..(HeaderSize - 1) :
     b[p] # Erased /\ \A i \in SyncsIn(b) : p < i}

\* Mutant: the final step to the first byte of the length is missing.
MutFindBitstreamLenOffset(b) ==
  LET S == BeforePadding(b)
      last == CHOOSE p \in S : \A q \in S : q <= p
  IN  IF SyncsIn(b) = {} \/ last <= LengthSize - 1 THEN -1 ELSE last - LengthSize

\* For a buffer in which some byte is before the padding.
FindBitstreamLenOffset(b) ==
  LET S == BeforePadding(b)
      last == CHOOSE p \in S : \A q \in S : q <= p
  IN  IF SyncsIn(b) = {} \/ last <= LengthSize - 1 THEN -1 ELSE last - LengthSize + 1

\* A byte as a number.
ByteValue(b) == FoldSet(LAMBDA i, n : n + 2 ^ i, 0, b)

\* BE_4U8_TO_U32
BigEndian(s) == FoldLeft(LAMBDA n, b : n * 2 ^ Bits + ByteValue(b), 0, s)

LengthAt(b, o) == BigEndian([k \in 1..LengthSize |-> b[o + k - 1]])

\* Mutant: the header in front of the length is not counted.
MutGetBitstreamLength(b) ==
  IF SyncsIn(b) # {} /\ BeforePadding(b) = {} THEN 0..(Word - 1)
  ELSE LET o == FindBitstreamLenOffset(b)
       IN  {IF o < 0 THEN 0 ELSE (LengthAt(b, o) + LengthSize) % Word}

\* What get_bitstream_length may return.  When the padding begins the buffer the
\* uint16_t wraps around, and the length is that of any memory behind.
GetBitstreamLength(b) ==
  IF SyncsIn(b) # {} /\ BeforePadding(b) = {} THEN 0..(Word - 1)
  ELSE LET o == FindBitstreamLenOffset(b)
       IN  {IF o < 0 THEN 0 ELSE (LengthAt(b, o) + o + LengthSize) % Word}

-----------------------------------------------------------------------------
(* The CRC. *)

Xor(c, d) == (c \ d) \cup (d \ c)
Complement(c) == Xor(c, 0..(CrcBits - 1))

CrcByte(c, b) ==
  Xor(CrcTable[Xor(c, b) \cap (0..(Bits - 1))], {i - Bits : i \in {j \in c : j >= Bits}})

Crc32c(c, data) == Complement(FoldLeft(CrcByte, Complement(c), data))

-----------------------------------------------------------------------------
(* startup_program_bitstream *)

SpiFlashRead(a, len) == [k \in 1..len |-> flash[(a + k - 1) % FlashSize]]

Header == [i \in 0..(HeaderSize - 1) |-> flash[i % FlashSize]]

\* With no bitstream the FPGA is left as it is.
ReadHeader ==
  /\ pc = "load"
  /\ left' \in GetBitstreamLength(Header)
  /\ IF left' > 0
       THEN pc' = "send" /\ fpga' = << >> /\ crc' = {} /\ addr' = 0
       ELSE pc' = "idle" /\ UNCHANGED <<fpga, crc, addr>>
  /\ UNCHANGED flash

\* Mutant: each chunk fills the buffer.
MutReadLen(n) == BufferSize

ReadLen(n) == IF n < BufferSize THEN n ELSE BufferSize

SendChunk ==
  LET chunk == SpiFlashRead(addr, ReadLen(left))
  IN  /\ pc = "send"
      /\ fpga' = fpga \o chunk
      /\ crc' = Crc32c(crc, chunk)
      /\ left' = left - ReadLen(left)
      /\ addr' = addr + ReadLen(left)
      /\ pc' = IF left' = 0 THEN "idle" ELSE "send"
      /\ UNCHANGED flash

Load == ReadHeader \/ SendChunk

-----------------------------------------------------------------------------
\* A header as Xilinx tools write it, with the length at o: text, the length,
\* padding, the sync word.  The text has no byte 0xFF, and the length does not
\* end in one.
WellFormed(b, o) ==
  /\ o > 0 /\ \A p \in 0..(o - 1) : b[p] # Erased
  /\ b[o + LengthSize - 1] # Erased
  /\ \E i \in (o + LengthSize + 1)..(HeaderSize - Len(Sync) - 1) :
       /\ \A p \in (o + LengthSize)..(i - 1) : b[p] = Erased
       /\ \A k \in 1..Len(Sync) : b[i + k - 1] = Sync[k]

\* "length of everything after the size in the header" (fpga_program.c:156): once
\* a bitstream with a proper header has been loaded, the FPGA has been sent the
\* header and as many bytes as the header says, in order and none twice, and the
\* CRC that is logged, though computed chunk by chunk, is that of all of them.
SendsBitstream ==
  pc = "idle" =>
    \A o \in 0..(HeaderSize - LengthSize) :
      WellFormed(Header, o) /\ LengthAt(Header, o) + o + LengthSize < Word =>
        /\ fpga = SpiFlashRead(0, LengthAt(Header, o) + o + LengthSize)
        /\ crc = Crc32c({}, fpga)

\* Whatever is in the flash, torn or not a bitstream at all: what is sent is
\* nothing, or as long as some four bytes of the header say, unless the padding
\* is the first thing in the slot.
LengthFromHeader ==
  pc = "idle" /\ Header[0] # Erased /\ fpga # << >> =>
    \E o \in 0..(HeaderSize - LengthSize) :
      Len(fpga) = (LengthAt(Header, o) + o + LengthSize) % Word

=============================================================================
