--------------------------- MODULE ImageWrite_proofs ---------------------------
(***************************************************************************)
(* A UF2 file is in the bitstream flash, and in the FPGA after that, when  *)
(* its copy has ended and no error was printed: for flash, pages, erase    *)
(* blocks and files of any size, blocks in any order, and a chip that      *)
(* fails at any erase or program.                                          *)
(*                                                                         *)
(* The invariant says what each block compared so far is worth: it is      *)
(* still in its slot, because the pieces written later are in other slots  *)
(* (SentInv).  As long as the chip has not failed, what is not written yet *)
(* is erased, so that each comparison succeeds (CleanInv).                 *)
(***************************************************************************)
EXTENDS ImageWrite, BitstreamLoad_proofs

\* A block of the file has been taken from the host.
Started == toSend # Blocks(file)

\* What a session counts, and where its write is.
SessionInv ==
  /\ file = << >> \/ file \in Files
  /\ toSend \subseteq Blocks(file)
  /\ session \in [open : BOOLEAN, left : Nat, size : Nat]
  /\ session.open <=> pc \in {"session", "write", "verify"}
  /\ session.left = IF session.open
                      THEN Cardinality(toSend) + (IF pc = "session" THEN 0 ELSE 1)
                      ELSE 0
  /\ session.open => Started /\ session.left > 0
  /\ ~ session.open => toSend = {} \/ ~ Started
  /\ Started => opener \in Blocks(file) /\ session.size = Len(Payload(opener))
  /\ pc \in {"write", "verify"} => block \in Blocks(file) \ toSend
  /\ pc = "write" => /\ written \in 0..(Len(Payload(block)) - 1)
                     /\ addr = BlockAddr(block) + written
  /\ ~ Started => ~ reported

BitInv ==
  /\ FlashTyped
  /\ pc \in {"load", "send", "idle", "session", "write", "verify"}
  /\ left \in 0..(Word - 1) /\ addr \in Nat
  /\ fpga \in Seq(Byte) /\ crc \in Register
  /\ pc \in {"session", "write", "verify"} => fpga = << >>
  /\ {block, opener} \subseteq Nat
  /\ reported \in BOOLEAN /\ faults \in 0..MaxFaults

\* Pages begin where the pieces of a regular file's block do.
PieceInv ==
  pc = "write" /\ Regular =>
    /\ PageSize % session.size = 0 => written = 0
    /\ session.size % PageSize = 0 => written % PageSize = 0

\* The bytes of block n are those of the file.
Holds(n) == \A k \in 0..(Len(Payload(n)) - 1) : flash[BlockAddr(n) + k] = Payload(n)[k + 1]

\* The blocks that were compared are still as they were read.
SentInv ==
  Started /\ Regular /\ ~ reported =>
    \A n \in Blocks(file) \ toSend : Holds(n) \/ (n = block /\ pc \in {"write", "verify"})

\* As long as the chip has not failed, what is still to be written is erased.
CleanInv ==
  Started /\ Regular /\ faults = 0 =>
    /\ ~ reported
    /\ \A n \in toSend : \A k \in 0..(Len(Payload(n)) - 1) : flash[BlockAddr(n) + k] = Erased
    /\ pc = "write" => \A k \in 0..(Len(Payload(block)) - 1) :
         flash[BlockAddr(block) + k] = IF k < written THEN Payload(block)[k + 1] ELSE Erased
    /\ pc = "verify" => Holds(block)

Inv == BitInv /\ LoadInv /\ SessionInv /\ PieceInv /\ SentInv /\ CleanInv
-----------------------------------------------------------------------------
(* Numbers. *)

\* Quotient and remainder.
LEMMA Division ==
  ASSUME NEW n \in Nat, NEW d \in Nat \ {0}
  PROVE  /\ n \div d \in Nat /\ n % d \in Nat /\ n % d < d
         /\ n = (n \div d) * d + (n % d)
  OBVIOUS

\* A remainder of a smaller number is the number.
LEMMA SmallMod == \A d \in Nat \ {0} : \A n \in 0..(d - 1) : n % d = n
  OBVIOUS

\* Multiples of c are c apart.
LEMMA Products ==
  ASSUME NEW a \in Nat, NEW b \in Nat, NEW c \in Nat, a < b
  PROVE  a * c \in Nat /\ b * c \in Nat /\ a * c + c <= b * c
<1>1. b * c = a * c + c + (b - a - 1) * c
  OBVIOUS
<1>2. (b - a - 1) * c \in Nat
  OBVIOUS
<1>3. a * c \in Nat /\ b * c \in Nat
  OBVIOUS
<1> QED BY <1>1, <1>2, <1>3

\* Quotient and remainder are unique.
LEMMA Quotient ==
  ASSUME NEW q \in Nat, NEW d \in Nat \ {0}, NEW r \in 0..(d - 1)
  PROVE  (q * d + r) \div d = q /\ (q * d + r) % d = r
<1> DEFINE n == q * d + r
           p == n \div d
<1>1. n \in Nat
  OBVIOUS
<1>2. p \in Nat /\ n % d \in Nat /\ n % d < d /\ n = p * d + (n % d)
  BY <1>1, Division
<1>3. n = q * d + r /\ p * d \in Nat /\ q * d \in Nat
  BY <1>2
<1> HIDE DEF n, p
<1>4. ~ (p < q)
  <2>1. p < q => p * d + d <= q * d
    BY <1>2, Products
  <2> QED BY <1>2, <1>3, <2>1
<1>5. ~ (q < p)
  <2>1. q < p => q * d + d <= p * d
    BY <1>2, Products
  <2> QED BY <1>2, <1>3, <2>1
<1>6. p = q
  BY <1>2, <1>4, <1>5
<1> QED BY <1>2, <1>3, <1>6 DEF n, p

\* A page further on is the same place in a page.
LEMMA PageTurn ==
  ASSUME NEW a \in Nat
  PROVE  (a + PageSize) % PageSize = a % PageSize /\ a % PageSize \in 0..(PageSize - 1)
<1> DEFINE q == a \div PageSize
           r == a % PageSize
<1>1. q \in Nat /\ r \in 0..(PageSize - 1) /\ a = q * PageSize + r
  BY Division, WriteAssumption
<1> HIDE DEF q, r
<1>2. a + PageSize = (q + 1) * PageSize + r /\ q + 1 \in Nat
  BY <1>1, WriteAssumption
<1>3. ((q + 1) * PageSize + r) % PageSize = r
  BY <1>1, <1>2, Quotient, WriteAssumption
<1> QED BY <1>1, <1>2, <1>3 DEF r

\* spi_flash_write_buffer: a piece has a byte at least, is inside one page, and ends
\* where the payload or the page ends.
LEMMA Piece ==
  ASSUME NEW a \in Nat, NEW len \in Nat \ {0}
  PROVE  /\ PieceLen(a, len) \in 1..len
         /\ PieceLen(a, len) <= PageSize - (a % PageSize)
         /\ PieceLen(a, len) = len \/ PieceLen(a, len) = PageSize - (a % PageSize)
         /\ WithinPage(a, PieceLen(a, len))
<1> DEFINE r == a % PageSize
           next == (a + PageSize) - ((a + PageSize) % PageSize)
<1>1. r \in 0..(PageSize - 1) /\ (a + PageSize) % PageSize = r
  BY PageTurn
<1>2. PieceLen(a, len) = IF next - a < len THEN next - a ELSE len
  BY DEF PieceLen
<1>3. next - a = PageSize - r /\ PageSize - r \in Nat \ {0}
  BY <1>1, WriteAssumption
<1> HIDE DEF next
<1>4. /\ PieceLen(a, len) \in 1..len /\ PieceLen(a, len) <= PageSize - r
      /\ PieceLen(a, len) = len \/ PieceLen(a, len) = PageSize - r
  BY <1>2, <1>3
<1>5. WithinPage(a, PieceLen(a, len))
  <2> HIDE DEF r
  <2>1. a + PieceLen(a, len) <= (a - r) + PageSize
    BY <1>1, <1>4, WriteAssumption
  <2> QED BY <2>1 DEF WithinPage, r
<1> QED BY <1>4, <1>5

-----------------------------------------------------------------------------
(* Files. *)

\* What the assumption says of a file and its blocks.
LEMMA FileType ==
  ASSUME file \in Files
  PROVE  /\ file \in Seq(Seq(Byte)) /\ Len(file) \in Nat \ {0}
         /\ \A n \in Blocks(file) :
              /\ n \in Nat /\ n < Len(file) /\ n + 1 \in 1..Len(file)
              /\ Payload(n) \in Seq(Byte) /\ Len(Payload(n)) \in Nat \ {0}
              /\ Len(file) * Len(Payload(n)) <= FlashSize
              /\ Len(file) * Len(Payload(n)) < Word
<1>1. file \in Seq(Seq(Byte) \ {<< >>}) /\ file # << >>
  BY WriteAssumption
<1>2. file \in Seq(Seq(Byte)) /\ Len(file) \in Nat \ {0} /\ DOMAIN file = 1..Len(file)
      /\ \A i \in 1..Len(file) : file[i] \in Seq(Byte) /\ file[i] # << >>
  BY <1>1
<1>3. ASSUME NEW n \in Blocks(file)
      PROVE  /\ n \in Nat /\ n < Len(file) /\ n + 1 \in 1..Len(file)
             /\ Payload(n) \in Seq(Byte) /\ Len(Payload(n)) \in Nat \ {0}
             /\ Len(file) * Len(Payload(n)) <= FlashSize
             /\ Len(file) * Len(Payload(n)) < Word
  <2>1. n \in Nat /\ n < Len(file) /\ n + 1 \in 1..Len(file)
    BY <1>2 DEF Blocks
  <2>2. Payload(n) \in Seq(Byte) /\ Len(Payload(n)) \in Nat \ {0}
    BY <1>2, <2>1 DEF Payload
  <2>3. Len(file) * Len(file[n + 1]) <= FlashSize /\ Len(file) * Len(file[n + 1]) < Word
    BY <1>2, <2>1, WriteAssumption
  <2> QED BY <2>1, <2>2, <2>3 DEF Payload
<1> QED BY <1>2, <1>3

\* Every byte of a block is in front of where the chip wraps around, even if the
\* blocks have different sizes.
LEMMA InFlash ==
  ASSUME SessionInv, Started, NEW n \in Blocks(file), NEW k \in 0..(Len(Payload(n)) - 1)
  PROVE  BlockAddr(n) \in Nat /\ BlockAddr(n) + k \in Address
<1> DEFINE N == Len(file)
           s == Len(Payload(opener))
           p == Len(Payload(n))
<1>1. file \in Files
  <2>1. file # << >>
    BY DEF Started, SessionInv, Blocks
  <2> QED BY <2>1 DEF SessionInv
<1>2. /\ N \in Nat \ {0} /\ n \in Nat /\ n < N /\ p \in Nat \ {0} /\ s \in Nat \ {0}
      /\ N * p <= FlashSize /\ N * s <= FlashSize /\ session.size = s
  BY <1>1, FileType DEF SessionInv
<1> HIDE DEF N, s, p
<1>3. n * s \in Nat /\ n * p \in Nat /\ n * s + s <= N * s /\ n * p + p <= N * p
  BY <1>2, Products
<1>4. FlashSize \in Nat /\ k \in Nat /\ k < p
  BY <1>2, LoadAssumption DEF p
<1>5. n * s + k < FlashSize
  <2>1. CASE p <= s
    BY <1>2, <1>3, <1>4, <2>1
  <2>2. CASE s < p
    <3>1. n * p = n * s + n * (p - s) /\ n * (p - s) \in Nat
      BY <1>2, <2>2
    <3> QED BY <1>2, <1>3, <1>4, <3>1
  <2> QED BY <1>2, <2>1, <2>2
<1> QED BY <1>2, <1>3, <1>4, <1>5 DEF BlockAddr, Address

\* The blocks of a regular file have the size of the session, but the last.
LEMMA RegularFile ==
  ASSUME SessionInv, Started, Regular
  PROVE  /\ file \in Files /\ session.size \in Nat \ {0}
         /\ session.size = Len(file[1])
         /\ Len(file) * session.size <= FlashSize
         /\ \A n \in Blocks(file) : Len(Payload(n)) <= session.size
         /\ \A n \in Blocks(file) : n # Len(file) - 1 => Len(Payload(n)) = session.size
         /\ PageSize % session.size = 0 \/ session.size % PageSize = 0
<1>1. file \in Files
  <2>1. file # << >>
    BY DEF Started, SessionInv, Blocks
  <2> QED BY <2>1 DEF SessionInv
<1>2. session.size = Len(Payload(opener)) /\ opener \in Blocks(file)
  BY DEF SessionInv
<1>3. session.size = Len(file[1])
  BY <1>2 DEF Regular, Payload
<1>4. session.size \in Nat \ {0} /\ Len(file) * session.size <= FlashSize
  BY <1>1, <1>2, FileType
<1>5. ASSUME NEW n \in Blocks(file)
      PROVE  /\ Len(Payload(n)) <= session.size
             /\ n # Len(file) - 1 => Len(Payload(n)) = session.size
  <2>1. n \in Nat /\ n < Len(file) /\ Len(file) \in Nat
    BY <1>1, FileType
  <2>2. CASE n = Len(file) - 1
    <3>1. n + 1 = Len(file)
      BY <2>1, <2>2
    <3> QED BY <1>3, <2>2, <3>1 DEF Regular, Payload
  <2>3. CASE n # Len(file) - 1
    <3>1. n + 1 \in 1..(Len(file) - 1)
      BY <2>1, <2>3
    <3>2. Len(file[n + 1]) = session.size
      BY <1>3, <3>1 DEF Regular
    <3> QED BY <1>4, <3>2 DEF Payload
  <2> QED BY <2>2, <2>3
<1>6. PageSize % session.size = 0 \/ session.size % PageSize = 0
  BY <1>3 DEF Regular
<1> QED BY <1>1, <1>3, <1>4, <1>5, <1>6

\* The slots of a regular file's blocks lie one behind the other.
LEMMA Apart ==
  ASSUME SessionInv, Started, Regular
  PROVE  /\ \A n \in Blocks(file) : /\ BlockAddr(n) \in Nat
                                   /\ BlockAddr(n) + session.size <= FlashSize
         /\ \A m, n \in Blocks(file) : m # n =>
              \/ BlockAddr(m) + session.size <= BlockAddr(n)
              \/ BlockAddr(n) + session.size <= BlockAddr(m)
<1> DEFINE s == session.size
           N == Len(file)
<1>1. /\ s \in Nat \ {0} /\ N \in Nat /\ N * s <= FlashSize /\ FlashSize \in Nat
      /\ \A n \in Blocks(file) : n \in Nat /\ n < N
  BY RegularFile, FileType, LoadAssumption
<1>2. \A n : BlockAddr(n) = n * s
  BY DEF BlockAddr
<1> HIDE DEF s, N
<1>3. ASSUME NEW n \in Blocks(file)
      PROVE  BlockAddr(n) \in Nat /\ BlockAddr(n) + s <= FlashSize
  <2>1. n * s \in Nat /\ N * s \in Nat /\ n * s + s <= N * s
    BY <1>1, Products
  <2> QED BY <1>1, <1>2, <2>1
<1>4. ASSUME NEW m \in Blocks(file), NEW n \in Blocks(file), m # n
      PROVE  BlockAddr(m) + s <= BlockAddr(n) \/ BlockAddr(n) + s <= BlockAddr(m)
  <2>1. m < n => m * s + s <= n * s
    BY <1>1, Products
  <2>2. n < m => n * s + s <= m * s
    BY <1>1, Products
  <2>3. m \in Nat /\ n \in Nat
    BY <1>1
  <2> QED BY <1>2, <1>4, <2>1, <2>2, <2>3
<1> QED BY <1>3, <1>4 DEF s

\* A block of a size that divides a page is inside one.
LEMMA SmallBlocks ==
  ASSUME NEW b \in Nat, NEW s \in Nat \ {0}, PageSize % s = 0
  PROVE  s <= PageSize - ((b * s) % PageSize)
<1> DEFINE a == b * s
           j == PageSize \div s
           q == a \div PageSize
           r == a % PageSize
<1>1. PageSize \in Nat \ {0} /\ a \in Nat
  BY WriteAssumption
<1>2. j \in Nat /\ PageSize = j * s
  <2>1. j \in Nat /\ PageSize = j * s + (PageSize % s)
    BY <1>1, Division
  <2>2. j * s \in Nat
    BY <2>1
  <2> QED BY <2>1, <2>2
<1>3. q \in Nat /\ r \in Nat /\ r < PageSize /\ a = q * PageSize + r
  BY <1>1, Division
<1> HIDE DEF j, q, r
<1> DEFINE m == q * j
<1>4. m \in Nat /\ m * s = q * PageSize
  BY <1>2, <1>3
<1> HIDE DEF m
<1>5. ~ (b < m)
  <2>1. b < m => b * s + s <= m * s
    BY <1>4, Products
  <2> QED BY <1>1, <1>3, <1>4, <2>1
<1> DEFINE t == b - m
<1>6. t \in Nat /\ t * s = r
  <2>1. t * s = b * s - m * s
    BY <1>4
  <2>2. m * s \in Nat /\ q * PageSize \in Nat
    BY <1>1, <1>3, <1>4
  <2>3. t \in Nat
    BY <1>4, <1>5
  <2> HIDE DEF t
  <2> QED BY <1>1, <1>3, <1>4, <2>1, <2>2, <2>3
<1> HIDE DEF t
<1>7. t < j
  <2>1. j < t => j * s + s <= t * s
    BY <1>2, <1>6, Products
  <2>2. j = t => r = PageSize
    BY <1>2, <1>6
  <2> QED BY <1>1, <1>2, <1>3, <1>6, <2>1, <2>2
<1>8. t * s + s <= j * s
  BY <1>2, <1>6, <1>7, Products
<1> QED BY <1>1, <1>2, <1>3, <1>6, <1>8 DEF r

\* A block of whole pages begins where a page begins.
LEMMA LargeBlocks ==
  ASSUME NEW b \in Nat, NEW s \in Nat \ {0}, s % PageSize = 0,
         NEW w \in 0..(s - 1), w % PageSize = 0
  PROVE  /\ (b * s + w) % PageSize = 0
         /\ w + PageSize <= s /\ (w + PageSize) % PageSize = 0
         /\ w = 0 \/ PageSize <= w
<1> DEFINE j == s \div PageSize
           i == w \div PageSize
<1>0. PageSize \in Nat \ {0}
  BY WriteAssumption
<1>1. j \in Nat /\ s = j * PageSize
  <2>1. j \in Nat /\ s = j * PageSize + (s % PageSize)
    BY <1>0, Division
  <2>2. j * PageSize \in Nat
    BY <1>0, <2>1
  <2> QED BY <2>1, <2>2
<1>2. i \in Nat /\ w = i * PageSize
  <2>1. i \in Nat /\ w = i * PageSize + (w % PageSize)
    BY <1>0, Division
  <2>2. i * PageSize \in Nat
    BY <1>0, <2>1
  <2> QED BY <2>1, <2>2
<1> HIDE DEF i, j
<1> DEFINE m == b * j + i
<1>3. m \in Nat /\ b * s + w = m * PageSize + 0
  <2>1. b * j \in Nat
    BY <1>1
  <2>2. (b * j) * PageSize = b * s
    BY <1>0, <1>1
  <2>3. m * PageSize = (b * j) * PageSize + i * PageSize
    BY <1>0, <1>2, <2>1
  <2>4. m \in Nat /\ b * s \in Nat /\ w \in Nat
    BY <1>2, <2>1
  <2> HIDE DEF m
  <2> QED BY <1>2, <2>2, <2>3, <2>4
<1> HIDE DEF m
<1>4. 0 \in 0..(PageSize - 1)
  BY <1>0
<1>5. (b * s + w) % PageSize = 0
  <2>1. (m * PageSize + 0) % PageSize = 0
    BY <1>0, <1>3, <1>4, Quotient
  <2> QED BY <1>3, <2>1
<1>6. i < j
  <2>1. j < i => j * PageSize + PageSize <= i * PageSize
    BY <1>0, <1>1, <1>2, Products
  <2>2. j = i => s = w
    BY <1>1, <1>2
  <2> QED BY <1>0, <1>1, <1>2, <2>1, <2>2
<1>7. i * PageSize + PageSize <= j * PageSize
  BY <1>0, <1>1, <1>2, <1>6, Products
<1>8. (w + PageSize) % PageSize = 0
  <2>1. w + PageSize = (i + 1) * PageSize + 0 /\ i + 1 \in Nat
    BY <1>0, <1>2
  <2>2. ((i + 1) * PageSize + 0) % PageSize = 0
    BY <1>0, <1>4, <2>1, Quotient
  <2> QED BY <2>1, <2>2
<1>9. w = 0 \/ PageSize <= w
  <2>1. 0 < i => 0 * PageSize + PageSize <= i * PageSize
    BY <1>0, <1>2, Products
  <2>2. i = 0 => w = 0
    BY <1>0, <1>2
  <2> QED BY <1>0, <1>2, <2>1, <2>2
<1> QED BY <1>0, <1>1, <1>2, <1>5, <1>7, <1>8, <1>9

\* What is written of a regular file's block stays in its slot, whole pages at a
\* time or the block at once, and the page program never refuses it.
LEMMA PieceInSlot ==
  ASSUME SessionInv, PieceInv, pc = "write", Regular,
         NEW n, n = PieceLen(addr, Len(Payload(block)))
  PROVE  /\ n \in Nat \ {0} /\ addr \in Nat /\ BlockAddr(block) <= addr
         /\ addr + n <= BlockAddr(block) + session.size
         /\ addr + n <= FlashSize
         /\ PageSize % session.size = 0 => written + n = Len(Payload(block))
         /\ session.size % PageSize = 0 /\ written + n < Len(Payload(block))
              => (written + n) % PageSize = 0
<1> DEFINE s == session.size
           len == Len(Payload(block))
           b == BlockAddr(block)
<1>1. Started /\ block \in Blocks(file) /\ written \in 0..(len - 1) /\ addr = b + written
  BY DEF SessionInv
<1>2. /\ s \in Nat \ {0} /\ len \in Nat \ {0} /\ len <= s
      /\ PageSize % s = 0 \/ s % PageSize = 0
      /\ block \in Nat /\ b = block * s
  BY <1>1, RegularFile, FileType DEF BlockAddr
<1>3. b \in Nat /\ b + s <= FlashSize /\ FlashSize \in Nat /\ PageSize \in Nat \ {0}
  BY <1>1, Apart, LoadAssumption, WriteAssumption
<1>4. addr \in Nat /\ b <= addr
  <2> HIDE DEF s, len, b
  <2>1. written \in Nat /\ addr = b + written
    BY <1>1, <1>2
  <2> QED BY <1>3, <2>1
<1>5. /\ n \in 1..len /\ n <= PageSize - (addr % PageSize)
      /\ n = len \/ n = PageSize - (addr % PageSize)
  BY <1>2, <1>4, Piece
<1>6. (PageSize % s = 0 => written = 0) /\ (s % PageSize = 0 => written % PageSize = 0)
  BY DEF PieceInv
<1>7. n \in Nat \ {0}
  BY <1>2, <1>5
<1> HIDE DEF s, len, b
<1>8. CASE PageSize % s = 0
  <2>1. written = 0 /\ addr = b
    BY <1>1, <1>3, <1>6, <1>8
  <2>2. s <= PageSize - (addr % PageSize)
    BY <1>2, <1>8, <2>1, SmallBlocks
  <2>3. addr % PageSize \in 0..(PageSize - 1)
    BY <1>4, PageTurn
  <2>4. n = len
    BY <1>2, <1>3, <1>5, <2>2, <2>3
  <2>5. ~ (written + n < len) /\ addr + n <= b + s
    BY <1>2, <1>3, <2>1, <2>4
  <2> QED BY <1>2, <1>3, <1>4, <1>7, <2>1, <2>4, <2>5 DEF s, len, b
<1>9. CASE s % PageSize = 0 /\ PageSize % s # 0
  <2>1. written \in 0..(s - 1) /\ written \in Nat
    BY <1>1, <1>2
  <2>2. /\ (block * s + written) % PageSize = 0
        /\ written + PageSize <= s /\ (written + PageSize) % PageSize = 0
        /\ written = 0 \/ PageSize <= written
    BY <1>2, <1>6, <1>9, <2>1, LargeBlocks
  <2>3. addr % PageSize = 0
    BY <1>1, <1>2, <2>2
  <2>4. (n = len \/ n = PageSize) /\ n <= PageSize
    BY <1>3, <1>5, <2>3
  <2>5. written + n <= s
    BY <1>1, <1>2, <1>3, <2>1, <2>2, <2>4
  <2>6. written + n < len => n = PageSize
    BY <1>2, <2>1, <2>4
  <2>7. written + n < len => (written + n) % PageSize = 0
    BY <2>2, <2>6
  <2>8. addr + n <= b + s
    BY <1>1, <1>2, <1>3, <1>7, <2>1, <2>5
  <2> QED BY <1>2, <1>3, <1>4, <1>7, <1>9, <2>7, <2>8 DEF s, len, b
<1> QED BY <1>2, <1>8, <1>9

-----------------------------------------------------------------------------
(* The steps. *)

\* The blocks still to be sent can be counted.
LEMMA BlocksFinite ==
  ASSUME SessionInv
  PROVE  /\ IsFiniteSet(Blocks(file)) /\ Cardinality(Blocks(file)) = Len(file)
         /\ Len(file) \in Nat
<1>1. Len(file) \in Nat
  BY FileType DEF SessionInv
<1>2. IsFiniteSet(0..(Len(file) - 1)) /\ Cardinality(0..(Len(file) - 1)) = Len(file)
  <2>1. ASSUME NEW n \in Nat
        PROVE  IsFiniteSet(0..(n - 1)) /\ Cardinality(0..(n - 1)) = n
    <3>1. 0 \in Int /\ n - 1 \in Int
      OBVIOUS
    <3>2. IsFiniteSet(0..(n - 1))
          /\ Cardinality(0..(n - 1)) = IF 0 > n - 1 THEN 0 ELSE (n - 1) - 0 + 1
      BY <3>1, FS_Interval
    <3> QED BY <3>2
  <2> QED BY <1>1, <2>1
<1> QED BY <1>1, <1>2 DEF Blocks

\* What does not touch a load leaves it as it is.
LEMMA LoadKept == LoadInv /\ UNCHANGED loadVars => LoadInv'
<1> SUFFICES ASSUME LoadInv, UNCHANGED loadVars PROVE LoadInv'
  OBVIOUS
<1>1. /\ pc' = pc /\ left' = left /\ addr' = addr /\ fpga' = fpga /\ crc' = crc
      /\ Header' = Header /\ \A k : (SpiFlashRead(0, k))' = SpiFlashRead(0, k)
  BY DEF loadVars, Header, SpiFlashRead
<1>2. (GetBitstreamLength(Header))' = GetBitstreamLength(Header)
  BY <1>1
<1> QED BY <1>1, <1>2 DEF LoadInv

\* In a session there is no load.
LEMMA NoLoad == ASSUME pc' \in {"session", "write", "verify"} PROVE LoadInv'
  BY DEF LoadInv

\* cur_blk->data holds bytes.
LEMMA DataType ==
  ASSUME SessionInv, pc = "write", NEW k \in Nat
  PROVE  /\ Data(block, k) \in Byte
         /\ k < Len(Payload(block)) => Data(block, k) = Payload(block)[k + 1]
<1>1. file \in Files /\ block \in Blocks(file)
  <2>1. file # << >>
    BY DEF SessionInv, Blocks
  <2> QED BY <2>1 DEF SessionInv
<1>2. Payload(block) \in Seq(Byte)
  BY <1>1, FileType
<1>3. {} \in Byte
  BY DEF Byte
<1> QED BY <1>2, <1>3 DEF Data

\* The flash holds bytes after an erase or a program, failed or not; if the number
\* of failures is the same, it holds what was meant.
LEMMA ChipSteps ==
  ASSUME FlashTyped, faults \in 0..MaxFaults, NEW after \in [Address -> Byte],
         NEW touched \in SUBSET Address, Chip(after, touched)
  PROVE  /\ FlashTyped' /\ faults' \in 0..MaxFaults
         /\ \A a \in Address : flash'[a] = after[a] \/ flash'[a] = flash[a]
         /\ faults' = 0 => faults = 0 /\ flash' = after
<1>1. MaxFaults \in Nat
  BY WriteAssumption
<1>2. CASE flash' = after /\ UNCHANGED faults
  BY <1>2 DEF FlashTyped
<1>3. CASE /\ faults < MaxFaults /\ faults' = faults + 1
           /\ \E a \in touched : flash' = [after EXCEPT ![a] = flash[a]]
  BY <1>1, <1>3 DEF FlashTyped
<1> QED BY <1>2, <1>3 DEF Chip

\* The host begins: nothing has been taken.
LEMMA StartCopySteps ==
  ASSUME Inv, NEW f \in Files, StartCopy(f)
  PROVE  Inv'
<1>1. /\ pc = "idle" /\ file = << >> /\ file' = f /\ toSend' = Blocks(f)
      /\ UNCHANGED loadVars
      /\ flash' = flash /\ pc' = pc /\ left' = left /\ addr' = addr /\ fpga' = fpga /\ crc' = crc
      /\ session' = session /\ block' = block /\ written' = written
      /\ reported' = reported /\ opener' = opener /\ faults' = faults
  BY DEF StartCopy, loadVars
<1>2. ~ Started /\ ~ reported /\ ~ session.open /\ session.left = 0
  <2>1. ~ Started
    BY <1>1 DEF Inv, SessionInv, Started, Blocks
  <2> QED BY <1>1, <2>1 DEF Inv, SessionInv
<1>3. ~ Started'
  BY <1>1 DEF Started, Blocks
<1>4. BitInv'
  BY <1>1 DEF Inv, BitInv, FlashTyped
<1>5. LoadInv'
  BY <1>1, LoadKept DEF Inv
<1>6. SessionInv'
  BY <1>1, <1>2, <1>3 DEF Inv, SessionInv, Blocks
<1>7. PieceInv' /\ SentInv' /\ CleanInv'
  BY <1>1, <1>3 DEF PieceInv, SentInv, CleanInv
<1> QED BY <1>4, <1>5, <1>6, <1>7 DEF Inv

\* The erase at the beginning of a session covers every byte of a regular file.
LEMMA EraseCovers ==
  ASSUME NEW s \in Nat, NEW N \in Nat, NEW a \in Address, a < s * N
  PROVE  a \in EraseRange(s * N)
<1> DEFINE x == s * N + (EraseSize - 1)
           q == x \div EraseSize
<1>1. EraseSize \in Nat \ {0} /\ s * N \in Nat /\ a \in Nat
  BY WriteAssumption DEF Address
<1>2. x \in Nat
  BY <1>1
<1>3. q \in Nat /\ x % EraseSize \in Nat /\ x % EraseSize < EraseSize
      /\ x = q * EraseSize + (x % EraseSize)
  BY <1>1, <1>2, Division
<1>4. q * EraseSize \in Nat
  BY <1>1, <1>3
<1> HIDE DEF q
<1>5. s * N <= q * EraseSize
  BY <1>1, <1>3, <1>4
<1>6. a < q * EraseSize
  BY <1>1, <1>4, <1>5
<1> QED BY <1>6 DEF EraseRange, q

\* The block that opens a session: all is counted, and erased if the chip works.
LEMMA OpenSessionSteps ==
  ASSUME Inv, NEW n \in toSend, ~ session.open, OpenSession(n)
  PROVE  /\ FlashTyped' /\ faults' \in 0..MaxFaults
         /\ session' = [open |-> TRUE, left |-> Len(file), size |-> Len(Payload(n))]
         /\ opener' = n /\ fpga' = << >>
         /\ faults' = 0 => faults = 0 /\ \A a \in Address :
              a < Len(Payload(n)) * Len(file) => flash'[a] = Erased
<1> DEFINE range == EraseRange(Len(Payload(n)) * Len(file))
           after == [a \in Address |-> IF a \in range THEN Erased ELSE flash[a]]
<1>1. /\ session' = [open |-> TRUE, left |-> Len(file), size |-> Len(Payload(n))]
      /\ opener' = n /\ fpga' = << >> /\ Chip(after, range)
  BY DEF OpenSession
<1>2. after \in [Address -> Byte] /\ range \in SUBSET Address
  BY DEF Inv, BitInv, FlashTyped, Byte, Erased, EraseRange
<1>3. FlashTyped /\ faults \in 0..MaxFaults
  BY DEF Inv, BitInv
<1>4. /\ FlashTyped' /\ faults' \in 0..MaxFaults
      /\ faults' = 0 => faults = 0 /\ flash' = after
  <2> HIDE DEF after, range
  <2> QED BY <1>1, <1>2, <1>3, ChipSteps
<1>5. file \in Files /\ n \in Blocks(file)
  <2>1. file # << >>
    BY DEF Inv, SessionInv, Blocks
  <2> QED BY <2>1 DEF Inv, SessionInv
<1>6. ASSUME NEW a \in Address, a < Len(Payload(n)) * Len(file) PROVE after[a] = Erased
  <2>1. Len(Payload(n)) \in Nat /\ Len(file) \in Nat
    BY <1>5, FileType
  <2> QED BY <1>6, <2>1, EraseCovers
<1> HIDE DEF after
<1> QED BY <1>1, <1>4, <1>6

\* A block is taken: its first byte goes to its place.
LEMMA BlockSteps ==
  ASSUME Inv, NEW n \in toSend, Block(n)
  PROVE  Inv'
<1>1. /\ pc \in {"idle", "session"} /\ toSend' = toSend \ {n}
      /\ left' = left /\ crc' = crc /\ file' = file /\ reported' = reported
      /\ block' = n /\ addr' = n * session'.size /\ written' = 0 /\ pc' = "write"
      /\ IF session.open THEN UNCHANGED <<session, opener, fpga, flash, faults>> ELSE OpenSession(n)
  BY DEF Block, BlockAddr
<1>2. /\ file \in Files /\ toSend \subseteq Blocks(file) /\ n \in Blocks(file)
      /\ \A m \in Blocks(file) : /\ m \in Nat /\ Payload(m) \in Seq(Byte)
                               /\ Len(Payload(m)) \in Nat \ {0}
      /\ Len(file) \in Nat
  <2>1. toSend \subseteq Blocks(file) /\ file # << >>
    BY DEF Inv, SessionInv, Blocks
  <2>2. file \in Files
    BY <2>1 DEF Inv, SessionInv
  <2> QED BY <2>1, <2>2, FileType
<1>3. /\ Blocks(file)' = Blocks(file) /\ \A m : Payload(m)' = Payload(m)
      /\ Started' /\ block' \in (Blocks(file) \ toSend)'
  BY <1>1, <1>2 DEF Blocks, Payload, Started
<1>4. Cardinality(toSend') = Cardinality(toSend) - 1 /\ Cardinality(toSend) \in Nat
  BY <1>1, <1>2, BlocksFinite, SubsetCards DEF Inv
<1>7. LoadInv' /\ PieceInv'
  <2>1. 0 % PageSize = 0
    BY WriteAssumption
  <2> QED BY <1>1, <2>1, NoLoad DEF PieceInv
<1>5. CASE session.open
  <2>1. /\ session' = session /\ opener' = opener /\ fpga' = fpga /\ flash' = flash
        /\ faults' = faults /\ pc = "session" /\ Started
    BY <1>1, <1>5 DEF Inv, SessionInv
  <2>2. \A m : BlockAddr(m)' = BlockAddr(m)
    BY <2>1 DEF BlockAddr
  <2>3. SessionInv'
    <3>1. session.size = Len(Payload(opener)) /\ opener \in Blocks(file)
      BY <2>1 DEF Inv, SessionInv
    <3>2. addr' = BlockAddr(n)' + 0
      <4>1. n * session.size \in Nat
        BY <1>2, <3>1
      <4> QED BY <1>1, <2>1, <4>1 DEF BlockAddr
    <3>3. session' \in [open : BOOLEAN, left : Nat, size : Nat] /\ toSend' \subseteq Blocks(file)'
      BY <1>1, <1>3, <2>1 DEF Inv, SessionInv
    <3>4. session.left = Cardinality(toSend) /\ session.left > 0
      BY <1>4, <1>5, <2>1 DEF Inv, SessionInv
    <3>5. session'.left = Cardinality(toSend') + 1
      BY <1>4, <2>1, <3>4
    <3>6. (written \in 0..(Len(Payload(block)) - 1))'
      BY <1>1, <1>2, <1>3
    <3> QED BY <1>1, <1>2, <1>3, <1>5, <2>1, <3>1, <3>2, <3>3, <3>4, <3>5, <3>6 DEF SessionInv
  <2>4. BitInv'
    <3>1. addr' \in Nat
      BY <1>2, <2>1, <1>1 DEF Inv, SessionInv
    <3> QED BY <1>1, <1>2, <2>1, <3>1 DEF Inv, BitInv, FlashTyped
  <2>5. Regular' = Regular
    BY <1>1, <2>1 DEF Regular
  <2>6. \A m : Holds(m)' = Holds(m)
    BY <1>3, <2>1, <2>2 DEF Holds
  <2>7. SentInv'
    BY <1>1, <1>3, <2>1, <2>5, <2>6 DEF Inv, SentInv
  <2>8. CleanInv'
    <3> SUFFICES ASSUME Regular', faults' = 0
        PROVE /\ ~ reported'
              /\ \A m \in toSend' : \A k \in 0..(Len(Payload(m)) - 1) : flash[BlockAddr(m) + k] = Erased
              /\ \A k \in 0..(Len(Payload(n)) - 1) : flash[BlockAddr(n) + k] = Erased
      BY <1>1, <1>3, <2>1, <2>2 DEF CleanInv
    <3> QED BY <1>1, <2>1, <2>5 DEF Inv, CleanInv
  <2> QED BY <1>7, <2>3, <2>4, <2>7, <2>8 DEF Inv
<1>6. CASE ~ session.open
  <2>1. /\ FlashTyped' /\ faults' \in 0..MaxFaults
        /\ session' = [open |-> TRUE, left |-> Len(file), size |-> Len(Payload(n))]
        /\ opener' = n /\ fpga' = << >>
        /\ faults' = 0 => faults = 0 /\ \A a \in Address :
             a < Len(Payload(n)) * Len(file) => flash'[a] = Erased
    BY <1>1, <1>6, OpenSessionSteps
  <2>2. /\ session'.open /\ session'.left = Len(file) /\ session'.size = Len(Payload(n))
        /\ session' \in [open : BOOLEAN, left : Nat, size : Nat]
    BY <1>2, <2>1
  <2>3. toSend = Blocks(file) /\ ~ Started /\ ~ reported /\ Len(file) = Cardinality(toSend)
    BY <1>6, BlocksFinite DEF Inv, SessionInv, Started
  <2>4. addr' \in Nat /\ addr' = BlockAddr(n)' + 0
    <3>1. n * session'.size \in Nat
      BY <1>2, <2>2
    <3> QED BY <1>1, <3>1 DEF BlockAddr
  <2>5. SessionInv'
    <3>1. session'.left = Cardinality(toSend') + 1 /\ session'.left > 0
      BY <1>4, <2>2, <2>3, FileType, <1>2
    <3>2. (written \in 0..(Len(Payload(block)) - 1))'
      BY <1>1, <1>2, <1>3
    <3>3. (session.size = Len(Payload(opener)) /\ opener \in Blocks(file))'
      BY <1>2, <1>3, <2>1, <2>2
    <3>4. (toSend \subseteq Blocks(file))'
      BY <1>1, <1>2, <1>3
    <3> QED BY <1>1, <1>2, <1>3, <2>2, <2>4, <3>1, <3>2, <3>3, <3>4 DEF SessionInv
  <2>6. BitInv'
    <3>1. << >> \in Seq(Byte)
      OBVIOUS
    <3> QED BY <1>1, <1>2, <2>1, <2>4, <3>1 DEF Inv, BitInv
  <2>7. SentInv'
    BY <1>1, <1>3, <2>3 DEF SentInv
  <2>8. CleanInv'
    <3> SUFFICES ASSUME Regular', faults' = 0
                 PROVE  \A m \in Blocks(file) : \A k \in 0..(Len(Payload(m)) - 1) :
                          flash'[BlockAddr(m)' + k] = Erased
      <4>1. pc' = "write" /\ written' = 0 /\ ~ reported' /\ toSend' \subseteq Blocks(file) /\ block' = n
        BY <1>1, <1>2, <2>3
      <4>2. \A k \in 0..(Len(Payload(n)) - 1) : ~ (k < 0)
        BY <1>2
      <4> QED BY <1>2, <1>3, <4>1, <4>2 DEF CleanInv
    <3> TAKE m \in Blocks(file)
    <3> TAKE k \in 0..(Len(Payload(m)) - 1)
    <3> DEFINE s == session'.size
    <3>1. s = Len(Payload(n)) /\ s \in Nat \ {0} /\ m < Len(file) /\ m \in Nat
          /\ Len(file) * s <= FlashSize /\ FlashSize \in Nat
      BY <1>2, <2>2, FileType, LoadAssumption
    <3>2. /\ s = Len(file[1]) /\ Len(file[Len(file)]) <= s
          /\ \A i \in 1..(Len(file) - 1) : Len(file[i]) = s
      BY <1>1, <2>1, <3>1 DEF Regular, Payload
    <3> HIDE DEF s
    <3>3. Len(Payload(m)) <= s
      <4>1. CASE m + 1 = Len(file)
        BY <3>2, <4>1 DEF Payload
      <4>2. CASE m + 1 # Len(file)
        <5>1. m + 1 \in 1..(Len(file) - 1)
          BY <1>2, <3>1, <4>2
        <5> QED BY <3>1, <3>2, <5>1 DEF Payload
      <4> QED BY <4>1, <4>2
    <3>4. m * s + s <= Len(file) * s /\ m * s \in Nat /\ Len(file) * s \in Nat
      BY <1>2, <3>1, Products
    <3>5. k \in Nat /\ k < s
      BY <1>2, <3>1, <3>3
    <3>6. BlockAddr(m)' = m * s
      BY DEF BlockAddr, s
    <3>7. m * s + k < Len(file) * s /\ m * s + k \in Address
      BY <3>1, <3>4, <3>5 DEF Address
    <3>8. Len(file) * s = Len(Payload(n)) * Len(file)
      BY <1>2, <3>1
    <3> QED BY <2>1, <3>6, <3>7, <3>8
  <2> QED BY <1>7, <2>5, <2>6, <2>7, <2>8 DEF Inv
<1> QED BY <1>5, <1>6

\* A piece of a regular file's block is programmed, the rest of the flash is not,
\* and the next piece, if any, begins a page.
LEMMA WritePieceEffect ==
  ASSUME Inv, WritePiece,
         NEW n, n = PieceLen(addr, Len(Payload(block)))
  PROVE  /\ Started /\ file \in Files /\ block \in Blocks(file) \ toSend
         /\ n \in 1..Len(Payload(block)) /\ Len(Payload(block)) \in Nat \ {0}
         /\ pc = "write" /\ addr' = addr + n /\ written' = written + n
         /\ pc' = IF written' < Len(Payload(block)) THEN "write" ELSE "verify"
         /\ UNCHANGED <<left, fpga, crc, file, toSend, session, block, opener, reported>>
         /\ FlashTyped' /\ faults' \in 0..MaxFaults
         /\ Regular =>
              /\ \A a \in Address : \/ flash'[a] = flash[a]
                                   \/ /\ BlockAddr(block) <= a
                                      /\ a < BlockAddr(block) + session.size
              /\ faults' = 0 =>
                   /\ faults = 0
                   /\ \A k \in 0..(Len(Payload(block)) - 1) :
                        flash'[BlockAddr(block) + k] =
                          IF written <= k /\ k < written + n
                            THEN flash[BlockAddr(block) + k] \cap Payload(block)[k + 1]
                            ELSE flash[BlockAddr(block) + k]
<1> DEFINE len == Len(Payload(block))
           B == BlockAddr(block)
           piece == {(addr + k) % FlashSize : k \in 0..(n - 1)}
           new(a) == Data(block, written + ((a - addr) % FlashSize))
           after == [a \in Address |-> IF a \in piece THEN flash[a] \cap new(a) ELSE flash[a]]
<1>1. /\ pc = "write" /\ Started /\ file \in Files /\ block \in Blocks(file) \ toSend
      /\ len \in Nat \ {0} /\ written \in 0..(len - 1)
      /\ addr \in Nat /\ addr = B + written
  <2>1. pc = "write"
    BY DEF WritePiece
  <2>2. block \in Blocks(file) \ toSend /\ Started /\ written \in 0..(len - 1) /\ addr = B + written
    BY <2>1 DEF Inv, SessionInv
  <2>3. file \in Files
    <3>1. file # << >>
      BY <2>2 DEF Blocks
    <3> QED BY <3>1 DEF Inv, SessionInv
  <2> QED BY <2>1, <2>2, <2>3, FileType DEF Inv, BitInv
<1>2. n \in 1..len /\ WithinPage(addr, n)
  BY <1>1, Piece
<1>3. FlashSize \in Nat \ {0} /\ FlashTyped /\ faults \in 0..MaxFaults
  BY LoadAssumption DEF Inv, BitInv
<1>4. /\ Chip(after, piece) /\ addr' = addr + n /\ written' = written + n
      /\ pc' = IF written' < len THEN "write" ELSE "verify"
      /\ UNCHANGED <<left, fpga, crc, file, toSend, session, block, opener, reported>>
  BY <1>2 DEF WritePiece
<1>5. piece \in SUBSET Address
  <2>1. \A k \in 0..(n - 1) : addr + k \in Nat
    BY <1>1, <1>2
  <2>2. \A k \in 0..(n - 1) : (addr + k) % FlashSize \in Address
    BY <1>3, <2>1, ModRange DEF Address
  <2> QED BY <2>2
<1>6. ASSUME NEW a \in Address PROVE flash[a] \cap new(a) \in Byte
  BY <1>3 DEF FlashTyped, Byte
<1>7. after \in [Address -> Byte]
  <2> HIDE DEF new, piece
  <2> QED BY <1>3, <1>6 DEF FlashTyped
<1>8. /\ FlashTyped' /\ faults' \in 0..MaxFaults
      /\ \A a \in Address : flash'[a] = after[a] \/ flash'[a] = flash[a]
      /\ faults' = 0 => faults = 0 /\ flash' = after
  <2> HIDE DEF after, piece
  <2> QED BY <1>3, <1>4, <1>5, <1>7, ChipSteps
<1>9. ASSUME Regular
      PROVE  /\ \A a \in Address : \/ flash'[a] = flash[a]
                                   \/ B <= a /\ a < B + session.size
             /\ faults' = 0 => \A k \in 0..(len - 1) :
                  flash'[B + k] = IF written <= k /\ k < written + n
                                    THEN flash[B + k] \cap Payload(block)[k + 1]
                                    ELSE flash[B + k]
  <2>1. /\ B <= addr /\ addr + n <= B + session.size /\ addr + n <= FlashSize
        /\ B \in Nat /\ session.size \in Nat
    BY <1>1, <1>9, PieceInSlot, Apart, RegularFile DEF Inv
  <2>2. ASSUME NEW a \in Address
        PROVE  /\ a \in piece <=> addr <= a /\ a < addr + n
               /\ a \in piece => (a - addr) % FlashSize = a - addr
    <3>1. \A k \in 0..(n - 1) : (addr + k) % FlashSize = addr + k
      <4> SUFFICES ASSUME NEW k \in 0..(n - 1) PROVE (addr + k) % FlashSize = addr + k
        OBVIOUS
      <4>1. addr + k \in 0..(FlashSize - 1)
        <5> HIDE DEF B, len
        <5> QED BY <1>1, <1>2, <1>3, <2>1
      <4> QED BY <1>3, <4>1, SmallMod
    <3>2. a \in piece => addr <= a /\ a < addr + n
      BY <1>1, <1>2, <3>1
    <3>3. ASSUME addr <= a, a < addr + n
          PROVE  a \in piece /\ (a - addr) % FlashSize = a - addr
      <4>1. a \in Nat /\ a < FlashSize
        BY <1>3 DEF Address
      <4>2. a - addr \in 0..(n - 1) /\ addr + (a - addr) = a
        BY <1>1, <1>2, <3>3, <4>1
      <4>3. a - addr \in 0..(FlashSize - 1)
        BY <1>1, <1>3, <3>3, <4>1
      <4> QED BY <1>3, <3>1, <4>2, <4>3, SmallMod
    <3> QED BY <3>2, <3>3
  <2>3. ASSUME NEW a \in Address
        PROVE  flash'[a] = flash[a] \/ (B <= a /\ a < B + session.size)
    <3>1. a \in Nat
      BY DEF Address
    <3>2. CASE a \in piece
      <4>1. addr <= a /\ a < addr + n
        BY <2>2, <3>2
      <4> QED BY <1>1, <1>2, <2>1, <3>1, <4>1
    <3>3. CASE a \notin piece
      <4> HIDE DEF piece, new
      <4> QED BY <1>8, <3>3
    <3> QED BY <3>2, <3>3
  <2>4. ASSUME faults' = 0, NEW k \in 0..(len - 1)
        PROVE  flash'[B + k] = IF written <= k /\ k < written + n
                                 THEN flash[B + k] \cap Payload(block)[k + 1]
                                 ELSE flash[B + k]
    <3>1. B + k \in Address /\ flash'[B + k] = after[B + k]
      BY <1>1, <1>8, <2>4, InFlash DEF Inv
    <3>2. B + k \in piece <=> written <= k /\ k < written + n
      <4>1. B + k \in piece <=> addr <= B + k /\ B + k < addr + n
        BY <2>2, <3>1
      <4> HIDE DEF piece, B, len
      <4> QED BY <1>1, <1>2, <2>1, <4>1
    <3>3. B + k \in piece => new(B + k) = Payload(block)[k + 1]
      <4> SUFFICES ASSUME B + k \in piece PROVE new(B + k) = Payload(block)[k + 1]
        OBVIOUS
      <4>1. ((B + k) - addr) % FlashSize = (B + k) - addr
        BY <2>2, <3>1
      <4>2. written + ((B + k) - addr) = k
        <5> HIDE DEF B, len
        <5> QED BY <1>1, <2>1
      <4>3. new(B + k) = Data(block, k)
        BY <4>1, <4>2
      <4>4. k \in Nat /\ k < len
        BY <1>1
      <4> HIDE DEF new
      <4> QED BY <1>1, <4>3, <4>4, DataType DEF Inv
    <3> HIDE DEF piece, new
    <3> QED BY <3>1, <3>2, <3>3
  <2> QED BY <2>3, <2>4
<1> HIDE DEF piece, after, new
<1> QED BY <1>1, <1>2, <1>4, <1>8, <1>9

\* A piece is programmed: the blocks compared before are left alone.
LEMMA WritePieceSteps ==
  ASSUME Inv, WritePiece
  PROVE  Inv'
<1> DEFINE len == Len(Payload(block))
           n == PieceLen(addr, len)
           B == BlockAddr(block)
<1>1. /\ Started /\ file \in Files /\ block \in Blocks(file) \ toSend
      /\ n \in 1..len /\ len \in Nat \ {0}
      /\ pc = "write" /\ addr' = addr + n /\ written' = written + n
      /\ pc' = IF written' < len THEN "write" ELSE "verify"
      /\ UNCHANGED <<left, fpga, crc, file, toSend, session, block, opener, reported>>
      /\ FlashTyped' /\ faults' \in 0..MaxFaults
  BY WritePieceEffect
<1>2. Regular =>
        /\ \A a \in Address : flash'[a] = flash[a] \/ (B <= a /\ a < B + session.size)
        /\ faults' = 0 =>
             /\ faults = 0
             /\ \A k \in 0..(len - 1) :
                  flash'[B + k] = IF written <= k /\ k < written + n
                                    THEN flash[B + k] \cap Payload(block)[k + 1]
                                    ELSE flash[B + k]
  BY WritePieceEffect
<1>3. /\ written \in 0..(len - 1) /\ addr \in Nat /\ addr = B + written
      /\ session.open /\ SessionInv /\ BitInv /\ LoadInv /\ PieceInv /\ SentInv /\ CleanInv
  BY <1>1 DEF Inv, SessionInv, BitInv
<1>4. /\ Blocks(file)' = Blocks(file) /\ \A m : Payload(m)' = Payload(m) /\ BlockAddr(m)' = BlockAddr(m)
      /\ Started' = Started /\ Regular' = Regular
  BY <1>1 DEF Blocks, Payload, BlockAddr, Started, Regular
<1>5. BlockAddr(block)' = B /\ Len(Payload(block))' = len /\ Payload(block)' = Payload(block)
  BY <1>1, <1>4
<1> HIDE DEF n, len, B
<1>6. pc' \in {"write", "verify"} /\ addr' \in Nat /\ written' \in Nat
  BY <1>1, <1>3
<1>7. BitInv'
  <2>1. fpga' = fpga /\ left' = left /\ crc' = crc /\ block' = block /\ opener' = opener /\ reported' = reported
    BY <1>1
  <2>2. fpga = << >>
    BY <1>1, <1>3 DEF BitInv
  <2> QED BY <1>1, <1>3, <1>6, <2>1, <2>2 DEF BitInv
<1>8. LoadInv'
  BY <1>6, NoLoad
<1>9. SessionInv'
  <2>1. pc' = "write" => (written \in 0..(Len(Payload(block)) - 1))'
    BY <1>1, <1>3, <1>5
  <2>2. pc' = "write" => (addr = BlockAddr(block) + written)'
    <3>1. B \in Nat
      <4>1. 0 \in 0..(len - 1)
        BY <1>1
      <4> QED BY <1>1, <1>3, <4>1, InFlash DEF B, len
    <3> QED BY <1>1, <1>3, <1>5, <3>1
  <2>3. session' = session /\ file' = file /\ toSend' = toSend /\ opener' = opener
        /\ block' = block /\ reported' = reported
    BY <1>1
  <2> QED BY <1>1, <1>3, <1>4, <1>6, <2>1, <2>2, <2>3 DEF SessionInv
<1>10. PieceInv'
  <2> SUFFICES ASSUME pc' = "write", Regular
               PROVE  /\ PageSize % session.size = 0 => written' = 0
                      /\ session.size % PageSize = 0 => written' % PageSize = 0
    BY <1>1, <1>4 DEF PieceInv
  <2>1. written + n < len
    BY <1>1
  <2>2. /\ PageSize % session.size = 0 => written + n = len
        /\ session.size % PageSize = 0 /\ written + n < len => (written + n) % PageSize = 0
    BY <1>1, <1>3, PieceInSlot DEF n, len
  <2>3. ~ (PageSize % session.size = 0)
    BY <1>1, <1>3, <2>1, <2>2
  <2> QED BY <1>1, <2>1, <2>2, <2>3
<1>11. ASSUME Regular, NEW m \in Blocks(file), m # block,
              NEW k \in 0..(Len(Payload(m)) - 1)
       PROVE  flash'[BlockAddr(m) + k] = flash[BlockAddr(m) + k]
  <2>1. /\ BlockAddr(m) \in Nat /\ BlockAddr(m) + k \in Address /\ B \in Nat
        /\ k \in Nat /\ k < session.size /\ session.size \in Nat
    <3>1. Len(Payload(m)) \in Nat \ {0} /\ Len(Payload(m)) <= session.size /\ session.size \in Nat
      BY <1>1, <1>3, <1>11, RegularFile, FileType
    <3>2. BlockAddr(m) \in Nat /\ B \in Nat
      BY <1>1, <1>3, <1>11, Apart DEF B
    <3> QED BY <1>1, <1>3, <1>11, <3>1, <3>2, InFlash
  <2>2. BlockAddr(m) + session.size <= B \/ B + session.size <= BlockAddr(m)
    BY <1>1, <1>3, <1>11, Apart DEF B
  <2>3. ~ (B <= BlockAddr(m) + k /\ BlockAddr(m) + k < B + session.size)
    BY <2>1, <2>2
  <2> QED BY <1>2, <1>11, <2>1, <2>3
<1>12. ASSUME Regular, NEW m \in Blocks(file), m # block PROVE Holds(m) => Holds(m)'
  BY <1>4, <1>11, <1>12 DEF Holds
<1>13. SentInv'
  <2> SUFFICES ASSUME Regular, ~ reported, NEW m \in Blocks(file) \ toSend, m # block
               PROVE  Holds(m)'
    BY <1>1, <1>4, <1>6 DEF SentInv
  <2> QED BY <1>1, <1>3, <1>12 DEF SentInv
<1>14. CleanInv'
  <2> SUFFICES ASSUME Regular, faults' = 0
      PROVE /\ ~ reported
            /\ \A m \in toSend : \A k \in 0..(Len(Payload(m)) - 1) : flash'[BlockAddr(m) + k] = Erased
            /\ pc' = "write" => \A k \in 0..(len - 1) :
                 flash'[B + k] = IF k < written' THEN Payload(block)[k + 1] ELSE Erased
            /\ pc' = "verify" => \A k \in 0..(len - 1) : flash'[B + k] = Payload(block)[k + 1]
    BY <1>1, <1>4, <1>5 DEF CleanInv, Holds
  <2>1. /\ faults = 0 /\ ~ reported
        /\ \A m \in toSend : \A k \in 0..(Len(Payload(m)) - 1) : flash[BlockAddr(m) + k] = Erased
        /\ \A k \in 0..(len - 1) :
             flash[B + k] = IF k < written THEN Payload(block)[k + 1] ELSE Erased
    BY <1>1, <1>2, <1>3 DEF CleanInv, B, len
  <2>2. ASSUME NEW m \in toSend, NEW k \in 0..(Len(Payload(m)) - 1)
        PROVE  flash'[BlockAddr(m) + k] = Erased
    <3>1. m \in Blocks(file) /\ m # block
      BY <1>1, <1>3 DEF SessionInv
    <3> QED BY <1>11, <2>1, <3>1
  <2>3. ASSUME NEW k \in 0..(len - 1)
        PROVE  flash'[B + k] = IF k < written' THEN Payload(block)[k + 1] ELSE Erased
    <3>1. flash'[B + k] = IF written <= k /\ k < written + n
                            THEN flash[B + k] \cap Payload(block)[k + 1]
                            ELSE flash[B + k]
      BY <1>2
    <3>2. flash[B + k] = IF k < written THEN Payload(block)[k + 1] ELSE Erased
      BY <2>1
    <3>3. Payload(block)[k + 1] \in Byte
      <4>1. Payload(block) \in Seq(Byte) /\ k + 1 \in 1..Len(Payload(block))
        BY <1>1, FileType DEF len
      <4> QED BY <4>1
    <3>4. Erased \cap Payload(block)[k + 1] = Payload(block)[k + 1]
      BY <3>3 DEF Byte, Erased
    <3>5. k \in Nat /\ written \in Nat /\ n \in Nat \ {0} /\ written' = written + n
      BY <1>1, <1>3
    <3> DEFINE f == flash[B + k]
               g == flash'[B + k]
               p == Payload(block)[k + 1]
    <3>6. /\ g = IF written <= k /\ k < written + n THEN f \cap p ELSE f
          /\ f = (IF k < written THEN p ELSE Erased) /\ Erased \cap p = p
      BY <3>1, <3>2, <3>4
    <3> HIDE DEF f, g, p
    <3>7. g = IF k < written' THEN p ELSE Erased
      BY <3>5, <3>6
    <3> QED BY <3>7 DEF f, g, p
  <2>4. ASSUME pc' = "verify", NEW k \in 0..(len - 1) PROVE flash'[B + k] = Payload(block)[k + 1]
    <3>1. ~ (written' < len)
      BY <1>1, <2>4
    <3>2. k < written'
      BY <1>1, <1>6, <3>1
    <3> QED BY <2>3, <3>2
  <2> QED BY <2>1, <2>2, <2>3, <2>4
<1> QED BY <1>7, <1>8, <1>9, <1>10, <1>13, <1>14 DEF Inv

\* spi_flash_verify_buffer: what compares equal is held.
LEMMA VerifiedHolds ==
  ASSUME SessionInv, Started, FlashTyped, NEW n \in Blocks(file)
  PROVE  Verified(n) <=> Holds(n)
<1> DEFINE len == Len(Payload(n))
           s == SpiFlashRead(BlockAddr(n), len)
<1>1. file \in Files
  <2>1. file # << >>
    BY DEF Started, SessionInv, Blocks
  <2> QED BY <2>1 DEF SessionInv
<1>2. Payload(n) \in Seq(Byte) /\ len \in Nat \ {0}
  BY <1>1, FileType
<1>3. BlockAddr(n) \in Nat /\ \A k \in 0..(len - 1) : BlockAddr(n) + k \in Address
  <2>1. 0 \in 0..(len - 1)
    BY <1>2
  <2> QED BY <2>1, InFlash
<1>4. s \in Seq(Byte) /\ Len(s) = len
  BY <1>2, <1>3, ReadType
<1>5. ASSUME NEW k \in 0..(len - 1) PROVE s[k + 1] = flash[BlockAddr(n) + k]
  <2>1. k + 1 \in 1..len /\ BlockAddr(n) + (k + 1) - 1 = BlockAddr(n) + k
    BY <1>2, <1>3
  <2>2. s[k + 1] = flash[(BlockAddr(n) + (k + 1) - 1) % FlashSize]
    BY <1>2, <1>3, <2>1, ReadType
  <2>3. (BlockAddr(n) + k) % FlashSize = BlockAddr(n) + k
    BY <1>3, SmallMod, LoadAssumption DEF Address
  <2> QED BY <2>1, <2>2, <2>3
<1>6. Verified(n) <=> s = Payload(n)
  BY DEF Verified
<1>7. Holds(n) <=> \A k \in 0..(len - 1) : flash[BlockAddr(n) + k] = Payload(n)[k + 1]
  BY DEF Holds
<1> HIDE DEF s
<1>8. Holds(n) => s = Payload(n)
  <2> SUFFICES ASSUME Holds(n) PROVE s = Payload(n)
    OBVIOUS
  <2>1. ASSUME NEW j \in 1..len PROVE s[j] = Payload(n)[j]
    <3>1. j - 1 \in 0..(len - 1) /\ (j - 1) + 1 = j
      BY <1>2
    <3> QED BY <1>5, <1>7, <3>1
  <2> QED BY <1>2, <1>4, <2>1
<1>9. s = Payload(n) => Holds(n)
  BY <1>5, <1>7
<1> QED BY <1>6, <1>8, <1>9

\* A block is compared and counted: it is held, or an error is printed.
LEMMA VerifySteps ==
  ASSUME Inv, VerifyAndCount
  PROVE  Inv'
<1>1. /\ pc = "verify" /\ reported' = (reported \/ ~ Verified(block))
      /\ session' = [session EXCEPT !.left = @ - 1, !.open = (@ /\ session.left # 1)]
      /\ pc' = IF session'.open THEN "session" ELSE "load"
      /\ flash' = flash /\ left' = left /\ addr' = addr /\ fpga' = fpga /\ crc' = crc
      /\ file' = file /\ toSend' = toSend /\ block' = block /\ written' = written
      /\ opener' = opener /\ faults' = faults
  BY DEF VerifyAndCount
<1>2. /\ session.open /\ session.left = Cardinality(toSend) + 1 /\ Started
      /\ block \in Blocks(file) \ toSend
      /\ session \in [open : BOOLEAN, left : Nat, size : Nat] /\ toSend \subseteq Blocks(file)
      /\ session.left > 0 /\ SessionInv /\ BitInv /\ SentInv /\ CleanInv
  BY <1>1 DEF Inv, SessionInv
<1>3. Cardinality(toSend) \in Nat /\ (Cardinality(toSend) = 0 <=> toSend = {})
  BY <1>2, BlocksFinite, SubsetCards
<1>4. /\ session'.left = session.left - 1 /\ session'.open = (session.left # 1)
      /\ session'.size = session.size
      /\ session' \in [open : BOOLEAN, left : Nat, size : Nat]
  <2>1. session'.left = session.left - 1 /\ session'.size = session.size
    BY <1>1, <1>2
  <2>2. session'.open = (session.open /\ session.left # 1)
    BY <1>1, <1>2
  <2>3. session' = [open |-> session'.open, left |-> session'.left, size |-> session'.size]
    BY <1>1, <1>2
  <2>4. session'.left \in Nat /\ session'.size \in Nat /\ session'.open \in BOOLEAN
    BY <1>2, <2>1, <2>2
  <2> QED BY <1>2, <2>1, <2>2, <2>3, <2>4
<1>5. /\ Blocks(file)' = Blocks(file) /\ \A m : Payload(m)' = Payload(m) /\ BlockAddr(m)' = BlockAddr(m)
      /\ Started' = Started /\ Regular' = Regular
  BY <1>1, <1>4 DEF Blocks, Payload, BlockAddr, Started, Regular
<1>6. \A m : Holds(m)' = Holds(m)
  BY <1>1, <1>5 DEF Holds
<1>7. Verified(block) <=> Holds(block)
  BY <1>2, VerifiedHolds DEF BitInv
<1>8. pc' \in {"session", "load"} /\ (pc' = "session" <=> session'.open)
  BY <1>1, <1>4
<1>9. BitInv'
  <2>1. fpga = << >> /\ reported' \in BOOLEAN
    BY <1>1, <1>2 DEF BitInv
  <2> QED BY <1>1, <1>2, <1>8, <2>1 DEF BitInv, FlashTyped
<1>10. LoadInv'
  BY <1>1, <1>2, <1>8 DEF BitInv, LoadInv
<1>11. SessionInv'
  <2>1. (session.left = IF session.open
                         THEN Cardinality(toSend) + (IF pc = "session" THEN 0 ELSE 1)
                         ELSE 0)'
    BY <1>1, <1>2, <1>3, <1>4, <1>8
  <2>2. (session.open => session.left > 0)' /\ (~ session.open => toSend = {})'
    <3>1. session.left \in Nat
      BY <1>2
    <3>2. CASE session.left = 1
      <4>1. ~ session'.open
        BY <1>4, <3>2
      <4>2. Cardinality(toSend) = 0
        BY <1>2, <1>3, <3>2
      <4> QED BY <1>1, <1>3, <4>1, <4>2
    <3>3. CASE session.left # 1
      <4>1. session'.left > 0 /\ session'.open
        BY <1>2, <1>4, <3>1, <3>3
      <4> QED BY <4>1
    <3> QED BY <3>2, <3>3
  <2>3. (Started => opener \in Blocks(file) /\ session.size = Len(Payload(opener)))'
    BY <1>1, <1>2, <1>4, <1>5 DEF SessionInv
  <2> QED BY <1>1, <1>2, <1>4, <1>5, <1>8, <2>1, <2>2, <2>3 DEF SessionInv
<1>12. PieceInv'
  BY <1>8 DEF PieceInv
<1>13. SentInv'
  BY <1>1, <1>2, <1>5, <1>6, <1>7 DEF SentInv
<1>14. CleanInv'
  <2> SUFFICES ASSUME Regular, faults = 0
      PROVE /\ ~ reported'
            /\ \A m \in toSend : \A k \in 0..(Len(Payload(m)) - 1) : flash[BlockAddr(m) + k] = Erased
    BY <1>1, <1>5, <1>8 DEF CleanInv
  <2> QED BY <1>1, <1>2, <1>7 DEF CleanInv
<1> QED BY <1>9, <1>10, <1>11, <1>12, <1>13, <1>14 DEF Inv

\* A load touches nothing of the copy.
LEMMA LoadSteps ==
  ASSUME Inv, LoadFpga
  PROVE  Inv'
<1>1. /\ Load /\ flash' = flash /\ file' = file /\ toSend' = toSend /\ session' = session
      /\ block' = block /\ written' = written /\ reported' = reported /\ opener' = opener
      /\ faults' = faults
  BY DEF LoadFpga, writeVars, Load, ReadHeader, SendChunk
<1>2. pc \in {"load", "send"} /\ pc' \in {"send", "idle"}
  BY <1>1 DEF Load, ReadHeader, SendChunk
<1>3. BitInv /\ LoadInv /\ SessionInv /\ PieceInv /\ SentInv /\ CleanInv /\ FlashTyped
  BY DEF Inv, BitInv
<1>4. LoadInv' /\ left' \in 0..(Word - 1) /\ addr' \in Nat
  <2>1. CASE ReadHeader
    <3>1. left' \in 0..(Word - 1)
      BY <1>3, <2>1, HeaderType, LengthType DEF ReadHeader
    <3>2. addr' \in Nat
      BY <1>3, <2>1 DEF ReadHeader, BitInv
    <3> QED BY <1>3, <2>1, <3>1, <3>2, ReadHeaderLoads
  <2>2. CASE SendChunk
    <3>1. LoadInv' /\ left' \in 0..left
      BY <1>3, <2>2, SendChunkLoads
    <3>2. left \in Nat /\ left <= Word - 1 /\ addr \in Nat /\ Word \in Nat
      BY <1>3, WordPositive DEF BitInv
    <3>3. addr' = addr + ReadLen(left) /\ ReadLen(left) \in Nat
      BY <2>2, <3>2, LoadAssumption DEF SendChunk, ReadLen
    <3> QED BY <3>1, <3>2, <3>3
  <2> QED BY <1>1, <2>1, <2>2 DEF Load
<1>5. fpga' \in Seq(Byte) /\ crc' \in Register
  <2>1. CASE ReadHeader
    <3>1. << >> \in Seq(Byte)
      OBVIOUS
    <3> QED BY <1>3, <2>1, <3>1, CrcOfNothing DEF ReadHeader, BitInv
  <2>2. CASE SendChunk
    <3>1. left \in Nat /\ addr \in Nat /\ fpga \in Seq(Byte) /\ crc \in Register
      BY <1>3, WordPositive DEF BitInv
    <3>2. ReadLen(left) \in Nat
      BY <3>1, LoadAssumption DEF ReadLen
    <3>3. SpiFlashRead(addr, ReadLen(left)) \in Seq(Byte)
      BY <1>3, <3>1, <3>2, ReadType
    <3> QED BY <2>2, <3>1, <3>3, CrcType DEF SendChunk
  <2> QED BY <1>1, <2>1, <2>2 DEF Load
<1>6. /\ Blocks(file)' = Blocks(file) /\ \A m : Payload(m)' = Payload(m) /\ BlockAddr(m)' = BlockAddr(m)
      /\ Started' = Started /\ Regular' = Regular
  BY <1>1 DEF Blocks, Payload, BlockAddr, Started, Regular
<1>7. \A m : Holds(m)' = Holds(m)
  BY <1>1, <1>6 DEF Holds
<1>8. BitInv'
  BY <1>1, <1>2, <1>3, <1>4, <1>5 DEF BitInv, FlashTyped
<1>9. SessionInv'
  BY <1>1, <1>2, <1>3, <1>6 DEF SessionInv
<1>10. PieceInv' /\ SentInv' /\ CleanInv'
  BY <1>1, <1>2, <1>3, <1>6, <1>7 DEF PieceInv, SentInv, CleanInv
<1> QED BY <1>4, <1>8, <1>9, <1>10 DEF Inv

\* At boot no block has been taken.
LEMMA InitHolds == Init => Inv
<1> SUFFICES ASSUME Init PROVE Inv
  OBVIOUS
<1>1. /\ flash \in [Address -> Byte] /\ pc = "load" /\ left = 0 /\ addr = 0 /\ fpga = << >>
      /\ crc = {} /\ file = << >> /\ toSend = {} /\ session = [open |-> FALSE, left |-> 0, size |-> 0]
      /\ block = 0 /\ written = 0 /\ reported = FALSE /\ opener = 0 /\ faults = 0
  BY WriteAssumption DEF Init
<1>2. ~ Started
  BY <1>1 DEF Started, Blocks
<1>3. BitInv
  <2>1. << >> \in Seq(Byte) /\ 0 \in 0..(Word - 1) /\ 0 \in 0..MaxFaults
    BY WordPositive, WriteAssumption
  <2>2. crc \in Register /\ {block, opener} \subseteq Nat
    BY <1>1, CrcOfNothing
  <2>4. reported \in BOOLEAN
    BY <1>1
  <2>3. left \in 0..(Word - 1) /\ addr \in Nat /\ fpga \in Seq(Byte) /\ faults \in 0..MaxFaults
    BY <1>1, <2>1
  <2> QED BY <1>1, <2>2, <2>3, <2>4 DEF BitInv, FlashTyped
<1>4. LoadInv
  BY <1>1 DEF LoadInv
<1>5. SessionInv
  BY <1>1, <1>2 DEF SessionInv, Blocks
<1>6. PieceInv /\ SentInv /\ CleanInv
  BY <1>1, <1>2 DEF PieceInv, SentInv, CleanInv
<1> QED BY <1>3, <1>4, <1>5, <1>6 DEF Inv

\* Every step keeps the invariant.
LEMMA StepKeeps == Inv /\ [Next]_vars => Inv'
<1> SUFFICES ASSUME Inv, [Next]_vars PROVE Inv'
  OBVIOUS
<1>1. ASSUME NEW f \in Files, StartCopy(f) PROVE Inv'
  BY <1>1, StartCopySteps
<1>2. ASSUME NEW n \in toSend, Block(n) PROVE Inv'
  BY <1>2, BlockSteps
<1>3. CASE WritePiece
  BY <1>3, WritePieceSteps
<1>4. CASE VerifyAndCount
  BY <1>4, VerifySteps
<1>5. CASE LoadFpga
  BY <1>5, LoadSteps
<1>6. CASE UNCHANGED vars
  <2>1. /\ UNCHANGED loadVars /\ flash' = flash /\ pc' = pc /\ left' = left /\ addr' = addr
        /\ fpga' = fpga /\ crc' = crc
        /\ file' = file /\ toSend' = toSend /\ session' = session /\ block' = block
        /\ written' = written /\ reported' = reported /\ opener' = opener /\ faults' = faults
    BY <1>6 DEF vars, loadVars, writeVars
  <2>2. /\ Blocks(file)' = Blocks(file) /\ \A m : Payload(m)' = Payload(m) /\ BlockAddr(m)' = BlockAddr(m)
        /\ Started' = Started /\ Regular' = Regular
    BY <2>1 DEF Blocks, Payload, BlockAddr, Started, Regular
  <2>3. \A m : Holds(m)' = Holds(m)
    BY <2>1, <2>2 DEF Holds
  <2>4. LoadInv'
    BY <2>1, LoadKept DEF Inv
  <2>5. BitInv'
    BY <2>1 DEF Inv, BitInv, FlashTyped
  <2>6. SessionInv'
    BY <2>1, <2>2 DEF Inv, SessionInv
  <2>7. PieceInv'
    BY <2>1, <2>2 DEF Inv, PieceInv
  <2>8. SentInv'
    BY <2>1, <2>2, <2>3 DEF Inv, SentInv
  <2>9. CleanInv'
    BY <2>1, <2>2, <2>3 DEF Inv, CleanInv
  <2> QED BY <2>4, <2>5, <2>6, <2>7, <2>8, <2>9 DEF Inv
<1> QED BY <1>1, <1>2, <1>3, <1>4, <1>5, <1>6 DEF Next

\* So it holds always.  The properties below follow from it in each state.
THEOREM Inductive == Spec => []Inv
<1> QED BY InitHolds, StepKeeps, PTL DEF Spec

-----------------------------------------------------------------------------
(* What follows from the invariant. *)

\* The type invariant that the run checks.
LEMMA Typed == Inv => TypeOK
<1> SUFFICES ASSUME Inv PROVE TypeOK
  OBVIOUS
<1>1. BitInv /\ SessionInv
  BY DEF Inv
<1>2. \A i \in DOMAIN fpga : fpga[i] \in Byte
  BY <1>1 DEF BitInv
<1>3. pc = "write" => addr < FlashSize
  <2> SUFFICES ASSUME pc = "write" PROVE addr < FlashSize
    OBVIOUS
  <2>1. /\ block \in Blocks(file) /\ Started /\ written \in 0..(Len(Payload(block)) - 1)
        /\ addr = BlockAddr(block) + written
    BY <1>1 DEF SessionInv
  <2>2. addr \in Address
    BY <1>1, <2>1, InFlash
  <2> QED BY <2>2, LoadAssumption DEF Address
<1>4. session.left <= Len(file)
  <2>1. IsFiniteSet(Blocks(file)) /\ Cardinality(Blocks(file)) = Len(file) /\ Len(file) \in Nat
    BY <1>1, BlocksFinite
  <2>2. CASE ~ session.open
    BY <1>1, <2>1, <2>2 DEF SessionInv
  <2>3. CASE session.open /\ pc = "session"
    <3>1. session.left = Cardinality(toSend) + 0 /\ toSend \in SUBSET Blocks(file)
      BY <1>1, <2>3 DEF SessionInv
    <3>2. Cardinality(toSend) \in Nat /\ Cardinality(toSend) <= Len(file)
      BY <2>1, <3>1, SubsetCards
    <3> QED BY <3>1, <3>2
  <2>4. CASE session.open /\ pc # "session"
    <3>1. session.left = Cardinality(toSend) + 1 /\ block \in Blocks(file) \ toSend
          /\ toSend \in SUBSET Blocks(file)
      BY <1>1, <2>4 DEF SessionInv
    <3> DEFINE others == Blocks(file) \ {block}
    <3>2. IsFiniteSet(others) /\ Cardinality(others) = Len(file) - 1
      BY <2>1, <3>1, FS_RemoveElement
    <3>3. toSend \in SUBSET others
      BY <3>1
    <3>4. Cardinality(toSend) \in Nat /\ Cardinality(toSend) <= Len(file) - 1
      <4> HIDE DEF others
      <4> QED BY <3>2, <3>3, SubsetCards
    <3> QED BY <2>1, <3>1, <3>4
  <2> QED BY <2>2, <2>3, <2>4
<1>5. session.open <=> session.left > 0
  BY <1>1 DEF SessionInv
<1>6. session \in [open : BOOLEAN, left : 0..Len(file), size : Nat]
  <2>1. session \in [open : BOOLEAN, left : Nat, size : Nat] /\ Len(file) \in Nat
    BY <1>1, BlocksFinite DEF SessionInv
  <2> QED BY <1>4, <2>1
<1>7. toSend \subseteq Blocks(file)
  BY <1>1 DEF SessionInv
<1> QED BY <1>1, <1>2, <1>3, <1>5, <1>6, <1>7 DEF TypeOK, BitInv, FlashTyped, Register

\* A chip that has not failed holds what is compared.
LEMMA FalseAlarms == Inv => NoFalseAlarm
<1> SUFFICES ASSUME Inv, file # << >>, reported, Regular PROVE faults > 0
  BY DEF NoFalseAlarm
<1>1. Started
  BY DEF Inv, SessionInv
<1>2. faults # 0
  BY <1>1 DEF Inv, CleanInv
<1> QED BY <1>2, WriteAssumption DEF Inv, BitInv

\* When the session has ended without an error, every block is in the flash.
LEMMA AllHold ==
  ASSUME Inv, Finished, Regular, ~ reported
  PROVE  /\ Started /\ file \in Files
         /\ \A n \in Blocks(file) : Holds(n)
<1>1. file \in Files /\ toSend = {} /\ pc \in {"load", "send", "idle"}
  BY DEF Inv, SessionInv, Finished
<1>2. Len(file) \in Nat \ {0}
  BY <1>1, FileType
<1>3. 0 \in Blocks(file)
  BY <1>2 DEF Blocks
<1>4. Started
  BY <1>1, <1>3 DEF Started
<1> QED BY <1>1, <1>4 DEF Inv, SentInv

\* The payload of a block of a regular file.
LEMMA RegularBlock ==
  ASSUME SessionInv, Started, Regular, NEW n \in Int, 0 <= n, n < Len(file)
  PROVE  /\ Payload(n) \in Seq(Byte) /\ Len(Payload(n)) \in Nat \ {0}
         /\ Len(Payload(n)) <= session.size
         /\ n # Len(file) - 1 => Len(Payload(n)) = session.size
<1>1. n \in Blocks(file)
  <2>1. Len(file) \in Nat
    BY RegularFile, FileType
  <2> QED BY <2>1 DEF Blocks
<1> QED BY <1>1, RegularFile, FileType

\* In the image, the payload of each block of a regular file is in its slot.
LEMMA ImageBytes ==
  ASSUME SessionInv, Started, Regular
  PROVE  /\ Image(file) \in Seq(Byte)
         /\ Len(Image(file)) = (Len(file) - 1) * session.size + Len(Payload(Len(file) - 1))
         /\ \A n \in Blocks(file) : \A k \in 0..(Len(Payload(n)) - 1) :
              Image(file)[BlockAddr(n) + k + 1] = Payload(n)[k + 1]
<1> DEFINE N == Len(file)
           s == session.size
<1>1. /\ file \in Files /\ N \in Nat \ {0} /\ s \in Nat \ {0}
      /\ \A n \in Blocks(file) : /\ Payload(n) \in Seq(Byte) /\ Len(Payload(n)) \in Nat \ {0}
                                /\ Len(Payload(n)) <= s
                                /\ n # N - 1 => Len(Payload(n)) = s
      /\ \A n : n \in Blocks(file) <=> n \in 0..(N - 1)
  BY RegularFile, FileType DEF Blocks
<1>2. PICK F \in [1..N -> Seq(Byte)] :
        /\ F[1] = file[1]
        /\ \A i \in 1..N : i # 1 => F[i] = F[i - 1] \o file[i]
        /\ Image(file) = F[N]
  <2>1. file \in Seq(Seq(Byte)) /\ N = Len(file) /\ file # << >>
    BY <1>1, FileType
  <2>2. PICK F \in [1..Len(file) -> Seq(Byte)] : Chain(F, file) /\ FlattenSeq(file) = F[Len(file)]
    BY <2>1, Flattened
  <2>3. F[1] = file[1] /\ \A i \in 1..N : i # 1 => F[i] = F[i - 1] \o file[i]
    BY <2>2 DEF Chain
  <2> QED BY <2>2, <2>3 DEF Image
<1> HIDE DEF s, N
<1> DEFINE Good(i) == /\ Len(F[i]) = (i - 1) * s + Len(Payload(i - 1))
                      /\ \A n \in 0..(i - 1) : \A k \in 0..(Len(Payload(n)) - 1) :
                           F[i][n * s + k + 1] = Payload(n)[k + 1]
           P == {i \in 0..N : i = 0 \/ Good(i)}
<1>3. Good(1)
  <2>1. F[1] = Payload(0) /\ Payload(0) \in Seq(Byte)
    BY <1>1, <1>2 DEF Payload
  <2>2. 0 * s = 0 /\ Len(Payload(0)) \in Nat
    BY <1>1
  <2>3. Len(F[1]) = (1 - 1) * s + Len(Payload(1 - 1))
    BY <2>1, <2>2
  <2>4. ASSUME NEW n \in 0..(1 - 1), NEW k \in 0..(Len(Payload(n)) - 1)
        PROVE  F[1][n * s + k + 1] = Payload(n)[k + 1]
    <3>1. n = 0 /\ k \in Int
      BY <2>2
    <3>2. n * s + k + 1 = k + 1
      BY <2>2, <3>1
    <3> QED BY <2>1, <3>1, <3>2
  <2> QED BY <2>3, <2>4
<1>4. ASSUME NEW i \in 1..(N - 1), Good(i) PROVE Good(i + 1)
  <2>1. i - 1 \in 0..(N - 1) /\ i - 1 # N - 1 /\ i \in 0..(N - 1) /\ i + 1 \in 1..N
        /\ i + 1 # 1 /\ (i + 1) - 1 = i /\ i \in Nat /\ i \in 1..N
    BY <1>1
  <2>2. F[i + 1] = F[i] \o Payload(i)
    BY <1>2, <2>1 DEF Payload
  <2>3. F[i] \in Seq(Byte) /\ Payload(i) \in Seq(Byte) /\ Len(Payload(i)) \in Nat \ {0}
        /\ Len(Payload(i - 1)) = s
    <3> HIDE DEF Good
    <3>1. F[i] \in Seq(Byte)
      BY <1>2, <2>1
    <3>2. Payload(i) \in Seq(Byte) /\ Len(Payload(i)) \in Nat \ {0}
      <4>1. i \in Int /\ 0 <= i /\ i < Len(file)
        BY <1>1, <2>1 DEF N
      <4> QED BY <4>1, RegularBlock
    <3>3. Len(Payload(i - 1)) = s
      <4>1. i - 1 \in Int /\ 0 <= i - 1 /\ i - 1 < Len(file) /\ i - 1 # Len(file) - 1
        BY <1>1, <2>1 DEF N
      <4> QED BY <4>1, RegularBlock DEF s
    <3> QED BY <3>1, <3>2, <3>3
  <2>4. Concat(F[i + 1], F[i], Payload(i))
    BY <2>2, <2>3, Concats
  <2>5. Len(F[i]) = i * s /\ i * s \in Nat
    <3>1. Len(F[i]) = (i - 1) * s + s
      BY <1>4, <2>3
    <3>2. (i - 1) * s + s = i * s /\ i * s \in Nat
      BY <1>1, <2>1
    <3> QED BY <3>1, <3>2
  <2>6. Len(F[i + 1]) = i * s + Len(Payload(i))
    BY <2>4, <2>5 DEF Concat
  <2>7. ASSUME NEW n \in 0..i, NEW k \in 0..(Len(Payload(n)) - 1)
        PROVE  F[i + 1][n * s + k + 1] = Payload(n)[k + 1]
    <3>0. n \in 0..(N - 1) /\ n \in Nat /\ Len(Payload(n)) \in Nat /\ k \in Nat /\ k < s
          /\ n * s \in Nat
      <4> HIDE DEF Good
      <4>1. n \in 0..(N - 1) /\ n \in Nat
        BY <1>1, <2>1
      <4>2. Len(Payload(n)) \in Nat /\ Len(Payload(n)) <= s
        <5>1. n \in Int /\ 0 <= n /\ n < Len(file)
          BY <1>1, <4>1 DEF N
        <5> QED BY <5>1, RegularBlock DEF s
      <4>3. n * s \in Nat
        BY <1>1, <4>1
      <4> QED BY <1>1, <4>1, <4>2, <4>3
    <3>1. CASE n = i
      <4>1. k + 1 \in 1..Len(Payload(i)) /\ n * s + k + 1 = Len(F[i]) + (k + 1)
        BY <2>5, <3>0, <3>1
      <4>2. F[i + 1][Len(F[i]) + (k + 1)] = Payload(i)[k + 1]
        BY <2>4, <4>1 DEF Concat
      <4> QED BY <3>1, <4>1, <4>2
    <3>2. CASE n # i
      <4>1. n < i /\ n \in 0..(i - 1)
        BY <2>1, <3>0, <3>2
      <4>2. n * s + s <= i * s
        BY <1>1, <2>1, <3>0, <4>1, Products
      <4>3. n * s + k + 1 \in 1..Len(F[i])
        <5> HIDE DEF Good
        <5> DEFINE x == n * s
                   y == i * s
        <5>1. x \in Nat /\ y \in Nat /\ x + s <= y /\ k \in Nat /\ k < s /\ s \in Nat /\ Len(F[i]) = y
          BY <1>1, <2>5, <3>0, <4>2
        <5> HIDE DEF x, y
        <5>2. x + k + 1 \in 1..y
          BY <5>1
        <5> QED BY <5>1, <5>2 DEF x
      <4>4. F[i + 1][n * s + k + 1] = F[i][n * s + k + 1]
        BY <2>4, <4>3 DEF Concat
      <4> QED BY <1>4, <4>1, <4>4
    <3> QED BY <3>1, <3>2
  <2> QED BY <2>1, <2>6, <2>7
<1>5. 0..N \subseteq P
  <2>1. 0 \in P
    BY <1>1
  <2>2. ASSUME NEW k \in 0..(N - 1), k \in P PROVE k + 1 \in P
    <3>1. k + 1 \in 0..N /\ (k # 0 => k \in 1..(N - 1)) /\ (k = 0 => k + 1 = 1)
      BY <1>1
    <3>2. Good(k + 1)
      <4> HIDE DEF Good
      <4>1. CASE k = 0
        BY <1>3, <3>1, <4>1
      <4>2. CASE k # 0
        BY <1>4, <2>2, <3>1, <4>2
      <4> QED BY <4>1, <4>2
    <3> HIDE DEF Good
    <3> QED BY <3>1, <3>2
  <2> HIDE DEF P
  <2> QED BY <1>1, <2>1, <2>2, CountUp
<1>6. Good(N)
  <2> HIDE DEF Good
  <2> QED BY <1>1, <1>5
<1>7. Image(file) \in Seq(Byte)
  BY <1>1, <1>2
<1> QED BY <1>2, <1>6, <1>7 DEF N, s, Blocks, BlockAddr

\* When the session has ended without an error, the image is in the flash.
LEMMA StoredWhole ==
  ASSUME Inv, Finished, Regular, ~ reported
  PROVE  /\ Stored
         /\ Image(file) \in Seq(Byte) /\ Len(Image(file)) \in 0..(Word - 1)
         /\ \A i \in 0..(Len(Image(file)) - 1) :
              i \in Address /\ flash[i] = Image(file)[i + 1]
<1> DEFINE N == Len(file)
           s == session.size
           last == Len(Payload(N - 1))
           L == Len(Image(file))
<1>1. Started /\ file \in Files /\ \A n \in Blocks(file) : Holds(n)
  BY AllHold
<1>2. SessionInv /\ FlashTyped
  BY DEF Inv, BitInv
<1>3. /\ N \in Nat \ {0} /\ s \in Nat \ {0} /\ last \in Nat \ {0} /\ last <= s
      /\ N * s <= FlashSize /\ N * s < Word /\ FlashSize \in Nat /\ Word \in Nat
      /\ \A n \in 0..(N - 1) : n # N - 1 => Len(Payload(n)) = s
  <2>1. N \in Nat \ {0} /\ N - 1 \in Blocks(file)
    BY <1>1, FileType DEF Blocks
  <2>2. N * s < Word
    BY <1>1, <1>2, FileType DEF SessionInv
  <2> QED BY <1>1, <1>2, <2>1, <2>2, RegularFile, FileType, LoadAssumption, WordPositive DEF Blocks
<1>4. /\ Image(file) \in Seq(Byte) /\ L = (N - 1) * s + last
      /\ \A n \in 0..(N - 1) : \A k \in 0..(Len(Payload(n)) - 1) :
           Image(file)[n * s + k + 1] = Payload(n)[k + 1]
  BY <1>1, <1>2, ImageBytes DEF Blocks, BlockAddr
<1>5. \A n \in 0..(N - 1) : \A k \in 0..(Len(Payload(n)) - 1) : flash[n * s + k] = Payload(n)[k + 1]
  BY <1>1 DEF Holds, Blocks, BlockAddr
<1> HIDE DEF N, s, last, L
<1>6. (N - 1) * s \in Nat /\ N * s = (N - 1) * s + s
  BY <1>3
<1>7. L \in Nat /\ L <= N * s
  BY <1>3, <1>4, <1>6
<1>8. ASSUME NEW i \in 0..(L - 1) PROVE i \in Address /\ flash[i] = Image(file)[i + 1]
  <2> DEFINE n == i \div s
             k == i % s
  <2>1. n \in Nat /\ k \in Nat /\ k < s /\ i = n * s + k /\ i \in Nat
    BY <1>3, <1>7, Division
  <2>2. n * s \in Nat
    BY <1>3, <2>1
  <2> HIDE DEF n, k
  <2>3. n < N
    <3>1. N = n => N * s = n * s
      OBVIOUS
    <3>2. N < n => N * s + s <= n * s
      BY <1>3, <2>1, Products
    <3> QED BY <1>3, <1>6, <1>7, <2>1, <2>2, <3>1, <3>2
  <2>4. k \in 0..(Len(Payload(n)) - 1) /\ n \in 0..(N - 1)
    <3>1. CASE n = N - 1
      <4>1. i = (N - 1) * s + k
        BY <2>1, <3>1
      <4>2. k < last
        BY <1>3, <1>4, <1>6, <2>1, <4>1
      <4> QED BY <1>3, <2>1, <3>1, <4>2 DEF last
    <3>2. CASE n # N - 1
      BY <1>3, <2>1, <2>3, <3>2
    <3> QED BY <3>1, <3>2
  <2>5. flash[i] = Payload(n)[k + 1] /\ Image(file)[n * s + k + 1] = Payload(n)[k + 1]
    BY <1>4, <1>5, <2>1, <2>4
  <2>6. i < FlashSize
    BY <1>3, <1>6, <1>7, <2>1
  <2> QED BY <1>3, <2>1, <2>5, <2>6 DEF Address
<1>9. Stored
  <2> DEFINE r == SpiFlashRead(0, L)
  <2>1. r \in Seq(Byte) /\ Len(r) = L
    BY <1>2, <1>7, ReadType
  <2>2. ASSUME NEW j \in 1..L PROVE r[j] = Image(file)[j]
    <3>1. j - 1 \in 0..(L - 1) /\ (j - 1) + 1 = j /\ 0 + j - 1 = j - 1
      BY <1>7
    <3>2. r[j] = flash[(j - 1) % FlashSize]
      BY <1>2, <1>7, <3>1, ReadType
    <3>3. (j - 1) % FlashSize = j - 1
      BY <1>8, <3>1, SmallMod, LoadAssumption DEF Address
    <3> QED BY <1>8, <3>1, <3>2, <3>3
  <2> HIDE DEF r
  <2>3. r = Image(file)
    BY <1>4, <1>7, <2>1, <2>2 DEF L
  <2> QED BY <2>3 DEF Stored, r, L
<1>10. L \in 0..(Word - 1)
  BY <1>3, <1>6, <1>7
<1> QED BY <1>4, <1>8, <1>9, <1>10 DEF L

\* Headers that agree up to the sync word are well formed together.
LEMMA SameHeader ==
  ASSUME NEW b, NEW c, NEW o \in 0..(HeaderSize - LengthSize),
         NEW i \in (o + LengthSize + 1)..(HeaderSize - Len(Sync) - 1),
         o > 0, \A p \in 0..(o - 1) : b[p] # Erased,
         b[o + LengthSize - 1] # Erased,
         \A p \in (o + LengthSize)..(i - 1) : b[p] = Erased,
         \A k \in 1..Len(Sync) : b[i + k - 1] = Sync[k],
         \A p \in 0..(i + Len(Sync) - 1) : c[p] = b[p]
  PROVE  WellFormed(c, o) /\ LengthAt(c, o) = LengthAt(b, o)
<1>1. LengthSize \in Nat \ {0} /\ Len(Sync) \in Nat \ {0} /\ HeaderSize \in Nat /\ o \in Nat
      /\ i \in Nat /\ o + LengthSize < i
  BY LoadAssumption
<1>2. \A p \in 0..(o - 1) : c[p] # Erased
  <2> SUFFICES ASSUME NEW p \in 0..(o - 1) PROVE c[p] # Erased
    OBVIOUS
  <2>1. p \in 0..(i + Len(Sync) - 1)
    BY <1>1
  <2> QED BY <2>1
<1>3. c[o + LengthSize - 1] # Erased
  <2>1. o + LengthSize - 1 \in 0..(i + Len(Sync) - 1)
    BY <1>1
  <2> QED BY <2>1
<1>4. \A p \in (o + LengthSize)..(i - 1) : c[p] = Erased
  <2> SUFFICES ASSUME NEW p \in (o + LengthSize)..(i - 1) PROVE c[p] = Erased
    OBVIOUS
  <2>1. p \in 0..(i + Len(Sync) - 1)
    BY <1>1
  <2> QED BY <2>1
<1>5. \A k \in 1..Len(Sync) : c[i + k - 1] = Sync[k]
  <2> SUFFICES ASSUME NEW k \in 1..Len(Sync) PROVE c[i + k - 1] = Sync[k]
    OBVIOUS
  <2>1. i + k - 1 \in 0..(i + Len(Sync) - 1)
    BY <1>1
  <2> QED BY <2>1
<1>6. [k \in 1..LengthSize |-> c[o + k - 1]] = [k \in 1..LengthSize |-> b[o + k - 1]]
  <2>1. ASSUME NEW k \in 1..LengthSize PROVE c[o + k - 1] = b[o + k - 1]
    <3>1. o + k - 1 \in 0..(i + Len(Sync) - 1)
      BY <1>1
    <3> QED BY <3>1
  <2> QED BY <2>1
<1>7. LengthAt(c, o) = LengthAt(b, o)
  BY <1>6 DEF LengthAt
<1>8. WellFormed(c, o)
  BY <1>2, <1>3, <1>4, <1>5 DEF WellFormed
<1> QED BY <1>7, <1>8

\* And if it has a proper header, the header in the flash is the one in the file,
\* so that the load sent the image.
LEMMA FileSent == Inv => FpgaGetsFile
<1> DEFINE L == Len(Image(file))
           b == [i \in 0..(HeaderSize - 1) |->
                   IF i < L THEN Image(file)[i + 1] ELSE Erased]
<1> SUFFICES ASSUME Inv, Finished, pc = "idle", Regular, ~ reported,
                    NEW o \in 0..(HeaderSize - LengthSize),
                    WellFormed(b, o), LengthAt(b, o) + o + LengthSize = L
             PROVE  fpga = Image(file)
  BY DEF FpgaGetsFile
<1>1. /\ Stored /\ L \in 0..(Word - 1)
      /\ \A i \in 0..(L - 1) : i \in Address /\ flash[i] = Image(file)[i + 1]
  BY StoredWhole
<1> HIDE DEF L
<1>2. /\ o > 0 /\ \A p \in 0..(o - 1) : b[p] # Erased
      /\ b[o + LengthSize - 1] # Erased
      /\ \E i \in (o + LengthSize + 1)..(HeaderSize - Len(Sync) - 1) :
           /\ \A p \in (o + LengthSize)..(i - 1) : b[p] = Erased
           /\ \A k \in 1..Len(Sync) : b[i + k - 1] = Sync[k]
  <2> HIDE DEF b
  <2> QED BY DEF WellFormed
<1>3. PICK i \in (o + LengthSize + 1)..(HeaderSize - Len(Sync) - 1) :
        /\ \A p \in (o + LengthSize)..(i - 1) : b[p] = Erased
        /\ \A k \in 1..Len(Sync) : b[i + k - 1] = Sync[k]
  <2> HIDE DEF b
  <2> QED BY <1>2
<1>4. Len(Sync) \in Nat \ {0} /\ i \in Nat /\ i + Len(Sync) - 1 \in 0..(HeaderSize - 1)
      /\ L \in Nat /\ FlashSize \in Nat \ {0} /\ HeaderSize \in Nat
  BY <1>1, LoadAssumption
<1>5. i + Len(Sync) - 1 < L
  <2>1. Len(Sync) \in 1..Len(Sync) /\ Sync[Len(Sync)] # Erased
    BY <1>4, LoadAssumption
  <2>2. b[i + Len(Sync) - 1] = Sync[Len(Sync)]
    <3> HIDE DEF b
    <3> QED BY <1>3, <2>1
  <2> QED BY <1>4, <2>1, <2>2
<1>6. ASSUME NEW p \in 0..(i + Len(Sync) - 1) PROVE Header[p] = b[p]
  <2>1. p \in 0..(L - 1) /\ p \in 0..(HeaderSize - 1)
    BY <1>4, <1>5
  <2>2. p \in 0..(FlashSize - 1) /\ flash[p] = Image(file)[p + 1]
    BY <1>1, <2>1 DEF Address
  <2>3. p % FlashSize = p
    BY <1>4, <2>2, SmallMod
  <2>4. b[p] = Image(file)[p + 1]
    BY <1>4, <2>1
  <2>5. Header[p] = flash[p % FlashSize]
    BY <2>1 DEF Header
  <2> QED BY <2>2, <2>3, <2>4, <2>5
<1> HIDE DEF b
<1>7. WellFormed(Header, o) /\ LengthAt(Header, o) = LengthAt(b, o)
  BY <1>2, <1>3, <1>6, SameHeader
<1>8. SendsBitstream
  BY SentBitstream DEF Inv, BitInv
<1>9. LengthAt(Header, o) + o + LengthSize = L /\ L < Word
  BY <1>1, <1>7, WordPositive
<1>10. fpga = SpiFlashRead(0, L)
  BY <1>7, <1>8, <1>9 DEF SendsBitstream
<1> QED BY <1>1, <1>10 DEF Stored, L

-----------------------------------------------------------------------------
(* The theorems. *)

\* The types of ImageWrite, and what is more than a type in them: a write never
\* begins behind the end of the flash, and a session counts blocks as long as it
\* is open.
THEOREM TypeCorrect == Spec => []TypeOK
BY Inductive, Typed, PTL

\* startup_program_bitstream: a bitstream with a proper header is sent whole, in
\* order and none of it twice, whatever the buffer's size, and the CRC that is
\* logged is that of what was sent.
THEOREM BitstreamSent == Spec => []SendsBitstream
<1>1. Inv => SendsBitstream
  BY SentBitstream DEF Inv, BitInv
<1> QED BY <1>1, Inductive, PTL

\* Whatever is in the flash, what is sent is as long as four bytes of the header
\* say, unless the padding begins the slot.
THEOREM LengthOfHeader == Spec => []LengthFromHeader
<1>1. Inv => LengthFromHeader
  BY SentLength DEF Inv, BitInv
<1> QED BY <1>1, Inductive, PTL

\* Comparing each block when it has been written is enough, though others of its
\* page are written later, in any order, by a chip that fails: when no error was
\* printed, the flash holds the file.
THEOREM NoDamageUnseen == Spec => []NoSilentDamage
<1>1. Inv => NoSilentDamage
  BY StoredWhole DEF NoSilentDamage
<1> QED BY <1>1, Inductive, PTL

\* An error is printed for a block of a regular file only if the chip has failed:
\* the pieces of a payload never cross a page, and no block damages another.
THEOREM NoAlarmUnfounded == Spec => []NoFalseAlarm
BY Inductive, FalseAlarms, PTL

\* A bitstream that was copied without an error printed reaches the FPGA, byte by
\* byte as it is in the file.
THEOREM FileReachesFpga == Spec => []FpgaGetsFile
BY Inductive, FileSent, PTL

==============================================================================
