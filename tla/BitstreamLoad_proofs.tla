------------------------- MODULE BitstreamLoad_proofs -------------------------
(***************************************************************************)
(* The search for the length in a header counts down a uint16_t without a  *)
(* lower bound: for every buffer that does not begin with the padding it   *)
(* ends inside the buffer, and the length it finds is in front of the sync *)
(* word.  The CRC of chunks is that of all the bytes.  The load of a       *)
(* bitstream, wherever it was interrupted by a write or a reset, has sent  *)
(* the first bytes of the flash.                                           *)
(***************************************************************************)
EXTENDS BitstreamLoad, Folding, SequenceTheorems

-----------------------------------------------------------------------------
(* The CRC. *)

Register == SUBSET (0..(CrcBits - 1))

\* CRC32CS: a step of the CRC stays in the register.
LEMMA CrcByteType == \A c \in Register, b \in Byte : CrcByte(c, b) \in Register
<1> SUFFICES ASSUME NEW c \in Register, NEW b \in Byte PROVE CrcByte(c, b) \in Register
  OBVIOUS
<1> DEFINE low == Xor(c, b) \cap (0..(Bits - 1))
           high == {i - Bits : i \in {j \in c : j >= Bits}}
<1>1. low \in Byte
  BY DEF Byte
<1>2. CrcTable[low] \in Register
  BY <1>1, LoadAssumption DEF Register
<1>3. high \in Register
  <2>1. Bits \in Nat /\ CrcBits \in Nat /\ c \subseteq 0..(CrcBits - 1)
    BY LoadAssumption DEF Register
  <2>2. \A j \in c : j >= Bits => j - Bits \in 0..(CrcBits - 1)
    BY <2>1
  <2> QED BY <2>2 DEF Register
<1> HIDE DEF low, high
<1>4. Xor(CrcTable[low], high) \in Register
  BY <1>2, <1>3 DEF Register, Xor
<1> QED BY <1>4 DEF CrcByte, low, high

\* a holds the registers while the first n bytes of s are taken.
Follows(a, s, n) == \A k \in 1..n : a[k] = CrcByte(a[k - 1], s[k])

\* The fold over a sequence of bytes is the last of the registers it goes through.
LEMMA CrcTrace ==
  ASSUME NEW base \in Register, NEW s \in Seq(Byte)
  PROVE  \E a \in [0..Len(s) -> Register] :
           /\ a[0] = base
           /\ Follows(a, s, Len(s))
           /\ FoldLeft(CrcByte, base, s) = a[Len(s)]
<1> DEFINE n == Len(s)
           S == 1..n
           pick == [u \in SUBSET S |-> Max(u)]
           step == [i \in S |-> [v \in Register |-> CrcByte(v, s[i])]]
           Solves(g) == g = [u \in SUBSET S |-> IF u = {} THEN base
                               ELSE LET x == Max(u) IN CrcByte(g[u \ {x}], s[x])]
           fold == CHOOSE g : Solves(g)
<1>1. n \in Nat /\ DOMAIN s = S /\ IsFiniteSet(S) /\ s \in [S -> Byte]
  BY FS_Interval
<1>2. step \in [S -> [Register -> Register]]
  BY <1>1, CrcByteType
<1>3. Picks(pick, S)
  BY <1>1, Maxima DEF Picks
<1>4. PICK g \in [SUBSET S -> Register] : Recursive(g, S, base, pick, step)
  <2> HIDE DEF pick, step, S
  <2> QED BY <1>1, <1>2, <1>3, Recursion
<1>5. Solves(g)
  <2>1. \A u \in SUBSET S : u # {} =>
          step[pick[u]][g[u \ {pick[u]}]] = CrcByte(g[u \ {Max(u)}], s[Max(u)])
    BY <1>3, <1>4 DEF Picks
  <2>2. \A u \in SUBSET S : g[u] = IF u = {} THEN base ELSE CrcByte(g[u \ {Max(u)}], s[Max(u)])
    BY <1>4, <2>1 DEF Recursive
  <2> QED BY <1>4, <2>2
<1>6. Solves(fold)
  BY <1>5
<1>7. FoldLeft(CrcByte, base, s) = fold[S]
  BY <1>1 DEF FoldLeft, MapThenFoldSet
<1> DEFINE P == {u \in 0..n : fold[1..u] \in Register}
           a == [k \in 0..n |-> fold[1..k]]
<1> HIDE DEF fold
<1>8. fold[{}] = base
  BY <1>6
<1>9. ASSUME NEW k \in 1..n PROVE fold[1..k] = CrcByte(fold[1..(k - 1)], s[k])
  <2>1. 1..k \in SUBSET S /\ 1..k # {} /\ Max(1..k) = k /\ (1..k) \ {k} = 1..(k - 1)
    BY <1>1, Maxima
  <2>2. fold[1..k] = CrcByte(fold[(1..k) \ {Max(1..k)}], s[Max(1..k)])
    BY <1>6, <2>1
  <2> QED BY <2>1, <2>2
<1>10. 1..0 = {}
  OBVIOUS
<1>11. 0..n \subseteq P
  <2>1. 0 \in P
    BY <1>1, <1>8, <1>10
  <2>2. ASSUME NEW k \in 0..(n - 1), k \in P PROVE k + 1 \in P
    <3>1. k + 1 \in 1..n /\ (k + 1) - 1 = k
      BY <1>1
    <3>2. s[k + 1] \in Byte
      BY <1>1, <3>1
    <3> QED BY <1>1, <1>9, <2>2, <3>1, <3>2, CrcByteType
  <2> HIDE DEF P
  <2> QED BY <1>1, <2>1, <2>2, CountUp
<1>12. a \in [0..n -> Register] /\ a[0] = base
  BY <1>1, <1>8, <1>10, <1>11
<1>13. Follows(a, s, n)
  BY <1>1, <1>9 DEF Follows
<1>14. FoldLeft(CrcByte, base, s) = a[n]
  BY <1>1, <1>7
<1> QED BY <1>12, <1>13, <1>14


\* The trace is determined by what it starts with.
LEMMA TraceUnique ==
  ASSUME NEW n \in Nat, NEW s, NEW a, NEW b,
         a[0] = b[0], Follows(a, s, n), Follows(b, s, n)
  PROVE  a[n] = b[n]
<1> DEFINE P == {k \in 0..n : a[k] = b[k]}
<1>1. 0 \in P
  OBVIOUS
<1>2. ASSUME NEW k \in 0..(n - 1), k \in P PROVE k + 1 \in P
  <2>1. k + 1 \in 1..n /\ (k + 1) - 1 = k
    OBVIOUS
  <2> QED BY <1>2, <2>1 DEF Follows
<1>3. 0..n \subseteq P
  <2> HIDE DEF P
  <2> QED BY <1>1, <1>2, CountUp
<1> QED BY <1>3

\* crc32c returns a register, for any bytes.
LEMMA CrcType == \A c \in Register, s \in Seq(Byte) : Crc32c(c, s) \in Register
<1> SUFFICES ASSUME NEW c \in Register, NEW s \in Seq(Byte) PROVE Crc32c(c, s) \in Register
  OBVIOUS
<1>1. \A r \in Register : Complement(r) \in Register
  BY DEF Register, Complement, Xor
<1>2. FoldLeft(CrcByte, Complement(c), s) \in Register
  <2>1. Complement(c) \in Register
    BY <1>1
  <2>2. PICK a \in [0..Len(s) -> Register] :
          FoldLeft(CrcByte, Complement(c), s) = a[Len(s)]
    BY <2>1, CrcTrace
  <2> QED BY <2>2
<1> QED BY <1>1, <1>2 DEF Crc32c

\* The CRC of two chunks is that of both together.
THEOREM CrcOfChunks ==
  ASSUME NEW c \in Register, NEW s \in Seq(Byte), NEW t \in Seq(Byte)
  PROVE  Crc32c(Crc32c(c, s), t) = Crc32c(c, s \o t)
<1> DEFINE n == Len(s)
           m == Len(t)
           mid == FoldLeft(CrcByte, Complement(c), s)
<1>0. \A r \in Register : Complement(r) \in Register /\ Complement(Complement(r)) = r
  BY DEF Register, Complement, Xor
<1>1. PICK a \in [0..n -> Register] :
        a[0] = Complement(c) /\ Follows(a, s, n) /\ mid = a[n]
  BY <1>0, CrcTrace
<1>2. n \in Nat /\ m \in Nat /\ mid \in Register
  BY <1>1
<1>3. PICK b \in [0..m -> Register] :
        b[0] = mid /\ Follows(b, t, m) /\ FoldLeft(CrcByte, mid, t) = b[m]
  BY <1>2, CrcTrace
<1>4. s \o t \in Seq(Byte) /\ Len(s \o t) = n + m
      /\ (\A k \in 1..n : (s \o t)[k] = s[k]) /\ (\A k \in 1..m : (s \o t)[n + k] = t[k])
  OBVIOUS
<1>5. PICK d \in [0..(n + m) -> Register] :
        d[0] = Complement(c) /\ Follows(d, s \o t, n + m)
        /\ FoldLeft(CrcByte, Complement(c), s \o t) = d[n + m]
  <2>1. Complement(c) \in Register
    BY <1>0
  <2> QED BY <1>4, <2>1, CrcTrace
<1>6. d[n] = a[n]
  <2>1. Follows(d, s, n)
    BY <1>2, <1>4, <1>5 DEF Follows
  <2> QED BY <1>1, <1>2, <1>5, <2>1, TraceUnique
<1>7. d[n + m] = b[m]
  <2> DEFINE e == [k \in 0..m |-> d[n + k]]
  <2>1. Follows(e, t, m)
    <3> SUFFICES ASSUME NEW k \in 1..m PROVE e[k] = CrcByte(e[k - 1], t[k])
      BY DEF Follows
    <3>1. n + k \in 1..(n + m) /\ (n + k) - 1 = n + (k - 1) /\ k \in 0..m /\ k - 1 \in 0..m
      BY <1>2
    <3> QED BY <1>4, <1>5, <3>1 DEF Follows
  <2>2. e[0] = b[0] /\ e[m] = d[n + m]
    BY <1>1, <1>2, <1>3, <1>6
  <2> HIDE DEF e
  <2>3. e[m] = b[m]
    BY <1>2, <1>3, <2>1, <2>2, TraceUnique
  <2> QED BY <2>2, <2>3
<1>8. Crc32c(c, s) = Complement(mid) /\ Complement(Complement(mid)) = mid
  BY <1>0, <1>2 DEF Crc32c
<1> QED BY <1>3, <1>5, <1>7, <1>8 DEF Crc32c

\* Before the first chunk the CRC is 0, which is that of no bytes.
LEMMA CrcOfNothing == Crc32c({}, << >>) = {} /\ {} \in Register
<1>1. {} \in Register /\ Complement({}) \in Register /\ Complement(Complement({})) = {}
  BY DEF Register, Complement, Xor
<1>2. FoldLeft(CrcByte, Complement({}), << >>) = Complement({})
  <2>1. << >> \in Seq(Byte) /\ Len(<< >>) = 0
    OBVIOUS
  <2>2. PICK a \in [0..Len(<< >>) -> Register] :
          a[0] = Complement({}) /\ FoldLeft(CrcByte, Complement({}), << >>) = a[Len(<< >>)]
    BY <1>1, <2>1, CrcTrace
  <2> QED BY <2>1, <2>2
<1> QED BY <1>1, <1>2 DEF Crc32c

-----------------------------------------------------------------------------
(* The length in a header. *)

\* A byte is a number.
LEMMA ByteValueType == \A b \in Byte : ByteValue(b) \in Nat
<1> SUFFICES ASSUME NEW b \in Byte PROVE ByteValue(b) \in Nat
  OBVIOUS
<1> DEFINE n == Cardinality(b)
           pick == [u \in SUBSET b |-> CHOOSE x \in u : TRUE]
           step == [i \in b |-> [v \in Nat |-> v + 2 ^ i]]
           Solves(g) == g = [u \in SUBSET b |-> IF u = {} THEN 0
                               ELSE LET x == CHOOSE x \in u : TRUE IN g[u \ {x}] + 2 ^ x]
           fold == CHOOSE g : Solves(g)
<1>1. IsFiniteSet(b) /\ n \in Nat /\ \A i \in b : i \in Nat /\ 2 ^ i \in Nat
  <2>1. Bits \in Nat /\ IsFiniteSet(0..(Bits - 1)) /\ b \subseteq 0..(Bits - 1)
    <3>1. Bits \in Nat /\ 0 \in Int /\ Bits - 1 \in Int
      BY LoadAssumption
    <3> QED BY <3>1, FS_Interval DEF Byte
  <2>2. IsFiniteSet(b)
    BY <2>1, FS_Subset
  <2>3. \A i \in b : i \in Nat
    BY <2>1
  <2> QED BY <2>2, <2>3, FS_CardinalityType, Powers
<1>2. step \in [b -> [Nat -> Nat]]
  BY <1>1
<1>3. Picks(pick, b)
  BY DEF Picks
<1>4. PICK g \in [SUBSET b -> Nat] : Recursive(g, b, 0, pick, step)
  <2>1. 0 \in Nat
    OBVIOUS
  <2> HIDE DEF pick, step
  <2> QED BY <1>1, <1>2, <1>3, <2>1, Recursion
<1>5. Solves(g)
  <2>1. \A u \in SUBSET b : u # {} =>
          step[pick[u]][g[u \ {pick[u]}]]
            = g[u \ {CHOOSE x \in u : TRUE}] + 2 ^ (CHOOSE x \in u : TRUE)
    BY <1>3, <1>4 DEF Picks
  <2>2. \A u \in SUBSET b : g[u] = IF u = {} THEN 0
          ELSE g[u \ {CHOOSE x \in u : TRUE}] + 2 ^ (CHOOSE x \in u : TRUE)
    BY <1>4, <2>1 DEF Recursive
  <2> QED BY <1>4, <2>2
<1>6. Solves(fold)
  BY <1>5
<1>7. ByteValue(b) = fold[b]
  BY DEF ByteValue, FoldSet, MapThenFoldSet
<1> DEFINE P == {k \in 0..n : \A u \in SUBSET b : Cardinality(u) <= k => fold[u] \in Nat}
<1> HIDE DEF fold
<1>8. 0 \in P
  <2>1. \A u \in SUBSET b : Cardinality(u) <= 0 => u = {}
    BY <1>1, SubsetCards
  <2>2. fold[{}] = 0
    BY <1>6
  <2> QED BY <1>1, <2>1, <2>2
<1>9. ASSUME NEW k \in 0..(n - 1), k \in P PROVE k + 1 \in P
  <2>1. ASSUME NEW u \in SUBSET b, Cardinality(u) <= k + 1, u # {} PROVE fold[u] \in Nat
    <3> DEFINE x == CHOOSE x \in u : TRUE
    <3>1. x \in u /\ x \in b
      BY <2>1
    <3>2. fold[u] = fold[u \ {x}] + 2 ^ x
      BY <1>6, <2>1
    <3> HIDE DEF x
    <3>3. Cardinality(u \ {x}) <= k /\ u \ {x} \in SUBSET b
      BY <1>1, <2>1, <3>1, SubsetCards
    <3> QED BY <1>1, <1>9, <3>1, <3>2, <3>3
  <2>2. fold[{}] \in Nat
    BY <1>6
  <2>3. k + 1 \in 0..n
    BY <1>1
  <2> QED BY <2>1, <2>2, <2>3
<1>10. n \in P
  <2> HIDE DEF P
  <2> QED BY <1>1, <1>8, <1>9, CountUp
<1>11. b \in SUBSET b /\ Cardinality(b) <= n
  BY <1>1
<1> QED BY <1>7, <1>10, <1>11

\* So are the bytes of a length (BE_4U8_TO_U32).
LEMMA BigEndianType == \A s \in Seq(Byte) : BigEndian(s) \in Nat
<1> SUFFICES ASSUME NEW s \in Seq(Byte) PROVE BigEndian(s) \in Nat
  OBVIOUS
<1> DEFINE n == Len(s)
           S == 1..n
           W == 2 ^ Bits
           value == [b \in Byte |-> ByteValue(b)]
           pick == [u \in SUBSET S |-> Max(u)]
           step == [i \in S |-> [v \in Nat |-> v * W + ByteValue(s[i])]]
           Solves(g) == g = [u \in SUBSET S |-> IF u = {} THEN 0
                               ELSE LET x == Max(u) IN g[u \ {x}] * 2 ^ Bits + ByteValue(s[x])]
           fold == CHOOSE g : Solves(g)
<1>1. n \in Nat /\ DOMAIN s = S /\ IsFiniteSet(S) /\ s \in [S -> Byte]
  BY FS_Interval
<1>2. \A i \in S : ByteValue(s[i]) \in Nat
  BY <1>1, ByteValueType
<1>3. W \in Nat
  BY LoadAssumption, Powers
<1>4. step \in [S -> [Nat -> Nat]]
  <2> HIDE DEF S, W
  <2>1. \A v, w, x \in Nat : v * w + x \in Nat
    OBVIOUS
  <2> QED BY <1>2, <1>3, <2>1
<1>5. Picks(pick, S)
  BY <1>1, Maxima DEF Picks
<1>6. PICK g \in [SUBSET S -> Nat] : Recursive(g, S, 0, pick, step)
  <2>1. 0 \in Nat
    OBVIOUS
  <2> HIDE DEF pick, step, S
  <2> QED BY <1>1, <1>4, <1>5, <2>1, Recursion
<1>7. Solves(g)
  <2>1. ASSUME NEW u \in SUBSET S, u # {}
        PROVE  step[pick[u]][g[u \ {pick[u]}]]
                 = g[u \ {Max(u)}] * W + ByteValue(s[Max(u)])
    <3>1. pick[u] = Max(u) /\ Max(u) \in S /\ g[u \ {Max(u)}] \in Nat
      BY <1>5, <1>6, <2>1 DEF Picks
    <3> HIDE DEF W, pick
    <3> QED BY <3>1
  <2>2. \A u \in SUBSET S : g[u] = IF u = {} THEN 0 ELSE g[u \ {Max(u)}] * W + ByteValue(s[Max(u)])
    <3> HIDE DEF W, step, pick
    <3> QED BY <1>6, <2>1 DEF Recursive
  <2> QED BY <1>6, <2>2
<1>8. Solves(fold)
  BY <1>7
<1>9. BigEndian(s) = fold[S]
  BY <1>1 DEF BigEndian, FoldLeft, MapThenFoldSet
<1> DEFINE P == {u \in 0..n : fold[1..u] \in Nat}
<1> HIDE DEF fold
<1>10. fold[{}] = 0
  BY <1>8
<1>11. ASSUME NEW k \in 1..n PROVE fold[1..k] = fold[1..(k - 1)] * W + ByteValue(s[k])
  <2>1. 1..k \in SUBSET S /\ 1..k # {} /\ Max(1..k) = k /\ (1..k) \ {k} = 1..(k - 1)
    BY <1>1, Maxima
  <2>2. fold[1..k] = fold[(1..k) \ {Max(1..k)}] * W + ByteValue(s[Max(1..k)])
    BY <1>8, <2>1
  <2> QED BY <2>1, <2>2
<1>12. 0..n \subseteq P
  <2>1. 0 \in P
    <3>1. 1..0 = {}
      OBVIOUS
    <3> QED BY <1>1, <1>10, <3>1
  <2>2. ASSUME NEW k \in 0..(n - 1), k \in P PROVE k + 1 \in P
    <3>1. k + 1 \in 1..n /\ (k + 1) - 1 = k /\ k + 1 \in 0..n
      BY <1>1
    <3>2. fold[1..(k + 1)] = fold[1..k] * W + ByteValue(s[k + 1]) /\ ByteValue(s[k + 1]) \in Nat
      BY <1>2, <1>11, <3>1
    <3> HIDE DEF W
    <3> QED BY <1>3, <2>2, <3>1, <3>2
  <2> HIDE DEF P
  <2> QED BY <1>1, <2>1, <2>2, CountUp
<1> QED BY <1>1, <1>9, <1>12

\* What a uint32_t counts modulo.
LEMMA WordPositive == Word \in Nat \ {0}
<1>1. Bits * LengthSize \in Nat
  BY LoadAssumption
<1> QED BY <1>1, Powers DEF Word

\* The length at an offset of the header is a number.
LEMMA LengthAtType ==
  ASSUME NEW b \in [0..(HeaderSize - 1) -> Byte], NEW o \in 0..(HeaderSize - LengthSize)
  PROVE  LengthAt(b, o) \in Nat
<1> DEFINE s == [k \in 1..LengthSize |-> b[o + k - 1]]
<1>1. s \in Seq(Byte)
  BY LoadAssumption
<1> HIDE DEF s
<1>2. BigEndian(s) \in Nat
  BY <1>1, BigEndianType
<1> QED BY <1>2 DEF LengthAt, s

\* With a byte before the padding, the search stays in the buffer: it finds no
\* length, or all of its bytes between the first byte and the sync word.
THEOREM OffsetInBuffer ==
  ASSUME NEW b, b[0] # Erased
  PROVE  FindBitstreamLenOffset(b) \in {-1} \cup 1..(HeaderSize - Len(Sync) - 1 - LengthSize)
<1> DEFINE S == BeforePadding(b)
           last == CHOOSE p \in S : \A q \in S : q <= p
<1>1. /\ HeaderSize \in Nat \ {0} /\ LengthSize \in Nat \ {0}
      /\ Len(Sync) \in Nat \ {0}
  BY LoadAssumption
<1>2. CASE SyncsIn(b) = {}
  BY <1>2 DEF FindBitstreamLenOffset
<1>3. CASE SyncsIn(b) # {}
  <2>1. PICK i \in SyncsIn(b) : TRUE
    BY <1>3
  <2>2. i \in Nat /\ i <= HeaderSize - Len(Sync) - 1
    BY <1>1 DEF SyncsIn
  <2>3. \A j \in SyncsIn(b) : j \in Nat /\ j > 0
    BY <1>1 DEF SyncsIn
  <2>4. 0 \in S
    BY <1>1, <2>3 DEF BeforePadding
  <2>5. S \in SUBSET (0..(HeaderSize - 1)) /\ HeaderSize - 1 \in Nat
    BY <1>1 DEF BeforePadding
  <2>6. \E m \in S : \A q \in S : q <= m
    <3> HIDE DEF S
    <3> QED BY <2>4, <2>5, Largest
  <2>7. last \in S
    BY <2>6
  <2>8. last \in Nat /\ last < i
    BY <1>1, <2>1, <2>5, <2>7 DEF BeforePadding
  <2>9. FindBitstreamLenOffset(b) = IF last <= LengthSize - 1 THEN -1 ELSE last - LengthSize + 1
    BY <1>3 DEF FindBitstreamLenOffset
  <2> HIDE DEF last
  <2> QED BY <1>1, <2>2, <2>8, <2>9
<1> QED BY <1>2, <1>3

\* A buffer that does not begin with 0xFF has a byte before the padding.
LEMMA SomeBeforePadding ==
  ASSUME NEW b, b[0] # Erased
  PROVE  0 \in BeforePadding(b)
  BY LoadAssumption DEF BeforePadding, SyncsIn

\* A proper header is found where it is, whatever the length in it: the sync word
\* is not found in the length, because the padding behind would be part of it.
THEOREM FindsLength ==
  ASSUME NEW b, NEW o \in 0..(HeaderSize - LengthSize), WellFormed(b, o)
  PROVE  FindBitstreamLenOffset(b) = o /\ b[0] # Erased
<1> DEFINE S == BeforePadding(b)
           last == CHOOSE p \in S : \A q \in S : q <= p
           at == o + LengthSize - 1
<1>1. /\ HeaderSize \in Nat \ {0} /\ LengthSize \in Nat \ {0}
      /\ Len(Sync) \in Nat /\ LengthSize <= Len(Sync) /\ Len(Sync) < HeaderSize
      /\ \A k \in 1..Len(Sync) : Sync[k] # Erased
  BY LoadAssumption
<1>2. /\ o > 0 /\ \A p \in 0..(o - 1) : b[p] # Erased
      /\ b[at] # Erased
  BY DEF WellFormed
<1>3. PICK i \in (o + LengthSize + 1)..(HeaderSize - Len(Sync) - 1) :
        /\ \A p \in (o + LengthSize)..(i - 1) : b[p] = Erased
        /\ \A k \in 1..Len(Sync) : b[i + k - 1] = Sync[k]
  BY DEF WellFormed
<1>4. i \in SyncsIn(b)
  BY <1>1, <1>3 DEF SyncsIn
<1>5. ASSUME NEW j \in SyncsIn(b) PROVE at < j
  <2>1. j \in Nat /\ j <= HeaderSize - Len(Sync) - 1
        /\ (\A k \in 1..Len(Sync) : b[j + k - 1] # Erased)
    BY <1>1 DEF SyncsIn
  <2>2. PICK f \in 0..j : b[f] = Erased
    BY DEF SyncsIn
  <2>3. f >= o
    BY <1>2, <2>2
  <2>4. f # j
    <3>1. 1 \in 1..Len(Sync) /\ j + 1 - 1 = j
      BY <1>1, <2>1
    <3> QED BY <2>1, <2>2, <3>1
  <2>5. j >= o + 1
    BY <2>1, <2>2, <2>3, <2>4
  <2>6. ASSUME j <= at PROVE FALSE
    <3> DEFINE k == o + LengthSize - j + 1
    <3>1. k \in 1..Len(Sync) /\ j + k - 1 = o + LengthSize
      BY <1>1, <2>1, <2>5, <2>6
    <3>2. b[o + LengthSize] = Erased
      BY <1>1, <1>3
    <3> HIDE DEF k
    <3> QED BY <2>1, <3>1, <3>2
  <2> QED BY <1>1, <2>1, <2>6
<1>6. at \in S
  BY <1>1, <1>2, <1>3, <1>5 DEF BeforePadding
<1>7. ASSUME NEW q \in S PROVE q <= at
  <2>1. q \in Nat /\ b[q] # Erased /\ q < i
    BY <1>1, <1>4 DEF BeforePadding
  <2> QED BY <1>1, <1>3, <2>1
<1>8. last = at
  <2>1. \A p : (p \in S /\ \A q \in S : q <= p) => p = at
    <3>1. \A p \in S : p \in Nat
      BY DEF BeforePadding
    <3> HIDE DEF S
    <3> QED BY <1>1, <1>6, <1>7, <3>1
  <2> QED BY <1>6, <1>7, <2>1
<1>9. FindBitstreamLenOffset(b) = IF last <= LengthSize - 1 THEN -1 ELSE last - LengthSize + 1
  BY <1>4 DEF FindBitstreamLenOffset
<1> HIDE DEF last
<1> QED BY <1>1, <1>2, <1>8, <1>9

\* get_bitstream_length: a proper header has one length, all of the bitstream.
THEOREM LengthFound ==
  ASSUME NEW b, NEW o \in 0..(HeaderSize - LengthSize), WellFormed(b, o)
  PROVE  GetBitstreamLength(b) = {(LengthAt(b, o) + o + LengthSize) % Word}
<1>1. FindBitstreamLenOffset(b) = o /\ BeforePadding(b) # {} /\ ~ (o < 0)
  BY FindsLength, SomeBeforePadding
<1> QED BY <1>1 DEF GetBitstreamLength

\* Unless the padding begins the buffer, the length is 0 or that at some offset.
LEMMA LengthCases ==
  ASSUME NEW b, b[0] # Erased, NEW L \in GetBitstreamLength(b)
  PROVE  L = 0 \/ \E o \in 0..(HeaderSize - LengthSize) :
                    L = (LengthAt(b, o) + o + LengthSize) % Word
<1> DEFINE o == FindBitstreamLenOffset(b)
<1>1. L = IF o < 0 THEN 0 ELSE (LengthAt(b, o) + o + LengthSize) % Word
  BY SomeBeforePadding DEF GetBitstreamLength
<1>2. o \in {-1} \cup 1..(HeaderSize - Len(Sync) - 1 - LengthSize)
  BY OffsetInBuffer
<1> HIDE DEF o
<1>3. CASE o = -1
  BY <1>1, <1>3
<1>4. CASE o \in 1..(HeaderSize - Len(Sync) - 1 - LengthSize)
  <2>1. o \in 0..(HeaderSize - LengthSize) /\ ~ (o < 0)
    BY <1>4, LoadAssumption
  <2> QED BY <1>1, <2>1
<1> QED BY <1>2, <1>3, <1>4

\* What a remainder is.
LEMMA ModRange == \A x \in Nat, w \in Nat \ {0} : x % w \in 0..(w - 1)
  OBVIOUS

\* Whatever is in the buffer, get_bitstream_length returns a uint32_t.
LEMMA LengthType ==
  ASSUME NEW b \in [0..(HeaderSize - 1) -> Byte]
  PROVE  GetBitstreamLength(b) \subseteq 0..(Word - 1)
<1> SUFFICES ASSUME NEW L \in GetBitstreamLength(b) PROVE L \in 0..(Word - 1)
  OBVIOUS
<1>0. Word \in Nat \ {0}
  BY WordPositive
<1>1. CASE b[0] # Erased
  <2>1. CASE L = 0
    BY <1>0, <2>1
  <2>2. ASSUME NEW o \in 0..(HeaderSize - LengthSize),
               L = (LengthAt(b, o) + o + LengthSize) % Word
        PROVE  L \in 0..(Word - 1)
    <3>1. LengthAt(b, o) + o + LengthSize \in Nat
      BY LengthAtType, LoadAssumption
    <3> QED BY <1>0, <2>2, <3>1, ModRange
  <2> QED BY <1>1, <2>1, <2>2, LengthCases
<1>2. CASE b[0] = Erased
  <2>1. CASE SyncsIn(b) # {} /\ BeforePadding(b) = {}
    BY <2>1 DEF GetBitstreamLength
  <2>2. CASE SyncsIn(b) = {}
    <3>1. FindBitstreamLenOffset(b) = -1
      BY <2>2 DEF FindBitstreamLenOffset
    <3> QED BY <1>0, <2>2, <3>1 DEF GetBitstreamLength
  <2>3. CASE SyncsIn(b) # {} /\ BeforePadding(b) # {}
    <3> DEFINE S == BeforePadding(b)
               last == CHOOSE p \in S : \A q \in S : q <= p
               o == IF last <= LengthSize - 1 THEN -1 ELSE last - LengthSize + 1
    <3>1. S \in SUBSET (0..(HeaderSize - 1)) /\ HeaderSize - 1 \in Nat
      BY LoadAssumption DEF BeforePadding
    <3>2. last \in S
      <4>1. \E m \in S : \A q \in S : q <= m
        <5> HIDE DEF S
        <5>1. S # {}
          BY <2>3 DEF S
        <5> QED BY <3>1, <5>1, Largest
      <4> QED BY <4>1
    <3>3. L = IF o < 0 THEN 0 ELSE (LengthAt(b, o) + o + LengthSize) % Word
      BY <2>3 DEF GetBitstreamLength, FindBitstreamLenOffset
    <3>4. o = -1 \/ o \in 0..(HeaderSize - LengthSize)
      <4> HIDE DEF last, S
      <4> QED BY <3>1, <3>2, LoadAssumption
    <3> HIDE DEF o
    <3>5. CASE o = -1
      BY <1>0, <3>3, <3>5
    <3>6. CASE o \in 0..(HeaderSize - LengthSize)
      <4>1. LengthAt(b, o) + o + LengthSize \in Nat /\ ~ (o < 0)
        BY <3>6, LengthAtType, LoadAssumption
      <4> QED BY <1>0, <3>3, <4>1, ModRange
    <3> QED BY <3>4, <3>5, <3>6
  <2> QED BY <2>1, <2>2, <2>3
<1> QED BY <1>1, <1>2

-----------------------------------------------------------------------------
(* The load. *)

FlashTyped == flash \in [Address -> Byte]

\* How far a load has come: of the L bytes that the header says, all but left.
LoadInv ==
  /\ pc = "load" => fpga = << >>
  /\ pc \in {"send", "idle"} =>
       \E L \in GetBitstreamLength(Header) :
         /\ left \in 0..L
         /\ fpga = SpiFlashRead(0, L - left)
         /\ L > 0 => crc = Crc32c({}, fpga)
         /\ pc = "send" => left > 0 /\ addr = L - left
         /\ pc = "idle" => left = 0

\* What spi_flash_read returns.
LEMMA ReadType ==
  ASSUME FlashTyped, NEW a \in Nat, NEW n \in Nat
  PROVE  /\ SpiFlashRead(a, n) \in Seq(Byte) /\ Len(SpiFlashRead(a, n)) = n
         /\ \A k \in 1..n : SpiFlashRead(a, n)[k] = flash[(a + k - 1) % FlashSize]
<1>1. \A k \in 1..n : flash[(a + k - 1) % FlashSize] \in Byte
  <2> SUFFICES ASSUME NEW k \in 1..n PROVE flash[(a + k - 1) % FlashSize] \in Byte
    OBVIOUS
  <2>1. a + k - 1 \in Nat
    OBVIOUS
  <2>2. (a + k - 1) % FlashSize \in Address
    BY <2>1, LoadAssumption, ModRange DEF Address
  <2> QED BY <2>2 DEF FlashTyped
<1> QED BY <1>1 DEF SpiFlashRead

\* s is the part of f behind its first n elements.
PartOf(s, f, n) == \A k \in 1..Len(s) : s[k] = f[n + k]

\* Two parts of a function that follow each other make up the part they cover.
LEMMA Joined ==
  ASSUME NEW s \in Seq(Byte), NEW t \in Seq(Byte), NEW u \in Seq(Byte),
         Len(u) = Len(s) + Len(t),
         NEW f, PartOf(s, f, 0), PartOf(t, f, Len(s)), PartOf(u, f, 0)
  PROVE  s \o t = u
<1> DEFINE v == s \o t
           n == Len(s)
<1>1. v \in Seq(Byte) /\ Len(v) = Len(u)
  OBVIOUS
<1>2. ASSUME NEW k \in 1..Len(u) PROVE v[k] = u[k]
  <2>1. CASE k <= n
    BY <2>1 DEF PartOf
  <2>2. CASE k > n
    <3>1. k - n \in 1..Len(t) /\ n + (k - n) = k
      BY <2>2
    <3>2. v[k] = t[k - n]
      BY <2>2
    <3>3. t[k - n] = f[k]
      BY <3>1 DEF PartOf
    <3>4. u[k] = f[k]
      BY DEF PartOf
    <3> QED BY <3>2, <3>3, <3>4
  <2> QED BY <2>1, <2>2
<1> HIDE DEF v
<1>3. v = u
  BY <1>1, <1>2
<1> QED BY <1>3 DEF v

\* Two reads that follow each other return what one read of both returns.
LEMMA ReadOn ==
  ASSUME FlashTyped, NEW n \in Nat, NEW m \in Nat
  PROVE  SpiFlashRead(0, n) \o SpiFlashRead(n, m) = SpiFlashRead(0, n + m)
<1> DEFINE s == SpiFlashRead(0, n)
           t == SpiFlashRead(n, m)
           u == SpiFlashRead(0, n + m)
           f == [k \in Nat |-> flash[(k - 1) % FlashSize]]
<1>1. s \in Seq(Byte) /\ Len(s) = n
  BY ReadType
<1>2. t \in Seq(Byte) /\ Len(t) = m
  BY ReadType
<1>3. u \in Seq(Byte) /\ Len(u) = n + m
  <2>1. n + m \in Nat
    OBVIOUS
  <2> QED BY <2>1, ReadType
<1>4. PartOf(s, f, 0)
  BY <1>1 DEF SpiFlashRead, PartOf
<1>5. PartOf(t, f, n)
  BY <1>2 DEF SpiFlashRead, PartOf
<1>6. PartOf(u, f, 0)
  BY <1>3 DEF SpiFlashRead, PartOf
<1> HIDE DEF s, t, u, f
<1>7. s \o t = u
  BY <1>1, <1>2, <1>3, <1>4, <1>5, <1>6, Joined
<1> QED BY <1>7 DEF s, t, u

\* The buffer after the first read holds bytes.
LEMMA HeaderType == FlashTyped => Header \in [0..(HeaderSize - 1) -> Byte]
<1> SUFFICES ASSUME FlashTyped, NEW i \in 0..(HeaderSize - 1)
             PROVE  flash[i % FlashSize] \in Byte
  BY DEF Header
<1>1. i % FlashSize \in Address
  <2>1. i \in Nat /\ FlashSize \in Nat \ {0}
    BY LoadAssumption
  <2> QED BY <2>1, ModRange DEF Address
<1> QED BY <1>1 DEF FlashTyped

\* Reading the header begins a load: nothing has been sent.
LEMMA ReadHeaderLoads ==
  ASSUME FlashTyped, LoadInv, ReadHeader
  PROVE  LoadInv'
<1>1. /\ left' \in GetBitstreamLength(Header) /\ left' \in Nat
      /\ Header' = Header /\ flash' = flash
      /\ \A n : (SpiFlashRead(0, n))' = SpiFlashRead(0, n)
  <2>1. left' \in GetBitstreamLength(Header) /\ flash' = flash
    BY DEF ReadHeader
  <2>2. left' \in 0..(Word - 1)
    BY <2>1, HeaderType, LengthType
  <2> QED BY <2>1, <2>2, WordPositive DEF Header, SpiFlashRead
<1>2. SpiFlashRead(0, 0) = << >> /\ fpga' = << >>
  BY DEF SpiFlashRead, ReadHeader, LoadInv
<1>3. (left' > 0 /\ pc' = "send" /\ crc' = {} /\ addr' = 0) \/ (left' = 0 /\ pc' = "idle")
  BY <1>1 DEF ReadHeader
<1>4. (GetBitstreamLength(Header))' = GetBitstreamLength(Header)
  BY <1>1
<1>5. CASE left' > 0 /\ pc' = "send" /\ crc' = {} /\ addr' = 0
  <2>1. left' \in 0..left' /\ left' - left' = 0
    <3>1. \A x \in Nat : x \in 0..x /\ x - x = 0
      OBVIOUS
    <3> QED BY <1>1, <3>1
  <2> QED BY <1>1, <1>2, <1>4, <1>5, <2>1, CrcOfNothing DEF LoadInv
<1>6. CASE left' = 0 /\ pc' = "idle"
  BY <1>1, <1>2, <1>4, <1>6 DEF LoadInv
<1> QED BY <1>3, <1>5, <1>6

\* A chunk goes on where the last one ended, and the last one ends the load.
LEMMA SendChunkLoads ==
  ASSUME FlashTyped, LoadInv, SendChunk
  PROVE  LoadInv' /\ left' \in 0..left
<1> DEFINE n == ReadLen(left)
           chunk == SpiFlashRead(addr, n)
<1>1. /\ pc = "send" /\ fpga' = fpga \o chunk /\ crc' = Crc32c(crc, chunk)
      /\ left' = left - n /\ addr' = addr + n /\ flash' = flash
      /\ pc' = IF left' = 0 THEN "idle" ELSE "send"
  BY DEF SendChunk
<1>2. /\ Header' = Header
      /\ \A k : (SpiFlashRead(0, k))' = SpiFlashRead(0, k)
  BY <1>1 DEF Header, SpiFlashRead
<1>3. (GetBitstreamLength(Header))' = GetBitstreamLength(Header)
  BY <1>2
<1>4. PICK L \in GetBitstreamLength(Header) :
        /\ left \in 0..L /\ left > 0 /\ addr = L - left
        /\ fpga = SpiFlashRead(0, L - left) /\ (L > 0 => crc = Crc32c({}, fpga))
  BY <1>1 DEF LoadInv
<1>5. L \in Nat /\ L > 0 /\ addr \in Nat
  BY <1>4, HeaderType, LengthType, WordPositive
<1>6. n \in 1..left
  BY <1>4, <1>5, LoadAssumption DEF ReadLen
<1>7. fpga' = SpiFlashRead(0, L - left')
  <2>1. fpga' = SpiFlashRead(0, addr + n)
    <3>1. addr \in Nat /\ n \in Nat
      BY <1>5, <1>6
    <3>2. SpiFlashRead(0, addr) \o SpiFlashRead(addr, n) = SpiFlashRead(0, addr + n)
      BY <3>1, ReadOn
    <3> QED BY <1>1, <1>4, <3>2
  <2>2. addr + n = L - left'
    BY <1>1, <1>4, <1>5, <1>6
  <2> QED BY <2>1, <2>2
<1>8. crc' = Crc32c({}, fpga')
  <2>1. fpga \in Seq(Byte) /\ chunk \in Seq(Byte)
    BY <1>4, <1>5, <1>6, ReadType
  <2> HIDE DEF chunk
  <2>2. crc' = Crc32c(Crc32c({}, fpga), chunk)
    BY <1>1, <1>4, <1>5
  <2> QED BY <1>1, <2>1, <2>2, CrcOfChunks, CrcOfNothing
<1>9. left' \in 0..left /\ left' \in 0..L /\ addr' = L - left'
  BY <1>1, <1>4, <1>5, <1>6
<1>10. LoadInv'
  BY <1>1, <1>2, <1>3, <1>4, <1>7, <1>8, <1>9 DEF LoadInv
<1> QED BY <1>9, <1>10

\* What is sent when a load has ended.
LEMMA SentBitstream ==
  ASSUME FlashTyped, LoadInv
  PROVE  SendsBitstream
<1> SUFFICES ASSUME pc = "idle", NEW o \in 0..(HeaderSize - LengthSize),
                    WellFormed(Header, o), LengthAt(Header, o) + o + LengthSize < Word
             PROVE  /\ fpga = SpiFlashRead(0, LengthAt(Header, o) + o + LengthSize)
                    /\ crc = Crc32c({}, fpga)
  BY DEF SendsBitstream
<1> DEFINE n == LengthAt(Header, o) + o + LengthSize
<1>1. PICK L \in GetBitstreamLength(Header) :
        left = 0 /\ fpga = SpiFlashRead(0, L - left) /\ (L > 0 => crc = Crc32c({}, fpga))
  BY DEF LoadInv
<1>2. LengthAt(Header, o) \in Nat /\ LengthSize \in Nat \ {0} /\ o \in Nat
  BY HeaderType, LengthAtType, LoadAssumption
<1>3. L = n % Word
  BY <1>1, LengthFound
<1>4. n \in Nat /\ n > 0 /\ n < Word /\ Word \in Nat \ {0}
  BY <1>2, WordPositive
<1> HIDE DEF n
<1>5. n % Word = n
  BY <1>4
<1>6. L = n /\ n - 0 = n
  BY <1>3, <1>4, <1>5
<1> QED BY <1>1, <1>4, <1>6 DEF n

\* How long it is, whatever is in the flash.
LEMMA SentLength ==
  ASSUME FlashTyped, LoadInv
  PROVE  LengthFromHeader
<1> SUFFICES ASSUME pc = "idle", Header[0] # Erased, fpga # << >>
             PROVE  \E o \in 0..(HeaderSize - LengthSize) :
                      Len(fpga) = (LengthAt(Header, o) + o + LengthSize) % Word
  BY DEF LengthFromHeader
<1>1. PICK L \in GetBitstreamLength(Header) : left = 0 /\ fpga = SpiFlashRead(0, L - left)
  BY DEF LoadInv
<1>2. L \in Nat
  BY <1>1, HeaderType, LengthType, WordPositive
<1>3. fpga = SpiFlashRead(0, L) /\ Len(fpga) = L
  BY <1>1, <1>2, ReadType
<1>4. L # 0
  BY <1>3 DEF SpiFlashRead
<1> QED BY <1>1, <1>3, <1>4, LengthCases

=============================================================================
