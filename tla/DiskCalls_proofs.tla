--------------------------- MODULE DiskCalls_proofs ---------------------------
(***************************************************************************)
(* For every geometry, buffer and transfer: a transfer whose calls do not  *)
(* go on from the disk in RAM to what lies behind it leaves that alone, and *)
(* one that reads gets what was last sent, or zeros.                       *)
(*                                                                         *)
(* The invariant says how far a transfer has come: by whole buffers or to  *)
(* its end, and the disk differs from what the host has sent only in those *)
(* sectors of a transfer that are still to come, and in those where the    *)
(* firmware puts something of its own.                                     *)
(***************************************************************************)
EXTENDS DiskCalls, TLAPS

TransferInv ==
  /\ transfer \in [op : {"read", "write"}, lba : Nat, length : Nat, done : Nat]
  /\ transfer.done <= transfer.length
  /\ transfer.lba + transfer.length <= ReportSectorNum
  /\ transfer.done = transfer.length \/ \E k \in Nat : transfer.done = k * CallSectors

DiskInv ==
  /\ mem \in [Memory -> Nat]
  /\ count \in Nat
  /\ sent \in [0..(ReportSectorNum - 1) -> Nat]
  /\ transfer.op = "read" => DOMAIN got = Transferred
  /\ transfer.op = "write" =>
       \A s \in Sectors(transfer.lba, transfer.length) : sent[s] = Written(count)
  /\ \A s \in 0..(RealSectorNum - 1) :
       mem[s] = sent[s] \/ (/\ transfer.op = "write"
                            /\ s >= Lba /\ s < transfer.lba + transfer.length)

FilesInv ==
  /\ files.optionsAt \in Nat \ {0, 1}
  /\ files.others \subseteq Nat \ {0, 1}

\* A directory that the host has sent, and that is not still to come, has the
\* entry of the device.
OwnInv ==
  /\ own \subseteq OwnSectors
  /\ \/ sent[RootSector] = Boot \/ RootSector \in own
     \/ /\ transfer.op = "write"
        /\ RootSector >= Lba /\ RootSector < transfer.lba + transfer.length

Inv == TransferInv /\ FilesInv /\ DiskInv /\ OwnInv /\ ReadsWhatWasSent

-----------------------------------------------------------------------------
\* The RAM holds some sectors, and the disk reports at least as many.
LEMMA SectorNums ==
  /\ RealSectorNum \in Nat \ {0} /\ ReportSectorNum \in Nat
  /\ RealSectorNum <= ReportSectorNum
<1> DEFINE real == RealClusters * SectorsPerCluster
           report == ReportedClusters * SectorsPerCluster
<1>1. real \in Nat /\ report \in Nat
  BY GeometryAssumption
<1>2. real <= report
  <2>1. report = real + (ReportedClusters - RealClusters) * SectorsPerCluster
    BY GeometryAssumption
  <2>2. (ReportedClusters - RealClusters) * SectorsPerCluster \in Nat
    BY GeometryAssumption
  <2> QED BY <2>1, <2>2, <1>1
<1> QED BY <1>1, <1>2, GeometryAssumption DEF RealSectorNum, ReportSectorNum

\* The next multiple of a smaller number is not above that of a larger one.
LEMMA ProductOrder ==
  ASSUME NEW a \in Nat, NEW b \in Nat, NEW c \in Nat, a < b
  PROVE  a * c + c <= b * c
<1>1. b * c = a * c + c + (b - a - 1) * c
  OBVIOUS
<1>2. (b - a - 1) * c \in Nat
  OBVIOUS
<1>3. a * c \in Nat /\ b * c \in Nat
  OBVIOUS
<1> QED BY <1>1, <1>2, <1>3

\* The next call is a buffer or what is left of the transfer.
LEMMA SizeType ==
  ASSUME TransferInv, transfer.done < transfer.length
  PROVE  /\ Size \in Nat \ {0} /\ Lba \in Nat /\ Size <= CallSectors
         /\ transfer.done + Size <= transfer.length
  BY GeometryAssumption DEF TransferInv, Size, Lba

\* A call that begins in the RAM ends there.
LEMMA CallInside ==
  ASSUME TransferInv, transfer.done < transfer.length, InRam(Lba), EndsWithRam
  PROVE  Lba + Size <= RealSectorNum
<1>1. Size \in Nat /\ Lba \in Nat /\ Size <= CallSectors
      /\ transfer.done + Size <= transfer.length
  BY SizeType
<1>2. transfer.lba < RealSectorNum
  BY SectorNums DEF TransferInv, InRam, Lba
<1>3. CASE transfer.lba + transfer.length <= RealSectorNum
  BY <1>1, <1>3, SectorNums DEF TransferInv, Lba
<1>4. CASE \E n \in 1..RealSectorNum : transfer.lba + n * CallSectors = RealSectorNum
  <2>1. PICK n \in 1..RealSectorNum : transfer.lba + n * CallSectors = RealSectorNum
    BY <1>4
  <2>2. PICK k \in Nat : transfer.done = k * CallSectors
    BY DEF TransferInv
  <2>3. n \in Nat /\ CallSectors \in Nat /\ n * CallSectors \in Nat
    BY <2>1, SectorNums, GeometryAssumption
  <2>4. k < n
    <3> SUFFICES ASSUME n <= k PROVE FALSE
      BY <2>2, <2>3
    <3>1. n * CallSectors <= k * CallSectors
      <4>1. CASE n = k
        BY <4>1, <2>2, <2>3
      <4>2. CASE n < k
        BY <4>2, <2>2, <2>3, ProductOrder
      <4> QED BY <4>1, <4>2, <2>2, <2>3
    <3>2. Lba < RealSectorNum
      BY DEF InRam
    <3> QED BY <3>1, <3>2, <2>1, <2>2, <2>3, SectorNums DEF TransferInv, Lba
  <2>5. k * CallSectors + CallSectors <= n * CallSectors
    BY <2>2, <2>3, <2>4, ProductOrder
  <2> QED BY <2>1, <2>2, <2>3, <2>5, <1>1, SectorNums DEF TransferInv, Lba
<1> QED BY <1>2, <1>3, <1>4, SectorNums DEF EndsWithRam, TransferInv

\* What a call does to the transfer.
LEMMA CallDone ==
  ASSUME TransferInv, transfer.done < transfer.length,
         transfer' = [transfer EXCEPT !.done = @ + Size]
  PROVE  /\ TransferInv'
         /\ transfer'.op = transfer.op /\ transfer'.lba = transfer.lba
         /\ transfer'.length = transfer.length
         /\ transfer'.done = transfer.done + Size
<1>1. Size \in Nat /\ transfer.done + Size <= transfer.length
  BY SizeType
<1>2. /\ transfer'.op = transfer.op /\ transfer'.lba = transfer.lba
      /\ transfer'.length = transfer.length
      /\ transfer'.done = transfer.done + Size
      /\ transfer' \in [op : {"read", "write"}, lba : Nat, length : Nat, done : Nat]
  BY <1>1 DEF TransferInv
<1>3. transfer'.done = transfer'.length \/ \E k \in Nat : transfer'.done = k * CallSectors
  <2>1. CASE transfer.length - transfer.done < CallSectors
    BY <2>1, <1>2 DEF Size, TransferInv
  <2>2. CASE ~ (transfer.length - transfer.done < CallSectors)
    <3>1. PICK k \in Nat : transfer.done = k * CallSectors
      BY DEF TransferInv
    <3>2. transfer'.done = (k + 1) * CallSectors
      BY <3>1, <2>2, <1>2, GeometryAssumption DEF Size
    <3> QED BY <3>2
  <2> QED BY <2>1, <2>2
<1> QED BY <1>1, <1>2, <1>3 DEF TransferInv, ReportSectorNum

\* The directory and the log, with its padding, are in the RAM.
LEMMA OwnInRam ==
  /\ RootSector \in 0..(RealSectorNum - 1)
  /\ LogArea \subseteq 0..(RealSectorNum - 1)
  /\ 0..(RealSectorNum - 1) \subseteq Memory
<1> USE GeometryAssumption
<1> DEFINE d == SectorsPerCluster
<1>1. d \in Nat /\ RealClusters * d \in Nat /\ 4 * d <= RealClusters * d
  <2>1. RealClusters * d = 4 * d + (RealClusters - 4) * d
    OBVIOUS
  <2>2. (RealClusters - 4) * d \in Nat
    OBVIOUS
  <2> QED BY <2>1, <2>2
<1>2. LogArea = Sectors(MetaSectors + 2 * d, d) \cup Sectors(MetaSectors + 3 * d, d)
  BY DEF LogArea, LogAt, ClusterSectors, FirstSector
<1> HIDE DEF d
<1>3. RealSectorNum = MetaSectors + RealClusters * d
  BY DEF RealSectorNum, d
<1>4. LogArea \subseteq 0..(RealSectorNum - 1)
  BY <1>1, <1>2, <1>3 DEF Sectors
<1>5. RootSector \in 0..(RealSectorNum - 1)
  BY <1>1, <1>3 DEF RootSector
<1>6. 0..(RealSectorNum - 1) \subseteq Memory
  BY SectorNums DEF Memory
<1> QED BY <1>4, <1>5, <1>6

\* Lines of the log stay there, and the parser ends the text of the options.
LEMMA OwnWritten ==
  /\ \A may, l : l \in Printed(may) => l \subseteq LogArea
  /\ \A parses, e : e \in Ended(parses) =>
       e \subseteq ({FirstSector(files.optionsAt)} \cap Memory) \cup LogArea
<1>1. ASSUME NEW may, NEW l \in Printed(may) PROVE l \subseteq LogArea
  BY DEF Printed, LogLines
<1>2. ASSUME NEW parses, NEW e \in Ended(parses)
      PROVE  e \subseteq ({FirstSector(files.optionsAt)} \cap Memory) \cup LogArea
  <2>1. e = {} \/ \E l \in Printed(TRUE) :
                    e = ({FirstSector(files.optionsAt)} \cap Memory) \cup l
    BY DEF Ended
  <2> QED BY <1>1, <2>1
<1> QED BY <1>1, <1>2

\* What a call that writes adds to the firmware's sectors.
LEMMA OwnGrows ==
  ASSUME WriteRam \/ WriteBeyond
  PROVE  /\ own' \subseteq own \cup {RootSector} \cup LogArea
                            \cup ({FirstSector(files.optionsAt)} \cap Memory)
         /\ WriteRam => RootSector \in own'
         /\ WriteBeyond => own \subseteq own'
<1>1. CASE WriteRam
  BY <1>1, OwnWritten DEF WriteRam, WriteBeyond
<1>2. CASE WriteBeyond
  BY <1>2, OwnWritten DEF WriteRam, WriteBeyond
<1> QED BY <1>1, <1>2

-----------------------------------------------------------------------------
\* The disk is zeroed before the host sends anything.
LEMMA InitInv == Init => Inv
<1> SUFFICES ASSUME Init PROVE Inv
  OBVIOUS
<1> USE SectorNums
<1>1. TransferInv
  BY DEF Init, TransferInv
<1>2. DiskInv
  <2>1. DOMAIN got = Transferred
    BY DEF Init, Transferred, Sectors
  <2>2. \A s \in 0..(RealSectorNum - 1) : s \in Memory /\ s \in 0..(ReportSectorNum - 1)
    BY GeometryAssumption DEF Memory
  <2> QED BY <2>1, <2>2 DEF Init, DiskInv, Boot
<1>3. ReadsWhatWasSent
  BY DEF Init, ReadsWhatWasSent, Transferred, Sectors
<1>4. FilesInv
  BY GeometryAssumption DEF Init, FilesInv, ReadmeAt, LogAt
<1>5. OwnInv
  <2>1. RootSector \in 0..(ReportSectorNum - 1)
    BY OwnInRam
  <2> QED BY <2>1 DEF Init, OwnInv
<1> QED BY <1>1, <1>2, <1>3, <1>4, <1>5 DEF Inv

\* A call that reads keeps the invariant.
LEMMA InvRead10 == Inv /\ Read10 => Inv'
<1> SUFFICES ASSUME Inv, Read10 PROVE Inv'
  OBVIOUS
<1> USE SectorNums
<1>1. /\ transfer.op = "read" /\ transfer.done < transfer.length
      /\ got' = [s \in DOMAIN got \cup Sectors(Lba, Size) |->
                   IF s < Lba THEN got[s]
                   ELSE IF InRam(Lba) THEN Sector(mem[s], s \in own) ELSE Zeros]
      /\ transfer' = [transfer EXCEPT !.done = @ + Size]
      /\ UNCHANGED <<mem, own, files, sent, count>>
  BY DEF Read10, Pending
<1>2. TransferInv /\ FilesInv /\ DiskInv /\ OwnInv /\ ReadsWhatWasSent
  BY DEF Inv
<1>3. /\ Size \in Nat \ {0} /\ Lba \in Nat
      /\ transfer.done + Size <= transfer.length
  BY <1>1, <1>2, SizeType
<1>4. /\ TransferInv'
      /\ transfer'.op = "read" /\ transfer'.lba = transfer.lba
      /\ transfer'.length = transfer.length
      /\ transfer'.done = transfer.done + Size
  BY <1>1, <1>2, CallDone
<1>5. Transferred' = Transferred \cup Sectors(Lba, Size)
  BY <1>2, <1>3, <1>4 DEF Transferred, Sectors, Lba, TransferInv
<1>6. DOMAIN got = Transferred
  BY <1>1, <1>2 DEF DiskInv
<1>7. DiskInv'
  <2>1. \A s \in 0..(RealSectorNum - 1) : mem'[s] = sent'[s]
    BY <1>1, <1>2 DEF DiskInv
  <2>2. DOMAIN got' = Transferred'
    BY <1>1, <1>5, <1>6
  <2> QED BY <2>1, <2>2, <1>1, <1>2, <1>4 DEF DiskInv, ReportSectorNum, Memory, RealSectorNum
<1>8. OwnInv' /\ FilesInv'
  BY <1>1, <1>2, <1>4 DEF OwnInv, OwnSectors, FilesInv, RootSector, FirstSector, LogArea,
                         ClusterSectors, Sectors
<1>9. ReadsWhatWasSent'
  <2> SUFFICES ASSUME EndsWithRam', NEW s \in Transferred'
               PROVE  IF s >= RealSectorNum THEN got'[s] = Zeros
                      ELSE /\ got'[s].from = sent[s]
                           /\ got'[s].own => s \in OwnSectors
                           /\ s = RootSector /\ sent[s] # Boot => got'[s].own
    BY <1>1 DEF ReadsWhatWasSent, RealSectorNum, OwnSectors, RootSector, FirstSector, LogArea,
                ClusterSectors, Sectors
  <2>1. EndsWithRam
    BY <1>4 DEF EndsWithRam, RealSectorNum
  <2>2. s \in Nat /\ s < ReportSectorNum
    BY <1>2, <1>3, <1>4 DEF Transferred, Sectors, TransferInv
  <2>3. CASE s < Lba
    <3>1. s \in Transferred /\ got'[s] = got[s]
      BY <2>3, <1>1, <1>3, <1>5, <1>6 DEF Sectors
    <3> QED BY <3>1, <2>1, <1>1, <1>2 DEF ReadsWhatWasSent
  <2>4. CASE s \in Sectors(Lba, Size) /\ InRam(Lba)
    <3>1. Lba + Size <= RealSectorNum
      BY <2>1, <2>4, <1>1, <1>2, CallInside
    <3>2. s < RealSectorNum /\ ~ (s < Lba)
      BY <3>1, <2>2, <2>4, <1>3 DEF Sectors
    <3>3. got'[s] = Sector(mem[s], s \in own)
      BY <3>2, <2>4, <1>1
    <3>7. got'[s].from = mem[s] /\ (got'[s].own <=> s \in own)
      <4>1. got'[s].from = mem[s] /\ got'[s].own = (s \in own)
        BY ONLY <3>3 DEF Sector
      <4>2. CASE s \in own
        <5>1. (s \in own) = TRUE
          BY ONLY <4>2
        <5>2. got'[s].own = TRUE
          BY ONLY <5>1, <4>1
        <5> QED BY ONLY <4>1, <4>2, <5>2
      <4>3. CASE ~ (s \in own)
        <5>1. (s \in own) = FALSE
          BY ONLY <4>3
        <5>2. got'[s].own = FALSE
          BY ONLY <5>1, <4>1
        <5> QED BY ONLY <4>1, <4>3, <5>2
      <4> QED BY ONLY <4>2, <4>3
    <3>4. mem[s] = sent[s]
      BY <3>2, <2>2, <1>1, <1>2 DEF DiskInv
    <3>5. s = RootSector /\ sent[s] # Boot => s \in own
      BY <1>1, <1>2 DEF OwnInv
    <3>6. s \in own => s \in OwnSectors
      BY <1>2 DEF OwnInv
    <3>8. ~ (s >= RealSectorNum)
      BY <3>2, <2>2
    <3> QED BY <3>4, <3>5, <3>6, <3>7, <3>8, Zenon
  <2>5. CASE s \in Sectors(Lba, Size) /\ ~ InRam(Lba)
    <3>1. ~ (s < Lba) /\ s >= RealSectorNum
      BY <2>5, <2>2, <1>3 DEF Sectors, InRam
    <3> QED BY <3>1, <2>5, <1>1
  <2>6. s < Lba \/ s \in Sectors(Lba, Size)
    BY <2>2, <1>2, <1>5 DEF Transferred, Sectors, Lba, TransferInv
  <2> QED BY <2>3, <2>4, <2>5, <2>6
<1> QED BY <1>4, <1>7, <1>8, <1>9 DEF Inv

\* A call that writes keeps it.
LEMMA InvWrite10 == Inv /\ Write10 => Inv'
<1> SUFFICES ASSUME Inv, Write10 PROVE Inv'
  OBVIOUS
<1> USE SectorNums
<1>1. /\ transfer.op = "write" /\ transfer.done < transfer.length
      /\ WriteRam \/ WriteBeyond
      /\ transfer' = [transfer EXCEPT !.done = @ + Size]
      /\ UNCHANGED <<files, sent, count>>
  BY DEF Write10, Pending
<1>2. TransferInv /\ FilesInv /\ DiskInv /\ OwnInv
  BY DEF Inv
<1>3. /\ Size \in Nat \ {0} /\ Lba \in Nat
      /\ transfer.done + Size <= transfer.length
  BY <1>1, <1>2, SizeType
<1>4. /\ TransferInv'
      /\ transfer'.op = "write" /\ transfer'.lba = transfer.lba
      /\ transfer'.length = transfer.length
      /\ transfer'.done = transfer.done + Size
  BY <1>1, <1>2, CallDone
<1>5. mem' \in [Memory -> Nat]
  BY <1>1, <1>2 DEF DiskInv, WriteRam, WriteBeyond, Written
<1>6. ASSUME NEW s \in 0..(RealSectorNum - 1)
      PROVE  mem'[s] = sent'[s] \/ (s >= Lba' /\ s < transfer'.lba + transfer'.length)
  <2>1. s \in Memory /\ s \in Nat /\ s < RealSectorNum
    BY GeometryAssumption DEF Memory
  <2>2. Lba' = Lba + Size
    BY <1>2, <1>3, <1>4 DEF Lba, TransferInv
  <2>3. CASE s < Lba
    <3>1. mem'[s] = mem[s]
      BY <2>1, <2>3, <1>1, <1>3 DEF WriteRam, WriteBeyond, Sectors
    <3> QED BY <3>1, <2>1, <2>3, <1>1, <1>2, <1>3 DEF DiskInv
  <2>4. CASE s \in Sectors(Lba, Size)
    <3>1. mem'[s] = Written(count)
      <4>1. InRam(Lba)
        BY <2>1, <2>4, <1>3 DEF InRam, Sectors
      <4> QED BY <4>1, <2>1, <2>4, <1>1 DEF WriteRam, WriteBeyond
    <3>2. s \in Sectors(transfer.lba, transfer.length)
      BY <2>1, <2>4, <1>2, <1>3 DEF Sectors, Lba, TransferInv
    <3> QED BY <3>1, <3>2, <1>1, <1>2 DEF DiskInv
  <2>5. CASE s >= Lba + Size
    <3>1. mem'[s] = mem[s]
      BY <2>1, <2>5, <1>1, <1>3 DEF WriteRam, WriteBeyond, Sectors
    <3> QED BY <3>1, <2>1, <2>2, <2>5, <1>1, <1>2, <1>4 DEF DiskInv
  <2> QED BY <2>1, <2>3, <2>4, <2>5, <1>3 DEF Sectors
<1>7. DiskInv'
  <2>1. \A s \in Sectors(transfer'.lba, transfer'.length) : sent'[s] = Written(count')
    BY <1>1, <1>2, <1>4 DEF DiskInv
  <2> QED BY <2>1, <1>1, <1>2, <1>4, <1>5, <1>6
          DEF DiskInv, ReportSectorNum, RealSectorNum, Memory, Sectors, Written
<1>8. ReadsWhatWasSent'
  BY <1>4 DEF ReadsWhatWasSent
<1>9. OwnInv' /\ FilesInv'
  <2>1. OwnSectors' = OwnSectors /\ RootSector' = RootSector
    BY <1>1 DEF OwnSectors, RootSector, FirstSector, LogArea, ClusterSectors, Sectors
  <2>2. own' \subseteq OwnSectors
    BY <1>1, <1>2, OwnGrows DEF OwnInv, OwnSectors
  <2>3. FilesInv'
    BY <1>1, <1>2 DEF FilesInv
  <2>4. CASE WriteRam
    BY <1>1, <2>1, <2>2, <2>3, <2>4, OwnGrows DEF OwnInv
  <2>5. CASE WriteBeyond
    <3>1. RootSector \in Nat /\ RootSector < RealSectorNum
      BY OwnInRam
    <3>2. ~ (RootSector >= Lba)
      BY <1>3, <2>5, <3>1 DEF WriteBeyond, InRam
    <3>3. own \subseteq own'
      BY <1>1, <2>5, OwnGrows
    <3> QED BY <1>1, <1>2, <2>1, <2>2, <2>3, <3>2, <3>3 DEF OwnInv
  <2> QED BY <1>1, <2>4, <2>5
<1> QED BY <1>4, <1>7, <1>8, <1>9 DEF Inv

\* So does a transfer that begins.
LEMMA InvBegin ==
  ASSUME Inv, NEW op \in {"read", "write"}, NEW lba \in 0..(ReportSectorNum - 1),
         NEW length \in 1..MaxLength, Begin(op, lba, length)
  PROVE  Inv'
<1> USE SectorNums
<1>1. /\ lba \in Nat /\ length \in Nat /\ lba + length <= ReportSectorNum
      /\ count' = count + 1
      /\ transfer' = [op |-> op, lba |-> lba, length |-> length, done |-> 0]
      /\ got' = << >>
      /\ sent' = IF op = "read" THEN sent
                 ELSE [s \in DOMAIN sent |->
                         IF s \in Sectors(lba, length) THEN Written(count + 1) ELSE sent[s]]
      /\ mem' = mem /\ own' = own /\ files' = files
  BY GeometryAssumption DEF Begin
<1>2. TransferInv /\ FilesInv /\ DiskInv /\ OwnInv
  BY DEF Inv
<1>3. TransferInv'
  <2>1. transfer'.done = 0 * CallSectors
    BY <1>1, GeometryAssumption
  <2> QED BY <2>1, <1>1, <1>2 DEF TransferInv, ReportSectorNum
<1>4. Lba' = lba
  BY <1>1 DEF Lba
<1>5. \A s \in 0..(RealSectorNum - 1) : mem[s] = sent[s]
  <2>1. transfer.op = "write" => transfer.done = transfer.length
    BY <1>2 DEF TransferInv, Begin, Pending
  <2> QED BY <2>1, <1>2 DEF DiskInv, TransferInv, Lba
<1>6. sent' \in [0..(ReportSectorNum - 1) -> Nat]
  BY <1>1, <1>2 DEF DiskInv, Written
<1>7. \A s \in 0..(RealSectorNum - 1) :
        mem'[s] = sent'[s] \/ (op = "write" /\ s >= lba /\ s < lba + length)
  BY <1>1, <1>2, <1>5 DEF DiskInv, Sectors
<1>8. op = "write" => \A s \in Sectors(lba, length) : sent'[s] = Written(count')
  BY <1>1, <1>2 DEF DiskInv, Sectors
<1>9. Transferred' = {}
  BY <1>1 DEF Transferred, Sectors
<1>10. DiskInv'
  <2>1. transfer'.op = op /\ transfer'.lba = lba /\ transfer'.length = length
    BY <1>1
  <2>2. mem' \in [Memory -> Nat] /\ count' \in Nat
    BY <1>1, <1>2 DEF DiskInv
  <2>3. DOMAIN got' = Transferred'
    BY <1>1, <1>9
  <2>4. (\A s \in Sectors(transfer.lba, transfer.length) : sent[s] = Written(count))'
        \/ transfer'.op # "write"
    BY <1>8, <2>1 DEF Sectors
  <2>5. \A s \in 0..(RealSectorNum - 1) :
          mem'[s] = sent'[s] \/ (/\ transfer'.op = "write"
                                /\ s >= Lba' /\ s < transfer'.lba + transfer'.length)
    BY <1>4, <1>7, <2>1
  <2> QED BY <1>6, <2>2, <2>3, <2>4, <2>5
          DEF DiskInv, ReportSectorNum, RealSectorNum, Memory
<1>11. ReadsWhatWasSent'
  BY <1>9 DEF ReadsWhatWasSent
<1>12. OwnInv' /\ FilesInv'
  <2>1. OwnSectors' = OwnSectors /\ RootSector' = RootSector
    BY <1>1 DEF OwnSectors, RootSector, FirstSector, LogArea, ClusterSectors, Sectors
  <2>2. RootSector \in Nat /\ RootSector \in DOMAIN sent
    BY <1>2, OwnInRam DEF DiskInv
  <2>3. sent[RootSector] = Boot \/ RootSector \in own
    <3>1. transfer.op = "write" => transfer.done = transfer.length
      BY <1>2 DEF TransferInv, Begin, Pending
    <3> QED BY <1>2, <2>2, <3>1 DEF OwnInv, TransferInv, Lba
  <2>4. sent'[RootSector] = sent[RootSector]
        \/ (op = "write" /\ RootSector >= lba /\ RootSector < lba + length)
    BY <1>1, <2>2 DEF Sectors
  <2>5. transfer'.op = op /\ transfer'.lba = lba /\ transfer'.length = length
    BY <1>1
  <2> QED BY <1>1, <1>2, <1>4, <2>1, <2>3, <2>4, <2>5 DEF OwnInv, FilesInv
<1> QED BY <1>3, <1>10, <1>11, <1>12 DEF Inv

\* So does every step.
LEMMA InvNext == Inv /\ [Next]_vars => Inv'
<1>1. ASSUME Inv, UNCHANGED vars PROVE Inv'
  BY <1>1 DEF Inv, TransferInv, FilesInv, DiskInv, OwnInv, ReadsWhatWasSent, EndsWithRam,
              Transferred, Lba, vars, ReportSectorNum, RealSectorNum, Memory, Sectors, Written,
              OwnSectors, RootSector, FirstSector, LogArea, ClusterSectors
<1> QED BY <1>1, InvRead10, InvWrite10, InvBegin DEF Next

\* ReadsWhatWasSent: a host reads zeros beyond the RAM and, inside, what it last
\* sent, in however many calls and with whatever other transfers before.  What the
\* callback writes itself (msc_disk.c:399, config.c:120, error.c:25-34) is over it in
\* the directory, where the options end and in the area of the log, and nowhere
\* else; a directory that the host has sent always has the device's entry.
THEOREM ReadsRight == Spec => []ReadsWhatWasSent
<1>1. Spec => []Inv
  BY InitInv, InvNext, PTL DEF Spec
<1>2. Inv => ReadsWhatWasSent
  BY DEF Inv
<1> QED BY <1>1, <1>2, PTL

\* InsideRam: no transfer whose calls end with the RAM changes what lies behind it
\* (msc_disk.c:387), and the lines the firmware prints and the end it puts to the
\* text of the options stay in the RAM, unless the host has moved that file beyond.
THEOREM StaysInsideRam == Spec => InsideRam
<1> DEFINE Step == \A s \in Memory : s >= RealSectorNum =>
                     /\ mem'[s] # mem[s] => ~ EndsWithRam
                     /\ s \in own' \ own => ~ OptionsInRam
<1>1. ASSUME Inv, [Next]_vars PROVE [Step]_vars
  <2> SUFFICES ASSUME NEW s \in Memory, s >= RealSectorNum, Next
               PROVE  /\ mem'[s] # mem[s] => ~ EndsWithRam
                      /\ s \in own' \ own => ~ OptionsInRam
    BY <1>1
  <2>1. ASSUME mem'[s] # mem[s], EndsWithRam PROVE FALSE
    <3>1. Write10 /\ WriteRam
      BY <2>1 DEF Next, Read10, Write10, WriteBeyond, Begin
    <3>2. transfer.done < transfer.length /\ InRam(Lba)
      BY <3>1 DEF Write10, WriteRam, Pending
    <3>3. TransferInv /\ Lba + Size <= RealSectorNum
      BY <1>1, <2>1, <3>2, CallInside DEF Inv
    <3>4. Lba \in Nat /\ Size \in Nat
      BY <3>2, <3>3, SizeType
    <3>5. s \in Sectors(Lba, Size)
      BY <2>1, <3>1 DEF WriteRam
    <3> QED BY <3>3, <3>4, <3>5, SectorNums DEF Sectors, Memory
  <2>2. ASSUME s \in own' \ own, OptionsInRam PROVE FALSE
    <3>1. WriteRam \/ WriteBeyond
      BY <2>2 DEF Next, Read10, Write10, Begin
    <3>2. s \in Nat /\ s # RootSector /\ s \notin LogArea
      BY SectorNums, OwnInRam, GeometryAssumption DEF Memory
    <3>3. s = FirstSector(files.optionsAt)
      BY <2>2, <3>1, <3>2, OwnGrows
    <3> DEFINE c == files.optionsAt - 2
    <3>4. c \in Nat /\ c < RealClusters
      BY <1>1, <2>2, GeometryAssumption DEF Inv, FilesInv, OptionsInRam
    <3>5. c * SectorsPerCluster + SectorsPerCluster <= RealClusters * SectorsPerCluster
      <4> HIDE DEF c
      <4> QED BY <3>4, GeometryAssumption, ProductOrder
    <3>6. c * SectorsPerCluster \in Nat /\ RealClusters * SectorsPerCluster \in Nat
      <4> HIDE DEF c
      <4> QED BY <3>4, GeometryAssumption
    <3>7. s = MetaSectors + c * SectorsPerCluster
      BY <3>3 DEF FirstSector
    <3> HIDE DEF c
    <3> QED BY <3>5, <3>6, <3>7, GeometryAssumption DEF RealSectorNum
  <2> QED BY <2>1, <2>2
<1>2. Spec => []Inv
  BY InitInv, InvNext, PTL DEF Spec
<1> QED BY <1>1, <1>2, PTL DEF Spec, InsideRam

-----------------------------------------------------------------------------
(* Which sectors flash_program_uf2 sees: the calls of a transfer that begins *)
(* with a cluster never reach into the next one.                             *)

\* What division is.
LEMMA DivMod ==
  ASSUME NEW n \in Nat, NEW d \in Nat \ {0}
  PROVE  /\ n \div d \in Nat /\ n % d \in Nat /\ n % d < d
         /\ n = (n \div d) * d + (n % d)
  OBVIOUS

\* A number is in only one multiple.
LEMMA DivUnique ==
  ASSUME NEW q \in Nat, NEW d \in Nat \ {0}, NEW t \in Nat, t < d
  PROVE  (q * d + t) \div d = q
<1> DEFINE n == q * d + t
           p == n \div d
<1>1. n \in Nat
  OBVIOUS
<1>2. p \in Nat /\ n % d \in Nat /\ n % d < d /\ n = p * d + (n % d)
  BY <1>1, DivMod
<1>3. n = q * d + t /\ p * d \in Nat /\ q * d \in Nat
  BY <1>2
<1> HIDE DEF n, p
<1>4. ~ (p < q)
  BY <1>2, <1>3, ProductOrder
<1>5. ~ (q < p)
  BY <1>2, <1>3, ProductOrder
<1> QED BY <1>2, <1>4, <1>5 DEF n, p

\* The sectors of a cluster are those that SectorToCluster gives it.
LEMMA SectorOfCluster ==
  ASSUME NEW s \in Nat, s >= MetaSectors, NEW c \in Nat, c >= 2
  PROVE  s \in ClusterSectors(c) <=> SectorToCluster(s) = c
<1> USE GeometryAssumption
<1> DEFINE d == SectorsPerCluster
           x == s - MetaSectors
<1>1. x \in Nat /\ d \in Nat \ {0} /\ c - 2 \in Nat /\ (c - 2) * d \in Nat
  OBVIOUS
<1>2. SectorToCluster(s) = x \div d + 2
  BY DEF SectorToCluster
<1>3. s \in ClusterSectors(c) <=> x >= (c - 2) * d /\ x < (c - 2) * d + d
  BY <1>1 DEF ClusterSectors, FirstSector, Sectors
<1> HIDE DEF x, d
<1>4. ASSUME x >= (c - 2) * d, x < (c - 2) * d + d PROVE x \div d = c - 2
  <2> DEFINE t == x - (c - 2) * d
  <2>1. t \in Nat /\ t < d /\ x = (c - 2) * d + t
    BY <1>1, <1>4
  <2> QED BY <1>1, <2>1, DivUnique
<1>5. ASSUME x \div d = c - 2 PROVE x >= (c - 2) * d /\ x < (c - 2) * d + d
  BY <1>1, <1>5, DivMod
<1>6. x \div d \in Nat
  BY <1>1, DivMod
<1> QED BY <1>1, <1>2, <1>3, <1>4, <1>5, <1>6

\* On the grid all sectors of a call are metadata, or of one cluster.
LEMMA CallInCluster ==
  ASSUME TransferInv, transfer.done < transfer.length, OnGrid
  PROVE  \/ \A s \in Sectors(Lba, Size) : s < MetaSectors
         \/ \A s \in Sectors(Lba, Size) :
              s >= MetaSectors /\ SectorToCluster(s) = SectorToCluster(Lba)
<1> USE GeometryAssumption
<1>1. /\ Size \in Nat \ {0} /\ Lba \in Nat /\ Size <= CallSectors
      /\ transfer.done + Size <= transfer.length
  BY SizeType
<1>2. CASE transfer.lba + transfer.length <= MetaSectors
  BY <1>1, <1>2 DEF Sectors, Lba, TransferInv
<1>3. CASE /\ transfer.lba >= MetaSectors
           /\ (transfer.lba - MetaSectors) % SectorsPerCluster = 0
  <2> DEFINE d == SectorsPerCluster
             x == transfer.lba - MetaSectors
             i == x \div d
             m == d \div CallSectors
  <2>1. x \in Nat /\ d \in Nat \ {0} /\ CallSectors \in Nat \ {0}
        /\ d % CallSectors = 0 /\ x % d = 0
    BY <1>3 DEF TransferInv
  <2>2. PICK k \in Nat : transfer.done = k * CallSectors
    BY DEF TransferInv
  <2>3. i \in Nat /\ x = i * d
    BY <2>1, DivMod
  <2>4. m \in Nat /\ d = m * CallSectors
    BY <2>1, DivMod
  <2> HIDE DEF i, m
  <2>5. m # 0
    BY <2>1, <2>4
  <2> DEFINE q == k \div m
             r == k % m
  <2>6. q \in Nat /\ r \in Nat /\ r < m /\ k = q * m + r
    BY <2>4, <2>5, DivMod
  <2> HIDE DEF q, r
  <2>7. k * CallSectors = q * d + r * CallSectors
    <3>1. k * CallSectors = q * (m * CallSectors) + r * CallSectors
      BY <2>1, <2>4, <2>6
    <3> QED BY <3>1, <2>4
  <2>8. r * CallSectors + CallSectors <= d /\ r * CallSectors \in Nat
    BY <2>1, <2>4, <2>6, ProductOrder
  <2>9. Lba - MetaSectors = (i + q) * d + r * CallSectors
    <3>1. (i + q) * d = i * d + q * d
      BY <2>1, <2>3, <2>6
    <3>2. i * d \in Nat /\ q * d \in Nat
      BY <2>1, <2>3, <2>6
    <3> QED BY <3>1, <3>2, <2>1, <2>2, <2>3, <2>7, <2>8, <1>3 DEF Lba, TransferInv
  <2>10. ASSUME NEW s \in Sectors(Lba, Size)
         PROVE  s >= MetaSectors /\ SectorToCluster(s) = i + q + 2
    <3> DEFINE t == s - MetaSectors - (i + q) * d
    <3>1. (i + q) * d \in Nat /\ i + q \in Nat
      BY <2>1, <2>3, <2>6
    <3>2. t \in Nat /\ t < d /\ s - MetaSectors = (i + q) * d + t /\ s \in Nat
      BY <3>1, <2>1, <2>8, <2>9, <1>1 DEF Sectors
    <3>3. (s - MetaSectors) \div d = i + q
      <4> HIDE DEF t, d
      <4> QED BY <3>1, <3>2, <2>1, DivUnique
    <3> QED BY <3>1, <3>2, <3>3 DEF SectorToCluster
  <2>11. Lba \in Sectors(Lba, Size)
    BY <1>1 DEF Sectors
  <2> QED BY <2>10, <2>11
<1> QED BY <1>2, <1>3 DEF OnGrid

Free(s) ==
  s >= MetaSectors /\ ~ \E c \in files.others \cup {files.optionsAt} : s \in ClusterSectors(c)

OffersInv == TransferInv /\ FilesInv /\ OffersFreeSectors

\* The first sector of a call speaks for all of them.
LEMMA FirstSpeaks ==
  ASSUME TransferInv, FilesInv, transfer.done < transfer.length, OnGrid,
         NEW s \in Sectors(Lba, Size)
  PROVE  Free(s) <=> ~ IsReservedCluster(Lba)
<1> USE GeometryAssumption
<1>1. Size \in Nat \ {0} /\ Lba \in Nat /\ s \in Nat /\ Lba \in Sectors(Lba, Size)
  BY SizeType DEF Sectors
<1>2. CASE \A t \in Sectors(Lba, Size) : t < MetaSectors
  BY <1>1, <1>2 DEF Free, IsReservedCluster, SectorToCluster
<1>3. CASE \A t \in Sectors(Lba, Size) :
             t >= MetaSectors /\ SectorToCluster(t) = SectorToCluster(Lba)
  <2>1. s >= MetaSectors /\ SectorToCluster(s) = SectorToCluster(Lba)
    BY <1>3
  <2>2. SectorToCluster(s) \in Nat \ {0, 1}
    <3>1. (s - MetaSectors) \div SectorsPerCluster \in Nat
      BY <1>1, <2>1, DivMod
    <3> QED BY <3>1, <2>1, <1>1 DEF SectorToCluster
  <2>3. \A c \in files.others \cup {files.optionsAt} :
          s \in ClusterSectors(c) <=> SectorToCluster(s) = c
    BY <1>1, <2>1, SectorOfCluster DEF FilesInv
  <2> QED BY <2>1, <2>2, <2>3 DEF Free, IsReservedCluster
<1> QED BY <1>2, <1>3, CallInCluster

\* The decision for the first sector of a call is right for all of them.
LEMMA OffersWrite10 == OffersInv /\ Write10 => OffersInv'
<1> SUFFICES ASSUME OffersInv, Write10 PROVE OffersInv'
  OBVIOUS
<1> USE SectorNums
<1>1. /\ transfer.op = "write" /\ transfer.done < transfer.length
      /\ Classify /\ files' = files
      /\ transfer' = [transfer EXCEPT !.done = @ + Size]
  BY DEF Write10, Pending
<1>2. TransferInv /\ FilesInv /\ OffersFreeSectors
  BY DEF OffersInv
<1>3. /\ Size \in Nat \ {0} /\ Lba \in Nat
      /\ transfer.done + Size <= transfer.length
  BY <1>1, <1>2, SizeType
<1>4. /\ TransferInv'
      /\ transfer'.op = "write" /\ transfer'.lba = transfer.lba
      /\ transfer'.length = transfer.length
      /\ transfer'.done = transfer.done + Size
  BY <1>1, <1>2, CallDone
<1>5. Transferred' = Transferred \cup Sectors(Lba, Size)
  BY <1>2, <1>3, <1>4 DEF Transferred, Sectors, Lba, TransferInv
<1>6. OffersFreeSectors'
  <2> SUFFICES ASSUME OnGrid' PROVE offered' = {s \in Transferred' : Free(s)'}
    BY DEF OffersFreeSectors, Free
  <2>1. OnGrid
    BY <1>4 DEF OnGrid
  <2>2. offered = {s \in Transferred : Free(s)}
    BY <2>1, <1>1, <1>2 DEF OffersFreeSectors, Free
  <2>3. \A s : Free(s)' <=> Free(s)
    BY <1>1 DEF Free, ClusterSectors, FirstSector, Sectors
  <2>4. \A s \in Sectors(Lba, Size) : Free(s) <=> ~ IsReservedCluster(Lba)
    BY <2>1, <1>1, <1>2, FirstSpeaks
  <2> QED BY <2>2, <2>3, <2>4, <1>1, <1>5 DEF Classify
<1> QED BY <1>1, <1>2, <1>4, <1>6 DEF OffersInv, FilesInv

\* Every step keeps it.
LEMMA OffersNext == OffersInv /\ [Next]_vars => OffersInv'
<1> SUFFICES ASSUME OffersInv, [Next]_vars PROVE OffersInv'
  OBVIOUS
<1> USE SectorNums
<1>1. CASE Read10
  <2>1. TransferInv /\ transfer.op = "read" /\ transfer.done < transfer.length
        /\ transfer' = [transfer EXCEPT !.done = @ + Size] /\ files' = files
    BY <1>1 DEF Read10, Pending, OffersInv
  <2>2. TransferInv' /\ transfer'.op = "read"
    BY <2>1, CallDone
  <2> QED BY <2>1, <2>2 DEF OffersInv, FilesInv, OffersFreeSectors
<1>2. CASE Write10
  BY <1>2, OffersWrite10
<1>3. ASSUME NEW op \in {"read", "write"}, NEW lba \in 0..(ReportSectorNum - 1),
             NEW length \in 1..MaxLength, Begin(op, lba, length)
      PROVE  OffersInv'
  <2>1. /\ lba \in Nat /\ length \in Nat /\ lba + length <= ReportSectorNum
        /\ transfer' = [op |-> op, lba |-> lba, length |-> length, done |-> 0]
        /\ offered' = {} /\ files' = files
    BY <1>3, GeometryAssumption DEF Begin
  <2>2. Transferred' = {}
    BY <2>1 DEF Transferred, Sectors
  <2>3. TransferInv'
    <3>1. transfer'.done = 0 * CallSectors
      BY <2>1, GeometryAssumption
    <3> QED BY <3>1, <2>1 DEF TransferInv, ReportSectorNum
  <2>4. OffersFreeSectors'
    BY <2>1, <2>2 DEF OffersFreeSectors
  <2> QED BY <2>1, <2>3, <2>4 DEF OffersInv, FilesInv
<1>4. CASE UNCHANGED vars
  BY <1>4 DEF OffersInv, TransferInv, FilesInv, OffersFreeSectors, OnGrid, Transferred,
              vars, ReportSectorNum, Sectors, ClusterSectors, FirstSector
<1> QED BY <1>1, <1>2, <1>3, <1>4 DEF Next

\* Whatever the size of a transfer that begins with a cluster, and of the buffer
\* it is cut by, flash_program_uf2 sees exactly the sectors of free clusters.
THEOREM OffersRight == Spec => []OffersFreeSectors
<1>1. Init => OffersInv
  <2> SUFFICES ASSUME Init PROVE OffersInv
    OBVIOUS
  <2>1. TransferInv
    BY SectorNums DEF Init, TransferInv
  <2>2. FilesInv
    BY GeometryAssumption DEF Init, FilesInv, ReadmeAt, LogAt
  <2> QED BY <2>1, <2>2 DEF Init, OffersInv, OffersFreeSectors
<1>2. OffersInv => OffersFreeSectors
  BY DEF OffersInv
<1> QED BY <1>1, <1>2, OffersNext, PTL DEF Spec

-----------------------------------------------------------------------------
(* What is parsed: a call that reaches OPTIONS.TXT in the RAM begins in it.  *)

TextWritten == ClusterSectors(files.optionsAt) \cap Transferred \cap 0..(RealSectorNum - 1) # {}

ParseInv ==
  /\ TransferInv /\ FilesInv /\ DOMAIN mem = Memory
  /\ transfer.op = "write" /\ OnGrid /\ TextWritten => parsed = OptionsText(mem)

\* A call that touches OPTIONS.TXT parses it after its sectors are copied.
LEMMA ParseWrite10 == ParseInv /\ Write10 => ParseInv'
<1> SUFFICES ASSUME ParseInv, Write10 PROVE ParseInv'
  OBVIOUS
<1> USE SectorNums
<1>1. /\ transfer.op = "write" /\ transfer.done < transfer.length /\ files' = files
      /\ WriteRam \/ WriteBeyond
      /\ transfer' = [transfer EXCEPT !.done = @ + Size]
  BY DEF Write10, Pending
<1>2. TransferInv /\ FilesInv /\ DOMAIN mem = Memory
  BY DEF ParseInv
<1>3. Size \in Nat \ {0} /\ Lba \in Nat /\ transfer.done + Size <= transfer.length
  BY <1>1, <1>2, SizeType
<1>4. /\ TransferInv'
      /\ transfer'.op = "write" /\ transfer'.lba = transfer.lba
      /\ transfer'.length = transfer.length
      /\ transfer'.done = transfer.done + Size
  BY <1>1, <1>2, CallDone
<1>5. Transferred' = Transferred \cup Sectors(Lba, Size)
  BY <1>2, <1>3, <1>4 DEF Transferred, Sectors, Lba, TransferInv
<1>6. DOMAIN mem' = Memory
  BY <1>1, <1>2 DEF WriteRam, WriteBeyond
<1> DEFINE text == ClusterSectors(files.optionsAt)
           call == Sectors(Lba, Size)
<1>7. ASSUME OnGrid', TextWritten' PROVE parsed' = OptionsText(mem')
  <2>1. OnGrid
    BY <1>4, <1>7 DEF OnGrid
  <2>2. text' = text /\ text \cap (Transferred \cup call) \cap 0..(RealSectorNum - 1) # {}
    BY <1>1, <1>5, <1>7 DEF TextWritten, ClusterSectors, FirstSector, Sectors, RealSectorNum
  <2>3. CASE WriteRam /\ MarksDirty
    BY <2>3 DEF WriteRam, WrittenOptions
  <2>4. CASE WriteRam /\ ~ MarksDirty
    <3>1. text \cap call = {}
      <4> SUFFICES ASSUME NEW s \in text, s \in call PROVE FALSE
        OBVIOUS
      <4>1. s \in Nat /\ s >= MetaSectors /\ files.optionsAt \in Nat /\ files.optionsAt >= 2
        <5>1. files.optionsAt \in Nat /\ files.optionsAt >= 2
          BY <1>2 DEF FilesInv
        <5>2. (files.optionsAt - 2) * SectorsPerCluster \in Nat
          BY <5>1, GeometryAssumption
        <5> QED BY <5>1, <5>2, GeometryAssumption DEF ClusterSectors, FirstSector, Sectors
      <4>2. SectorToCluster(s) = files.optionsAt
        BY <4>1, SectorOfCluster
      <4>3. SectorToCluster(Lba) = SectorToCluster(s)
        BY <1>1, <1>2, <2>1, <4>1, CallInCluster, GeometryAssumption
      <4> QED BY <2>4, <4>2, <4>3 DEF MarksDirty
    <3>2. OptionsText(mem') = OptionsText(mem)
      <4>1. \A s \in text \cap Memory : mem'[s] = mem[s]
        BY <2>4, <3>1 DEF WriteRam
      <4> HIDE DEF text
      <4>2. OptionsText(mem) = [s \in text \cap Memory |-> mem[s]]
        BY <1>2 DEF OptionsText, text
      <4>3. OptionsText(mem') = [s \in text \cap Memory |-> mem'[s]]
        BY <1>1, <1>6 DEF OptionsText, text, ClusterSectors, FirstSector, Sectors
      <4> QED BY <4>1, <4>2, <4>3
    <3>3. TextWritten
      BY <2>2, <3>1 DEF TextWritten
    <3> QED BY <1>1, <2>1, <2>4, <3>2, <3>3 DEF ParseInv, WriteRam
  <2>5. CASE WriteBeyond
    <3>1. \A s \in call : s >= RealSectorNum
      BY <1>3, <2>5 DEF WriteBeyond, InRam, Sectors
    <3>2. TextWritten
      BY <2>2, <3>1 DEF TextWritten
    <3>3. OptionsText(mem') = OptionsText(mem)
      BY <1>1, <2>5 DEF WriteBeyond, OptionsText, ClusterSectors, FirstSector, Sectors
    <3> QED BY <1>1, <2>1, <2>5, <3>2, <3>3 DEF ParseInv, WriteBeyond
  <2> QED BY <1>1, <2>3, <2>4, <2>5
<1>8. (DOMAIN mem = Memory)' /\ FilesInv'
  BY <1>1, <1>2, <1>6 DEF FilesInv, Memory, RealSectorNum
<1>9. OptionsText(mem)' = OptionsText(mem')
  BY <1>1 DEF OptionsText, ClusterSectors, FirstSector, Sectors
<1> QED BY <1>4, <1>7, <1>8, <1>9 DEF ParseInv

\* Every step keeps what was parsed up to date.
LEMMA ParseNext == ParseInv /\ [Next]_vars => ParseInv'
<1> SUFFICES ASSUME ParseInv, [Next]_vars PROVE ParseInv'
  OBVIOUS
<1> USE SectorNums
<1>1. CASE Read10
  <2>1. TransferInv /\ transfer.op = "read" /\ transfer.done < transfer.length
        /\ transfer' = [transfer EXCEPT !.done = @ + Size] /\ files' = files /\ mem' = mem
    BY <1>1 DEF Read10, Pending, ParseInv
  <2>2. TransferInv' /\ transfer'.op = "read"
    BY <2>1, CallDone
  <2> QED BY <2>1, <2>2 DEF ParseInv, FilesInv, Memory, RealSectorNum
<1>2. CASE Write10
  BY <1>2, ParseWrite10
<1>3. ASSUME NEW op \in {"read", "write"}, NEW lba \in 0..(ReportSectorNum - 1),
             NEW length \in 1..MaxLength, Begin(op, lba, length)
      PROVE  ParseInv'
  <2>1. /\ lba \in Nat /\ length \in Nat /\ lba + length <= ReportSectorNum
        /\ transfer' = [op |-> op, lba |-> lba, length |-> length, done |-> 0]
        /\ files' = files /\ mem' = mem
    BY <1>3, GeometryAssumption DEF Begin
  <2>2. Transferred' = {}
    BY <2>1 DEF Transferred, Sectors
  <2>3. TransferInv'
    <3>1. transfer'.done = 0 * CallSectors
      BY <2>1, GeometryAssumption
    <3> QED BY <3>1, <2>1 DEF TransferInv, ReportSectorNum
  <2> QED BY <2>1, <2>2, <2>3 DEF ParseInv, FilesInv, TextWritten, Memory, RealSectorNum
<1>4. CASE UNCHANGED vars
  BY <1>4 DEF ParseInv, TransferInv, FilesInv, OnGrid, TextWritten, Transferred, OptionsText,
              vars, ReportSectorNum, RealSectorNum, Memory, Sectors, ClusterSectors, FirstSector
<1> QED BY <1>1, <1>2, <1>3, <1>4 DEF Next

\* OptionsParsed: when a transfer on the grid of clusters has written any of
\* OPTIONS.TXT in the RAM, CONFIG has been parsed (msc_disk.c:402-421) from all the
\* disk now holds of it, although each call looks at its first sector only.
THEOREM OptionsUpToDate == Spec => []OptionsParsed
<1>1. Init => ParseInv
  <2> SUFFICES ASSUME Init PROVE ParseInv
    OBVIOUS
  <2>1. TransferInv
    BY SectorNums DEF Init, TransferInv
  <2>2. FilesInv
    BY GeometryAssumption DEF Init, FilesInv, ReadmeAt, LogAt
  <2> QED BY <2>1, <2>2 DEF Init, ParseInv
<1>2. ParseInv => OptionsParsed
  BY DEF ParseInv, OptionsParsed, TextWritten, Finished
<1> QED BY <1>1, <1>2, ParseNext, PTL DEF Spec

-----------------------------------------------------------------------------
\* Every step keeps the types.
LEMMA TypeNext == TransferInv /\ TypeOK /\ [Next]_vars => (TransferInv /\ TypeOK)'
<1> SUFFICES ASSUME TransferInv, TypeOK, [Next]_vars PROVE TransferInv' /\ TypeOK'
  OBVIOUS
<1> USE SectorNums, GeometryAssumption
<1>1. ASSUME transfer.done < transfer.length,
             transfer' = [transfer EXCEPT !.done = @ + Size]
      PROVE  /\ TransferInv'
             /\ transfer'.op \in {"read", "write"} /\ transfer'.done \in 0..transfer'.length
             /\ Sectors(transfer'.lba, transfer'.done)
                  = Sectors(transfer.lba, transfer.done) \cup Sectors(Lba, Size)
  <2>1. /\ Size \in Nat \ {0} /\ Lba \in Nat
        /\ transfer.done + Size <= transfer.length
    BY <1>1, SizeType
  <2>2. /\ TransferInv'
        /\ transfer'.op = transfer.op /\ transfer'.lba = transfer.lba
        /\ transfer'.length = transfer.length
        /\ transfer'.done = transfer.done + Size
    BY <1>1, CallDone
  <2>3. Sectors(transfer'.lba, transfer'.done)
          = Sectors(transfer.lba, transfer.done) \cup Sectors(Lba, Size)
    BY <2>1, <2>2 DEF Sectors, Lba, TransferInv
  <2>4. transfer'.op \in {"read", "write"} /\ transfer'.done \in 0..transfer'.length
    BY <2>2 DEF TransferInv
  <2> QED BY <2>2, <2>3, <2>4
<1>2. CASE Read10
  BY <1>1, <1>2 DEF Read10, Pending, TypeOK, Memory, RealSectorNum, Written
<1>3. CASE Write10
  <2>1. transfer.done < transfer.length /\ transfer' = [transfer EXCEPT !.done = @ + Size]
        /\ Classify /\ count' = count
    BY <1>3 DEF Write10, Pending
  <2>2. mem' \in [Memory -> 0..Written(MaxTransfers)] /\ dirty' \in BOOLEAN
    <3>1. CASE WriteRam
      <4>1. Written(count) \in 0..Written(MaxTransfers)
        BY DEF TypeOK, Written
      <4>2. mem \in [Memory -> 0..Written(MaxTransfers)]
        BY DEF TypeOK
      <4>3. mem' \in [Memory -> 0..Written(MaxTransfers)]
        BY ONLY <4>1, <4>2, <3>1 DEF WriteRam
      <4> QED BY <4>3, <3>1 DEF WriteRam
    <3>2. CASE WriteBeyond
      BY <3>2 DEF WriteBeyond, MarksDirty, TypeOK
    <3> QED BY <3>1, <3>2, <1>3 DEF Write10
  <2>3. offered' \subseteq Sectors(transfer'.lba, transfer'.done)
    BY <1>1, <2>1 DEF Classify, TypeOK
  <2>4. own' \subseteq Memory
    <3>1. RootSector \in Memory /\ LogArea \subseteq Memory
      BY OwnInRam
    <3>2. own \subseteq Memory
      BY DEF TypeOK
    <3>3. WriteRam \/ WriteBeyond
      BY <1>3 DEF Write10
    <3> QED BY <3>1, <3>2, <3>3, OwnGrows
  <2> QED BY <1>1, <2>1, <2>2, <2>3, <2>4 DEF TypeOK, Memory, RealSectorNum, Written, Sectors
<1>4. ASSUME NEW op \in {"read", "write"}, NEW lba \in 0..(ReportSectorNum - 1),
             NEW length \in 1..MaxLength, Begin(op, lba, length)
      PROVE  TransferInv' /\ TypeOK'
  <2>1. /\ lba \in Nat /\ length \in Nat /\ lba + length <= ReportSectorNum
        /\ transfer' = [op |-> op, lba |-> lba, length |-> length, done |-> 0]
        /\ offered' = {} /\ mem' = mem /\ own' = own /\ dirty' = dirty
        /\ count < MaxTransfers /\ count' = count + 1
    BY <1>4 DEF Begin
  <2>2. TransferInv'
    <3>1. transfer'.done = 0 * CallSectors
      BY <2>1
    <3> QED BY <3>1, <2>1 DEF TransferInv, ReportSectorNum
  <2>3. TypeOK'
    <3>1. /\ transfer'.op \in {"read", "write"} /\ transfer'.done \in 0..transfer'.length
          /\ count' \in 0..MaxTransfers
      BY <2>1 DEF TypeOK
    <3>2. offered' \subseteq Sectors(transfer'.lba, transfer'.done)
      BY <2>1
    <3> QED BY <2>1, <3>1, <3>2 DEF TypeOK, Memory, RealSectorNum, Written, Sectors
  <2> QED BY <2>2, <2>3
<1>5. CASE UNCHANGED vars
  BY <1>5 DEF TransferInv, TypeOK, vars, Memory, RealSectorNum, ReportSectorNum, Written,
              Sectors
<1> QED BY <1>2, <1>3, <1>4, <1>5 DEF Next

\* The sizes and contents stay what they are declared to be, and no call goes
\* beyond its transfer.
THEOREM TypeCorrect == Spec => []TypeOK
<1>1. Init => TransferInv
  BY SectorNums DEF Init, TransferInv
<1>2. Init => TypeOK
  <2> SUFFICES ASSUME Init PROVE TypeOK
    OBVIOUS
  <2>1. Boot \in 0..Written(MaxTransfers)
    BY GeometryAssumption DEF Boot, Written
  <2>2. mem \in [Memory -> 0..Written(MaxTransfers)]
    BY ONLY <2>1, Init DEF Init
  <2>3. /\ transfer.op \in {"read", "write"} /\ transfer.done \in 0..transfer.length
        /\ offered = {} /\ own = {} /\ dirty = FALSE /\ count \in 0..MaxTransfers
    BY GeometryAssumption DEF Init
  <2> QED BY <2>2, <2>3 DEF TypeOK
<1> QED BY <1>1, <1>2, TypeNext, PTL DEF Spec

=============================================================================
