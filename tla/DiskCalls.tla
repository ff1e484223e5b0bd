------------------------------ MODULE DiskCalls ------------------------------
(***************************************************************************)
(* The transfers of the host, cut into the calls of tud_msc_read10_cb and  *)
(* tud_msc_write10_cb (usb_msc/msc_disk.c) on the sectors of the RAM disk  *)
(* (usb_msc/fat_util.h).                                                   *)
(*                                                                         *)
(* Whether a call is within the RAM, and whether what it writes belongs to *)
(* a file of the firmware, is decided from its first sector alone.  RamDisk *)
(* has one call per area of the disk: this module says of which transfers  *)
(* that is true, and what becomes of the others.  Which clusters are those  *)
(* of the files does not change here; where the callback writes on the disk *)
(* itself, it is known that it did, not what.                              *)
(***************************************************************************)
EXTENDS Naturals

CONSTANTS
  MetaSectors,        \* boot sector, FAT and root directory
  SectorsPerCluster,  \* DISK_SECTOR_PER_CLUSTER
  RealClusters,       \* DISK_REAL_CLUSTER_NUM
  ReportedClusters,   \* those that tud_msc_capacity_cb adds up to
  CallSectors,        \* CFG_TUD_MSC_EP_BUFSIZE, in sectors
  MaxLength,          \* a bound on the sectors of a transfer
  MaxTransfers        \* a bound on the transfers

ASSUME GeometryAssumption ==
  /\ MetaSectors \in Nat \ {0} /\ CallSectors \in Nat \ {0}
  /\ SectorsPerCluster \in Nat \ {0} /\ SectorsPerCluster % CallSectors = 0
  /\ RealClusters \in Nat /\ RealClusters >= 4 /\ ReportedClusters \in Nat
  /\ RealClusters <= ReportedClusters
  /\ MaxLength \in Nat /\ MaxTransfers \in Nat

RealSectorNum == MetaSectors + RealClusters * SectorsPerCluster
ReportSectorNum == MetaSectors + ReportedClusters * SectorsPerCluster

\* The sectors a call that begins in the RAM may reach.
Memory == 0..(RealSectorNum + CallSectors - 2)

Boot == 1
Written(n) == n + 1      \* the content of a sector the n-th transfer has written

\* What a read returns of a sector: what it was last sent, and whether the
\* firmware has written into it since.
Sector(from, own) == [from |-> from, own |-> own]
Zeros == Sector(0, FALSE)

\* Where main has put README.TXT and LOG.TXT.
ReadmeAt == 2
LogAt == 4

VARIABLES
  mem,       \* [Memory -> content]: the disk, and what lies behind it
  own,       \* the sectors into which the firmware has written since
  files,     \* [optionsAt, others]: the clusters of OPTIONS.TXT, and of the rest
  dirty,     \* CONFIG.dirty
  parsed,    \* history: OPTIONS.TXT when it was last parsed
  offered,   \* history: the sectors of the transfer that flash_program_uf2 saw
  transfer,  \* [op, lba, length, done] of the host
  got,       \* what the host's transfer has read, by sector
  sent,      \* the last content the host has sent for each sector
  count      \* the number of transfers

vars == <<mem, own, files, dirty, parsed, offered, transfer, got, sent, count>>

\* The next call: its lba, and its size in sectors.
Lba == transfer.lba + transfer.done

\* Mutant: a call is always a full buffer.
MutSize == CallSectors

Size == LET left == transfer.length - transfer.done
        IN  IF left < CallSectors THEN left ELSE CallSectors
Sectors(first, n) == first..(first + n - 1)
Pending(op) == transfer.op = op /\ transfer.done < transfer.length
Finished(op) == transfer.op = op /\ transfer.done = transfer.length

-----------------------------------------------------------------------------
\* Mutant: the first sector of a cluster still belongs to the one before.
MutClusterStart(s) ==
  IF s <= MetaSectors THEN 0 ELSE (s - MetaSectors - 1) \div SectorsPerCluster + 2

SectorToCluster(s) ==
  IF s < MetaSectors THEN 0 ELSE (s - MetaSectors) \div SectorsPerCluster + 2

IsReservedCluster(s) == SectorToCluster(s) \in {0, 1, files.optionsAt} \cup files.others

\* Mutant: off by one.
MutInRam(s) == s <= RealSectorNum

\* Mutant: only calls of full size are let through to the last sectors.
MutFullCall(s) == s + CallSectors <= RealSectorNum

InRam(s) == s < RealSectorNum

FirstSector(c) == MetaSectors + (c - 2) * SectorsPerCluster
ClusterSectors(c) == Sectors(FirstSector(c), SectorsPerCluster)

\* What parse_config reads: the cluster of the file, if the RAM has it.
OptionsText(m) == [s \in ClusterSectors(files.optionsAt) \cap DOMAIN m |-> m[s]]

\* Mutant: CONFIG is parsed before the new data is copied.
MutWrittenOptions == OptionsText(mem)

WrittenOptions == OptionsText(mem')

-----------------------------------------------------------------------------
(* What the callback itself writes on the disk. *)

\* The directory, with the entry of LOG.TXT.
RootSector == MetaSectors - 1

\* print_err_file: lines from some sector of the log on, the last of which is padded
\* with spaces to the length of a cluster.
LogArea == ClusterSectors(LogAt) \cup ClusterSectors(LogAt + 1)
LogLines ==
  {l \in {Sectors(s, n) : s \in ClusterSectors(LogAt),
                         n \in SectorsPerCluster..(2 * SectorsPerCluster)} : l \subseteq LogArea}

Printed(may) == {{}} \cup IF may THEN LogLines ELSE {}

\* parse_config: nothing, or the end of the text, whether or not the RAM has its
\* sector, and after that possibly a line on why the text is rejected.
Ended(parses) ==
  {{}} \cup IF parses THEN {({FirstSector(files.optionsAt)} \cap Memory) \cup l : l \in Printed(TRUE)}
            ELSE {}

-----------------------------------------------------------------------------
(* The callbacks: tinyusb calls them for one buffer after the other. *)

Read10 ==
  /\ Pending("read")
  /\ got' = [s \in DOMAIN got \cup Sectors(Lba, Size) |->
               IF s < Lba THEN got[s]
               ELSE IF InRam(Lba) THEN Sector(mem[s], s \in own) ELSE Zeros]
  /\ transfer' = [transfer EXCEPT !.done = @ + Size]
  /\ UNCHANGED <<mem, own, files, dirty, parsed, offered, sent, count>>

\* is_reserved_cluster, and flash_program_uf2 on all of the buffer, which may print
\* to the log.
Classify ==
  offered' = offered \cup IF IsReservedCluster(Lba) THEN {} ELSE Sectors(Lba, Size)

MarksDirty == dirty \/ SectorToCluster(Lba) = files.optionsAt

\* The buffer is copied, the entry of LOG.TXT written into the directory, and the
\* options are parsed if they may have changed.
WriteRam ==
  /\ InRam(Lba)
  /\ mem' = [s \in Memory |-> IF s \in Sectors(Lba, Size) THEN Written(count) ELSE mem[s]]
  /\ \E printed \in Printed(~ IsReservedCluster(Lba)), ended \in Ended(MarksDirty) :
       own' = ((own \cup printed) \ Sectors(Lba, Size)) \cup {RootSector} \cup ended
  /\ parsed' = IF MarksDirty THEN WrittenOptions ELSE parsed
  /\ dirty' = FALSE

WriteBeyond ==
  /\ ~ InRam(Lba)
  /\ \E printed \in Printed(~ IsReservedCluster(Lba)) : own' = own \cup printed
  /\ dirty' = MarksDirty
  /\ UNCHANGED <<mem, parsed>>

Write10 ==
  /\ Pending("write")
  /\ Classify
  /\ WriteRam \/ WriteBeyond
  /\ transfer' = [transfer EXCEPT !.done = @ + Size]
  /\ UNCHANGED <<files, got, sent, count>>

\* The host begins a transfer when it has the status of the one before.
Begin(op, lba, length) ==
  /\ ~ Pending("read") /\ ~ Pending("write")
  /\ count < MaxTransfers
  /\ lba + length <= ReportSectorNum
  /\ count' = count + 1
  /\ transfer' = [op |-> op, lba |-> lba, length |-> length, done |-> 0]
  /\ got' = << >>
  /\ offered' = {}
  /\ sent' = IF op = "read" THEN sent
             ELSE [s \in DOMAIN sent |->
                     IF s \in Sectors(lba, length) THEN Written(count + 1) ELSE sent[s]]
  /\ UNCHANGED <<mem, own, files, dirty, parsed>>

Init ==
  /\ mem = [s \in Memory |-> Boot]
  /\ own = {}
  /\ \E at \in (2..(ReportedClusters + 1)) \ {ReadmeAt, LogAt} :
       files = [optionsAt |-> at, others |-> {ReadmeAt, LogAt}]
  /\ dirty = FALSE
  /\ parsed = OptionsText(mem)
  /\ offered = {}
  /\ transfer = [op |-> "read", lba |-> 0, length |-> 0, done |-> 0]
  /\ got = << >>
  /\ sent = [s \in 0..(ReportSectorNum - 1) |-> Boot]
  /\ count = 0

Next ==
  \/ Read10
  \/ Write10
  \/ \E op \in {"read", "write"}, lba \in 0..(ReportSectorNum - 1), length \in 1..MaxLength :
       Begin(op, lba, length)

Spec == Init /\ [][Next]_vars

-----------------------------------------------------------------------------
TypeOK ==
  /\ mem \in [Memory -> 0..Written(MaxTransfers)] /\ own \subseteq Memory
  /\ dirty \in BOOLEAN
  /\ offered \subseteq Sectors(transfer.lba, transfer.done)
  /\ transfer.op \in {"read", "write"} /\ transfer.done \in 0..transfer.length
  /\ count \in 0..MaxTransfers

\* The calls of the transfer do not go on from the RAM to the sectors behind it.
EndsWithRam ==
  \/ transfer.lba >= RealSectorNum
  \/ transfer.lba + transfer.length <= RealSectorNum
  \/ \E n \in 1..RealSectorNum : transfer.lba + n * CallSectors = RealSectorNum

\* The transfer is one of FAT and directory, or begins with a cluster.
OnGrid ==
  \/ transfer.lba + transfer.length <= MetaSectors
  \/ transfer.lba >= MetaSectors
       /\ (transfer.lba - MetaSectors) % SectorsPerCluster = 0

Transferred == Sectors(transfer.lba, transfer.done)

OptionsInRam == files.optionsAt < RealClusters + 2

\* Writes beyond the disk in RAM are faked (msc_disk.c:387): what lies behind it in
\* memory changes only by a transfer with a call that begins within it.  The
\* firmware itself writes there only to end a text of options that the host has
\* put there (config.c:119-120).
InsideRam ==
  [][\A s \in Memory : s >= RealSectorNum =>
       /\ mem'[s] # mem[s] => ~ EndsWithRam
       /\ s \in own' \ own => ~ OptionsInRam]_vars

\* The sectors the firmware may write into: the directory, where the text of the
\* options ends, and the log with the padding behind it.
OwnSectors == {RootSector, FirstSector(files.optionsAt)} \cup LogArea

\* "report all reads outside of our RAM buffer as 0x00" (msc_disk.c:116), and
\* inside what the host last sent, in however many calls it was sent.  The
\* firmware's own bytes are over it in no other sectors than those where the code
\* puts some, and in the directory always: a host that has sent one finds in it
\* the device's entry of LOG.TXT (msc_disk.c:399).
ReadsWhatWasSent ==
  transfer.op = "read" /\ EndsWithRam =>
    \A s \in Transferred :
      IF s >= RealSectorNum THEN got[s] = Zeros
      ELSE /\ got[s].from = sent[s]
           /\ got[s].own => s \in OwnSectors
           /\ s = RootSector /\ sent[s] # Boot => got[s].own

\* flash_program_uf2 sees a sector unless it is of the FAT, the directory or a
\* file of the firmware, wherever in a longer transfer the sector is.
OffersFreeSectors ==
  transfer.op = "write" /\ OnGrid =>
    offered = {s \in Transferred : s >= MetaSectors /\
                 ~ \E c \in files.others \cup {files.optionsAt} : s \in ClusterSectors(c)}

\* "Update config immediately" (msc_disk.c:402): when a transfer has written
\* any of OPTIONS.TXT, what was parsed is what the disk has now from the host.
OptionsParsed ==
  Finished("write") /\ OnGrid
    /\ ClusterSectors(files.optionsAt) \cap Transferred \cap 0..(RealSectorNum - 1) # {}
    => parsed = OptionsText(mem)

=============================================================================
