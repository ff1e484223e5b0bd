------------------------------- MODULE RamDisk -------------------------------
(***************************************************************************)
(* The FAT disk in the RAM of the RP2040 (usb_msc/fat_util.c), written by  *)
(* the host through tud_msc_write10_cb (usb_msc/msc_disk.c), with the two  *)
(* files the firmware itself uses: OPTIONS.TXT, parsed into CONFIG when it *)
(* is written (usb_msc/config.c), and LOG.TXT, appended to by every        *)
(* PRINT_* (usb_msc/error.c).                                              *)
(*                                                                         *)
(* An area of the disk is what one call of the callback writes: the FAT,   *)
(* the root directory, or one cluster.  The host keeps its own copy of the *)
(* disk, changes that, and writes the changed areas back later, in an      *)
(* order of its own.                                                       *)
(***************************************************************************)
EXTENDS Naturals, SequencesExt

CONSTANTS
  RealClusters,  \* the clusters the RAM holds; a write to another is "faked"
  FarClusters,   \* clusters of the reported disk that the RAM does not hold
  Texts,         \* what the user may write to OPTIONS.TXT
  Default,       \* set_default_config
  Values,        \* the values a line of OPTIONS.TXT may give an option
  LogSize,       \* ERR_FILE_SIZE
  SectorLines,   \* DISK_SECTOR_SIZE, counted in lines of OPTIONS.TXT
  MaxLine,       \* a bound on the length of a line of the log
  Setups,        \* the builds and hosts to consider, see setup
  UserClusters,  \* a bound on the clusters the host takes for the user's files
  MaxEdits       \* a bound on what the user does

Fat == 0
RootDir == 1
Clusters == RealClusters \cup FarClusters
Areas == {Fat, RootDir} \cup Clusters
Names == {"README", "OPTIONS", "LOG"}
Options == DOMAIN Default
Bad == "bad"                \* a value that parse_config rejects
NoFile == <<[option |-> "none", value |-> Bad]>>   \* parse_config finds no file

ASSUME DiskAssumption ==
  /\ RealClusters \cap FarClusters = {}
  /\ {2, 3, 4, 5, 6} \subseteq RealClusters /\ Clusters \subseteq Nat \ {0, 1}
  /\ UserClusters \subseteq Clusters
  /\ LogSize \in Nat \ {0} /\ SectorLines \in Nat /\ MaxLine \in Nat /\ MaxEdits \in Nat
  /\ Setups \subseteq [level : 0..5, order : {"any", "metadataFirst"}, width : {12, 16}]

ASSUME TextsAssumption ==
  /\ Bad \in Values
  /\ IsFiniteSet(Options) /\ Default \in [Options -> Values]
  /\ Texts \subseteq Seq([option : Options, value : Values])

VARIABLES
  setup,       \* level: what the build passes as -DDEBUG_LEVEL, 0 when it passes none
               \* order: "metadataFirst" if the host writes FAT and directory before data
               \* width: the bits of a FAT entry, to the host
  fat,         \* the clusters whose FAT entry is not free, to the host
  dir,         \* [Names -> entry of the root directory]
  data,        \* [RealClusters -> content]
  config,      \* CONFIG without its dirty flag
  dirty,       \* CONFIG.dirty
  err,         \* [entry |-> err_file_entry, size |-> err_file_size]
  programmed,  \* history: the UF2 clusters given to flash_program_uf2
  cache,       \* the host's copy: [fat, dir, data]
  unwritten,   \* the areas where it differs from what the device was sent
  edits        \* the number of things the user has done

device == <<setup, fat, dir, data, config, dirty, err, programmed>>
vars == <<device, cache, unwritten, edits>>

-----------------------------------------------------------------------------
(* Contents and directory entries. *)

Content(is, lines, id) == [is |-> is, lines |-> lines, id |-> id]
Empty   == Content("empty", << >>, 0)
Text(t) == Content("text", t, 0)
Uf2(n)  == Content("uf2", << >>, n)
Padding == Content("padding", << >>, 0)     \* begins with the spaces of the log

\* The size of OPTIONS.TXT is counted in lines.  by tells the device's entry
\* of LOG.TXT from one the host has changed.
Entry(at, size, by) == [at |-> at, size |-> size, by |-> by]
Absent == Entry(0, 0, "device")             \* as well as an entry of all zeros

\* cluster_to_fat_table_val: the 16 bits at byte 2 * c, in digits of four bits
\* those from 4 * c on.  The host's entry n has three or four digits, none of
\* them 0 if a file of one cluster ends there.
FatTableVal(c) ==
  LET digits == setup.width \div 4
  IN  \E n \in fat : digits * n <= 4 * c + 3 /\ 4 * c <= digits * (n + 1) - 1

GetFileCluster(name) ==
  LET at == dir[name].at IN IF at # 0 /\ FatTableVal(at) THEN at ELSE 0

SectorToCluster(area) == IF area \in {Fat, RootDir} THEN 0 ELSE area

\* Mutant: the clusters the files had at boot.
MutIsReservedCluster(area) == SectorToCluster(area) \in {0, 1, 2, 3, 4}

IsReservedCluster(area) ==
  SectorToCluster(area) \in {0, 1} \cup {GetFileCluster(n) : n \in Names}

\* Mutant: the cluster OPTIONS.TXT had at boot.
MutTouchesOptions(area) == SectorToCluster(area) = 3

\* is_reserved_cluster marks CONFIG dirty.
TouchesOptions(area) ==
  GetFileCluster("OPTIONS") # 0 /\ SectorToCluster(area) = GetFileCluster("OPTIONS")

-----------------------------------------------------------------------------
(* CONFIG. *)

\* Mutant: the text ends one too early.
MutTerminated(t, size) ==
  IF size > Len(t) THEN {t} ELSE {SubSeq(t, 1, size - 1)}

\* parse_config ends the text at the size of the directory.  The line it cuts
\* may be one that is then rejected.
Terminated(t, size) ==
  IF size >= Len(t) THEN {t}
  ELSE {SubSeq(t, 1, size),
        Append(SubSeq(t, 1, size), [option |-> t[size + 1].option, value |-> Bad])}

\* One round of the loop of parse_config: the option is stored in opts, or the
\* parser returns -1 and the lines behind are not read.  p.opts keeps what the
\* lines before have stored.
ParseLine(p, line) ==
  IF ~ p.ok THEN p
  ELSE IF line.value = Bad THEN [p EXCEPT !.ok = FALSE]
  ELSE [p EXCEPT !.opts[line.option] = line.value]

ParseConfig(t, opts) == FoldLeft(ParseLine, [ok |-> TRUE, opts |-> opts], t)

\* Mutant: the caller forgets set_default_config.
MutNewConfig(parsed) == parsed.opts

\* CONFIG when tud_msc_write10_cb has looked at what parse_config returned.
NewConfig(parsed) == IF parsed.ok THEN parsed.opts ELSE Default

\* For the properties, what a file says: nothing if it is empty, does not fit a
\* sector or has a bad line; otherwise a later line overrides an earlier one, and
\* an option no line sets is kept.
Valid(t) == \A i \in DOMAIN t : t[i].value # Bad

Apply(t, opts) ==
  [o \in Options |->
     LET set == {i \in DOMAIN t : t[i].option = o}
     IN  IF set = {} THEN opts[o]
         ELSE t[CHOOSE i \in set : \A j \in set : j <= i].value]

Fits(t) == Len(t) \in 1..(SectorLines - 1)

Says(t, opts) == IF Fits(t) /\ Valid(t) THEN Apply(t, opts) ELSE Default

-----------------------------------------------------------------------------
(* The log. *)

\* Mutant: the size grows by what vsnprintf returns, not by what it wrote.
MutPrintLine(s, entry, n) ==
  [s EXCEPT !.err = [entry |-> entry, size |-> @.size + n]]

\* print_err_file.  With the line the padding is as long as the whole file: it
\* goes on into the next cluster by the size the log had before (error.c:34).
PrintLine(s, entry, n) ==
  IF entry.at = 0 THEN s
  ELSE [err  |-> [entry |-> entry,
                  size  |-> IF n < LogSize - s.err.size
                              THEN s.err.size + n ELSE LogSize - 1],
        data |-> [c \in RealClusters |->
                    IF c = entry.at + 1 /\ s.err.size > 0 THEN Padding ELSE s.data[c]]]

PrintErrFile(s, entry, lines) ==
  FoldLeft(LAMBDA t, n : PrintLine(t, entry, n), s, lines)

\* What an operation may print: nothing, or up to two lines, of the level of an
\* error or below.
Printed(prints) ==
  {<< >>} \cup
    IF prints /\ setup.level >= 2 THEN UNION {[1..n -> 1..MaxLine] : n \in 1..2} ELSE {}

-----------------------------------------------------------------------------
(* tud_msc_write10_cb, for what the host has in its copy of an area. *)

\* An area that is not reserved is searched for UF2 blocks.
Searched(area) == ~ IsReservedCluster(area) /\ cache.data[area].is = "uf2"

ProgramUf2(area) ==
  programmed' = programmed \cup IF Searched(area) THEN {cache.data[area].id} ELSE {}

\* Mutant: the entry stays as the host has written it.
MutRestoreLogEntry(d, entry) == d

\* write_file_info: the device puts its own entry of LOG.TXT back.
RestoreLogEntry(d, entry) ==
  IF d["LOG"].at = 0 THEN d ELSE [d EXCEPT !["LOG"] = entry]

\* What parse_config finds: nothing it accepts without a file, or if the file has
\* the size of a sector; beyond the RAM, whatever the memory there holds.
Found(file, s) ==
  IF file.at = 0 \/ file.size = 0 \/ file.size >= SectorLines THEN {NoFile}
  ELSE IF file.at \in FarClusters THEN Texts \cup {<< >>}
  ELSE Terminated(s.data[file.at].lines, file.size)

\* The options are parsed after the write, with the directory as it then is.
Options10(s) ==
  LET file == dir'["OPTIONS"]
  IN  \E t \in Found(file, s) :
        /\ config' = NewConfig(ParseConfig(t, config))
        /\ \E lines \in Printed(~ ParseConfig(t, config).ok) :
             LET cut == IF file.at \in RealClusters /\ t # NoFile
                          THEN [s EXCEPT !.data[file.at].lines = t] ELSE s
                 after == PrintErrFile(cut, dir'["LOG"], lines)
             IN  data' = after.data /\ err' = after.err

WriteRam(area) ==
  /\ area \in {Fat, RootDir} \cup RealClusters
  /\ ProgramUf2(area)
  /\ \E lines \in Printed(area \in Clusters /\ Searched(area)) :
       LET s == PrintErrFile([err |-> err, data |-> data], dir["LOG"], lines)
           written == IF area \in RealClusters
                        THEN [s EXCEPT !.data[area] = cache.data[area]] ELSE s
       IN  /\ fat' = IF area = Fat THEN cache.fat ELSE fat
           /\ dir' = RestoreLogEntry(IF area = RootDir THEN cache.dir ELSE dir, s.err.entry)
           /\ dirty' = FALSE
           /\ IF dirty \/ TouchesOptions(area)
                THEN Options10(written)
                ELSE UNCHANGED config /\ data' = written.data /\ err' = written.err
  /\ UNCHANGED setup

\* Beyond the RAM the callback returns early: CONFIG stays dirty.
WriteBeyond(area) ==
  /\ area \in FarClusters
  /\ ProgramUf2(area)
  /\ \E lines \in Printed(Searched(area)) :
       LET s == PrintErrFile([err |-> err, data |-> data], dir["LOG"], lines)
       IN  err' = s.err /\ data' = s.data
  /\ dirty' = (dirty \/ TouchesOptions(area))
  /\ UNCHANGED <<setup, fat, dir, config>>

Write10(area) == WriteRam(area) \/ WriteBeyond(area)

\* tud_msc_read10_cb for cluster c: zeros beyond the RAM.
Read10(c) == IF c \in RealClusters THEN data[c] ELSE Empty

-----------------------------------------------------------------------------
(* The host. *)

MayWrite(area) ==
  setup.order = "metadataFirst" /\ area \in Clusters =>
    unwritten \cap {Fat, RootDir} = {}

WriteBack(area) ==
  /\ area \in unwritten
  /\ MayWrite(area)
  /\ unwritten' = unwritten \ {area}
  /\ Write10(area)
  /\ UNCHANGED <<cache, edits>>

Edit(newCache, areas) ==
  /\ edits < MaxEdits
  /\ edits' = edits + 1
  /\ cache' = newCache
  /\ unwritten' = unwritten \cup areas
  /\ UNCHANGED device

\* OPTIONS.TXT is saved in its place, or in another cluster that is free.
SaveOptions(t, c) ==
  LET old == cache.dir["OPTIONS"].at
  IN  /\ c = old \/ c \notin cache.fat
      /\ Edit([fat  |-> (cache.fat \ {old}) \cup {c},
               dir  |-> [cache.dir EXCEPT !["OPTIONS"] = Entry(c, Len(t), "host")],
               data |-> [cache.data EXCEPT ![c] = Text(t)]],
              {Fat, RootDir, c})

DeleteFile(name) ==
  /\ cache.dir[name].at # 0
  /\ Edit([cache EXCEPT !.fat = @ \ {cache.dir[name].at}, !.dir[name] = Absent],
          {Fat, RootDir})

CopyUf2(c) ==
  /\ c \notin cache.fat
  /\ Edit([cache EXCEPT !.fat = @ \cup {c}, !.data[c] = Uf2(edits)],
          {Fat, RootDir, c})

\* A host that has read LOG.TXT writes another entry for it, with its own dates.
TouchLog == Edit([cache EXCEPT !.dir["LOG"].by = "host"], {RootDir})

-----------------------------------------------------------------------------
DefaultText ==
  SetToSeq({[option |-> o, value |-> Default[o]] : o \in Options})

\* What main prints: the firmware version, and from INFO on further lines.
BootLines ==
  IF setup.level = 0 THEN {<< >>}
  ELSE [1..(IF setup.level >= 4 THEN 2 ELSE 1) -> 1..MaxLine]

\* main has written the default options and parsed them.  The ten bytes of the
\* FAT that are not 0 are five entries of 16 bits, or seven of 12.
Init ==
  /\ setup \in Setups
  /\ fat = IF setup.width = 16 THEN 2..4 ELSE 2..6
  /\ dirty = FALSE
  /\ dir = [n \in Names |->
              CASE n = "README"  -> Entry(2, 1, "device")
                [] n = "OPTIONS" -> Entry(3, Len(DefaultText), "device")
                [] OTHER         -> Entry(4, LogSize, "device")]
  /\ config = Default
  /\ \E lines \in BootLines :
       LET blank == [err  |-> [entry |-> Absent, size |-> 0],
                     data |-> [c \in RealClusters |->
                                 IF c = 3 THEN Text(DefaultText) ELSE Empty]]
           s == PrintErrFile(blank, dir["LOG"], lines)
       IN  err = s.err /\ data = s.data
  /\ programmed = {}
  /\ cache = [fat |-> fat, dir |-> dir, data |-> [c \in Clusters |-> Read10(c)]]
  /\ unwritten = {}
  /\ edits = 0

Next ==
  \/ \E area \in Areas : WriteBack(area)
  \/ \E c \in UserClusters, t \in Texts : SaveOptions(t, c)
  \/ \E c \in UserClusters : CopyUf2(c)
  \/ \E n \in {"README", "OPTIONS"} : DeleteFile(n)
  \/ TouchLog

Spec == Init /\ [][Next]_vars

-----------------------------------------------------------------------------
Contents ==
  [is : {"empty", "text", "uf2", "padding"}, lines : Seq([option : Options, value : Values]),
   id : 0..MaxEdits]

TypeOK ==
  /\ setup \in Setups /\ fat \subseteq Clusters /\ dirty \in BOOLEAN
  /\ dir \in [Names -> [at : {0} \cup Clusters, size : Nat, by : {"device", "host"}]]
  /\ data \in [RealClusters -> Contents]
  /\ config \in [Options -> Values]
  /\ err.entry.at \in {0} \cup Clusters /\ err.size \in 0..(LogSize - 1)
  /\ programmed \subseteq 0..MaxEdits
  /\ unwritten \subseteq Areas
  /\ edits \in 0..MaxEdits

Written == unwritten = {}

\* "Various options ... can be modified in OPTIONS.TXT" (README.md:26-27): when
\* all of an edit has been written, CONFIG has every option the file sets, and
\* the defaults if the parser does not take the file.
ConfigApplied ==
  LET at == cache.dir["OPTIONS"].at
  IN  Written /\ at # 0 => config = Says(cache.data[at].lines, config)

\* That much holds for a host that writes the directory first, as long as RAM
\* holds the file, and the FAT has entries of 16 bits or the file has not moved.
ConfigCurrent ==
  LET at == cache.dir["OPTIONS"].at
  IN  setup.order = "metadataFirst" /\ at \in RealClusters
        /\ (setup.width = 16 \/ at = 3) => ConfigApplied

\* The parser stores option by option into CONFIG itself and may fail at a later
\* line.  Whatever the file is then, and whichever of its writes comes first:
\* CONFIG becomes the defaults or takes every line of the file as it is in RAM,
\* never the lines before a bad one.  If the directory came first and CONFIG was
\* not dirty, that is the file as the user has saved it, not a part of it.
ConfigWhole ==
  [][config' # config /\ dir'["OPTIONS"].at \in RealClusters =>
       \/ config' = Default
       \/ LET at == dir'["OPTIONS"].at
              t  == data'[at].lines
          IN  /\ Valid(t) /\ config' = Apply(t, config)
              /\ setup.order = "metadataFirst" /\ ~ dirty =>
                   t = cache.data[at].lines]_vars

\* Every UF2 cluster that was written has been given to the programmer, even one
\* in a cluster that belonged to a file of the firmware, if the directory comes
\* first.
Uf2Programmed ==
  setup.order = "metadataFirst" /\ Written =>
    \A c \in cache.fat \cap Clusters :
      cache.data[c].is = "uf2" => cache.data[c].id \in programmed

\* What the host has written to the RAM of the disk and reads again is what it
\* wrote: neither the log nor the parser of the options changes its files.  The
\* cluster behind the log is safe if nothing is logged after the first line, or
\* if the host takes it for allocated, and then has no file there.
ReadsBack ==
  LET log == cache.dir["LOG"].at
  IN  setup.order = "metadataFirst" /\ (setup.level = 1 \/ setup.width = 12) =>
        \A c \in (cache.fat \cap RealClusters) \ unwritten :
          c # log /\ (setup.width = 16 \/ c # log + 1) => Read10(c) = cache.data[c]

\* "make sure PC doesn't overwrite our err file info" (msc_disk.c:399): LOG.TXT
\* stays where the device put it, however the host writes the directory.
LogEntryKept == dir["LOG"] = Entry(4, LogSize, "device")

=============================================================================
