---------------------------- MODULE RamDisk_proofs ----------------------------
(***************************************************************************)
(* For every disk, file and host: what the disk in RAM promises about the  *)
(* log's directory entry, CONFIG, the UF2 files and the host's data.       *)
(*                                                                         *)
(* The invariant relates the device to the copy of the host.  An area that *)
(* is not to be written back is the same on both sides, files of the host  *)
(* have clusters of their own, and CONFIG says what OPTIONS.TXT says as    *)
(* soon as its cluster has been written after its directory entry.         *)
(***************************************************************************)
EXTENDS RamDisk, Folding, SequenceTheorems

Lines == [option : Options, value : Values]
Entries == [at : {0} \cup Clusters, size : Nat, by : {"device", "host"}]
LogEntry == Entry(4, LogSize, "device")
OptionsAt == cache.dir["OPTIONS"].at

HostTypes ==
  /\ cache.fat \subseteq Clusters
  /\ cache.dir \in [Names -> Entries]
  /\ cache.data \in [Clusters -> Contents]
  /\ cache = [fat |-> cache.fat, dir |-> cache.dir, data |-> cache.data]

\* No two files share a cluster.
FilesApart ==
  /\ cache.dir["LOG"].at = 4
  /\ \A n \in Names : cache.dir[n].at # 0 => cache.dir[n].at \in cache.fat
  /\ \A m, n \in Names : m # n /\ cache.dir[m].at # 0 => cache.dir[m].at # cache.dir[n].at
  /\ \A c \in cache.fat : cache.data[c].is = "uf2" => \A n \in Names : cache.dir[n].at # c
  /\ OptionsAt # 0 => cache.dir["OPTIONS"].size = Len(cache.data[OptionsAt].lines)

\* What is not to be written back is the same on the device.
InStep ==
  /\ Fat \notin unwritten => fat = cache.fat
  /\ RootDir \notin unwritten => \A n \in Names \ {"LOG"} : dir[n] = cache.dir[n]
  /\ dirty => dir["OPTIONS"].at \in FarClusters

LogInv ==
  /\ dir["LOG"].at \in {0, 4} /\ err.entry.at \in {0, 4}
  /\ setup.level >= 1 => dir["LOG"] = LogEntry /\ err.entry = LogEntry

\* The parser has seen what the host has written.
OptionsInv ==
  OptionsAt \in Clusters \ unwritten =>
    /\ dir["OPTIONS"] = cache.dir["OPTIONS"]
    /\ OptionsAt \in RealClusters /\ (setup.width = 16 \/ OptionsAt = 3) =>
         ~ dirty /\ config = Says(cache.data[OptionsAt].lines, config)

Uf2Inv ==
  \A c \in cache.fat : cache.data[c].is = "uf2" =>
    c \in unwritten \/ cache.data[c].id \in programmed

RamInv ==
  /\ TypeOK /\ err \in [entry : Entries, size : 0..(LogSize - 1)]
  /\ HostTypes /\ FilesApart /\ InStep /\ LogInv
  /\ setup.order = "metadataFirst" => OptionsInv /\ Uf2Inv /\ ReadsBack

-----------------------------------------------------------------------------
(* The log: at most two lines at a time are folded into the file.          *)

\* No lines print nothing.
LEMMA FoldsNone ==
  ASSUME NEW s, NEW entry
  PROVE  PrintErrFile(s, entry, << >>) = s
<1> DEFINE f == [x \in SUBSET {} |-> s]
           Fold(g) == [x \in SUBSET {} |->
                         IF x = {} THEN s
                         ELSE PrintLine(g[x \ {Max(x)}], entry, << >>[Max(x)])]
<1>1. f = Fold(f)
  OBVIOUS
<1>2. \A g : g = Fold(g) => g[{}] = s
  OBVIOUS
<1>3. DOMAIN << >> = {}
  OBVIOUS
<1>4. PrintErrFile(s, entry, << >>) = (CHOOSE g : g = Fold(g))[{}]
  BY <1>3 DEF PrintErrFile, FoldLeft, MapThenFoldSet
<1> HIDE DEF Fold, f
<1> QED BY <1>1, <1>2, <1>4

\* One line is printed as one.
LEMMA FoldsOne ==
  ASSUME NEW s, NEW entry, NEW lines, DOMAIN lines = {1}
  PROVE  PrintErrFile(s, entry, lines) = PrintLine(s, entry, lines[1])
<1> DEFINE f == [x \in SUBSET {1} |-> IF x = {} THEN s ELSE PrintLine(s, entry, lines[1])]
           Fold(g) == [x \in SUBSET {1} |->
                         IF x = {} THEN s ELSE PrintLine(g[x \ {Max(x)}], entry, lines[Max(x)])]
<1>0. Max({1}) = 1
  BY DEF Max
<1>1. /\ \A x \in SUBSET {1} : x = {} \/ x = {1}
      /\ {1} \ {1} = {} /\ {1} # {}
  OBVIOUS
<1>2. f = Fold(f)
  <2>1. f[{}] = s /\ f[{1}] = PrintLine(s, entry, lines[1])
    BY <1>1
  <2>2. ASSUME NEW x \in SUBSET {1} PROVE f[x] = Fold(f)[x]
    <3> HIDE DEF f
    <3>1. CASE x = {}
      BY <2>1, <3>1
    <3>2. CASE x = {1}
      BY <1>0, <1>1, <2>1, <3>2
    <3> QED BY <1>1, <3>1, <3>2
  <2>3. f = [x \in SUBSET {1} |-> f[x]] /\ Fold(f) = [x \in SUBSET {1} |-> Fold(f)[x]]
    OBVIOUS
  <2> HIDE DEF f, Fold
  <2> QED BY <2>2, <2>3
<1>3. ASSUME NEW g, g = Fold(g)
      PROVE  g[{1}] = PrintLine(s, entry, lines[1])
  <2>1. g[{}] = s
    BY <1>3
  <2>2. g[{1}] = PrintLine(g[{1} \ {Max({1})}], entry, lines[Max({1})])
    BY <1>3
  <2>3. {1} \ {1} = {}
    OBVIOUS
  <2> QED BY <1>0, <2>1, <2>2, <2>3
<1>4. PrintErrFile(s, entry, lines) = (CHOOSE g : g = Fold(g))[{1}]
  BY DEF PrintErrFile, FoldLeft, MapThenFoldSet
<1> HIDE DEF Fold, f
<1> QED BY <1>2, <1>3, <1>4

\* Two lines are printed one after the other.
LEMMA FoldsTwo ==
  ASSUME NEW s, NEW entry, NEW lines, DOMAIN lines = {1, 2}
  PROVE  PrintErrFile(s, entry, lines) =
           PrintLine(PrintLine(s, entry, lines[1]), entry, lines[2])
<1> DEFINE once == PrintLine(s, entry, lines[1])
           twice == PrintLine(once, entry, lines[2])
           f == [x \in SUBSET {1, 2} |->
                  IF x = {} THEN s ELSE IF x = {1} THEN once
                  ELSE IF x = {2} THEN PrintLine(s, entry, lines[2]) ELSE twice]
           Fold(g) == [x \in SUBSET {1, 2} |->
                         IF x = {} THEN s ELSE PrintLine(g[x \ {Max(x)}], entry, lines[Max(x)])]
<1>0. Max({1}) = 1 /\ Max({2}) = 2 /\ Max({1, 2}) = 2
  <2>1. Max({1}) = 1
    BY DEF Max
  <2>2. Max({2}) = 2
    BY DEF Max
  <2>3. Max({1, 2}) = 2
    <3>1. \A x : (x \in {1, 2} /\ \A y \in {1, 2} : x >= y) <=> x = 2
      OBVIOUS
    <3> QED BY <3>1 DEF Max
  <2> QED BY <2>1, <2>2, <2>3
<1>1. \A x \in SUBSET {1, 2} : x = {} \/ x = {1} \/ x = {2} \/ x = {1, 2}
  OBVIOUS
<1>5. /\ {1} \ {1} = {} /\ {2} \ {2} = {} /\ {1, 2} \ {2} = {1}
      /\ {1} # {} /\ {2} # {} /\ {1, 2} # {} /\ {1} # {2} /\ {1, 2} # {1} /\ {1, 2} # {2}
  OBVIOUS
<1>2. f = Fold(f)
  <2> HIDE DEF once
  <2>1. f[{}] = s /\ f[{1}] = once
    BY <1>5
  <2>2. ASSUME NEW x \in SUBSET {1, 2} PROVE f[x] = Fold(f)[x]
    <3> HIDE DEF f
    <3>1. CASE x = {}
      BY <2>1, <3>1
    <3>2. CASE x = {1}
      BY <1>0, <1>5, <2>1, <3>2 DEF once
    <3>3. CASE x = {2}
      BY <1>0, <1>5, <2>1, <3>3 DEF f
    <3>4. CASE x = {1, 2}
      BY <1>0, <1>5, <2>1, <3>4 DEF f
    <3> QED BY <1>1, <3>1, <3>2, <3>3, <3>4
  <2>3. f = [x \in SUBSET {1, 2} |-> f[x]] /\ Fold(f) = [x \in SUBSET {1, 2} |-> Fold(f)[x]]
    OBVIOUS
  <2> HIDE DEF f, Fold
  <2> QED BY <2>2, <2>3
<1>3. ASSUME NEW g, g = Fold(g)
      PROVE  g[{1, 2}] = twice
  <2>1. g[{}] = s
    BY <1>3
  <2>2. g[{1}] = PrintLine(g[{1} \ {Max({1})}], entry, lines[Max({1})])
    BY <1>3
  <2>3. g[{1, 2}] = PrintLine(g[{1, 2} \ {Max({1, 2})}], entry, lines[Max({1, 2})])
    BY <1>3
  <2>4. g[{1}] = once
    BY <1>0, <1>5, <2>1, <2>2
  <2> QED BY <1>0, <1>5, <2>4, <2>3
<1>4. PrintErrFile(s, entry, lines) = (CHOOSE g : g = Fold(g))[{1, 2}]
  BY DEF PrintErrFile, FoldLeft, MapThenFoldSet
<1> HIDE DEF Fold, f, twice, once
<1> QED BY <1>2, <1>3, <1>4 DEF twice, once

LogState == [err : [entry : Entries, size : 0..(LogSize - 1)], data : [RealClusters -> Contents]]

\* What remains of s when something may have been logged under the given entry.
Logs(r, s, entry) ==
  /\ r \in LogState
  /\ r.err.entry \in {s.err.entry, entry}
  /\ entry.at = 0 => r = s
  /\ \A c \in RealClusters :
       /\ r.data[c] \in {s.data[c], Padding}
       /\ c # entry.at + 1 => r.data[c] = s.data[c]

\* Every setup has a log level, and one of two widths of the FAT.
LEMMA SetupType ==
  ASSUME setup \in Setups
  PROVE  setup.level \in 0..5 /\ setup.width \in {12, 16}
  BY DiskAssumption

\* The padding of the log, and a free cluster, are contents like others.
LEMMA PaddingType == Padding \in Contents /\ Empty \in Contents
<1>1. << >> \in Seq(Lines) /\ 0 \in 0..MaxEdits
  BY DiskAssumption
<1> QED BY <1>1 DEF Padding, Empty, Content, Contents, Lines

\* A line changes nothing but the log and the cluster its padding reaches.
LEMMA LineLogs ==
  ASSUME NEW s \in LogState, NEW entry \in Entries, NEW n \in 1..MaxLine
  PROVE  /\ Logs(PrintLine(s, entry, n), s, entry)
         /\ entry.at # 0 => PrintLine(s, entry, n).err.entry = entry
<1>1. CASE entry.at = 0
  BY <1>1 DEF PrintLine, Logs
<1>2. CASE entry.at # 0
  <2> DEFINE r == PrintLine(s, entry, n)
             size == IF n < LogSize - s.err.size THEN s.err.size + n ELSE LogSize - 1
             data2 == [c \in RealClusters |->
                         IF c = entry.at + 1 /\ s.err.size > 0 THEN Padding ELSE s.data[c]]
  <2>1. r = [err |-> [entry |-> entry, size |-> size], data |-> data2]
    BY <1>2 DEF PrintLine
  <2>2. s.err.size \in 0..(LogSize - 1) /\ s.data \in [RealClusters -> Contents]
    BY DEF LogState
  <2>3. size \in 0..(LogSize - 1)
    BY <2>2, DiskAssumption
  <2>4. data2 \in [RealClusters -> Contents]
    BY <2>2, PaddingType
  <2> HIDE DEF size, data2, r
  <2>5. r \in LogState /\ r.err.entry = entry /\ r.data = data2
    BY <2>1, <2>3, <2>4 DEF LogState
  <2> QED BY <1>2, <2>5 DEF Logs, data2, r
<1> QED BY <1>1, <1>2

\* Nor do two lines.
LEMMA LogsMore ==
  ASSUME NEW s, NEW r, NEW q, NEW entry, Logs(r, s, entry), Logs(q, r, entry)
  PROVE  Logs(q, s, entry)
  BY DEF Logs

\* Nor do the one or two lines that a call may print.
LEMMA FileLogs ==
  ASSUME NEW s \in LogState, NEW entry \in Entries,
         NEW k \in 1..2, NEW lines \in [1..k -> 1..MaxLine]
  PROVE  /\ Logs(PrintErrFile(s, entry, lines), s, entry)
         /\ entry.at # 0 => PrintErrFile(s, entry, lines).err.entry = entry
<1> DEFINE r == PrintLine(s, entry, lines[1])
           q == PrintLine(r, entry, lines[2])
<1>1. CASE k = 1
  <2>1. DOMAIN lines = {1} /\ lines[1] \in 1..MaxLine
    BY <1>1
  <2> QED BY <2>1, FoldsOne, LineLogs
<1>2. CASE k = 2
  <2>1. DOMAIN lines = {1, 2} /\ lines[1] \in 1..MaxLine /\ lines[2] \in 1..MaxLine
    BY <1>2
  <2>2. Logs(r, s, entry) /\ (entry.at # 0 => r.err.entry = entry)
    BY <2>1, LineLogs
  <2> HIDE DEF r
  <2>3. r \in LogState
    BY <2>2 DEF Logs
  <2>4. Logs(q, r, entry) /\ (entry.at # 0 => q.err.entry = entry)
    BY <2>1, <2>3, LineLogs
  <2> HIDE DEF q
  <2>5. PrintErrFile(s, entry, lines) = q
    BY <2>1, FoldsTwo DEF q, r
  <2> QED BY <2>2, <2>4, <2>5, LogsMore
<1> QED BY <1>1, <1>2

\* A call prints only what the level of its build lets through.
LEMMA PrintsLog ==
  ASSUME NEW s \in LogState, NEW entry \in Entries, NEW p \in BOOLEAN, NEW lines \in Printed(p),
         setup \in Setups
  PROVE  /\ Logs(PrintErrFile(s, entry, lines), s, entry)
         /\ ~ p \/ setup.level < 2 => PrintErrFile(s, entry, lines) = s
<1>1. CASE lines = << >>
  <2>1. PrintErrFile(s, entry, lines) = s
    BY <1>1, FoldsNone
  <2>2. Logs(s, s, entry)
    BY DEF Logs
  <2> QED BY <2>1, <2>2
<1>2. CASE lines # << >>
  <2>1. p /\ setup.level >= 2 /\ \E k \in 1..2 : lines \in [1..k -> 1..MaxLine]
    BY <1>2 DEF Printed
  <2>2. ~ (setup.level < 2)
    BY <2>1, SetupType
  <2> QED BY <2>1, <2>2, FileLogs
<1> QED BY <1>1, <1>2

-----------------------------------------------------------------------------
(* CONFIG. *)

\* Text and UF2 clusters are contents, and a text keeps the rest of its cluster.
LEMMA ContentTypes ==
  /\ \A c \in Contents : /\ c.lines \in Seq(Lines) /\ c.id \in 0..MaxEdits
                         /\ \A t \in Seq(Lines) : [c EXCEPT !.lines = t] \in Contents
                         /\ [c EXCEPT !.lines = c.lines] = c
  /\ \A t \in Seq(Lines) : Text(t) \in Contents /\ Text(t).lines = t /\ Text(t).is = "text"
  /\ \A n \in 0..MaxEdits : /\ Uf2(n) \in Contents /\ Uf2(n).is = "uf2" /\ Uf2(n).id = n
                            /\ Uf2(n).lines = << >>
<1>1. \A c \in Contents : /\ c.lines \in Seq(Lines) /\ c.id \in 0..MaxEdits
                          /\ \A t \in Seq(Lines) : [c EXCEPT !.lines = t] \in Contents
                          /\ [c EXCEPT !.lines = c.lines] = c
  BY DEF Contents, Lines
<1>2. \A t \in Seq(Lines) : Text(t) \in Contents /\ Text(t).lines = t /\ Text(t).is = "text"
  BY DiskAssumption DEF Text, Content, Contents, Lines
<1>3. << >> \in Seq(Lines)
  OBVIOUS
<1>4. \A n \in 0..MaxEdits : /\ Uf2(n) \in Contents /\ Uf2(n).is = "uf2" /\ Uf2(n).id = n
                             /\ Uf2(n).lines = << >>
  BY <1>3 DEF Uf2, Content, Contents, Lines
<1> QED BY <1>1, <1>2, <1>4

-----------------------------------------------------------------------------
(* The parser: what it has stored after each of the lines.                 *)

Configs == [Options -> Values]
Rounds == [ok : BOOLEAN, opts : Configs]

\* A line of a text, or the one that stands for a missing file.
Readable(line) == line \in Lines \/ line.value = Bad

\* A round of the loop stores an option or fails.
LEMMA RoundType ==
  ASSUME NEW p \in Rounds, NEW line, Readable(line)
  PROVE  /\ ParseLine(p, line) \in Rounds
         /\ ~ p.ok => ParseLine(p, line) = p
         /\ p.ok /\ line.value = Bad => ~ ParseLine(p, line).ok
         /\ p.ok /\ line.value # Bad =>
              /\ line.option \in Options /\ ParseLine(p, line).ok
              /\ ParseLine(p, line).opts = [p.opts EXCEPT ![line.option] = line.value]
<1>1. p.ok \in BOOLEAN /\ p.opts \in Configs
  BY DEF Rounds
<1>2. CASE ~ p.ok
  BY <1>2 DEF ParseLine
<1>3. CASE p.ok /\ line.value = Bad
  <2>1. ParseLine(p, line) = [p EXCEPT !.ok = FALSE]
    BY <1>3 DEF ParseLine
  <2> QED BY <1>1, <1>3, <2>1 DEF Rounds
<1>4. CASE p.ok /\ line.value # Bad
  <2> DEFINE opts == [p.opts EXCEPT ![line.option] = line.value]
  <2>1. line.option \in Options /\ line.value \in Values
    BY <1>4 DEF Readable, Lines
  <2>2. opts \in Configs
    BY <1>1, <2>1 DEF Configs
  <2>3. ParseLine(p, line) = [p EXCEPT !.opts = opts]
    BY <1>4 DEF ParseLine
  <2> HIDE DEF opts
  <2>4. ParseLine(p, line).opts = opts /\ ParseLine(p, line).ok /\ ParseLine(p, line) \in Rounds
    BY <1>1, <1>4, <2>2, <2>3 DEF Rounds
  <2> QED BY <1>4, <2>1, <2>4 DEF opts
<1> QED BY <1>1, <1>2, <1>3, <1>4

\* The rounds, one by one.
Rounding(a, t, opts, n) ==
  /\ a[0] = [ok |-> TRUE, opts |-> opts]
  /\ \A k \in 1..n : a[k] = ParseLine(a[k - 1], t[k])

\* ParseConfig is the last of them.
LEMMA ParserRounds ==
  ASSUME NEW opts \in Configs, NEW n \in Nat, NEW t, DOMAIN t = 1..n,
         \A i \in 1..n : Readable(t[i])
  PROVE  \E a \in [0..n -> Rounds] : Rounding(a, t, opts, n) /\ ParseConfig(t, opts) = a[n]
<1> DEFINE S == 1..n
           start == [ok |-> TRUE, opts |-> opts]
           pick == [u \in SUBSET S |-> Max(u)]
           step == [i \in S |-> [p \in Rounds |-> ParseLine(p, t[i])]]
           Solves(g) == g = [u \in SUBSET S |-> IF u = {} THEN start
                               ELSE LET x == Max(u) IN ParseLine(g[u \ {x}], t[x])]
           fold == CHOOSE g : Solves(g)
<1>1. IsFiniteSet(S) /\ start \in Rounds
  BY FS_Interval DEF Rounds
<1>2. step \in [S -> [Rounds -> Rounds]]
  <2>1. \A i \in S, p \in Rounds : ParseLine(p, t[i]) \in Rounds
    BY RoundType
  <2> HIDE DEF S
  <2> QED BY <2>1
<1>3. Picks(pick, S)
  BY Maxima DEF Picks
<1>4. PICK g \in [SUBSET S -> Rounds] : Recursive(g, S, start, pick, step)
  <2> HIDE DEF pick, step, S, start
  <2> QED BY <1>1, <1>2, <1>3, Recursion
<1>5. Solves(g)
  <2>1. ASSUME NEW u \in SUBSET S, u # {}
        PROVE  step[pick[u]][g[u \ {pick[u]}]] = ParseLine(g[u \ {Max(u)}], t[Max(u)])
    <3>1. pick[u] = Max(u) /\ Max(u) \in S /\ g[u \ {Max(u)}] \in Rounds
      BY <1>3, <1>4, <2>1 DEF Picks
    <3> HIDE DEF pick
    <3> QED BY <3>1
  <2>2. \A u \in SUBSET S :
          g[u] = IF u = {} THEN start ELSE ParseLine(g[u \ {Max(u)}], t[Max(u)])
    <3> HIDE DEF step, pick, start
    <3> QED BY <1>4, <2>1 DEF Recursive
  <2> HIDE DEF start
  <2> QED BY <1>4, <2>2
<1>6. Solves(fold)
  BY <1>5
<1>7. ParseConfig(t, opts) = fold[S]
  BY DEF ParseConfig, FoldLeft, MapThenFoldSet
<1> DEFINE a == [k \in 0..n |-> fold[1..k]]
           P == {k \in 0..n : fold[1..k] \in Rounds}
<1> HIDE DEF fold
<1>8. fold[1..0] = start
  <2>1. 1..0 = {}
    OBVIOUS
  <2> QED BY <1>6, <2>1
<1>9. ASSUME NEW k \in 1..n PROVE fold[1..k] = ParseLine(fold[1..(k - 1)], t[k])
  <2>1. 1..k \in SUBSET S /\ 1..k # {} /\ Max(1..k) = k /\ (1..k) \ {k} = 1..(k - 1)
    BY Maxima
  <2>2. fold[1..k] = ParseLine(fold[(1..k) \ {Max(1..k)}], t[Max(1..k)])
    BY <1>6, <2>1
  <2> QED BY <2>1, <2>2
<1> HIDE DEF start
<1>10. 0..n \subseteq P
  <2>1. 0 \in P
    BY <1>1, <1>8
  <2>2. ASSUME NEW k \in 0..(n - 1), k \in P PROVE k + 1 \in P
    <3>1. k + 1 \in 1..n /\ (k + 1) - 1 = k /\ k + 1 \in 0..n
      OBVIOUS
    <3>2. fold[1..(k + 1)] = ParseLine(fold[1..k], t[k + 1])
      BY <1>9, <3>1
    <3> QED BY <2>2, <3>1, <3>2, RoundType
  <2> HIDE DEF P
  <2> QED BY <2>1, <2>2, CountUp
<1>11. a \in [0..n -> Rounds]
  BY <1>10
<1>12. Rounding(a, t, opts, n)
  <2>1. a[0] = start
    BY <1>8
  <2>2. ASSUME NEW k \in 1..n PROVE a[k] = ParseLine(a[k - 1], t[k])
    <3>1. k \in 0..n /\ k - 1 \in 0..n
      OBVIOUS
    <3> QED BY <1>9, <3>1
  <2> QED BY <2>1, <2>2 DEF Rounding, start
<1> QED BY <1>7, <1>11, <1>12

\* o has the value of its last line up to line k, or its old one.
LastOf(t, k, o, old, value) ==
  \/ (\A i \in 1..k : t[i].option # o) /\ value = old
  \/ \E i \in 1..k : /\ t[i].option = o /\ value = t[i].value
                     /\ \A j \in 1..k : t[j].option = o => j <= i

\* After the lines up to k: none of them is bad and each option has the value of
\* its last line, or the parser has failed.
After(p, t, k, opts) ==
  /\ p.ok <=> \A i \in 1..k : t[i].value # Bad
  /\ p.ok => \A o \in Options : LastOf(t, k, o, opts[o], p.opts[o])

\* Every line of a file, or the defaults.
WholeOrDefault(t, opts) == IF Valid(t) THEN Apply(t, opts) ELSE Default

\* The options that parse_config leaves are the reference's.
LEMMA ParserSays ==
  ASSUME NEW opts \in Configs, NEW t, t = NoFile \/ t \in Seq(Lines)
  PROVE  LET parsed == ParseConfig(t, opts)
         IN  /\ parsed.ok <=> Valid(t)
             /\ NewConfig(parsed) = WholeOrDefault(t, opts)
             /\ NewConfig(parsed) \in Configs
<1>1. PICK n \in Nat : DOMAIN t = 1..n /\ \A i \in 1..n : Readable(t[i])
  <2>1. CASE t = NoFile
    <3>1. DOMAIN t = 1..1 /\ \A i \in 1..1 : t[i].value = Bad
      BY <2>1 DEF NoFile
    <3> QED BY <3>1 DEF Readable
  <2>2. CASE t \in Seq(Lines)
    <3>1. Len(t) \in Nat /\ DOMAIN t = 1..Len(t) /\ \A i \in 1..Len(t) : t[i] \in Lines
      BY <2>2, LenProperties, ElementOfSeq
    <3> QED BY <3>1 DEF Readable
  <2> QED BY <2>1, <2>2
<1>2. PICK a \in [0..n -> Rounds] : Rounding(a, t, opts, n) /\ ParseConfig(t, opts) = a[n]
  BY <1>1, ParserRounds
<1> DEFINE P == {k \in 0..n : After(a[k], t, k, opts)}
<1>3. 0..n \subseteq P
  <2>1. 0 \in P
    <3>1. a[0].ok /\ a[0].opts = opts
      BY <1>2 DEF Rounding
    <3> QED BY <3>1 DEF After, LastOf
  <2>2. ASSUME NEW k \in 0..(n - 1), k \in P PROVE k + 1 \in P
    <3> DEFINE p == a[k]
               q == a[k + 1]
               line == t[k + 1]
    <3>1. /\ k \in Nat /\ k + 1 \in 1..n /\ k \in 0..n /\ k + 1 \in 0..n /\ (k + 1) - 1 = k
          /\ \A i : i \in 1..(k + 1) <=> i \in 1..k \/ i = k + 1
      OBVIOUS
    <3>2. p \in Rounds /\ Readable(line) /\ q = ParseLine(p, line) /\ After(p, t, k, opts)
      BY <1>1, <1>2, <2>2, <3>1 DEF Rounding
    <3> HIDE DEF p, q, line, P
    <3>3. p.ok \in BOOLEAN /\ p.opts \in Configs
      BY <3>2 DEF Rounds
    <3>4. CASE ~ p.ok
      <4>1. q = p
        BY <3>2, <3>4, RoundType
      <4> QED BY <3>1, <3>2, <3>4, <4>1 DEF After, P, q
    <3>5. CASE p.ok /\ line.value = Bad
      <4>1. ~ q.ok
        BY <3>2, <3>5, RoundType
      <4>2. ~ \A i \in 1..(k + 1) : t[i].value # Bad
        BY <3>1, <3>5 DEF line
      <4> QED BY <3>1, <4>1, <4>2 DEF After, P, q
    <3>6. CASE p.ok /\ line.value # Bad
      <4>1. /\ line.option \in Options /\ q.ok
            /\ q.opts = [p.opts EXCEPT ![line.option] = line.value]
        BY <3>2, <3>6, RoundType
      <4>2. \A i \in 1..(k + 1) : t[i].value # Bad
        BY <3>1, <3>2, <3>6 DEF After, line
      <4>3. ASSUME NEW o \in Options
            PROVE  LastOf(t, k + 1, o, opts[o], q.opts[o])
        <5>1. CASE o = line.option
          <6>1. q.opts[o] = line.value
            BY <3>3, <4>1, <5>1 DEF Configs
          <6>2. \A j \in 1..(k + 1) : j <= k + 1
            BY <3>1
          <6> QED BY <3>1, <5>1, <6>1, <6>2 DEF LastOf, line
        <5>2. CASE o # line.option
          <6>1. q.opts[o] = p.opts[o]
            BY <3>3, <4>1, <5>2 DEF Configs
          <6>2. LastOf(t, k, o, opts[o], p.opts[o])
            BY <3>2, <3>6 DEF After
          <6> QED BY <3>1, <5>2, <6>1, <6>2 DEF LastOf, line
        <5> QED BY <5>1, <5>2
      <4> QED BY <3>1, <4>1, <4>2, <4>3 DEF After, P, q
    <3> QED BY <3>3, <3>4, <3>5, <3>6
  <2> HIDE DEF P
  <2> QED BY <2>1, <2>2, CountUp
<1> DEFINE parsed == ParseConfig(t, opts)
<1>4. parsed \in Rounds /\ After(parsed, t, n, opts)
  BY <1>2, <1>3
<1> HIDE DEF parsed, P
<1>5. parsed.ok <=> Valid(t)
  BY <1>1, <1>4 DEF After, Valid
<1>6. ASSUME Valid(t) PROVE parsed.opts = Apply(t, opts)
  <2>1. ASSUME NEW o \in Options PROVE parsed.opts[o] = Apply(t, opts)[o]
    <3> DEFINE set == {i \in DOMAIN t : t[i].option = o}
               last == CHOOSE i \in set : \A j \in set : j <= i
    <3>1. LastOf(t, n, o, opts[o], parsed.opts[o])
      BY <1>4, <1>5, <1>6 DEF After
    <3>2. Apply(t, opts)[o] = IF set = {} THEN opts[o] ELSE t[last].value
      BY DEF Apply
    <3>3. CASE set = {}
      BY <1>1, <3>1, <3>2, <3>3 DEF LastOf
    <3>4. CASE set # {}
      <4>1. PICK i \in set : parsed.opts[o] = t[i].value /\ \A j \in set : j <= i
        BY <1>1, <3>1, <3>4 DEF LastOf
      <4>2. last \in set /\ \A j \in set : j <= last
        BY <4>1
      <4>3. \A j \in set : j \in Nat
        BY <1>1
      <4> HIDE DEF set, last
      <4>4. last = i
        <5>1. last <= i /\ i <= last /\ last \in Nat /\ i \in Nat
          BY <4>1, <4>2, <4>3
        <5> QED BY <5>1
      <4> QED BY <3>2, <3>4, <4>1, <4>4
    <3> QED BY <3>3, <3>4
  <2>2. parsed.opts = [o \in Options |-> parsed.opts[o]]
    BY <1>4 DEF Rounds, Configs
  <2>3. Apply(t, opts) = [o \in Options |-> Apply(t, opts)[o]]
    BY DEF Apply
  <2> QED BY <2>1, <2>2, <2>3
<1>7. NewConfig(parsed) = WholeOrDefault(t, opts)
  BY <1>5, <1>6 DEF NewConfig, WholeOrDefault
<1>8. NewConfig(parsed) \in Configs
  BY <1>4, TextsAssumption DEF NewConfig, Rounds, Configs
<1> QED BY <1>5, <1>7, <1>8 DEF parsed

\* A file of options that is read a second time changes nothing.
LEMMA ReadAgain ==
  ASSUME NEW t, NEW opts
  PROVE  LET new == Says(t, opts) IN new = Says(t, new)
<1> DEFINE new == Apply(t, opts)
<1>1. Apply(t, new) = new
  <2>1. \A o \in Options : Apply(t, new)[o] = new[o]
    BY DEF Apply
  <2>2. Apply(t, new) = [o \in Options |-> Apply(t, new)[o]] /\ new = [o \in Options |-> new[o]]
    BY DEF Apply
  <2> HIDE DEF new
  <2> QED BY <2>1, <2>2
<1> HIDE DEF new
<1>2. CASE Fits(t) /\ Valid(t)
  BY <1>1, <1>2 DEF Says, new
<1>3. CASE ~ (Fits(t) /\ Valid(t))
  BY <1>3 DEF Says
<1> QED BY <1>2, <1>3

\* Without a file there is nothing to parse.
LEMMA NoFileInvalid == ~ Valid(NoFile)
  BY DEF Valid, NoFile

\* What is found in a file of the RAM: lines, and if it is as long as its directory
\* entry says all of them, or nothing if they do not fit.
LEMMA FoundLines ==
  ASSUME NEW s \in LogState, NEW file \in Entries, file.at \in RealClusters,
         NEW t \in Found(file, s)
  PROVE  /\ t = NoFile \/ t \in Seq(Lines)
         /\ file.size = Len(s.data[file.at].lines) =>
              \/ t = s.data[file.at].lines /\ Fits(t)
              \/ t = NoFile /\ ~ Fits(s.data[file.at].lines)
<1> DEFINE l == s.data[file.at].lines
           size == file.size
<1>1. l \in Seq(Lines) /\ size \in Nat /\ file.at # 0 /\ file.at \notin FarClusters
  BY ContentTypes, DiskAssumption DEF LogState, Entries, Clusters
<1>2. Len(l) \in Nat
  BY <1>1, LenProperties
<1> HIDE DEF l
<1>3. CASE size = 0 \/ size >= SectorLines
  <2>1. t = NoFile
    BY <1>3 DEF Found
  <2>2. size = Len(l) => ~ Fits(l)
    BY <1>1, <1>2, <1>3, DiskAssumption DEF Fits
  <2> QED BY <2>1, <2>2 DEF l
<1>4. CASE ~ (size = 0 \/ size >= SectorLines)
  <2>1. t \in Terminated(l, size)
    BY <1>1, <1>4 DEF Found, l
  <2>2. CASE size >= Len(l)
    <3>1. t = l
      BY <2>1, <2>2 DEF Terminated
    <3>2. size = Len(l) => Fits(l)
      BY <1>1, <1>2, <1>4, DiskAssumption DEF Fits
    <3> QED BY <1>1, <3>1, <3>2 DEF l
  <2>3. CASE ~ (size >= Len(l))
    <3> DEFINE cut == SubSeq(l, 1, size)
               bad == [option |-> l[size + 1].option, value |-> Bad]
    <3>1. t = cut \/ t = Append(cut, bad)
      BY <2>1, <2>3 DEF Terminated
    <3>2. size + 1 \in 1..Len(l) /\ 1 \in 1..Len(l) /\ size \in 1..Len(l)
      BY <1>1, <1>2, <1>4, <2>3
    <3>3. l[size + 1] \in Lines
      BY <1>1, <3>2, ElementOfSeq
    <3>4. bad \in Lines
      <4>1. Bad \in Values
        BY TextsAssumption
      <4>2. \A x \in Lines : x.option \in Options
        BY DEF Lines
      <4>3. \A o \in Options, v \in Values : [option |-> o, value |-> v] \in Lines
        BY DEF Lines
      <4> QED BY <3>3, <4>1, <4>2, <4>3
    <3>5. cut \in Seq(Lines)
      BY <1>1, <3>2, SubSeqProperties
    <3> HIDE DEF cut, bad
    <3>6. Append(cut, bad) \in Seq(Lines)
      BY <3>4, <3>5
    <3> QED BY <1>1, <1>2, <2>3, <3>1, <3>5, <3>6 DEF l
  <2> QED BY <2>2, <2>3
<1> QED BY <1>3, <1>4

\* Wherever the file is, it is read as lines.
LEMMA FoundReadable ==
  ASSUME NEW s \in LogState, NEW file \in Entries, NEW t \in Found(file, s)
  PROVE  t = NoFile \/ t \in Seq(Lines)
<1>1. CASE file.at = 0
  BY <1>1 DEF Found
<1>2. CASE file.at \in FarClusters
  <2>1. t = NoFile \/ t \in Texts \cup {<< >>}
    BY <1>2 DEF Found
  <2>2. Texts \subseteq Seq(Lines)
    BY TextsAssumption DEF Lines
  <2>3. << >> \in Seq(Lines)
    OBVIOUS
  <2> QED BY <2>1, <2>2, <2>3
<1>3. CASE file.at \in RealClusters
  BY <1>3, FoundLines
<1> QED BY <1>1, <1>2, <1>3 DEF Entries, Clusters

-----------------------------------------------------------------------------
(* A write. *)

\* The clusters that the log leaves alone.
Spared(c) == c # 5 \/ setup.level < 2

\* The areas are apart, and a cluster is in the RAM or beyond it.
LEMMA NumbersOf ==
  /\ Fat = 0 /\ RootDir = 1 /\ Fat \notin Clusters /\ RootDir \notin Clusters
  /\ 0 \notin Clusters /\ 1 \notin Clusters /\ Clusters \subseteq Nat
  /\ RealClusters \subseteq Clusters /\ FarClusters \subseteq Clusters
  /\ \A c \in Clusters : c \in RealClusters <=> c \notin FarClusters
  /\ {2, 3, 4, 5, 6} \subseteq RealClusters
  BY DiskAssumption DEF Fat, RootDir, Clusters

\* A line of the log only reaches the cluster behind the log's.
LEMMA PrintsSpare ==
  ASSUME TypeOK, NEW s \in LogState, NEW entry \in Entries, entry.at \in {0, 4},
         NEW p \in BOOLEAN, NEW lines \in Printed(p), NEW r, r = PrintErrFile(s, entry, lines)
  PROVE  /\ r \in LogState /\ r.err.entry \in {s.err.entry, entry}
         /\ ~ p => r = s
         /\ \A c \in RealClusters : Spared(c) => r.data[c] = s.data[c]
<1>1. setup \in Setups
  BY DEF TypeOK
<1>2. Logs(r, s, entry) /\ (~ p \/ setup.level < 2 => r = s)
  BY <1>1, PrintsLog
<1>3. entry.at = 4 => \A c \in RealClusters : c # 5 => r.data[c] = s.data[c]
  <2>1. 4 + 1 = 5
    OBVIOUS
  <2> QED BY <1>2, <2>1 DEF Logs
<1> QED BY <1>2, <1>3 DEF Logs, Spared

\* The parts of a write, in the order of the callback: the area is searched for
\* UF2 blocks, written, and the options are parsed if they may have changed.
Base(area, c) == IF c = area THEN cache.data[c] ELSE data[c]
Dir10(area) == IF area = RootDir THEN cache.dir ELSE dir

Parsed(area, w, t) ==
  LET file == dir'["OPTIONS"]
  IN  /\ w \in LogState
      /\ area \in RealClusters => w.data[area] = cache.data[area]
      /\ \A c \in RealClusters : Spared(c) => w.data[c] = Base(area, c)
      /\ t \in Found(file, w)
      /\ config' = WholeOrDefault(t, config)
      /\ \A c \in RealClusters : Spared(c) =>
           data'[c] = IF c = file.at /\ t # NoFile THEN [Base(area, c) EXCEPT !.lines = t]
                      ELSE Base(area, c)
      /\ Valid(t) /\ file.at \in RealClusters => data'[file.at].lines = t

\* The end of a call that parses: the options of some state of the disk are in CONFIG.
LEMMA OptionsEffect ==
  ASSUME RamInv, NEW area, NEW w \in LogState, Options10(w),
         area \in RealClusters => w.data[area] = cache.data[area],
         \A c \in RealClusters : Spared(c) => w.data[c] = Base(area, c),
         dir' \in [Names -> Entries], dir'["LOG"].at \in {0, 4}
  PROVE  /\ \E t : Parsed(area, w, t)
         /\ err' \in [entry : Entries, size : 0..(LogSize - 1)]
         /\ err'.entry \in {w.err.entry, dir'["LOG"]}
         /\ data' \in [RealClusters -> Contents]
         /\ config' \in Configs
<1> DEFINE file == dir'["OPTIONS"]
           log == dir'["LOG"]
           Cut(t) == IF file.at \in RealClusters /\ t # NoFile
                       THEN [w EXCEPT !.data[file.at].lines = t] ELSE w
           Printing(t, lines) == PrintErrFile(Cut(t), log, lines)
<1>1. PICK t \in Found(file, w) :
        /\ config' = NewConfig(ParseConfig(t, config))
        /\ \E lines \in Printed(~ ParseConfig(t, config).ok) :
             data' = Printing(t, lines).data /\ err' = Printing(t, lines).err
  BY DEF Options10
<1> DEFINE p == ~ ParseConfig(t, config).ok
<1>2. PICK lines \in Printed(p) :
        data' = Printing(t, lines).data /\ err' = Printing(t, lines).err
  BY <1>1
<1>3. file \in Entries /\ log \in Entries /\ log.at \in {0, 4}
  BY DEF Names
<1> HIDE DEF file, log
<1>4. /\ t = NoFile \/ t \in Seq(Lines)
      /\ p <=> ~ Valid(t)
      /\ config' = WholeOrDefault(t, config) /\ config' \in Configs
  <2>1. t = NoFile \/ t \in Seq(Lines)
    BY <1>1, <1>3, FoundReadable
  <2>2. config \in Configs
    BY DEF RamInv, TypeOK, Configs
  <2> QED BY <1>1, <2>1, <2>2, ParserSays
<1> DEFINE s == Cut(t)
<1>5. /\ s \in LogState /\ s.err.entry = w.err.entry
      /\ \A c \in RealClusters :
           s.data[c] = IF c = file.at /\ t # NoFile THEN [w.data[c] EXCEPT !.lines = t]
                       ELSE w.data[c]
  <2>1. CASE file.at \in RealClusters /\ t # NoFile
    <3>1. s = [w EXCEPT !.data = [w.data EXCEPT ![file.at] =
                                    [w.data[file.at] EXCEPT !.lines = t]]]
      BY <2>1
    <3>2. w.data \in [RealClusters -> Contents] /\ t \in Seq(Lines)
      BY <1>4, <2>1 DEF LogState
    <3> DEFINE new == [w.data[file.at] EXCEPT !.lines = t]
               data2 == [w.data EXCEPT ![file.at] = new]
    <3>3. new \in Contents
      BY <2>1, <3>2, ContentTypes
    <3>4. s = [w EXCEPT !.data = data2]
      BY <3>1
    <3>5. \A c \in RealClusters :
            data2[c] = IF c = file.at THEN [w.data[c] EXCEPT !.lines = t] ELSE w.data[c]
      BY <3>2
    <3> HIDE DEF s, new
    <3>6. data2 \in [RealClusters -> Contents]
      BY <3>2, <3>3
    <3> HIDE DEF data2
    <3> QED BY <2>1, <3>4, <3>5, <3>6 DEF LogState
  <2>2. CASE ~ (file.at \in RealClusters /\ t # NoFile)
    BY <2>2
  <2> QED BY <2>1, <2>2
<1> DEFINE r == Printing(t, lines)
<1>6. r = PrintErrFile(s, log, lines) /\ p \in BOOLEAN /\ lines \in Printed(p)
  OBVIOUS
<1>7. data' = r.data /\ err' = r.err
  BY <1>2
<1> HIDE DEF s, r
<1>8. /\ r \in LogState /\ r.err.entry \in {s.err.entry, log}
      /\ Valid(t) => r = s
      /\ \A c \in RealClusters : Spared(c) => r.data[c] = s.data[c]
  <2> HIDE DEF p
  <2>1. /\ r \in LogState /\ r.err.entry \in {s.err.entry, log}
        /\ ~ p => r = s
        /\ \A c \in RealClusters : Spared(c) => r.data[c] = s.data[c]
    BY <1>3, <1>5, <1>6, PrintsSpare DEF RamInv
  <2> QED BY <1>4, <2>1
<1>9. \A c \in RealClusters : Spared(c) =>
        data'[c] = IF c = file.at /\ t # NoFile THEN [Base(area, c) EXCEPT !.lines = t]
                   ELSE Base(area, c)
  BY <1>5, <1>7, <1>8
<1>10. ASSUME Valid(t), file.at \in RealClusters
       PROVE  data'[file.at].lines = t
  <2>1. t # NoFile
    BY <1>10, NoFileInvalid
  <2>2. data'[file.at] = [w.data[file.at] EXCEPT !.lines = t]
    BY <1>5, <1>7, <1>8, <1>10, <2>1
  <2>3. w.data[file.at] \in Contents
    BY <1>10 DEF LogState
  <2> QED BY <2>2, <2>3 DEF Contents
<1>11. Parsed(area, w, t)
  BY <1>1, <1>4, <1>9, <1>10 DEF Parsed, file
<1> QED BY <1>4, <1>5, <1>7, <1>8, <1>11 DEF LogState, log

\* What a call on an area in RAM does to each part of the state.
LEMMA RamEffect ==
  ASSUME RamInv, NEW area, WriteRam(area)
  PROVE  /\ area \in {Fat, RootDir} \cup RealClusters
         /\ setup' = setup /\ dirty' = FALSE
         /\ fat' = IF area = Fat THEN cache.fat ELSE fat
         /\ ProgramUf2(area)
         /\ dir' \in [Names -> Entries] /\ dir'["LOG"].at \in {0, 4}
         /\ \A n \in Names \ {"LOG"} : dir'[n] = Dir10(area)[n]
         /\ LogInv'
         /\ err' \in [entry : Entries, size : 0..(LogSize - 1)]
         /\ data' \in [RealClusters -> Contents]
         /\ config' \in Configs
         /\ IF dirty \/ TouchesOptions(area)
              THEN \E w, t : Parsed(area, w, t)
              ELSE /\ config' = config
                   /\ \A c \in RealClusters : Spared(c) => data'[c] = Base(area, c)
<1> DEFINE s0 == [err |-> err, data |-> data]
           p == area \in Clusters /\ Searched(area)
           S(lines) == PrintErrFile(s0, dir["LOG"], lines)
           W(lines) == IF area \in RealClusters
                         THEN [S(lines) EXCEPT !.data[area] = cache.data[area]] ELSE S(lines)
<1>1. /\ area \in {Fat, RootDir} \cup RealClusters
      /\ setup' = setup /\ dirty' = FALSE /\ ProgramUf2(area)
      /\ fat' = IF area = Fat THEN cache.fat ELSE fat
  BY DEF WriteRam
<1>2. PICK lines \in Printed(p) :
        /\ dir' = RestoreLogEntry(Dir10(area), S(lines).err.entry)
        /\ IF dirty \/ TouchesOptions(area)
             THEN Options10(W(lines))
             ELSE UNCHANGED config /\ data' = W(lines).data /\ err' = W(lines).err
  BY DEF WriteRam, Dir10
<1>3. /\ s0 \in LogState /\ s0.err = err /\ s0.data = data
      /\ dir["LOG"] \in Entries /\ dir["LOG"].at \in {0, 4} /\ p \in BOOLEAN
  BY DEF RamInv, TypeOK, LogInv, LogState, Entries, Names
<1> DEFINE s == S(lines)
           w == W(lines)
<1>4. s = PrintErrFile(s0, dir["LOG"], lines)
  OBVIOUS
<1>5. w = IF area \in RealClusters THEN [s EXCEPT !.data[area] = cache.data[area]] ELSE s
  OBVIOUS
<1>6. /\ dir' = RestoreLogEntry(Dir10(area), s.err.entry)
      /\ IF dirty \/ TouchesOptions(area)
           THEN Options10(w)
           ELSE UNCHANGED config /\ data' = w.data /\ err' = w.err
  BY <1>2
<1> HIDE DEF s0, s, w, S, W, p
<1>7. /\ s \in LogState /\ s.err.entry \in {err.entry, dir["LOG"]}
      /\ \A c \in RealClusters : Spared(c) => s.data[c] = data[c]
  BY <1>3, <1>4, PrintsSpare DEF RamInv
<1>8. /\ w \in LogState /\ w.err = s.err
      /\ area \in RealClusters => w.data[area] = cache.data[area]
      /\ \A c \in RealClusters : Spared(c) => w.data[c] = Base(area, c)
  <2>1. CASE area \in RealClusters
    <3>1. cache.data[area] \in Contents /\ s.data \in [RealClusters -> Contents]
      BY <1>7, <2>1, NumbersOf DEF RamInv, HostTypes, LogState
    <3>2. w = [s EXCEPT !.data = [@ EXCEPT ![area] = cache.data[area]]]
      BY <1>5, <2>1
    <3> QED BY <1>7, <2>1, <3>1, <3>2 DEF LogState, Base
  <2>2. CASE area \notin RealClusters
    BY <1>5, <1>7, <2>2 DEF Base
  <2> QED BY <2>1, <2>2
<1>9. /\ s.err.entry \in Entries /\ s.err.entry.at \in {0, 4}
      /\ setup.level >= 1 => s.err.entry = LogEntry
  BY <1>3, <1>7 DEF LogState, RamInv, LogInv
<1>10. Dir10(area) \in [Names -> Entries] /\ Dir10(area)["LOG"].at \in {0, 4}
  BY DEF Dir10, RamInv, TypeOK, HostTypes, FilesApart, LogInv, Entries
<1>11. /\ dir' \in [Names -> Entries] /\ dir'["LOG"].at \in {0, 4}
       /\ \A n \in Names \ {"LOG"} : dir'[n] = Dir10(area)[n]
       /\ setup.level >= 1 => dir'["LOG"] = LogEntry
  <2>1. "LOG" \in Names
    BY DEF Names
  <2>2. CASE Dir10(area)["LOG"].at = 0
    <3>1. dir' = Dir10(area)
      BY <1>6, <2>2 DEF RestoreLogEntry
    <3>2. ~ (setup.level >= 1)
      <4>1. area = RootDir => Dir10(area)["LOG"].at = 4
        BY DEF Dir10, RamInv, FilesApart
      <4>2. area # RootDir => Dir10(area) = dir
        BY DEF Dir10
      <4>3. LogEntry.at = 4
        BY DEF LogEntry, Entry
      <4> QED BY <2>2, <4>1, <4>2, <4>3 DEF RamInv, LogInv
    <3> QED BY <1>10, <3>1, <3>2
  <2>3. CASE Dir10(area)["LOG"].at # 0
    <3>1. dir' = [Dir10(area) EXCEPT !["LOG"] = s.err.entry]
      BY <1>6, <2>3 DEF RestoreLogEntry
    <3> QED BY <1>9, <1>10, <2>1, <3>1
  <2> QED BY <2>2, <2>3
<1>12. CASE dirty \/ TouchesOptions(area)
  <2>1. Options10(w)
    BY <1>6, <1>12
  <2>2. /\ \E t : Parsed(area, w, t)
        /\ err' \in [entry : Entries, size : 0..(LogSize - 1)]
        /\ err'.entry \in {w.err.entry, dir'["LOG"]}
        /\ data' \in [RealClusters -> Contents]
        /\ config' \in Configs
    BY <1>8, <1>11, <2>1, OptionsEffect
  <2>3. LogInv'
    BY <1>1, <1>8, <1>9, <1>11, <2>2 DEF LogInv
  <2> QED BY <1>1, <1>11, <1>12, <2>2, <2>3
<1>13. CASE ~ (dirty \/ TouchesOptions(area))
  <2>1. config' = config /\ data' = w.data /\ err' = w.err
    BY <1>6, <1>13
  <2>2. LogInv'
    BY <1>1, <1>8, <1>9, <1>11, <2>1 DEF LogInv
  <2> QED BY <1>1, <1>8, <1>11, <1>13, <2>1, <2>2 DEF LogState, RamInv, TypeOK, Configs
<1> QED BY <1>12, <1>13

\* What a call on a cluster beyond the RAM does.
LEMMA BeyondEffect ==
  ASSUME RamInv, NEW area, WriteBeyond(area)
  PROVE  /\ area \in FarClusters
         /\ UNCHANGED <<setup, fat, dir, config>>
         /\ dirty' = (dirty \/ TouchesOptions(area))
         /\ ProgramUf2(area)
         /\ err' \in [entry : Entries, size : 0..(LogSize - 1)]
         /\ data' \in [RealClusters -> Contents]
         /\ \A c \in RealClusters : Spared(c) => data'[c] = data[c]
         /\ LogInv'
<1> DEFINE s0 == [err |-> err, data |-> data]
           p == Searched(area)
           S(lines) == PrintErrFile(s0, dir["LOG"], lines)
<1>1. /\ area \in FarClusters /\ UNCHANGED <<setup, fat, dir, config>>
      /\ dirty' = (dirty \/ TouchesOptions(area)) /\ ProgramUf2(area)
  BY DEF WriteBeyond
<1>2. PICK lines \in Printed(p) : err' = S(lines).err /\ data' = S(lines).data
  BY DEF WriteBeyond
<1>3. /\ s0 \in LogState /\ s0.err = err /\ s0.data = data
      /\ dir["LOG"] \in Entries /\ dir["LOG"].at \in {0, 4} /\ p \in BOOLEAN
  BY DEF RamInv, TypeOK, LogInv, LogState, Entries, Names, Searched
<1> DEFINE s == S(lines)
<1>4. s = PrintErrFile(s0, dir["LOG"], lines) /\ err' = s.err /\ data' = s.data
  BY <1>2
<1> HIDE DEF s0, s, S, p
<1>5. /\ s \in LogState /\ s.err.entry \in {err.entry, dir["LOG"]}
      /\ \A c \in RealClusters : Spared(c) => s.data[c] = data[c]
  BY <1>3, <1>4, PrintsSpare DEF RamInv
<1>6. LogInv'
  BY <1>1, <1>3, <1>4, <1>5 DEF LogInv, RamInv
<1> QED BY <1>1, <1>4, <1>5, <1>6 DEF LogState

-----------------------------------------------------------------------------
(* What a write keeps. *)

\* A cluster in the FAT of the host has its 16 bits in the RAM's FAT, too; in one
\* of 12 bits that much is true of the third cluster, because of the fourth.
LEMMA FatFinds ==
  ASSUME setup \in Setups, NEW c \in fat, c \in Nat,
         setup.width = 16 \/ (c = 3 /\ 4 \in fat)
  PROVE  FatTableVal(c)
<1>1. CASE setup.width = 16
  <2>1. 16 \div 4 = 4 /\ 4 * c <= 4 * c + 3 /\ 4 * c <= 4 * (c + 1) - 1
    OBVIOUS
  <2> QED BY <1>1, <2>1 DEF FatTableVal
<1>2. CASE setup.width # 16
  <2>1. setup.width = 12 /\ 12 \div 4 = 3
    BY <1>2, SetupType
  <2>2. 3 * 4 <= 4 * 3 + 3 /\ 4 * 3 <= 3 * (4 + 1) - 1
    OBVIOUS
  <2> QED BY <1>2, <2>1, <2>2 DEF FatTableVal
<1> QED BY <1>1, <1>2

\* An area that is searched although a file of the firmware is there, or not
\* although none is, is one the host has not put in step yet.
LEMMA FreeSearched ==
  ASSUME RamInv, Fat \notin unwritten, RootDir \notin unwritten,
         NEW c \in cache.fat, cache.data[c].is = "uf2"
  PROVE  Searched(c)
<1>1. c \in Clusters /\ c # 0 /\ c # 1 /\ c \notin {Fat, RootDir}
  BY NumbersOf DEF RamInv, HostTypes
<1>2. \A n \in Names : dir[n].at # c
  <2>1. \A n \in Names : cache.dir[n].at # c
    BY DEF RamInv, FilesApart
  <2>2. \A n \in Names \ {"LOG"} : dir[n] = cache.dir[n]
    BY DEF RamInv, InStep
  <2>3. cache.dir["LOG"].at = 4 /\ dir["LOG"].at \in {0, 4} /\ "LOG" \in Names
    BY DEF RamInv, FilesApart, LogInv, Names
  <2> QED BY <1>1, <2>1, <2>2, <2>3
<1>3. \A n \in Names : GetFileCluster(n) # c
  BY <1>1, <1>2 DEF GetFileCluster
<1>4. SectorToCluster(c) = c
  BY <1>1 DEF SectorToCluster
<1> QED BY <1>1, <1>3, <1>4 DEF Searched, IsReservedCluster

\* A call gives the programmer the UF2 cluster it writes.
LEMMA Uf2Kept ==
  ASSUME RamInv, setup.order = "metadataFirst", NEW area \in unwritten, MayWrite(area),
         unwritten' = unwritten \ {area}, cache' = cache, ProgramUf2(area)
  PROVE  Uf2Inv'
<1> SUFFICES ASSUME NEW c \in cache.fat, cache.data[c].is = "uf2"
             PROVE  c \in unwritten' \/ cache.data[c].id \in programmed'
  BY DEF Uf2Inv
<1>1. c \in unwritten \/ cache.data[c].id \in programmed
  BY DEF RamInv, Uf2Inv
<1>2. programmed \subseteq programmed'
  BY DEF ProgramUf2
<1>3. ASSUME c = area PROVE cache.data[c].id \in programmed'
  <2>1. c \in Clusters
    BY DEF RamInv, HostTypes
  <2>2. Fat \notin unwritten /\ RootDir \notin unwritten
    BY <1>3, <2>1 DEF MayWrite
  <2>3. Searched(area)
    BY <1>3, <2>2, FreeSearched
  <2> QED BY <1>3, <2>3 DEF ProgramUf2
<1> QED BY <1>1, <1>2, <1>3

\* OPTIONS.TXT is touched by a write to its cluster, and to no other.
LEMMA Touching ==
  ASSUME RamInv, NEW area \in Areas
  PROVE  /\ TouchesOptions(area) => area \in Clusters /\ area = dir["OPTIONS"].at
         /\ area \in fat /\ area = dir["OPTIONS"].at
              /\ (setup.width = 16 \/ (area = 3 /\ 4 \in fat)) => TouchesOptions(area)
<1>1. \A a \in {Fat, RootDir} : SectorToCluster(a) = 0
  BY DEF SectorToCluster
<1>2. \A a \in Clusters : SectorToCluster(a) = a /\ a # 0
  BY NumbersOf DEF SectorToCluster
<1>3. GetFileCluster("OPTIONS") \in {0, dir["OPTIONS"].at}
  BY DEF GetFileCluster
<1>4. TouchesOptions(area) => area \in Clusters /\ area = dir["OPTIONS"].at
  BY <1>1, <1>2, <1>3 DEF TouchesOptions, Areas
<1>5. ASSUME area \in fat, area = dir["OPTIONS"].at,
             setup.width = 16 \/ (area = 3 /\ 4 \in fat)
      PROVE  TouchesOptions(area)
  <2>1. area \in Clusters /\ area \in Nat /\ setup \in Setups
    BY <1>5, NumbersOf DEF RamInv, TypeOK
  <2>2. FatTableVal(area)
    BY <1>5, <2>1, FatFinds
  <2> QED BY <1>2, <1>5, <2>1, <2>2 DEF TouchesOptions, GetFileCluster
<1> QED BY <1>4, <1>5

\* In step, the directory entry the device has of OPTIONS.TXT is the host's.
LEMMA OptionsInStep ==
  ASSUME RamInv, RootDir \notin unwritten
  PROVE  dir["OPTIONS"] = cache.dir["OPTIONS"]
  BY DEF RamInv, InStep, Names

\* A write seen from outside: whether the options are parsed is all that matters.
Parses(area) == area \notin FarClusters /\ (dirty \/ TouchesOptions(area))

\* What both kinds of call do.
LEMMA WriteEffect ==
  ASSUME RamInv, NEW area, Write10(area)
  PROVE  /\ area \in Areas /\ setup' = setup /\ ProgramUf2(area)
         /\ fat' = IF area = Fat THEN cache.fat ELSE fat
         /\ dir' \in [Names -> Entries]
         /\ \A n \in Names \ {"LOG"} : dir'[n] = Dir10(area)[n]
         /\ dirty' = (area \in FarClusters /\ (dirty \/ TouchesOptions(area)))
         /\ err' \in [entry : Entries, size : 0..(LogSize - 1)]
         /\ data' \in [RealClusters -> Contents]
         /\ config' \in Configs
         /\ LogInv'
         /\ Parses(area) => \E w, t : Parsed(area, w, t)
         /\ ~ Parses(area) =>
              /\ config' = config
              /\ \A c \in RealClusters : Spared(c) => data'[c] = Base(area, c)
<1>1. CASE WriteRam(area)
  <2>1. area \in Areas /\ area \notin FarClusters
    BY <1>1, RamEffect, NumbersOf DEF Areas
  <2> QED BY <1>1, <2>1, RamEffect DEF Parses
<1>2. CASE WriteBeyond(area)
  <2>1. /\ area \in FarClusters /\ area \in Areas /\ area \notin {Fat, RootDir}
        /\ area \notin RealClusters
    BY <1>2, BeyondEffect, NumbersOf DEF Areas
  <2>2. \A c \in RealClusters : Base(area, c) = data[c]
    BY <2>1 DEF Base
  <2>3. Dir10(area) = dir /\ ~ Parses(area)
    BY <2>1 DEF Dir10, Parses
  <2>4. dir \in [Names -> Entries] /\ config \in Configs
    BY DEF RamInv, TypeOK, Entries, Configs
  <2> QED BY <1>2, <2>1, <2>2, <2>3, <2>4, BeyondEffect
<1> QED BY <1>1, <1>2 DEF Write10

\* A cluster may be written when the FAT and the directory have been.
LEMMA MetadataFirst ==
  ASSUME RamInv, setup.order = "metadataFirst", NEW area \in Clusters, MayWrite(area)
  PROVE  /\ Fat \notin unwritten /\ RootDir \notin unwritten
         /\ fat = cache.fat /\ dir["OPTIONS"] = cache.dir["OPTIONS"]
<1>1. Fat \notin unwritten /\ RootDir \notin unwritten
  BY DEF MayWrite
<1> QED BY <1>1, OptionsInStep DEF RamInv, InStep

\* A call keeps the types, and device and host in step.
LEMMA WriteTypes ==
  ASSUME RamInv, NEW area, WriteBack(area)
  PROVE  /\ TypeOK' /\ (err \in [entry : Entries, size : 0..(LogSize - 1)])'
         /\ HostTypes' /\ FilesApart' /\ InStep' /\ LogInv'
<1>1. Write10(area) /\ area \in unwritten /\ unwritten' = unwritten \ {area}
      /\ cache' = cache /\ edits' = edits
  BY DEF WriteBack
<1>2. HostTypes' /\ FilesApart'
  BY <1>1 DEF RamInv, HostTypes, FilesApart, OptionsAt
<1>3. programmed' \subseteq 0..MaxEdits
  <2>1. programmed \subseteq 0..MaxEdits
    BY DEF RamInv, TypeOK
  <2>2. ASSUME Searched(area) PROVE cache.data[area].id \in 0..MaxEdits
    <3>1. area \in Clusters
      <4>1. ~ IsReservedCluster(area)
        BY <2>2 DEF Searched
      <4>2. area \notin {Fat, RootDir}
        BY <4>1 DEF IsReservedCluster, SectorToCluster
      <4> QED BY <1>1, <4>2, WriteEffect DEF Areas
    <3> QED BY <3>1, ContentTypes DEF RamInv, HostTypes
  <2>3. programmed' = programmed \cup IF Searched(area) THEN {cache.data[area].id} ELSE {}
    BY <1>1, WriteEffect DEF ProgramUf2
  <2> QED BY <2>1, <2>2, <2>3
<1>4. TypeOK'
  <2>1. fat' \subseteq Clusters /\ dirty' \in BOOLEAN
    BY <1>1, WriteEffect DEF RamInv, TypeOK, HostTypes
  <2>2. err'.entry.at \in {0} \cup Clusters /\ err'.size \in 0..(LogSize - 1)
    BY <1>1, WriteEffect DEF Entries
  <2>3. dir' \in [Names -> [at : {0} \cup Clusters, size : Nat, by : {"device", "host"}]]
    BY <1>1, WriteEffect DEF Entries
  <2>4. unwritten' \subseteq Areas /\ edits' \in 0..MaxEdits /\ setup' \in Setups
    BY <1>1, WriteEffect DEF RamInv, TypeOK
  <2>5. data' \in [RealClusters -> Contents] /\ config' \in Configs
    BY <1>1, WriteEffect
  <2> QED BY <1>3, <2>1, <2>2, <2>3, <2>4, <2>5 DEF TypeOK, Configs
<1>5. InStep'
  <2>1. Fat \notin unwritten' => fat' = cache'.fat
    BY <1>1, WriteEffect DEF RamInv, InStep
  <2>2. RootDir \notin unwritten' => \A n \in Names \ {"LOG"} : dir'[n] = cache'.dir[n]
    BY <1>1, WriteEffect DEF RamInv, InStep, Dir10
  <2>3. ASSUME dirty' PROVE dir'["OPTIONS"].at \in FarClusters
    <3>1. area \in FarClusters /\ (dirty \/ TouchesOptions(area)) /\ area \in Areas
      BY <1>1, <2>3, WriteEffect
    <3>2. area # RootDir
      BY <3>1, NumbersOf
    <3>3. "OPTIONS" \in Names \ {"LOG"}
      BY DEF Names
    <3>4. dir'["OPTIONS"] = dir["OPTIONS"]
      BY <1>1, <3>2, <3>3, WriteEffect DEF Dir10
    <3>5. TouchesOptions(area) => area = dir["OPTIONS"].at
      BY <3>1, Touching
    <3> QED BY <3>1, <3>4, <3>5 DEF RamInv, InStep
  <2> QED BY <2>1, <2>2, <2>3 DEF InStep
<1> QED BY <1>1, <1>2, <1>4, <1>5, WriteEffect

\* Once the cluster of OPTIONS.TXT has been written behind its directory entry,
\* the parser has seen all of it.
LEMMA OptionsKept ==
  ASSUME RamInv, setup.order = "metadataFirst", NEW area, WriteBack(area)
  PROVE  OptionsInv'
<1> DEFINE at == OptionsAt
<1>1. /\ Write10(area) /\ area \in unwritten /\ MayWrite(area) /\ area \in Areas
      /\ unwritten' = unwritten \ {area} /\ cache' = cache /\ setup' = setup
  BY WriteEffect DEF WriteBack
<1>2. "OPTIONS" \in Names \ {"LOG"}
  BY DEF Names
<1>3. dir'["OPTIONS"] = Dir10(area)["OPTIONS"]
  BY <1>1, <1>2, WriteEffect
<1> SUFFICES ASSUME at \in Clusters \ unwritten'
             PROVE  /\ dir'["OPTIONS"] = cache.dir["OPTIONS"]
                    /\ at \in RealClusters /\ (setup.width = 16 \/ at = 3) =>
                         ~ dirty' /\ config' = Says(cache.data[at].lines, config')
  BY <1>1 DEF OptionsInv, OptionsAt
<1>4. CASE at \in unwritten
  <2>1. at = area /\ area \notin {Fat, RootDir} /\ area \in Clusters
    BY <1>1, <1>4, NumbersOf
  <2>2. fat = cache.fat /\ dir["OPTIONS"] = cache.dir["OPTIONS"]
    BY <1>1, <2>1, MetadataFirst
  <2>3. dir'["OPTIONS"] = cache.dir["OPTIONS"]
    BY <1>3, <2>1, <2>2 DEF Dir10
  <2>4. ASSUME at \in RealClusters, setup.width = 16 \/ at = 3
        PROVE  ~ dirty' /\ config' = Says(cache.data[at].lines, config')
    <3>1. at \in fat /\ 4 \in fat
      <4>1. at # 0 /\ "LOG" \in Names /\ cache.dir["LOG"].at = 4 /\ 4 # 0
        BY NumbersOf DEF RamInv, FilesApart, Names
      <4> QED BY <1>2, <2>2, <4>1 DEF RamInv, FilesApart, OptionsAt
    <3>2. TouchesOptions(area)
      BY <1>1, <2>1, <2>2, <2>4, <3>1, Touching DEF OptionsAt
    <3>3. area \notin FarClusters
      BY <2>1, <2>4, NumbersOf
    <3>4. Parses(area) /\ ~ dirty'
      BY <1>1, <3>2, <3>3, WriteEffect DEF Parses
    <3>5. PICK w, t : Parsed(area, w, t)
      BY <1>1, <3>4, WriteEffect
    <3> DEFINE file == dir'["OPTIONS"]
               lines == cache.data[at].lines
    <3>6. /\ w \in LogState /\ w.data[at] = cache.data[at] /\ t \in Found(file, w)
          /\ config' = WholeOrDefault(t, config)
      BY <2>1, <2>4, <3>5 DEF Parsed
    <3>7. file \in Entries /\ file.at = at /\ file.size = Len(lines)
      <4>1. at # 0
        BY NumbersOf
      <4> QED BY <1>2, <2>3, <4>1 DEF RamInv, HostTypes, FilesApart, OptionsAt
    <3>8. (t = lines /\ Fits(lines)) \/ (t = NoFile /\ ~ Fits(lines))
      <4>1. file.at \in RealClusters /\ w.data[file.at].lines = lines
        BY <2>4, <3>6, <3>7
      <4>2. file.size = Len(w.data[file.at].lines)
        BY <3>7, <4>1
      <4> HIDE DEF file, lines
      <4>3. \/ t = w.data[file.at].lines /\ Fits(t)
            \/ t = NoFile /\ ~ Fits(w.data[file.at].lines)
        BY <3>6, <3>7, <4>1, <4>2, FoundLines
      <4> QED BY <4>1, <4>3
    <3>9. config' = Says(lines, config)
      <4>1. config' = WholeOrDefault(t, config)
        BY <3>6
      <4> HIDE DEF lines
      <4>2. CASE t = lines /\ Fits(lines)
        BY <4>1, <4>2 DEF WholeOrDefault, Says
      <4>3. CASE t = NoFile /\ ~ Fits(lines)
        BY <4>1, <4>3, NoFileInvalid DEF WholeOrDefault, Says
      <4> QED BY <3>8, <4>2, <4>3
    <3> QED BY <3>4, <3>9, ReadAgain
  <2> QED BY <2>3, <2>4
<1>5. CASE at \notin unwritten
  <2>1. dir["OPTIONS"] = cache.dir["OPTIONS"]
    BY <1>5 DEF RamInv, OptionsInv
  <2>2. ASSUME at \in RealClusters, setup.width = 16 \/ at = 3
        PROVE  ~ dirty' /\ config' = Says(cache.data[at].lines, config')
    <3>1. ~ dirty /\ config = Says(cache.data[at].lines, config)
      BY <1>5, <2>2 DEF RamInv, OptionsInv
    <3>2. ~ TouchesOptions(area)
      BY <1>1, <1>5, <2>1, Touching DEF OptionsAt
    <3> QED BY <1>1, <3>1, <3>2, WriteEffect DEF Parses
  <2> QED BY <1>3, <2>1, <2>2 DEF Dir10
<1> QED BY <1>4, <1>5

\* A call keeps what reads back.
LEMMA ReadsKept ==
  ASSUME RamInv, setup.order = "metadataFirst", NEW area, WriteBack(area)
  PROVE  ReadsBack'
<1>1. /\ Write10(area) /\ area \in unwritten /\ MayWrite(area) /\ area \in Areas
      /\ unwritten' = unwritten \ {area} /\ cache' = cache /\ setup' = setup
  BY WriteEffect DEF WriteBack
<1>2. "OPTIONS" \in Names \ {"LOG"}
  BY DEF Names
<1> SUFFICES ASSUME setup.level = 1 \/ setup.width = 12,
                    NEW c \in (cache.fat \cap RealClusters) \ unwritten',
                    c # 4, setup.width = 16 \/ c # 4 + 1
             PROVE  data'[c] = cache.data[c]
  BY <1>1 DEF ReadsBack, Read10, RamInv, FilesApart
<1>3. Spared(c)
  BY DEF Spared
<1>4. Base(area, c) = cache.data[c]
  <2>1. CASE c = area
    BY <2>1 DEF Base
  <2>2. CASE c # area
    <3>1. c \in (cache.fat \cap RealClusters) \ unwritten
      BY <1>1, <2>2
    <3>2. Read10(c) = cache.data[c]
      BY <3>1 DEF RamInv, ReadsBack, FilesApart
    <3> QED BY <2>2, <3>2 DEF Base, Read10
  <2> QED BY <2>1, <2>2
<1>5. CASE ~ Parses(area)
  BY <1>1, <1>3, <1>4, <1>5, WriteEffect
<1>6. CASE Parses(area)
  <2> DEFINE file == dir'["OPTIONS"]
  <2>1. PICK w, t : Parsed(area, w, t)
    BY <1>1, <1>6, WriteEffect
  <2>2. data'[c] = IF c = file.at /\ t # NoFile THEN [cache.data[c] EXCEPT !.lines = t]
                   ELSE cache.data[c]
    BY <1>3, <1>4, <2>1 DEF Parsed
  <2>3. ASSUME c = file.at, t # NoFile
        PROVE  t = cache.data[c].lines
    <3>1. file = Dir10(area)["OPTIONS"]
      BY <1>1, <1>2, WriteEffect
    <3>2. file = cache.dir["OPTIONS"]
      <4>1. CASE area = RootDir
        BY <3>1, <4>1 DEF Dir10
      <4>2. CASE area # RootDir
        <5>1. file = dir["OPTIONS"]
          BY <3>1, <4>2 DEF Dir10
        <5>2. ~ dirty
          BY <2>3, <5>1, NumbersOf DEF RamInv, InStep
        <5>3. area \in Clusters
          BY <1>1, <1>6, <5>2, Touching DEF Parses
        <5> QED BY <1>1, <5>1, <5>3, MetadataFirst
      <4> QED BY <4>1, <4>2
    <3>3. file \in Entries /\ file.at \in RealClusters /\ c # 0
      BY <1>2, <2>3, <3>2, NumbersOf DEF RamInv, HostTypes
    <3>4. file.size = Len(cache.data[c].lines)
      BY <2>3, <3>2, <3>3 DEF RamInv, FilesApart, OptionsAt
    <3>5. w \in LogState /\ w.data[c] = cache.data[c] /\ t \in Found(file, w)
      BY <1>3, <1>4, <2>1 DEF Parsed
    <3> HIDE DEF file
    <3> QED BY <2>3, <3>3, <3>4, <3>5, FoundLines
  <2>4. cache.data[c] \in Contents
    BY NumbersOf DEF RamInv, HostTypes
  <2> QED BY <2>2, <2>3, <2>4, ContentTypes
<1> QED BY <1>5, <1>6

\* A call keeps the whole invariant.
LEMMA WriteKeeps ==
  ASSUME RamInv, NEW area, WriteBack(area)
  PROVE  RamInv'
<1>1. setup' = setup /\ ProgramUf2(area) /\ area \in unwritten /\ MayWrite(area)
      /\ unwritten' = unwritten \ {area} /\ cache' = cache
  BY WriteEffect DEF WriteBack
<1>2. setup.order = "metadataFirst" => OptionsInv' /\ Uf2Inv' /\ ReadsBack'
  BY <1>1, OptionsKept, Uf2Kept, ReadsKept
<1> QED BY <1>1, <1>2, WriteTypes DEF RamInv

-----------------------------------------------------------------------------
(* What the user does.                                                     *)

\* An edit changes nothing but the copy of the host.
LEMMA EditTypes ==
  ASSUME RamInv, NEW new, NEW areas, Edit(new, areas), areas \subseteq Areas
  PROVE  /\ TypeOK' /\ (err \in [entry : Entries, size : 0..(LogSize - 1)])'
         /\ LogInv' /\ edits \in 0..MaxEdits
         /\ cache' = new /\ unwritten' = unwritten \cup areas
         /\ UNCHANGED <<setup, fat, dir, data, config, dirty, err, programmed>>
<1>1. edits' \in 0..MaxEdits /\ edits \in 0..MaxEdits
  BY DiskAssumption DEF Edit, RamInv, TypeOK
<1>2. /\ cache' = new /\ unwritten' = unwritten \cup areas
      /\ UNCHANGED <<setup, fat, dir, data, config, dirty, err, programmed>>
  BY DEF Edit, device
<1> QED BY <1>1, <1>2 DEF RamInv, TypeOK, LogInv

\* Saving OPTIONS.TXT keeps the invariant.
LEMMA SaveKeeps ==
  ASSUME RamInv, NEW c \in UserClusters, NEW t \in Texts, SaveOptions(t, c)
  PROVE  RamInv'
<1> DEFINE old == cache.dir["OPTIONS"].at
           fat2 == (cache.fat \ {old}) \cup {c}
           dir2 == [cache.dir EXCEPT !["OPTIONS"] = Entry(c, Len(t), "host")]
           data2 == [cache.data EXCEPT ![c] = Text(t)]
<1>1. /\ c = old \/ c \notin cache.fat
      /\ Edit([fat |-> fat2, dir |-> dir2, data |-> data2], {Fat, RootDir, c})
  BY DEF SaveOptions
<1>2. c \in Clusters /\ c # 0 /\ t \in Seq(Lines) /\ Len(t) \in Nat
  BY DiskAssumption, TextsAssumption, NumbersOf, LenProperties DEF Lines
<1>3. {Fat, RootDir, c} \subseteq Areas
  BY <1>2 DEF Areas
<1>4. /\ cache' = [fat |-> fat2, dir |-> dir2, data |-> data2]
      /\ unwritten' = unwritten \cup {Fat, RootDir, c}
      /\ UNCHANGED <<setup, fat, dir, data, config, dirty, err, programmed>>
  BY <1>1, <1>3, EditTypes
<1>5. HostTypes
  BY DEF RamInv
<1>6. Text(t) \in Contents /\ Text(t).lines = t /\ Text(t).is = "text"
  BY <1>2, ContentTypes
<1>7. /\ dir2 \in [Names -> Entries] /\ dir2["OPTIONS"].at = c
      /\ dir2["OPTIONS"].size = Len(t)
      /\ \A n \in Names : n # "OPTIONS" => dir2[n] = cache.dir[n]
  BY <1>2, <1>5 DEF HostTypes, Entries, Entry, Names
<1>8. /\ data2 \in [Clusters -> Contents] /\ data2[c] = Text(t)
      /\ \A x \in Clusters : x # c => data2[x] = cache.data[x]
  BY <1>2, <1>5, <1>6 DEF HostTypes
<1>9. fat2 \subseteq Clusters /\ \A x \in fat2 : x # c => x \in cache.fat /\ x # old
  BY <1>2, <1>5 DEF HostTypes
<1> HIDE DEF dir2, data2
<1>10. cache'.fat = fat2 /\ cache'.dir = dir2 /\ cache'.data = data2
  BY <1>4
<1>11. HostTypes'
  BY <1>4, <1>7, <1>8, <1>9 DEF HostTypes
<1>12. FilesApart'
  <2>1. "OPTIONS" \in Names /\ "LOG" \in Names /\ "LOG" # "OPTIONS"
    BY DEF Names
  <2>2. cache.dir["LOG"].at = 4
    BY DEF RamInv, FilesApart
  <2>3. \A n \in Names : n # "OPTIONS" /\ cache.dir[n].at # 0 =>
          cache.dir[n].at \in cache.fat /\ cache.dir[n].at # old /\ cache.dir[n].at # c
    BY <1>1, <2>1 DEF RamInv, FilesApart
  <2>4. \A n \in Names : dir2[n].at # 0 => dir2[n].at \in fat2
    BY <1>7, <2>3
  <2>5. \A m, n \in Names : m # n /\ dir2[m].at # 0 => dir2[m].at # dir2[n].at
    BY <1>2, <1>7, <2>3 DEF RamInv, FilesApart
  <2>6. ASSUME NEW x \in fat2, data2[x].is = "uf2", NEW n \in Names PROVE dir2[n].at # x
    <3>1. x # c
      BY <1>6, <1>8, <2>6
    <3>2. x \in cache.fat /\ cache.data[x].is = "uf2"
      BY <1>8, <1>9, <2>6, <3>1
    <3> QED BY <1>7, <3>1, <3>2 DEF RamInv, FilesApart
  <2> QED BY <1>6, <1>7, <1>8, <1>10, <2>1, <2>2, <2>4, <2>5, <2>6 DEF FilesApart, OptionsAt
<1>13. InStep'
  BY <1>4 DEF RamInv, InStep
<1>14. ASSUME setup.order = "metadataFirst" PROVE OptionsInv' /\ Uf2Inv' /\ ReadsBack'
  <2>1. OptionsInv'
    BY <1>4, <1>7, <1>10 DEF OptionsInv, OptionsAt
  <2>2. Uf2Inv'
    <3> SUFFICES ASSUME NEW x \in fat2, data2[x].is = "uf2"
                 PROVE  x \in unwritten' \/ data2[x].id \in programmed'
      BY <1>10 DEF Uf2Inv
    <3>1. CASE x = c
      BY <1>4, <3>1
    <3>2. CASE x # c
      BY <1>4, <1>8, <1>9, <1>14, <3>2 DEF RamInv, Uf2Inv
    <3> QED BY <3>1, <3>2
  <2>3. ReadsBack'
    <3>1. dir2["LOG"] = cache.dir["LOG"]
      BY <1>7 DEF Names
    <3> SUFFICES ASSUME setup.level = 1 \/ setup.width = 12,
                        NEW x \in (fat2 \cap RealClusters) \ unwritten',
                        x # 4, setup.width = 16 \/ x # 4 + 1
                 PROVE  data[x] = data2[x]
      BY <1>4, <1>10, <3>1 DEF ReadsBack, Read10, RamInv, FilesApart
    <3>2. x # c /\ x \in (cache.fat \cap RealClusters) \ unwritten
      BY <1>4, <1>9
    <3>3. data2[x] = cache.data[x]
      BY <1>8, <1>9, <3>2
    <3>4. Read10(x) = cache.data[x]
      BY <1>14, <3>2 DEF RamInv, ReadsBack, FilesApart
    <3> QED BY <3>2, <3>3, <3>4 DEF Read10
  <2> QED BY <2>1, <2>2, <2>3
<1> QED BY <1>1, <1>3, <1>4, <1>11, <1>12, <1>13, <1>14, EditTypes DEF RamInv

\* So does deleting a file.
LEMMA DeleteKeeps ==
  ASSUME RamInv, NEW name \in {"README", "OPTIONS"}, DeleteFile(name)
  PROVE  RamInv'
<1> DEFINE old == cache.dir[name].at
           fat2 == cache.fat \ {old}
           dir2 == [cache.dir EXCEPT ![name] = Absent]
<1>0. cache = [fat |-> cache.fat, dir |-> cache.dir, data |-> cache.data]
  BY DEF RamInv, HostTypes
<1>1. old # 0 /\ Edit([fat |-> fat2, dir |-> dir2, data |-> cache.data], {Fat, RootDir})
  <2> DEFINE new == [cache EXCEPT !.fat = @ \ {cache.dir[name].at}, !.dir[name] = Absent]
  <2> DEFINE fewer == [cache EXCEPT !.fat = fat2]
  <2>3. fewer = [fat |-> fat2, dir |-> cache.dir, data |-> cache.data]
    BY <1>0
  <2>1. new = [fat |-> fat2, dir |-> dir2, data |-> cache.data]
    <3>1. new = [fewer EXCEPT !.dir = [fewer.dir EXCEPT ![name] = Absent]]
      OBVIOUS
    <3> HIDE DEF new, fewer, fat2
    <3> QED BY <2>3, <3>1
  <2>2. old # 0 /\ Edit(new, {Fat, RootDir})
    BY DEF DeleteFile
  <2> HIDE DEF new
  <2> QED BY <2>1, <2>2
<1>2. {Fat, RootDir} \subseteq Areas /\ name \in Names /\ name # "LOG"
  BY DEF Areas, Names
<1>3. /\ cache' = [fat |-> fat2, dir |-> dir2, data |-> cache.data]
      /\ unwritten' = unwritten \cup {Fat, RootDir}
      /\ UNCHANGED <<setup, fat, dir, data, config, dirty, err, programmed>>
  BY <1>1, <1>2, EditTypes
<1>4. Absent \in Entries /\ Absent.at = 0
  BY DEF Absent, Entry, Entries
<1>5. /\ dir2 \in [Names -> Entries] /\ dir2[name].at = 0
      /\ \A n \in Names : n # name => dir2[n] = cache.dir[n]
  BY <1>2, <1>4 DEF RamInv, HostTypes
<1> HIDE DEF dir2
<1>6. cache'.fat = fat2 /\ cache'.dir = dir2 /\ cache'.data = cache.data
  BY <1>3
<1>7. HostTypes'
  BY <1>3, <1>5 DEF RamInv, HostTypes
<1>8. FilesApart'
  <2>1. \A n \in Names : dir2[n].at # 0 => n # name /\ dir2[n] = cache.dir[n]
    BY <1>5
  <2>2. \A n \in Names : dir2[n].at # 0 => dir2[n].at \in fat2
    BY <1>2, <2>1 DEF RamInv, FilesApart
  <2>3. \A m, n \in Names : m # n /\ dir2[m].at # 0 => dir2[m].at # dir2[n].at
    BY <1>5, <2>1 DEF RamInv, FilesApart
  <2>4. ASSUME NEW x \in fat2, cache.data[x].is = "uf2", NEW n \in Names PROVE dir2[n].at # x
    <3>1. x # 0
      BY <2>4, NumbersOf DEF RamInv, HostTypes
    <3> QED BY <1>5, <2>1, <2>4, <3>1 DEF RamInv, FilesApart
  <2>5. "OPTIONS" \in Names /\ "LOG" \in Names
    BY DEF Names
  <2>6. dir2["LOG"].at = 4
    BY <1>2, <1>5, <2>5 DEF RamInv, FilesApart
  <2>7. dir2["OPTIONS"].at # 0 =>
          dir2["OPTIONS"].size = Len(cache.data[dir2["OPTIONS"].at].lines)
    BY <2>1, <2>5 DEF RamInv, FilesApart, OptionsAt
  <2> QED BY <1>6, <2>2, <2>3, <2>4, <2>6, <2>7 DEF FilesApart, OptionsAt
<1>9. InStep'
  BY <1>3 DEF RamInv, InStep
<1>10. ASSUME setup.order = "metadataFirst" PROVE OptionsInv' /\ Uf2Inv' /\ ReadsBack'
  <2>1. OptionsInv'
    <3>1. dir2["OPTIONS"].at \in Clusters => dir2["OPTIONS"] = cache.dir["OPTIONS"]
      BY <1>5, NumbersOf DEF Names
    <3> QED BY <1>3, <1>6, <1>10, <3>1 DEF RamInv, OptionsInv, OptionsAt
  <2>2. Uf2Inv'
    BY <1>3, <1>6, <1>10 DEF RamInv, Uf2Inv
  <2>3. ReadsBack'
    <3>1. dir2["LOG"] = cache.dir["LOG"]
      BY <1>2, <1>5 DEF Names
    <3> SUFFICES ASSUME setup.level = 1 \/ setup.width = 12,
                        NEW x \in (fat2 \cap RealClusters) \ unwritten',
                        x # 4, setup.width = 16 \/ x # 4 + 1
                 PROVE  data[x] = cache.data[x]
      BY <1>3, <1>6, <3>1 DEF ReadsBack, Read10, RamInv, FilesApart
    <3>2. x \in (cache.fat \cap RealClusters) \ unwritten
      BY <1>3
    <3>3. Read10(x) = cache.data[x]
      BY <1>10, <3>2 DEF RamInv, ReadsBack, FilesApart
    <3> QED BY <3>2, <3>3 DEF Read10
  <2> QED BY <2>1, <2>2, <2>3
<1> QED BY <1>1, <1>2, <1>3, <1>7, <1>8, <1>9, <1>10, EditTypes DEF RamInv

\* So does copying a UF2 file.
LEMMA CopyKeeps ==
  ASSUME RamInv, NEW c \in UserClusters, CopyUf2(c)
  PROVE  RamInv'
<1> DEFINE fat2 == cache.fat \cup {c}
           data2 == [cache.data EXCEPT ![c] = Uf2(edits)]
<1>0. cache = [fat |-> cache.fat, dir |-> cache.dir, data |-> cache.data]
  BY DEF RamInv, HostTypes
<1>1. c \notin cache.fat /\ Edit([fat |-> fat2, dir |-> cache.dir, data |-> data2],
                                 {Fat, RootDir, c})
  <2> DEFINE new == [cache EXCEPT !.fat = @ \cup {c}, !.data[c] = Uf2(edits)]
  <2> DEFINE more == [cache EXCEPT !.fat = fat2]
  <2>3. more = [fat |-> fat2, dir |-> cache.dir, data |-> cache.data]
    <3> HIDE DEF fat2
    <3> QED BY <1>0
  <2>1. new = [fat |-> fat2, dir |-> cache.dir, data |-> data2]
    <3>1. new = [more EXCEPT !.data = [more.data EXCEPT ![c] = Uf2(edits)]]
      OBVIOUS
    <3> HIDE DEF new, more, fat2
    <3> QED BY <2>3, <3>1
  <2>2. c \notin cache.fat /\ Edit(new, {Fat, RootDir, c})
    BY DEF CopyUf2
  <2> HIDE DEF new
  <2> QED BY <2>1, <2>2
<1>2. c \in Clusters /\ {Fat, RootDir, c} \subseteq Areas
  BY DiskAssumption DEF Areas
<1>3. /\ cache' = [fat |-> fat2, dir |-> cache.dir, data |-> data2]
      /\ unwritten' = unwritten \cup {Fat, RootDir, c}
      /\ UNCHANGED <<setup, fat, dir, data, config, dirty, err, programmed>>
      /\ edits \in 0..MaxEdits
  BY <1>1, <1>2, EditTypes
<1>4. /\ data2 \in [Clusters -> Contents]
      /\ \A x \in Clusters : x # c => data2[x] = cache.data[x]
  BY <1>2, <1>3, ContentTypes DEF RamInv, HostTypes
<1> HIDE DEF data2
<1>5. cache'.fat = fat2 /\ cache'.dir = cache.dir /\ cache'.data = data2
  BY <1>3
<1>6. HostTypes'
  BY <1>2, <1>3, <1>4 DEF RamInv, HostTypes
<1>7. \A n \in Names : cache.dir[n].at # c
  <2>1. c # 0
    BY <1>2, NumbersOf
  <2> QED BY <1>1, <2>1 DEF RamInv, FilesApart
<1>8. FilesApart'
  <2>1. "OPTIONS" \in Names
    BY DEF Names
  <2>2. \A x \in fat2 : data2[x].is = "uf2" => \A n \in Names : cache.dir[n].at # x
    BY <1>4, <1>7 DEF RamInv, FilesApart, HostTypes
  <2>3. OptionsAt # 0 => data2[OptionsAt] = cache.data[OptionsAt]
    BY <1>4, <1>7, <2>1 DEF RamInv, HostTypes, Entries, OptionsAt
  <2> QED BY <1>5, <2>2, <2>3 DEF RamInv, FilesApart, OptionsAt
<1>9. InStep'
  BY <1>3 DEF RamInv, InStep
<1>10. ASSUME setup.order = "metadataFirst" PROVE OptionsInv' /\ Uf2Inv' /\ ReadsBack'
  <2>1. OptionsInv'
    <3>1. OptionsAt \in Clusters => data2[OptionsAt] = cache.data[OptionsAt]
      BY <1>4, <1>7 DEF OptionsAt, Names
    <3> QED BY <1>3, <1>5, <1>10, <3>1 DEF RamInv, OptionsInv, OptionsAt
  <2>2. Uf2Inv'
    <3> SUFFICES ASSUME NEW x \in fat2, data2[x].is = "uf2"
                 PROVE  x \in unwritten' \/ data2[x].id \in programmed'
      BY <1>5 DEF Uf2Inv
    <3>1. CASE x = c
      BY <1>3, <3>1
    <3>2. CASE x # c
      BY <1>3, <1>4, <1>10, <3>2 DEF RamInv, Uf2Inv, HostTypes
    <3> QED BY <3>1, <3>2
  <2>3. ReadsBack'
    <3> SUFFICES ASSUME setup.level = 1 \/ setup.width = 12,
                        NEW x \in (fat2 \cap RealClusters) \ unwritten',
                        x # 4, setup.width = 16 \/ x # 4 + 1
                 PROVE  data[x] = data2[x]
      BY <1>3, <1>5 DEF ReadsBack, Read10, RamInv, FilesApart
    <3>1. x # c /\ x \in (cache.fat \cap RealClusters) \ unwritten
      BY <1>3
    <3>2. Read10(x) = cache.data[x]
      BY <1>10, <3>1 DEF RamInv, ReadsBack, FilesApart
    <3> QED BY <1>4, <3>1, <3>2, NumbersOf DEF Read10
  <2> QED BY <2>1, <2>2, <2>3
<1> QED BY <1>1, <1>2, <1>3, <1>6, <1>8, <1>9, <1>10, EditTypes DEF RamInv

\* So does a host that writes an entry of its own for LOG.TXT.
LEMMA TouchKeeps ==
  ASSUME RamInv, TouchLog
  PROVE  RamInv'
<1> DEFINE dir2 == [cache.dir EXCEPT !["LOG"] = [cache.dir["LOG"] EXCEPT !.by = "host"]]
<1>0. cache = [fat |-> cache.fat, dir |-> cache.dir, data |-> cache.data]
  BY DEF RamInv, HostTypes
<1>1. Edit([fat |-> cache.fat, dir |-> dir2, data |-> cache.data], {RootDir})
  <2> DEFINE new == [cache EXCEPT !.dir["LOG"].by = "host"]
  <2>1. new = [fat |-> cache.fat, dir |-> dir2, data |-> cache.data]
    BY <1>0
  <2>2. Edit(new, {RootDir})
    BY DEF TouchLog
  <2> HIDE DEF new
  <2> QED BY <2>1, <2>2
<1>2. {RootDir} \subseteq Areas
  BY DEF Areas
<1>3. /\ cache' = [fat |-> cache.fat, dir |-> dir2, data |-> cache.data]
      /\ unwritten' = unwritten \cup {RootDir}
      /\ UNCHANGED <<setup, fat, dir, data, config, dirty, err, programmed>>
  BY <1>1, <1>2, EditTypes
<1>4. /\ dir2 \in [Names -> Entries]
      /\ \A n \in Names : dir2[n].at = cache.dir[n].at
      /\ dir2["OPTIONS"] = cache.dir["OPTIONS"] /\ "LOG" \in Names
  BY DEF RamInv, HostTypes, Entries, Names
<1> HIDE DEF dir2
<1>5. cache'.fat = cache.fat /\ cache'.dir = dir2 /\ cache'.data = cache.data
  BY <1>3
<1>6. HostTypes'
  BY <1>3, <1>4 DEF RamInv, HostTypes
<1>7. FilesApart'
  BY <1>4, <1>5 DEF RamInv, FilesApart, OptionsAt
<1>8. InStep'
  BY <1>3 DEF RamInv, InStep
<1>9. ASSUME setup.order = "metadataFirst" PROVE OptionsInv' /\ Uf2Inv' /\ ReadsBack'
  <2>1. OptionsInv'
    BY <1>3, <1>4, <1>5, <1>9 DEF RamInv, OptionsInv, OptionsAt
  <2>2. Uf2Inv'
    BY <1>3, <1>5, <1>9 DEF RamInv, Uf2Inv
  <2>3. ReadsBack'
    BY <1>3, <1>4, <1>5, <1>9 DEF RamInv, ReadsBack, Read10
  <2> QED BY <2>1, <2>2, <2>3
<1> QED BY <1>1, <1>2, <1>3, <1>6, <1>7, <1>8, <1>9, EditTypes DEF RamInv

\* So does every step.
LEMMA StepKeeps == RamInv /\ [Next]_vars => RamInv'
<1> SUFFICES ASSUME RamInv, [Next]_vars PROVE RamInv'
  OBVIOUS
<1>1. ASSUME NEW area \in Areas, WriteBack(area) PROVE RamInv'
  BY <1>1, WriteKeeps
<1>2. ASSUME NEW c \in UserClusters, NEW t \in Texts, SaveOptions(t, c) PROVE RamInv'
  BY <1>2, SaveKeeps
<1>3. ASSUME NEW c \in UserClusters, CopyUf2(c) PROVE RamInv'
  BY <1>3, CopyKeeps
<1>4. ASSUME NEW n \in {"README", "OPTIONS"}, DeleteFile(n) PROVE RamInv'
  BY <1>4, DeleteKeeps
<1>5. CASE TouchLog
  BY <1>5, TouchKeeps
<1>6. CASE UNCHANGED vars
  BY <1>6 DEF vars, device, RamInv, TypeOK, HostTypes, FilesApart, InStep, LogInv,
              OptionsInv, Uf2Inv, ReadsBack, Read10, OptionsAt
<1> QED BY <1>1, <1>2, <1>3, <1>4, <1>5, <1>6 DEF Next

-----------------------------------------------------------------------------
(* What main leaves on the disk.                                           *)

\* The default options are a line for each option, in some order.
LEMMA DefaultLines ==
  /\ DefaultText \in Seq(Lines) /\ Len(DefaultText) \in Nat
  /\ Default = Says(DefaultText, Default)
<1> DEFINE line == [o \in Options |-> [option |-> o, value |-> Default[o]]]
           S == {[option |-> o, value |-> Default[o]] : o \in Options}
           n == Cardinality(S)
<1>1. IsFiniteSet(S)
  <2>1. line \in [Options -> S] /\ \A x \in S : \E o \in Options : line[o] = x
    OBVIOUS
  <2>2. line \in Surjection(Options, S)
    BY <2>1 DEF Surjection
  <2> HIDE DEF line, S
  <2> QED BY <2>2, TextsAssumption, FS_Surjection
<1>2. S \subseteq Lines
  BY TextsAssumption DEF Lines
<1>3. \A x, y \in S : x.option = y.option => x = y
  OBVIOUS
<1>4. \A x \in S : x.value = Default[x.option]
  OBVIOUS
<1>5. DefaultText = CHOOSE f \in [1..n -> S] : IsInjective(f)
  BY DEF DefaultText, SetToSeq
<1> HIDE DEF line, S
<1>6. n \in Nat /\ \E f \in [1..n -> S] : IsInjective(f)
  <2>1. n \in Nat /\ ExistsBijection(1..n, S)
    BY <1>1, FS_CardinalityType
  <2> QED BY <2>1 DEF ExistsBijection, Bijection, Injection
<1>7. DefaultText \in [1..n -> S] /\ IsInjective(DefaultText)
  BY <1>5, <1>6
<1> HIDE DEF n
<1>8. DefaultText \in Seq(Lines)
  <2>1. DefaultText \in [1..n -> Lines]
    BY <1>2, <1>7
  <2> QED BY <1>6, <2>1, SeqDef
<1>9. Apply(DefaultText, Default) = Default
  <2> DEFINE at(o) == {i \in DOMAIN DefaultText : DefaultText[i].option = o}
             last(o) == CHOOSE i \in at(o) : \A j \in at(o) : j <= i
  <2>1. ASSUME NEW o \in Options
        PROVE  Apply(DefaultText, Default)[o] = Default[o]
    <3>1. CASE at(o) = {}
      BY <3>1 DEF Apply
    <3>2. CASE at(o) # {}
      <4>1. \A i, j \in at(o) : i = j
        BY <1>3, <1>7 DEF IsInjective
      <4>2. \E i \in at(o) : \A j \in at(o) : j <= i
        BY <1>6, <1>7, <3>2, <4>1
      <4>3. last(o) \in at(o)
        BY <4>2
      <4>4. DefaultText[last(o)] \in S /\ DefaultText[last(o)].option = o
        BY <1>7, <4>3
      <4>5. Apply(DefaultText, Default)[o] = DefaultText[last(o)].value
        BY <3>2 DEF Apply
      <4> QED BY <1>4, <4>4, <4>5
    <3> QED BY <3>1, <3>2
  <2>2. Apply(DefaultText, Default) = [o \in Options |-> Apply(DefaultText, Default)[o]]
    BY DEF Apply
  <2>3. Default = [o \in Options |-> Default[o]]
    BY TextsAssumption
  <2> QED BY <2>1, <2>2, <2>3
<1> QED BY <1>8, <1>9, LenProperties DEF Says

\* The disk that main sets up has it.
LEMMA InitKeeps == Init => RamInv
<1> SUFFICES ASSUME Init PROVE RamInv
  OBVIOUS
<1> DEFINE blank == [err  |-> [entry |-> Absent, size |-> 0],
                     data |-> [c \in RealClusters |->
                                 IF c = 3 THEN Text(DefaultText) ELSE Empty]]
<1>1. /\ setup \in Setups /\ fat = (IF setup.width = 16 THEN 2..4 ELSE 2..6)
      /\ dirty = FALSE /\ config = Default /\ programmed = {} /\ unwritten = {} /\ edits = 0
      /\ cache = [fat |-> fat, dir |-> dir, data |-> [c \in Clusters |-> Read10(c)]]
      /\ dir = [n \in Names |->
                  CASE n = "README"  -> Entry(2, 1, "device")
                    [] n = "OPTIONS" -> Entry(3, Len(DefaultText), "device")
                    [] OTHER         -> Entry(4, LogSize, "device")]
  BY DEF Init
<1>2. PICK lines \in BootLines :
        /\ err = PrintErrFile(blank, dir["LOG"], lines).err
        /\ data = PrintErrFile(blank, dir["LOG"], lines).data
  BY DEF Init
<1>3. /\ dir["README"] = Entry(2, 1, "device") /\ dir["LOG"] = LogEntry
      /\ dir["OPTIONS"] = Entry(3, Len(DefaultText), "device")
      /\ Names = {"README", "OPTIONS", "LOG"}
  BY <1>1 DEF Names, LogEntry
<1>4. /\ LogEntry \in Entries /\ Absent \in Entries /\ LogEntry.at = 4 /\ Absent.at = 0
      /\ dir \in [Names -> Entries]
      /\ \A n \in Names : dir[n].at \in {2, 3, 4}
      /\ dir["README"].at = 2 /\ dir["OPTIONS"].at = 3 /\ dir["LOG"].at = 4
      /\ dir["OPTIONS"].size = Len(DefaultText)
  <2>1. /\ {0, 2, 3, 4} \subseteq {0} \cup Clusters /\ LogSize \in Nat
        /\ Len(DefaultText) \in Nat
    BY NumbersOf, DiskAssumption, DefaultLines
  <2>2. /\ LogEntry \in Entries /\ Absent \in Entries /\ LogEntry.at = 4 /\ Absent.at = 0
    BY <2>1 DEF LogEntry, Absent, Entry, Entries
  <2>3. Entry(2, 1, "device") \in Entries /\ Entry(3, Len(DefaultText), "device") \in Entries
    BY <2>1 DEF Entry, Entries
  <2>4. Entry(2, 1, "device").at = 2 /\ Entry(3, Len(DefaultText), "device").at = 3
        /\ Entry(3, Len(DefaultText), "device").size = Len(DefaultText)
    BY DEF Entry
  <2>5. dir = [n \in Names |-> dir[n]]
    BY <1>1
  <2>6. \A n \in Names : dir[n] \in Entries
    BY <1>3, <2>2, <2>3
  <2>7. dir \in [Names -> Entries]
    BY <2>5, <2>6
  <2> QED BY <1>3, <2>2, <2>4, <2>7
<1>5. /\ blank \in LogState /\ blank.err.entry = Absent
      /\ \A c \in RealClusters :
           blank.data[c] = IF c = 3 THEN Text(DefaultText) ELSE Empty
  <2>1. Text(DefaultText) \in Contents /\ Empty \in Contents
    BY DefaultLines, ContentTypes, PaddingType
  <2>2. 0 \in 0..(LogSize - 1)
    BY DiskAssumption
  <2> QED BY <1>4, <2>1, <2>2 DEF LogState
<1> DEFINE s == PrintErrFile(blank, dir["LOG"], lines)
<1>6. err = s.err /\ data = s.data
  BY <1>2
<1> HIDE DEF blank
<1>7. /\ Logs(s, blank, LogEntry)
      /\ s.err.entry \in {Absent, LogEntry}
      /\ setup.level >= 1 => s.err.entry = LogEntry
  <2>1. CASE setup.level = 0
    <3>1. lines = << >>
      BY <2>1 DEF BootLines
    <3>2. s = blank
      BY <3>1, FoldsNone
    <3> QED BY <1>5, <2>1, <3>2 DEF Logs
  <2>2. CASE setup.level # 0
    <3>1. PICK k \in 1..2 : lines \in [1..k -> 1..MaxLine]
      BY <2>2 DEF BootLines
    <3>2. dir["LOG"] = LogEntry
      BY <1>3
    <3>3. Logs(s, blank, LogEntry) /\ s.err.entry = LogEntry
      <4> HIDE DEF s
      <4>1. s = PrintErrFile(blank, LogEntry, lines)
        BY <3>2 DEF s
      <4>2. /\ Logs(PrintErrFile(blank, LogEntry, lines), blank, LogEntry)
            /\ PrintErrFile(blank, LogEntry, lines).err.entry = LogEntry
        <5>1. LogEntry \in Entries /\ LogEntry.at # 0 /\ blank \in LogState
          BY <1>4, <1>5
        <5> HIDE DEF LogEntry
        <5> QED BY <3>1, <5>1, FileLogs
      <4> QED BY <4>1, <4>2
    <3> QED BY <3>3
  <2> QED BY <2>1, <2>2
<1> HIDE DEF s
<1>8. /\ data \in [RealClusters -> Contents]
      /\ err \in [entry : Entries, size : 0..(LogSize - 1)]
      /\ data[3] = Text(DefaultText)
      /\ \A c \in RealClusters : data[c].is # "uf2"
  <2>1. 4 + 1 = 5 /\ 3 # 5 /\ 3 \in RealClusters
    BY NumbersOf
  <2>2. /\ \A c \in RealClusters : data[c] \in {blank.data[c], Padding}
        /\ \A c \in RealClusters : c # 5 => data[c] = blank.data[c]
    BY <1>4, <1>6, <1>7, <2>1 DEF Logs
  <2>3. Text(DefaultText).is # "uf2" /\ Empty.is # "uf2" /\ Padding.is # "uf2"
    BY DEF Text, Empty, Padding, Content
  <2> QED BY <1>5, <1>6, <1>7, <2>1, <2>2, <2>3 DEF Logs, LogState
<1>9. /\ cache.fat = fat /\ cache.dir = dir
      /\ \A c \in Clusters : cache.data[c] = Read10(c)
      /\ cache.data \in [Clusters -> Contents]
  <2>1. \A c \in Clusters : Read10(c) \in Contents
    BY <1>8, PaddingType DEF Read10
  <2> QED BY <1>1, <2>1
<1>10. fat \subseteq Clusters /\ {2, 3, 4} \subseteq fat
  BY <1>1, NumbersOf
<1>11. TypeOK
  <2>1. err.entry.at \in {0} \cup Clusters /\ err.size \in 0..(LogSize - 1)
    BY <1>8 DEF Entries
  <2>2. config \in [Options -> Values]
    BY <1>1, TextsAssumption
  <2>3. dir \in [Names -> [at : {0} \cup Clusters, size : Nat, by : {"device", "host"}]]
    BY <1>4 DEF Entries
  <2>4. edits \in 0..MaxEdits /\ programmed \subseteq 0..MaxEdits /\ unwritten \subseteq Areas
    BY <1>1, DiskAssumption
  <2> QED BY <1>1, <1>8, <1>10, <2>1, <2>2, <2>3, <2>4 DEF TypeOK
<1>12. HostTypes
  BY <1>1, <1>4, <1>9, <1>10 DEF HostTypes
<1>13. cache.data[3] = Text(DefaultText) /\ cache.data[3].lines = DefaultText
  BY <1>8, <1>9, NumbersOf, ContentTypes, DefaultLines DEF Read10
<1>14. \A c \in Clusters : cache.data[c].is # "uf2"
  <2>1. Empty.is # "uf2"
    BY DEF Empty, Content
  <2> QED BY <1>8, <1>9, <2>1 DEF Read10
<1>15. FilesApart
  <2>1. \A m, n \in Names : m # n => dir[m].at # dir[n].at
    BY <1>3, <1>4
  <2>2. \A n \in Names : dir[n].at \in fat
    BY <1>4, <1>10
  <2> QED BY <1>4, <1>9, <1>10, <1>13, <1>14, <2>1, <2>2 DEF FilesApart, OptionsAt
<1>16. InStep /\ LogInv
  BY <1>1, <1>3, <1>4, <1>6, <1>7, <1>9 DEF InStep, LogInv
<1>17. OptionsInv /\ Uf2Inv /\ ReadsBack
  <2>1. OptionsAt = 3
    BY <1>4, <1>9 DEF OptionsAt
  <2>2. OptionsInv
    BY <1>1, <1>9, <1>13, <2>1, DefaultLines DEF OptionsInv
  <2> QED BY <1>9, <1>10, <1>14, <2>2, NumbersOf DEF Uf2Inv, ReadsBack
<1> QED BY <1>8, <1>11, <1>12, <1>15, <1>16, <1>17 DEF RamInv

\* The invariant of the disk, from which the theorems below follow.
LEMMA RamInvariant == Spec => []RamInv
BY InitKeeps, StepKeeps, PTL DEF Spec

-----------------------------------------------------------------------------
(* The theorems. *)

\* TypeOK: whatever the host writes, and in whatever order, the disk holds what
\* msc_disk.c:362-423 and error.c:15-39 can leave in it: the log stays within
\* ERR_FILE_SIZE, the directory names clusters, and every file of options that
\* the parser leaves is made of lines.
THEOREM DiskTyped == Spec => []TypeOK
<1>1. RamInv => TypeOK
  BY DEF RamInv
<1> QED BY <1>1, RamInvariant, PTL

\* LogEntryKept: if every build logs at least its critical lines, the first line
\* main prints gives err_file_entry its value, and write_file_info puts it back
\* in the directory (fat_util.c:209-225) with every write of the host.  Without
\* the hypothesis the run of the default build violates it.
THEOREM LogKept == (\A x \in Setups : x.level >= 1) => (Spec => []LogEntryKept)
<1> SUFFICES ASSUME \A x \in Setups : x.level >= 1 PROVE Spec => []LogEntryKept
  OBVIOUS
<1>1. RamInv => LogEntryKept
  BY DEF RamInv, TypeOK, LogInv, LogEntry, LogEntryKept
<1> QED BY <1>1, RamInvariant, PTL

\* ConfigWhole: the loop of parse_config (config.c:123-160) stores each option as
\* it reads its line and may fail at a later one.  For every host, order of writes
\* and text, CONFIG nevertheless becomes the defaults (msc_disk.c:407-409) or takes
\* every line of the file in RAM, as the terminator has left it; and that is the
\* whole file of the user if the host has written the directory first and CONFIG
\* was not dirty.
THEOREM ConfigNeverHalf == Spec => ConfigWhole
<1> DEFINE file == dir'["OPTIONS"]
           Taken(t) ==
             /\ Valid(t) /\ config' = Apply(t, config)
             /\ setup.order = "metadataFirst" /\ ~ dirty => t = cache.data[file.at].lines
           Whole ==
             config' # config /\ dir'["OPTIONS"].at \in RealClusters =>
               \/ config' = Default
               \/ LET at == dir'["OPTIONS"].at
                      t  == data'[at].lines
                  IN  /\ Valid(t) /\ config' = Apply(t, config)
                      /\ setup.order = "metadataFirst" /\ ~ dirty =>
                           t = cache.data[at].lines
<1>0. Whole <=> (config' # config /\ file.at \in RealClusters =>
                   config' = Default \/ Taken(data'[file.at].lines))
  OBVIOUS
<1> HIDE DEF Whole
<1>1. ASSUME RamInv, Next PROVE Whole
  <2>1. ASSUME NEW area, WriteBack(area) PROVE Whole
    <3>1. Write10(area) /\ MayWrite(area)
      BY <2>1 DEF WriteBack
    <3>2. CASE Parses(area)
      <4>1. PICK w, t : Parsed(area, w, t)
        BY <1>1, <3>1, <3>2, WriteEffect
      <4>2. config' = IF Valid(t) THEN Apply(t, config) ELSE Default
        BY <4>1 DEF Parsed, WholeOrDefault
      <4>3. Valid(t) /\ file.at \in RealClusters => data'[file.at].lines = t
        BY <4>1 DEF Parsed
      <4>4. ASSUME Valid(t), file.at \in RealClusters, setup.order = "metadataFirst", ~ dirty
            PROVE  t = cache.data[file.at].lines
        <5>1. TouchesOptions(area) /\ area \in Areas
          BY <1>1, <3>1, <3>2, <4>4, WriteEffect DEF Parses
        <5>2. area \in Clusters /\ area = dir["OPTIONS"].at
          BY <1>1, <5>1, Touching
        <5>3. dir["OPTIONS"] = cache.dir["OPTIONS"]
          BY <1>1, <3>1, <4>4, <5>2, MetadataFirst
        <5>4. "OPTIONS" \in Names \ {"LOG"} /\ area # RootDir
          BY <5>2, NumbersOf DEF Names
        <5>5. file = cache.dir["OPTIONS"] /\ file \in Entries /\ file.at = area
          BY <1>1, <3>1, <5>2, <5>3, <5>4, WriteEffect DEF Dir10
        <5>6. file.at # 0 /\ OptionsAt = file.at
          BY <5>2, <5>5, NumbersOf DEF OptionsAt
        <5>7. file.size = Len(cache.data[file.at].lines)
          BY <1>1, <5>5, <5>6 DEF RamInv, FilesApart
        <5>8. w \in LogState /\ w.data[file.at] = cache.data[file.at] /\ t \in Found(file, w)
          BY <4>1, <4>4, <5>5 DEF Parsed
        <5> HIDE DEF file
        <5> QED BY <4>4, <5>5, <5>7, <5>8, FoundLines, NoFileInvalid
      <4> HIDE DEF file
      <4> QED BY <1>0, <4>2, <4>3, <4>4
    <3>3. CASE ~ Parses(area)
      BY <1>0, <1>1, <3>1, <3>3, WriteEffect
    <3> QED BY <3>2, <3>3
  <2>2. ASSUME NEW new, NEW areas, Edit(new, areas) PROVE config' = config
    BY <2>2 DEF Edit, device
  <2> HIDE DEF Taken, file
  <2> QED BY <1>0, <1>1, <2>1, <2>2 DEF Next, SaveOptions, CopyUf2, DeleteFile, TouchLog
<1>2. RamInv /\ [Next]_vars => [Whole]_vars
  BY <1>1
<1>3. Spec => [][Whole]_vars
  BY <1>2, RamInvariant, PTL DEF Spec
<1> QED BY <1>3 DEF ConfigWhole, Whole

\* ConfigCurrent: for a host that writes FAT and directory first, once everything
\* it has changed is written CONFIG says what OPTIONS.TXT says, wherever the file
\* is in RAM if the FAT has entries of 16 bits, and in its first cluster otherwise
\* (msc_disk.c:335-360, 402-421, fat_util.c:243-251).
THEOREM OptionsTaken == Spec => []ConfigCurrent
<1>1. RamInv => ConfigCurrent
  <2> SUFFICES ASSUME RamInv, setup.order = "metadataFirst", Written,
                      OptionsAt \in RealClusters, setup.width = 16 \/ OptionsAt = 3
               PROVE  config = Says(cache.data[OptionsAt].lines, config)
    BY DEF ConfigCurrent, ConfigApplied, OptionsAt
  <2>1. OptionsAt \in Clusters \ unwritten
    BY NumbersOf DEF Written
  <2> QED BY <2>1 DEF RamInv, OptionsInv
<1> QED BY <1>1, RamInvariant, PTL

\* Uf2Programmed: for such a host, no cluster of a UF2 file is taken for one of a
\* file of the firmware when it is written, and so each one is given to the
\* programmer (msc_disk.c:335-360, 366-385).
THEOREM Uf2Given == Spec => []Uf2Programmed
<1>1. RamInv => Uf2Programmed
  BY DEF RamInv, HostTypes, Uf2Inv, Uf2Programmed, Written
<1> QED BY <1>1, RamInvariant, PTL

\* ReadsBack: for such a host, a cluster it has written and reads again is as it
\* wrote it, although the parser writes into the text of OPTIONS.TXT
\* (config.c:102-121) and the log into the RAM behind it (error.c:15-39).
THEOREM FilesReadBack == Spec => []ReadsBack
<1>1. RamInv => ReadsBack
  BY DEF RamInv, ReadsBack
<1> QED BY <1>1, RamInvariant, PTL

=============================================================================
