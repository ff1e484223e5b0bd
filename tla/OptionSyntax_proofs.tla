------------------------- MODULE OptionSyntax_proofs -------------------------
(***************************************************************************)
(* That parse_config stores the numbers it has checked, and that a file of *)
(* plain lines, wherever its end is cut off, is rejected or read up to the *)
(* end of a line: for lines of any symbols and length.                     *)
(*                                                                         *)
(* The invariant (ReadAsSaid) says how far the parser has come: it has     *)
(* read some lines whole, is behind the name of the last of them, and      *)
(* there is no other name in front of the next line.                       *)
(***************************************************************************)
EXTENDS OptionSyntax, Folding, SequenceTheorems

-----------------------------------------------------------------------------
(* Positions in the text.                                                  *)

\* strchr and strpbrk stop at the first symbol they look for, or at the terminator.
LEMMA FirstInType ==
  ASSUME Len(text) \in Nat, NEW set, NEW p \in 1..(Len(text) + 1)
  PROVE  /\ FirstIn(set, p) \in p..(Len(text) + 1)
         /\ FirstIn(set, p) = Len(text) + 1 \/ text[FirstIn(set, p)] \in set
         /\ \A r \in p..(FirstIn(set, p) - 1) : text[r] \notin set
<1> DEFINE n == Len(text) + 1
           T == {q \in p..n : q = n \/ text[q] \in set}
<1>1. n \in Nat /\ p \in Nat /\ n \in T /\ T \in SUBSET Nat
  OBVIOUS
<1>2. PICK q \in T : \A r \in T : q <= r
  <2> HIDE DEF T
  <2> QED BY <1>1, Smallest
<1>3. q \in p..n /\ (q = n \/ text[q] \in set) /\ \A r \in p..(q - 1) : text[r] \notin set
  BY <1>1, <1>2
<1> QED BY <1>3 DEF FirstIn

\* There is only one such position.
LEMMA FirstIs ==
  ASSUME Len(text) \in Nat, NEW set, NEW p \in 1..(Len(text) + 1),
         NEW q \in p..(Len(text) + 1),
         q = Len(text) + 1 \/ text[q] \in set,
         \A r \in p..(q - 1) : text[r] \notin set
  PROVE  FirstIn(set, p) = q
<1> DEFINE f == FirstIn(set, p)
<1>1. f \in p..(Len(text) + 1) /\ (f = Len(text) + 1 \/ text[f] \in set)
      /\ \A r \in p..(f - 1) : text[r] \notin set
  BY FirstInType
<1> HIDE DEF f
<1>2. ~ (f < q)
  <2>1. f < q => f \in p..(q - 1) /\ f # Len(text) + 1
    BY <1>1
  <2> QED BY <1>1, <2>1
<1>3. ~ (q < f)
  <2>1. q < f => q \in p..(f - 1) /\ q # Len(text) + 1
    BY <1>1
  <2> QED BY <1>1, <2>1
<1> QED BY <1>1, <1>2, <1>3 DEF f

\* Its symbols have positions.
Readable == text \in Seq(Symbols) /\ Len(text) \in Nat /\ DOMAIN text = 1..Len(text)

\* The position behind a run of symbols of a set.
LEMMA SkipType ==
  ASSUME Readable, NEW set, NEW p \in 1..(Len(text) + 1)
  PROVE  /\ Skip(set, p) \in p..(Len(text) + 1)
         /\ Skip(set, p) = Len(text) + 1 \/ text[Skip(set, p)] \notin set
         /\ \A r \in p..(Skip(set, p) - 1) : text[r] \in set
<1> DEFINE rest == (Symbols \cup {Nul}) \ set
           f == FirstIn(rest, p)
<1>1. f \in p..(Len(text) + 1) /\ (f = Len(text) + 1 \/ text[f] \in rest)
      /\ \A r \in p..(f - 1) : text[r] \notin rest
  BY FirstInType DEF Readable
<1>2. \A r \in p..(f - 1) : text[r] \in Symbols
  <2> HIDE DEF f
  <2>1. \A r \in p..(f - 1) : r \in 1..Len(text)
    BY <1>1 DEF Readable
  <2> QED BY <2>1 DEF Readable
<1> HIDE DEF f
<1>3. f \in p..(Len(text) + 1) /\ (f = Len(text) + 1 \/ text[f] \notin set)
      /\ \A r \in p..(f - 1) : text[r] \in set
  BY <1>1, <1>2
<1> QED BY <1>3 DEF f, Skip

\* There is only one such position.
LEMMA SkipIs ==
  ASSUME Readable, NEW set, NEW p \in 1..(Len(text) + 1), NEW q \in p..(Len(text) + 1),
         q = Len(text) + 1 \/ text[q] \notin set,
         \A r \in p..(q - 1) : text[r] \in set
  PROVE  Skip(set, p) = q
<1> DEFINE rest == (Symbols \cup {Nul}) \ set
<1>1. q = Len(text) + 1 \/ text[q] \in rest
  <2>1. q # Len(text) + 1 => q \in 1..Len(text)
    BY DEF Readable
  <2> QED BY <2>1 DEF Readable
<1>2. \A r \in p..(q - 1) : text[r] \notin rest
  OBVIOUS
<1> HIDE DEF rest
<1>3. FirstIn(rest, p) = q
  BY <1>1, <1>2, FirstIs DEF Readable
<1> QED BY <1>3 DEF Skip, rest

\* What is at a position.
LEMMA AtText ==
  ASSUME Readable, NEW p \in Int
  PROVE  /\ p \in 1..Len(text) => At(p) = text[p] /\ At(p) \in Symbols
         /\ p \notin 1..Len(text) => At(p) = Nul
  BY DEF Readable, At

\* The terminator is no symbol of the text.
LEMMA NulApart == Nul \notin Symbols
  BY DEF Nul, Symbols, Names, Digits, Blank, Ends, Other

\* The same symbols in two places make the same sequence.
LEMMA SameSlice ==
  ASSUME NEW s, NEW t, NEW m \in Int, NEW n \in Int, NEW o \in Int,
         \A i \in m..n : t[o + i] = s[i]
  PROVE  SubSeq(t, o + m, o + n) = SubSeq(s, m, n)
<1> DEFINE S == {s[i] : i \in m..n}
           u == SubSeq(s, m, n)
           v == SubSeq(t, o + m, o + n)
<1>1. u \in Seq(S) /\ Len(u) = (IF m <= n THEN n - m + 1 ELSE 0)
      /\ \A i \in 1..(n - m + 1) : u[i] = s[m + i - 1]
  BY SubSeqProperties
<1>2. \A j \in (o + m)..(o + n) : t[j] \in S
  <2> SUFFICES ASSUME NEW j \in (o + m)..(o + n) PROVE t[j] \in S
    OBVIOUS
  <2>1. j - o \in m..n /\ o + (j - o) = j
    OBVIOUS
  <2> QED BY <2>1
<1>3. o + m \in Int /\ o + n \in Int
  OBVIOUS
<1>4. v \in Seq(S) /\ Len(v) = (IF o + m <= o + n THEN (o + n) - (o + m) + 1 ELSE 0)
      /\ \A i \in 1..((o + n) - (o + m) + 1) : v[i] = t[(o + m) + i - 1]
  <2> HIDE DEF S
  <2> QED BY <1>2, <1>3, SubSeqProperties
<1> HIDE DEF u, v, S
<1>5. Len(u) = Len(v) /\ Len(u) \in Nat
  BY <1>1, <1>4
<1>6. \A i \in 1..Len(u) : u[i] = v[i]
  <2> SUFFICES ASSUME NEW i \in 1..Len(u) PROVE u[i] = v[i]
    OBVIOUS
  <2>1. i \in 1..(n - m + 1) /\ i \in 1..((o + n) - (o + m) + 1)
        /\ m + i - 1 \in m..n /\ (o + m) + i - 1 = o + (m + i - 1)
    BY <1>1
  <2>2. u[i] = s[m + i - 1] /\ v[i] = t[(o + m) + i - 1]
    BY <1>1, <1>4, <2>1
  <2> QED BY <2>1, <2>2
<1>7. u = v
  <2>1. u \in Seq(S) /\ v \in Seq(S)
    BY <1>1, <1>4
  <2> QED BY <1>5, <1>6, <2>1
<1> QED BY <1>7 DEF u, v

-----------------------------------------------------------------------------
(* Numbers.                                                                *)

\* Every digit has a value.
LEMMA DigitValue == \A d \in Digits : Value[d] \in Nat
  BY DEF Value, Digits

\* Digits are a number, in every base.
LEMMA InBaseType == \A base \in Nat, s \in Seq(Digits) : InBase(s, base) \in Nat
<1> SUFFICES ASSUME NEW base \in Nat, NEW s \in Seq(Digits) PROVE InBase(s, base) \in Nat
  OBVIOUS
<1> DEFINE n == Len(s)
           S == 1..n
           pick == [u \in SUBSET S |-> Max(u)]
           step == [i \in S |-> [v \in Nat |-> v * base + Value[s[i]]]]
           Solves(g) == g = [u \in SUBSET S |-> IF u = {} THEN 0
                               ELSE LET x == Max(u) IN g[u \ {x}] * base + Value[s[x]]]
           fold == CHOOSE g : Solves(g)
<1>1. n \in Nat /\ DOMAIN s = S /\ IsFiniteSet(S) /\ s \in [S -> Digits]
  BY FS_Interval
<1>2. \A i \in S : Value[s[i]] \in Nat
  BY <1>1, DigitValue
<1>3. \A v, w, x \in Nat : v * w + x \in Nat
  OBVIOUS
<1>4. step \in [S -> [Nat -> Nat]]
  <2> HIDE DEF S
  <2> QED BY <1>2, <1>3
<1>5. Picks(pick, S)
  BY <1>1, Maxima DEF Picks
<1>6. PICK g \in [SUBSET S -> Nat] : Recursive(g, S, 0, pick, step)
  <2>1. 0 \in Nat
    OBVIOUS
  <2> HIDE DEF pick, step, S
  <2> QED BY <1>1, <1>4, <1>5, <2>1, Recursion
<1>7. Solves(g)
  <2>1. ASSUME NEW u \in SUBSET S, u # {}
        PROVE  step[pick[u]][g[u \ {pick[u]}]] = g[u \ {Max(u)}] * base + Value[s[Max(u)]]
    <3>1. pick[u] = Max(u) /\ Max(u) \in S /\ g[u \ {Max(u)}] \in Nat
      BY <1>5, <1>6, <2>1 DEF Picks
    <3> HIDE DEF pick
    <3> QED BY <3>1
  <2>2. \A u \in SUBSET S : g[u] = IF u = {} THEN 0 ELSE g[u \ {Max(u)}] * base + Value[s[Max(u)]]
    <3> HIDE DEF step, pick
    <3> QED BY <1>6, <2>1 DEF Recursive
  <2> QED BY <1>6, <2>2
<1>8. Solves(fold)
  BY <1>7
<1>9. InBase(s, base) = fold[S]
  BY <1>1 DEF InBase, FoldLeft, MapThenFoldSet
<1> DEFINE P == {u \in 0..n : fold[1..u] \in Nat}
<1> HIDE DEF fold
<1>10. fold[{}] = 0
  BY <1>8
<1>11. ASSUME NEW k \in 1..n PROVE fold[1..k] = fold[1..(k - 1)] * base + Value[s[k]]
  <2>1. 1..k \in SUBSET S /\ 1..k # {} /\ Max(1..k) = k /\ (1..k) \ {k} = 1..(k - 1)
    BY <1>1, Maxima
  <2>2. fold[1..k] = fold[(1..k) \ {Max(1..k)}] * base + Value[s[Max(1..k)]]
    BY <1>8, <2>1
  <2> QED BY <2>1, <2>2
<1>12. 0..n \subseteq P
  <2>1. 0 \in P
    <3>1. 1..0 = {}
      OBVIOUS
    <3> QED BY <1>1, <1>10, <3>1
  <2>2. ASSUME NEW k \in 0..(n - 1), k \in P PROVE k + 1 \in P
    <3>1. k + 1 \in 1..n /\ (k + 1) - 1 = k /\ k + 1 \in 0..n
      BY <1>1
    <3>2. fold[1..(k + 1)] = fold[1..k] * base + Value[s[k + 1]] /\ Value[s[k + 1]] \in Nat
      BY <1>2, <1>11, <3>1
    <3> QED BY <1>3, <2>2, <3>1, <3>2
  <2> HIDE DEF P
  <2> QED BY <1>1, <2>1, <2>2, CountUp
<1> QED BY <1>1, <1>9, <1>12

\* A text has a number of characters.
LEMMA BytesType == \A s \in Seq(Symbols) : Bytes(s) \in Nat
<1> SUFFICES ASSUME NEW s \in Seq(Symbols) PROVE Bytes(s) \in Nat
  OBVIOUS
<1> DEFINE n == Len(s)
           S == 1..n
           pick == [u \in SUBSET S |-> Max(u)]
           step == [i \in S |-> [v \in Nat |-> v + Width(s[i])]]
           Solves(g) == g = [u \in SUBSET S |-> IF u = {} THEN 0
                               ELSE LET x == Max(u) IN g[u \ {x}] + Width(s[x])]
           fold == CHOOSE g : Solves(g)
<1>1. n \in Nat /\ DOMAIN s = S /\ IsFiniteSet(S) /\ s \in [S -> Symbols]
  BY FS_Interval
<1>2. \A i \in S : Width(s[i]) \in Nat
  BY DEF Width
<1>3. \A v, x \in Nat : v + x \in Nat
  OBVIOUS
<1>4. step \in [S -> [Nat -> Nat]]
  <2> HIDE DEF S
  <2> QED BY <1>2, <1>3
<1>5. Picks(pick, S)
  BY <1>1, Maxima DEF Picks
<1>6. PICK g \in [SUBSET S -> Nat] : Recursive(g, S, 0, pick, step)
  <2>1. 0 \in Nat
    OBVIOUS
  <2> HIDE DEF pick, step, S
  <2> QED BY <1>1, <1>4, <1>5, <2>1, Recursion
<1>7. Solves(g)
  <2>1. ASSUME NEW u \in SUBSET S, u # {}
        PROVE  step[pick[u]][g[u \ {pick[u]}]] = g[u \ {Max(u)}] + Width(s[Max(u)])
    <3>1. pick[u] = Max(u) /\ Max(u) \in S /\ g[u \ {Max(u)}] \in Nat
      BY <1>5, <1>6, <2>1 DEF Picks
    <3> HIDE DEF pick
    <3> QED BY <3>1
  <2>2. \A u \in SUBSET S : g[u] = IF u = {} THEN 0 ELSE g[u \ {Max(u)}] + Width(s[Max(u)])
    <3> HIDE DEF step, pick
    <3> QED BY <1>6, <2>1 DEF Recursive
  <2> QED BY <1>6, <2>2
<1>8. Solves(fold)
  BY <1>7
<1>9. Bytes(s) = fold[S]
  BY <1>1 DEF Bytes, FoldLeft, MapThenFoldSet
<1> DEFINE P == {u \in 0..n : fold[1..u] \in Nat}
<1> HIDE DEF fold
<1>10. fold[{}] = 0
  BY <1>8
<1>11. ASSUME NEW k \in 1..n PROVE fold[1..k] = fold[1..(k - 1)] + Width(s[k])
  <2>1. 1..k \in SUBSET S /\ 1..k # {} /\ Max(1..k) = k /\ (1..k) \ {k} = 1..(k - 1)
    BY <1>1, Maxima
  <2>2. fold[1..k] = fold[(1..k) \ {Max(1..k)}] + Width(s[Max(1..k)])
    BY <1>8, <2>1
  <2> QED BY <2>1, <2>2
<1>12. 0..n \subseteq P
  <2>1. 0 \in P
    <3>1. 1..0 = {}
      OBVIOUS
    <3> QED BY <1>1, <1>10, <3>1
  <2>2. ASSUME NEW k \in 0..(n - 1), k \in P PROVE k + 1 \in P
    <3>1. k + 1 \in 1..n /\ (k + 1) - 1 = k /\ k + 1 \in 0..n
      BY <1>1
    <3>2. fold[1..(k + 1)] = fold[1..k] + Width(s[k + 1]) /\ Width(s[k + 1]) \in Nat
      BY <1>2, <1>11, <3>1
    <3> QED BY <1>3, <2>2, <3>1, <3>2
  <2> HIDE DEF P
  <2> QED BY <1>1, <2>1, <2>2, CountUp
<1> QED BY <1>1, <1>9, <1>12

\* The symbols between two positions, if they are digits, are a number.
LEMMA DigitsBetween ==
  ASSUME Readable, NEW base \in Nat, NEW p \in 1..(Len(text) + 1), NEW q \in p..(Len(text) + 1),
         \A r \in p..(q - 1) : text[r] \in Digits
  PROVE  InBase(SubSeq(text, p, q - 1), base) \in Nat
<1>1. SubSeq(text, p, q - 1) \in Seq(Digits)
  <2>1. p \in Int /\ q - 1 \in Int
    BY DEF Readable
  <2> QED BY <2>1, SubSeqProperties
<1> QED BY <1>1, InBaseType

\* strtoul returns a number.
LEMMA StrtoulType ==
  ASSUME Readable, NEW p \in 1..(Len(text) + 1)
  PROVE  Strtoul(p) \in Nat
<1> DEFINE start == Skip(Blank \cup Ends, p)
           hex == At(start) = "0" /\ At(start + 1) = "x" /\ At(start + 2) \in Digits
           octal == ~ hex /\ At(start) = "0"
           base == IF hex THEN 16 ELSE IF octal THEN 8 ELSE 10
           valid == IF octal THEN {"0", "1", "5"} ELSE Digits
           first == IF hex THEN start + 2 ELSE start
           last == Skip(valid, first)
<1>1. start \in p..(Len(text) + 1)
  BY SkipType
<1> HIDE DEF start
<1>2. first \in 1..(Len(text) + 1)
  <2>1. start \in 1..(Len(text) + 1)
    BY <1>1 DEF Readable
  <2>2. CASE hex
    <3>1. At(start + 2) # Nul /\ start + 2 \in Int
      BY <2>1, <2>2 DEF Digits, Nul, Readable
    <3>2. start + 2 \in 1..Len(text)
      BY <3>1, AtText
    <3> QED BY <2>2, <3>2 DEF Readable
  <2>3. CASE ~ hex
    <3> HIDE DEF hex
    <3> QED BY <2>1, <2>3
  <2> QED BY <2>2, <2>3
<1>3. valid \subseteq Digits /\ base \in Nat
  BY DEF Digits
<1> HIDE DEF hex, octal, base, valid, first
<1>4. last \in first..(Len(text) + 1) /\ \A r \in first..(last - 1) : text[r] \in valid
  BY <1>2, SkipType
<1> HIDE DEF last
<1>5. InBase(SubSeq(text, first, last - 1), base) \in Nat
  BY <1>2, <1>3, <1>4, DigitsBetween
<1> QED BY <1>5 DEF Strtoul, start, hex, octal, base, valid, first, last

-----------------------------------------------------------------------------
(* The types.                                                              *)

Configs == [fpga : Nat, flash : Nat, prog : BOOLEAN]

\* What the file holds, and what the terminator leaves of it, are symbols.
LEMMA FileSymbols == lines \in Seq(Lines) => FlattenSeq(lines) \in Seq(Symbols)
<1> SUFFICES ASSUME lines \in Seq(Lines) PROVE FlattenSeq(lines) \in Seq(Symbols)
  OBVIOUS
<1>1. lines \in Seq(Seq(Symbols))
  <2>1. \A i \in 1..Len(lines) : lines[i] \in Seq(Symbols)
    BY OptionAssumption
  <2> QED BY <2>1
<1> QED BY <1>1, Located

\* A text with its terminator inside is one of symbols.
LEMMA TerminatedType ==
  ASSUME NEW s \in Seq(Symbols), NEW size \in 0..Len(s), NEW k
  PROVE  Terminated(s, size, k) \in Seq(Symbols)
<1>1. SubSeq(s, 1, size) \in Seq(Symbols)
  <2>1. \A i \in 1..size : s[i] \in Symbols
    OBVIOUS
  <2> QED BY <2>1, SubSeqProperties
<1>2. Other \in Symbols
  BY DEF Symbols
<1> QED BY <1>1, <1>2 DEF Terminated

\* What the parser makes of the size: the text is cut n symbols from its start or
\* inside the word behind them, and read or rejected.
LEMMA ParseCuts ==
  ASSUME Parse
  PROVE  /\ pos = 0 /\ pos' = 1 /\ lines' = lines /\ config' = config
         /\ \E n \in 0..Len(FlattenSeq(lines)), k \in Int :
              /\ k = 0 \/ (/\ n < Len(FlattenSeq(lines))
                          /\ FlattenSeq(lines)[n + 1] \in Names \cup {"YES", "NO"})
              /\ text' = Terminated(FlattenSeq(lines), n, k)
              /\ outcome' = IF SizeRead(Bytes(SubSeq(FlattenSeq(lines), 1, n)) + k)
                              THEN "none" ELSE "error"
<1> DEFINE file == FlattenSeq(lines)
<1>1. /\ pos = 0 /\ pos' = 1 /\ lines' = lines /\ config' = config
  BY DEF Parse
<1>2. PICK n \in 0..Len(file), k \in 0..(Width("FLASH") - 1) :
        /\ k = 0 \/ (n < Len(file) /\ k < Width(file[n + 1]))
        /\ text' = Terminated(file, n, k)
        /\ outcome' = IF SizeRead(Bytes(SubSeq(file, 1, n)) + k) THEN "none" ELSE "error"
  BY DEF Parse
<1>3. k \in Int /\ k >= 0
  OBVIOUS
<1> HIDE DEF file
<1>4. ASSUME k # 0 PROVE file[n + 1] \in Names \cup {"YES", "NO"}
  <2> DEFINE x == file[n + 1]
  <2>1. k < Width(x)
    BY <1>2, <1>4
  <2> HIDE DEF x
  <2>2. Width(x) # 1
    BY <1>3, <1>4, <2>1
  <2>3. x \in {"FPGA", "PROG"} \/ x = "FLASH" \/ x = "YES" \/ x = "NO"
    BY <2>2 DEF Width
  <2> QED BY <2>3 DEF Names, x
<1> QED BY <1>1, <1>2, <1>3, <1>4 DEF file

\* The positions that the lemmas are about are those of the types.
LEMMA TextReadable == TypeOK => Readable
  BY DEF TypeOK, Readable

\* Where get_config_opt_int has found a name and its "=".
LEMMA NameType ==
  ASSUME Readable, NEW p \in 1..(Len(text) + 1)
  PROVE  /\ NamePos(p) \in p..(Len(text) + 1)
         /\ EqualsPos(p) \in NamePos(p)..(Len(text) + 1)
         /\ EqualsPos(p) <= Len(text) => /\ EqualsPos(p) + 1 \in 1..(Len(text) + 1)
                                         /\ text[EqualsPos(p)] = "="
                                         /\ At(NamePos(p)) \in Names
                                         /\ At(NamePos(p)) = text[NamePos(p)]
<1>1. NamePos(p) \in p..(Len(text) + 1)
      /\ (NamePos(p) = Len(text) + 1 \/ text[NamePos(p)] \in Names)
  BY FirstInType DEF NamePos, Readable
<1>2. NamePos(p) \in 1..(Len(text) + 1)
  BY <1>1 DEF Readable
<1>3. EqualsPos(p) \in NamePos(p)..(Len(text) + 1)
      /\ (EqualsPos(p) = Len(text) + 1 \/ text[EqualsPos(p)] \in {"="})
  BY <1>2, FirstInType DEF EqualsPos, Readable
<1>4. ASSUME EqualsPos(p) <= Len(text)
      PROVE  /\ EqualsPos(p) + 1 \in 1..(Len(text) + 1)
             /\ text[EqualsPos(p)] = "="
             /\ At(NamePos(p)) \in Names /\ At(NamePos(p)) = text[NamePos(p)]
  <2>1. EqualsPos(p) + 1 \in 1..(Len(text) + 1) /\ NamePos(p) \in 1..Len(text)
        /\ EqualsPos(p) # Len(text) + 1 /\ NamePos(p) # Len(text) + 1
    BY <1>2, <1>3, <1>4 DEF Readable
  <2> QED BY <1>1, <1>3, <2>1, AtText
<1> QED BY <1>1, <1>3, <1>4

\* The end of the line, or of the text.
LEMMA NextLineType ==
  ASSUME Readable, NEW p \in 1..(Len(text) + 1)
  PROVE  /\ NextLine(p) \in p..(Len(text) + 1) /\ NextLine(p) \in 1..(Len(text) + 1)
         /\ NextLine(p) = Len(text) + 1 \/ text[NextLine(p)] \in Ends
<1>1. NextLine(p) \in p..(Len(text) + 1)
      /\ (NextLine(p) = Len(text) + 1 \/ text[NextLine(p)] \in Ends)
  BY FirstInType DEF NextLine, Readable
<1> QED BY <1>1 DEF Readable

\* What one turn of the loop does: it ends, or takes a value and goes on behind it.
LEMMA Turn ==
  ASSUME TypeOK, ParseOption
  PROVE  /\ pos \in 1..(Len(text) + 1) /\ outcome = "none" /\ lines' = lines /\ text' = text
         /\ \/ /\ outcome' \in {"ok", "error"} /\ pos' = pos /\ config' = config
               /\ outcome' = "ok" => EqualsPos(pos) > Len(text)
               /\ outcome' = "error" =>
                    /\ EqualsPos(pos) <= Len(text)
                    /\ IF At(NamePos(pos)) = "PROG"
                         THEN At(Skip(Blank, EqualsPos(pos) + 1)) \notin {"YES", "NO"}
                         ELSE ~ StrIsValidInteger(EqualsPos(pos) + 1)
            \/ /\ EqualsPos(pos) <= Len(text) /\ outcome' = outcome
               /\ At(NamePos(pos)) = "PROG"
               /\ LET first == Skip(Blank, EqualsPos(pos) + 1)
                  IN  /\ At(first) \in {"YES", "NO"} /\ pos' = NextLine(first)
                      /\ config' = [config EXCEPT !.prog = (At(first) = "YES")]
            \/ /\ EqualsPos(pos) <= Len(text) /\ outcome' = outcome
               /\ StrIsValidInteger(EqualsPos(pos) + 1)
               /\ pos' = NextLine(EqualsPos(pos) + 1)
               /\ \/ /\ At(NamePos(pos)) = "FPGA"
                     /\ config' = [config EXCEPT !.fpga = Strtoul(EqualsPos(pos) + 1)]
                  \/ /\ At(NamePos(pos)) = "FLASH"
                     /\ config' = [config EXCEPT !.flash = Strtoul(EqualsPos(pos) + 1)]
<1> DEFINE name == At(NamePos(pos))
           p == EqualsPos(pos) + 1
<1>1. pos \in 1..(Len(text) + 1) /\ outcome = "none" /\ Readable
  BY TextReadable DEF TypeOK, ParseOption
<1>2. CASE EqualsPos(pos) > Len(text)
  BY <1>1, <1>2 DEF ParseOption, Return
<1>3. CASE ~ (EqualsPos(pos) > Len(text))
  <2>1. EqualsPos(pos) <= Len(text) /\ name \in Names
    <3>1. EqualsPos(pos) \in Nat /\ Len(text) \in Nat
      BY <1>1, NameType DEF Readable
    <3>2. EqualsPos(pos) <= Len(text)
      BY <1>3, <3>1
    <3> QED BY <1>1, <3>2, NameType
  <2> HIDE DEF p
  <2>2. IF name = "PROG" THEN SetProgFlash(p) ELSE SetInteger(name, p)
    BY <1>3 DEF ParseOption, p
  <2> HIDE DEF name
  <2>3. CASE name = "PROG"
    <3>1. SetProgFlash(p)
      BY <2>2, <2>3
    <3> QED BY <1>1, <2>1, <2>3, <3>1 DEF SetProgFlash, Return, name, p
  <2>4. CASE name # "PROG"
    <3>1. SetInteger(name, p) /\ name \in {"FPGA", "FLASH"}
      BY <2>1, <2>2, <2>4 DEF Names
    <3> QED BY <1>1, <2>1, <3>1 DEF SetInteger, Return, name, p
  <2> QED BY <2>3, <2>4
<1> QED BY <1>2, <1>3

\* The types hold before the first line is written.
LEMMA TypeInit == Init => TypeOK
  BY OptionAssumption DEF Init, TypeOK

\* Every step keeps the types: the parser moves inside the text and stores numbers.
LEMMA TypeNext == TypeOK /\ [Next]_vars => TypeOK'
<1> SUFFICES ASSUME TypeOK, [Next]_vars PROVE TypeOK'
  OBVIOUS
<1>1. ASSUME NEW l \in Lines, WriteLine(l) PROVE TypeOK'
  BY <1>1 DEF WriteLine, TypeOK
<1>2. CASE Parse
  <2>1. PICK n \in 0..Len(FlattenSeq(lines)), k \in Int :
          text' = Terminated(FlattenSeq(lines), n, k)
    BY <1>2, ParseCuts
  <2>2. FlattenSeq(lines) \in Seq(Symbols)
    BY FileSymbols DEF TypeOK
  <2>3. text' \in Seq(Symbols)
    BY <2>1, <2>2, TerminatedType
  <2>4. pos' = 1 /\ lines' = lines /\ config' = config /\ outcome' \in {"none", "error"}
    BY <1>2, ParseCuts
  <2>5. pos' \in 0..(Len(text') + 1)
    BY <2>3, <2>4
  <2> QED BY <2>3, <2>4, <2>5 DEF TypeOK
<1>3. CASE ParseOption
  <2>1. Readable /\ pos \in 1..(Len(text) + 1) /\ lines' = lines /\ text' = text
    BY <1>3, Turn, TextReadable
  <2>2. pos' \in 0..(Len(text) + 1) /\ outcome' \in {"none", "ok", "error"} /\ config' \in Configs
    <3>1. CASE outcome' \in {"ok", "error"} /\ pos' = pos /\ config' = config
      BY <3>1 DEF TypeOK, Configs
    <3>2. ASSUME EqualsPos(pos) <= Len(text) PROVE EqualsPos(pos) + 1 \in 1..(Len(text) + 1)
      BY <2>1, <3>2, NameType
    <3>3. CASE /\ EqualsPos(pos) <= Len(text) /\ outcome' = outcome
               /\ LET first == Skip(Blank, EqualsPos(pos) + 1)
                  IN  /\ pos' = NextLine(first)
                      /\ config' = [config EXCEPT !.prog = (At(first) = "YES")]
      <4>1. Skip(Blank, EqualsPos(pos) + 1) \in 1..(Len(text) + 1)
        BY <2>1, <3>2, <3>3, SkipType DEF Readable
      <4>2. pos' \in 1..(Len(text) + 1)
        BY <2>1, <3>3, <4>1, NextLineType
      <4>3. config' \in Configs
        BY <3>3 DEF TypeOK, Configs
      <4>4. outcome' \in {"none", "ok", "error"}
        BY <3>3 DEF TypeOK
      <4> QED BY <2>1, <4>2, <4>3, <4>4 DEF Readable
    <3>4. CASE /\ EqualsPos(pos) <= Len(text) /\ outcome' = outcome
               /\ pos' = NextLine(EqualsPos(pos) + 1)
               /\ \/ config' = [config EXCEPT !.fpga = Strtoul(EqualsPos(pos) + 1)]
                  \/ config' = [config EXCEPT !.flash = Strtoul(EqualsPos(pos) + 1)]
      <4>1. Strtoul(EqualsPos(pos) + 1) \in Nat
        BY <2>1, <3>2, <3>4, StrtoulType
      <4>2. pos' \in 1..(Len(text) + 1)
        BY <2>1, <3>2, <3>4, NextLineType
      <4>3. config' \in Configs
        BY <3>4, <4>1 DEF TypeOK, Configs
      <4>4. outcome' \in {"none", "ok", "error"}
        BY <3>4 DEF TypeOK
      <4> QED BY <2>1, <4>2, <4>3, <4>4 DEF Readable
    <3> QED BY <1>3, <3>1, <3>3, <3>4, Turn
  <2> QED BY <2>1, <2>2 DEF TypeOK, Configs
<1>4. CASE UNCHANGED vars
  BY <1>4 DEF TypeOK, vars
<1> QED BY <1>1, <1>2, <1>3, <1>4 DEF Next

\* The parser never leaves the text: cur_line points to a symbol of it or to its
\* terminator, and CONFIG holds numbers.
THEOREM TypeCorrect == Spec => []TypeOK
  BY TypeInit, TypeNext, PTL DEF Spec

-----------------------------------------------------------------------------
(* Checked and converted.                                                  *)

\* A value that str_is_valid_integer lets pass and that has a digit on its line is
\* decimal for strtoul, which finds the same digits: the check has ruled out a
\* first "0".  Digits and blanks end with the line.
LEMMA Converted ==
  ASSUME Readable, NEW p \in 1..(Len(text) + 1), StrIsValidInteger(p),
         At(Skip(Blank, p)) \in Digits
  PROVE  LET first == Skip(Blank, p)
             digits == Skip(Digits, first)
         IN  /\ first \in p..Len(text) /\ At(first) # "0"
             /\ digits \in first..(Len(text) + 1)
             /\ Strtoul(p) = Number(SubSeq(text, first, digits - 1))
             /\ Skip(Blank, digits) \in digits..(Len(text) + 1)
             /\ At(Skip(Blank, digits)) \in Ends
<1> DEFINE first == Skip(Blank, p)
           digits == Skip(Digits, first)
           rest == Skip(Blank, digits)
<1>1. first \in p..(Len(text) + 1) /\ \A r \in p..(first - 1) : text[r] \in Blank
  BY SkipType
<1>2. At(first) \in Digits
  OBVIOUS
<1>3. IF At(first) = "0"
        THEN LET r == Skip(Blank, Skip(Digits, first + 1))
             IN  At(first + 1) = "x" /\ At(IF At(r) = "cr" THEN r + 1 ELSE r) = "nl"
        ELSE At(IF At(rest) = "cr" THEN rest + 1 ELSE rest) = "nl"
  BY DEF StrIsValidInteger
<1>4. Len(text) \in Nat /\ p \in Nat
  BY DEF Readable
<1> HIDE DEF first
<1>5. first \in 1..Len(text) /\ text[first] = At(first)
  <2>1. first \in Int /\ At(first) # Nul
    BY <1>1, <1>2, <1>4 DEF Digits, Nul
  <2> QED BY <1>1, <2>1, AtText
<1>6. At(first) # "0"
  <2> SUFFICES ASSUME At(first) = "0" PROVE FALSE
    OBVIOUS
  <2> DEFINE q == first + 1
             r == Skip(Blank, Skip(Digits, q))
  <2>1. At(q) = "x" /\ At(IF At(r) = "cr" THEN r + 1 ELSE r) = "nl"
    BY <1>3
  <2>2. q \in 1..Len(text) /\ text[q] = "x"
    <3>1. q \in Int /\ At(q) # Nul
      BY <1>5, <2>1 DEF Nul
    <3> QED BY <2>1, <3>1, AtText
  <2> HIDE DEF q
  <2>3. q \in 1..(Len(text) + 1) /\ q \in q..(Len(text) + 1)
        /\ text[q] \notin Digits /\ text[q] \notin Blank
    BY <1>4, <2>2 DEF Digits, Blank
  <2>4. \A set : \A i \in q..(q - 1) : text[i] \in set
    BY <2>2
  <2>5. Skip(Digits, q) = q
    BY <2>3, <2>4, SkipIs
  <2>6. Skip(Blank, q) = q
    BY <2>3, <2>4, SkipIs
  <2> QED BY <2>1, <2>5, <2>6
<1>7. digits \in first..(Len(text) + 1) /\ digits \in 1..(Len(text) + 1)
  <2>1. first \in 1..(Len(text) + 1)
    BY <1>4, <1>5
  <2>2. digits \in first..(Len(text) + 1)
    BY <2>1, SkipType
  <2> QED BY <1>4, <1>5, <2>2
<1>8. rest \in digits..(Len(text) + 1) /\ At(rest) \in Ends
  <2> HIDE DEF digits
  <2>1. rest \in digits..(Len(text) + 1)
    BY <1>7, SkipType
  <2> HIDE DEF rest
  <2>2. At(rest) \in Ends
    BY <1>3, <1>6 DEF Ends
  <2> QED BY <2>1, <2>2
<1>9. Skip(Blank \cup Ends, p) = first
  <2>1. text[first] \notin Blank \cup Ends
    BY <1>2, <1>5 DEF Digits, Blank, Ends
  <2>2. \A r \in p..(first - 1) : text[r] \in Blank \cup Ends
    BY <1>1
  <2> QED BY <1>1, <2>1, <2>2, SkipIs
<1>10. Strtoul(p) = InBase(SubSeq(text, first, digits - 1), 10)
  BY <1>6, <1>9 DEF Strtoul
<1>11. first \in p..Len(text)
  BY <1>1, <1>4, <1>5
<1> QED BY <1>6, <1>7, <1>8, <1>10, <1>11 DEF first, Number

\* The action property, for one step.
ConvertsStep ==
  \A o \in {"fpga", "flash"} :
    config'[o] # config[o] =>
      LET p == EqualsPos(pos) + 1
          first == Skip(Blank, p)
      IN  At(first) \in Digits =>
            /\ At(first) # "0"
            /\ config'[o] = Number(SubSeq(text, first, Skip(Digits, first) - 1))
            /\ At(Skip(Blank, Skip(Digits, first))) \in Ends

\* A value that a step stores is the one that str_is_valid_integer has seen.
LEMMA ConvertsNext == TypeOK /\ [Next]_vars => ConvertsStep
<1> SUFFICES ASSUME TypeOK, [Next]_vars, NEW o \in {"fpga", "flash"}, config'[o] # config[o],
                    At(Skip(Blank, EqualsPos(pos) + 1)) \in Digits
             PROVE  LET p == EqualsPos(pos) + 1
                        first == Skip(Blank, p)
                    IN  /\ At(first) # "0"
                        /\ config'[o] = Number(SubSeq(text, first, Skip(Digits, first) - 1))
                        /\ At(Skip(Blank, Skip(Digits, first))) \in Ends
  BY DEF ConvertsStep
<1> DEFINE p == EqualsPos(pos) + 1
<1>1. config' # config
  OBVIOUS
<1>2. ParseOption
  BY <1>1 DEF Next, WriteLine, Parse, vars
<1>3. config \in Configs /\ Readable /\ pos \in 1..(Len(text) + 1)
  BY <1>2, Turn, TextReadable DEF TypeOK, Configs
<1>4. ~ (config' = [config EXCEPT !.prog = (At(Skip(Blank, EqualsPos(pos) + 1)) = "YES")])
  BY <1>3 DEF Configs
<1>5. /\ EqualsPos(pos) <= Len(text) /\ StrIsValidInteger(EqualsPos(pos) + 1)
      /\ \/ config' = [config EXCEPT !.fpga = Strtoul(EqualsPos(pos) + 1)]
         \/ config' = [config EXCEPT !.flash = Strtoul(EqualsPos(pos) + 1)]
  BY <1>1, <1>2, <1>4, Turn
<1>6. config'[o] = Strtoul(EqualsPos(pos) + 1)
  <2>1. CASE config' = [config EXCEPT !.fpga = Strtoul(EqualsPos(pos) + 1)]
    BY <1>3, <2>1 DEF Configs
  <2>2. CASE config' = [config EXCEPT !.flash = Strtoul(EqualsPos(pos) + 1)]
    BY <1>3, <2>2 DEF Configs
  <2> QED BY <1>5, <2>1, <2>2
<1>7. EqualsPos(pos) + 1 \in 1..(Len(text) + 1)
  BY <1>3, <1>5, NameType
<1> QED BY <1>3, <1>5, <1>6, <1>7, Converted

\* What is checked is what is converted: a value with a digit on its line is stored
\* as the decimal number of its digits, and never as an octal or hexadecimal one.
THEOREM ConvertsChecked == Spec => ConvertsWhatItChecked
<1>1. TypeOK /\ [Next]_vars => [ConvertsStep]_vars
  BY ConvertsNext
<1> QED BY <1>1, TypeCorrect, PTL DEF Spec, ConvertsWhatItChecked, ConvertsStep

-----------------------------------------------------------------------------
(* Plain lines.                                                            *)

\* The value of a plain line is its symbols from a to b; blanks and the end of the
\* line are around it.
Shape(l, a, b) ==
  /\ Len(l) \in Nat /\ a \in Nat /\ b \in Nat /\ 3 <= a /\ a <= b /\ b < Len(l)
  /\ l[1] \in Names /\ l[2] = "=" /\ l[Len(l)] = "nl"
  /\ \A i \in 3..(a - 1) : l[i] \in Blank
  /\ \A i \in (b + 1)..(Len(l) - 1) : l[i] \in Blank \/ (l[i] = "cr" /\ i = Len(l) - 1)
  /\ ValueOf(l) = SubSeq(l, a, b)
  /\ IF l[1] = "PROG" THEN a = b /\ l[a] \in {"YES", "NO"}
     ELSE l[a] # "0" /\ \A i \in a..b : l[i] \in Digits

\* Every plain line has this shape.
LEMMA PlainShape ==
  ASSUME NEW l \in Seq(Symbols), IsPlain(l)
  PROVE  \E a, b \in Nat : Shape(l, a, b)
<1> DEFINE V == ValueAt(l)
           a == Min(V)
           b == Max(V)
           n == Len(l)
<1>1. /\ n \in Nat /\ n > 2 /\ l[1] \in Names /\ l[2] = "=" /\ l[n] = "nl"
      /\ \A i \in 1..n : (l[i] = "cr" => i = n - 1) /\ (l[i] = "nl" => i = n)
      /\ V # {} /\ \A i, j \in V : i..j \subseteq V
      /\ IF l[1] = "PROG" THEN ValueOf(l) \in {<<"YES">>, <<"NO">>}
         ELSE l[Min(V)] # "0" /\ \A i \in V : l[i] \in Digits
  BY DEF IsPlain
<1>2. \A i \in 3..n : i \in V <=> l[i] \notin Blank \cup Ends
  BY DEF ValueAt
<1>3. V \subseteq 3..n
  BY DEF ValueAt
<1>4. ValueOf(l) = SubSeq(l, a, b)
  BY DEF ValueOf
<1> HIDE DEF V
<1>5. a \in V /\ \A i \in V : a <= i
  <2>1. V \in SUBSET Nat /\ V # {}
    BY <1>1, <1>3
  <2>2. \E x \in V : \A y \in V : x <= y
    BY <2>1, Smallest
  <2> QED BY <2>2 DEF Min
<1>6. b \in V /\ \A i \in V : i <= b
  <2>1. V \in SUBSET (0..n) /\ V # {}
    BY <1>1, <1>3
  <2>2. \E x \in V : \A y \in V : y <= x
    BY <1>1, <2>1, Largest
  <2>3. \E x \in V : \A y \in V : x >= y
    BY <1>1, <1>3, <2>2
  <2>4. \A i \in V : b >= i
    BY <2>3 DEF Max
  <2>5. b \in V
    BY <2>3 DEF Max
  <2> QED BY <1>1, <1>3, <2>4, <2>5
<1> HIDE DEF a, b
<1>7. a \in 3..n /\ b \in 3..n /\ a <= b /\ b # n
  <2>1. l[n] \in Ends /\ n \in 3..n
    BY <1>1 DEF Ends
  <2> QED BY <1>2, <1>3, <1>5, <1>6, <2>1
<1>8. ASSUME NEW i \in 3..n, i \notin V
      PROVE  l[i] \in Blank \/ (l[i] = "cr" /\ i = n - 1) \/ i = n
  <2>1. l[i] \in Blank \cup {"cr", "nl"} /\ i \in 1..n
    BY <1>2, <1>8 DEF Ends
  <2> QED BY <1>1, <2>1
<1>9. ASSUME NEW i \in 3..(a - 1) PROVE l[i] \in Blank
  <2>1. i \in 3..n /\ i \notin V /\ i # n - 1 /\ i # n
    BY <1>1, <1>5, <1>7
  <2> QED BY <1>8, <2>1
<1>10. ASSUME NEW i \in (b + 1)..(n - 1) PROVE l[i] \in Blank \/ (l[i] = "cr" /\ i = n - 1)
  <2>1. i \in 3..n /\ i \notin V /\ i # n
    BY <1>1, <1>6, <1>7
  <2> QED BY <1>8, <2>1
<1>11. IF l[1] = "PROG" THEN a = b /\ l[a] \in {"YES", "NO"}
       ELSE l[a] # "0" /\ \A i \in a..b : l[i] \in Digits
  <2>1. CASE l[1] = "PROG"
    <3> DEFINE v == SubSeq(l, a, b)
    <3>1. v \in {<<"YES">>, <<"NO">>}
      BY <1>1, <1>4, <2>1
    <3>2. Len(v) = b - a + 1 /\ v[1] = l[a]
      BY <1>1, <1>7
    <3> HIDE DEF v
    <3>3. Len(v) = 1 /\ v[1] \in {"YES", "NO"}
      BY <3>1
    <3>4. a = b
      <4>1. a \in Nat /\ b \in Nat
        BY <1>1, <1>7
      <4>2. b - a + 1 = 1
        BY <3>2, <3>3
      <4> QED BY <4>1, <4>2
    <3> QED BY <2>1, <3>2, <3>3, <3>4
  <2>2. CASE l[1] # "PROG"
    <3>1. \A i \in a..b : i \in V
      BY <1>1, <1>5, <1>6
    <3>2. l[a] # "0" /\ \A i \in V : l[i] \in Digits
      BY <1>1, <2>2 DEF a
    <3> QED BY <2>2, <3>1, <3>2
  <2> QED BY <2>1, <2>2
<1>12. a \in Nat /\ b \in Nat /\ 3 <= a /\ b < n
  BY <1>1, <1>7
<1> QED BY <1>1, <1>4, <1>7, <1>9, <1>10, <1>11, <1>12 DEF Shape

\* The name of an option is only at the start of a plain line.
LEMMA OneName ==
  ASSUME NEW l, NEW a, NEW b, Shape(l, a, b), NEW i \in 2..Len(l)
  PROVE  l[i] \notin Names
<1>1. /\ Len(l) \in Nat /\ a \in Nat /\ b \in Nat /\ 3 <= a /\ a <= b /\ b < Len(l)
      /\ l[2] = "=" /\ l[Len(l)] = "nl"
      /\ \A j \in 3..(a - 1) : l[j] \in Blank
      /\ \A j \in (b + 1)..(Len(l) - 1) : l[j] \in Blank \cup {"cr"}
      /\ \A j \in a..b : l[j] \in Digits \cup {"YES", "NO"}
  BY DEF Shape
<1>2. i = 2 \/ i = Len(l) \/ i \in 3..(a - 1) \/ i \in a..b \/ i \in (b + 1)..(Len(l) - 1)
  BY <1>1
<1>3. l[i] \in Blank \cup Digits \cup {"=", "nl", "cr", "YES", "NO"}
  BY <1>1, <1>2
<1> QED BY <1>3 DEF Names, Blank, Digits

\* What a plain line says is a configuration.
LEMMA SaysType ==
  ASSUME NEW l, NEW a, NEW b, Shape(l, a, b), NEW c \in Configs
  PROVE  Says(l, c) \in Configs
<1> DEFINE number == Number(ValueOf(l))
<1>1. CASE l[1] = "PROG"
  <2>1. Says(l, c) = [c EXCEPT !.prog = (ValueOf(l) = <<"YES">>)]
    BY <1>1 DEF Says
  <2>2. (ValueOf(l) = <<"YES">>) \in BOOLEAN
    OBVIOUS
  <2> QED BY <2>1, <2>2 DEF Configs
<1>2. CASE l[1] # "PROG"
  <2>1. number \in Nat
    <3>1. \A i \in a..b : l[i] \in Digits
      BY <1>2 DEF Shape
    <3>2. ValueOf(l) = SubSeq(l, a, b) /\ a \in Int /\ b \in Int
      BY DEF Shape
    <3>3. SubSeq(l, a, b) \in Seq(Digits)
      BY <3>1, <3>2, SubSeqProperties
    <3> QED BY <3>2, <3>3, InBaseType DEF Number
  <2> HIDE DEF number
  <2>2. Says(l, c) = [c EXCEPT !.fpga = number] \/ Says(l, c) = [c EXCEPT !.flash = number]
    <3>1. l[1] = "FPGA" \/ l[1] = "FLASH"
      BY <1>2 DEF Shape, Names
    <3> QED BY <3>1 DEF Says, number
  <2> QED BY <2>1, <2>2 DEF Configs
<1> QED BY <1>1, <1>2

-----------------------------------------------------------------------------
(* What the lines say.                                                     *)

PlainLines == {l \in Seq(Symbols) : IsPlain(l)}

\* The same for any plain line.
LEMMA PlainSays == \A l \in PlainLines, c \in Configs : Says(l, c) \in Configs
<1> SUFFICES ASSUME NEW l \in PlainLines, NEW c \in Configs PROVE Says(l, c) \in Configs
  OBVIOUS
<1>1. PICK a, b \in Nat : Shape(l, a, b)
  BY PlainShape DEF PlainLines
<1> QED BY <1>1, SaysType

\* The configurations that the lines go through, one by one.
Told(a, ls, n) == a[0] = OldConfig /\ \A k \in 1..n : a[k] = Says(ls[k], a[k - 1])

\* SaysAll is the last of them.
LEMMA SaysTrace ==
  ASSUME NEW ls \in Seq(PlainLines)
  PROVE  \E a \in [0..Len(ls) -> Configs] : Told(a, ls, Len(ls)) /\ SaysAll(ls) = a[Len(ls)]
<1> DEFINE n == Len(ls)
           S == 1..n
           pick == [u \in SUBSET S |-> Max(u)]
           step == [i \in S |-> [c \in Configs |-> Says(ls[i], c)]]
           Solves(g) == g = [u \in SUBSET S |-> IF u = {} THEN OldConfig
                               ELSE LET x == Max(u) IN Says(ls[x], g[u \ {x}])]
           fold == CHOOSE g : Solves(g)
<1>1. n \in Nat /\ DOMAIN ls = S /\ IsFiniteSet(S) /\ ls \in [S -> PlainLines]
      /\ OldConfig \in Configs
  <2>1. n \in Nat /\ DOMAIN ls = S /\ ls \in [S -> PlainLines]
    <3> HIDE DEF PlainLines
    <3> QED OBVIOUS
  <2>2. IsFiniteSet(S)
    BY <2>1, FS_Interval
  <2> QED BY <2>1, <2>2, OptionAssumption DEF Configs
<1>2. step \in [S -> [Configs -> Configs]]
  BY <1>1, PlainSays
<1>3. Picks(pick, S)
  BY <1>1, Maxima DEF Picks
<1>4. PICK g \in [SUBSET S -> Configs] : Recursive(g, S, OldConfig, pick, step)
  <2> HIDE DEF pick, step, S
  <2> QED BY <1>1, <1>2, <1>3, Recursion
<1>5. Solves(g)
  <2>1. \A u \in SUBSET S : u # {} =>
          step[pick[u]][g[u \ {pick[u]}]] = Says(ls[Max(u)], g[u \ {Max(u)}])
    BY <1>3, <1>4 DEF Picks
  <2>2. \A u \in SUBSET S : g[u] = IF u = {} THEN OldConfig ELSE Says(ls[Max(u)], g[u \ {Max(u)}])
    BY <1>4, <2>1 DEF Recursive
  <2> QED BY <1>4, <2>2
<1>6. Solves(fold)
  BY <1>5
<1>7. SaysAll(ls) = fold[S]
  BY <1>1 DEF SaysAll, FoldLeft, MapThenFoldSet
<1> DEFINE P == {u \in 0..n : fold[1..u] \in Configs}
           a == [k \in 0..n |-> fold[1..k]]
<1> HIDE DEF fold
<1>8. fold[{}] = OldConfig
  BY <1>6
<1>9. ASSUME NEW k \in 1..n PROVE fold[1..k] = Says(ls[k], fold[1..(k - 1)])
  <2>1. 1..k \in SUBSET S /\ 1..k # {} /\ Max(1..k) = k /\ (1..k) \ {k} = 1..(k - 1)
    BY <1>1, Maxima
  <2>2. fold[1..k] = Says(ls[Max(1..k)], fold[(1..k) \ {Max(1..k)}])
    BY <1>6, <2>1
  <2> QED BY <2>1, <2>2
<1>10. 1..0 = {}
  OBVIOUS
<1>11. 0..n \subseteq P
  <2>1. 0 \in P
    BY <1>1, <1>8, <1>10
  <2>2. ASSUME NEW k \in 0..(n - 1), k \in P PROVE k + 1 \in P
    <3>1. k + 1 \in 1..n /\ (k + 1) - 1 = k
      BY <1>1
    <3>2. ls[k + 1] \in PlainLines
      BY <1>1, <3>1
    <3> QED BY <1>1, <1>9, <2>2, <3>1, <3>2, PlainSays
  <2> HIDE DEF P
  <2> QED BY <1>1, <2>1, <2>2, CountUp
<1>12. a \in [0..n -> Configs] /\ a[0] = OldConfig
  BY <1>1, <1>8, <1>10, <1>11
<1>13. Told(a, ls, n)
  BY <1>1, <1>9, <1>12 DEF Told
<1>14. SaysAll(ls) = a[n]
  BY <1>1, <1>7
<1> QED BY <1>12, <1>13, <1>14

\* They are determined by the lines.
LEMMA ToldUnique ==
  ASSUME NEW n \in Nat, NEW ls, NEW a, NEW b, Told(a, ls, n), Told(b, ls, n)
  PROVE  a[n] = b[n]
<1> DEFINE P == {k \in 0..n : a[k] = b[k]}
<1>1. 0 \in P
  BY DEF Told
<1>2. ASSUME NEW k \in 0..(n - 1), k \in P PROVE k + 1 \in P
  <2>1. k + 1 \in 1..n /\ (k + 1) - 1 = k
    OBVIOUS
  <2> QED BY <1>2, <2>1 DEF Told
<1>3. 0..n \subseteq P
  <2> HIDE DEF P
  <2> QED BY <1>1, <1>2, CountUp
<1> QED BY <1>3

\* The first n of the lines.
First(ls, n) == SubSeq(ls, 1, n)

\* One line more says what it says to those before it.
LEMMA SaysNext ==
  ASSUME NEW ls \in Seq(PlainLines)
  PROVE  /\ SaysAll(First(ls, 0)) = OldConfig
         /\ SaysAll(First(ls, Len(ls))) = SaysAll(ls)
         /\ \A n \in 0..(Len(ls) - 1) :
              SaysAll(First(ls, n + 1)) = Says(ls[n + 1], SaysAll(First(ls, n)))
<1>1. PICK a \in [0..Len(ls) -> Configs] : Told(a, ls, Len(ls)) /\ SaysAll(ls) = a[Len(ls)]
  BY SaysTrace
<1>2. ASSUME NEW n \in 0..Len(ls) PROVE SaysAll(First(ls, n)) = a[n]
  <2> DEFINE f == First(ls, n)
  <2>1. f \in Seq(PlainLines) /\ Len(f) = n /\ \A k \in 1..n : f[k] = ls[k]
    BY DEF First
  <2> HIDE DEF f
  <2>2. PICK b \in [0..n -> Configs] : Told(b, f, n) /\ SaysAll(f) = b[n]
    BY <2>1, SaysTrace
  <2>3. Told(a, ls, n) /\ Told(b, ls, n) /\ n \in Nat
    BY <1>1, <2>1, <2>2 DEF Told
  <2>4. a[n] = b[n]
    BY <2>3, ToldUnique
  <2> QED BY <2>2, <2>4 DEF f
<1>3. Len(ls) \in Nat /\ 0 \in 0..Len(ls) /\ Len(ls) \in 0..Len(ls)
  OBVIOUS
<1>4. \A n \in 0..(Len(ls) - 1) : a[n + 1] = Says(ls[n + 1], a[n])
  <2> SUFFICES ASSUME NEW n \in 0..(Len(ls) - 1) PROVE a[n + 1] = Says(ls[n + 1], a[n])
    OBVIOUS
  <2>1. n + 1 \in 1..Len(ls) /\ (n + 1) - 1 = n
    BY <1>3
  <2> QED BY <1>1, <2>1 DEF Told
<1>5. a[0] = OldConfig
  BY <1>1 DEF Told
<1>6. \A n \in 0..(Len(ls) - 1) : n \in 0..Len(ls) /\ n + 1 \in 0..Len(ls)
  OBVIOUS
<1> QED BY <1>1, <1>2, <1>3, <1>4, <1>5, <1>6

-----------------------------------------------------------------------------
(* Lines in the text.                                                      *)

\* The text is the file up to size; a word that the terminator falls into is
\* another symbol.
Cut(t, file, size) ==
  /\ size \in 0..Len(file)
  /\ \A i \in 1..size : t[i] = file[i]
  /\ \/ Len(t) = size
     \/ /\ Len(t) = size + 1 /\ t[size + 1] = Other
        /\ size < Len(file) /\ file[size + 1] \in Names \cup {"YES", "NO"}

\* What parse_config leaves of the file is a cut of it.
LEMMA TerminatedCut ==
  ASSUME NEW file \in Seq(Symbols), NEW size \in 0..Len(file), NEW k,
         k = 0 \/ (size < Len(file) /\ file[size + 1] \in Names \cup {"YES", "NO"})
  PROVE  Cut(Terminated(file, size, k), file, size)
<1> DEFINE t == Terminated(file, size, k)
           s == SubSeq(file, 1, size)
<1>1. s \in Seq(Symbols) /\ Len(s) = size /\ \A i \in 1..size : s[i] = file[i]
  OBVIOUS
<1>2. t = s \/ (/\ t = Append(s, Other) /\ size < Len(file)
                /\ file[size + 1] \in Names \cup {"YES", "NO"})
  BY DEF Terminated
<1> HIDE DEF s, t
<1> SUFFICES Cut(t, file, size)
  BY DEF t
<1>3. CASE t = s
  BY <1>1, <1>3 DEF Cut
<1>4. CASE /\ t = Append(s, Other) /\ size < Len(file)
           /\ file[size + 1] \in Names \cup {"YES", "NO"}
  <2>1. Len(t) = size + 1 /\ t[size + 1] = Other /\ \A i \in 1..size : t[i] = s[i]
    BY <1>1, <1>4
  <2> QED BY <1>1, <1>4, <2>1 DEF Cut
<1> QED BY <1>2, <1>3, <1>4

\* The whole file is cut nowhere else than at its end.
LEMMA WholeCut ==
  ASSUME NEW file \in Seq(Symbols), NEW size, Cut(file, file, size)
  PROVE  size = Len(file)
<1>1. Other \notin Names \cup {"YES", "NO"}
  BY DEF Other, Names
<1> QED BY <1>1 DEF Cut

\* The text holds a line from o + 1 on, as far as it goes.
Holds(l, o, size) ==
  /\ o \in Nat /\ size \in Nat
  /\ Len(text) = size \/ (Len(text) = size + 1 /\ text[size + 1] = Other)
  /\ \A k \in 1..Len(l) : o + k <= size => text[o + k] = l[k]
  /\ \A k \in 1..Len(l) : o + k = size + 1 /\ Len(text) = size + 1 =>
       l[k] \in Names \cup {"YES", "NO"}

\* Each line of the file is in the text at its offset.
LEMMA TextHolds ==
  ASSUME NEW ls \in Seq(Seq(Symbols)), NEW file \in Seq(Symbols), NEW size,
         NEW e \in [0..Len(ls) -> Nat], Offsets(e, ls, file), Cut(text, file, size),
         NEW n \in 0..(Len(ls) - 1)
  PROVE  e[n + 1] = e[n] + Len(ls[n + 1]) /\ Holds(ls[n + 1], e[n], size)
<1> DEFINE l == ls[n + 1]
           o == e[n]
<1>1. n + 1 \in 1..Len(ls) /\ (n + 1) - 1 = n /\ n \in 0..Len(ls)
  OBVIOUS
<1>2. e[n + 1] = o + Len(l) /\ \A k \in 1..Len(l) : file[o + k] = l[k]
  BY <1>1 DEF Offsets
<1>3. o \in Nat /\ size \in Nat /\ size <= Len(file) /\ Len(l) \in Nat
  <2>1. l \in Seq(Symbols)
    BY <1>1
  <2>2. size \in 0..Len(file) /\ Len(file) \in Nat
    BY DEF Cut
  <2>3. o \in Nat
    BY <1>1
  <2> QED BY <2>1, <2>2, <2>3
<1> HIDE DEF l, o
<1>4. \A k \in 1..Len(l) : o + k <= size => text[o + k] = l[k]
  <2> SUFFICES ASSUME NEW k \in 1..Len(l), o + k <= size PROVE text[o + k] = l[k]
    OBVIOUS
  <2>1. o + k \in 1..size
    BY <1>3
  <2> QED BY <1>2, <2>1 DEF Cut
<1>5. \A k \in 1..Len(l) : o + k = size + 1 /\ Len(text) = size + 1 =>
        l[k] \in Names \cup {"YES", "NO"}
  BY <1>2, <1>3 DEF Cut
<1>6. Len(text) = size \/ (Len(text) = size + 1 /\ text[size + 1] = Other)
  BY DEF Cut
<1> QED BY <1>2, <1>3, <1>4, <1>5, <1>6 DEF Holds, l, o

-----------------------------------------------------------------------------
(* One line, read.                                                         *)

\* No name from p to the end of the lines before.
Behind(p, o) == p <= o + 1 /\ \A i \in p..Len(text) : i <= o => text[i] \notin Names

\* The parser finds the name and the "=" of the next line, or it ends because the
\* text does.
LEMMA NameRead ==
  ASSUME Readable, NEW l, NEW a, NEW b, Shape(l, a, b), NEW o, NEW size, Holds(l, o, size),
         o <= size, NEW p \in 1..(Len(text) + 1), Behind(p, o)
  PROVE  /\ EqualsPos(p) <= Len(text) <=> o + 2 <= size
         /\ o + 2 <= size => /\ NamePos(p) = o + 1 /\ At(NamePos(p)) = l[1]
                             /\ EqualsPos(p) = o + 2
<1>1. /\ o \in Nat /\ size \in Nat /\ Len(text) \in Nat /\ Len(l) \in Nat /\ Len(l) > 3 /\ p \in Nat
      /\ Len(text) = size \/ (Len(text) = size + 1 /\ text[size + 1] = Other)
      /\ l[1] \in Names /\ l[2] = "=" /\ p <= o + 1
  <2>1. Len(l) \in Nat /\ Len(l) > 3 /\ l[1] \in Names /\ l[2] = "="
    BY DEF Shape
  <2>2. Len(text) \in Nat /\ p \in Nat /\ p <= o + 1
    BY DEF Readable, Behind
  <2> QED BY <2>1, <2>2 DEF Holds
<1>2. /\ o + 1 <= size => text[o + 1] = l[1]
      /\ o + 2 <= size => text[o + 2] = "="
  <2>1. 1 \in 1..Len(l) /\ 2 \in 1..Len(l)
    BY <1>1
  <2> QED BY <1>1, <2>1 DEF Holds
<1>3. Other \notin Names /\ "=" \notin Names /\ "=" \notin Names \cup {"YES", "NO"}
  BY DEF Other, Names
<1>4. EqualsPos(p) \in NamePos(p)..(Len(text) + 1) /\ NamePos(p) \in p..(Len(text) + 1)
  BY NameType
<1>5. CASE size = o
  <2>1. \A r \in p..Len(text) : text[r] \notin Names
    <3> SUFFICES ASSUME NEW r \in p..Len(text) PROVE text[r] \notin Names
      OBVIOUS
    <3>1. r <= o \/ (r = size + 1 /\ Len(text) = size + 1)
      BY <1>1, <1>5
    <3> QED BY <1>1, <1>3, <3>1 DEF Behind
  <2>2. NamePos(p) = Len(text) + 1
    <3>1. Len(text) + 1 \in p..(Len(text) + 1) /\ (Len(text) + 1) - 1 = Len(text)
      BY <1>1
    <3> QED BY <1>1, <2>1, <3>1, FirstIs DEF NamePos
  <2> QED BY <1>1, <1>4, <1>5, <2>2
<1>6. CASE o + 1 <= size
  <2>1. o + 1 \in 1..Len(text) /\ o + 1 \in p..(Len(text) + 1) /\ text[o + 1] \in Names
    BY <1>1, <1>2, <1>6
  <2>2. \A r \in p..((o + 1) - 1) : text[r] \notin Names
    <3> SUFFICES ASSUME NEW r \in p..((o + 1) - 1) PROVE text[r] \notin Names
      OBVIOUS
    <3>1. r \in p..Len(text) /\ r <= o
      BY <1>1, <2>1
    <3> QED BY <3>1 DEF Behind
  <2>3. NamePos(p) = o + 1
    BY <1>1, <2>1, <2>2, FirstIs DEF NamePos
  <2>4. At(NamePos(p)) = l[1]
    BY <1>2, <1>6, <2>1, <2>3, AtText DEF Readable
  <2>5. CASE size = o + 1
    <3>1. Len(text) = size
      <4>1. 2 \in 1..Len(l) /\ o + 2 = size + 1
        BY <1>1, <2>5
      <4>2. ~ (Len(text) = size + 1)
        BY <1>1, <1>3, <4>1 DEF Holds
      <4> QED BY <1>1, <4>2
    <3>2. EqualsPos(p) # o + 1
      <4>1. EqualsPos(p) = Len(text) + 1 \/ text[EqualsPos(p)] \in {"="}
        <5>1. o + 1 \in 1..(Len(text) + 1)
          BY <1>1, <2>1
        <5> QED BY <1>1, <2>3, <5>1, FirstInType DEF EqualsPos
      <4> QED BY <1>1, <1>3, <2>1, <2>5, <3>1, <4>1
    <3> QED BY <1>1, <1>4, <2>3, <2>5, <3>1, <3>2
  <2>6. CASE o + 2 <= size
    <3>1. o + 1 \in 1..(Len(text) + 1) /\ o + 2 \in (o + 1)..(Len(text) + 1)
          /\ o + 2 <= Len(text)
      BY <1>1, <2>6
    <3>2. \A r \in (o + 1)..((o + 2) - 1) : text[r] \notin {"="}
      <4>1. text[o + 1] \notin {"="}
        BY <1>3, <2>1
      <4> QED BY <1>1, <4>1
    <3>3. FirstIn({"="}, o + 1) = o + 2
      <4>1. text[o + 2] \in {"="}
        BY <1>2, <2>6
      <4> QED BY <1>1, <3>1, <3>2, <4>1, FirstIs
    <3> QED BY <2>3, <2>4, <2>6, <3>1, <3>3 DEF EqualsPos
  <2> QED BY <1>1, <1>6, <2>5, <2>6
<1> QED BY <1>1, <1>5, <1>6

\* The blanks in front of the value are skipped.
LEMMA FirstRead ==
  ASSUME Readable, NEW l, NEW a, NEW b, Shape(l, a, b), NEW o, NEW size, Holds(l, o, size),
         o + 2 <= size
  PROVE  /\ o + 3 \in 1..(Len(text) + 1)
         /\ o + a <= size => Skip(Blank, o + 3) = o + a /\ At(o + a) = l[a]
         /\ ~ (o + a <= size) => At(Skip(Blank, o + 3)) \in {Nul, Other}
<1>1. /\ o \in Nat /\ size \in Nat /\ Len(text) \in Nat /\ Len(l) \in Nat
      /\ a \in Nat /\ b \in Nat /\ 3 <= a /\ a <= b /\ b < Len(l)
      /\ Len(text) = size \/ (Len(text) = size + 1 /\ text[size + 1] = Other)
  BY DEF Readable, Shape, Holds
<1>2. o + 3 \in 1..(Len(text) + 1)
  BY <1>1
<1>3. \A r \in (o + 3)..(o + a - 1) : r <= size => text[r] \in Blank
  <2> SUFFICES ASSUME NEW r \in (o + 3)..(o + a - 1), r <= size PROVE text[r] \in Blank
    OBVIOUS
  <2> DEFINE k == r - o
  <2>1. k \in 3..(a - 1) /\ k \in 1..Len(l) /\ o + k = r
    BY <1>1
  <2> HIDE DEF k
  <2>2. text[o + k] = l[k]
    BY <2>1 DEF Holds
  <2> QED BY <2>1, <2>2 DEF Shape
<1>4. ASSUME o + a <= size
      PROVE  Skip(Blank, o + 3) = o + a /\ At(o + a) = l[a]
  <2>1. text[o + a] = l[a] /\ o + a \in 1..Len(text)
    <3>1. a \in 1..Len(l)
      BY <1>1
    <3> QED BY <1>1, <1>4, <3>1 DEF Holds
  <2>2. l[a] \notin Blank
    <3>1. l[a] \in Digits \cup {"YES", "NO"}
      BY <1>1 DEF Shape
    <3> QED BY <3>1 DEF Digits, Blank
  <2>3. o + a \in (o + 3)..(Len(text) + 1)
    BY <1>1, <1>4
  <2>4. \A r \in (o + 3)..((o + a) - 1) : text[r] \in Blank
    <3> SUFFICES ASSUME NEW r \in (o + 3)..((o + a) - 1) PROVE text[r] \in Blank
      OBVIOUS
    <3>1. r \in (o + 3)..(o + a - 1) /\ r <= size
      BY <1>1, <1>4
    <3> QED BY <1>3, <3>1
  <2>5. Skip(Blank, o + 3) = o + a
    BY <1>2, <2>1, <2>2, <2>3, <2>4, SkipIs
  <2> QED BY <2>1, <2>5, AtText
<1>5. ASSUME ~ (o + a <= size)
      PROVE  At(Skip(Blank, o + 3)) \in {Nul, Other}
  <2>1. size + 1 \in (o + 3)..(Len(text) + 1)
    BY <1>1, <1>5
  <2>2. \A r \in (o + 3)..((size + 1) - 1) : text[r] \in Blank
    <3> SUFFICES ASSUME NEW r \in (o + 3)..((size + 1) - 1) PROVE text[r] \in Blank
      OBVIOUS
    <3>1. r \in (o + 3)..(o + a - 1) /\ r <= size
      BY <1>1, <1>5
    <3> QED BY <1>3, <3>1
  <2>3. size + 1 = Len(text) + 1 \/ text[size + 1] \notin Blank
    BY <1>1 DEF Other, Blank
  <2>4. Skip(Blank, o + 3) = size + 1
    BY <1>2, <2>1, <2>2, <2>3, SkipIs
  <2>5. At(size + 1) \in {Nul, Other}
    BY <1>1, AtText
  <2> QED BY <2>4, <2>5
<1> QED BY <1>2, <1>4, <1>5

\* The digits of a number are read to the last one, or to where the text ends.
LEMMA DigitsRead ==
  ASSUME Readable, NEW l, NEW a, NEW b, Shape(l, a, b), l[1] # "PROG",
         NEW o, NEW size, Holds(l, o, size), o + a <= size
  PROVE  /\ o + b <= size => Skip(Digits, o + a) = o + b + 1
         /\ ~ (o + b <= size) => /\ Skip(Digits, o + a) = size + 1
                                 /\ At(Skip(Blank, size + 1)) \notin Ends
<1>1. /\ o \in Nat /\ size \in Nat /\ Len(text) \in Nat /\ Len(l) \in Nat
      /\ a \in Nat /\ b \in Nat /\ 3 <= a /\ a <= b /\ b < Len(l)
      /\ Len(text) = size \/ (Len(text) = size + 1 /\ text[size + 1] = Other)
  BY DEF Readable, Shape, Holds
<1>2. \A r \in (o + a)..(o + b) : r <= size => text[r] \in Digits
  <2> SUFFICES ASSUME NEW r \in (o + a)..(o + b), r <= size PROVE text[r] \in Digits
    OBVIOUS
  <2> DEFINE k == r - o
  <2>1. k \in a..b /\ k \in 1..Len(l) /\ o + k = r
    BY <1>1
  <2> HIDE DEF k
  <2>2. text[o + k] = l[k]
    BY <2>1 DEF Holds
  <2> QED BY <2>1, <2>2 DEF Shape
<1>3. o + a \in 1..(Len(text) + 1) /\ size + 1 \in 1..(Len(text) + 1)
  BY <1>1
<1>4. Other \notin Digits /\ Other \notin Blank /\ Other \notin Ends /\ Nul \notin Ends
  BY DEF Other, Nul, Digits, Blank, Ends
<1>5. ASSUME o + b <= size PROVE Skip(Digits, o + a) = o + b + 1
  <2> DEFINE q == o + b + 1
  <2>1. q \in (o + a)..(Len(text) + 1)
    BY <1>1, <1>5
  <2>2. q = Len(text) + 1 \/ text[q] \notin Digits
    <3>1. CASE q <= size
      <4>1. b + 1 \in 1..Len(l) /\ o + (b + 1) = q
        BY <1>1
      <4>2. text[q] = l[b + 1]
        BY <3>1, <4>1 DEF Holds
      <4>3. l[b + 1] \in Blank \cup {"cr", "nl"}
        <5>1. b + 1 = Len(l) \/ b + 1 \in (b + 1)..(Len(l) - 1)
          BY <1>1
        <5> QED BY <5>1 DEF Shape
      <4> QED BY <4>2, <4>3 DEF Blank, Digits
    <3>2. CASE ~ (q <= size)
      <4>1. q = size + 1
        BY <1>1, <1>5, <3>2
      <4> QED BY <1>1, <1>4, <4>1
    <3> QED BY <3>1, <3>2
  <2>3. \A r \in (o + a)..(q - 1) : text[r] \in Digits
    <3> SUFFICES ASSUME NEW r \in (o + a)..(q - 1) PROVE text[r] \in Digits
      OBVIOUS
    <3>1. r \in (o + a)..(o + b) /\ r <= size
      BY <1>1, <1>5
    <3> QED BY <1>2, <3>1
  <2> HIDE DEF q
  <2>4. Skip(Digits, o + a) = q
    BY <1>3, <2>1, <2>2, <2>3, SkipIs
  <2> QED BY <2>4 DEF q
<1>6. ASSUME ~ (o + b <= size)
      PROVE  Skip(Digits, o + a) = size + 1 /\ At(Skip(Blank, size + 1)) \notin Ends
  <2>1. size + 1 \in (o + a)..(Len(text) + 1) /\ size + 1 \in (size + 1)..(Len(text) + 1)
    BY <1>1, <1>6
  <2>2. \A r \in (o + a)..((size + 1) - 1) : text[r] \in Digits
    <3> SUFFICES ASSUME NEW r \in (o + a)..((size + 1) - 1) PROVE text[r] \in Digits
      OBVIOUS
    <3>1. r \in (o + a)..(o + b) /\ r <= size
      BY <1>1, <1>6
    <3> QED BY <1>2, <3>1
  <2>3. /\ size + 1 = Len(text) + 1 \/ text[size + 1] \notin Digits
        /\ size + 1 = Len(text) + 1 \/ text[size + 1] \notin Blank
    BY <1>1, <1>4
  <2>4. Skip(Digits, o + a) = size + 1
    BY <1>3, <2>1, <2>2, <2>3, SkipIs
  <2>5. \A r \in (size + 1)..((size + 1) - 1) : text[r] \in Blank
    BY <1>1
  <2>6. Skip(Blank, size + 1) = size + 1
    BY <1>3, <2>1, <2>3, <2>5, SkipIs
  <2>7. At(size + 1) \notin Ends
    BY <1>1, <1>4, AtText
  <2> QED BY <2>4, <2>6, <2>7
<1> QED BY <1>5, <1>6

\* A number that the parser takes is the number on the line: never a part of it,
\* though the text may end within.
LEMMA NumberRead ==
  ASSUME Readable, NEW l, NEW a, NEW b, Shape(l, a, b), l[1] # "PROG",
         NEW o, NEW size, Holds(l, o, size), o + 2 <= size, StrIsValidInteger(o + 3)
  PROVE  Strtoul(o + 3) = Number(ValueOf(l))
<1> DEFINE first == Skip(Blank, o + 3)
<1>1. /\ o \in Nat /\ size \in Nat /\ Len(l) \in Nat
      /\ a \in Nat /\ b \in Nat /\ 3 <= a /\ a <= b /\ b < Len(l)
      /\ o + 3 \in 1..(Len(text) + 1)
  BY FirstRead DEF Shape, Holds
<1>2. o + a <= size
  <2> SUFFICES ASSUME ~ (o + a <= size) PROVE FALSE
    OBVIOUS
  <2>1. At(first) \in {Nul, Other}
    BY FirstRead
  <2>2. first \in (o + 3)..(Len(text) + 1) /\ first \in 1..(Len(text) + 1)
    <3>1. first \in (o + 3)..(Len(text) + 1)
      BY <1>1, SkipType
    <3> QED BY <1>1, <3>1 DEF Readable
  <2>3. first = Len(text) + 1 \/ text[first] = Other
    <3>1. first \notin 1..Len(text) => first = Len(text) + 1
      BY <2>2 DEF Readable
    <3> QED BY <2>1, <2>2, <3>1, AtText, NulApart
  <2>4. At(first) # "0" /\ At(first) # "cr" /\ At(first) # "nl"
    BY <2>1 DEF Nul, Other
  <2>5. IF At(first) = "0" THEN TRUE
        ELSE LET r == Skip(Blank, Skip(Digits, first))
             IN  At(IF At(r) = "cr" THEN r + 1 ELSE r) = "nl"
    BY DEF StrIsValidInteger
  <2> HIDE DEF first
  <2>6. \A set : \A i \in first..(first - 1) : text[i] \in set
    BY <2>2
  <2>7. first \in first..(Len(text) + 1) /\ Other \notin Digits /\ Other \notin Blank
    BY <2>2 DEF Other, Digits, Blank, Readable
  <2>8. Skip(Digits, first) = first /\ Skip(Blank, first) = first
    <3>1. Skip(Digits, first) = first
      BY <2>2, <2>3, <2>6, <2>7, SkipIs
    <3>2. Skip(Blank, first) = first
      BY <2>2, <2>3, <2>6, <2>7, SkipIs
    <3> QED BY <3>1, <3>2
  <2> QED BY <2>4, <2>5, <2>8
<1>3. first = o + a /\ At(first) \in Digits
  <2>1. first = o + a /\ At(o + a) = l[a]
    BY <1>2, FirstRead
  <2>2. l[a] \in Digits
    BY <1>1 DEF Shape
  <2> QED BY <2>1, <2>2
<1>4. /\ Strtoul(o + 3) = Number(SubSeq(text, o + a, Skip(Digits, o + a) - 1))
      /\ At(Skip(Blank, Skip(Digits, o + a))) \in Ends
  BY <1>1, <1>3, Converted
<1>5. o + b <= size /\ Skip(Digits, o + a) = o + b + 1
  BY <1>2, <1>4, DigitsRead
<1>6. SubSeq(text, o + a, o + b) = SubSeq(l, a, b)
  <2>1. \A i \in a..b : text[o + i] = l[i]
    <3> SUFFICES ASSUME NEW i \in a..b PROVE text[o + i] = l[i]
      OBVIOUS
    <3>1. i \in 1..Len(l) /\ o + i <= size
      BY <1>1, <1>5
    <3> QED BY <3>1 DEF Holds
  <2>2. a \in Int /\ b \in Int /\ o \in Int
    BY <1>1
  <2> QED BY <2>1, <2>2, SameSlice
<1>7. Skip(Digits, o + a) - 1 = o + b
  BY <1>1, <1>5
<1>8. ValueOf(l) = SubSeq(l, a, b)
  BY DEF Shape
<1>9. Strtoul(o + 3) = Number(SubSeq(text, o + a, Skip(Digits, o + a) - 1))
  BY <1>4
<1> HIDE DEF first
<1> QED BY <1>6, <1>7, <1>8, <1>9

\* A line that is in the text with its end passes the check.
LEMMA NumberValid ==
  ASSUME Readable, NEW l, NEW a, NEW b, Shape(l, a, b), l[1] # "PROG",
         NEW o, NEW size, Holds(l, o, size), o + Len(l) <= size
  PROVE  StrIsValidInteger(o + 3)
<1> DEFINE n == o + Len(l)
           q == o + b + 1
           rest == Skip(Blank, q)
<1>1. /\ o \in Nat /\ size \in Nat /\ Len(l) \in Nat /\ Len(text) \in Nat /\ size <= Len(text)
      /\ a \in Nat /\ b \in Nat /\ 3 <= a /\ a <= b /\ b < Len(l)
      /\ l[a] # "0" /\ l[Len(l)] = "nl"
      /\ \A i \in (b + 1)..(Len(l) - 1) : l[i] \in Blank \/ (l[i] = "cr" /\ i = Len(l) - 1)
  <2>1. o \in Nat /\ size \in Nat /\ Len(text) \in Nat /\ size <= Len(text)
    <3>1. o \in Nat /\ size \in Nat /\ Len(text) \in {size, size + 1}
      BY DEF Holds
    <3> QED BY <3>1
  <2> QED BY <2>1 DEF Shape
<1>2. o + 2 <= size /\ o + a <= size /\ o + b <= size
  BY <1>1
<1>3. Skip(Blank, o + 3) = o + a /\ At(o + a) # "0"
  BY <1>1, <1>2, FirstRead
<1>4. Skip(Digits, o + a) = q
  BY <1>2, DigitsRead
<1>5. \A r \in q..n : r \in 1..Len(text) /\ text[r] = l[r - o] /\ r - o \in (b + 1)..Len(l)
  <2> SUFFICES ASSUME NEW r \in q..n
               PROVE  r \in 1..Len(text) /\ text[r] = l[r - o] /\ r - o \in (b + 1)..Len(l)
    OBVIOUS
  <2> DEFINE k == r - o
  <2>1. k \in (b + 1)..Len(l) /\ k \in 1..Len(l) /\ o + k = r /\ r <= size /\ r \in 1..Len(text)
    BY <1>1
  <2> HIDE DEF k
  <2>2. text[o + k] = l[k]
    BY <2>1 DEF Holds
  <2> QED BY <2>1, <2>2 DEF k
<1>6. q \in 1..(Len(text) + 1) /\ q <= n /\ n \in Nat
  BY <1>1
<1>7. text[n] = "nl" /\ n \in 1..Len(text)
  <2>1. n \in q..n /\ n - o = Len(l)
    BY <1>1, <1>6
  <2> QED BY <1>1, <1>5, <2>1
<1> HIDE DEF q, n
<1>8. /\ rest \in q..(Len(text) + 1)
      /\ rest = Len(text) + 1 \/ text[rest] \notin Blank
      /\ \A r \in q..(rest - 1) : text[r] \in Blank
  BY <1>6, SkipType
<1> HIDE DEF rest
<1>9. rest <= n
  <2>1. n < rest => n \in q..(rest - 1)
    BY <1>6, <1>8
  <2>2. text[n] \notin Blank
    BY <1>7 DEF Blank
  <2> QED BY <1>6, <1>8, <2>1, <2>2
<1>10. rest \in q..n /\ text[rest] \notin Blank /\ rest \in 1..Len(text)
  <2>1. rest \in q..n /\ rest # Len(text) + 1
    BY <1>1, <1>6, <1>7, <1>8, <1>9
  <2> QED BY <1>5, <1>8, <2>1
<1>11. CASE rest = n
  <2>1. At(rest) = "nl"
    BY <1>7, <1>11, AtText DEF Readable
  <2> QED BY <1>3, <1>4, <2>1 DEF StrIsValidInteger, rest
<1>12. CASE rest # n
  <2>1. rest - o \in (b + 1)..Len(l) /\ rest - o # Len(l) /\ text[rest] = l[rest - o]
    BY <1>1, <1>5, <1>10, <1>12 DEF n
  <2>2. rest - o \in (b + 1)..(Len(l) - 1)
    BY <1>1, <2>1
  <2>3. text[rest] = "cr" /\ rest - o = Len(l) - 1
    BY <1>1, <1>10, <2>1, <2>2
  <2>4. rest + 1 = n
    BY <1>1, <1>10, <2>3, <1>6 DEF n
  <2>5. At(rest) = "cr" /\ At(rest + 1) = "nl"
    BY <1>7, <1>10, <2>3, <2>4, AtText DEF Readable
  <2> QED BY <1>3, <1>4, <2>5 DEF StrIsValidInteger, rest
<1> QED BY <1>11, <1>12

\* Behind the name of a line there is no other up to its end, where strpbrk stops at
\* the latest.
LEMMA NextRead ==
  ASSUME Readable, NEW l, NEW a, NEW b, Shape(l, a, b), NEW o, NEW size, Holds(l, o, size),
         NEW q \in 1..(Len(text) + 1), o + 2 <= q, q <= o + Len(l)
  PROVE  Behind(NextLine(q), o + Len(l))
<1> DEFINE n == o + Len(l)
           f == NextLine(q)
<1>1. o \in Nat /\ size \in Nat /\ Len(l) \in Nat /\ Len(l) > 3 /\ l[Len(l)] = "nl"
      /\ Len(text) \in Nat
      /\ (Len(text) = size \/ (Len(text) = size + 1 /\ text[size + 1] = Other))
  <2>1. Len(l) \in Nat /\ Len(l) > 3 /\ l[Len(l)] = "nl"
    BY DEF Shape
  <2> QED BY <2>1 DEF Holds, Readable
<1>2. f \in q..(Len(text) + 1) /\ \A r \in q..(f - 1) : text[r] \notin Ends
  BY FirstInType DEF NextLine, Readable
<1> HIDE DEF f
<1>3. f <= n + 1
  <2>1. CASE n <= size
    <3>1. text[n] = "nl"
      <4>1. Len(l) \in 1..Len(l)
        BY <1>1
      <4> QED BY <1>1, <2>1, <4>1 DEF Holds
    <3>2. n < f => n \in q..(f - 1)
      BY <1>1, <1>2
    <3>3. ~ (n < f)
      BY <1>2, <3>1, <3>2 DEF Ends
    <3> QED BY <1>1, <1>2, <3>3
  <2>2. CASE ~ (n <= size)
    BY <1>1, <1>2, <2>2
  <2> QED BY <2>1, <2>2
<1>4. ASSUME NEW i \in f..Len(text), i <= n PROVE text[i] \notin Names
  <2>1. CASE i <= size
    <3> DEFINE k == i - o
    <3>1. k \in 2..Len(l) /\ k \in 1..Len(l) /\ o + k = i
      BY <1>1, <1>2, <1>4
    <3> HIDE DEF k
    <3>2. text[o + k] = l[k]
      BY <2>1, <3>1 DEF Holds
    <3> QED BY <3>1, <3>2, OneName
  <2>2. CASE ~ (i <= size)
    <3>1. i = size + 1 /\ text[size + 1] = Other
      BY <1>1, <1>2, <1>4, <2>2
    <3> QED BY <3>1 DEF Other, Names
  <2> QED BY <2>1, <2>2
<1> QED BY <1>3, <1>4 DEF Behind, f, n

\* One turn of the loop at the end of the lines before: the parser takes what the
\* line says, ends because the name or its "=" is cut off, or rejects a line that is
\* not all there.
LEMMA LineRead ==
  ASSUME TypeOK, ParseOption, NEW l, NEW a, NEW b, Shape(l, a, b), NEW o, NEW size,
         Holds(l, o, size), o <= size, Behind(pos, o)
  PROVE  /\ outcome' = "error" => size < o + Len(l)
         /\ outcome' = "ok" => size < o + Len(l) /\ config' = config
         /\ outcome' = "none" => config' = Says(l, config) /\ Behind(pos', o + Len(l))
<1>1. Readable /\ pos \in 1..(Len(text) + 1) /\ outcome = "none"
  BY Turn, TextReadable
<1>2. /\ o \in Nat /\ size \in Nat /\ Len(l) \in Nat /\ Len(l) > 3
      /\ a \in Nat /\ b \in Nat /\ 3 <= a /\ a <= b /\ b < Len(l) /\ l[1] \in Names
  BY DEF Holds, Shape
<1>3. /\ EqualsPos(pos) <= Len(text) <=> o + 2 <= size
      /\ o + 2 <= size => /\ NamePos(pos) = o + 1 /\ At(NamePos(pos)) = l[1]
                          /\ EqualsPos(pos) = o + 2
  BY <1>1, NameRead
<1>4. EqualsPos(pos) + 1 = o + 3 <=> EqualsPos(pos) = o + 2
  <2>1. EqualsPos(pos) \in Int
    BY <1>1, NameType DEF Readable
  <2> QED BY <1>2, <2>1
<1>5. EqualsPos(pos) \in Nat /\ Len(text) \in Nat
  BY <1>1, NameType DEF Readable
<1>6. CASE outcome' = "ok"
  <2>1. EqualsPos(pos) > Len(text) /\ config' = config
    BY <1>1, <1>6, Turn
  <2>2. ~ (o + 2 <= size)
    BY <1>3, <1>5, <2>1
  <2> QED BY <1>2, <1>6, <2>1, <2>2
<1>7. CASE outcome' = "error"
  <2> SUFFICES ASSUME ~ (size < o + Len(l)) PROVE FALSE
    BY <1>7
  <2>1. o + Len(l) <= size /\ o + 2 <= size /\ o + a <= size
    BY <1>2
  <2>2. IF l[1] = "PROG" THEN At(Skip(Blank, o + 3)) \notin {"YES", "NO"}
                         ELSE ~ StrIsValidInteger(o + 3)
    BY <1>1, <1>3, <1>4, <1>7, <2>1, Turn
  <2>3. CASE l[1] = "PROG"
    <3>1. At(Skip(Blank, o + 3)) = l[a]
      BY <1>1, <2>1, FirstRead
    <3>2. l[a] \in {"YES", "NO"}
      BY <2>3 DEF Shape
    <3> QED BY <2>2, <2>3, <3>1, <3>2
  <2>4. CASE l[1] # "PROG"
    BY <1>1, <2>1, <2>2, <2>4, NumberValid
  <2> QED BY <2>3, <2>4
<1>8. CASE outcome' = "none"
  <2>1. EqualsPos(pos) <= Len(text)
    BY <1>8, Turn
  <2>2. o + 2 <= size /\ At(NamePos(pos)) = l[1] /\ EqualsPos(pos) + 1 = o + 3
    BY <1>3, <1>4, <2>1
  <2>3. o + 3 \in 1..(Len(text) + 1)
    BY <1>1, <2>2, FirstRead
  <2>4. CASE l[1] = "PROG"
    <3> DEFINE first == Skip(Blank, o + 3)
    <3>1. At(first) \in {"YES", "NO"} /\ pos' = NextLine(first)
          /\ config' = [config EXCEPT !.prog = (At(first) = "YES")]
      BY <1>8, <2>2, <2>4, Turn
    <3>2. o + a <= size
      <4>1. ~ (o + a <= size) => At(first) \in {Nul, Other}
        BY <1>1, <2>2, FirstRead
      <4> QED BY <3>1, <4>1 DEF Nul, Other
    <3>3. first = o + a /\ At(first) = l[a]
      BY <1>1, <2>2, <3>2, FirstRead
    <3>4. (ValueOf(l) = <<"YES">>) <=> (l[a] = "YES")
      <4>1. a = b /\ ValueOf(l) = SubSeq(l, a, a)
        BY <2>4 DEF Shape
      <4> DEFINE v == SubSeq(l, a, a)
      <4>2. v = <<l[a]>>
        <5>1. v \in Seq({l[a]}) /\ Len(v) = 1
          <6>1. \A i \in a..a : l[i] \in {l[a]}
            BY <1>2
          <6>2. a \in Int /\ a <= a /\ a - a + 1 = 1
            BY <1>2
          <6> QED BY <6>1, <6>2, SubSeqProperties
        <5> HIDE DEF v
        <5>2. v[1] = l[a]
          BY <5>1
        <5> QED BY <5>1, <5>2
      <4> HIDE DEF v
      <4>3. ValueOf(l) = <<l[a]>>
        BY <4>1, <4>2 DEF v
      <4> QED BY <4>3
    <3>5. config' = Says(l, config)
      <4>1. Says(l, config) = [config EXCEPT !.prog = (ValueOf(l) = <<"YES">>)]
        BY <2>4 DEF Says
      <4> QED BY <3>1, <3>3, <3>4, <4>1
    <3>6. Behind(NextLine(o + a), o + Len(l))
      <4>1. o + a \in 1..(Len(text) + 1) /\ o + 2 <= o + a /\ o + a <= o + Len(l)
        <5>1. Len(text) = size \/ Len(text) = size + 1
          BY DEF Holds
        <5> QED BY <1>2, <1>5, <3>2, <5>1
      <4> QED BY <1>1, <4>1, NextRead
    <3> QED BY <1>8, <3>1, <3>3, <3>5, <3>6
  <2>5. CASE l[1] # "PROG"
    <3>1. /\ StrIsValidInteger(o + 3) /\ pos' = NextLine(o + 3)
          /\ \/ l[1] = "FPGA" /\ config' = [config EXCEPT !.fpga = Strtoul(o + 3)]
             \/ l[1] = "FLASH" /\ config' = [config EXCEPT !.flash = Strtoul(o + 3)]
      BY <1>8, <2>2, <2>5, Turn
    <3>2. Strtoul(o + 3) = Number(ValueOf(l))
      BY <1>1, <2>2, <2>5, <3>1, NumberRead
    <3>3. config' = Says(l, config)
      BY <3>1, <3>2 DEF Says
    <3>4. Behind(NextLine(o + 3), o + Len(l))
      <4>1. o + 2 <= o + 3 /\ o + 3 <= o + Len(l)
        BY <1>2
      <4> QED BY <1>1, <2>3, <4>1, NextRead
    <3> QED BY <1>8, <3>1, <3>3, <3>4
  <2> QED BY <2>4, <2>5
<1>9. outcome' \in {"none", "ok", "error"}
  BY <1>1, Turn
<1> QED BY <1>6, <1>7, <1>8, <1>9

\* Where the text ends before the line does, there is no option left.
LEMMA EndRead ==
  ASSUME Readable, NEW o \in Nat, Len(text) <= o, NEW p \in 1..(Len(text) + 1), Behind(p, o)
  PROVE  EqualsPos(p) > Len(text)
<1>1. Len(text) \in Nat /\ p \in Nat
  BY DEF Readable
<1>2. \A r \in p..((Len(text) + 1) - 1) : text[r] \notin Names
  BY <1>1 DEF Behind
<1>3. NamePos(p) = Len(text) + 1
  <2>1. Len(text) + 1 \in p..(Len(text) + 1)
    BY <1>1
  <2> QED BY <1>1, <1>2, <2>1, FirstIs DEF NamePos
<1>4. EqualsPos(p) \in NamePos(p)..(Len(text) + 1)
  BY NameType
<1> QED BY <1>1, <1>3, <1>4

-----------------------------------------------------------------------------
(* All lines, read.                                                        *)

\* No line ends behind the file.
LEMMA OffsetsBelow ==
  ASSUME NEW ls \in Seq(Seq(Symbols)), NEW file \in Seq(Symbols),
         NEW e \in [0..Len(ls) -> Nat], Offsets(e, ls, file)
  PROVE  \A n \in 0..Len(ls) : e[n] <= Len(file)
<1> DEFINE N == Len(ls)
           P == {k \in 0..N : e[N - k] <= Len(file)}
<1>1. N \in Nat /\ Len(file) \in Nat /\ e[N] = Len(file)
  BY DEF Offsets
<1>2. \A i \in 1..N : e[i] = e[i - 1] + Len(ls[i]) /\ Len(ls[i]) \in Nat
  <2>1. \A i \in 1..N : ls[i] \in Seq(Symbols)
    OBVIOUS
  <2> QED BY <2>1 DEF Offsets
<1> HIDE DEF N
<1>3. 0 \in P
  <2>1. N - 0 = N
    BY <1>1
  <2> QED BY <1>1, <2>1
<1>4. ASSUME NEW k \in 0..(N - 1), k \in P PROVE k + 1 \in P
  <2>1. k + 1 \in 0..N /\ N - k \in 1..N /\ (N - k) - 1 = N - (k + 1)
        /\ N - k \in 0..N /\ N - (k + 1) \in 0..N
    BY <1>1
  <2>2. e[N - k] = e[N - (k + 1)] + Len(ls[N - k]) /\ Len(ls[N - k]) \in Nat
    BY <1>2, <2>1
  <2>3. e[N - k] \in Nat /\ e[N - (k + 1)] \in Nat
    BY <2>1 DEF N
  <2>4. e[N - (k + 1)] <= Len(file)
    BY <1>1, <1>4, <2>2, <2>3
  <2> QED BY <2>1, <2>4
<1>5. 0..N \subseteq P
  <2> HIDE DEF P
  <2> QED BY <1>1, <1>3, <1>4, CountUp
<1>6. ASSUME NEW n \in 0..N PROVE e[n] <= Len(file)
  <2>1. N - n \in 0..N /\ N - (N - n) = n
    BY <1>1
  <2>2. N - n \in P
    BY <1>5, <2>1
  <2> QED BY <2>1, <2>2
<1> QED BY <1>6 DEF N

\* A file of plain lines is a sequence of them.
LEMMA AllPlainLines ==
  TypeOK /\ AllPlain => /\ lines \in Seq(PlainLines) /\ lines \in Seq(Seq(Symbols))
                        /\ FlattenSeq(lines) \in Seq(Symbols)
<1> SUFFICES ASSUME TypeOK, AllPlain
             PROVE  /\ lines \in Seq(PlainLines) /\ lines \in Seq(Seq(Symbols))
                    /\ FlattenSeq(lines) \in Seq(Symbols)
  OBVIOUS
<1>1. lines \in Seq(Lines)
  BY DEF TypeOK
<1>2. \A i \in 1..Len(lines) : lines[i] \in Seq(Symbols) /\ IsPlain(lines[i])
  BY <1>1, OptionAssumption DEF AllPlain
<1>3. \A i \in 1..Len(lines) : lines[i] \in PlainLines
  BY <1>2 DEF PlainLines
<1>4. lines \in Seq(PlainLines)
  <2> HIDE DEF PlainLines
  <2> QED BY <1>1, <1>3
<1>5. lines \in Seq(Seq(Symbols))
  BY <1>1, <1>2
<1> QED BY <1>1, <1>4, <1>5, FileSymbols

\* After n lines: their words are CONFIG, and the parser is behind the name of the
\* last one.  It ends there if the text does, and rejects only a line that is cut
\* or a file that is too large or empty.
After(e, size, n) ==
  /\ config = SaysAll(First(lines, n))
  /\ outcome = "none" => Behind(pos, e[n])
  /\ outcome = "ok" => n = Len(lines) \/ size < Len(FlattenSeq(lines))

Rejects(size) ==
  size < Len(FlattenSeq(lines)) \/ ~ SizeRead(Bytes(FlattenSeq(lines)))

ReadAsSaid ==
  /\ pos = 0 => outcome = "none" /\ config = OldConfig
  /\ AllPlain /\ pos > 0 =>
       \E e \in [0..Len(lines) -> Nat], size \in Nat :
         /\ Offsets(e, lines, FlattenSeq(lines)) /\ Cut(text, FlattenSeq(lines), size)
         /\ IF outcome = "error" THEN Rejects(size)
            ELSE \E n \in 0..Len(lines) : After(e, size, n)

\* The parser never goes back.
LEMMA Forward == TypeOK /\ ParseOption => pos' \in pos..(Len(text) + 1)
<1> SUFFICES ASSUME TypeOK, ParseOption PROVE pos' \in pos..(Len(text) + 1)
  OBVIOUS
<1>1. Readable /\ pos \in 1..(Len(text) + 1) /\ Len(text) \in Nat
  BY Turn, TextReadable DEF Readable
<1>2. CASE pos' = pos
  BY <1>1, <1>2
<1>3. ASSUME EqualsPos(pos) <= Len(text),
             NEW q \in (EqualsPos(pos) + 1)..(Len(text) + 1), pos' = NextLine(q)
      PROVE  pos' \in pos..(Len(text) + 1)
  <2>1. EqualsPos(pos) \in Nat /\ pos <= EqualsPos(pos)
    <3>1. NamePos(pos) \in pos..(Len(text) + 1)
          /\ EqualsPos(pos) \in NamePos(pos)..(Len(text) + 1)
      BY <1>1, NameType
    <3>2. pos \in Nat /\ NamePos(pos) \in Nat /\ pos <= NamePos(pos)
      BY <1>1, <3>1
    <3> QED BY <1>1, <3>1, <3>2
  <2>2. q \in 1..(Len(text) + 1) /\ pos <= q
    BY <1>1, <2>1
  <2>3. NextLine(q) \in q..(Len(text) + 1)
    BY <1>1, <2>2, NextLineType
  <2> QED BY <1>1, <1>3, <2>2, <2>3
<1>4. CASE /\ EqualsPos(pos) <= Len(text)
           /\ \/ pos' = NextLine(Skip(Blank, EqualsPos(pos) + 1))
              \/ pos' = NextLine(EqualsPos(pos) + 1)
  <2>1. EqualsPos(pos) + 1 \in 1..(Len(text) + 1)
    BY <1>1, <1>4, NameType
  <2>2. Skip(Blank, EqualsPos(pos) + 1) \in (EqualsPos(pos) + 1)..(Len(text) + 1)
    BY <1>1, <2>1, SkipType
  <2>3. EqualsPos(pos) + 1 \in (EqualsPos(pos) + 1)..(Len(text) + 1)
    BY <1>1, <2>1
  <2> QED BY <1>3, <1>4, <2>2, <2>3
<1> QED BY <1>2, <1>4, Turn

\* Before the parser runs, CONFIG is the old one.
LEMMA ReadInit == Init => ReadAsSaid
<1> SUFFICES ASSUME Init PROVE ReadAsSaid
  OBVIOUS
<1>1. pos = 0 /\ outcome = "none" /\ config = OldConfig
  BY DEF Init
<1>2. ~ (pos > 0)
  BY <1>1
<1> QED BY <1>1, <1>2 DEF ReadAsSaid

\* The parser starts: no line is read, and no name is behind.
LEMMA ReadParse == TypeOK /\ ReadAsSaid /\ Parse => ReadAsSaid'
<1> SUFFICES ASSUME TypeOK, ReadAsSaid, Parse PROVE ReadAsSaid'
  OBVIOUS
<1> DEFINE file == FlattenSeq(lines)
<1>1. /\ pos = 0 /\ outcome = "none" /\ config = OldConfig
      /\ pos' = 1 /\ config' = config /\ lines' = lines
  BY ParseCuts DEF ReadAsSaid
<1>2. PICK size \in 0..Len(file), k \in Int :
        /\ k = 0 \/ (size < Len(file) /\ file[size + 1] \in Names \cup {"YES", "NO"})
        /\ text' = Terminated(file, size, k)
        /\ outcome' = IF SizeRead(Bytes(SubSeq(file, 1, size)) + k) THEN "none" ELSE "error"
  BY ParseCuts
<1> SUFFICES ASSUME AllPlain
             PROVE  \E e \in [0..Len(lines) -> Nat], s \in Nat :
                      /\ Offsets(e, lines, file) /\ Cut(text', file, s)
                      /\ IF outcome' = "error" THEN Rejects(s)
                         ELSE \E n \in 0..Len(lines) : After(e, s, n)'
  <2>1. AllPlain' <=> AllPlain
    BY <1>1 DEF AllPlain
  <2>2. pos' # 0
    BY <1>1
  <2> QED BY <1>1, <2>1, <2>2 DEF ReadAsSaid, Rejects
<1>3. lines \in Seq(PlainLines) /\ lines \in Seq(Seq(Symbols)) /\ file \in Seq(Symbols)
  BY AllPlainLines
<1>4. PICK e \in [0..Len(lines) -> Nat] : Offsets(e, lines, file)
  BY <1>3, Located
<1>5. size \in Nat /\ Cut(text', file, size)
  BY <1>2, <1>3, TerminatedCut
<1>6. 0 \in 0..Len(lines) /\ e[0] = 0
  BY <1>3, <1>4 DEF Offsets
<1>7. CASE outcome' = "none"
  <2>1. config' = SaysAll(First(lines', 0))
    BY <1>1, <1>3, SaysNext
  <2>2. Behind(pos, e[0])'
    BY <1>1, <1>6 DEF Behind
  <2>3. After(e, size, 0)'
    BY <1>7, <2>1, <2>2 DEF After
  <2> QED BY <1>4, <1>5, <1>6, <1>7, <2>3
<1>8. CASE outcome' = "error"
  <2>1. ~ SizeRead(Bytes(SubSeq(file, 1, size)) + k)
    BY <1>2, <1>8
  <2>2. CASE size < Len(file)
    <3>1. Rejects(size)
      BY <2>2 DEF Rejects
    <3> QED BY <1>4, <1>5, <1>8, <3>1
  <2>3. CASE ~ (size < Len(file))
    <3>1. size = Len(file) /\ k = 0
      BY <1>2, <1>3, <2>3
    <3>2. SubSeq(file, 1, size) = file
      BY <1>3, <3>1
    <3>3. Rejects(size)
      <4>1. Bytes(file) + 0 = Bytes(file)
        BY <1>3, BytesType
      <4> QED BY <2>1, <3>1, <3>2, <4>1 DEF Rejects
    <3> QED BY <1>4, <1>5, <1>8, <3>3
  <2> QED BY <2>2, <2>3
<1> QED BY <1>2, <1>7, <1>8

\* One turn of the loop.
LEMMA ReadTurn == TypeOK /\ ReadAsSaid /\ ParseOption => ReadAsSaid'
<1> SUFFICES ASSUME TypeOK, ReadAsSaid, ParseOption PROVE ReadAsSaid'
  OBVIOUS
<1> DEFINE N == Len(lines)
           T == FlattenSeq(lines)
<1>1. /\ Readable /\ pos \in 1..(Len(text) + 1) /\ outcome = "none"
      /\ lines' = lines /\ text' = text /\ pos' \in 0..(Len(text) + 1)
  <2>1. TypeOK'
    BY TypeNext DEF Next
  <2>2. Readable /\ pos \in 1..(Len(text) + 1) /\ outcome = "none" /\ lines' = lines /\ text' = text
    BY Turn, TextReadable
  <2> QED BY <2>1, <2>2 DEF TypeOK
<1>2. pos > 0 /\ pos' # 0
  <2>1. pos \in Nat /\ pos # 0 /\ Len(text) \in Nat
    BY <1>1 DEF Readable
  <2>2. pos' \in pos..(Len(text) + 1)
    BY Forward
  <2> QED BY <2>1, <2>2
<1> SUFFICES ASSUME AllPlain
             PROVE  \E e \in [0..N -> Nat], s \in Nat :
                      /\ Offsets(e, lines, T) /\ Cut(text, T, s)
                      /\ IF outcome' = "error" THEN Rejects(s)
                         ELSE \E n \in 0..N : After(e, s, n)'
  <2>1. AllPlain' <=> AllPlain
    BY <1>1 DEF AllPlain
  <2> QED BY <1>1, <1>2, <2>1 DEF ReadAsSaid, Rejects
<1>3. lines \in Seq(PlainLines) /\ lines \in Seq(Seq(Symbols)) /\ T \in Seq(Symbols)
  BY AllPlainLines
<1>4. PICK e \in [0..N -> Nat], size \in Nat :
        /\ Offsets(e, lines, T) /\ Cut(text, T, size)
        /\ \E n \in 0..N : After(e, size, n)
  BY <1>1, <1>2 DEF ReadAsSaid
<1>5. PICK n \in 0..N : After(e, size, n)
  BY <1>4
<1>6. N \in Nat /\ e[n] \in Nat /\ Len(T) \in Nat /\ Len(text) \in Nat
      /\ Len(text) \in {size, size + 1} /\ size <= Len(T) /\ e[N] = Len(T)
      /\ (Len(text) = size + 1 => size < Len(T))
  <2>1. N \in Nat /\ e[n] \in Nat /\ Len(T) \in Nat /\ Len(text) \in Nat
    BY <1>1, <1>3, <1>4 DEF Readable
  <2>2. e[N] = Len(T)
    BY <1>4 DEF Offsets
  <2>3. size \in 0..Len(T) /\ Len(text) \in {size, size + 1}
        /\ (Len(text) = size + 1 => size < Len(T))
    BY <1>4, <2>1 DEF Cut
  <2> HIDE DEF N, T
  <2> QED BY <2>1, <2>2, <2>3
<1>7. config = SaysAll(First(lines, n)) /\ Behind(pos, e[n])
  BY <1>1, <1>5 DEF After
<1>8. \A k \in 0..N : e[k] <= Len(T)
  BY <1>3, <1>4, OffsetsBelow
<1> SUFFICES IF outcome' = "error" THEN size < Len(T) ELSE \E k \in 0..N : After(e, size, k)'
  BY <1>4 DEF Rejects
<1> HIDE DEF N, T
<1>9. CASE size < e[n] \/ n = N
  <2>1. Len(text) <= e[n]
    BY <1>6, <1>9
  <2>2. EqualsPos(pos) > Len(text)
    BY <1>1, <1>6, <1>7, <2>1, EndRead
  <2>3. ~ (EqualsPos(pos) <= Len(text))
    <3>1. EqualsPos(pos) \in Int
      BY <1>1, NameType DEF Readable
    <3> QED BY <1>6, <2>2, <3>1
  <2>4. outcome' = "ok" /\ config' = config
    BY <1>1, <2>3, Turn
  <2>5. n = N \/ size < Len(T)
    BY <1>6, <1>8, <1>9
  <2>6. After(e, size, n)'
    BY <1>1, <1>7, <2>4, <2>5 DEF After, N, T
  <2> QED BY <2>4, <2>6
<1>10. CASE e[n] <= size /\ n # N
  <2> DEFINE l == lines[n + 1]
             o == e[n]
  <2>1. n \in 0..(N - 1) /\ n + 1 \in 1..N /\ n + 1 \in 0..N
    BY <1>6, <1>10
  <2>2. e[n + 1] = o + Len(l) /\ Holds(l, o, size)
    BY <1>3, <1>4, <2>1, TextHolds DEF N, T
  <2>3. PICK a, b \in Nat : Shape(l, a, b)
    <3>1. l \in PlainLines
      BY <1>3, <2>1 DEF N
    <3> QED BY <3>1, PlainShape DEF PlainLines
  <2>4. o <= size /\ Behind(pos, o)
    BY <1>7, <1>10
  <2>5. SaysAll(First(lines, n + 1)) = Says(l, SaysAll(First(lines, n)))
    BY <1>3, <2>1, SaysNext DEF N
  <2> HIDE DEF l, o
  <2>6. /\ outcome' = "error" => size < o + Len(l)
        /\ outcome' = "ok" => size < o + Len(l) /\ config' = config
        /\ outcome' = "none" => config' = Says(l, config) /\ Behind(pos', o + Len(l))
    BY <2>2, <2>3, <2>4, LineRead
  <2>7. size < o + Len(l) => size < Len(T)
    <3>1. e[n + 1] \in Nat /\ e[n + 1] <= Len(T)
      BY <1>4, <1>8, <2>1
    <3> QED BY <1>6, <2>2, <3>1
  <2>8. CASE outcome' = "error"
    BY <2>6, <2>7, <2>8
  <2>9. CASE outcome' = "ok"
    <3>1. After(e, size, n)'
      BY <1>1, <1>7, <2>6, <2>7, <2>9 DEF After, T
    <3> QED BY <2>9, <3>1
  <2>10. CASE outcome' = "none"
    <3>1. config' = SaysAll(First(lines', n + 1))
      BY <1>1, <1>7, <2>5, <2>6, <2>10
    <3>2. Behind(pos, e[n + 1])'
      BY <1>1, <2>2, <2>6, <2>10 DEF Behind
    <3>3. After(e, size, n + 1)'
      BY <2>10, <3>1, <3>2 DEF After
    <3> QED BY <2>1, <2>10, <3>3
  <2>11. outcome' \in {"none", "ok", "error"}
    BY <1>1, Turn
  <2> QED BY <2>8, <2>9, <2>10, <2>11
<1> QED BY <1>6, <1>9, <1>10

\* Every step keeps what is said of the lines read so far.
LEMMA ReadNext == TypeOK /\ ReadAsSaid /\ [Next]_vars => ReadAsSaid'
<1> SUFFICES ASSUME TypeOK, ReadAsSaid, [Next]_vars PROVE ReadAsSaid'
  OBVIOUS
<1>1. ASSUME NEW l \in Lines, WriteLine(l) PROVE ReadAsSaid'
  <2>1. pos' = 0 /\ outcome' = "none" /\ config' = OldConfig
    BY <1>1 DEF WriteLine, ReadAsSaid
  <2>2. ~ (pos' > 0)
    BY <2>1
  <2> QED BY <2>1, <2>2 DEF ReadAsSaid
<1>2. CASE Parse
  BY <1>2, ReadParse
<1>3. CASE ParseOption
  BY <1>3, ReadTurn
<1>4. CASE UNCHANGED vars
  <2>1. lines' = lines /\ text' = text /\ pos' = pos /\ config' = config /\ outcome' = outcome
    BY <1>4 DEF vars
  <2> QED BY <2>1 DEF ReadAsSaid, AllPlain, After, Behind, Rejects
<1> QED BY <1>1, <1>2, <1>3, <1>4 DEF Next

\* So it is true in every state.
LEMMA ReadInvariant == Spec => []ReadAsSaid
  BY TypeCorrect, ReadInit, ReadNext, PTL DEF Spec

\* PlainFileRead: a file of plain lines that is not empty and smaller than a sector
\* (config.c:114), with the size that it has, is accepted, and CONFIG is what its
\* lines say, the last one of an option deciding.
THEOREM PlainRead == Spec => []PlainFileRead
<1>1. TypeOK /\ ReadAsSaid => PlainFileRead
  <2> SUFFICES ASSUME TypeOK, ReadAsSaid, AllPlain, outcome # "none",
                      text = FlattenSeq(lines), SizeRead(Bytes(text))
               PROVE  outcome = "ok" /\ config = SaysAll(lines)
    BY DEF PlainFileRead
  <2>1. pos > 0
    <3>1. pos # 0 /\ pos \in Nat
      BY TextReadable DEF ReadAsSaid, TypeOK, Readable
    <3> QED BY <3>1
  <2>2. lines \in Seq(PlainLines) /\ FlattenSeq(lines) \in Seq(Symbols)
    BY AllPlainLines
  <2>3. PICK e \in [0..Len(lines) -> Nat], size \in Nat :
          /\ Cut(text, FlattenSeq(lines), size)
          /\ IF outcome = "error" THEN Rejects(size)
             ELSE \E n \in 0..Len(lines) : After(e, size, n)
    BY <2>1 DEF ReadAsSaid
  <2>4. size = Len(FlattenSeq(lines)) /\ Len(FlattenSeq(lines)) \in Nat
    BY <2>2, <2>3, WholeCut
  <2>5. outcome = "ok"
    <3>1. outcome # "error"
      BY <2>3, <2>4 DEF Rejects
    <3> QED BY <3>1 DEF TypeOK
  <2>6. PICK n \in 0..Len(lines) : After(e, size, n)
    BY <2>3, <2>5
  <2>7. config = SaysAll(First(lines, n)) /\ n = Len(lines)
    BY <2>4, <2>5, <2>6 DEF After
  <2>8. SaysAll(First(lines, Len(lines))) = SaysAll(lines)
    BY <2>2, SaysNext
  <2> QED BY <2>5, <2>7, <2>8
<1> QED BY <1>1, TypeCorrect, ReadInvariant, PTL

\* Wherever an older size cuts a file of plain lines, the parser rejects it or takes a
\* number of its first lines whole.
THEOREM CutsBetweenLines == Spec => []CutBetweenLines
<1>1. TypeOK /\ ReadAsSaid => CutBetweenLines
  <2> SUFFICES ASSUME TypeOK, ReadAsSaid, AllPlain, outcome = "ok"
               PROVE  \E n \in 0..Len(lines) : config = SaysAll(SubSeq(lines, 1, n))
    BY DEF CutBetweenLines
  <2>1. pos > 0
    <3>1. pos # 0 /\ pos \in Nat
      BY TextReadable DEF ReadAsSaid, TypeOK, Readable
    <3> QED BY <3>1
  <2>2. PICK e \in [0..Len(lines) -> Nat], size \in Nat :
          \E n \in 0..Len(lines) : After(e, size, n)
    BY <2>1 DEF ReadAsSaid
  <2> QED BY <2>2 DEF After, First
<1> QED BY <1>1, TypeCorrect, ReadInvariant, PTL

==============================================================================
