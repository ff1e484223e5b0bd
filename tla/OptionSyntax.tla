----------------------------- MODULE OptionSyntax -----------------------------
(***************************************************************************)
(* parse_config (usb_msc/config.c) on the text of OPTIONS.TXT.             *)
(*                                                                         *)
(* The text is a sequence of symbols: a character, or a word that the      *)
(* parser compares as a whole; sizes are in characters.  The host has      *)
(* written lines; the size in the directory, which may be older, cuts the  *)
(* text.  RamDisk has the same parser over whole lines.                    *)
(***************************************************************************)
EXTENDS Integers, SequencesExt

CONSTANTS
  Lines,      \* what the user may write on a line, each a sequence of symbols
  OldConfig,  \* CONFIG before: [fpga, flash : Nat, prog : BOOLEAN]
  SectorSize, \* DISK_SECTOR_SIZE
  MaxLines    \* a bound on the lines of a file

Names == {"FPGA", "FLASH", "PROG"}    \* SPI_FPGA_SPEED, SPI_FLASH_SPEED, PROG_SPI_FLASH
Digits == {"0", "1", "5", "9"}
Value == [d \in Digits |-> CASE d = "0" -> 0 [] d = "1" -> 1 [] d = "5" -> 5 [] OTHER -> 9]
Blank == {"sp"}
Ends == {"cr", "nl"}
Nul == "nul"
Other == "#"                           \* a character that belongs to nothing above
Symbols == Names \cup Digits \cup Blank \cup Ends \cup {"=", "x", "YES", "NO", Other}

ASSUME OptionAssumption ==
  /\ Lines \subseteq Seq(Symbols) /\ MaxLines \in Nat
  /\ OldConfig \in [fpga : Nat, flash : Nat, prog : BOOLEAN]
  /\ SectorSize \in Nat

\* The characters of a symbol, and of a text.
Width(x) ==
  CASE x \in {"FPGA", "PROG"} -> 14 [] x = "FLASH" -> 15
    [] x = "YES" -> 3 [] x = "NO" -> 2 [] OTHER -> 1

Bytes(s) == FoldLeft(LAMBDA n, x : n + Width(x), 0, s)

VARIABLES
  lines,    \* the file, as the user wrote it
  text,     \* the file up to the size in the directory
  pos,      \* cur_line, a position in text; 0 before the parser runs
  config,   \* *opts
  outcome   \* "none" while the parser runs, then "ok" or "error"

vars == <<lines, text, pos, config, outcome>>

-----------------------------------------------------------------------------
(* The C library, on the text.  A position behind the text is its terminator. *)

At(p) == IF p \in DOMAIN text THEN text[p] ELSE Nul

FirstIn(set, p) ==
  CHOOSE q \in p..(Len(text) + 1) :
    /\ q = Len(text) + 1 \/ text[q] \in set
    /\ \A r \in p..(q - 1) : text[r] \notin set

Skip(set, p) == FirstIn((Symbols \cup {Nul}) \ set, p)

\* The number that digits are in a base.
InBase(digits, base) == FoldLeft(LAMBDA n, d : n * base + Value[d], 0, digits)

\* strtoul with base 0; the digits of the texts do not reach its maximum.
Strtoul(p) ==
  LET start == Skip(Blank \cup Ends, p)
      hex == At(start) = "0" /\ At(start + 1) = "x" /\ At(start + 2) \in Digits
      octal == ~ hex /\ At(start) = "0"
      base == IF hex THEN 16 ELSE IF octal THEN 8 ELSE 10
      valid == IF octal THEN {"0", "1", "5"} ELSE Digits
      first == IF hex THEN start + 2 ELSE start
  IN  InBase(SubSeq(text, first, Skip(valid, first) - 1), base)

-----------------------------------------------------------------------------
(* config.c *)

\* get_config_opt_int: a name anywhere in the text, and the first "=" behind it.
NamePos(p) == FirstIn(Names, p)
EqualsPos(p) == FirstIn({"="}, NamePos(p))

\* Mutant: the test for the octal prefix is left out.
MutStrIsValidInteger(p) ==
  LET digits == Skip(Blank, p)
      rest == Skip(Blank, Skip(Digits, digits))
  IN  At(IF At(rest) = "cr" THEN rest + 1 ELSE rest) = "nl"

\* Mutant: the text may end behind the digits.
MutAcceptsCut(p) ==
  LET first == Skip(Blank, p)
  IN  At(first) # "0" /\ At(Skip(Blank, Skip(Digits, first))) \in Ends \cup {Nul}

\* str_is_valid_integer.  After a "0" only an "x" passes, and stops the search
\* for digits.
StrIsValidInteger(p) ==
  LET first == Skip(Blank, p)
      digits == IF At(first) = "0" THEN first + 1 ELSE first
      rest == Skip(Blank, Skip(Digits, digits))
  IN  /\ At(first) = "0" => At(digits) = "x"
      /\ At(IF At(rest) = "cr" THEN rest + 1 ELSE rest) = "nl"

\* Mutant: the end of the line is searched from the start of the file.
MutNextLine(p) == FirstIn(Ends, 1)

\* Mutant: the parser steps over the end of a line that may not be there.
MutBehindLine(p) == FirstIn(Ends, p) + 1

NextLine(p) == FirstIn(Ends, p)

Return(result) == outcome' = result /\ UNCHANGED <<lines, text, pos>>

SetInteger(name, p) ==
  IF StrIsValidInteger(p)
    THEN /\ config' = IF name = "FPGA" THEN [config EXCEPT !.fpga = Strtoul(p)]
                                       ELSE [config EXCEPT !.flash = Strtoul(p)]
         /\ pos' = NextLine(p)
         /\ UNCHANGED <<lines, text, outcome>>
    ELSE Return("error") /\ UNCHANGED config

\* Mutant: the blanks in front of the word are not skipped.
MutSetProgFlash(p) ==
  IF At(p) \in {"YES", "NO"}
    THEN /\ config' = [config EXCEPT !.prog = (At(p) = "YES")]
         /\ pos' = NextLine(p)
         /\ UNCHANGED <<lines, text, outcome>>
    ELSE Return("error") /\ UNCHANGED config

SetProgFlash(p) ==
  LET first == Skip(Blank, p)
  IN  IF At(first) \in {"YES", "NO"}
        THEN /\ config' = [config EXCEPT !.prog = (At(first) = "YES")]
             /\ pos' = NextLine(first)
             /\ UNCHANGED <<lines, text, outcome>>
        ELSE Return("error") /\ UNCHANGED config

\* One turn of the loop of parse_config.
ParseOption ==
  LET name == At(NamePos(pos))
      p == EqualsPos(pos) + 1
  IN  /\ pos > 0 /\ outcome = "none"
      /\ IF EqualsPos(pos) > Len(text)
           THEN Return("ok") /\ UNCHANGED config
           ELSE IF name = "PROG" THEN SetProgFlash(p) ELSE SetInteger(name, p)

-----------------------------------------------------------------------------
WriteLine(l) ==
  /\ pos = 0
  /\ Len(lines) < MaxLines
  /\ lines' = Append(lines, l)
  /\ UNCHANGED <<text, pos, config, outcome>>

\* The terminator falls behind n symbols of the file, or k characters further,
\* into a word.
Terminated(file, n, k) ==
  IF k = 0 THEN SubSeq(file, 1, n) ELSE Append(SubSeq(file, 1, n), Other)

\* An empty file is rejected before it is read, and one of a sector or more.
SizeRead(size) == size \in 1..(SectorSize - 1)

Parse ==
  LET file == FlattenSeq(lines)
  IN  /\ pos = 0
      /\ \E n \in 0..Len(file), k \in 0..(Width("FLASH") - 1) :
           /\ k = 0 \/ (n < Len(file) /\ k < Width(file[n + 1]))
           /\ text' = Terminated(file, n, k)
           /\ outcome' = IF SizeRead(Bytes(SubSeq(file, 1, n)) + k) THEN "none" ELSE "error"
      /\ pos' = 1
      /\ UNCHANGED <<lines, config>>

Init == lines = << >> /\ text = << >> /\ pos = 0 /\ config = OldConfig /\ outcome = "none"

Next == (\E l \in Lines : WriteLine(l)) \/ Parse \/ ParseOption

Spec == Init /\ [][Next]_vars /\ WF_vars(ParseOption)

-----------------------------------------------------------------------------
TypeOK ==
  /\ lines \in Seq(Lines) /\ text \in Seq(Symbols)
  /\ pos \in 0..(Len(text) + 1)
  /\ config \in [fpga : Nat, flash : Nat, prog : BOOLEAN]
  /\ outcome \in {"none", "ok", "error"}

\* What a line says to a reader: a name, "=", and a number without leading zeros
\* or YES or NO, with blanks and either end of line.
Number(digits) == InBase(digits, 10)

\* The value is what is not blank behind the "=".
ValueAt(l) == {i \in 3..Len(l) : l[i] \notin Blank \cup Ends}
ValueOf(l) == SubSeq(l, Min(ValueAt(l)), Max(ValueAt(l)))

IsPlain(l) ==
  /\ Len(l) > 2 /\ l[1] \in Names /\ l[2] = "=" /\ l[Len(l)] = "nl"
  /\ \A i \in DOMAIN l : (l[i] = "cr" => i = Len(l) - 1) /\ (l[i] = "nl" => i = Len(l))
  /\ ValueAt(l) # {} /\ \A i, j \in ValueAt(l) : i..j \subseteq ValueAt(l)
  /\ IF l[1] = "PROG" THEN ValueOf(l) \in {<<"YES">>, <<"NO">>}
     ELSE l[Min(ValueAt(l))] # "0" /\ \A i \in ValueAt(l) : l[i] \in Digits

Says(l, c) ==
  CASE l[1] = "FPGA"  -> [c EXCEPT !.fpga = Number(ValueOf(l))]
    [] l[1] = "FLASH" -> [c EXCEPT !.flash = Number(ValueOf(l))]
    [] OTHER          -> [c EXCEPT !.prog = (ValueOf(l) = <<"YES">>)]

SaysAll(ls) == FoldLeft(LAMBDA c, l : Says(l, c), OldConfig, ls)

AllPlain == \A i \in DOMAIN lines : IsPlain(lines[i])

\* "Various options ... can be modified in OPTIONS.TXT" (README.md:26-27): a file
\* of plain lines that is smaller than a sector is accepted and means what its lines
\* say, the last one of an option deciding.  That is the bound of config.c:114; the
\* comment at config.c:100 says "one cluster - 1", of which it is not true.
PlainFileRead ==
  AllPlain /\ outcome # "none" /\ text = FlattenSeq(lines) /\ SizeRead(Bytes(text)) =>
    outcome = "ok" /\ config = SaysAll(lines)

\* Wherever an older size cuts a plain file, the parser rejects it, or takes a
\* number of its first lines whole: it never takes a part of a value.
CutBetweenLines ==
  AllPlain /\ outcome = "ok" =>
    \E n \in 0..Len(lines) : config = SaysAll(SubSeq(lines, 1, n))

\* What is checked is what is converted: a value with a digit on its line is
\* stored as the decimal number whose digits these are, though strtoul would take
\* octal and hexadecimal ones.  A value left empty is converted from what follows.
ConvertsWhatItChecked ==
  [][\A o \in {"fpga", "flash"} :
       config'[o] # config[o] =>
         LET p == EqualsPos(pos) + 1
             first == Skip(Blank, p)
         IN  At(first) \in Digits =>
               /\ At(first) # "0"
               /\ config'[o] = Number(SubSeq(text, first, Skip(Digits, first) - 1))
               /\ At(Skip(Blank, Skip(Digits, first))) \in Ends]_vars

\* The parser ends on every text.
ParserEnds == pos > 0 ~> outcome # "none"

=============================================================================
