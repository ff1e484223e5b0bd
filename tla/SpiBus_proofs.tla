---------------------------- MODULE SpiBus_proofs ----------------------------
(***************************************************************************)
(* That commands reach their chip and that the FPGA is off the wires of    *)
(* the firmware flash, for any number of erases, chunks and resets.        *)
(*                                                                         *)
(* Both follow from what is left of the operation: whatever takes the      *)
(* pins or the lines of the FPGA has the steps it relies on right before   *)
(* it, or they have been taken.  Operations are built by concatenation,    *)
(* and keep this when they are concatenated.                               *)
(***************************************************************************)
EXTENDS SpiBus, SequenceTheorems, TLAPS

\* The FPGA's I/O off, and on again.
IoOff == Tristate(TRUE)
IoOn == Tristate(FALSE)

\* The peripheral on the pins of one chip, or of none.
OneChip == {{}} \cup {{c} : c \in Chips}

\* All that an operation may do in one go.
Ops ==
  {Pins(p) : p \in OneChip} \cup {Cs(c) : c \in Chips}
    \cup {Nrst(x) : x \in {"held", "released"}} \cup {IoOff, IoOn}
    \cup {Nprog(x) : x \in {"low", "released"}}
    \cup {Cmd(x, c) : x \in {"writeEnable", "erase", "program", "read"}, c \in Chips}
    \cup {WaitWel(c) : c \in Chips} \cup {WaitIdle(c) : c \in Chips}
    \cup {IfBitstream, SendChunk}

\* The steps that need the bus, and the chip they need it for.
Uses(op) == op.do \in {"cmd", "waitWel", "waitIdle", "ifBitstream"}
For(op) == IF op.do = "ifBitstream" THEN "bitstream" ELSE op.chip

Takes(op) == op.do = "pins" /\ op.on # {}
TakesFirmware(op) == op.do = "pins" /\ "firmware" \in op.on
Switches(op) == op.do \in {"pins", "cs"}
Quietly(op) == op.do \notin {"pins", "cs", "nrst", "tristate"}
Untouched(s, first, last) == \A k \in first..last : ~ Switches(s[k])
PinsKept(s, first, last) == \A k \in first..last : s[k].do # "pins"

-----------------------------------------------------------------------------
(* What is true when the processor arrives at the i-th step of s, and      *)
(* begins with pins p, chip select cs, reset n and the tristate pin at t.  *)

Held(s, i, n, t) ==
  \/ i = 1 /\ n = "held" /\ t = "high"
  \/ i = 2 /\ n = "held" /\ s[1] = IoOff
  \/ i > 2 /\ s[i - 2] = Nrst("held") /\ s[i - 1] = IoOff

GivenBack(s, i, p) ==
  \/ p = {} /\ PinsKept(s, 1, i - 1)
  \/ \E j \in 1..(i - 1) : s[j] = Pins({}) /\ PinsKept(s, j + 1, i - 1)

Given(s, i, p) ==
  \/ i = 1 /\ "firmware" \notin p
  \/ i > 1 /\ s[i - 1] = Pins({})

Released(s, i, p) ==
  \/ i = 1 /\ "firmware" \notin p
  \/ i = 2 /\ "firmware" \notin p /\ s[1] = Nrst("released")
  \/ i > 2 /\ s[i - 2] = Pins({}) /\ s[i - 1] = Nrst("released")

SwitchedTo(s, i, c) ==
  \E j \in 2..(i - 1) : s[j - 1] = Pins({c}) /\ s[j] = Cs(c) /\ Untouched(s, j + 1, i - 1)

On(s, i, c, p, cs) ==
  \/ SwitchedTo(s, i, c)
  \/ i > 1 /\ s[1] = Cs(c) /\ p = {c} /\ Untouched(s, 2, i - 1)
  \/ p = {c} /\ cs = c /\ Untouched(s, 1, i - 1)

FitsAt(s, i, p, cs, n, t) ==
  /\ Takes(s[i]) => GivenBack(s, i, p)
  /\ TakesFirmware(s[i]) => Held(s, i, n, t)
  /\ s[i] = Nrst("released") => Given(s, i, p)
  /\ s[i] = IoOn => Released(s, i, p)
  /\ Uses(s[i]) => On(s, i, For(s[i]), p, cs)

Fits(s, p, cs, n, t) == \A i \in 1..Len(s) : FitsAt(s, i, p, cs, n, t)

\* From the worst state to begin with: it fits from any.
Sound(s) == s \in Seq(Ops) /\ Fits(s, Chips, "none", "released", "low")

EndsOn(s, c) == SwitchedTo(s, Len(s) + 1, c)

\* Leaves the pins and lines alone and uses the bus for c only.
Quiet(s, c) ==
  s \in Seq(Ops) /\ \A i \in 1..Len(s) : Quietly(s[i]) /\ (Uses(s[i]) => For(s[i]) = c)

\* The level of the tristate pin.
Level == IF tristate THEN "high" ELSE "low"

-----------------------------------------------------------------------------
(* Concatenation. *)

\* There are two chips.
LEMMA OpValues ==
  /\ Chips # {} /\ \A c : Chips # {c}
  /\ "firmware" \in Chips /\ "bitstream" # "firmware"
  BY DEF Chips

\* What fits from the worst state fits from every state.
LEMMA SoundFits ==
  ASSUME NEW s, Sound(s), NEW p, NEW cs, NEW n, NEW t
  PROVE  Fits(s, p, cs, n, t)
<1> SUFFICES ASSUME NEW i \in 1..Len(s) PROVE FitsAt(s, i, p, cs, n, t)
  BY DEF Fits
<1>1. FitsAt(s, i, Chips, "none", "released", "low")
  BY DEF Sound, Fits
<1>3. \A c : On(s, i, c, Chips, "none") => On(s, i, c, p, cs)
  BY OpValues DEF On
<1>4. TakesFirmware(s[i]) => Held(s, i, n, t)
  BY <1>1 DEF FitsAt, Held
<1>5. s[i] = Nrst("released") => Given(s, i, p)
  BY <1>1, OpValues DEF FitsAt, Given
<1>6. s[i] = IoOn => Released(s, i, p)
  BY <1>1, OpValues DEF FitsAt, Released
<1>7. Takes(s[i]) => GivenBack(s, i, p)
  BY <1>1, OpValues DEF FitsAt, GivenBack
<1> QED BY <1>1, <1>3, <1>4, <1>5, <1>6, <1>7 DEF FitsAt

\* Where the steps of a concatenation come from.
LEMMA Joined ==
  ASSUME NEW s \in Seq(Ops), NEW u \in Seq(Ops)
  PROVE  /\ s \o u \in Seq(Ops) /\ Len(s) \in Nat /\ Len(u) \in Nat
         /\ Len(s \o u) = Len(s) + Len(u)
         /\ \A i \in 1..Len(s) : (s \o u)[i] = s[i]
         /\ \A i \in 1..Len(u) : (s \o u)[Len(s) + i] = u[i]
<1>1. Len(s) \in Nat /\ Len(u) \in Nat
  BY LenProperties
<1> QED BY <1>1, ConcatProperties

\* A step of s keeps what is true before it.
LEMMA FitsFirst ==
  ASSUME NEW s \in Seq(Ops), NEW u \in Seq(Ops), NEW p, NEW cs, NEW n, NEW t,
         NEW i \in 1..Len(s), FitsAt(s, i, p, cs, n, t)
  PROVE  FitsAt(s \o u, i, p, cs, n, t)
<1> DEFINE w == s \o u
<1>1. Len(s) \in Nat /\ \A k \in 1..Len(s) : w[k] = s[k]
  BY Joined
<1> HIDE DEF w
<1>2. i \in Nat /\ w[i] = s[i] /\ \A k \in 1..(i - 1) : w[k] = s[k]
  BY <1>1
<1>3. Held(s, i, n, t) => Held(w, i, n, t)
  BY <1>2 DEF Held
<1>4. Given(s, i, p) => Given(w, i, p)
  BY <1>2 DEF Given
<1>5. Released(s, i, p) => Released(w, i, p)
  BY <1>2 DEF Released
<1>6. \A a \in Nat \ {0} : Untouched(s, a, i - 1) => Untouched(w, a, i - 1)
  BY <1>2 DEF Untouched
<1>7. \A c : SwitchedTo(s, i, c) => SwitchedTo(w, i, c)
  BY <1>2, <1>6 DEF SwitchedTo
<1>8. \A c : On(s, i, c, p, cs) => On(w, i, c, p, cs)
  BY <1>2, <1>6, <1>7 DEF On
<1>9. GivenBack(s, i, p) => GivenBack(w, i, p)
  <2>1. \A a \in Nat \ {0} : PinsKept(s, a, i - 1) => PinsKept(w, a, i - 1)
    BY <1>2 DEF PinsKept
  <2>2. ASSUME NEW j \in 1..(i - 1), s[j] = Pins({}), PinsKept(s, j + 1, i - 1)
        PROVE  w[j] = Pins({}) /\ PinsKept(w, j + 1, i - 1)
    <3>1. j + 1 \in Nat \ {0} /\ w[j] = s[j]
      BY <1>2
    <3> QED BY <2>1, <2>2, <3>1
  <2> QED BY <2>1, <2>2 DEF GivenBack
<1> QED BY <1>2, <1>3, <1>4, <1>5, <1>8, <1>9 DEF FitsAt, w

\* A switch is still in front of a step when steps are put before both.
LEMMA SwitchedShift ==
  ASSUME NEW s \in Seq(Ops), NEW u \in Seq(Ops), NEW c,
         NEW i \in 1..(Len(u) + 1), SwitchedTo(u, i, c)
  PROVE  SwitchedTo(s \o u, Len(s) + i, c)
<1> DEFINE w == s \o u
           m == Len(s)
<1>1. m \in Nat /\ Len(u) \in Nat /\ \A k \in 1..Len(u) : w[m + k] = u[k]
  BY Joined
<1>2. PICK j \in 2..(i - 1) : u[j - 1] = Pins({c}) /\ u[j] = Cs(c) /\ Untouched(u, j + 1, i - 1)
  BY DEF SwitchedTo
<1> HIDE DEF w, m
<1>3. w[(m + j) - 1] = Pins({c}) /\ w[m + j] = Cs(c)
  <2>1. j - 1 \in 1..Len(u) /\ j \in 1..Len(u) /\ (m + j) - 1 = m + (j - 1)
    BY <1>1
  <2> QED BY <1>1, <1>2, <2>1
<1>4. Untouched(w, (m + j) + 1, (m + i) - 1)
  <2> SUFFICES ASSUME NEW k \in ((m + j) + 1)..((m + i) - 1) PROVE ~ Switches(w[k])
    BY DEF Untouched
  <2>1. k - m \in (j + 1)..(i - 1) /\ k - m \in 1..Len(u) /\ k = m + (k - m)
    BY <1>1
  <2>2. w[k] = u[k - m]
    BY <1>1, <2>1
  <2> QED BY <1>2, <2>1, <2>2 DEF Untouched
<1>5. m + j \in 2..((m + i) - 1)
  BY <1>1
<1> QED BY <1>3, <1>4, <1>5 DEF SwitchedTo, w, m

\* A sound operation may follow anything.
LEMMA FitsSecond ==
  ASSUME NEW s \in Seq(Ops), NEW u, Sound(u), NEW p, NEW cs, NEW n, NEW t,
         NEW i \in 1..Len(u)
  PROVE  FitsAt(s \o u, Len(s) + i, p, cs, n, t)
<1> DEFINE w == s \o u
           m == Len(s)
<1>1. u \in Seq(Ops)
  BY DEF Sound
<1>2. m \in Nat /\ Len(u) \in Nat /\ \A k \in 1..Len(u) : w[m + k] = u[k]
  BY <1>1, Joined
<1>3. FitsAt(u, i, Chips, "none", "released", "low")
  BY DEF Sound, Fits
<1>4. \A c : On(u, i, c, Chips, "none") => On(w, m + i, c, p, cs)
  <2> SUFFICES ASSUME NEW c, On(u, i, c, Chips, "none") PROVE On(w, m + i, c, p, cs)
    OBVIOUS
  <2>1. SwitchedTo(u, i, c)
    BY OpValues DEF On
  <2>2. i \in 1..(Len(u) + 1)
    BY <1>2
  <2>3. SwitchedTo(w, m + i, c)
    BY <1>1, <2>1, <2>2, SwitchedShift
  <2> HIDE DEF w, m
  <2> QED BY <2>3 DEF On
<1> HIDE DEF w, m
<1>5. w[m + i] = u[i]
  BY <1>2
<1>6. Held(u, i, "released", "low") => Held(w, m + i, n, t)
  <2> SUFFICES ASSUME Held(u, i, "released", "low") PROVE Held(w, m + i, n, t)
    OBVIOUS
  <2>1. i > 2 /\ u[i - 2] = Nrst("held") /\ u[i - 1] = IoOff
    BY DEF Held
  <2>2. w[m + (i - 2)] = u[i - 2] /\ w[m + (i - 1)] = u[i - 1]
    <3>1. i - 2 \in 1..Len(u) /\ i - 1 \in 1..Len(u)
      BY <1>2, <2>1
    <3> QED BY <1>2, <3>1
  <2>3. m + i > 2 /\ (m + i) - 2 = m + (i - 2) /\ (m + i) - 1 = m + (i - 1)
    BY <1>2, <2>1
  <2> QED BY <2>1, <2>2, <2>3 DEF Held
<1>7. Given(u, i, Chips) => Given(w, m + i, p)
  <2> SUFFICES ASSUME Given(u, i, Chips) PROVE Given(w, m + i, p)
    OBVIOUS
  <2>1. i > 1 /\ u[i - 1] = Pins({})
    BY OpValues DEF Given
  <2>2. w[m + (i - 1)] = u[i - 1]
    <3>1. i - 1 \in 1..Len(u)
      BY <1>2, <2>1
    <3> QED BY <1>2, <3>1
  <2>3. m + i > 1 /\ (m + i) - 1 = m + (i - 1)
    BY <1>2, <2>1
  <2> QED BY <2>1, <2>2, <2>3 DEF Given
<1>8. Released(u, i, Chips) => Released(w, m + i, p)
  <2> SUFFICES ASSUME Released(u, i, Chips) PROVE Released(w, m + i, p)
    OBVIOUS
  <2>1. i > 2 /\ u[i - 2] = Pins({}) /\ u[i - 1] = Nrst("released")
    BY OpValues DEF Released
  <2>2. w[m + (i - 2)] = u[i - 2] /\ w[m + (i - 1)] = u[i - 1]
    <3>1. i - 2 \in 1..Len(u) /\ i - 1 \in 1..Len(u)
      BY <1>2, <2>1
    <3> QED BY <1>2, <3>1
  <2>3. m + i > 2 /\ (m + i) - 2 = m + (i - 2) /\ (m + i) - 1 = m + (i - 1)
    BY <1>2, <2>1
  <2> QED BY <2>1, <2>2, <2>3 DEF Released
<1>9. GivenBack(u, i, Chips) => GivenBack(w, m + i, p)
  <2> SUFFICES ASSUME GivenBack(u, i, Chips) PROVE GivenBack(w, m + i, p)
    OBVIOUS
  <2>1. PICK j \in 1..(i - 1) : u[j] = Pins({}) /\ PinsKept(u, j + 1, i - 1)
    BY OpValues DEF GivenBack
  <2>2. m + j \in 1..((m + i) - 1) /\ w[m + j] = Pins({})
    <3>1. j \in 1..Len(u) /\ m + j \in 1..((m + i) - 1)
      BY <1>2
    <3> QED BY <1>2, <2>1, <3>1
  <2>3. PinsKept(w, (m + j) + 1, (m + i) - 1)
    <3> SUFFICES ASSUME NEW k \in ((m + j) + 1)..((m + i) - 1) PROVE w[k].do # "pins"
      BY DEF PinsKept
    <3>1. k - m \in (j + 1)..(i - 1) /\ k - m \in 1..Len(u) /\ k = m + (k - m)
      BY <1>2
    <3>2. w[k] = u[k - m]
      BY <1>2, <3>1
    <3> QED BY <2>1, <3>1, <3>2 DEF PinsKept
  <2> QED BY <2>2, <2>3 DEF GivenBack
<1> QED BY <1>3, <1>4, <1>5, <1>6, <1>7, <1>8, <1>9 DEF FitsAt, w, m

\* A sound operation may follow any steps.
LEMMA FitsThenSound ==
  ASSUME NEW s \in Seq(Ops), NEW u, Sound(u), NEW p, NEW cs, NEW n, NEW t,
         Fits(s, p, cs, n, t)
  PROVE  Fits(s \o u, p, cs, n, t)
<1>1. u \in Seq(Ops)
  BY DEF Sound
<1>2. Len(s) \in Nat /\ Len(u) \in Nat /\ Len(s \o u) = Len(s) + Len(u)
  BY <1>1, Joined
<1> SUFFICES ASSUME NEW i \in 1..(Len(s) + Len(u)) PROVE FitsAt(s \o u, i, p, cs, n, t)
  BY <1>2 DEF Fits
<1>3. CASE i <= Len(s)
  <2>1. i \in 1..Len(s)
    BY <1>2, <1>3
  <2> QED BY <1>1, <2>1, FitsFirst DEF Fits
<1>4. CASE i > Len(s)
  <2>1. i - Len(s) \in 1..Len(u) /\ i = Len(s) + (i - Len(s))
    BY <1>2, <1>4
  <2> QED BY <2>1, FitsSecond
<1> QED BY <1>2, <1>3, <1>4

\* Two sound operations are one.
LEMMA SoundSound ==
  ASSUME NEW s, NEW u, Sound(s), Sound(u)
  PROVE  Sound(s \o u)
<1>1. s \in Seq(Ops) /\ u \in Seq(Ops) /\ s \o u \in Seq(Ops)
  BY Joined DEF Sound
<1> QED BY <1>1, FitsThenSound DEF Sound

\* What the last of two operations switches to is what they end on.
LEMMA EndsOnLast ==
  ASSUME NEW s \in Seq(Ops), NEW u \in Seq(Ops), NEW c, EndsOn(u, c)
  PROVE  EndsOn(s \o u, c)
<1>1. Len(s) \in Nat /\ Len(u) \in Nat /\ Len(s \o u) = Len(s) + Len(u)
  BY Joined
<1>2. SwitchedTo(s \o u, Len(s) + (Len(u) + 1), c)
  BY <1>1, SwitchedShift DEF EndsOn
<1> QED BY <1>1, <1>2 DEF EndsOn

\* After the switch to a chip, quiet steps find it switched to.
LEMMA StaysSwitched ==
  ASSUME NEW s \in Seq(Ops), NEW c, EndsOn(s, c), NEW u, Quiet(u, c),
         NEW i \in 1..(Len(u) + 1)
  PROVE  SwitchedTo(s \o u, Len(s) + i, c)
<1> DEFINE w == s \o u
           m == Len(s)
<1>1. u \in Seq(Ops)
  BY DEF Quiet
<1>2. /\ m \in Nat /\ Len(u) \in Nat
      /\ \A k \in 1..m : w[k] = s[k]
      /\ \A k \in 1..Len(u) : w[m + k] = u[k]
  BY <1>1, Joined
<1>3. PICK j \in 2..m :
        s[j - 1] = Pins({c}) /\ s[j] = Cs(c) /\ Untouched(s, j + 1, (m + 1) - 1)
  BY <1>2 DEF EndsOn, SwitchedTo
<1> HIDE DEF w, m
<1>4. w[j - 1] = Pins({c}) /\ w[j] = Cs(c)
  BY <1>2, <1>3
<1>5. Untouched(w, j + 1, (m + i) - 1)
  <2> SUFFICES ASSUME NEW k \in (j + 1)..((m + i) - 1) PROVE ~ Switches(w[k])
    BY DEF Untouched
  <2>1. CASE k <= m
    <3>1. k \in (j + 1)..((m + 1) - 1) /\ w[k] = s[k]
      BY <1>2, <2>1
    <3> QED BY <1>3, <3>1 DEF Untouched
  <2>2. CASE k > m
    <3>1. k - m \in 1..Len(u) /\ k = m + (k - m)
      BY <1>2, <2>2
    <3>2. w[k] = u[k - m]
      BY <1>2, <3>1
    <3> QED BY <3>1, <3>2 DEF Quiet, Quietly, Switches
  <2> QED BY <1>2, <2>1, <2>2
<1>6. j \in 2..((m + i) - 1)
  BY <1>2
<1> QED BY <1>4, <1>5, <1>6 DEF SwitchedTo, w, m

\* What each step is, and needs.
LEMMA OpKinds ==
  /\ \A p : Pins(p).do = "pins" /\ Pins(p).on = p
  /\ \A c : Cs(c).do = "cs" /\ Cs(c).chip = c
  /\ \A x : Nrst(x).do = "nrst" /\ Nrst(x).to = x
  /\ \A x : Nprog(x).do = "nprog" /\ Nprog(x).to = x
  /\ IoOff.do = "tristate" /\ IoOn.do = "tristate" /\ IoOff # IoOn
  /\ \A x, c : Cmd(x, c).do = "cmd" /\ Cmd(x, c).cmd = x /\ Cmd(x, c).chip = c
  /\ \A c : WaitWel(c).do = "waitWel" /\ WaitWel(c).chip = c
  /\ \A c : WaitIdle(c).do = "waitIdle" /\ WaitIdle(c).chip = c
  /\ IfBitstream.do = "ifBitstream" /\ SendChunk.do = "sendChunk"
<1>1. IoOff # IoOn
  <2>1. IoOff.to = TRUE /\ IoOn.to = FALSE
    BY DEF IoOff, IoOn, Tristate
  <2> QED BY <2>1
<1> QED BY <1>1 DEF Pins, Cs, Nrst, Tristate, IoOff, IoOn, Nprog, Cmd, WaitWel, WaitIdle,
                   IfBitstream, SendChunk

\* The steps of the driver are steps.
LEMMA OpTypes ==
  /\ \A p \in OneChip : Pins(p) \in Ops
  /\ \A x \in {"held", "released"} : Nrst(x) \in Ops
  /\ \A x \in {"low", "released"} : Nprog(x) \in Ops
  /\ IoOff \in Ops /\ IoOn \in Ops /\ IfBitstream \in Ops /\ SendChunk \in Ops
  /\ \A c \in Chips : /\ Cs(c) \in Ops /\ WaitWel(c) \in Ops /\ WaitIdle(c) \in Ops
                       /\ \A x \in {"writeEnable", "erase", "program", "read"} : Cmd(x, c) \in Ops
<1>1. \A p \in OneChip : Pins(p) \in Ops
  BY DEF Ops
<1>2. \A x \in {"held", "released"} : Nrst(x) \in Ops
  BY DEF Ops
<1>3. \A x \in {"low", "released"} : Nprog(x) \in Ops
  BY DEF Ops
<1>4. IoOff \in Ops /\ IoOn \in Ops /\ IfBitstream \in Ops /\ SendChunk \in Ops
  BY DEF Ops
<1>5. \A c \in Chips : Cs(c) \in Ops /\ WaitWel(c) \in Ops /\ WaitIdle(c) \in Ops
  BY DEF Ops
<1>6. \A c \in Chips : \A x \in {"writeEnable", "erase", "program", "read"} : Cmd(x, c) \in Ops
  BY DEF Ops
<1> QED BY <1>1, <1>2, <1>3, <1>4, <1>5, <1>6

\* A quiet step does not take any pins or give the FPGA its lines.
LEMMA NoQuietStepTakes ==
  ASSUME NEW op, Quietly(op)
  PROVE  ~ Takes(op) /\ ~ TakesFirmware(op) /\ op # Nrst("released") /\ op # IoOn
  BY OpKinds DEF Quietly, Takes, TakesFirmware

\* Steps that use only the chip switched to may follow.
LEMMA ThenQuiet ==
  ASSUME NEW s, NEW c, Sound(s), EndsOn(s, c), NEW u, Quiet(u, c)
  PROVE  Sound(s \o u) /\ EndsOn(s \o u, c)
<1> DEFINE w == s \o u
           m == Len(s)
<1>1. s \in Seq(Ops) /\ u \in Seq(Ops)
  BY DEF Sound, Quiet
<1>2. /\ w \in Seq(Ops) /\ m \in Nat /\ Len(u) \in Nat /\ Len(w) = m + Len(u)
      /\ \A k \in 1..Len(u) : w[m + k] = u[k]
  BY <1>1, Joined
<1>3. ASSUME NEW i \in 1..(m + Len(u)) PROVE FitsAt(w, i, Chips, "none", "released", "low")
  <2>1. CASE i <= m
    <3>1. i \in 1..m
      BY <1>2, <2>1
    <3>2. FitsAt(s, i, Chips, "none", "released", "low")
      BY <3>1 DEF Sound, Fits
    <3> QED BY <1>1, <3>1, <3>2, FitsFirst
  <2>2. CASE i > m
    <3>1. i - m \in 1..Len(u) /\ i - m \in 1..(Len(u) + 1) /\ i = m + (i - m)
      BY <1>2, <2>2
    <3>2. w[i] = u[i - m]
      BY <1>2, <3>1
    <3>3. Quietly(w[i]) /\ (Uses(w[i]) => For(w[i]) = c)
      BY <3>1, <3>2 DEF Quiet
    <3>4. SwitchedTo(w, m + (i - m), c)
      BY <1>1, <3>1, StaysSwitched
    <3>5. SwitchedTo(w, i, c)
      BY <3>1, <3>4
    <3>6. ~ Takes(w[i]) /\ ~ TakesFirmware(w[i]) /\ w[i] # Nrst("released") /\ w[i] # IoOn
      BY <3>3, NoQuietStepTakes
    <3> HIDE DEF w
    <3> QED BY <3>3, <3>5, <3>6 DEF FitsAt, On
  <2> QED BY <1>2, <2>1, <2>2
<1>4. SwitchedTo(w, m + (Len(u) + 1), c)
  BY <1>1, <1>2, StaysSwitched
<1>5. Sound(w)
  BY <1>2, <1>3 DEF Sound, Fits
<1>6. Len(w) + 1 = m + (Len(u) + 1)
  BY <1>2
<1> QED BY <1>4, <1>5, <1>6 DEF EndsOn

\* Two such sequences are one.
LEMMA QuietJoin ==
  ASSUME NEW s, NEW u, NEW c, Quiet(s, c), Quiet(u, c)
  PROVE  Quiet(s \o u, c)
<1>1. s \in Seq(Ops) /\ u \in Seq(Ops)
  BY DEF Quiet
<1>2. s \o u \in Seq(Ops) /\ Len(s) \in Nat /\ Len(u) \in Nat /\ Len(s \o u) = Len(s) + Len(u)
  BY <1>1, Joined
<1>3. ASSUME NEW i \in 1..(Len(s) + Len(u))
      PROVE  Quietly((s \o u)[i]) /\ (Uses((s \o u)[i]) => For((s \o u)[i]) = c)
  <2>1. CASE i <= Len(s)
    <3>1. i \in 1..Len(s) /\ (s \o u)[i] = s[i]
      BY <1>1, <1>2, <2>1, Joined
    <3> QED BY <3>1 DEF Quiet
  <2>2. CASE i > Len(s)
    <3>1. i - Len(s) \in 1..Len(u) /\ i = Len(s) + (i - Len(s))
      BY <1>2, <2>2
    <3>2. (s \o u)[i] = u[i - Len(s)]
      BY <1>1, <3>1, Joined
    <3> QED BY <3>1, <3>2 DEF Quiet
  <2> QED BY <1>2, <2>1, <2>2
<1> QED BY <1>2, <1>3 DEF Quiet

\* A remainder is below the divisor.
LEMMA RemainderOf ==
  ASSUME NEW n \in Nat, NEW d \in Nat \ {0}
  PROVE  n % d \in 0..(d - 1)
  OBVIOUS

\* Such a sequence may be repeated.
LEMMA QuietRepeat ==
  ASSUME NEW s, NEW c, Quiet(s, c), Len(s) > 0, NEW n \in Nat
  PROVE  Quiet(Repeat(n, s), c)
<1> DEFINE at(i) == ((i - 1) % Len(s)) + 1
<1>1. s \in Seq(Ops) /\ Len(s) \in Nat \ {0} /\ n * Len(s) \in Nat
  <2>1. s \in Seq(Ops)
    BY DEF Quiet
  <2>2. Len(s) \in Nat
    BY <2>1, LenProperties
  <2> QED BY <2>1, <2>2
<1>2. \A i \in 1..(n * Len(s)) : at(i) \in 1..Len(s)
  <2> SUFFICES ASSUME NEW i \in 1..(n * Len(s)) PROVE at(i) \in 1..Len(s)
    OBVIOUS
  <2>1. i - 1 \in Nat
    BY <1>1
  <2>2. (i - 1) % Len(s) \in 0..(Len(s) - 1)
    BY <1>1, <2>1, RemainderOf
  <2> QED BY <1>1, <2>2
<1> HIDE DEF at
<1>3. \A i \in 1..(n * Len(s)) : s[at(i)] \in Ops
  BY <1>1, <1>2, ElementOfSeq
<1>4. [i \in 1..(n * Len(s)) |-> s[at(i)]] \in Seq(Ops)
  BY <1>1, <1>3
<1>5. /\ Repeat(n, s) = [i \in 1..(n * Len(s)) |-> s[at(i)]]
  BY DEF Repeat, at
<1>6. Len(Repeat(n, s)) = n * Len(s)
  BY <1>1, <1>5
<1> QED BY <1>2, <1>4, <1>5, <1>6 DEF Quiet

-----------------------------------------------------------------------------
(* The operations. *)

\* No steps need nothing.
LEMMA Nothing == \A c : Quiet(<< >>, c) /\ Sound(<< >>)
<1>1. << >> \in Seq(Ops) /\ Len(<< >>) = 0
  OBVIOUS
<1> QED BY <1>1 DEF Quiet, Sound, Fits

\* Steps that use neither bus nor lines are sound anywhere.
LEMMA SilentSound ==
  ASSUME NEW s \in Seq(Ops), \A i \in 1..Len(s) : Quietly(s[i]) /\ ~ Uses(s[i])
  PROVE  Sound(s) /\ \A c : Quiet(s, c)
BY NoQuietStepTakes DEF Sound, Fits, FitsAt, Quiet

\* Erasing and preparing the FPGA only moves PROG_B.
LEMMA FpgaSteps ==
  /\ Sound(FpgaErase) /\ \A c : Quiet(FpgaErase, c)
  /\ Sound(FpgaProgramInit) /\ \A c : Quiet(FpgaProgramInit, c)
<1>1. /\ Nprog("low") \in Ops /\ Quietly(Nprog("low")) /\ ~ Uses(Nprog("low"))
      /\ Nprog("released") \in Ops /\ Quietly(Nprog("released")) /\ ~ Uses(Nprog("released"))
  BY OpTypes, OpKinds DEF Quietly, Uses
<1>2. /\ FpgaErase \in Seq(Ops)
      /\ \A i \in 1..Len(FpgaErase) : Quietly(FpgaErase[i]) /\ ~ Uses(FpgaErase[i])
  BY <1>1 DEF FpgaErase
<1>3. /\ FpgaProgramInit \in Seq(Ops)
      /\ \A i \in 1..Len(FpgaProgramInit) :
           Quietly(FpgaProgramInit[i]) /\ ~ Uses(FpgaProgramInit[i])
  BY <1>1 DEF FpgaProgramInit
<1> QED BY <1>2, <1>3, SilentSound

\* release_spi_io gives the FPGA its lines after the pins are off.
LEMMA ReleaseSound == Sound(ReleaseSpiIo)
<1> DEFINE s == ReleaseSpiIo
<1>1. /\ Len(s) = 3 /\ s[1] = Pins({}) /\ s[2] = Nrst("released") /\ s[3] = IoOn
      /\ s = <<Pins({}), Nrst("released"), IoOn>>
  BY DEF ReleaseSpiIo, IoOn
<1>2. Pins({}) \in Ops /\ Nrst("released") \in Ops /\ IoOn \in Ops
  BY OpTypes DEF OneChip
<1>3. s \in Seq(Ops)
  BY <1>1, <1>2
<1> HIDE DEF s
<1>4. ~ Uses(s[1]) /\ ~ Uses(s[2]) /\ ~ Uses(s[3])
  BY <1>1, OpKinds DEF Uses
<1>5. /\ ~ Takes(s[1]) /\ ~ Takes(s[2]) /\ ~ Takes(s[3])
      /\ ~ TakesFirmware(s[1]) /\ ~ TakesFirmware(s[2]) /\ ~ TakesFirmware(s[3])
  BY <1>1, OpKinds DEF Takes, TakesFirmware
<1>6. s[1] # Nrst("released") /\ s[1] # IoOn /\ s[2] # IoOn /\ s[3] # Nrst("released")
  BY <1>1, OpKinds
<1>7. Given(s, 2, Chips) /\ Released(s, 3, Chips)
  BY <1>1 DEF Given, Released
<1>8. \A i \in 1..3 : FitsAt(s, i, Chips, "none", "released", "low")
  <2>1. \A i \in 1..3 : i = 1 \/ i = 2 \/ i = 3
    OBVIOUS
  <2> QED BY <2>1, <1>4, <1>5, <1>6, <1>7 DEF FitsAt
<1> QED BY <1>1, <1>3, <1>8 DEF Sound, Fits, s

\* What follows release_spi_io takes the pins of one chip, after the FPGA has been
\* held off them if the chip is the firmware flash.
LEMMA ThenTakes ==
  ASSUME NEW u \in Seq(Ops), NEW c, NEW k \in 1..Len(u), Len(u) = k + 1,
         u[k] = Pins({c}), u[k + 1] = Cs(c),
         \A i \in 1..(k - 1) : u[i] = Nrst("held") \/ u[i] = IoOff,
         TakesFirmware(u[k]) => k > 2 /\ u[k - 2] = Nrst("held") /\ u[k - 1] = IoOff
  PROVE  Sound(ReleaseSpiIo \o u) /\ EndsOn(ReleaseSpiIo \o u, c)
<1> DEFINE r == ReleaseSpiIo
           w == r \o u
<1>1. r \in Seq(Ops) /\ Len(r) = 3 /\ r[1] = Pins({}) /\ r[2] = Nrst("released") /\ r[3] = IoOn
  BY ReleaseSound DEF Sound, ReleaseSpiIo, IoOn
<1>2. /\ w \in Seq(Ops) /\ Len(w) = 3 + (k + 1) /\ k \in Nat \ {0}
      /\ \A i \in 1..3 : w[i] = r[i]
      /\ \A i \in 1..(k + 1) : w[3 + i] = u[i]
  <2>1. k \in Nat \ {0} /\ 1..Len(u) = 1..(k + 1)
    BY LenProperties
  <2>2. /\ w \in Seq(Ops) /\ Len(w) = Len(r) + Len(u)
        /\ \A i \in 1..Len(r) : w[i] = r[i]
        /\ \A i \in 1..Len(u) : w[Len(r) + i] = u[i]
    BY <1>1, Joined
  <2> HIDE DEF w, r
  <2> QED BY <1>1, <2>1, <2>2
<1>3. ASSUME NEW i \in 1..3 PROVE FitsAt(w, i, Chips, "none", "released", "low")
  BY <1>1, <1>3, ReleaseSound, FitsFirst DEF Sound, Fits
<1> HIDE DEF r, w
<1>4. ASSUME NEW i \in 1..(k + 1) PROVE FitsAt(w, 3 + i, Chips, "none", "released", "low")
  <2>1. CASE i < k
    <3>1. w[3 + i] = Nrst("held") \/ w[3 + i] = IoOff
      BY <1>2, <2>1
    <3>2. /\ ~ Takes(w[3 + i]) /\ ~ TakesFirmware(w[3 + i]) /\ ~ Uses(w[3 + i])
          /\ w[3 + i] # Nrst("released") /\ w[3 + i] # IoOn
      BY <3>1, OpKinds DEF Takes, TakesFirmware, Uses
    <3> QED BY <3>2 DEF FitsAt
  <2>2. CASE i = k
    <3>1. w[3 + k] = Pins({c}) /\ w[1] = Pins({})
      BY <1>1, <1>2
    <3>2. PinsKept(w, 1 + 1, (3 + k) - 1)
      <4> SUFFICES ASSUME NEW j \in (1 + 1)..((3 + k) - 1) PROVE w[j].do # "pins"
        BY DEF PinsKept
      <4>1. CASE j = 2 \/ j = 3
        BY <1>1, <1>2, <4>1, OpKinds
      <4>2. CASE j > 3
        <5>1. j - 3 \in 1..(k - 1) /\ j - 3 \in 1..(k + 1) /\ j = 3 + (j - 3)
          BY <1>2, <4>2
        <5>2. w[j] = u[j - 3]
          BY <1>2, <5>1
        <5> QED BY <5>1, <5>2, OpKinds
      <4> QED BY <1>2, <4>1, <4>2
    <3>3. GivenBack(w, 3 + k, Chips)
      <4>1. 1 \in 1..((3 + k) - 1)
        BY <1>2
      <4> QED BY <3>1, <3>2, <4>1 DEF GivenBack
    <3>4. TakesFirmware(w[3 + k]) => Held(w, 3 + k, "released", "low")
      <4> SUFFICES ASSUME TakesFirmware(w[3 + k]) PROVE Held(w, 3 + k, "released", "low")
        OBVIOUS
      <4>1. k > 2 /\ u[k - 2] = Nrst("held") /\ u[k - 1] = IoOff
        BY <3>1
      <4>2. /\ k - 2 \in 1..(k + 1) /\ k - 1 \in 1..(k + 1) /\ 3 + k > 2
            /\ 3 + (k - 2) = (3 + k) - 2 /\ 3 + (k - 1) = (3 + k) - 1
        BY <1>2, <4>1
      <4>3. w[3 + (k - 2)] = Nrst("held") /\ w[3 + (k - 1)] = IoOff
        BY <1>2, <4>1, <4>2
      <4> QED BY <4>2, <4>3 DEF Held
    <3>5. ~ Uses(w[3 + k]) /\ w[3 + k] # Nrst("released") /\ w[3 + k] # IoOn
      BY <3>1, OpKinds DEF Uses
    <3> QED BY <2>2, <3>3, <3>4, <3>5 DEF FitsAt
  <2>3. CASE i = k + 1
    <3>1. w[3 + i] = Cs(c)
      BY <1>2, <2>3
    <3>2. /\ ~ Takes(w[3 + i]) /\ ~ TakesFirmware(w[3 + i]) /\ ~ Uses(w[3 + i])
          /\ w[3 + i] # Nrst("released") /\ w[3 + i] # IoOn
      BY <3>1, OpKinds DEF Takes, TakesFirmware, Uses
    <3> QED BY <3>2 DEF FitsAt
  <2> QED BY <1>2, <2>1, <2>2, <2>3
<1>5. ASSUME NEW i \in 1..(3 + (k + 1)) PROVE FitsAt(w, i, Chips, "none", "released", "low")
  <2>1. i \in 1..3 \/ (i - 3 \in 1..(k + 1) /\ i = 3 + (i - 3))
    BY <1>2
  <2> QED BY <1>3, <1>4, <2>1
<1>6. EndsOn(u, c)
  <2>1. k + 1 \in 2..((Len(u) + 1) - 1) /\ (k + 1) - 1 = k
    BY <1>2
  <2>2. Untouched(u, (k + 1) + 1, (Len(u) + 1) - 1)
    BY <1>2 DEF Untouched
  <2> QED BY <2>1, <2>2 DEF EndsOn, SwitchedTo
<1>7. EndsOn(w, c)
  BY <1>1, <1>6, EndsOnLast DEF w
<1> QED BY <1>2, <1>5, <1>7 DEF Sound, Fits, w, r

\* bitstream_init_spi ends on the bitstream flash.
LEMMA BitstreamInitSound == Sound(BitstreamInitSpi) /\ EndsOn(BitstreamInitSpi, "bitstream")
<1> DEFINE s == <<Pins({"bitstream"}), Cs("bitstream")>>
<1>1. Len(s) = 1 + 1 /\ s[1] = Pins({"bitstream"}) /\ s[1 + 1] = Cs("bitstream")
  OBVIOUS
<1>2. Pins({"bitstream"}) \in Ops /\ Cs("bitstream") \in Ops
  BY OpTypes DEF Chips, OneChip
<1>3. s \in Seq(Ops)
  BY <1>2
<1> HIDE DEF s
<1>4. ~ TakesFirmware(s[1])
  BY <1>1, OpKinds DEF TakesFirmware
<1>5. 1 \in 1..Len(s) /\ 1..(1 - 1) = {}
  BY <1>1
<1>6. BitstreamInitSpi = ReleaseSpiIo \o s
  BY DEF BitstreamInitSpi, s
<1> QED BY <1>1, <1>3, <1>4, <1>5, <1>6, ThenTakes

\* firmware_init_spi holds the FPGA before it drives the pins.
LEMMA FirmwareInitSound == Sound(FirmwareInitSpi) /\ EndsOn(FirmwareInitSpi, "firmware")
<1> DEFINE s == <<Nrst("held"), IoOff, Pins({"firmware"}), Cs("firmware")>>
<1>1. /\ Len(s) = 3 + 1 /\ s[1] = Nrst("held") /\ s[2] = IoOff
      /\ s[3] = Pins({"firmware"}) /\ s[3 + 1] = Cs("firmware")
  OBVIOUS
<1>2. Nrst("held") \in Ops /\ IoOff \in Ops /\ Pins({"firmware"}) \in Ops /\ Cs("firmware") \in Ops
  BY OpTypes DEF Chips, OneChip
<1>3. s \in Seq(Ops)
  BY <1>2
<1> HIDE DEF s
<1>4. /\ \A i \in 1..(3 - 1) : s[i] = Nrst("held") \/ s[i] = IoOff
      /\ 3 > 2 /\ s[3 - 2] = Nrst("held") /\ s[3 - 1] = IoOff
  BY <1>1
<1>5. 3 \in 1..Len(s)
  BY <1>1
<1>6. FirmwareInitSpi = ReleaseSpiIo \o s
  BY DEF FirmwareInitSpi, s, IoOff
<1> QED BY <1>1, <1>3, <1>4, <1>5, <1>6, ThenTakes

\* Single steps for one chip.
LEMMA QuietSteps ==
  ASSUME NEW c \in Chips
  PROVE  /\ Quiet(Read(c), c) /\ Quiet(PageProgramBlocking(c), c)
         /\ Quiet(Erase64kNonblocking(c) \o <<WaitIdle(c)>>, c)
         /\ Len(Read(c)) > 0 /\ Len(Erase64kNonblocking(c) \o <<WaitIdle(c)>>) > 0
<1> DEFINE Fine(op) == op \in Ops /\ Quietly(op) /\ (Uses(op) => For(op) = c)
<1>1. /\ Fine(Cmd("read", c)) /\ Fine(Cmd("writeEnable", c))
      /\ Fine(Cmd("erase", c)) /\ Fine(Cmd("program", c))
      /\ Fine(WaitWel(c)) /\ Fine(WaitIdle(c))
  BY OpTypes, OpKinds DEF Quietly, For
<1>2. ASSUME NEW op, Fine(op) PROVE Quiet(<<op>>, c)
  BY <1>2 DEF Quiet
<1>3. ASSUME NEW op, NEW x, Fine(op), Fine(x) PROVE Quiet(<<op, x>>, c)
  BY <1>3 DEF Quiet
<1> HIDE DEF Fine
<1>4. Quiet(Read(c), c)
  BY <1>1, <1>2 DEF Read
<1>5. Quiet(WriteEnable(c), c)
  BY <1>1, <1>3 DEF WriteEnable
<1>6. Quiet(PageProgramBlocking(c), c)
  BY <1>1, <1>3, <1>5, QuietJoin DEF PageProgramBlocking
<1>7. Quiet(Erase64kNonblocking(c) \o <<WaitIdle(c)>>, c)
  BY <1>1, <1>2, <1>5, QuietJoin DEF Erase64kNonblocking
<1>8. Len(Read(c)) > 0
  BY DEF Read
<1>9. Len(Erase64kNonblocking(c) \o <<WaitIdle(c)>>) > 0
  <2>1. Quiet(Erase64kNonblocking(c), c) /\ Quiet(<<WaitIdle(c)>>, c)
    BY <1>1, <1>2, <1>5, QuietJoin DEF Erase64kNonblocking
  <2>2. Len(<<WaitIdle(c)>>) = 1
    OBVIOUS
  <2> QED BY <2>1, <2>2, Joined DEF Quiet
<1> QED BY <1>4, <1>6, <1>7, <1>8, <1>9

\* Loading the FPGA reads from the bitstream flash only.
LEMMA LoadQuiet ==
  ASSUME NEW n \in Nat
  PROVE  Quiet(LoadFpga(n), "bitstream")
<1> DEFINE chunk == Read("bitstream") \o <<SendChunk>>
<1>1. SendChunk \in Ops /\ Quietly(SendChunk) /\ ~ Uses(SendChunk)
  BY OpTypes, OpKinds DEF Quietly, Uses
<1>2. Quiet(<<SendChunk>>, "bitstream")
  BY <1>1 DEF Quiet
<1>3. Quiet(Read("bitstream"), "bitstream")
  BY QuietSteps DEF Chips
<1>4. Quiet(chunk, "bitstream")
  BY <1>2, <1>3, QuietJoin
<1>5. Len(chunk) > 0
  BY <1>2, <1>3, Joined DEF Quiet
<1> HIDE DEF chunk
<1>6. Quiet(Repeat(n, chunk), "bitstream")
  BY <1>4, <1>5, QuietRepeat
<1>7. LoadFpga(n) = FpgaProgramInit \o FpgaErase \o Repeat(n, chunk)
  BY DEF LoadFpga, chunk
<1> QED BY <1>6, <1>7, FpgaSteps, QuietJoin

\* startup_program_bitstream is sound.
LEMMA StartupSound == Sound(StartupProgramBitstream)
<1>1. Quiet(Read("bitstream"), "bitstream")
  BY QuietSteps DEF Chips
<1>2. IfBitstream \in Ops /\ Quietly(IfBitstream) /\ For(IfBitstream) = "bitstream"
  BY OpTypes, OpKinds DEF Quietly, For
<1>3. Quiet(<<IfBitstream>>, "bitstream")
  BY <1>2 DEF Quiet
<1> QED BY <1>1, <1>3, BitstreamInitSound, ThenQuiet DEF StartupProgramBitstream

\* So are the checks for the flashes.
LEMMA ChecksSound == Sound(CheckFlashForBitstreams) /\ Sound(CheckFlashForFirmware)
<1>1. /\ Quiet(Repeat(3, Read("bitstream")), "bitstream")
      /\ Quiet(Repeat(3, Read("firmware")), "firmware")
  BY QuietSteps, QuietRepeat DEF Chips
<1>2. Sound(CheckFlashForBitstreams)
  BY <1>1, BitstreamInitSound, ThenQuiet DEF CheckFlashForBitstreams
<1>3. Sound(FirmwareInitSpi \o FpgaErase) /\ EndsOn(FirmwareInitSpi \o FpgaErase, "firmware")
  BY FirmwareInitSound, FpgaSteps, ThenQuiet
<1>4. Sound((FirmwareInitSpi \o FpgaErase) \o Repeat(3, Read("firmware")))
  BY <1>1, <1>3, ThenQuiet
<1>5. Sound(CheckFlashForFirmware)
  BY <1>4, ReleaseSound, SoundSound DEF CheckFlashForFirmware
<1> QED BY <1>2, <1>5

\* So is the handling of a block, whatever it erases.
LEMMA BlockSound ==
  ASSUME NEW c \in Chips, NEW n \in Nat, NEW last \in BOOLEAN
  PROVE  Sound(ProgramBlock(c, n, last))
<1> DEFINE first == IF open[c] THEN << >> ELSE OpenSession(c, n)
           close == IF last THEN CloseSession ELSE << >>
<1>1. Sound(InitSpi(c)) /\ EndsOn(InitSpi(c), c)
  BY BitstreamInitSound, FirmwareInitSound DEF InitSpi, Chips
<1>2. Quiet(OpenSession(c, n), c)
  <2> DEFINE erase == Erase64kNonblocking(c) \o <<WaitIdle(c)>>
  <2>1. Quiet(erase, c) /\ Len(erase) > 0
    BY QuietSteps
  <2> HIDE DEF erase
  <2>2. Quiet(Repeat(n, erase), c)
    BY <2>1, QuietRepeat
  <2>3. Quiet(FpgaErase \o Repeat(n, erase), c)
    BY <2>2, FpgaSteps, QuietJoin
  <2> QED BY <2>3 DEF OpenSession, erase
<1>3. Quiet(first, c)
  BY <1>2, Nothing
<1>4. Sound(CloseSession)
  BY ReleaseSound, StartupSound, SoundSound DEF CloseSession
<1>5. Sound(close)
  BY <1>4, Nothing
<1> HIDE DEF first, close
<1>6. Sound(InitSpi(c) \o first) /\ EndsOn(InitSpi(c) \o first, c)
  BY <1>1, <1>3, ThenQuiet
<1>7. /\ Sound((InitSpi(c) \o first) \o PageProgramBlocking(c))
      /\ EndsOn((InitSpi(c) \o first) \o PageProgramBlocking(c), c)
  BY <1>6, QuietSteps, ThenQuiet
<1>8. Sound(((InitSpi(c) \o first) \o PageProgramBlocking(c)) \o Read(c))
  BY <1>7, QuietSteps, ThenQuiet
<1>9. Sound((((InitSpi(c) \o first) \o PageProgramBlocking(c)) \o Read(c)) \o close)
  BY <1>5, <1>8, SoundSound
<1> QED BY <1>9 DEF ProgramBlock, first, close

\* The first step of main releases the I/O of the FPGA: nothing has the pins yet.
LEMMA BootFits ==
  ASSUME NEW cs, NEW n, NEW t
  PROVE  Boot \in Seq(Ops) /\ Fits(Boot, {}, cs, n, t)
<1> DEFINE start == <<IoOn>>
<1>1. /\ IoOn \in Ops /\ ~ Takes(IoOn) /\ ~ TakesFirmware(IoOn)
      /\ ~ Uses(IoOn) /\ IoOn # Nrst("released")
  BY OpTypes, OpKinds DEF Takes, TakesFirmware, Uses
<1>2. start \in Seq(Ops) /\ Len(start) = 1 /\ start[1] = IoOn
  BY <1>1
<1> HIDE DEF start
<1>3. Fits(start, {}, cs, n, t)
  BY <1>1, <1>2 DEF Fits, FitsAt, Released
<1> DEFINE Right(s) == s \in Seq(Ops) /\ Fits(s, {}, cs, n, t)
<1>4. ASSUME NEW s, NEW u, Right(s), Sound(u) PROVE Right(s \o u)
  BY <1>4, FitsThenSound, Joined DEF Sound
<1>5. Right(start)
  BY <1>2, <1>3
<1> HIDE DEF Right
<1>6. Right(start \o FpgaProgramInit)
  BY <1>4, <1>5, FpgaSteps
<1>7. Right((start \o FpgaProgramInit) \o FpgaErase)
  BY <1>4, <1>6, FpgaSteps
<1>8. Right(((start \o FpgaProgramInit) \o FpgaErase) \o CheckFlashForBitstreams)
  BY <1>4, <1>7, ChecksSound
<1>9. Right((((start \o FpgaProgramInit) \o FpgaErase) \o CheckFlashForBitstreams)
           \o CheckFlashForFirmware)
  BY <1>4, <1>8, ChecksSound
<1>10. Right(((((start \o FpgaProgramInit) \o FpgaErase) \o CheckFlashForBitstreams)
            \o CheckFlashForFirmware) \o StartupProgramBitstream)
  BY <1>4, <1>9, StartupSound
<1> QED BY <1>10 DEF Right, Boot, start, IoOn

-----------------------------------------------------------------------------
(* The steps. *)

\* Every step is one of those the actions know.
LEMMA OpShapes ==
  ASSUME NEW op \in Ops
  PROVE  /\ op.do \in {"pins", "cs", "nrst", "tristate", "nprog", "cmd", "waitWel",
                       "waitIdle", "ifBitstream", "sendChunk"}
         /\ op.do = "pins" => op.on \in OneChip
         /\ op.do = "cs" => op.chip \in Chips
         /\ op.do = "nrst" => op = Nrst("held") \/ op = Nrst("released")
         /\ op.do = "tristate" => op = IoOff \/ op = IoOn
         /\ op.do = "nprog" => op.to \in {"low", "released"}
<1>1. CASE \E p \in OneChip : op = Pins(p)
  BY <1>1, OpKinds
<1>2. CASE \E c \in Chips : op = Cs(c)
  BY <1>2, OpKinds
<1>3. CASE op = Nrst("held") \/ op = Nrst("released")
  BY <1>3, OpKinds
<1>4. CASE op = IoOff \/ op = IoOn
  BY <1>4, OpKinds
<1>5. CASE op = Nprog("low") \/ op = Nprog("released")
  BY <1>5, OpKinds
<1>6. CASE \E x \in {"writeEnable", "erase", "program", "read"}, c \in Chips : op = Cmd(x, c)
  BY <1>6, OpKinds
<1>7. CASE \E c \in Chips : op = WaitWel(c) \/ op = WaitIdle(c)
  BY <1>7, OpKinds
<1>8. CASE op = IfBitstream \/ op = SendChunk
  BY <1>8, OpKinds
<1> QED BY <1>1, <1>2, <1>3, <1>4, <1>5, <1>6, <1>7, <1>8 DEF Ops

\* What is left after the first step.
LEMMA TailOf ==
  ASSUME NEW s \in Seq(Ops), s # << >>
  PROVE  /\ Tail(s) \in Seq(Ops) /\ Head(s) = s[1] /\ s[1] \in Ops
         /\ Len(s) \in Nat \ {0} /\ Len(Tail(s)) = Len(s) - 1
         /\ \A i \in 1..(Len(s) - 1) : Tail(s)[i] = s[i + 1]
<1>1. Len(s) \in Nat \ {0}
  BY EmptySeq, LenProperties
<1> QED BY <1>1, HeadTailProperties, ElementOfSeq

\* What the first step of s makes of the pins, the chip select and the lines.
Then(s, p, cs, n, t, pp, ccs, nn, tt) ==
  /\ pp = IF s[1].do = "pins" THEN s[1].on ELSE p
  /\ ccs = IF s[1].do = "cs" THEN s[1].chip ELSE cs
  /\ nn = IF s[1].do = "nrst" THEN s[1].to ELSE n
  /\ tt = IF s[1] = IoOff THEN "high" ELSE IF s[1] = IoOn THEN "low" ELSE t

\* What fits before a step fits after it.
LEMMA Advance ==
  ASSUME NEW s \in Seq(Ops), s # << >>,
         NEW p, NEW cs, NEW n, NEW t, Fits(s, p, cs, n, t),
         NEW pp, NEW ccs, NEW nn, NEW tt, Then(s, p, cs, n, t, pp, ccs, nn, tt)
  PROVE  Fits(Tail(s), pp, ccs, nn, tt)
<1> DEFINE r == Tail(s)
<1>1. Len(s) \in Nat \ {0} /\ Len(r) = Len(s) - 1 /\ \A k \in 1..(Len(s) - 1) : r[k] = s[k + 1]
  BY TailOf
<1> HIDE DEF r
<1> SUFFICES ASSUME NEW i \in 1..(Len(s) - 1) PROVE FitsAt(r, i, pp, ccs, nn, tt)
  BY <1>1 DEF Fits, r
<1>2. FitsAt(s, i + 1, p, cs, n, t)
  BY <1>1 DEF Fits
<1>3. r[i] = s[i + 1] /\ i \in Nat \ {0}
  BY <1>1
<1>4. \A k \in 2..i : r[k - 1] = s[k]
  BY <1>1
<1>5. Held(s, i + 1, n, t) => Held(r, i, nn, tt)
  <2> SUFFICES ASSUME Held(s, i + 1, n, t) PROVE Held(r, i, nn, tt)
    OBVIOUS
  <2>1. CASE i = 1
    <3>1. n = "held" /\ s[1] = IoOff
      BY <2>1 DEF Held
    <3>2. nn = "held" /\ tt = "high"
      BY <3>1, OpKinds DEF Then
    <3> QED BY <2>1, <3>2 DEF Held
  <2>2. CASE i > 1
    <3>1. s[i - 1] = Nrst("held") /\ s[i] = IoOff
      BY <1>3, <2>2 DEF Held
    <3>2. r[i - 1] = IoOff
      BY <1>3, <1>4, <2>2, <3>1
    <3>3. CASE i = 2
      <4>1. nn = "held"
        BY <3>1, <3>3, OpKinds DEF Then
      <4> QED BY <3>2, <3>3, <4>1 DEF Held
    <3>4. CASE i > 2
      <4>1. i - 1 \in 2..i /\ (i - 1) - 1 = i - 2
        BY <1>3, <3>4
      <4>2. r[i - 2] = Nrst("held")
        BY <1>4, <3>1, <4>1
      <4> QED BY <3>2, <3>4, <4>2 DEF Held
    <3> QED BY <1>3, <2>2, <3>3, <3>4
  <2> QED BY <1>3, <2>1, <2>2
<1>6. Given(s, i + 1, p) => Given(r, i, pp)
  <2> SUFFICES ASSUME Given(s, i + 1, p) PROVE Given(r, i, pp)
    OBVIOUS
  <2>1. s[i] = Pins({})
    BY <1>3 DEF Given
  <2>2. CASE i = 1
    <3>1. pp = {}
      BY <2>1, <2>2, OpKinds DEF Then
    <3> QED BY <2>2, <3>1 DEF Given
  <2>3. CASE i > 1
    BY <1>3, <1>4, <2>1, <2>3 DEF Given
  <2> QED BY <1>3, <2>2, <2>3
<1>7. Released(s, i + 1, p) => Released(r, i, pp)
  <2> SUFFICES ASSUME Released(s, i + 1, p) PROVE Released(r, i, pp)
    OBVIOUS
  <2>1. CASE i = 1
    <3>1. "firmware" \notin p /\ s[1] = Nrst("released")
      BY <2>1 DEF Released
    <3>2. pp = p
      BY <3>1, OpKinds DEF Then
    <3> QED BY <2>1, <3>1, <3>2 DEF Released
  <2>2. CASE i > 1
    <3>1. s[i - 1] = Pins({}) /\ s[i] = Nrst("released")
      BY <1>3, <2>2 DEF Released
    <3>2. r[i - 1] = Nrst("released")
      BY <1>3, <1>4, <2>2, <3>1
    <3>3. CASE i = 2
      <4>1. pp = {}
        BY <3>1, <3>3, OpKinds DEF Then
      <4> QED BY <3>2, <3>3, <4>1 DEF Released
    <3>4. CASE i > 2
      <4>1. i - 1 \in 2..i /\ (i - 1) - 1 = i - 2
        BY <1>3, <3>4
      <4>2. r[i - 2] = Pins({})
        BY <1>4, <3>1, <4>1
      <4> QED BY <3>2, <3>4, <4>2 DEF Released
    <3> QED BY <1>3, <2>2, <3>3, <3>4
  <2> QED BY <1>3, <2>1, <2>2
<1>8. ASSUME NEW a \in Nat \ {0}, Untouched(s, a + 1, i) PROVE Untouched(r, a, i - 1)
  <2> SUFFICES ASSUME NEW k \in a..(i - 1) PROVE ~ Switches(r[k])
    BY DEF Untouched
  <2>1. k + 1 \in (a + 1)..i /\ k + 1 \in 2..i /\ (k + 1) - 1 = k
    BY <1>3
  <2> QED BY <1>4, <1>8, <2>1 DEF Untouched
<1>9. ASSUME NEW c, On(s, i + 1, c, p, cs) PROVE On(r, i, c, pp, ccs)
  <2>1. CASE SwitchedTo(s, i + 1, c)
    <3>1. PICK j \in 2..i : s[j - 1] = Pins({c}) /\ s[j] = Cs(c) /\ Untouched(s, j + 1, i)
      BY <1>3, <2>1 DEF SwitchedTo
    <3>2. j - 1 \in Nat \ {0} /\ (j - 1) + 1 = j /\ r[j - 1] = Cs(c) /\ j \in Nat
      BY <1>4, <3>1
    <3>3. Untouched(r, j, i - 1)
      BY <1>8, <3>1, <3>2
    <3>4. CASE j = 2
      <4>1. pp = {c}
        BY <3>1, <3>4, OpKinds DEF Then
      <4> QED BY <3>2, <3>3, <3>4, <4>1, <1>3 DEF On
    <3>5. CASE j > 2
      <4>1. j - 1 \in 2..i /\ j - 1 \in 2..(i - 1)
        BY <1>3, <3>5
      <4>2. r[(j - 1) - 1] = Pins({c}) /\ r[j - 1] = Cs(c) /\ Untouched(r, (j - 1) + 1, i - 1)
        BY <1>4, <3>1, <3>2, <3>3, <4>1
      <4>3. SwitchedTo(r, i, c)
        BY <4>1, <4>2 DEF SwitchedTo
      <4> QED BY <4>3 DEF On
    <3> QED BY <3>4, <3>5
  <2>2. CASE s[1] = Cs(c) /\ p = {c} /\ Untouched(s, 2, (i + 1) - 1)
    <3>1. pp = {c} /\ ccs = c
      BY <2>2, OpKinds DEF Then
    <3>2. Untouched(r, 1, i - 1)
      <4>1. 1 + 1 = 2 /\ (i + 1) - 1 = i
        BY <1>3
      <4> QED BY <1>8, <2>2, <4>1
    <3> QED BY <3>1, <3>2 DEF On
  <2>3. CASE p = {c} /\ cs = c /\ Untouched(s, 1, (i + 1) - 1)
    <3>1. ~ Switches(s[1])
      BY <1>3, <2>3 DEF Untouched
    <3>2. pp = {c} /\ ccs = c
      BY <2>3, <3>1 DEF Then, Switches
    <3>3. Untouched(s, 2, i)
      BY <1>3, <2>3 DEF Untouched
    <3>4. Untouched(r, 1, i - 1)
      <4>1. 1 + 1 = 2
        OBVIOUS
      <4> QED BY <1>8, <3>3, <4>1
    <3> QED BY <3>2, <3>4 DEF On
  <2> QED BY <1>9, <2>1, <2>2, <2>3 DEF On
<1>10. GivenBack(s, i + 1, p) => GivenBack(r, i, pp)
  <2> SUFFICES ASSUME GivenBack(s, i + 1, p) PROVE GivenBack(r, i, pp)
    OBVIOUS
  <2>1. ASSUME NEW a \in Nat \ {0}, PinsKept(s, a + 1, i) PROVE PinsKept(r, a, i - 1)
    <3> SUFFICES ASSUME NEW k \in a..(i - 1) PROVE r[k].do # "pins"
      BY DEF PinsKept
    <3>1. k + 1 \in (a + 1)..i /\ k + 1 \in 2..i /\ (k + 1) - 1 = k
      BY <1>3
    <3> QED BY <1>4, <2>1, <3>1 DEF PinsKept
  <2>2. CASE p = {} /\ PinsKept(s, 1, i)
    <3>1. s[1].do # "pins" /\ PinsKept(s, 1 + 1, i)
      BY <1>3, <2>2 DEF PinsKept
    <3>2. pp = {}
      BY <2>2, <3>1 DEF Then
    <3>3. PinsKept(r, 1, i - 1)
      BY <2>1, <3>1
    <3> QED BY <3>2, <3>3 DEF GivenBack
  <2>3. CASE \E j \in 1..i : s[j] = Pins({}) /\ PinsKept(s, j + 1, i)
    <3>1. PICK j \in 1..i : s[j] = Pins({}) /\ PinsKept(s, j + 1, i)
      BY <2>3
    <3>2. PinsKept(r, j, i - 1)
      BY <2>1, <3>1
    <3>3. CASE j = 1
      <4>1. pp = {}
        BY <3>1, <3>3, OpKinds DEF Then
      <4> QED BY <3>2, <3>3, <4>1 DEF GivenBack
    <3>4. CASE j > 1
      <4>1. j - 1 \in 1..(i - 1) /\ (j - 1) + 1 = j /\ j \in 2..i
        BY <1>3, <3>4
      <4>2. r[j - 1] = Pins({})
        BY <1>4, <3>1, <4>1
      <4> QED BY <3>2, <4>1, <4>2 DEF GivenBack
    <3> QED BY <3>3, <3>4
  <2>4. (i + 1) - 1 = i
    BY <1>3
  <2> QED BY <2>2, <2>3, <2>4 DEF GivenBack
<1> QED BY <1>2, <1>3, <1>5, <1>6, <1>7, <1>9, <1>10 DEF FitsAt

\* A header that is there puts the load of the FPGA before what is left.
LEMMA Insert ==
  ASSUME NEW s \in Seq(Ops), s # << >>, s[1].do = "ifBitstream",
         NEW p, NEW cs, NEW n, NEW t, Fits(s, p, cs, n, t),
         NEW u, Quiet(u, "bitstream")
  PROVE  u \o Tail(s) \in Seq(Ops) /\ Fits(u \o Tail(s), p, cs, n, t)
<1> DEFINE r == Tail(s)
           w == u \o r
           m == Len(u)
           b == "bitstream"
<1>1. /\ r \in Seq(Ops) /\ Len(s) \in Nat \ {0} /\ Len(r) = Len(s) - 1
      /\ \A k \in 1..(Len(s) - 1) : r[k] = s[k + 1]
  BY TailOf
<1>2. u \in Seq(Ops)
  BY DEF Quiet
<1>3. /\ w \in Seq(Ops) /\ m \in Nat /\ Len(w) = m + (Len(s) - 1)
      /\ \A k \in 1..m : w[k] = u[k]
      /\ \A k \in 1..(Len(s) - 1) : w[m + k] = s[k + 1]
  BY <1>1, <1>2, Joined
<1> HIDE DEF r, w, m
<1>4. p = {b} /\ cs = b
  <2>1. FitsAt(s, 1, p, cs, n, t)
    BY <1>1 DEF Fits
  <2>2. On(s, 1, b, p, cs)
    BY <2>1 DEF FitsAt, Uses, For
  <2> QED BY <2>2 DEF On, SwitchedTo
<1>5. \A k \in 1..m : ~ Switches(w[k])
  BY <1>3 DEF Quiet, Quietly, Switches, m
<1>6. ASSUME NEW i \in 1..m PROVE FitsAt(w, i, p, cs, n, t)
  <2>1. Quietly(w[i]) /\ (Uses(w[i]) => For(w[i]) = b)
    BY <1>3 DEF Quiet, m
  <2>2. Untouched(w, 1, i - 1)
    BY <1>3, <1>5 DEF Untouched
  <2>3. On(w, i, b, p, cs)
    BY <1>4, <2>2 DEF On
  <2>4. ~ Takes(w[i]) /\ ~ TakesFirmware(w[i]) /\ w[i] # Nrst("released") /\ w[i] # IoOn
    BY <2>1, NoQuietStepTakes
  <2> QED BY <2>1, <2>3, <2>4 DEF FitsAt
<1>7. ASSUME NEW i \in 1..(Len(s) - 1) PROVE FitsAt(w, m + i, p, cs, n, t)
  <2>1. FitsAt(s, i + 1, p, cs, n, t) /\ w[m + i] = s[i + 1] /\ i \in Nat \ {0}
    BY <1>1, <1>3 DEF Fits
  <2>2. \A k \in 2..i : w[(m + k) - 1] = s[k] /\ m + k \in 2..(m + i)
    <3> SUFFICES ASSUME NEW k \in 2..i PROVE w[(m + k) - 1] = s[k] /\ m + k \in 2..(m + i)
      OBVIOUS
    <3>1. k - 1 \in 1..(Len(s) - 1) /\ (m + k) - 1 = m + (k - 1) /\ (k - 1) + 1 = k
      BY <1>1, <1>3
    <3> QED BY <1>3, <3>1
  <2>3. Held(s, i + 1, n, t) => Held(w, m + i, n, t)
    <3> SUFFICES ASSUME Held(s, i + 1, n, t) PROVE Held(w, m + i, n, t)
      OBVIOUS
    <3>1. i > 2 /\ s[i - 1] = Nrst("held") /\ s[i] = IoOff
      BY <2>1, OpKinds DEF Held
    <3>2. i - 1 \in 2..i /\ i \in 2..i /\ (m + (i - 1)) - 1 = (m + i) - 2
      <4>1. i > 2 /\ i \in Nat /\ m \in Nat
        BY <1>3, <2>1, <3>1
      <4> QED BY <4>1
    <3>3. w[(m + i) - 2] = Nrst("held") /\ w[(m + i) - 1] = IoOff
      BY <2>2, <3>1, <3>2
    <3> QED BY <1>3, <2>1, <3>1, <3>3 DEF Held
  <2>4. Given(s, i + 1, p) => Given(w, m + i, p)
    <3> SUFFICES ASSUME Given(s, i + 1, p) PROVE Given(w, m + i, p)
      OBVIOUS
    <3>1. i > 1 /\ s[i] = Pins({})
      BY <2>1, OpKinds DEF Given
    <3>2. i \in 2..i
      BY <2>1, <3>1
    <3>3. w[(m + i) - 1] = Pins({})
      BY <2>2, <3>1, <3>2
    <3> QED BY <1>3, <2>1, <3>1, <3>3 DEF Given
  <2>5. Released(s, i + 1, p) => Released(w, m + i, p)
    <3> SUFFICES ASSUME Released(s, i + 1, p) PROVE Released(w, m + i, p)
      OBVIOUS
    <3>1. i > 2 /\ s[i - 1] = Pins({}) /\ s[i] = Nrst("released")
      BY <2>1, OpKinds DEF Released
    <3>2. i - 1 \in 2..i /\ i \in 2..i /\ (m + (i - 1)) - 1 = (m + i) - 2
      <4>1. i > 2 /\ i \in Nat /\ m \in Nat
        BY <1>3, <2>1, <3>1
      <4> QED BY <4>1
    <3>3. w[(m + i) - 2] = Pins({}) /\ w[(m + i) - 1] = Nrst("released")
      BY <2>2, <3>1, <3>2
    <3> QED BY <1>3, <2>1, <3>1, <3>3 DEF Released
  <2>6. ASSUME NEW a \in Nat, a > m, NEW j \in 1..i, a = m + j, Untouched(s, j + 1, i)
        PROVE  Untouched(w, a, (m + i) - 1)
    <3> SUFFICES ASSUME NEW k \in a..((m + i) - 1) PROVE ~ Switches(w[k])
      BY DEF Untouched
    <3>1. /\ (k - m) + 1 \in (j + 1)..i /\ (k - m) + 1 \in 2..i
          /\ (m + ((k - m) + 1)) - 1 = k
      BY <1>3, <2>1, <2>6
    <3>2. w[k] = s[(k - m) + 1]
      BY <2>2, <3>1
    <3> QED BY <2>6, <3>1, <3>2 DEF Untouched
  <2>7. ASSUME NEW c, On(s, i + 1, c, p, cs) PROVE On(w, m + i, c, p, cs)
    <3>1. CASE SwitchedTo(s, i + 1, c)
      <4>1. PICK j \in 2..i : s[j - 1] = Pins({c}) /\ s[j] = Cs(c) /\ Untouched(s, j + 1, i)
        BY <2>1, <3>1 DEF SwitchedTo
      <4>2. j > 2 /\ j \in Nat
        BY <4>1, OpKinds
      <4>3. /\ j - 1 \in 2..i /\ j \in 1..i /\ m + j \in Nat /\ m + j > m
            /\ (m + j) - 1 \in 2..((m + i) - 1)
            /\ (m + (j - 1)) - 1 = ((m + j) - 1) - 1
            /\ ((m + j) - 1) + 1 = m + j
        BY <1>3, <2>1, <4>1, <4>2
      <4>4. w[((m + j) - 1) - 1] = Pins({c}) /\ w[(m + j) - 1] = Cs(c)
        BY <2>2, <4>1, <4>3
      <4>5. Untouched(w, m + j, (m + i) - 1)
        BY <2>6, <4>1, <4>3
      <4>6. SwitchedTo(w, m + i, c)
        BY <4>3, <4>4, <4>5 DEF SwitchedTo
      <4> QED BY <4>6 DEF On
    <3>2. CASE s[1] = Cs(c)
      BY <3>2, OpKinds
    <3>3. CASE p = {c} /\ cs = c /\ Untouched(s, 1, (i + 1) - 1)
      <4>1. Untouched(s, 1 + 1, i)
        BY <2>1, <3>3 DEF Untouched
      <4>2. m + 1 \in Nat /\ m + 1 > m /\ 1 \in 1..i
        BY <1>3, <2>1
      <4>3. Untouched(w, m + 1, (m + i) - 1)
        BY <2>6, <4>1, <4>2
      <4>4. Untouched(w, 1, (m + i) - 1)
        <5> SUFFICES ASSUME NEW k \in 1..((m + i) - 1) PROVE ~ Switches(w[k])
          BY DEF Untouched
        <5>1. k \in 1..m \/ k \in (m + 1)..((m + i) - 1)
          BY <1>3, <2>1
        <5> QED BY <1>5, <4>3, <5>1 DEF Untouched
      <4> QED BY <3>3, <4>4 DEF On
    <3> QED BY <2>7, <3>1, <3>2, <3>3 DEF On
  <2>8. GivenBack(s, i + 1, p) => GivenBack(w, m + i, p)
    <3> SUFFICES ASSUME GivenBack(s, i + 1, p) PROVE GivenBack(w, m + i, p)
      OBVIOUS
    <3>1. (i + 1) - 1 = i
      BY <2>1
    <3>2. PICK j \in 1..i : s[j] = Pins({}) /\ PinsKept(s, j + 1, i)
      BY <1>4, <3>1 DEF GivenBack
    <3>3. j # 1
      BY <3>2, OpKinds
    <3>4. /\ j \in 2..i /\ (m + j) - 1 \in 1..((m + i) - 1) /\ ((m + j) - 1) + 1 = m + j
      BY <1>3, <2>1, <3>3
    <3>5. w[(m + j) - 1] = Pins({})
      BY <2>2, <3>2, <3>4
    <3>6. PinsKept(w, m + j, (m + i) - 1)
      <4> SUFFICES ASSUME NEW k \in (m + j)..((m + i) - 1) PROVE w[k].do # "pins"
        BY DEF PinsKept
      <4>1. /\ (k - m) + 1 \in (j + 1)..i /\ (k - m) + 1 \in 2..i
            /\ (m + ((k - m) + 1)) - 1 = k
        <5>1. m \in Nat /\ i \in Nat /\ j \in Nat /\ k \in Int /\ j >= 2 /\ k >= m + j /\ k <= (m + i) - 1
          BY <1>3, <2>1, <3>4
        <5> QED BY <5>1
      <4>2. w[k] = s[(k - m) + 1]
        BY <2>2, <4>1
      <4> QED BY <3>2, <4>1, <4>2 DEF PinsKept
    <3> QED BY <3>4, <3>5, <3>6 DEF GivenBack
  <2> QED BY <2>1, <2>3, <2>4, <2>5, <2>7, <2>8 DEF FitsAt
<1>8. ASSUME NEW i \in 1..(m + (Len(s) - 1)) PROVE FitsAt(w, i, p, cs, n, t)
  <2>1. CASE i <= m
    BY <1>3, <1>6, <2>1
  <2>2. CASE i > m
    <3>1. i - m \in 1..(Len(s) - 1) /\ i = m + (i - m)
      BY <1>1, <1>3, <2>2
    <3> QED BY <1>7, <3>1
  <2> QED BY <1>3, <2>1, <2>2
<1> QED BY <1>3, <1>8 DEF Fits, w, r

-----------------------------------------------------------------------------
(* The inductive invariant. *)

Settled == todo \in Seq(Ops) /\ Fits(todo, pins, csPin, nrst, Level)

BusInv == TypeOK /\ Settled /\ FpgaOffFirmwareBus

\* The part of TypeOK that is not about todo.
Values ==
  /\ pins \in OneChip
  /\ csPin \in Chips \cup {"none"}
  /\ busy \in [Chips -> BOOLEAN] /\ wel \in [Chips -> BOOLEAN]
  /\ nrst \in {"held", "released"} /\ tristate \in BOOLEAN
  /\ nprog \in {"low", "released"}
  /\ fpga \in {"configured", "cleared", "loading"}
  /\ open \in [Chips -> BOOLEAN]
  /\ resets \in 0..MaxResets

\* The types, from their two parts.
LEMMA Typed ==
  ASSUME Values, todo \in Seq(Ops)
  PROVE  TypeOK
<1>1. DOMAIN todo = 1..Len(todo) /\ \A i \in 1..Len(todo) : todo[i] \in Ops
  BY LenProperties, ElementOfSeq
<1>2. \A i \in DOMAIN todo :
        todo[i].do \in {"pins", "cs", "nrst", "tristate", "nprog", "cmd", "waitWel",
                       "waitIdle", "ifBitstream", "sendChunk"}
  BY <1>1, OpShapes
<1> QED BY <1>2 DEF TypeOK, Values, OneChip

\* The boot fits the state it finds.
LEMMA BusInit == Init => BusInv
<1> SUFFICES ASSUME Init PROVE BusInv
  OBVIOUS
<1>1. Settled
  BY BootFits DEF Init, Settled
<1>2. Values
  <2>1. 0 \in 0..MaxResets
    BY BoundsAssumption
  <2> QED BY <2>1 DEF Init, Values, OneChip
<1> QED BY <1>1, <1>2, Typed DEF BusInv, Settled, Init, FpgaOffFirmwareBus

\* A step of the processor that goes on to the next one.
LEMMA GoesOn ==
  ASSUME Settled, todo # << >>, todo' = Tail(todo),
         Then(todo, pins, csPin, nrst, Level, pins', csPin', nrst', Level')
  PROVE  Settled'
<1>1. Fits(todo', pins', csPin', nrst', Level')
  BY Advance DEF Settled
<1>2. todo' \in Seq(Ops)
  BY TailOf DEF Settled
<1> QED BY <1>1, <1>2 DEF Settled

\* A step that leaves the bus and the lines alone.
LEMMA GoesOnAsBefore ==
  ASSUME BusInv, todo # << >>, Done, UNCHANGED <<pins, csPin, nrst, tristate>>,
         Op.do \notin {"pins", "cs", "nrst", "tristate"}
  PROVE  Settled' /\ FpgaOffFirmwareBus'
<1>1. Op = todo[1]
  BY TailOf DEF BusInv, Settled, Op
<1>2. Then(todo, pins, csPin, nrst, Level, pins', csPin', nrst', Level')
  BY <1>1, OpKinds DEF Then, Level
<1>3. Settled'
  BY <1>2, GoesOn DEF BusInv, Done
<1> QED BY <1>3 DEF BusInv, FpgaOffFirmwareBus

\* Every step keeps what is left fitting.
LEMMA BusStep == BusInv /\ [Next]_vars => BusInv'
<1> SUFFICES ASSUME BusInv, [Next]_vars PROVE BusInv'
  OBVIOUS
<1>1. Values
  BY DEF BusInv, TypeOK, Values, OneChip
<1> SUFFICES Settled' /\ Values' /\ FpgaOffFirmwareBus'
  BY Typed, PTL DEF BusInv, Settled
<1>2. ASSUME todo # << >>
      PROVE  /\ Op = todo[1] /\ Op \in Ops
             /\ FitsAt(todo, 1, pins, csPin, nrst, Level)
  <2>1. Op = todo[1] /\ Op \in Ops /\ 1 \in 1..Len(todo)
    BY <1>2, TailOf DEF BusInv, Settled, Op
  <2> QED BY <2>1 DEF BusInv, Settled, Fits
<1>3. CASE SetPins
  <2>1. todo # << >> /\ Op.do = "pins"
    BY <1>3 DEF SetPins, Running
  <2>7. pins' = Op.on
    <3>1. Takes(Op) => pins = {}
      BY <1>2, <2>1 DEF FitsAt, GivenBack
    <3>2. CASE Op.on = {}
      BY <1>3, <3>2 DEF SetPins
    <3>3. CASE Op.on # {}
      <4>1. pins = {}
        BY <2>1, <3>1, <3>3 DEF Takes
      <4> QED BY <1>3, <3>3, <4>1 DEF SetPins
    <3> QED BY <3>2, <3>3
  <2>2. Then(todo, pins, csPin, nrst, Level, pins', csPin', nrst', Level')
    BY <1>2, <1>3, <2>1, <2>7, OpKinds DEF SetPins, Then, Level
  <2>3. Settled'
    BY <1>3, <2>1, <2>2, GoesOn DEF BusInv, SetPins, Done
  <2>4. "firmware" \in pins' => nrst = "held" /\ Level = "high"
    BY <1>2, <2>1, <2>7 DEF FitsAt, TakesFirmware, Held
  <2>5. FpgaOffFirmwareBus'
    BY <1>3, <2>4 DEF SetPins, FpgaOffFirmwareBus, Level
  <2>6. Values'
    BY <1>1, <1>2, <1>3, <2>1, <2>7, OpShapes DEF SetPins, Values
  <2> QED BY <2>3, <2>5, <2>6
<1>4. CASE SetCs
  <2>1. todo # << >> /\ Op.do = "cs"
    BY <1>4 DEF SetCs, Running
  <2>2. Then(todo, pins, csPin, nrst, Level, pins', csPin', nrst', Level')
    BY <1>2, <1>4, <2>1, OpKinds DEF SetCs, Then, Level
  <2>3. Settled'
    BY <1>4, <2>1, <2>2, GoesOn DEF BusInv, SetCs, Done
  <2>4. Values'
    BY <1>1, <1>2, <1>4, <2>1, OpShapes DEF SetCs, Values
  <2> QED BY <1>4, <2>3, <2>4 DEF BusInv, FpgaOffFirmwareBus, SetCs
<1>5. CASE SetFpgaLines
  <2>1. CASE Running("nrst") /\ nrst' = Op.to /\ UNCHANGED tristate
    <3>1. todo # << >> /\ Op.do = "nrst"
      BY <2>1 DEF Running
    <3>2. Then(todo, pins, csPin, nrst, Level, pins', csPin', nrst', Level')
      BY <1>2, <1>5, <2>1, <3>1, OpKinds DEF SetFpgaLines, Then, Level
    <3>3. Settled'
      BY <1>5, <3>1, <3>2, GoesOn DEF BusInv, SetFpgaLines, Done
    <3>4. Op = Nrst("held") \/ Op = Nrst("released")
      BY <1>2, <3>1, OpShapes
    <3>5. nrst' \in {"held", "released"}
      BY <2>1, <3>4, OpKinds
    <3>6. nrst' = "released" => "firmware" \notin pins
      <4>1. Nrst("held").to = "held"
        BY OpKinds
      <4>2. nrst' = "released" => Op = Nrst("released")
        BY <2>1, <3>4, <4>1
      <4> QED BY <1>2, <3>1, <4>2 DEF FitsAt, Given
    <3>7. Values'
      BY <1>1, <1>5, <2>1, <3>5 DEF SetFpgaLines, Values
    <3> QED BY <1>5, <2>1, <3>3, <3>5, <3>6, <3>7
            DEF BusInv, FpgaOffFirmwareBus, SetFpgaLines
  <2>2. CASE Running("tristate") /\ tristate' = Op.to /\ UNCHANGED nrst
    <3>1. todo # << >> /\ Op.do = "tristate"
      BY <2>2 DEF Running
    <3>2. Op = IoOff \/ Op = IoOn
      BY <1>2, <3>1, OpShapes
    <3>3. IoOff.to = TRUE /\ IoOn.to = FALSE
      BY DEF IoOff, IoOn, Tristate
    <3>4. (Op = IoOff /\ tristate' = TRUE) \/ (Op = IoOn /\ tristate' = FALSE)
      BY <2>2, <3>2, <3>3
    <3>5. Level' = IF Op = IoOff THEN "high" ELSE IF Op = IoOn THEN "low" ELSE Level
      BY <3>4, OpKinds DEF Level
    <3>6. Then(todo, pins, csPin, nrst, Level, pins', csPin', nrst', Level')
      BY <1>2, <1>5, <2>2, <3>1, <3>5 DEF SetFpgaLines, Then
    <3>7. Settled'
      BY <1>5, <3>1, <3>6, GoesOn DEF BusInv, SetFpgaLines, Done
    <3>8. Op = IoOn => "firmware" \notin pins
      BY <1>2, <3>1 DEF FitsAt, Released
    <3>9. Values'
      BY <1>1, <1>5, <2>2, <3>4 DEF SetFpgaLines, Values
    <3> QED BY <1>5, <2>2, <3>4, <3>7, <3>8, <3>9
            DEF BusInv, FpgaOffFirmwareBus, SetFpgaLines
  <2> QED BY <1>5, <2>1, <2>2 DEF SetFpgaLines
<1>6. CASE SetNprog
  <2>1. todo # << >> /\ Op.do = "nprog"
    BY <1>6 DEF SetNprog, Running
  <2>2. Settled' /\ FpgaOffFirmwareBus'
    BY <1>6, <2>1, GoesOnAsBefore DEF SetNprog
  <2>3. Values'
    BY <1>1, <1>2, <1>6, <2>1, OpShapes DEF SetNprog, Values
  <2> QED BY <2>2, <2>3
<1>7. CASE Command
  <2>1. todo # << >> /\ Op.do = "cmd"
    BY <1>7 DEF Command, Running
  <2>2. Settled' /\ FpgaOffFirmwareBus'
    BY <1>7, <2>1, GoesOnAsBefore DEF Command
  <2>3. wel' \in [Chips -> BOOLEAN] /\ busy' \in [Chips -> BOOLEAN]
    BY <1>7, Zenon DEF Command
  <2>4. Values'
    BY <1>1, <1>7, <2>3 DEF Command, Values
  <2> QED BY <2>2, <2>4
<1>8. CASE Poll
  <2>1. todo # << >> /\ Op.do \in {"waitWel", "waitIdle"}
    BY <1>8 DEF Poll, Running
  <2>2. Settled' /\ FpgaOffFirmwareBus'
    BY <1>8, <2>1, GoesOnAsBefore DEF Poll
  <2>3. Values'
    BY <1>1, <1>8 DEF Poll, Values
  <2> QED BY <2>2, <2>3
<1>9. CASE ReadHeader
  <2>1. todo # << >> /\ Op.do = "ifBitstream"
    BY <1>9 DEF ReadHeader, Running
  <2>2. UNCHANGED <<pins, csPin, nrst, tristate>> /\ Values'
    BY <1>1, <1>9 DEF ReadHeader, Values
  <2>3. CASE Done
    BY <2>1, <2>2, <2>3, GoesOnAsBefore
  <2>4. CASE \E n \in 1..MaxChunks : todo' = LoadFpga(n) \o Tail(todo)
    <3>1. PICK n \in 1..MaxChunks : todo' = LoadFpga(n) \o Tail(todo)
      BY <2>4
    <3>2. Quiet(LoadFpga(n), "bitstream")
      BY LoadQuiet, BoundsAssumption
    <3>3. todo' \in Seq(Ops) /\ Fits(todo', pins, csPin, nrst, Level)
      BY <1>2, <2>1, <3>1, <3>2, Insert DEF BusInv, Settled
    <3>4. Level' = Level
      BY <2>2 DEF Level
    <3> QED BY <2>2, <3>3, <3>4 DEF BusInv, Settled, FpgaOffFirmwareBus
  <2> QED BY <1>9, <2>3, <2>4 DEF ReadHeader
<1>10. CASE Send
  <2>1. todo # << >> /\ Op.do = "sendChunk"
    BY <1>10 DEF Send, Running
  <2>2. Settled' /\ FpgaOffFirmwareBus'
    BY <1>10, <2>1, GoesOnAsBefore DEF Send
  <2>3. Values'
    BY <1>1, <1>10 DEF Send, Values
  <2> QED BY <2>2, <2>3
<1>11. ASSUME NEW c \in Chips, NEW last \in BOOLEAN, HandleBlock(c, last)
       PROVE  Settled' /\ Values' /\ FpgaOffFirmwareBus'
  <2>1. PICK n \in 1..MaxErases : todo' = ProgramBlock(c, n, last)
    BY <1>11 DEF HandleBlock
  <2>2. UNCHANGED <<pins, csPin, nrst, tristate>>
    BY <1>11 DEF HandleBlock
  <2>3. Sound(todo')
    BY <2>1, BlockSound, BoundsAssumption
  <2>4. todo' \in Seq(Ops) /\ Fits(todo', pins', csPin', nrst', Level')
    BY <2>3, SoundFits DEF Sound
  <2>5. open' \in [Chips -> BOOLEAN]
    BY <1>1, <1>11 DEF HandleBlock, Values
  <2>6. Values'
    BY <1>1, <1>11, <2>5 DEF HandleBlock, Values
  <2> QED BY <2>2, <2>4, <2>6 DEF BusInv, Settled, FpgaOffFirmwareBus
<1>12. ASSUME NEW c \in Chips, FinishWork(c)
       PROVE  Settled' /\ Values' /\ FpgaOffFirmwareBus'
  <2>1. UNCHANGED <<todo, pins, csPin, nrst, tristate>>
    BY <1>12 DEF FinishWork
  <2>2. Values'
    BY <1>1, <1>12 DEF FinishWork, Values
  <2> QED BY <2>1, <2>2 DEF BusInv, Settled, Level, FpgaOffFirmwareBus
<1>13. CASE Reset
  <2>1. Settled'
    BY <1>13, BootFits DEF Reset, Settled
  <2>2. resets' \in 0..MaxResets
    BY <1>1, <1>13, BoundsAssumption DEF Reset, Values
  <2>3. Values'
    BY <1>1, <1>13, <2>2 DEF Reset, Values, OneChip
  <2> QED BY <1>13, <2>1, <2>3 DEF Reset, FpgaOffFirmwareBus
<1>14. CASE UNCHANGED vars
  BY <1>1, <1>14 DEF vars, BusInv, Settled, Level, Values, FpgaOffFirmwareBus
<1> QED BY <1>3, <1>4, <1>5, <1>6, <1>7, <1>8, <1>9, <1>10, <1>11, <1>12, <1>13, <1>14
        DEF Next, Processor

\* So it fits in every state.
LEMMA BusAlways == Spec => []BusInv
  BY BusInit, BusStep, PTL DEF Spec

\* At each command the bus has been given to the chip it is for.
LEMMA BusReaches == BusInv => ReachesItsChip
<1> SUFFICES ASSUME BusInv, NEW x \in {"cmd", "waitWel", "waitIdle"}, Running(x)
             PROVE  pins = {Op.chip} /\ Reached = pins
  BY DEF ReachesItsChip
<1>1. Op = todo[1] /\ 1 \in 1..Len(todo)
  BY TailOf DEF Running, BusInv, Settled, Op
<1>2. FitsAt(todo, 1, pins, csPin, nrst, Level)
  BY <1>1 DEF BusInv, Settled, Fits
<1>3. On(todo, 1, Op.chip, pins, csPin)
  BY <1>1, <1>2 DEF FitsAt, Uses, For, Running
<1>4. pins = {Op.chip} /\ csPin = Op.chip
  BY <1>3 DEF On, SwitchedTo
<1> QED BY <1>4 DEF Reached

-----------------------------------------------------------------------------
(* The theorems. *)

\* The pins of one chip at most carry the peripheral: a switch to the one always
\* finds those of the other given back (flash_util.c:121-212).  And every step an
\* operation consists of is one that the driver knows, however long it is.
THEOREM TypeCorrect == Spec => []TypeOK
  BY BusAlways, PTL DEF BusInv

\* FpgaOffFirmwareBus: while the pins drive the firmware flash, the FPGA is in
\* reset and its I/O off (flash_util.c:152-189), at every moment between two
\* steps and across resets.
THEOREM OffFirmwareBus == Spec => []FpgaOffFirmwareBus
  BY BusAlways, PTL DEF BusInv

\* ReachesItsChip: a command or a poll for one chip is only sent while the
\* peripheral has that chip's pins and its chip select, whatever blocks of the
\* two chips came before (flash_util.c:124-189).
THEOREM ReachesChip == Spec => []ReachesItsChip
  BY BusAlways, BusReaches, PTL

-----------------------------------------------------------------------------
(***************************************************************************)
(* What an operation of the driver leaves behind: PROG_B and the lines of  *)
(* the FPGA released when it is over, PROG_B pulsed before the             *)
(* first chunk of a bitstream, and no command to a chip that would ignore  *)
(* it; for any number of erases and chunks.                                *)
(*                                                                         *)
(* The invariant says of each step still to be taken what is true when the *)
(* processor arrives at it: the level last written to a pin, whether the   *)
(* FPGA has been cleared, and that an erase or a page write stands between *)
(* the wait for WEL and the wait for the end of BUSY.                      *)
(***************************************************************************)
-----------------------------------------------------------------------------
(* What an operation leaves behind.                                        *)

\* Pin r, at x before s, is at v when the processor arrives at the i-th step.
Written(s, i, r, v) ==
  \E j \in 1..(i - 1) : /\ s[j].do = r /\ s[j].to = v
                        /\ \A k \in (j + 1)..(i - 1) : s[k].do # r
Spared(s, i, r) == \A k \in 1..(i - 1) : s[k].do # r
At(s, i, r, x, v) == Written(s, i, r, v) \/ (x = v /\ Spared(s, i, r))

Ends(s, r, v) == s \in Seq(Ops) /\ Written(s, Len(s) + 1, r, v)
Sparing(r) == {op \in Ops : op.do # r}

\* What has been written stays until it is written again.
LEMMA StaysWritten ==
  ASSUME NEW s, NEW u, NEW r, NEW v, Ends(s, r, v), u \in Seq(Sparing(r)),
         NEW i \in 1..(Len(u) + 1)
  PROVE  Written(s \o u, Len(s) + i, r, v)
<1> DEFINE w == s \o u
           m == Len(s)
<1>1. s \in Seq(Ops) /\ u \in Seq(Ops)
  BY DEF Ends, Sparing
<1>2. /\ w \in Seq(Ops) /\ m \in Nat /\ Len(u) \in Nat /\ Len(w) = m + Len(u)
      /\ \A k \in 1..m : w[k] = s[k]
      /\ \A k \in 1..Len(u) : w[m + k] = u[k]
  BY <1>1, Joined
<1>3. \A k \in 1..Len(u) : u[k].do # r
  BY ElementOfSeq DEF Sparing
<1>4. PICK j \in 1..m : s[j].do = r /\ s[j].to = v /\ \A k \in (j + 1)..m : s[k].do # r
  <2>1. (m + 1) - 1 = m
    BY <1>2
  <2> QED BY <2>1 DEF Ends, Written
<1> HIDE DEF w, m
<1>5. ASSUME NEW k \in (j + 1)..((m + i) - 1) PROVE w[k].do # r
  <2>1. CASE k <= m
    <3>1. k \in (j + 1)..m /\ k \in 1..m
      BY <1>2, <2>1
    <3> QED BY <1>2, <1>4, <3>1
  <2>2. CASE k > m
    <3>1. k - m \in 1..Len(u) /\ k = m + (k - m)
      BY <1>2, <2>2
    <3> QED BY <1>2, <1>3, <3>1
  <2> QED BY <1>2, <2>1, <2>2
<1>6. j \in 1..((m + i) - 1) /\ w[j] = s[j]
  BY <1>2
<1> QED BY <1>4, <1>5, <1>6 DEF Written, w, m

\* Steps that spare a pin leave it where it was written.
LEMMA EndsThen ==
  ASSUME NEW s, NEW u, NEW r, NEW v, Ends(s, r, v), u \in Seq(Sparing(r))
  PROVE  Ends(s \o u, r, v)
<1>1. s \in Seq(Ops) /\ u \in Seq(Ops)
  BY DEF Ends, Sparing
<1>2. /\ s \o u \in Seq(Ops) /\ Len(s) \in Nat /\ Len(u) \in Nat
      /\ Len(s \o u) + 1 = Len(s) + (Len(u) + 1)
  BY <1>1, Joined
<1>3. Written(s \o u, Len(s) + (Len(u) + 1), r, v)
  BY <1>2, StaysWritten
<1> QED BY <1>2, <1>3 DEF Ends

\* What an operation writes last does not depend on what came before it.
LEMMA ThenEnds ==
  ASSUME NEW s \in Seq(Ops), NEW u, NEW r, NEW v, Ends(u, r, v)
  PROVE  Ends(s \o u, r, v)
<1> DEFINE w == s \o u
           m == Len(s)
<1>1. u \in Seq(Ops)
  BY DEF Ends
<1>2. /\ w \in Seq(Ops) /\ m \in Nat /\ Len(u) \in Nat /\ Len(w) = m + Len(u)
      /\ \A k \in 1..Len(u) : w[m + k] = u[k]
  BY <1>1, Joined
<1>3. PICK j \in 1..Len(u) :
        u[j].do = r /\ u[j].to = v /\ \A k \in (j + 1)..Len(u) : u[k].do # r
  <2>1. (Len(u) + 1) - 1 = Len(u)
    BY <1>2
  <2> QED BY <2>1 DEF Ends, Written
<1> HIDE DEF w, m
<1>4. ASSUME NEW k \in ((m + j) + 1)..((Len(w) + 1) - 1) PROVE w[k].do # r
  <2>1. k - m \in (j + 1)..Len(u) /\ k - m \in 1..Len(u) /\ k = m + (k - m)
    BY <1>2
  <2> QED BY <1>2, <1>3, <2>1
<1>5. m + j \in 1..((Len(w) + 1) - 1) /\ w[m + j] = u[j]
  BY <1>2
<1> QED BY <1>2, <1>3, <1>4, <1>5 DEF Ends, Written, w

\* A step of the processor moves a pin as the step says.
LEMMA AtTail ==
  ASSUME NEW s \in Seq(Ops), s # << >>, NEW i \in 1..Len(s), NEW r, NEW x, NEW v,
         At(s, i + 1, r, x, v)
  PROVE  At(Tail(s), i, r, IF s[1].do = r THEN s[1].to ELSE x, v)
<1> DEFINE u == Tail(s)
           y == IF s[1].do = r THEN s[1].to ELSE x
<1>1. Len(s) \in Nat \ {0} /\ \A k \in 1..(Len(s) - 1) : u[k] = s[k + 1]
  BY TailOf
<1> HIDE DEF u, y
<1> SUFFICES At(u, i, r, y, v)
  BY DEF u, y
<1>2. \A k \in 2..i : u[k - 1] = s[k]
  <2> SUFFICES ASSUME NEW k \in 2..i PROVE u[k - 1] = s[k]
    OBVIOUS
  <2>1. k - 1 \in 1..(Len(s) - 1) /\ (k - 1) + 1 = k
    BY <1>1
  <2> QED BY <1>1, <2>1
<1>3. ASSUME NEW j \in 1..i, \A k \in (j + 1)..i : s[k].do # r,
             NEW k \in j..(i - 1)
      PROVE  u[k].do # r
  <2>1. k + 1 \in (j + 1)..i /\ k + 1 \in 2..i /\ (k + 1) - 1 = k
    BY <1>1
  <2> QED BY <1>2, <1>3, <2>1
<1>4. (i + 1) - 1 = i /\ 1 \in 1..i /\ 1 + 1 = 2
  BY <1>1
<1>5. CASE Written(s, i + 1, r, v)
  <2>1. PICK j \in 1..i : s[j].do = r /\ s[j].to = v /\ \A k \in (j + 1)..i : s[k].do # r
    BY <1>4, <1>5 DEF Written
  <2>2. \A k \in j..(i - 1) : u[k].do # r
    BY <1>3, <2>1
  <2>3. CASE j = 1
    <3>1. y = v
      BY <2>1, <2>3 DEF y
    <3>2. \A k \in 1..(i - 1) : u[k].do # r
      BY <2>2, <2>3
    <3> QED BY <3>1, <3>2 DEF At, Spared
  <2>4. CASE j > 1
    <3>1. j - 1 \in 1..(i - 1) /\ u[j - 1] = s[j] /\ (j - 1) + 1 = j
      BY <1>1, <1>2, <2>4
    <3>2. Written(u, i, r, v)
      BY <2>1, <2>2, <3>1 DEF Written
    <3> QED BY <3>2 DEF At
  <2> QED BY <2>3, <2>4
<1>6. CASE x = v /\ Spared(s, i + 1, r)
  <2>1. \A k \in 1..i : s[k].do # r
    BY <1>4, <1>6 DEF Spared
  <2>2. \A k \in (1 + 1)..i : s[k].do # r
    BY <2>1, <1>1
  <2>3. \A k \in 1..(i - 1) : u[k].do # r
    BY <1>3, <1>4, <2>2
  <2> QED BY <1>4, <1>6, <2>1, <2>3 DEF At, Spared, y
<1> QED BY <1>5, <1>6 DEF At

\* The operations, put together from steps of the given kinds.
LEMMA RepeatIn ==
  ASSUME NEW S, NEW s \in Seq(S), Len(s) > 0, NEW n \in Nat
  PROVE  Repeat(n, s) \in Seq(S)
<1> DEFINE at(i) == ((i - 1) % Len(s)) + 1
<1>1. Len(s) \in Nat \ {0} /\ n * Len(s) \in Nat
  <2>1. Len(s) \in Nat
    BY LenProperties
  <2> QED BY <2>1
<1>2. ASSUME NEW i \in 1..(n * Len(s)) PROVE s[at(i)] \in S
  <2>1. i - 1 \in Nat
    BY <1>1
  <2>2. (i - 1) % Len(s) \in 0..(Len(s) - 1)
    BY <1>1, <2>1, RemainderOf
  <2>3. at(i) \in 1..Len(s)
    BY <1>1, <2>2
  <2> HIDE DEF at
  <2> QED BY <2>3, ElementOfSeq
<1> HIDE DEF at
<1>3. [i \in 1..(n * Len(s)) |-> s[at(i)]] \in Seq(S)
  BY <1>1, <1>2
<1> QED BY <1>3 DEF Repeat, at

\* A concatenation has the elements of both.
LEMMA JoinIn ==
  ASSUME NEW S, NEW s \in Seq(S), NEW u \in Seq(S)
  PROVE  s \o u \in Seq(S)
  BY ConcatProperties

\* Steps of some kinds only.
Doing(D) == {op \in Ops : op.do \in D}
OnBus == {"pins", "cs"}
Lines == {"nrst", "tristate"}
OnChip == {"cmd", "waitWel", "waitIdle"}

\* Steps of some kinds are steps of more kinds.
LEMMA DoingMore ==
  ASSUME NEW D, NEW E, NEW s \in Seq(Doing(D)), D \subseteq E
  PROVE  s \in Seq(Doing(E))
<1>1. Doing(D) \subseteq Doing(E)
  BY DEF Doing
<1> QED BY <1>1

\* Steps of some kinds spare the pins of the others.
LEMMA DoingSpares ==
  ASSUME NEW D, NEW s \in Seq(Doing(D)), NEW r, r \notin D
  PROVE  s \in Seq(Sparing(r))
<1>1. Doing(D) \subseteq Sparing(r)
  BY DEF Doing, Sparing
<1> QED BY <1>1

\* Erasing the FPGA lets go of PROG_B, preparing it begins with PROG_B low.
LEMMA FpgaDoes ==
  /\ FpgaErase \in Seq(Doing({"nprog"})) /\ FpgaProgramInit \in Seq(Doing({"nprog"}))
  /\ Ends(FpgaErase, "nprog", "released")
  /\ Len(FpgaProgramInit) = 3 /\ FpgaProgramInit[1] = Nprog("low")
<1>1. Nprog("low") \in Doing({"nprog"}) /\ Nprog("released") \in Doing({"nprog"})
  BY OpTypes, OpKinds DEF Doing
<1>2. FpgaErase \in Seq(Doing({"nprog"})) /\ FpgaProgramInit \in Seq(Doing({"nprog"}))
  BY <1>1 DEF FpgaErase, FpgaProgramInit
<1>3. Len(FpgaErase) = 2 /\ FpgaErase[2] = Nprog("released")
  BY DEF FpgaErase
<1>4. Written(FpgaErase, 2 + 1, "nprog", "released")
  <2>1. 2 \in 1..((2 + 1) - 1) /\ \A k \in (2 + 1)..((2 + 1) - 1) : FALSE
    OBVIOUS
  <2> QED BY <1>3, <2>1, OpKinds DEF Written
<1>5. FpgaErase \in Seq(Ops)
  BY FpgaSteps DEF Sound
<1> QED BY <1>2, <1>3, <1>4, <1>5 DEF Ends, FpgaProgramInit

\* release_spi_io leaves the FPGA out of reset with its I/O its own.
LEMMA ReleaseDoes ==
  /\ ReleaseSpiIo \in Seq(Doing(OnBus \cup Lines))
  /\ Ends(ReleaseSpiIo, "nrst", "released") /\ Ends(ReleaseSpiIo, "tristate", FALSE)
<1> DEFINE s == ReleaseSpiIo
<1>1. /\ Len(s) = 3 /\ s[2] = Nrst("released") /\ s[3] = IoOn
      /\ s = <<Pins({}), Nrst("released"), IoOn>>
  BY DEF ReleaseSpiIo, IoOn
<1>2. Pins({}) \in Ops /\ Nrst("released") \in Ops /\ IoOn \in Ops
  BY OpTypes DEF OneChip
<1>3. /\ Pins({}) \in Doing(OnBus \cup Lines) /\ Nrst("released") \in Doing(OnBus \cup Lines)
      /\ IoOn \in Doing(OnBus \cup Lines)
  BY <1>2, OpKinds DEF Doing, OnBus, Lines
<1>4. s \in Seq(Ops) /\ s \in Seq(Doing(OnBus \cup Lines))
  BY <1>1, <1>2, <1>3
<1> HIDE DEF s
<1>5. Written(s, 3 + 1, "nrst", "released")
  <2>1. 2 \in 1..((3 + 1) - 1) /\ \A k \in (2 + 1)..((3 + 1) - 1) : k = 3
    OBVIOUS
  <2> QED BY <1>1, <2>1, OpKinds DEF Written
<1>6. Written(s, 3 + 1, "tristate", FALSE)
  <2>1. 3 \in 1..((3 + 1) - 1) /\ \A k \in (3 + 1)..((3 + 1) - 1) : FALSE
    OBVIOUS
  <2>2. IoOn.do = "tristate" /\ IoOn.to = FALSE
    BY OpKinds DEF IoOn, Tristate
  <2> QED BY <1>1, <2>1, <2>2 DEF Written
<1> QED BY <1>1, <1>4, <1>5, <1>6 DEF Ends, s

\* Four elements are a sequence.
LEMMA FourIn ==
  ASSUME NEW S, NEW a \in S, NEW b \in S, NEW c \in S, NEW d \in S
  PROVE  <<a, b, c, d>> \in Seq(S)
  OBVIOUS

\* A switch of the bus moves pins and lines; that to the bitstream flash leaves the
\* FPGA its lines.
LEMMA InitDoes ==
  /\ BitstreamInitSpi \in Seq(Doing(OnBus \cup Lines))
  /\ FirmwareInitSpi \in Seq(Doing(OnBus \cup Lines))
  /\ Ends(BitstreamInitSpi, "nrst", "released") /\ Ends(BitstreamInitSpi, "tristate", FALSE)
<1> DEFINE on == <<Pins({"bitstream"}), Cs("bitstream")>>
           off == <<Nrst("held"), Tristate(TRUE), Pins({"firmware"}), Cs("firmware")>>
<1>1. /\ Pins({"bitstream"}) \in Doing(OnBus) /\ Cs("bitstream") \in Doing(OnBus)
      /\ Pins({"firmware"}) \in Doing(OnBus) /\ Cs("firmware") \in Doing(OnBus)
  BY OpTypes, OpKinds DEF Doing, OnBus, Chips, OneChip
<1>2. Nrst("held") \in Doing(Lines) /\ Tristate(TRUE) \in Doing(Lines)
  BY OpTypes, OpKinds DEF Doing, Lines, IoOff
<1>3. on \in Seq(Doing(OnBus))
  BY <1>1
<1>4. Doing(OnBus) \subseteq Doing(OnBus \cup Lines) /\ Doing(Lines) \subseteq Doing(OnBus \cup Lines)
  BY DEF Doing
<1>5. on \in Seq(Doing(OnBus \cup Lines)) /\ off \in Seq(Doing(OnBus \cup Lines))
  <2>1. ASSUME NEW S, Pins({"firmware"}) \in S, Cs("firmware") \in S, Nrst("held") \in S,
               Tristate(TRUE) \in S
        PROVE  off \in Seq(S)
    BY <2>1, FourIn
  <2>2. ASSUME NEW S, Pins({"bitstream"}) \in S, Cs("bitstream") \in S PROVE on \in Seq(S)
    BY <2>2
  <2> HIDE DEF on, off
  <2> QED BY <1>1, <1>2, <1>4, <2>1, <2>2
<1>6. on \in Seq(Sparing("nrst")) /\ on \in Seq(Sparing("tristate"))
  <2>1. "nrst" \notin OnBus /\ "tristate" \notin OnBus
    BY DEF OnBus
  <2> HIDE DEF on
  <2> QED BY <1>3, <2>1, DoingSpares
<1> HIDE DEF on, off
<1>7. BitstreamInitSpi = ReleaseSpiIo \o on /\ FirmwareInitSpi = ReleaseSpiIo \o off
  BY DEF BitstreamInitSpi, FirmwareInitSpi, on, off
<1> QED BY <1>5, <1>6, <1>7, ReleaseDoes, JoinIn, EndsThen

\* The operations on a chip are commands and waits.
LEMMA ChipDoes ==
  ASSUME NEW c \in Chips, NEW n \in Nat
  PROVE  /\ Read(c) \in Seq(Doing(OnChip))
         /\ Repeat(n, Read(c)) \in Seq(Doing(OnChip))
         /\ PageProgramBlocking(c) \in Seq(Doing(OnChip))
         /\ Repeat(n, Erase64kNonblocking(c) \o <<WaitIdle(c)>>) \in Seq(Doing(OnChip))
<1>1. /\ Cmd("read", c) \in Doing(OnChip) /\ Cmd("writeEnable", c) \in Doing(OnChip)
      /\ Cmd("erase", c) \in Doing(OnChip) /\ Cmd("program", c) \in Doing(OnChip)
      /\ WaitWel(c) \in Doing(OnChip) /\ WaitIdle(c) \in Doing(OnChip)
  BY OpTypes, OpKinds DEF Doing, OnChip
<1>2. /\ Read(c) \in Seq(Doing(OnChip)) /\ WriteEnable(c) \in Seq(Doing(OnChip))
      /\ <<Cmd("program", c), WaitIdle(c)>> \in Seq(Doing(OnChip))
      /\ <<Cmd("erase", c)>> \in Seq(Doing(OnChip)) /\ <<WaitIdle(c)>> \in Seq(Doing(OnChip))
  BY <1>1 DEF Read, WriteEnable
<1>3. /\ PageProgramBlocking(c) \in Seq(Doing(OnChip))
      /\ Erase64kNonblocking(c) \o <<WaitIdle(c)>> \in Seq(Doing(OnChip))
  BY <1>2, JoinIn DEF PageProgramBlocking, Erase64kNonblocking
<1> QED BY <1>2, <1>3, QuietSteps, RepeatIn

-----------------------------------------------------------------------------
(* The operations of main.c and msc_disk.c.                                *)

PlainKinds == OnBus \cup Lines \cup OnChip \cup {"nprog"}
Plain == Doing(PlainKinds)

\* Only plain steps, and the look at the header at the very end.
ToHeader(s) ==
  /\ s \in Seq(Ops)
  /\ \A i \in 1..Len(s) : s[i].do \in PlainKinds \/ (s[i].do = "ifBitstream" /\ i = Len(s))

\* Plain steps look at no header.
LEMMA PlainToHeader ==
  ASSUME NEW s \in Seq(Plain)
  PROVE  ToHeader(s) /\ s \in Seq(Ops)
<1>1. s \in Seq(Ops)
  BY DEF Plain, Doing
<1>2. \A i \in 1..Len(s) : s[i].do \in PlainKinds
  BY ElementOfSeq DEF Plain, Doing
<1> QED BY <1>1, <1>2 DEF ToHeader

\* They may stand in front of such a look.
LEMMA PlainThen ==
  ASSUME NEW s \in Seq(Plain), NEW u, ToHeader(u)
  PROVE  ToHeader(s \o u)
<1> DEFINE w == s \o u
           m == Len(s)
<1>1. s \in Seq(Ops) /\ \A i \in 1..m : s[i].do \in PlainKinds
  BY ElementOfSeq, PlainToHeader DEF Plain, Doing
<1>2. /\ w \in Seq(Ops) /\ m \in Nat /\ Len(u) \in Nat /\ Len(w) = m + Len(u)
      /\ \A k \in 1..m : w[k] = s[k]
      /\ \A k \in 1..Len(u) : w[m + k] = u[k]
  BY <1>1, Joined DEF ToHeader
<1> HIDE DEF w, m
<1>3. ASSUME NEW i \in 1..Len(w)
      PROVE  w[i].do \in PlainKinds \/ (w[i].do = "ifBitstream" /\ i = Len(w))
  <2>1. CASE i <= m
    <3>1. i \in 1..m
      BY <1>2, <2>1
    <3> QED BY <1>1, <1>2, <3>1
  <2>2. CASE i > m
    <3>1. i - m \in 1..Len(u) /\ i = m + (i - m)
      BY <1>2, <2>2
    <3>2. w[i] = u[i - m]
      BY <1>2, <3>1
    <3>3. \/ u[i - m].do \in PlainKinds
          \/ u[i - m].do = "ifBitstream" /\ i - m = Len(u)
      BY <3>1 DEF ToHeader
    <3> QED BY <1>2, <3>1, <3>2, <3>3
  <2> QED BY <1>2, <2>1, <2>2
<1> QED BY <1>2, <1>3 DEF ToHeader, w

\* The parts that boot and the blocks are made of.
LEMMA PartsDo ==
  /\ FpgaErase \in Seq(Plain) /\ FpgaProgramInit \in Seq(Plain)
  /\ ReleaseSpiIo \in Seq(Plain) /\ ReleaseSpiIo \in Seq(Sparing("nprog"))
  /\ \A c \in Chips : InitSpi(c) \in Seq(Plain) /\ InitSpi(c) \in Seq(Sparing("nprog"))
  /\ \A c \in Chips : /\ Read(c) \in Seq(Plain) /\ PageProgramBlocking(c) \in Seq(Plain)
                      /\ \A r \in Lines \cup {"nprog"} :
                           /\ Read(c) \in Seq(Sparing(r))
                           /\ PageProgramBlocking(c) \in Seq(Sparing(r))
<1>1. /\ {"nprog"} \subseteq PlainKinds /\ OnBus \cup Lines \subseteq PlainKinds
      /\ OnChip \subseteq PlainKinds
  BY DEF PlainKinds
<1>2. /\ "nprog" \notin OnBus \cup Lines
      /\ \A r \in Lines \cup {"nprog"} : r \notin OnChip
  BY DEF OnBus, Lines, OnChip
<1>3. FpgaErase \in Seq(Plain) /\ FpgaProgramInit \in Seq(Plain)
  BY <1>1, FpgaDoes, DoingMore DEF Plain
<1>4. ASSUME NEW s \in Seq(Doing(OnBus \cup Lines))
      PROVE  s \in Seq(Plain) /\ s \in Seq(Sparing("nprog"))
  BY <1>1, <1>2, DoingMore, DoingSpares DEF Plain
<1>5. ASSUME NEW s \in Seq(Doing(OnChip))
      PROVE  s \in Seq(Plain) /\ \A r \in Lines \cup {"nprog"} : s \in Seq(Sparing(r))
  BY <1>1, <1>2, DoingMore, DoingSpares DEF Plain
<1>6. \A c \in Chips : InitSpi(c) \in Seq(Doing(OnBus \cup Lines))
  BY InitDoes DEF InitSpi
<1>7. \A c \in Chips : /\ Read(c) \in Seq(Doing(OnChip))
                       /\ PageProgramBlocking(c) \in Seq(Doing(OnChip))
  <2>1. 0 \in Nat
    OBVIOUS
  <2> QED BY <2>1, ChipDoes
<1> QED BY <1>3, <1>4, <1>5, <1>6, <1>7, ReleaseDoes

\* The look at the header is the last of startup_program_bitstream.
LEMMA StartupDoes ==
  /\ ToHeader(StartupProgramBitstream)
  /\ Ends(StartupProgramBitstream, "nrst", "released")
  /\ Ends(StartupProgramBitstream, "tristate", FALSE)
  /\ StartupProgramBitstream \in Seq(Sparing("nprog"))
<1> DEFINE first == BitstreamInitSpi \o Read("bitstream")
           look == <<IfBitstream>>
<1>1. "bitstream" \in Chips /\ "nrst" \in Lines /\ "tristate" \in Lines
  BY DEF Chips, Lines
<1>2. BitstreamInitSpi \in Seq(Plain) /\ BitstreamInitSpi \in Seq(Sparing("nprog"))
  BY <1>1, PartsDo DEF InitSpi
<1>3. IfBitstream \in Ops /\ IfBitstream.do = "ifBitstream"
  BY OpTypes, OpKinds
<1>4. /\ look \in Seq(Ops) /\ Len(look) = 1 /\ look[1] = IfBitstream
      /\ look \in Seq(Sparing("nrst")) /\ look \in Seq(Sparing("tristate"))
      /\ look \in Seq(Sparing("nprog"))
  <2>1. /\ IfBitstream \in Sparing("nrst") /\ IfBitstream \in Sparing("tristate")
        /\ IfBitstream \in Sparing("nprog")
    BY <1>3 DEF Sparing
  <2> QED BY <1>3, <2>1
<1> HIDE DEF look
<1>5. ToHeader(look)
  BY <1>3, <1>4 DEF ToHeader
<1>6. first \in Seq(Plain) /\ first \in Seq(Sparing("nprog"))
  BY <1>1, <1>2, PartsDo, JoinIn
<1>7. Ends(first, "nrst", "released") /\ Ends(first, "tristate", FALSE)
  BY <1>1, PartsDo, InitDoes, EndsThen
<1> HIDE DEF first
<1>8. StartupProgramBitstream = first \o look
  BY DEF StartupProgramBitstream, first, look
<1> QED BY <1>4, <1>5, <1>6, <1>7, <1>8, PlainThen, EndsThen, JoinIn

\* An operation that ends well, whatever it began with.
EndsWell(s) ==
  Ends(s, "nprog", "released") /\ Ends(s, "nrst", "released") /\ Ends(s, "tristate", FALSE)

\* The boot ends well.
LEMMA BootDoes == ToHeader(Boot) /\ EndsWell(Boot)
<1> DEFINE start == ((<<Tristate(FALSE)>> \o FpgaProgramInit) \o FpgaErase) \o CheckFlashForBitstreams
           firmware == CheckFlashForFirmware
           before == start \o firmware
<1>1. Tristate(FALSE) \in Ops /\ Tristate(FALSE).do = "tristate"
  BY OpTypes, OpKinds DEF IoOn
<1>2. <<Tristate(FALSE)>> \in Seq(Plain)
  <2>1. Tristate(FALSE) \in Plain
    BY <1>1 DEF Plain, Doing, PlainKinds, Lines
  <2>2. ASSUME NEW op, op \in Plain PROVE <<op>> \in Seq(Plain)
    BY <2>2
  <2> QED BY <2>1, <2>2
<1>3. "bitstream" \in Chips /\ "firmware" \in Chips /\ 3 \in Nat
  BY DEF Chips
<1>4. /\ \A c \in Chips : Repeat(3, Read(c)) \in Seq(Plain)
      /\ \A c \in Chips : Repeat(3, Read(c)) \in Seq(Sparing("nprog"))
  <2>1. OnChip \subseteq PlainKinds /\ "nprog" \notin OnChip
    BY DEF PlainKinds, OnChip
  <2>2. \A c \in Chips : Repeat(3, Read(c)) \in Seq(Doing(OnChip))
    BY <1>3, ChipDoes
  <2> QED BY <2>1, <2>2, DoingMore, DoingSpares DEF Plain
<1>5. BitstreamInitSpi \in Seq(Plain) /\ FirmwareInitSpi \in Seq(Plain)
  BY <1>3, PartsDo DEF InitSpi
<1>6. CheckFlashForBitstreams \in Seq(Plain)
  BY <1>3, <1>4, <1>5, JoinIn DEF CheckFlashForBitstreams
<1>7. start \in Seq(Plain)
  BY <1>2, <1>6, PartsDo, JoinIn
<1>8. firmware \in Seq(Plain)
  BY <1>3, <1>4, <1>5, PartsDo, JoinIn DEF CheckFlashForFirmware
<1>9. Ends(firmware, "nprog", "released")
  <2>1. Ends(FirmwareInitSpi \o FpgaErase, "nprog", "released")
    BY <1>5, FpgaDoes, ThenEnds, PlainToHeader
  <2>2. Ends((FirmwareInitSpi \o FpgaErase) \o Repeat(3, Read("firmware")), "nprog", "released")
    BY <1>3, <1>4, <2>1, EndsThen
  <2> QED BY <2>2, PartsDo, EndsThen DEF CheckFlashForFirmware
<1> HIDE DEF start, firmware
<1>10. before \in Seq(Plain) /\ Ends(before, "nprog", "released")
  BY <1>7, <1>8, <1>9, JoinIn, ThenEnds, PlainToHeader
<1>11. Boot = before \o StartupProgramBitstream
  BY DEF Boot, before, start, firmware
<1> HIDE DEF before
<1>12. ToHeader(before \o StartupProgramBitstream)
  BY <1>10, StartupDoes, PlainThen
<1>13. Ends(before \o StartupProgramBitstream, "nprog", "released")
  BY <1>10, StartupDoes, EndsThen
<1>14. /\ Ends(before \o StartupProgramBitstream, "nrst", "released")
       /\ Ends(before \o StartupProgramBitstream, "tristate", FALSE)
  BY <1>10, StartupDoes, ThenEnds, PlainToHeader
<1> QED BY <1>11, <1>12, <1>13, <1>14 DEF EndsWell

\* A block always leaves PROG_B as it has to be: unless it opens a session it does
\* not touch it.  The last block of a session, and any block for the bitstream
\* chip, releases the lines of the FPGA.
LEMMA BlockDoes ==
  ASSUME NEW c \in Chips, NEW n \in Nat, NEW last \in BOOLEAN
  PROVE  LET s == ProgramBlock(c, n, last)
         IN  /\ ToHeader(s)
             /\ Ends(s, "nprog", "released") \/ s \in Seq(Sparing("nprog"))
             /\ c = "bitstream" \/ last =>
                  Ends(s, "nrst", "released") /\ Ends(s, "tristate", FALSE)
<1> DEFINE first == IF open[c] THEN << >> ELSE OpenSession(c, n)
           work == PageProgramBlocking(c)
           check == Read(c)
           close == IF last THEN CloseSession ELSE << >>
           most == ((InitSpi(c) \o first) \o work) \o check
<1>1. << >> \in Seq(Plain) /\ \A r : << >> \in Seq(Sparing(r))
  OBVIOUS
<1>2. "nrst" \in Lines /\ "tristate" \in Lines
  BY DEF Lines
<1>3. /\ OpenSession(c, n) \in Seq(Plain) /\ Ends(OpenSession(c, n), "nprog", "released")
      /\ \A r \in Lines : OpenSession(c, n) \in Seq(Sparing(r))
  <2> DEFINE erases == Repeat(n, Erase64kNonblocking(c) \o <<WaitIdle(c)>>)
  <2>1. erases \in Seq(Doing(OnChip))
    BY ChipDoes
  <2>2. /\ OnChip \subseteq PlainKinds /\ "nprog" \notin OnChip
        /\ \A r \in Lines : r \notin OnChip /\ r \notin {"nprog"}
    BY DEF PlainKinds, OnChip, Lines
  <2> HIDE DEF erases
  <2>3. /\ erases \in Seq(Plain) /\ erases \in Seq(Sparing("nprog"))
        /\ \A r \in Lines : erases \in Seq(Sparing(r)) /\ FpgaErase \in Seq(Sparing(r))
    BY <2>1, <2>2, FpgaDoes, DoingMore, DoingSpares DEF Plain
  <2>4. OpenSession(c, n) = FpgaErase \o erases
    BY DEF OpenSession, erases
  <2> QED BY <2>3, <2>4, FpgaDoes, PartsDo, EndsThen, JoinIn
<1>4. /\ ToHeader(CloseSession) /\ CloseSession \in Seq(Sparing("nprog"))
      /\ Ends(CloseSession, "nrst", "released") /\ Ends(CloseSession, "tristate", FALSE)
  BY StartupDoes, PartsDo, ThenEnds, PlainThen, PlainToHeader, JoinIn DEF CloseSession
<1>5. /\ first \in Seq(Plain) /\ \A r \in Lines : first \in Seq(Sparing(r))
      /\ Ends(first, "nprog", "released") \/ first \in Seq(Sparing("nprog"))
  BY <1>1, <1>3
<1>6. /\ ToHeader(close) /\ close \in Seq(Sparing("nprog"))
      /\ last => Ends(close, "nrst", "released") /\ Ends(close, "tristate", FALSE)
      /\ ~ last => close = << >>
  BY <1>1, <1>4, PlainToHeader
<1>7. /\ InitSpi(c) \in Seq(Plain) /\ InitSpi(c) \in Seq(Sparing("nprog"))
      /\ work \in Seq(Plain) /\ check \in Seq(Plain)
      /\ \A r \in Lines \cup {"nprog"} : work \in Seq(Sparing(r)) /\ check \in Seq(Sparing(r))
  BY PartsDo
<1>8. InitSpi(c) \in Seq(Ops)
  BY <1>7, PlainToHeader
<1> HIDE DEF first, close, work, check
<1>9. ProgramBlock(c, n, last) = most \o close
  BY DEF ProgramBlock, most, first, work, check, close
<1>10. most \in Seq(Plain)
  BY <1>5, <1>7, JoinIn
<1>11. Ends(most, "nprog", "released") \/ most \in Seq(Sparing("nprog"))
  <2>1. CASE Ends(first, "nprog", "released")
    <3>1. Ends(InitSpi(c) \o first, "nprog", "released")
      BY <1>8, <2>1, ThenEnds
    <3>2. Ends((InitSpi(c) \o first) \o work, "nprog", "released")
      BY <1>7, <3>1, EndsThen
    <3> QED BY <1>7, <3>2, EndsThen
  <2>2. CASE first \in Seq(Sparing("nprog"))
    BY <1>7, <2>2, JoinIn
  <2> QED BY <1>5, <2>1, <2>2
<1>12. c = "bitstream" => Ends(most, "nrst", "released") /\ Ends(most, "tristate", FALSE)
  <2> SUFFICES ASSUME c = "bitstream"
               PROVE  Ends(most, "nrst", "released") /\ Ends(most, "tristate", FALSE)
    OBVIOUS
  <2>1. /\ Ends(InitSpi(c), "nrst", "released")
        /\ Ends(InitSpi(c), "tristate", FALSE)
    BY InitDoes DEF InitSpi
  <2> QED BY <1>2, <1>5, <1>7, <2>1, EndsThen
<1> HIDE DEF most
<1>13. ToHeader(most \o close)
  BY <1>6, <1>10, PlainThen
<1>14. Ends(most \o close, "nprog", "released") \/ most \o close \in Seq(Sparing("nprog"))
  BY <1>6, <1>11, EndsThen, JoinIn
<1>15. c = "bitstream" \/ last =>
         Ends(most \o close, "nrst", "released") /\ Ends(most \o close, "tristate", FALSE)
  <2>1. CASE last
    BY <1>6, <1>10, <2>1, ThenEnds, PlainToHeader
  <2>2. CASE ~ last
    <3>1. most \in Seq(Ops)
      BY <1>10, PlainToHeader
    <3>2. most \o close = most
      BY <1>6, <2>2, <3>1
    <3> QED BY <1>12, <2>2, <3>2
  <2> QED BY <2>1, <2>2
<1> QED BY <1>9, <1>13, <1>14, <1>15

\* The load of the FPGA pulses PROG_B before it sends anything, and lets it go.
LEMMA LoadDoes ==
  ASSUME NEW n \in Nat
  PROVE  LET s == LoadFpga(n)
         IN  /\ s \in Seq(Ops) /\ s # << >>
             /\ \A r \in Lines : s \in Seq(Sparing(r))
             /\ Ends(s, "nprog", "released")
             /\ \A i \in 1..Len(s) :
                  /\ s[i].do # "ifBitstream"
                  /\ s[i].do = "cmd" => s[i].cmd \notin {"erase", "program"}
                  /\ s[i].do = "sendChunk" =>
                       /\ Written(s, i, "nprog", "released")
                       /\ \E j \in 1..(i - 1) : s[j].do = "nprog" /\ s[j].to = "low"
<1> DEFINE chunk == Read("bitstream") \o <<SendChunk>>
           Reads == {Cmd("read", "bitstream"), SendChunk}
           chunks == Repeat(n, chunk)
           pulse == FpgaProgramInit \o FpgaErase
           load == pulse \o chunks
           m == Len(pulse)
<1>1. /\ Cmd("read", "bitstream") \in Ops /\ SendChunk \in Ops
      /\ \A op \in Reads : /\ op.do \in {"cmd", "sendChunk"}
                           /\ op.do = "cmd" => op.cmd = "read"
  <2>1. "bitstream" \in Chips
    BY DEF Chips
  <2> QED BY <2>1, OpTypes, OpKinds
<1>2. chunk \in Seq(Reads) /\ Len(chunk) > 0
  BY DEF Read
<1> HIDE DEF chunk
<1>3. Reads \subseteq Ops /\ \A r \in Lines \cup {"nprog"} : Reads \subseteq Sparing(r)
  BY <1>1 DEF Sparing, Lines
<1> HIDE DEF Reads
<1>4. chunks \in Seq(Reads)
  BY <1>2, RepeatIn
<1> HIDE DEF chunks
<1>5. chunks \in Seq(Ops) /\ \A r \in Lines \cup {"nprog"} : chunks \in Seq(Sparing(r))
  BY <1>3, <1>4
<1>6. /\ pulse \in Seq(Doing({"nprog"})) /\ pulse \in Seq(Ops)
      /\ Ends(pulse, "nprog", "released")
      /\ m \in Nat \ {0} /\ pulse[1] = Nprog("low")
  <2>1. FpgaProgramInit \in Seq(Ops) /\ FpgaErase \in Seq(Ops)
    BY PartsDo, PlainToHeader
  <2>2. pulse \in Seq(Doing({"nprog"})) /\ pulse \in Seq(Ops)
    BY <2>1, FpgaDoes, JoinIn
  <2>3. Ends(pulse, "nprog", "released")
    BY <2>1, FpgaDoes, ThenEnds
  <2>4. m \in Nat \ {0} /\ pulse[1] = Nprog("low")
    BY <2>1, FpgaDoes, Joined
  <2> QED BY <2>2, <2>3, <2>4
<1>7. \A i \in 1..m : pulse[i].do = "nprog"
  BY <1>6, ElementOfSeq DEF Doing
<1>8. \A r \in Lines : pulse \in Seq(Sparing(r))
  <2>1. \A r \in Lines : r \notin {"nprog"}
    BY DEF Lines
  <2> HIDE DEF pulse
  <2> QED BY <1>6, <2>1, DoingSpares
<1> HIDE DEF pulse, m
<1>9. /\ load \in Seq(Ops) /\ Len(chunks) \in Nat /\ Len(load) = m + Len(chunks)
      /\ \A i \in 1..m : load[i] = pulse[i]
      /\ \A i \in 1..Len(chunks) : load[m + i] = chunks[i]
  BY <1>5, <1>6, Joined DEF m
<1>10. Ends(load, "nprog", "released") /\ \A r \in Lines : load \in Seq(Sparing(r))
  BY <1>5, <1>6, <1>8, EndsThen, JoinIn
<1>11. ASSUME NEW i \in 1..Len(load)
       PROVE  /\ load[i].do # "ifBitstream"
              /\ load[i].do = "cmd" => load[i].cmd \notin {"erase", "program"}
              /\ load[i].do = "sendChunk" => Written(load, i, "nprog", "released") /\ i > m
  <2>1. CASE i <= m
    <3>1. load[i].do = "nprog"
      BY <1>7, <1>9, <2>1
    <3> QED BY <3>1
  <2>2. CASE i > m
    <3>1. i - m \in 1..Len(chunks) /\ i - m \in 1..(Len(chunks) + 1) /\ i = m + (i - m)
      BY <1>6, <1>9, <2>2
    <3>2. load[i] \in Reads
      BY <1>4, <1>9, <3>1, ElementOfSeq
    <3>3. Written(load, m + (i - m), "nprog", "released")
      BY <1>5, <1>6, <3>1, StaysWritten DEF m
    <3> QED BY <1>1, <2>2, <3>1, <3>2, <3>3 DEF Reads
  <2> QED BY <1>6, <1>9, <2>1, <2>2
<1>12. load[1] = Nprog("low") /\ 1 \in 1..m /\ load # << >>
  BY <1>6, <1>9
<1>13. ASSUME NEW i \in 1..Len(load), i > m
       PROVE  \E j \in 1..(i - 1) : load[j].do = "nprog" /\ load[j].to = "low"
  <2>1. 1 \in 1..(i - 1)
    BY <1>6, <1>13
  <2> QED BY <1>12, <2>1, OpKinds
<1>14. LoadFpga(n) = load
  BY DEF LoadFpga, load, pulse, chunks, chunk
<1> HIDE DEF load
<1> QED BY <1>9, <1>10, <1>11, <1>12, <1>13, <1>14

-----------------------------------------------------------------------------
(* Erases and page writes.                                                 *)

Works(op) == op.do = "cmd" /\ op.cmd \in {"erase", "program"}

\* Every erase and page write stands between the two waits.
Paired(s) ==
  /\ s \in Seq(Ops)
  /\ \A i \in 1..Len(s) : Works(s[i]) =>
       /\ i > 1 /\ s[i - 1] = WaitWel(s[i].chip)
       /\ i < Len(s) /\ s[i + 1] = WaitIdle(s[i].chip)

\* Waits and work stay together in a concatenation.
LEMMA PairedJoin ==
  ASSUME NEW s, NEW u, Paired(s), Paired(u)
  PROVE  Paired(s \o u)
<1> DEFINE w == s \o u
           m == Len(s)
<1>1. s \in Seq(Ops) /\ u \in Seq(Ops)
  BY DEF Paired
<1>2. /\ w \in Seq(Ops) /\ m \in Nat /\ Len(u) \in Nat /\ Len(w) = m + Len(u)
      /\ \A k \in 1..m : w[k] = s[k]
      /\ \A k \in 1..Len(u) : w[m + k] = u[k]
  BY <1>1, Joined
<1>3. ASSUME NEW i \in 1..m, Works(s[i])
      PROVE  /\ i > 1 /\ s[i - 1] = WaitWel(s[i].chip)
             /\ i < m /\ s[i + 1] = WaitIdle(s[i].chip)
  BY <1>3 DEF Paired
<1>4. ASSUME NEW i \in 1..Len(u), Works(u[i])
      PROVE  /\ i > 1 /\ u[i - 1] = WaitWel(u[i].chip)
             /\ i < Len(u) /\ u[i + 1] = WaitIdle(u[i].chip)
  BY <1>4 DEF Paired
<1> HIDE DEF w, m
<1>5. ASSUME NEW i \in 1..Len(w), Works(w[i])
      PROVE  /\ i > 1 /\ w[i - 1] = WaitWel(w[i].chip)
             /\ i < Len(w) /\ w[i + 1] = WaitIdle(w[i].chip)
  <2>1. CASE i <= m
    <3>1. i \in 1..m /\ w[i] = s[i]
      BY <1>2, <2>1
    <3>2. i > 1 /\ i < m /\ s[i - 1] = WaitWel(s[i].chip) /\ s[i + 1] = WaitIdle(s[i].chip)
      BY <1>3, <1>5, <3>1
    <3>3. i - 1 \in 1..m /\ i + 1 \in 1..m
      BY <1>2, <3>1, <3>2
    <3>4. w[i - 1] = s[i - 1] /\ w[i + 1] = s[i + 1]
      BY <1>2, <3>3
    <3> QED BY <1>2, <3>1, <3>2, <3>4
  <2>2. CASE i > m
    <3> DEFINE k == i - m
    <3>1. k \in 1..Len(u) /\ i = m + k
      BY <1>2, <2>2
    <3> HIDE DEF k
    <3>2. w[i] = u[k]
      BY <1>2, <3>1
    <3>3. k > 1 /\ k < Len(u) /\ u[k - 1] = WaitWel(u[k].chip) /\ u[k + 1] = WaitIdle(u[k].chip)
      BY <1>4, <1>5, <3>1, <3>2
    <3>4. /\ k - 1 \in 1..Len(u) /\ i - 1 = m + (k - 1)
          /\ k + 1 \in 1..Len(u) /\ i + 1 = m + (k + 1)
      BY <1>2, <3>1, <3>3
    <3>5. w[i - 1] = u[k - 1] /\ w[i + 1] = u[k + 1]
      BY <1>2, <3>4
    <3> QED BY <1>2, <3>1, <3>2, <3>3, <3>5
  <2> QED BY <1>2, <2>1, <2>2
<1> QED BY <1>2, <1>5 DEF Paired, w

\* The next remainder, before it wraps around.
LEMMA NextRemainder ==
  ASSUME NEW n \in Nat, NEW d \in Nat \ {0}, (n % d) + 1 < d
  PROVE  (n + 1) % d = (n % d) + 1
<1> DEFINE q == n \div d
           r == n % d
<1>1. q \in Nat /\ r \in 0..(d - 1) /\ n = (d * q) + r
  OBVIOUS
<1> HIDE DEF q, r
<1>2. ASSUME NEW x \in Nat, x < d PROVE ((d * q) + x) % d = x
  BY <1>1, <1>2
<1>3. n + 1 = (d * q) + (r + 1) /\ r + 1 \in Nat
  BY <1>1
<1>4. r + 1 < d
  BY DEF r
<1> QED BY <1>2, <1>3, <1>4 DEF r

\* Waits and work stay together in a repetition.
LEMMA PairedRepeat ==
  ASSUME NEW s, Paired(s), Len(s) > 0, NEW n \in Nat
  PROVE  Paired(Repeat(n, s))
<1> DEFINE d == Len(s)
           at(i) == ((i - 1) % d) + 1
           w == Repeat(n, s)
           end == n * d
<1>1. s \in Seq(Ops) /\ d \in Nat \ {0} /\ end \in Nat
  <2>1. s \in Seq(Ops)
    BY DEF Paired
  <2>2. Len(s) \in Nat
    BY <2>1, LenProperties
  <2> QED BY <2>1, <2>2
<1>2. w \in Seq(Ops)
  BY <1>1, RepeatIn
<1>3. Len(w) = end /\ \A i \in 1..end : w[i] = s[at(i)]
  <2>1. w = [i \in 1..end |-> s[at(i)]]
    BY DEF Repeat
  <2> HIDE DEF w, at, end
  <2> QED BY <1>1, <2>1
<1>4. end % d = 0
  BY <1>1
<1>5. ASSUME NEW i \in 1..Len(s), Works(s[i])
      PROVE  /\ i > 1 /\ s[i - 1] = WaitWel(s[i].chip)
             /\ i < d /\ s[i + 1] = WaitIdle(s[i].chip)
  BY <1>5 DEF Paired
<1> HIDE DEF d, end, w
<1>6. ASSUME NEW i \in 1..end
      PROVE  at(i) \in 1..d
  <2>1. i - 1 \in Nat
    BY <1>1
  <2>2. (i - 1) % d \in 0..(d - 1)
    BY <1>1, <2>1, RemainderOf
  <2> QED BY <1>1, <2>2
<1>7. ASSUME NEW i \in 1..end, at(i) < d
      PROVE  i < end /\ i + 1 \in 1..end /\ at(i + 1) = at(i) + 1
  <2>1. i - 1 \in Nat /\ (i - 1) + 1 = i /\ (i + 1) - 1 = i
    BY <1>1
  <2>2. (i - 1) % d \in 0..(d - 1)
    BY <1>1, <2>1, RemainderOf
  <2>3. i % d = ((i - 1) % d) + 1
    BY <1>1, <1>7, <2>1, NextRemainder
  <2>4. i # end
    BY <1>4, <2>2, <2>3
  <2> QED BY <1>1, <2>1, <2>3, <2>4
<1>8. ASSUME NEW i \in 1..end, at(i) > 1
      PROVE  i > 1 /\ i - 1 \in 1..end /\ at(i - 1) = at(i) - 1
  <2>1. i - 1 \in Nat
    BY <1>1
  <2>2. i # 1
    <3>1. 0 % d = 0 /\ 1 - 1 = 0
      BY <1>1
    <3>2. at(1) = 1
      BY <3>1
    <3> QED BY <1>8, <3>2
  <2>3. i - 1 \in 1..end
    BY <1>1, <2>2
  <2>4. at(i - 1) \in 1..d /\ at(i) \in 1..d
    BY <1>6, <2>3
  <2> HIDE DEF at
  <2>5. CASE at(i - 1) < d
    <3>1. at((i - 1) + 1) = at(i - 1) + 1 /\ (i - 1) + 1 = i
      BY <1>1, <1>7, <2>3, <2>5
    <3> QED BY <1>1, <2>2, <2>3, <2>4, <3>1
  <2>6. CASE at(i - 1) = d
    <3> DEFINE k == i - 2
               q == k \div d
    <3>1. k \in Nat /\ k = (i - 1) - 1 /\ i - 1 = k + 1
      BY <1>1, <2>3
    <3>2. k % d = d - 1
      BY <1>1, <2>6, <3>1 DEF at
    <3>3. q \in Nat /\ k = (d * q) + (k % d)
      BY <1>1, <3>1
    <3> HIDE DEF q, k
    <3>4. i - 1 = (q + 1) * d
      BY <1>1, <3>1, <3>2, <3>3
    <3>5. q + 1 \in Nat
      BY <3>3
    <3>6. (i - 1) % d = 0
      <4>1. ASSUME NEW x \in Nat PROVE (x * d) % d = 0
        BY <1>1
      <4> QED BY <3>4, <3>5, <4>1
    <3> QED BY <1>8, <3>6 DEF at
  <2> QED BY <1>1, <2>4, <2>5, <2>6
<1>9. ASSUME NEW i \in 1..end, Works(w[i])
      PROVE  /\ i > 1 /\ w[i - 1] = WaitWel(w[i].chip)
             /\ i < end /\ w[i + 1] = WaitIdle(w[i].chip)
  <2>1. at(i) \in 1..Len(s) /\ at(i) \in 1..d /\ w[i] = s[at(i)]
    BY <1>3, <1>6 DEF d
  <2> HIDE DEF at
  <2>2. /\ at(i) > 1 /\ s[at(i) - 1] = WaitWel(w[i].chip)
        /\ at(i) < d /\ s[at(i) + 1] = WaitIdle(w[i].chip)
    BY <1>5, <1>9, <2>1
  <2> QED BY <1>3, <1>7, <1>8, <2>1, <2>2
<1> QED BY <1>2, <1>3, <1>9 DEF Paired, w

-----------------------------------------------------------------------------
(* The invariant.                                                          *)

Arrives(r, x, v) == At(todo, Len(todo) + 1, r, x, v)

\* When the operation is over PROG_B is released and, unless a firmware session is
\* open, the FPGA has its lines back.
EndsRight ==
  /\ Arrives("nprog", nprog, "released")
  /\ ~ open["firmware"] =>
       Arrives("nrst", nrst, "released") /\ Arrives("tristate", tristate, FALSE)

HeaderLast == \A i \in 1..Len(todo) : todo[i].do = "ifBitstream" => i = Len(todo)

\* By the time a chunk is sent, PROG_B is released and has cleared the FPGA.
SendsReady ==
  \A i \in 1..Len(todo) : todo[i].do = "sendChunk" =>
    /\ At(todo, i, "nprog", nprog, "released")
    /\ fpga = "configured" =>
         \E j \in 1..(i - 1) : todo[j].do = "nprog" /\ todo[j].to = "low"

\* WEL is waited for right before an erase or a page write, and a chip is only
\* busy while the processor waits for it.
WorkGuarded ==
  \A i \in 1..Len(todo) : Works(todo[i]) =>
    /\ \/ i = 1 /\ wel[todo[1].chip]
       \/ i > 1 /\ todo[i - 1] = WaitWel(todo[i].chip)
    /\ i < Len(todo) /\ todo[i + 1] = WaitIdle(todo[i].chip)
BusyAwaited == \A c \in Chips : busy[c] => todo # << >> /\ todo[1] = WaitIdle(c)

DriverInv ==
  /\ BusInv /\ EndsRight /\ HeaderLast /\ SendsReady
  /\ resets = 0 => WorkGuarded /\ BusyAwaited

-----------------------------------------------------------------------------
(* The steps.                                                              *)

\* What every step of the processor but the look at the header does.
Pops ==
  /\ todo # << >> /\ todo' = Tail(todo)
  /\ nprog' = IF todo[1].do = "nprog" THEN todo[1].to ELSE nprog
  /\ nrst' = IF todo[1].do = "nrst" THEN todo[1].to ELSE nrst
  /\ tristate' = IF todo[1].do = "tristate" THEN todo[1].to ELSE tristate
  /\ UNCHANGED <<open, resets>>

\* What a step of the processor does to the chips.
Touches ==
  \/ UNCHANGED <<busy, wel>> /\ todo[1].do \notin {"cmd", "waitWel", "waitIdle"}
  \/ Poll /\ UNCHANGED <<busy, wel>>
  \/ Command

\* What it does to the FPGA.
Sends ==
  \/ todo[1].do # "sendChunk" /\ (todo[1].do = "nprog" /\ todo[1].to = "low" => fpga' # "configured")
       /\ (fpga' = "configured" => fpga = "configured")
  \/ todo[1].do = "sendChunk"
       /\ (fpga' = "configured" => \A i \in 2..Len(todo) : todo[i] # SendChunk)

\* There is only one step that sends.
LEMMA SendShape ==
  ASSUME NEW op \in Ops, op.do = "sendChunk"
  PROVE  op = SendChunk
<1>1. CASE \E p \in OneChip : op = Pins(p)
  BY <1>1, OpKinds
<1>2. CASE \E c \in Chips : op = Cs(c) \/ op = WaitWel(c) \/ op = WaitIdle(c)
  BY <1>2, OpKinds
<1>3. CASE op = Nrst("held") \/ op = Nrst("released") \/ op = IoOff \/ op = IoOn
  BY <1>3, OpKinds
<1>4. CASE op = Nprog("low") \/ op = Nprog("released") \/ op = IfBitstream
  BY <1>4, OpKinds
<1>5. CASE \E x \in {"writeEnable", "erase", "program", "read"}, c \in Chips : op = Cmd(x, c)
  BY <1>5, OpKinds
<1> QED BY <1>1, <1>2, <1>3, <1>4, <1>5 DEF Ops

\* The step in hand, and what is left behind it.
LEMMA FirstStep ==
  ASSUME BusInv, todo # << >>
  PROVE  /\ todo \in Seq(Ops) /\ Op = todo[1] /\ Op \in Ops
         /\ Len(todo) \in Nat \ {0} /\ Tail(todo) \in Seq(Ops)
         /\ Len(Tail(todo)) = Len(todo) - 1
         /\ \A i \in 1..(Len(todo) - 1) : Tail(todo)[i] = todo[i + 1]
<1>1. todo \in Seq(Ops)
  BY DEF BusInv, Settled
<1> QED BY <1>1, TailOf DEF Op

\* Every step of the processor takes the first from the rest, or loads the FPGA.
LEMMA ProcessorSteps ==
  ASSUME BusInv, Processor
  PROVE  \/ Pops /\ Touches /\ Sends
         \/ /\ todo # << >> /\ todo[1].do = "ifBitstream"
            /\ \E n \in 1..MaxChunks : todo' = LoadFpga(n) \o Tail(todo)
            /\ UNCHANGED <<busy, wel, nrst, tristate, nprog, fpga, open, resets>>
<1>1. todo # << >>
  BY DEF Processor, SetPins, SetCs, SetFpgaLines, SetNprog, Command, Poll, ReadHeader, Send,
         Running
<1>2. Op = todo[1]
  BY <1>1, FirstStep
<1>3. CASE SetPins
  BY <1>1, <1>2, <1>3 DEF SetPins, Running, Done, Pops, Touches, Sends
<1>4. CASE SetCs
  BY <1>1, <1>2, <1>4 DEF SetCs, Running, Done, Pops, Touches, Sends
<1>5. CASE SetFpgaLines
  BY <1>1, <1>2, <1>5 DEF SetFpgaLines, Running, Done, Pops, Touches, Sends
<1>6. CASE SetNprog
  BY <1>1, <1>2, <1>6 DEF SetNprog, Running, Done, Pops, Touches, Sends
<1>7. CASE Command
  BY <1>1, <1>2, <1>7 DEF Command, Running, Done, Pops, Touches, Sends
<1>8. CASE Poll
  BY <1>1, <1>2, <1>8 DEF Poll, Running, Done, Pops, Touches, Sends
<1>9. CASE ReadHeader
  BY <1>1, <1>2, <1>9 DEF ReadHeader, Running, Done, Pops, Touches, Sends
<1>10. CASE Send
  BY <1>1, <1>2, <1>10 DEF Send, Running, Done, Pops, Touches, Sends
<1> QED BY <1>3, <1>4, <1>5, <1>6, <1>7, <1>8, <1>9, <1>10 DEF Processor

\* What is true on arrival stays true as the processor goes on.
LEMMA PopKeepsEnd ==
  ASSUME BusInv, EndsRight, HeaderLast, Pops
  PROVE  EndsRight' /\ HeaderLast'
<1>1. /\ todo \in Seq(Ops) /\ todo # << >> /\ todo' = Tail(todo)
      /\ Len(todo) \in Nat \ {0} /\ Len(todo') = Len(todo) - 1
      /\ Len(todo) \in 1..Len(todo) /\ Len(todo') + 1 = Len(todo)
      /\ \A i \in 1..(Len(todo) - 1) : todo'[i] = todo[i + 1]
  BY FirstStep DEF Pops
<1>2. Arrives("nprog", nprog, "released")'
  <2>1. At(todo, Len(todo) + 1, "nprog", nprog, "released")
    BY DEF EndsRight, Arrives
  <2>2. At(todo', Len(todo), "nprog", nprog', "released")
    BY <1>1, <2>1, AtTail DEF Pops
  <2> QED BY <1>1, <2>2 DEF Arrives
<1>3. Arrives("nrst", nrst, "released") => Arrives("nrst", nrst, "released")'
  <2> SUFFICES ASSUME At(todo, Len(todo) + 1, "nrst", nrst, "released")
               PROVE  At(todo', Len(todo') + 1, "nrst", nrst', "released")
    BY DEF Arrives
  <2>1. At(todo', Len(todo), "nrst", nrst', "released")
    BY <1>1, AtTail DEF Pops
  <2> QED BY <1>1, <2>1
<1>4. Arrives("tristate", tristate, FALSE) => Arrives("tristate", tristate, FALSE)'
  <2> SUFFICES ASSUME At(todo, Len(todo) + 1, "tristate", tristate, FALSE)
               PROVE  At(todo', Len(todo') + 1, "tristate", tristate', FALSE)
    BY DEF Arrives
  <2>1. At(todo', Len(todo), "tristate", tristate', FALSE)
    BY <1>1, AtTail DEF Pops
  <2> QED BY <1>1, <2>1
<1>5. EndsRight'
  BY <1>2, <1>3, <1>4 DEF EndsRight, Pops
<1>6. HeaderLast'
  <2> SUFFICES ASSUME NEW i \in 1..Len(todo'), todo'[i].do = "ifBitstream"
               PROVE  i = Len(todo')
    BY DEF HeaderLast
  <2>1. i + 1 \in 1..Len(todo) /\ todo[i + 1].do = "ifBitstream"
    BY <1>1
  <2>2. i + 1 = Len(todo)
    BY <2>1 DEF HeaderLast
  <2>3. i \in Nat /\ i = (i + 1) - 1
    BY <1>1
  <2> QED BY <1>1, <2>2, <2>3
<1> QED BY <1>5, <1>6

\* A step keeps a send ready.
LEMMA PopKeepsSends ==
  ASSUME BusInv, SendsReady, Pops, Sends
  PROVE  SendsReady'
<1>1. /\ todo \in Seq(Ops) /\ todo # << >> /\ todo' = Tail(todo)
      /\ Len(todo) \in Nat \ {0} /\ Len(todo') = Len(todo) - 1
      /\ \A i \in 1..(Len(todo) - 1) : todo'[i] = todo[i + 1]
  BY FirstStep DEF Pops
<1> SUFFICES ASSUME NEW i \in 1..Len(todo'), todo'[i].do = "sendChunk"
             PROVE  /\ At(todo', i, "nprog", nprog', "released")
                    /\ fpga' = "configured" =>
                         \E j \in 1..(i - 1) : todo'[j].do = "nprog" /\ todo'[j].to = "low"
  BY DEF SendsReady
<1>2. i \in 1..Len(todo) /\ i + 1 \in 1..Len(todo) /\ todo[i + 1].do = "sendChunk"
  BY <1>1
<1>3. /\ At(todo, i + 1, "nprog", nprog, "released")
      /\ fpga = "configured" =>
           \E j \in 1..((i + 1) - 1) : todo[j].do = "nprog" /\ todo[j].to = "low"
  BY <1>2 DEF SendsReady
<1>4. At(todo', i, "nprog", nprog', "released")
  BY <1>1, <1>2, <1>3, AtTail DEF Pops
<1>5. ASSUME fpga' = "configured"
      PROVE  \E j \in 1..(i - 1) : todo'[j].do = "nprog" /\ todo'[j].to = "low"
  <2>1. CASE todo[1].do = "sendChunk"
    <3>1. i + 1 \in 2..Len(todo) /\ todo[i + 1] \in Ops
      BY <1>1, <1>2, ElementOfSeq
    <3>2. todo[i + 1] = SendChunk
      <4> DEFINE op == todo[i + 1]
      <4>1. op \in Ops /\ op.do = "sendChunk"
        BY <1>2, <3>1
      <4> HIDE DEF op
      <4> QED BY <4>1, SendShape DEF op
    <3> QED BY <1>5, <2>1, <3>1, <3>2 DEF Sends
  <2>2. CASE todo[1].do # "sendChunk"
    <3>1. fpga = "configured" /\ ~ (todo[1].do = "nprog" /\ todo[1].to = "low")
      BY <1>5, <2>2 DEF Sends
    <3>2. PICK j \in 1..((i + 1) - 1) : todo[j].do = "nprog" /\ todo[j].to = "low"
      BY <1>3, <3>1
    <3>3. j # 1 /\ j - 1 \in 1..(i - 1) /\ j - 1 \in 1..(Len(todo) - 1) /\ (j - 1) + 1 = j
      BY <1>1, <1>2, <3>1, <3>2
    <3>4. todo'[j - 1] = todo[j]
      BY <1>1, <3>3
    <3> QED BY <3>2, <3>3, <3>4
  <2> QED BY <2>1, <2>2
<1> QED BY <1>4, <1>5

\* While the processor goes on, and while a chip finishes its work.
LEMMA PopKeepsWork ==
  ASSUME BusInv, WorkGuarded, BusyAwaited, Pops, Touches
  PROVE  WorkGuarded' /\ BusyAwaited'
<1>1. /\ todo \in Seq(Ops) /\ todo # << >> /\ todo' = Tail(todo) /\ Op = todo[1]
      /\ Len(todo) \in Nat \ {0} /\ Len(todo') = Len(todo) - 1
      /\ todo' \in Seq(Ops)
      /\ \A i \in 1..(Len(todo) - 1) : todo'[i] = todo[i + 1]
  BY FirstStep DEF Pops
<1>2. wel \in [Chips -> BOOLEAN] /\ busy \in [Chips -> BOOLEAN]
  BY DEF BusInv, TypeOK
<1>3. \A c \in Chips : busy[c] => todo[1].do = "waitIdle" /\ todo[1].chip = c
  BY OpKinds DEF BusyAwaited
<1>4. \A c : WaitWel(c).do = "waitWel" /\ WaitWel(c).chip = c
  BY OpKinds
\* A wait for WEL has come to an end with WEL set.
<1>5. todo[1].do = "waitWel" => todo[1].chip \in Chips /\ wel'[todo[1].chip]
  <2> SUFFICES ASSUME todo[1].do = "waitWel" PROVE todo[1].chip \in Chips /\ wel'[todo[1].chip]
    OBVIOUS
  <2>1. Poll /\ UNCHANGED <<busy, wel>>
    BY <1>1 DEF Touches, Command, Running
  <2>2. PICK c \in Reached : wel[c]
    BY <1>1, <2>1 DEF Poll, Running
  <2>3. Running("waitWel")
    BY <1>1 DEF Running
  <2>4. pins = {todo[1].chip} /\ Reached = pins
    BY <1>1, <2>3, BusReaches DEF ReachesItsChip
  <2>5. pins \subseteq Chips
    BY DEF BusInv, TypeOK
  <2> QED BY <2>1, <2>2, <2>4, <2>5
<1>6. WorkGuarded'
  <2> SUFFICES ASSUME NEW i \in 1..Len(todo'), Works(todo'[i])
               PROVE  /\ \/ i = 1 /\ wel'[todo'[1].chip]
                         \/ i > 1 /\ todo'[i - 1] = WaitWel(todo'[i].chip)
                      /\ i < Len(todo') /\ todo'[i + 1] = WaitIdle(todo'[i].chip)
    BY DEF WorkGuarded
  <2>1. /\ i \in Nat /\ i >= 1 /\ i + 1 \in 1..Len(todo) /\ todo'[i] = todo[i + 1]
        /\ (i + 1) - 1 = i
    BY <1>1
  <2>2. /\ \/ i + 1 = 1 /\ wel[todo[1].chip]
           \/ i + 1 > 1 /\ todo[(i + 1) - 1] = WaitWel(todo[i + 1].chip)
        /\ i + 1 < Len(todo) /\ todo[(i + 1) + 1] = WaitIdle(todo[i + 1].chip)
    BY <2>1 DEF WorkGuarded
  <2>3. todo[i] = WaitWel(todo'[i].chip)
    BY <2>1, <2>2
  <2>4. i < Len(todo') /\ todo'[i + 1] = WaitIdle(todo'[i].chip)
    <3>1. i + 1 \in 1..(Len(todo) - 1) /\ i < Len(todo')
      BY <1>1, <2>1, <2>2
    <3> QED BY <1>1, <2>1, <2>2, <3>1
  <2>5. CASE i = 1
    BY <1>4, <1>5, <2>3, <2>4, <2>5
  <2>6. CASE i > 1
    <3>1. i - 1 \in 1..(Len(todo) - 1) /\ (i - 1) + 1 = i
      BY <1>1, <2>1, <2>6
    <3>2. todo'[i - 1] = todo[i]
      BY <1>1, <3>1
    <3> QED BY <2>3, <2>4, <2>6, <3>2
  <2> QED BY <2>1, <2>5, <2>6
<1>7. BusyAwaited'
  <2> SUFFICES ASSUME NEW c \in Chips, busy'[c]
               PROVE  todo' # << >> /\ todo'[1] = WaitIdle(c)
    BY DEF BusyAwaited
  <2>1. CASE UNCHANGED <<busy, wel>> /\ todo[1].do \notin {"cmd", "waitWel", "waitIdle"}
    BY <1>3, <2>1
  <2>2. CASE Poll /\ UNCHANGED <<busy, wel>>
    <3>1. busy[c] /\ todo[1].do = "waitIdle" /\ todo[1].chip = c
      BY <1>3, <2>2
    <3>2. \A x \in Reached : ~ busy[x]
      BY <1>1, <2>2, <3>1 DEF Poll, Running
    <3>3. Running("waitIdle")
      BY <1>1, <3>1 DEF Running
    <3>4. Reached = {c}
      BY <1>1, <3>1, <3>3, BusReaches DEF ReachesItsChip
    <3> QED BY <3>1, <3>2, <3>4
  <2>3. CASE Command
    <3>1. todo[1].do = "cmd"
      BY <1>1, <2>3 DEF Command, Running
    <3>2. ~ busy[c]
      BY <1>3, <3>1
    <3>3. c \in Reached /\ Op.cmd \in {"erase", "program"}
      <4>1. busy'[c] <=>
              busy[c] \/ (c \in Reached /\ Op.cmd \in {"erase", "program"} /\ wel[c])
        BY <2>3, Zenon DEF Command
      <4> QED BY <3>2, <4>1
    <3>4. Running("cmd")
      BY <1>1, <3>1 DEF Running
    <3>5. Reached = {todo[1].chip} /\ todo[1].chip = c
      BY <1>1, <3>3, <3>4, BusReaches DEF ReachesItsChip
    <3>6. Works(todo[1]) /\ 1 \in 1..Len(todo)
      BY <1>1, <3>1, <3>3 DEF Works
    <3>7. 1 < Len(todo) /\ todo[1 + 1] = WaitIdle(c)
      BY <3>5, <3>6 DEF WorkGuarded
    <3>8. 1 \in 1..(Len(todo) - 1) /\ Len(todo') >= 1
      BY <1>1, <3>7
    <3>9. todo'[1] = todo[1 + 1]
      BY <1>1, <3>8
    <3>10. todo' # << >>
      <4>1. Len(<< >>) = 0
        OBVIOUS
      <4> QED BY <3>8, <4>1
    <3> QED BY <3>7, <3>9, <3>10
  <2> QED BY <2>1, <2>2, <2>3 DEF Touches
<1> QED BY <1>6, <1>7

\* A chip that ends its work keeps what is guarded.
LEMMA FinishKeepsWork ==
  ASSUME BusInv, WorkGuarded, BusyAwaited, NEW c \in Chips, FinishWork(c)
  PROVE  WorkGuarded' /\ BusyAwaited'
<1>1. wel \in [Chips -> BOOLEAN] /\ busy \in [Chips -> BOOLEAN]
  BY DEF BusInv, TypeOK
<1>2. todo # << >> /\ todo[1].do = "waitIdle" /\ todo' = todo
  BY OpKinds DEF FinishWork, BusyAwaited
<1>3. ~ Works(todo[1])
  BY <1>2 DEF Works
<1>4. WorkGuarded'
  BY <1>2, <1>3 DEF WorkGuarded
<1>5. \A x \in Chips : busy'[x] => busy[x]
  BY <1>1 DEF FinishWork
<1> QED BY <1>2, <1>4, <1>5 DEF BusyAwaited

\* Every operation that starts pairs its erases and writes with their waits.
LEMMA NoWorkPaired ==
  ASSUME NEW s \in Seq(Ops), \A i \in 1..Len(s) : ~ Works(s[i])
  PROVE  Paired(s)
  BY DEF Paired

\* The four steps around a page program.
LEMMA FourJoined ==
  ASSUME NEW a \in Ops, NEW b \in Ops, NEW c \in Ops, NEW d \in Ops
  PROVE  /\ <<a, b>> \o <<c, d>> = <<a, b, c, d>>
         /\ (<<a, b>> \o <<c>>) \o <<d>> = <<a, b, c, d>>
<1> DEFINE x == <<a, b>>
           y == <<c, d>>
           z == <<c>>
           v == <<d>>
           w == <<a, b, c, d>>
           xy == x \o y
           xz == x \o z
           xzv == xz \o v
<1>1. x \in Seq(Ops) /\ y \in Seq(Ops) /\ z \in Seq(Ops) /\ v \in Seq(Ops) /\ w \in Seq(Ops)
  BY FourIn
<1>2. /\ Len(x) = 2 /\ Len(y) = 2 /\ Len(z) = 1 /\ Len(v) = 1 /\ Len(w) = 4
      /\ x[1] = a /\ x[2] = b /\ y[1] = c /\ y[2] = d /\ z[1] = c /\ v[1] = d
      /\ w[1] = a /\ w[2] = b /\ w[3] = c /\ w[4] = d
  OBVIOUS
<1> HIDE DEF x, y, z, v, w
<1>3. /\ xy \in Seq(Ops) /\ Len(xy) = 4
      /\ xy[1] = a /\ xy[2] = b /\ xy[2 + 1] = c /\ xy[2 + 2] = d
  <2>1. /\ xy \in Seq(Ops) /\ Len(xy) = Len(x) + Len(y)
        /\ \A i \in 1..Len(x) : xy[i] = x[i]
        /\ \A i \in 1..Len(y) : xy[Len(x) + i] = y[i]
    BY <1>1, Joined
  <2> HIDE DEF xy
  <2>2. 1 \in 1..2 /\ 2 \in 1..2
    OBVIOUS
  <2> QED BY <1>2, <2>1, <2>2
<1>4. /\ xz \in Seq(Ops) /\ Len(xz) = 3 /\ xz[1] = a /\ xz[2] = b /\ xz[2 + 1] = c
  <2>1. /\ xz \in Seq(Ops) /\ Len(xz) = Len(x) + Len(z)
        /\ \A i \in 1..Len(x) : xz[i] = x[i]
        /\ \A i \in 1..Len(z) : xz[Len(x) + i] = z[i]
    BY <1>1, Joined
  <2> HIDE DEF xz
  <2>2. 1 \in 1..2 /\ 2 \in 1..2 /\ 1 \in 1..1
    OBVIOUS
  <2> QED BY <1>2, <2>1, <2>2
<1> HIDE DEF xy, xz
<1>5. /\ xzv \in Seq(Ops) /\ Len(xzv) = 4
      /\ xzv[1] = a /\ xzv[2] = b /\ xzv[3] = c /\ xzv[3 + 1] = d
  <2>1. /\ xzv \in Seq(Ops) /\ Len(xzv) = Len(xz) + Len(v)
        /\ \A i \in 1..Len(xz) : xzv[i] = xz[i]
        /\ \A i \in 1..Len(v) : xzv[Len(xz) + i] = v[i]
    BY <1>1, <1>4, Joined
  <2> HIDE DEF xzv
  <2>2. 1 \in 1..3 /\ 2 \in 1..3 /\ 3 \in 1..3 /\ 1 \in 1..1 /\ 2 + 1 = 3
    OBVIOUS
  <2> QED BY <1>2, <1>4, <2>1, <2>2
<1> HIDE DEF xzv
<1>6. \A s, u \in Seq(Ops) :
        /\ Len(s) = 4 /\ s[1] = a /\ s[2] = b /\ s[3] = c /\ s[4] = d
        /\ Len(u) = 4 /\ u[1] = a /\ u[2] = b /\ u[3] = c /\ u[4] = d
        => s = u
  <2> SUFFICES ASSUME NEW s \in Seq(Ops), NEW u \in Seq(Ops),
                      Len(s) = 4, s[1] = a, s[2] = b, s[3] = c, s[4] = d,
                      Len(u) = 4, u[1] = a, u[2] = b, u[3] = c, u[4] = d
               PROVE  s = u
    OBVIOUS
  <2>1. ASSUME NEW i \in 1..4 PROVE s[i] = u[i]
    <3>1. i = 1 \/ i = 2 \/ i = 3 \/ i = 4
      OBVIOUS
    <3> QED BY <3>1
  <2> QED BY <2>1, SeqEqual
<1>7. xy = w /\ xzv = w
  <2>1. 2 + 1 = 3 /\ 2 + 2 = 4 /\ 3 + 1 = 4
    OBVIOUS
  <2> QED BY <1>1, <1>2, <1>3, <1>5, <1>6, <2>1
<1> QED BY <1>7 DEF x, y, z, v, w, xy, xz, xzv

\* Every erase and page write of the driver is between its waits.
LEMMA ChipPairs ==
  ASSUME NEW c \in Chips, NEW n \in Nat
  PROVE  /\ Paired(PageProgramBlocking(c)) /\ Paired(Read(c))
         /\ Paired(Repeat(n, Erase64kNonblocking(c) \o <<WaitIdle(c)>>))
<1>1. /\ Cmd("read", c) \in Ops /\ Cmd("writeEnable", c) \in Ops
      /\ Cmd("erase", c) \in Ops /\ Cmd("program", c) \in Ops
      /\ WaitWel(c) \in Ops /\ WaitIdle(c) \in Ops
  BY OpTypes
<1>2. /\ ~ Works(Cmd("read", c)) /\ ~ Works(Cmd("writeEnable", c))
      /\ ~ Works(WaitWel(c)) /\ ~ Works(WaitIdle(c))
      /\ Cmd("erase", c).chip = c /\ Cmd("program", c).chip = c
  BY OpKinds DEF Works
<1>3. Paired(Read(c))
  <2>1. \A op \in Ops : ~ Works(op) => Paired(<<op>>)
    BY DEF Paired
  <2> QED BY <1>1, <1>2, <2>1 DEF Read
<1>4. ASSUME NEW a \in Ops, NEW w \in Ops, NEW work \in Ops, NEW v \in Ops,
             ~ Works(a), ~ Works(v), w = WaitWel(work.chip), v = WaitIdle(work.chip), ~ Works(w)
      PROVE  Paired(<<a, w, work, v>>)
  <2>1. ASSUME NEW i \in 1..Len(<<a, w, work, v>>), Works(<<a, w, work, v>>[i]) PROVE i = 3
    BY <1>4, <2>1
  <2>2. <<a, w, work, v>> \in Seq(Ops)
    BY FourIn
  <2> QED BY <1>4, <2>1, <2>2 DEF Paired
<1> DEFINE en == Cmd("writeEnable", c)
           wait == WaitWel(c)
           erase == Cmd("erase", c)
           program == Cmd("program", c)
           end == WaitIdle(c)
<1>5. PageProgramBlocking(c) = <<en, wait, program, end>>
  <2>1. PageProgramBlocking(c) = <<en, wait>> \o <<program, end>>
    BY DEF PageProgramBlocking, WriteEnable
  <2> HIDE DEF en, wait, program, end
  <2>2. en \in Ops /\ wait \in Ops /\ program \in Ops /\ end \in Ops
    BY <1>1 DEF en, wait, program, end
  <2>3. <<en, wait>> \o <<program, end>> = <<en, wait, program, end>>
    BY <2>2, FourJoined
  <2> QED BY <2>1, <2>3
<1>6. Erase64kNonblocking(c) \o <<WaitIdle(c)>> = <<en, wait, erase, end>>
  <2>1. Erase64kNonblocking(c) \o <<WaitIdle(c)>> = (<<en, wait>> \o <<erase>>) \o <<end>>
    BY DEF Erase64kNonblocking, WriteEnable
  <2> HIDE DEF en, wait, erase, end
  <2>2. en \in Ops /\ wait \in Ops /\ erase \in Ops /\ end \in Ops
    BY <1>1 DEF en, wait, erase, end
  <2>3. (<<en, wait>> \o <<erase>>) \o <<end>> = <<en, wait, erase, end>>
    BY <2>2, FourJoined
  <2> QED BY <2>1, <2>3
<1>7. Paired(PageProgramBlocking(c))
  BY <1>1, <1>2, <1>4, <1>5
<1>8. Paired(Erase64kNonblocking(c) \o <<WaitIdle(c)>>)
  BY <1>1, <1>2, <1>4, <1>6
<1> QED BY <1>3, <1>7, <1>8, QuietSteps, PairedRepeat

\* Everything that leaves the chips alone.
LEMMA OtherPairs ==
  /\ Paired(FpgaErase) /\ Paired(FpgaProgramInit) /\ Paired(ReleaseSpiIo) /\ Paired(<< >>)
  /\ Paired(<<IfBitstream>>) /\ Paired(<<Tristate(FALSE)>>)
  /\ \A c \in Chips : Paired(InitSpi(c))
<1>1. ASSUME NEW D, "cmd" \notin D, NEW s \in Seq(Doing(D)) PROVE Paired(s)
  <2>1. s \in Seq(Ops)
    BY DEF Doing
  <2>2. \A i \in 1..Len(s) : s[i].do # "cmd"
    BY <1>1, ElementOfSeq DEF Doing
  <2> QED BY <2>1, <2>2, NoWorkPaired DEF Works
<1>2. "cmd" \notin {"nprog"} /\ "cmd" \notin OnBus \cup Lines
  BY DEF OnBus, Lines
<1>3. Paired(FpgaErase) /\ Paired(FpgaProgramInit) /\ Paired(ReleaseSpiIo)
  BY <1>1, <1>2, FpgaDoes, ReleaseDoes
<1>4. \A c \in Chips : Paired(InitSpi(c))
  BY <1>1, <1>2, InitDoes DEF InitSpi
<1>5. \A op \in Ops : ~ Works(op) => Paired(<<op>>)
  BY DEF Paired
<1>6. IfBitstream \in Ops /\ ~ Works(IfBitstream)
  BY OpTypes, OpKinds DEF Works
<1>7. Tristate(FALSE) \in Ops /\ ~ Works(Tristate(FALSE))
  BY OpTypes, OpKinds DEF Works, IoOn
<1>8. Paired(<< >>)
  BY DEF Paired
<1> QED BY <1>3, <1>4, <1>5, <1>6, <1>7, <1>8

\* So it is in the boot and in every block.
LEMMA OperationsPair ==
  /\ Paired(Boot)
  /\ \A c \in Chips, n \in Nat, last \in BOOLEAN : Paired(ProgramBlock(c, n, last))
<1>1. "bitstream" \in Chips /\ "firmware" \in Chips /\ 3 \in Nat
  BY DEF Chips
<1>2. Paired(BitstreamInitSpi) /\ Paired(FirmwareInitSpi)
  BY <1>1, OtherPairs DEF InitSpi
<1>3. \A c \in Chips : Paired(Read(c)) /\ Paired(Repeat(3, Read(c)))
  <2>1. \A c \in Chips : Len(Read(c)) > 0
    BY QuietSteps
  <2> QED BY <1>1, <2>1, ChipPairs, PairedRepeat
<1>4. Paired(StartupProgramBitstream)
  BY <1>1, <1>2, <1>3, OtherPairs, PairedJoin DEF StartupProgramBitstream
<1>5. Paired(CheckFlashForBitstreams)
  BY <1>1, <1>2, <1>3, PairedJoin DEF CheckFlashForBitstreams
<1>6. Paired(CheckFlashForFirmware)
  BY <1>1, <1>2, <1>3, OtherPairs, PairedJoin DEF CheckFlashForFirmware
<1>7. Paired(Boot)
  BY <1>4, <1>5, <1>6, OtherPairs, PairedJoin DEF Boot
<1>8. ASSUME NEW c \in Chips, NEW n \in Nat, NEW last \in BOOLEAN
      PROVE  Paired(ProgramBlock(c, n, last))
  <2>1. Paired(OpenSession(c, n))
    BY OtherPairs, ChipPairs, PairedJoin DEF OpenSession
  <2>2. Paired(IF open[c] THEN << >> ELSE OpenSession(c, n))
    BY <2>1, OtherPairs
  <2>3. Paired(CloseSession)
    BY <1>4, OtherPairs, PairedJoin DEF CloseSession
  <2>4. Paired(IF last THEN CloseSession ELSE << >>)
    BY <2>3, OtherPairs
  <2> QED BY <1>3, <2>2, <2>4, OtherPairs, ChipPairs, PairedJoin DEF ProgramBlock
<1> QED BY <1>7, <1>8

\* An operation that begins is guarded.
LEMMA PairedGuarded ==
  ASSUME Paired(todo')
  PROVE  WorkGuarded'
  BY DEF Paired, WorkGuarded

\* At the end nothing is to come.
LEMMA NothingHeld ==
  ASSUME NEW r, NEW x, NEW v
  PROVE  At(<< >>, Len(<< >>) + 1, r, x, v) => x = v
<1>1. Len(<< >>) = 0
  OBVIOUS
<1> QED BY <1>1 DEF At, Written

\* How a pin is at the end of an operation.
LEMMA EndsArrives ==
  ASSUME NEW s, NEW r, NEW x, NEW v
  PROVE  /\ Ends(s, r, v) => At(s, Len(s) + 1, r, x, v)
         /\ s \in Seq(Sparing(r)) /\ x = v => At(s, Len(s) + 1, r, x, v)
<1>1. Ends(s, r, v) => At(s, Len(s) + 1, r, x, v)
  BY DEF Ends, At
<1>2. ASSUME s \in Seq(Sparing(r)) PROVE Spared(s, Len(s) + 1, r)
  <2>1. Len(s) \in Nat /\ (Len(s) + 1) - 1 = Len(s)
    BY <1>2, LenProperties
  <2>2. \A k \in 1..Len(s) : s[k] \in Sparing(r)
    BY <1>2, ElementOfSeq
  <2> QED BY <2>1, <2>2 DEF Spared, Sparing
<1> QED BY <1>1, <1>2 DEF At

\* The operations that the host and a reset start.
LEMMA NoSend ==
  ASSUME NEW s, ToHeader(s)
  PROVE  \A i \in 1..Len(s) : /\ s[i].do # "sendChunk"
                              /\ s[i].do = "ifBitstream" => i = Len(s)
<1>1. "sendChunk" \notin PlainKinds /\ "ifBitstream" \notin PlainKinds
  BY DEF PlainKinds, OnBus, OnChip, Lines
<1> QED BY <1>1 DEF ToHeader

\* The boot begins well.
LEMMA BootStarts ==
  ASSUME todo' = Boot
  PROVE  EndsRight' /\ HeaderLast' /\ SendsReady' /\ WorkGuarded'
<1>1. EndsRight'
  BY BootDoes, EndsArrives DEF EndsRight, Arrives, EndsWell
<1>2. HeaderLast' /\ SendsReady'
  BY BootDoes, NoSend DEF HeaderLast, SendsReady
<1> QED BY <1>1, <1>2, OperationsPair, PairedGuarded

\* So does a block.
LEMMA BlockStarts ==
  ASSUME BusInv, EndsRight, BusyAwaited \/ resets # 0,
         NEW c \in Chips, NEW last \in BOOLEAN, HandleBlock(c, last)
  PROVE  EndsRight' /\ HeaderLast' /\ SendsReady' /\ WorkGuarded' /\ (resets = 0 => BusyAwaited')
<1>1. PICK n \in 1..MaxErases : todo' = ProgramBlock(c, n, last)
  BY DEF HandleBlock
<1>2. n \in Nat
  BY BoundsAssumption
<1>3. todo = << >> /\ open' = [open EXCEPT ![c] = ~ last]
      /\ UNCHANGED <<pins, csPin, busy, wel, nrst, tristate, nprog, fpga, resets>>
  BY DEF HandleBlock
<1>4. /\ nprog = "released"
      /\ ~ open["firmware"] => nrst = "released" /\ tristate = FALSE
  BY <1>3, NothingHeld DEF EndsRight, Arrives
<1> DEFINE s == ProgramBlock(c, n, last)
<1>5. /\ ToHeader(s)
      /\ Ends(s, "nprog", "released") \/ s \in Seq(Sparing("nprog"))
      /\ c = "bitstream" \/ last => Ends(s, "nrst", "released") /\ Ends(s, "tristate", FALSE)
  BY <1>2, BlockDoes
<1> HIDE DEF s
<1>6. todo' = s
  BY <1>1 DEF s
<1>7. Arrives("nprog", nprog, "released")'
  BY <1>3, <1>4, <1>5, <1>6, EndsArrives DEF Arrives
<1>8. ASSUME ~ open'["firmware"]
      PROVE  c = "bitstream" \/ last
  <2>1. open \in [Chips -> BOOLEAN] /\ (c = "firmware" \/ c = "bitstream")
    BY DEF BusInv, TypeOK, Chips
  <2> QED BY <1>3, <1>8, <2>1
<1>9. EndsRight'
  BY <1>5, <1>6, <1>7, <1>8, EndsArrives DEF EndsRight, Arrives
<1>10. HeaderLast' /\ SendsReady'
  BY <1>5, <1>6, NoSend DEF HeaderLast, SendsReady
<1>11. WorkGuarded'
  BY <1>1, <1>2, OperationsPair, PairedGuarded
<1>12. resets = 0 => BusyAwaited'
  BY <1>3 DEF BusyAwaited
<1> QED BY <1>9, <1>10, <1>11, <1>12

\* So does the load behind the look at the header.
LEMMA LoadStarts ==
  ASSUME BusInv, EndsRight, HeaderLast, BusyAwaited \/ resets # 0,
         todo # << >>, todo[1].do = "ifBitstream",
         NEW n \in 1..MaxChunks, todo' = LoadFpga(n) \o Tail(todo),
         UNCHANGED <<busy, wel, nrst, tristate, nprog, fpga, open, resets>>
  PROVE  EndsRight' /\ HeaderLast' /\ SendsReady' /\ WorkGuarded' /\ (resets = 0 => BusyAwaited')
<1> DEFINE s == LoadFpga(n)
<1>1. n \in Nat
  BY BoundsAssumption
<1>2. /\ s \in Seq(Ops) /\ s # << >>
      /\ \A r \in Lines : s \in Seq(Sparing(r))
      /\ Ends(s, "nprog", "released")
      /\ \A i \in 1..Len(s) :
           /\ s[i].do # "ifBitstream"
           /\ s[i].do = "cmd" => s[i].cmd \notin {"erase", "program"}
           /\ s[i].do = "sendChunk" =>
                /\ Written(s, i, "nprog", "released")
                /\ \E j \in 1..(i - 1) : s[j].do = "nprog" /\ s[j].to = "low"
  BY <1>1, LoadDoes
<1> HIDE DEF s
\* The look at the header is the last step.
<1>3. Len(todo) = 1 /\ todo' = s
  <2>1. /\ todo \in Seq(Ops) /\ Len(todo) \in Nat \ {0}
        /\ Tail(todo) \in Seq(Ops) /\ Len(Tail(todo)) = Len(todo) - 1
    BY FirstStep
  <2>2. Len(todo) = 1
    <3>1. 1 \in 1..Len(todo)
      BY <2>1
    <3> QED BY <3>1 DEF HeaderLast
  <2>3. Tail(todo) = << >>
    <3>1. Len(Tail(todo)) = 0
      BY <2>1, <2>2
    <3> QED BY <2>1, <3>1, EmptySeq
  <2>4. s \o << >> = s
    BY <1>2
  <2> QED BY <2>2, <2>3, <2>4 DEF s
<1>4. ASSUME NEW r \in Lines, NEW x, NEW v, Arrives(r, x, v) PROVE x = v
  <2>1. todo[1].do # r
    BY DEF Lines
  <2>2. ~ Written(todo, 2, r, v)
    BY <2>1 DEF Written
  <2> QED BY <1>3, <1>4, <2>2 DEF Arrives, At
<1>5. EndsRight'
  <2>1. "nrst" \in Lines /\ "tristate" \in Lines
    BY DEF Lines
  <2>2. ~ open["firmware"] => nrst = "released" /\ tristate = FALSE
    BY <1>4, <2>1 DEF EndsRight
  <2> QED BY <1>2, <1>3, <2>1, <2>2, EndsArrives DEF EndsRight, Arrives
<1>6. HeaderLast' /\ SendsReady'
  <2>1. HeaderLast'
    BY <1>2, <1>3 DEF HeaderLast
  <2>2. \A i \in 1..Len(s) : s[i].do = "sendChunk" => At(s, i, "nprog", nprog', "released")
    BY <1>2 DEF At
  <2>3. \A i \in 1..Len(s) : s[i].do = "sendChunk" =>
          \E j \in 1..(i - 1) : s[j].do = "nprog" /\ s[j].to = "low"
    BY <1>2
  <2>4. SendsReady'
    <3> SUFFICES ASSUME NEW i \in 1..Len(todo'), todo'[i].do = "sendChunk"
                 PROVE  /\ At(todo', i, "nprog", nprog', "released")
                        /\ \E j \in 1..(i - 1) : todo'[j].do = "nprog" /\ todo'[j].to = "low"
      BY DEF SendsReady
    <3> HIDE DEF s
    <3> QED BY <1>3, <2>2, <2>3
  <2> QED BY <2>1, <2>4
<1>7. WorkGuarded'
  BY <1>2, <1>3, NoWorkPaired, PairedGuarded DEF Works
<1>8. resets = 0 => BusyAwaited'
  <2>1. resets = 0 => \A c \in Chips : ~ busy[c]
    BY OpKinds DEF BusyAwaited
  <2> QED BY <2>1 DEF BusyAwaited
<1> QED BY <1>5, <1>6, <1>7, <1>8

\* The invariant of the driver at power-on.
LEMMA DriverInit == Init => DriverInv
<1> SUFFICES ASSUME Init PROVE DriverInv
  OBVIOUS
<1>1. BusInv
  BY BusInit
<1>2. EndsRight
  BY BootDoes, EndsArrives DEF Init, EndsRight, Arrives, EndsWell
<1>3. HeaderLast /\ SendsReady
  BY BootDoes, NoSend DEF Init, HeaderLast, SendsReady
<1>4. WorkGuarded
  BY OperationsPair DEF Init, Paired, WorkGuarded
<1>5. BusyAwaited
  BY DEF Init, BusyAwaited
<1> QED BY <1>1, <1>2, <1>3, <1>4, <1>5 DEF DriverInv

\* Every step keeps it.
LEMMA DriverStep == DriverInv /\ [Next]_vars => DriverInv'
<1> SUFFICES ASSUME DriverInv, [Next]_vars PROVE DriverInv'
  OBVIOUS
<1>1. BusInv /\ BusInv'
  BY BusStep DEF DriverInv
<1>2. EndsRight /\ HeaderLast /\ SendsReady /\ (resets = 0 => WorkGuarded /\ BusyAwaited)
  BY DEF DriverInv
<1> SUFFICES /\ EndsRight' /\ HeaderLast' /\ SendsReady'
             /\ resets' = 0 => WorkGuarded' /\ BusyAwaited'
  BY <1>1 DEF DriverInv
<1>3. CASE Processor
  <2>1. CASE Pops /\ Touches /\ Sends
    <3>1. resets' = resets
      BY <2>1 DEF Pops
    <3> QED BY <1>1, <1>2, <2>1, <3>1, PopKeepsEnd, PopKeepsSends, PopKeepsWork
  <2>2. CASE /\ todo # << >> /\ todo[1].do = "ifBitstream"
             /\ \E n \in 1..MaxChunks : todo' = LoadFpga(n) \o Tail(todo)
             /\ UNCHANGED <<busy, wel, nrst, tristate, nprog, fpga, open, resets>>
    <3>1. PICK n \in 1..MaxChunks : todo' = LoadFpga(n) \o Tail(todo)
      BY <2>2
    <3>2. BusyAwaited \/ resets # 0
      BY <1>2
    <3> QED BY <1>1, <1>2, <2>2, <3>1, <3>2, LoadStarts
  <2> QED BY <1>1, <1>3, <2>1, <2>2, ProcessorSteps
<1>4. CASE \E c \in Chips : FinishWork(c)
  <2>1. PICK c \in Chips : FinishWork(c)
    BY <1>4
  <2>2. UNCHANGED <<todo, nrst, tristate, nprog, fpga, open, resets>>
    BY <2>1 DEF FinishWork
  <2>3. EndsRight' /\ HeaderLast' /\ SendsReady'
    BY <1>2, <2>2 DEF EndsRight, Arrives, HeaderLast, SendsReady
  <2> QED BY <1>1, <1>2, <2>1, <2>2, <2>3, FinishKeepsWork
<1>5. CASE \E c \in Chips, last \in BOOLEAN : HandleBlock(c, last)
  <2>1. PICK c \in Chips, last \in BOOLEAN : HandleBlock(c, last)
    BY <1>5
  <2>2. resets' = resets
    BY <2>1 DEF HandleBlock
  <2>3. BusyAwaited \/ resets # 0
    BY <1>2
  <2> QED BY <1>1, <1>2, <2>1, <2>2, <2>3, BlockStarts
<1>6. CASE Reset
  <2>1. todo' = Boot /\ resets' # 0
    <3>1. resets \in Nat /\ resets' = resets + 1
      BY <1>1, <1>6, BoundsAssumption DEF Reset, BusInv, TypeOK
    <3> QED BY <1>6, <3>1 DEF Reset
  <2> QED BY <2>1, BootStarts
<1>7. CASE UNCHANGED vars
  BY <1>2, <1>7 DEF vars, EndsRight, Arrives, HeaderLast, SendsReady, WorkGuarded, BusyAwaited
<1> QED BY <1>3, <1>4, <1>5, <1>6, <1>7 DEF Next

\* So it holds in every state.
LEMMA DriverAlways == Spec => []DriverInv
  BY DriverInit, DriverStep, PTL DEF Spec

\* It is what the three properties need.
LEMMA DriverImplies == DriverInv => FpgaFreeWhenIdle /\ SendsToClearedFpga /\ CommandsHeeded
<1> SUFFICES ASSUME DriverInv PROVE FpgaFreeWhenIdle /\ SendsToClearedFpga /\ CommandsHeeded
  OBVIOUS
<1>1. FpgaFreeWhenIdle
  BY NothingHeld DEF DriverInv, EndsRight, Arrives, FpgaFreeWhenIdle
<1>2. ASSUME todo # << >> PROVE Op = todo[1] /\ 1 \in 1..Len(todo)
  BY <1>2, FirstStep DEF DriverInv
<1>3. SendsToClearedFpga
  <2> SUFFICES ASSUME Running("sendChunk") PROVE nprog = "released" /\ fpga # "configured"
    BY DEF SendsToClearedFpga
  <2>1. todo[1].do = "sendChunk" /\ 1 \in 1..Len(todo)
    BY <1>2 DEF Running
  <2> QED BY <2>1 DEF DriverInv, SendsReady, At, Written
<1>4. CommandsHeeded
  <2> SUFFICES ASSUME Running("cmd"), resets = 0, NEW c \in Reached
               PROVE  /\ ~ busy[c]
                      /\ Op.cmd \in {"erase", "program"} => wel[c]
    BY DEF CommandsHeeded
  <2>1. Op = todo[1] /\ 1 \in 1..Len(todo) /\ todo[1].do = "cmd"
    BY <1>2 DEF Running
  <2>2. c \in Chips /\ c = Op.chip
    <3>1. pins = {Op.chip} /\ Reached = pins
      BY BusReaches DEF DriverInv, ReachesItsChip
    <3>2. pins \subseteq Chips
      BY DEF DriverInv, BusInv, TypeOK
    <3> QED BY <3>1, <3>2
  <2>3. ~ busy[c]
    BY <2>1, <2>2, OpKinds DEF DriverInv, BusyAwaited
  <2>4. Op.cmd \in {"erase", "program"} => wel[c]
    <3> SUFFICES ASSUME Op.cmd \in {"erase", "program"} PROVE wel[c]
      OBVIOUS
    <3>1. Works(todo[1])
      BY <2>1 DEF Works
    <3>2. wel[todo[1].chip]
      BY <2>1, <3>1 DEF DriverInv, WorkGuarded
    <3> QED BY <2>1, <2>2, <3>2
  <2> QED BY <2>3, <2>4
<1> QED BY <1>1, <1>3, <1>4

-----------------------------------------------------------------------------
(* The theorems. *)

\* FpgaFreeWhenIdle: when boot or the handling of a block is over, PROG_B has been
\* let go (fpga_program.c:83-106, fpga_program.h:9) and, unless a firmware session is open, the
\* FPGA is out of reset and its I/O is its own (flash_util.c:121-212), in whatever
\* order blocks of the two chips came before.
THEOREM FpgaFree == Spec => []FpgaFreeWhenIdle
  BY DriverAlways, DriverImplies, PTL

\* SendsToClearedFpga: a chunk of a bitstream is only sent with PROG_B released and to
\* an FPGA cleared since it was last configured (fpga_program.c:47-106), whatever
\* the length of the bitstream.
THEOREM SendsCleared == Spec => []SendsToClearedFpga
  BY DriverAlways, DriverImplies, PTL

\* CommandsHeeded: unless the processor has been reset, no command is sent to a
\* chip that is still erasing or writing, and no erase or page write without WEL
\* (flash_util.c:310-436), for any number of erases in a session.
THEOREM CommandsTaken == Spec => []CommandsHeeded
  BY DriverAlways, DriverImplies, PTL

=============================================================================
