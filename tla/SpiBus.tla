------------------------------- MODULE SpiBus -------------------------------
(***************************************************************************)
(* The driver below the programmer: one SPI peripheral that is switched    *)
(* between the two flash chips (usb_msc/flash_util.c), the lines that hold *)
(* the FPGA off the firmware chip, and the FPGA's PROG_B and configuration *)
(* port (usb_msc/fpga_program.c), in the order main.c and msc_disk.c use   *)
(* them.                                                                   *)
(*                                                                         *)
(* The processor runs one operation at a time.  An operation is the        *)
(* sequence of the things it does to pins and chips; todo holds what is    *)
(* left of it, and between two of them a chip may finish its work or the   *)
(* processor may be reset.  USB callbacks never interrupt each other.      *)
(***************************************************************************)
EXTENDS Naturals, Sequences, FiniteSets

CONSTANTS
  MaxErases,   \* a bound on the 64 KB erases of a session
  MaxChunks,   \* a bound on the chunks of a bitstream
  MaxResets    \* a bound on the resets of the processor

Chips == {"bitstream", "firmware"}

ASSUME BoundsAssumption ==
  MaxErases \in Nat \ {0} /\ MaxChunks \in Nat \ {0} /\ MaxResets \in Nat

VARIABLES
  todo,     \* the rest of the operation that is running; << >> when idle
  pins,     \* the chips whose pins carry the SPI peripheral
  csPin,    \* the chip of SPI_FLASH_CS_PIN, or "none"
  busy,     \* [Chips -> BOOLEAN], BUSY in the chip's status register
  wel,      \* [Chips -> BOOLEAN], WEL in the chip's status register
  nrst,     \* "held" (driven low) or "released" (high impedance)
  tristate, \* the level of the PREQ pin: the FPGA's I/O is tristated
  nprog,    \* "low" or "released" (an input)
  fpga,     \* "configured", "cleared" by PROG_B, or "loading"
  open,     \* [Chips -> BOOLEAN], a programming session is in progress
  resets    \* the number of resets

vars == <<todo, pins, csPin, busy, wel, nrst, tristate, nprog, fpga, open, resets>>

-----------------------------------------------------------------------------
(* What an operation can do in one go. *)

\* The pins of both chips given back, or those of a chip taken as well.
Pins(p)     == [do |-> "pins", on |-> p]
Cs(c)       == [do |-> "cs", chip |-> c]
Nrst(x)     == [do |-> "nrst", to |-> x]
Tristate(b) == [do |-> "tristate", to |-> b]
Nprog(x)    == [do |-> "nprog", to |-> x]
\* A command for chip c, wherever the bus carries it.
Cmd(x, c)   == [do |-> "cmd", cmd |-> x, chip |-> c]
WaitWel(c)  == [do |-> "waitWel", chip |-> c]
WaitIdle(c) == [do |-> "waitIdle", chip |-> c]
IfBitstream == [do |-> "ifBitstream"]
SendChunk   == [do |-> "sendChunk"]

Repeat(n, s) == [i \in 1..(n * Len(s)) |-> s[((i - 1) % Len(s)) + 1]]

-----------------------------------------------------------------------------
(* The operations of flash_util.c and fpga_program.c. *)

\* Mutant: the lines of the FPGA are left as they were.
MutReleaseSpiIo == <<Pins({})>>

ReleaseSpiIo == <<Pins({}), Nrst("released"), Tristate(FALSE)>>

\* Mutant: the pins of the other chip are not given back.
MutBitstreamInitKeepsPins == <<Pins({"bitstream"}), Cs("bitstream")>>

\* Mutant: the chip select of the last user is kept.
MutBitstreamInitSpi == ReleaseSpiIo \o <<Pins({"bitstream"})>>

BitstreamInitSpi == ReleaseSpiIo \o <<Pins({"bitstream"}), Cs("bitstream")>>

\* Mutant: the pins are taken before the FPGA is held off them.
MutFirmwareInitSpi ==
  ReleaseSpiIo \o <<Pins({"firmware"}), Cs("firmware"), Nrst("held"), Tristate(TRUE)>>

FirmwareInitSpi ==
  ReleaseSpiIo \o <<Nrst("held"), Tristate(TRUE), Pins({"firmware"}), Cs("firmware")>>

InitSpi(c) == IF c = "bitstream" THEN BitstreamInitSpi ELSE FirmwareInitSpi

\* Mutant: WEL is awaited without the command that sets it.
MutWriteEnable(c) == <<WaitWel(c)>>

WriteEnable(c) == <<Cmd("writeEnable", c), WaitWel(c)>>

Erase64kNonblocking(c) == WriteEnable(c) \o <<Cmd("erase", c)>>

\* Mutant: returns without waiting for the chip.
MutPageProgramBlocking(c) == WriteEnable(c) \o <<Cmd("program", c)>>

PageProgramBlocking(c) == WriteEnable(c) \o <<Cmd("program", c), WaitIdle(c)>>

Read(c) == <<Cmd("read", c)>>

\* PROG_B is let go by making its pin an input.
FpgaErase == <<Nprog("low"), Nprog("released")>>

\* The last setup of the pin drives it low until the erase that follows.
FpgaProgramInit == <<Nprog("low"), Nprog("released"), Nprog("low")>>

-----------------------------------------------------------------------------
(* The operations of main.c and msc_disk.c. *)

\* Mutant: leaves PROG_B as fpga_program_init leaves it.
MutLoadFpga(n) == FpgaProgramInit \o Repeat(n, Read("bitstream") \o <<SendChunk>>)

\* The part of startup_program_bitstream that a bitstream header leads to.
LoadFpga(n) == FpgaProgramInit \o FpgaErase \o Repeat(n, Read("bitstream") \o <<SendChunk>>)

StartupProgramBitstream == BitstreamInitSpi \o Read("bitstream") \o <<IfBitstream>>

CheckFlashForBitstreams == BitstreamInitSpi \o Repeat(3, Read("bitstream"))

CheckFlashForFirmware ==
  FirmwareInitSpi \o FpgaErase \o Repeat(3, Read("firmware")) \o ReleaseSpiIo

Boot ==
  <<Tristate(FALSE)>> \o FpgaProgramInit \o FpgaErase
    \o CheckFlashForBitstreams \o CheckFlashForFirmware \o StartupProgramBitstream

\* One UF2 block for chip c: the first of its session erases n blocks, the last
\* gives the pins back and loads the FPGA.
OpenSession(c, n) == FpgaErase \o Repeat(n, Erase64kNonblocking(c) \o <<WaitIdle(c)>>)

CloseSession == ReleaseSpiIo \o StartupProgramBitstream

ProgramBlock(c, n, last) ==
  InitSpi(c) \o (IF open[c] THEN << >> ELSE OpenSession(c, n))
    \o PageProgramBlocking(c) \o Read(c) \o (IF last THEN CloseSession ELSE << >>)

-----------------------------------------------------------------------------
(* The steps. *)

Op == Head(todo)
Running(x) == todo # << >> /\ Op.do = x
Done == todo' = Tail(todo)

\* The chip a command reaches is the one whose pins and chip select are on.
Reached == pins \cap {csPin}

SetPins ==
  /\ Running("pins")
  /\ pins' = IF Op.on = {} THEN {} ELSE pins \cup Op.on
  /\ Done
  /\ UNCHANGED <<csPin, busy, wel, nrst, tristate, nprog, fpga, open, resets>>

SetCs ==
  /\ Running("cs")
  /\ csPin' = Op.chip
  /\ Done
  /\ UNCHANGED <<pins, busy, wel, nrst, tristate, nprog, fpga, open, resets>>

SetFpgaLines ==
  /\ \/ Running("nrst") /\ nrst' = Op.to /\ UNCHANGED tristate
     \/ Running("tristate") /\ tristate' = Op.to /\ UNCHANGED nrst
  /\ Done
  /\ UNCHANGED <<pins, csPin, busy, wel, nprog, fpga, open, resets>>

\* PROG_B low clears the configuration of the FPGA.
SetNprog ==
  /\ Running("nprog")
  /\ nprog' = Op.to
  /\ fpga' = IF Op.to = "low" THEN "cleared" ELSE fpga
  /\ Done
  /\ UNCHANGED <<pins, csPin, busy, wel, nrst, tristate, open, resets>>

\* A chip that is busy takes no command but a status read; one whose WEL is
\* clear ignores erases and writes.
Command ==
  /\ Running("cmd")
  /\ wel' = [c \in Chips |->
               wel[c] \/ (c \in Reached /\ Op.cmd = "writeEnable" /\ ~ busy[c])]
  /\ busy' = [c \in Chips |->
               busy[c] \/ (c \in Reached /\ Op.cmd \in {"erase", "program"} /\ wel[c])]
  /\ Done
  /\ UNCHANGED <<pins, csPin, nrst, tristate, nprog, fpga, open, resets>>

\* The polling loops have no timeout: they end when the status bit allows it.
Poll ==
  /\ \/ Running("waitWel") /\ \E c \in Reached : wel[c]
     \/ Running("waitIdle") /\ \A c \in Reached : ~ busy[c]
  /\ Done
  /\ UNCHANGED <<pins, csPin, busy, wel, nrst, tristate, nprog, fpga, open, resets>>

ReadHeader ==
  /\ Running("ifBitstream")
  /\ \/ Done
     \/ \E n \in 1..MaxChunks : todo' = LoadFpga(n) \o Tail(todo)
  /\ UNCHANGED <<pins, csPin, busy, wel, nrst, tristate, nprog, fpga, open, resets>>

\* The FPGA is configured by the last chunk.
Send ==
  /\ Running("sendChunk")
  /\ fpga' = IF \E i \in 2..Len(todo) : todo[i] = SendChunk
               THEN "loading" ELSE "configured"
  /\ Done
  /\ UNCHANGED <<pins, csPin, busy, wel, nrst, tristate, nprog, open, resets>>

Processor ==
  SetPins \/ SetCs \/ SetFpgaLines \/ SetNprog \/ Command \/ Poll \/ ReadHeader \/ Send

\* The host hands over a block, the last of its session or not.
HandleBlock(c, last) ==
  /\ todo = << >>
  /\ \E n \in 1..MaxErases : todo' = ProgramBlock(c, n, last)
  /\ open' = [open EXCEPT ![c] = ~ last]
  /\ UNCHANGED <<pins, csPin, busy, wel, nrst, tristate, nprog, fpga, resets>>

FinishWork(c) ==
  /\ busy[c]
  /\ busy' = [busy EXCEPT ![c] = FALSE]
  /\ wel' = [wel EXCEPT ![c] = FALSE]
  /\ UNCHANGED <<todo, pins, csPin, nrst, tristate, nprog, fpga, open, resets>>

\* The processor alone is reset: its pins float and main starts over, while the
\* chips and the FPGA keep their state.
Reset ==
  /\ resets < MaxResets
  /\ resets' = resets + 1
  /\ todo' = Boot
  /\ pins' = {}
  /\ csPin' = "none"
  /\ nrst' = "released" /\ tristate' = FALSE /\ nprog' = "released"
  /\ open' = [c \in Chips |-> FALSE]
  /\ UNCHANGED <<busy, wel, fpga>>

Init ==
  /\ todo = Boot
  /\ pins = {}
  /\ csPin = "none"
  /\ busy = [c \in Chips |-> FALSE]
  /\ wel = [c \in Chips |-> FALSE]
  /\ nrst = "released"
  /\ tristate = FALSE
  /\ nprog = "released"
  /\ fpga = "cleared"
  /\ open = [c \in Chips |-> FALSE]
  /\ resets = 0

Next ==
  \/ Processor
  \/ \E c \in Chips : FinishWork(c) \/ \E last \in BOOLEAN : HandleBlock(c, last)
  \/ Reset

Spec == Init /\ [][Next]_vars

FairSpec == Spec /\ WF_vars(Processor) /\ \A c \in Chips : WF_vars(FinishWork(c))

-----------------------------------------------------------------------------
\* The peripheral is on the pins of one chip at most: those of the last one are
\* given back before others are taken (flash_util.c:124-189).
TypeOK ==
  /\ \A i \in DOMAIN todo :
       todo[i].do \in {"pins", "cs", "nrst", "tristate", "nprog", "cmd", "waitWel",
                      "waitIdle", "ifBitstream", "sendChunk"}
  /\ pins \in {{}} \cup {{c} : c \in Chips}
  /\ csPin \in Chips \cup {"none"}
  /\ busy \in [Chips -> BOOLEAN] /\ wel \in [Chips -> BOOLEAN]
  /\ nrst \in {"held", "released"} /\ tristate \in BOOLEAN
  /\ nprog \in {"low", "released"}
  /\ fpga \in {"configured", "cleared", "loading"}
  /\ open \in [Chips -> BOOLEAN]
  /\ resets \in 0..MaxResets

\* Both chips share the peripheral: a command is only sent when it reaches the
\* chip it is meant for and no other.
ReachesItsChip ==
  \A x \in {"cmd", "waitWel", "waitIdle"} :
    Running(x) => pins = {Op.chip} /\ Reached = pins

\* While the pins drive the firmware chip, the FPGA's software is in reset and
\* its I/O tristated, so that it does not drive the same wires.
FpgaOffFirmwareBus == "firmware" \in pins => nrst = "held" /\ tristate

\* No command is sent that its chip would ignore: none but a status read while
\* the chip is still erasing or writing (flash_util.c:356-357), and no erase or
\* page write without WEL.  A reset may leave a chip busy, and nothing waits for
\* it then: from there on this need not hold.
CommandsHeeded ==
  Running("cmd") /\ resets = 0 =>
    \A c \in Reached : /\ ~ busy[c]
                       /\ Op.cmd \in {"erase", "program"} => wel[c]

\* The erase and configuration of the FPGA alternate properly: data is only sent
\* to an FPGA that has been cleared since it was last configured.
SendsToClearedFpga == Running("sendChunk") => nprog = "released" /\ fpga # "configured"

\* Between two blocks PROG_B is never left low and, unless a firmware session is
\* open, the FPGA's software is out of reset and its pins are its own.
FpgaFreeWhenIdle ==
  todo = << >> => /\ nprog = "released"
                  /\ ~ open["firmware"] => nrst = "released" /\ ~ tristate

\* No polling loop is entered whose status bit never comes: boot and every block
\* end, unless a reset comes before.
OperationsEnd ==
  todo # << >> /\ resets = 0 ~> todo = << >> \/ resets > 0

=============================================================================
