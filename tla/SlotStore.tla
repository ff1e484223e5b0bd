------------------------------ MODULE SlotStore ------------------------------
(***************************************************************************)
(* What the programmer promises, without blocks, buffers and erases: each  *)
(* chip has three slots, a slot holds one whole image or nothing usable,   *)
(* writing an image destroys the one before it, and the moment an image    *)
(* becomes whole is the moment the FPGA is loaded from the selected slot.  *)
(* FlashProgram implements this specification when the host copies files   *)
(* without cancelling or repeating anything.                               *)
(***************************************************************************)
EXTENDS Integers

CONSTANTS
  Images,    \* the images that can be written
  Chip,      \* Images -> the flash chip an image is for
  Place,     \* Images -> the slot an image is for
  Nothing,   \* no whole image
  Off, Bad   \* an FPGA without a bitstream, and one that failed to load it

Chips == {"bitstream", "firmware"}
Slots == 0..2

VARIABLES
  image,     \* [Chips -> [Slots -> an image, or Nothing]]
  writing,   \* [Chips -> the slot being written, or Nothing]
  fpga,      \* the image the FPGA runs, Off or Bad
  sel        \* the selected slot

vars == <<image, writing, fpga, sel>>

TypeOK ==
  /\ image \in [Chips -> [Slots -> Images \cup {Nothing}]]
  /\ writing \in [Chips -> Slots \cup {Nothing}]
  /\ fpga \in Images \cup {Off, Bad}
  /\ sel \in Slots

Init ==
  /\ image = [c \in Chips |-> [s \in Slots |-> Nothing]]
  /\ writing = [c \in Chips |-> Nothing]
  /\ fpga = Off
  /\ sel \in Slots

\* The FPGA is loaded from the selected slot; what is not a whole image leaves
\* it as it was or fails.
Load(before) ==
  fpga' \in IF image'["bitstream"][sel] = Nothing
              THEN {before, Bad} ELSE {image'["bitstream"][sel]}

Put(c, s, i) == image' = [image EXCEPT ![c][s] = i]

\* The first block of an image: the slot is erased, the FPGA too.
Begin(i) ==
  LET c == Chip[i] IN
  /\ writing[c] = Nothing
  /\ writing' = [writing EXCEPT ![c] = Place[i]]
  /\ Put(c, Place[i], Nothing)
  /\ fpga' = Off
  /\ UNCHANGED sel

\* The last block of an image.  Only an image of a single block is begun and
\* ended at once.
Finish(i) ==
  LET c == Chip[i] IN
  /\ writing[c] \in {Place[i], Nothing}
  /\ writing' = [writing EXCEPT ![c] = Nothing]
  /\ Put(c, Place[i], i)
  /\ Load(IF writing[c] = Nothing THEN Off ELSE fpga)
  /\ UNCHANGED sel

Select(s) ==
  /\ sel' = s
  /\ UNCHANGED <<image, writing, fpga>>

\* A power cut ends every write.  It may lose the image about to be replaced,
\* or come after the last block was written and before the FPGA was loaded.
PowerCycle ==
  /\ \/ UNCHANGED image
     \/ \E i \in Images :
          \/ writing[Chip[i]] = Nothing /\ Put(Chip[i], Place[i], Nothing)
          \/ writing[Chip[i]] \in {Place[i], Nothing} /\ Put(Chip[i], Place[i], i)
  /\ writing' = [c \in Chips |-> Nothing]
  /\ Load(Off)
  /\ UNCHANGED sel

Next ==
  \/ \E i \in Images : Begin(i) \/ Finish(i)
  \/ \E s \in Slots : Select(s)
  \/ PowerCycle

Spec == Init /\ [][Next]_vars

=============================================================================
