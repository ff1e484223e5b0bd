--------------------------- MODULE MCFlashProgram ---------------------------
(* Small sets of UF2 files for the runs of FlashProgram. *)
EXTENDS FlashProgram

CONSTANTS bsA, bsB, bsC, fw, alien

\* Two bitstreams for slot 0, of three blocks (two clusters) and of one, the
\* second through a nibble past the last slot; one for slot 1; firmware of two
\* clusters for slot 1; and a file whose family ID the device does not know: that
\* of tests/bitstream.bit.uf2.
MCFamilyId ==
  [f \in Files |-> CASE f \in {bsA, bsB, bsC} -> SONATA_BITSTREAM_ID
                     [] f = fw -> SONATA_FIRMWARE_ID
                     [] f = alien -> 69471198]
MCNumBlocks ==
  [f \in Files |-> CASE f \in {bsA, fw} -> 3 [] f = bsB -> 1 [] OTHER -> 2]
MCNibble ==
  [f \in Files |-> CASE f \in {bsC, fw} -> 1 [] f = bsB -> 3 [] OTHER -> 0]

=============================================================================
