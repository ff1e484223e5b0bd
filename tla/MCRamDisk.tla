----------------------------- MODULE MCRamDisk -----------------------------
(* A small RAM disk: the three files of the firmware, two or four clusters  *)
(* more and one that is reported to the host but not held in RAM.           *)
EXTENDS RamDisk

MCRealClusters == 2..7
MCFarClusters == {9}
MCUserClusters == {3, 5, 7, 9}

MCDefault == [SPI_FLASH_SPEED |-> "default", SPI_FPGA_SPEED |-> "default"]

MCValues == {"default", "slow", "fast", Bad}

Line(o, v) == [option |-> o, value |-> v]

\* One line; a file that is rejected at its second line; one that is longer than
\* the default file, with a line that overrides another; one that does not fit a
\* sector of four lines.
MCTexts ==
  {<<Line("SPI_FLASH_SPEED", "slow")>>,
   <<Line("SPI_FPGA_SPEED", "slow"), Line("SPI_FLASH_SPEED", Bad)>>,
   <<Line("SPI_FLASH_SPEED", "slow"), Line("SPI_FPGA_SPEED", "fast"),
     Line("SPI_FLASH_SPEED", "fast")>>,
   <<Line("SPI_FLASH_SPEED", "slow"), Line("SPI_FPGA_SPEED", "slow"),
     Line("SPI_FLASH_SPEED", "fast"), Line("SPI_FPGA_SPEED", "slow")>>}

Setup(l, o, w) == [level |-> l, order |-> o, width |-> w]

MCSetups ==
  {Setup(1, "metadataFirst", 16), Setup(2, "metadataFirst", 12),
   Setup(4, "any", 16)}
LateDirectory == {Setup(1, "any", 16)}
DefaultBuild == {Setup(0, "any", 16)}

=============================================================================
