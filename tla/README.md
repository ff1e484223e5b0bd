# Verification of the Sonata RP2040 firmware

The Sonata board carries an FPGA, two SPI flashes (one for FPGA bitstreams, one for the
firmware of the processor in the FPGA) and an RP2040 that shows up on the host as a USB
drive. Copying a UF2 file to the drive programs a flash and reloads the FPGA. This directory
holds TLA+ models of that program, the TLC runs that check them and proofs of the main
results. All line numbers are those of the sources in `usb_msc/`.

## 1. Inventory

### Components

| Component | State | Operations | Correct when |
|---|---|---|---|
| UF2 flash programmer (`msc_disk.c:219-333`) | one `flash_prog_state` per flash: `in_progress`, `blocks_left`, `offset`, `block_size` | `flash_program_uf2`, once per buffer of the write callback | a file that was copied is in its slot, nothing else is touched, the FPGA is loaded when and only when an image is complete |
| FPGA loader (`main.c:199-232`, `fpga_program.c`) | PROG_B, the configuration port, `TEST_RD_BUF` | `startup_program_bitstream`, `fpga_erase`, `fpga_program_init`, `get_bitstream_length` | the FPGA runs what the selected slot holds, or nothing; data is only sent to a cleared FPGA |
| SPI flash driver (`flash_util.c`) | the pins of the peripheral, `SPI_FLASH_CS_PIN`, BUSY and WEL in the chips | `bitstream_init_spi`, `firmware_init_spi`, `release_spi_io`, write enable, erase, page program, read, polls | each command reaches the chip it is for, none is sent to a busy chip, the FPGA is off the wires that are driven |
| RAM disk (`fat_util.c`, `msc_disk.c:108-130, 335-423`) | boot sector, FAT, root directory, 16 clusters | `tud_msc_read10_cb`, `tud_msc_write10_cb`, `is_reserved_cluster`, `get_file_cluster`, `write_file_info` | files read back as written; UF2 data is programmed wherever the host puts it; the firmware finds its own files and writes into no others |
| Options (`config.c`) | `CONFIG` and its dirty flag | `parse_config`, `set_default_config`, `write_config_to_file` | `CONFIG` is what a saved, valid OPTIONS.TXT says, else the defaults |
| Log (`error.c`) | `err_file_size`, `err_file_entry`, the cluster of LOG.TXT | `print_err_file` | the log stays in its file and keeps its directory entry |
| Boot (`main.c:234-307`) | - | the setup, then the loop that polls USB | every session and the FPGA start from a known state |
| CRC (`crc32.c`) | none | `crc32c`, over chunks | the CRC that is logged for a bitstream is that of all of it |
| UF2 and ELF helpers, USB descriptors, LEDs, tests | none that others depend on | pure functions, constant tables | - |

### How they interact

Everything runs on one core. After `main` has finished, code runs only in callbacks of the
USB stack, each to its end. The host decides which sectors are written and in which order;
the callback sends everything that is not a cluster of the firmware's own files to the
programmer, and stores what fits in RAM. The programmer switches one SPI peripheral between
the two flashes, block by block, and ends a session by calling the loader, which uses the
same peripheral. Every `PRINT_*` writes into the RAM disk that the host writes too.

### What is hard

- *Ordering.* The clusters of a file come in any order; so do the FAT, the directory and the
  data. The programmer relies on a count, the options on the directory being there first.
- *Interleaving.* Two copies share bus, FPGA and callback; two of one kind share a session.
- *Protocol.* Only the last block closes a session: a copy that is cancelled leaves it open.
- *Failure.* Power may fail in an erase or a write; the processor may be reset while a chip
  works; the polling loops have no timeout.
- *Boundaries.* A buffer, a page, a call, a cluster and the end of the RAM all cut what the
  host sends, and each cut is decided from the first byte or sector of a piece.
- *Stale state.* The options are parsed with the directory of the moment, the switch is read
  at the end of a copy, `err_file_entry` is a copy made at the last line of the log.

`PROJECT.json` lists these hazards with their lines and the properties that cover them.

## 2. Modules

| Module | Models | State and its place in the code |
|---|---|---|
| `FlashProgram` | programmer and loader, with every host and power cuts | `in_progress`, `blocks_left`, `offset` of `flash_prog_state`; `flash`, the chips by pages; `buf`, the buffer of the callback |
| `SlotStore` | abstract: what the programmer promises of a slot | `image`, `writing`, `fpga`, `sel` |
| `SpiBus` | the driver below it: pins, chips, FPGA lines | `todo`, what is left of the running operation; pins, `csPin` (`SPI_FLASH_CS_PIN`), BUSY, WEL, PROG_B |
| `BitstreamLoad` | the loader, byte by byte, with its search for a length and its CRC | `flash`, `left` (`bs_len`), `addr` (`flash_addr`), `fpga`, `crc` |
| `ImageWrite` (EXTENDS it) | one copy, byte by byte: payload sizes, pages, verification, a failing chip, and the load at its end | `session` (`in_progress`, `blocks_left`, `block_size`), `written` (`bytes_written`), `reported` |
| `RamDisk` | write callback, options and log, with the host's cache | `fat`, `dir`, `data`, `config` and `dirty` (`CONFIG`), `err` (`err_file_entry`, `err_file_size`) |
| `DiskCalls` | read and write callbacks by sectors, transfers cut into calls | `mem`, the disk and what lies behind it; `own`, where the firmware has written over it; `files`; `dirty`; `transfer` of the host |
| `OptionSyntax` | `parse_config` symbol by symbol | `text`, `pos` (`cur_line`), `config` |
| `FlashProgram_proofs`, `SpiBus_proofs`, `RamDisk_proofs`, `DiskCalls_proofs`, `BitstreamLoad_proofs`, `ImageWrite_proofs`, `OptionSyntax_proofs` | the theorems | - |
| `Folding` | lemmas about recursive functions and sequences that the last three share | - |
| `MCFlashProgram`, `MCRamDisk`, `MCImageWrite`, `MCOptionSyntax` | small instances | - |

The modules divide the program by what they abstract. `FlashProgram` has pages as units, so that it
can have several files, hosts and power cuts; `ImageWrite` has bytes, and one file. `RamDisk`
has one call per area of the disk, so that it can have the order in which a host writes back; `DiskCalls`
has sectors, and says for which transfers a call per area is what happens. `RamDisk` parses
whole lines, `OptionSyntax` has the lines' characters.

**`FlashProgram`.** A page of 256 bytes is the payload of a block. It is erased, holds block *n*
of file *f*, or is mixed (written without an erase, or torn). `ProgramBlock` is one turn of the
loop of `flash_program_uf2` with everything it calls; the host, the switch and the power act
between turns only where the code lets them: the host sends nothing before a callback has
returned, power may fail in the middle of any erase or write. `HostOverlap`, `HostMayAbort` and
`HostMayRepeat` say how the host behaves.

**`SlotStore`.** A slot holds a whole image or nothing usable; an image is destroyed when another
is begun, and becomes whole in the step that loads the FPGA. `FlashProgram` implements it for a
careful host (`ImplementsSlotStore`), with the image of a slot computed from the pages and the
slot being written from the session.

**`SpiBus`.** An operation is the sequence of what it does to pins and chips, built as the
functions are: by concatenation in call order. A chip may end its work between two steps, and
the processor may be reset between any two. A pin is driven or let go as the macros of the code do it:
PROG_B and the reset of the software are never driven high, but made inputs (`FPGA_NPROG_HIGH`). BUSY and WEL follow the data sheet as far as the
code relies on it. `Boot` is `main` up to the USB loop.

**`BitstreamLoad`.** A byte is the set of its one bits, so that flash can AND. `ReadHeader` is the
code up to the loop: the search for a byte 0xFF and the sync word behind it, backwards over the
padding to the length, its byte order and its sum in 32 bits; `SendChunk` is one turn of the loop.

**`ImageWrite`.** `Block` is `flash_program_uf2` up to the write, with the erase whose size and
the address whose factor come from the block in hand and the first one; `WritePiece` is one turn of
`spi_flash_write_buffer` and the bound that the page program itself checks;
`VerifyAndCount` is the comparison and the count. A failing erase or program leaves one byte
as it was. The file's blocks come in any order, onto a flash that held anything.

**`RamDisk`.** An area is what one call writes: the FAT, the root directory or a cluster. The host
has its own copy of the disk, edits that and writes areas back. `WriteRam` is the whole
callback: reserved or not, programming, the copy into RAM, the entry of the log, the parse.
`setup` is the build (the log level) and the host (the order it writes in, and the width of the
FAT entries it writes: the firmware reads 16 bits, and a FAT of so few clusters has 12).
The root directory is searched for the names, and a file is found only if its FAT entry is not
free. OPTIONS.TXT is a sequence of lines, a line an option and a value, a value possibly one
that is rejected; sizes are counted in lines. Where the old size ends the new text, the cut may
fall within a line (`Terminated`). `ParseLine` is one turn of the loop of `parse_config`: it stores the
option in `CONFIG` itself, or stops at a bad value with what the lines before have stored;
`NewConfig` is what the callback does with the result. A file of the size of a sector is not read.

**`DiskCalls`.** The content of a sector is the number of the transfer that wrote it. `Begin` is
the host's transfer, `Read10` and `Write10` a call each: inside the RAM or not, reserved or not,
both from the first sector. Memory behind the disk is part of the state, as far as a call
that begins inside can reach. The callback itself writes the entry of LOG.TXT into the directory, ends
the text of the options and prints lines into the log, with padding up to the next cluster:
`own` has the sectors of the disk where the firmware's bytes are now over the host's, without their content.

**`OptionSyntax`.** A symbol is a character, or one of the words that `strncmp` and `memcmp` look
for as a whole; sizes are in characters. `Parse` is the entry of `parse_config`, with the bound of
one sector on the size and the terminator, which may fall inside a word;
`ParseOption` is one turn of its loop, with its errors. `Strtoul` is the C function
with base 0.

Operators named `Mut...` are mutants: plausible mistakes in the definition after them. No
action uses them; each shows, substituted for its definition, that a property can fail.

## 3. Runs

| Run | Question | Result |
|---|---|---|
| `FlashProgram_overlap` | a bitstream and a firmware copy interleaved, power cut anywhere | images whole, sessions exact, no page mixed, `SlotStore` implemented, every session ends |
| `FlashProgram_sequential` | one copy at a time, for two slots and both chips, two power cuts, a file of unknown family | the FPGA is erased as long as a session is open; no other slot is touched |
| `FlashProgram_any_host` | copies cancelled, repeated, two of a kind at once | the count never wraps around; the FPGA runs what its slot holds |
| `SpiBus` | boot and blocks for both chips, two resets | commands reach their chip and are heeded; FPGA off the firmware bus; every operation ends, up to the first reset |
| `ImageWrite` | six files with blocks of half a page to two pages, any order, arbitrary old flash, one failure | flash and FPGA get the file or an error is printed; no error without a failure; the loader sends what a header says |
| `RamDisk` | three setups: only critical lines and metadata first; errors too and a 12-bit FAT; INFO and any order | options take effect; every UF2 cluster is programmed; files read back; the log keeps its entry; no file is applied up to a bad line |
| `DiskCalls` | every two transfers anywhere on the reported disk | reads return what was sent, with the firmware's bytes over it only where the code puts them; the right sectors go to the programmer; the options are parsed after their last sector; nothing behind the RAM is written - each for the transfers its condition names |
| `OptionSyntax` | every file of up to two lines, plain and malformed, shorter or longer than a sector, cut at any size | plain files smaller than a sector mean what they say; a cut never leaves part of a value; what is checked is what is converted; the parser ends |

Four runs show where the code does not do what its documentation or comments say:

- `FlashProgram_abort` - after a cancelled copy, the next file of that kind is written with
  the old session's slot and count, without an erase (`msc_disk.c:268`).
- `FlashProgram_both` - with two copies at once the FPGA is reloaded while the other flash is
  still being programmed (`msc_disk.c:324-329`, README.md:13-14).
- `RamDisk_late_directory` - options saved with the data before the directory entry are cut
  or ignored (`msc_disk.c:346-350, 406`).
- `RamDisk_default_build` - a build without `-DDEBUG_LEVEL` logs nothing, so `err_file_entry` is
  still all zeros when the first write copies it into the directory (`msc_disk.c:399`).

More are seen by changing a constant or dropping a condition. Every condition in a property is
there because of one of these:

- With `HostMayRepeat = TRUE` the overlap run refutes `LastBlockCompletes`: a repeated
  cluster is counted twice.
- `WritesToSelectedSlot` as a PROPERTY of any `FlashProgram` run fails: the slot that is written
  comes from the target address, not from the select switch (`msc_disk.c:289`, README.md:18-21).
- `CommandsHeeded` without `resets = 0`: a reset during an erase leaves the chip busy and nothing
  waits for it. WEL is still set then, so that the poll after the write enable passes and
  the next erase is ignored.
- `Uf2Programmed` without its order: data for a cluster that was just freed by deleting
  README.TXT or OPTIONS.TXT is taken for that file if it comes before the directory.
- `ReadsBack` for a build that logs errors, with a 16-bit FAT: the padding of the log overwrites the
  cluster behind LOG.TXT (`error.c:34`). A FAT of 12 bits hides this from a host that takes the
  cluster for allocated, as the ten bytes of the first FAT say; one that frees it and puts a file
  there loses that file, so `ReadsBack` leaves out that cluster.
- `ConfigCurrent` without its width: with a 12-bit FAT an OPTIONS.TXT that has moved looks
  unallocated to `get_file_cluster`, and its options are never parsed. The disk reports 15369 sectors,
  3840 clusters, less than the 4085 from which on a FAT has 16 bits.
- `ConfigCurrent` without `RealClusters`: options in a cluster beyond the RAM are parsed from
  memory behind it (`config.c:119`).
- `NoSilentDamage` and `NoFalseAlarm` without `Regular`: blocks of three bytes in pages of four
  are erased and addressed well, but a piece that does not start on a page is split where the
  whole length and not the rest is compared with the page (`flash_util.c:473`). A short last
  block that comes first makes every address wrong (`msc_disk.c:272`). The first may damage the
  image without an error and print one without a failure; the second ends with an error.
- `LengthFromHeader` without `Header[0] # Erased`: with the padding at the first byte the search
  goes below 0 and wraps around in 16 bits (`fpga_program.c:138`): the length is read from anywhere.
- `ConvertsWhatItChecked` says nothing of a line without a digit: an empty value is accepted, and
  `strtoul` takes the number of the next line (`config.c:94`); a name without "=" takes the value
  behind the next one (`config.c:25`). Everything that begins with 0 is rejected, 0 itself and
  hexadecimal values included (`config.c:77-88`).
- `PlainFileRead` with the size of a cluster in the place of a sector, as the comment on `parse_config` has it
  (`config.c:100`): the code rejects files from one sector on (`config.c:114`), and the callback
  then takes the defaults. It fails in the run for two plain lines of 20 characters each.
- `OffersFreeSectors` and `OptionsParsed` without `OnGrid`: a transfer that begins in the
  directory and goes on into cluster 2 is judged, call by call, by its first sector.
- `InsideRam` and `ReadsWhatWasSent` without `EndsWithRam`: a call that begins before the end of the
  RAM copies behind it (`msc_disk.c:398`). With the real geometry (9 sectors of metadata, 16
  clusters of 4, 73 sectors in RAM, 4 to a call) a transfer read or written from sector 0 on has a call
  at 72..75.
- `InsideRam` without `OptionsInRam`: the terminator of an OPTIONS.TXT beyond the RAM is written into the
  memory there (`config.c:119-120`).
- `ReadsWhatWasSent` without `OwnSectors`: a host never reads the directory it has sent, but that with
  the device's entry of LOG.TXT (`msc_disk.c:399`).
- `ConfigWhole` without `~ dirty`, for a host that writes the directory first: options that went beyond the RAM
  leave `CONFIG` dirty, and the next write of any area parses what the RAM then has in the
  cluster that the new directory names, before the host has sent it (`msc_disk.c:387, 406`).

### Bounds

*FlashProgram.* Two to four files per run, of one to three blocks, two blocks to a buffer, erase
blocks of two pages, slots of four. So a file may have one or two clusters, a last erase block
half used and a slot larger than the file; both chips and two slots are used, two files share a
slot, and one takes the `slot > 2` branch. One or two power cuts put a cut before, in and
after each erase and write, and a second copy behind it.

*SpiBus.* At most two erases and two chunks: one that is followed by another and one that is
the last; two resets give a reset during the boot after a reset. The theorems need none of these.

*ImageWrite.* Bytes of two bits give all that is compared: 0xFF, a byte that differs in one bit, 0.
Pages of four bytes and erase blocks of eight make a block smaller than, equal to and larger than a
page, and an image larger than an erase block. The seven bytes that are searched for a header hold
every value, so that every header, torn or misplaced, is tried on the old flash. One failure:
a second can only hide where the first is reported.

*RamDisk.* Two free clusters and one beyond the RAM, and three edits: enough to move OPTIONS.TXT,
reuse its cluster and move it again. A log of three units with lines of up to two fills up within
two lines. A sector has four lines, and there are four texts: of one line; with a bad second line
behind a good one; of three lines, one overriding another, longer than the default file; and of four
lines, too many for the sector.

*DiskCalls.* Three sectors of metadata, two to a cluster, four clusters in RAM of six reported (the
log and the cluster behind it are the last two in RAM),
calls of two sectors and transfers of up to five: three calls, one of them short, from every
sector, and a RAM that does not end on a call. Two transfers: one to write and one to read or to write
over it. The theorems hold for every geometry.

*OptionSyntax.* Two lines: one whose value ends at, or runs into, the next. Lines have up to 21
characters, and a sector 40, so that of two plain lines some fit and some do not. The digits 0, 1, 5, 9 are
a prefix, an octal digit, the largest kind of both and one that is only decimal.

### Fairness

`FlashProgram` assumes that a callback that has begun goes on (weak fairness of the block
steps: nothing can interrupt the loop but a power cut), and that a host that has begun a copy
sends each cluster and ends the copy. Sending a cluster of one file is disabled while a buffer of
the other is handled, hence strong fairness for it. Cancelled copies are outside
this: a session then need not end. `SpiBus` assumes that the processor runs and that a busy
chip finishes; it assumes nothing about resets. `OptionSyntax` assumes that the parser, once it
runs, goes on: it is one call.

Deadlock is not checked in `SpiBus` (after a reset a polling loop may wait for ever), and in
`RamDisk`, `ImageWrite`, `OptionSyntax` and `DiskCalls`, where a bounded input - edits, one file,
one text, transfers - is used up.

## 4. Proofs

**`FlashProgram_proofs`**, for every set of files and all sizes that satisfy the assumptions
of `FlashProgram`, and for any number of power cycles:

| Theorem | Host | Statement |
|---|---|---|
| `TypeCorrect` | any | `TypeOK` |
| `CountsPositive` | any | `BlocksLeftPositive` |
| `RunsSelected` | any | `FpgaRunsSelected` |
| `Careful` | careful | `CarefulInv` |
| `WholeImages` | careful | `WholeImage` |
| `SessionsHaveCopies` | careful | `SessionHasCopy` |
| `LastBlocksComplete` | careful | `LastBlockCompletes` |
| `NothingMixed` | careful | `NeverMixes` |
| `OwnSlotOnly` | careful | `TouchesOwnSlotOnly` |
| `FpgaErased` | careful, no overlap | `FpgaErasedInSession` |
| `PagesPlaced` | careful | `SlotInv` |
| `SlotsImplemented` | careful | `ImplementsSlotStore` |

*Careful* (`CarefulHost`) is a host that neither cancels nor repeats nor copies two files of a
kind at once; the violation runs show why the theorems need it.

Assumptions: a file has at least one block and fits its slot (`FilesAssumption`), and the 64 KB
blocks it covers lie in the slot (`ErasureAssumption`; it holds for 10 MB slots, a multiple of
64 KB). The rest says that the special values differ from the files and from each other.

*Argument.* `WholeImage` is not inductive: it says nothing of a copy under way. `CarefulInv`
adds what a session knows. The blocks of a copy that are *pending* are those the host still has
and those in the buffer. `SessionsExact`: an open session has the offset of its copy,
`blocks_left` is the number of its pending blocks, their pages are erased and all other pages
of the file hold its data. `CopiesExact`: a copy without a session has all its blocks pending
or none, and then is whole. `CopiedSafe`: no active copy is for the slot of a copied file.
So when the count reaches zero nothing is pending and the file is whole; this is
`LastBlockCompletes`, and because a block's page is pending until it is written, it is erased
when it is written (`NeverMixes`). One lemma per action shows that `CarefulInv` is preserved;
confinement of erases, torn erases and page writes to a slot is proved apart and used for
both `CopiedSafe` and `TouchesOwnSlotOnly`.

That `SlotStore` is implemented needs one more invariant. The store's image of a slot is computed from
the pages: it is file *f* if they hold *f* from the slot's first page on. A step that writes elsewhere
must not complete such an image, which `CarefulInv` does not exclude. `SlotInv` adds that every page
holding a block of a file is at the place of that block (`Placed`): then an image can only become
whole in its own slot, in the step of its last block, and only that slot's image is destroyed by an
erase. One lemma per action shows that it is a step of the store or leaves what the store shows
as it was; a power cut is one that loses what was being written. TLC checks `SlotInv` in the overlap run.

**`SpiBus_proofs`**, for any number of erases, chunks, blocks and resets (`BoundsAssumption`
only says that the bounds are numbers):

| Theorem | Statement |
|---|---|
| `TypeCorrect` | `TypeOK` |
| `OffFirmwareBus` | `FpgaOffFirmwareBus` |
| `ReachesChip` | `ReachesItsChip` |

*Argument.* What the bus will do next is in `todo`, whose length has no bound, so the invariant is
about `todo` (`Settled`): each step in it finds what it needs, either in the steps right before it or,
near the front, in the state of the pins (`Fits`). A step that takes a chip's pins needs them all given back, so that
never two chips' pins are driven (`TypeOK`); one that takes the firmware's pins needs the
reset and the tristate before it; one that lets the FPGA go needs the pins given back; one that uses the
bus for a chip needs that chip's pins and chip select, and no switch since. A sequence that needs
nothing of the state is *sound*; one that leaves pins and lines alone and uses one chip is *quiet*. Sound
sequences can be concatenated, quiet ones repeated and put behind a switch to their chip; that is
how each operation of the driver is shown to be sound, in the order in which it is defined.
`Advance` says that taking the first step keeps `Fits`, `Insert` that a bitstream's load may be put in
place of the test for its header.

The FPGA and the commands, with the same assumptions:

| Theorem | Statement |
|---|---|
| `FpgaFree` | `FpgaFreeWhenIdle` |
| `SendsCleared` | `SendsToClearedFpga` |
| `CommandsTaken` | `CommandsHeeded` |

*Argument.* `DriverInv` says of each step in `todo` what is true when the processor arrives at it:
the level that was last written to a pin, by an earlier step or before (`EndsRight`, for the end of the
operation); that PROG_B has been low since the FPGA was last configured (`SendsReady`); and, up to the
first reset, that an erase or a page write has the wait for WEL right before it and the wait for BUSY
right behind (`WorkGuarded`), and a chip is busy only while the processor is at that wait. What an
operation leaves behind is the last value it writes, so the lemmas about concatenation say which of two
parts wrote last. TLC checks all of these properties in the run `SpiBus`.

**`RamDisk_proofs`**, for every set of clusters and texts, every bound on the edits, and every order
of writes or, where it says so, for a host that writes FAT and directory before data:

| Theorem | Host | Statement |
|---|---|---|
| `DiskTyped` | any | `TypeOK` |
| `LogKept` | any, in a build that logs its critical lines | `LogEntryKept` |
| `ConfigNeverHalf` | any | `ConfigWhole` |
| `OptionsTaken` | metadata first | `ConfigCurrent` |
| `Uf2Given` | metadata first | `Uf2Programmed` |
| `FilesReadBack` | metadata first | `ReadsBack` |

The last three have the order of the host as a condition in the property. `LogKept` assumes a log
level of at least 1, as every setup of the run has; `RamDisk_default_build` shows why.

*Argument.* `RamInv` relates the device to the host's copy. FAT and directory are the same on both sides
unless they are to be written back (`InStep`), and so are the clusters, but for those the log may
write over (`ReadsBack`). The host's files have
clusters of their own (`FilesApart`). So the cluster in which the firmware finds OPTIONS.TXT, once
FAT and directory are written, is the one the host means, and a write to it is parsed with its
whole text (`OptionsInv`); a cluster of a UF2 file belongs to none of the firmware's files, so that it is
searched (`Uf2Inv`). At most two lines are logged at a time: that is why the fold over the lines
can be unfolded in a proof. For `ConfigWhole` the loop of the parser has to be followed: after any number of
rounds the options hold what the lines so far say, or the parser has stopped at the first bad one
(`ParserRounds`), hence `ParserSays`.

**`DiskCalls_proofs`**, for every geometry in which a cluster is a whole number of calls
(`GeometryAssumption`; it is one call in the code), the log and the cluster behind it are in the RAM, and for every length and number of transfers:

| Theorem | Statement |
|---|---|
| `TypeCorrect` | `TypeOK` |
| `ReadsRight` | `ReadsWhatWasSent` |
| `StaysInsideRam` | `InsideRam` |
| `OffersRight` | `OffersFreeSectors` |
| `OptionsUpToDate` | `OptionsParsed` |

*Argument.* `TransferInv`: a transfer has come as far as a whole number of calls, or to its end.
`DiskInv`: the disk differs from what the host has sent only in the sectors of a write that are
still to come. `OwnInv`: the firmware's bytes are only where the code puts some (`OwnGrows`), and the
directory has them unless a write of it is still to come. With these, `CallInside` shows that no call crosses the end of the RAM unless the
transfer does so off its calls' boundaries, and `CallInCluster` that on the grid a call stays in the
cluster of its first sector, which is all the callback looks at. `ParseInv`: as soon as a call has
written a sector of OPTIONS.TXT, what was parsed is the text that is in memory; a call that writes no
sector of it leaves it, because on the grid every call of its cluster is judged by a sector of it.

**`BitstreamLoad_proofs`**, for every sync word, every size of buffer, header and length, and every
CRC table:

| Theorem | Statement |
|---|---|
| `OffsetInBuffer` | in a buffer that does not begin with padding the search ends inside it, with the length in front of the sync word |
| `FindsLength`, `LengthFound` | the length of a proper header is found where it is, whatever its bytes; with it, all of the bitstream |
| `CrcOfChunks` | the CRC of chunk after chunk is that of all the bytes |

The assumption on the sync word (`LoadAssumption`) is what is true of the bytes 00 00 00 BB 11 22 00 44 that
the code searches (`fpga_program.c:119-121`): none is 0xFF, and there are not fewer of them than
of the length. If it were shorter it might be found in the length itself.

**`ImageWrite_proofs`**, for flash, pages, erase blocks, payloads and files of any size, blocks in any
order, any number of failures of the chip and whatever the flash held:

| Theorem | Statement |
|---|---|
| `TypeCorrect` | `TypeOK` |
| `BitstreamSent` | `SendsBitstream` |
| `LengthOfHeader` | `LengthFromHeader` |
| `NoDamageUnseen` | `NoSilentDamage` |
| `NoAlarmUnfounded` | `NoFalseAlarm` |
| `FileReachesFpga` | `FpgaGetsFile` |

`WriteAssumption`: erase blocks are whole pages, and a file has a block, fits into the flash and into
the 32 bits of `uf2_get_filesize`, by the payload of each of its blocks.

*Argument.* `LoadInv` says of a load that what was sent is the flash up to `flash_addr`, and the CRC
that of what was sent; a write in the meantime begins with an FPGA that is erased. `SessionInv` ties the
count to the blocks the host still has. In a regular file the slots of the blocks lie one behind the
other (`Apart`), and the pieces of a payload stay in its slot, each in one page (`PieceInSlot`): a block is
part of a page, or begins one. So a piece changes no byte of another block, even when it fails, and
blocks once compared are still what they were when the session ends (`SentInv`); put together they are
the image (`ImageBytes`, `StoredWhole`). As long as the chip has not failed, the blocks still to
come are erased (`CleanInv`, from `EraseCovers`), so ANDing their bytes into the flash stores them and the
comparison succeeds. For the FPGA, the header in the flash is the one in the file: its sync word, which is
not 0xFF, is inside the file.

**`OptionSyntax_proofs`**, for lines of any symbols, length and number, cut at any size:

| Theorem | Statement |
|---|---|
| `TypeCorrect` | `TypeOK` |
| `ConvertsChecked` | `ConvertsWhatItChecked` |
| `PlainRead` | `PlainFileRead` |
| `CutsBetweenLines` | `CutBetweenLines` |

`OptionAssumption` says that the lines are symbols, that CONFIG held numbers before and that the size of a
sector is one. `PlainFileRead` is about files smaller than a sector, whatever its size.

*Argument.* A position that a search returns is characterised, and shown to be the only one of its kind
(`FirstInType`, `FirstIs`, and `SkipType`, `SkipIs` for the scans); everything else is about positions.
`Converted`: where the check passes, `strtoul` starts at the digit it saw, which is not 0, takes
base 10 and stops where the check did. `ReadAsSaid` is the invariant of the loop: some lines have been read
whole, CONFIG is what they say, and no name is left between the parser and the end of the last of them
(`Behind`). One turn of the loop (`LineRead`) then finds the name of the next line at its start,
or the text ends before its "=". `DigitsRead` is the reason that a cut does no harm: a number that the
text ends within is followed by no end of a line, so that the check rejects it. The offsets of
the lines in the file come from `Located`.

The folds of the community modules (`FoldLeft`, `FoldSet`, `FlattenSeq`) are recursive functions. That they
have a value is proved by induction on the size of the set (`Recursion` in `Folding`), and what
the CRC, the image, a number and the words of a file are then follows from their recursion (`CrcTrace`,
`Flattened`, `InBaseType`, `SaysTrace`).

Only model-checked: liveness (`SessionEnds`, `OperationsEnd`, `ParserEnds`), which is out of the
prover's reach, as is everything about ENABLED. Every invariant and action property of a run that passes is
a theorem. The violation runs are checks by nature.

## 5. Not modelled

- Functions nothing calls: `get_files_in_directory`, `get_first_file_in_dir`,
  `is_cluster_in_chain`, `dir_fill_req_entries`, `is_folder`, `cluster_to_sector`,
  `firmware_calc_crc`, `fpga_flash_calc_crc32`, `uf2_is_last_block`, `uf2_get_sha`, the DMA
  helpers of `fpga_program.c`; and the chip erase, sector erase, ID and extended address
  commands, which only tests call.
- Blocks with `numBlocks` 0; the overflow of `strtoul`; sub-directories, which the firmware never
  searches; the digits, dates and wording of the log.
- The ELF magic number, which is only logged. USB descriptors and the configuration of the USB
  stack, which are constants, and the stack itself, which is a submodule; of the SCSI callbacks only
  those that read and write. LEDs. The tests.

## 6. Plan

1. Done: all modules of section 2 and the theorems of section 4.
2. Done: `FlashProgram` implements `SlotStore`; all invariants and action properties of the runs,
   those of `OptionSyntax` with it.
3. Compose `RamDisk` with `FlashProgram`: the clusters that reach the programmer as its buffers.
