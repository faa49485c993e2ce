# Verification of the IncludeOS port to the Raspberry Pi 3B+

The repository holds a multiboot/ELF loader (`elf-boot`), an experimental ELF
reader (`elf-parser`), the Raspberry Pi drivers written for the port
(`intermediate_stuff`: SD card, block device, MMU, GPIO, UART, mailbox, frame
buffer, delays) and reports. Everything runs on the boot core with interrupts
off and polls; what is concurrent is the hardware, which changes registers
between any two accesses of the driver. This directory models the programs in
TLA+ and checks the models with TLC and TLAPS. Paths below are relative to
`src/`.

## Inventory

### SD card driver - `intermediate_stuff/emmc/sd.c` (and the copy in `uart_and_sd/sd.c`)

State: the EMMC registers STATUS, INTERRUPT, CMDTM, ARG1, RESP0, BLKSIZECNT,
DATA, CONTROL0/1; the globals `sd_scr`, `sd_rca`, `sd_err`, `sd_hv`; the card's
own state behind the controller. Operations: `sd_status` and `sd_int` (polling
loops with a countdown of 1000000), `sd_cmd` (which calls itself for
CMD_APP_CMD), `sd_readblock`, `sd_writeblock`, `sd_clk`, `sd_init`. Interaction:
`Rpi_Emmc` (`emmc.cpp`) calls `sd_init`, `sd_readblock` and `sd_writeblock`;
`sd.c` calls `wait_msec` and `wait_cycles` of `delays.c`.

What is hard: each poll races the controller; an event may be raised after the
poll for it was given up, or together with the one waited for; an error bit may
be latched when nobody polls; `sd_err` survives from the nested call of
`sd_cmd`; a multi-block transfer is ended by the controller (block count), by
the card (SET_BLOCKCNT) and by the driver (STOP_TRANS), depending on two flags
of the card.

What makes it correct: an answer is taken for the command it belongs to; an
application command follows an accepted prefix; a read that reports success
returned the blocks of the card, a write that reports success has put the
blocks on the card; a failure is reported and not remembered for ever; every
call returns, whatever the controller does; after `sd_init` succeeds, driver,
controller and card agree on bus width, addressing and state.

### Block device - `intermediate_stuff/emmc/emmc.cpp`, `emmc.hpp`

State: `id_`. Operations: `read_sync`, `write_sync` (call the driver), `read`,
`write` (empty), `size`, `block_size`. Correct when a buffer handed to the file
system holds what is on the card, or the call fails.

### Boot loader - `elf-boot/`

`main.c` (`main`: search, save the device tree, load, start), `multiboot.c`
(`multiboot_search`, `multiboot_explain`, `multiboot_boot`), `move.c` (`move`,
the forward byte copy with its overlap check), `test.S` (park cores 1-3, drop
to EL1, vectors), `exc.c` (report an exception and stop), `uart.c`, `mbox.c`,
`printf.c` (vendored). State: the memory image (loader, embedded kernel image,
device tree at DTB_START), the header fields, the mailbox buffer. What is hard:
the copy may overlap its source, its own code or the device tree; header fields
may be 0; the arithmetic mixes 32 and 64 bits and `int`. Correct when at the
jump the load region holds the file's bytes, the bss is zero and the device
tree is unharmed.

### Start-up - `elf-boot/test.S`, `uart_and_sd/start.S`, `exc.c`

State: of each core its place, level, stack pointers and vectors; the bss. All
cores begin at `_start`, one goes on. The level a core starts at is the firmware's
choice. Correct when `main` runs on one core, at EL1, with a stack and a cleared
bss, and when a fault reaches `exc_handler`.

### printf - `elf-boot/printf.c`

A vendored library that the loader prints with, changed for it. State: the index into a
buffer of the caller's length, and the buffer of 32 digits. Correct when it never writes
past either and prints what the C standard says of a format.

### ELF reader - `elf-parser/`

`parser_check_magic`, `parser_init64`, `parser_init`, and its own search of the multiboot
header. A program of the host; its search differs from the loader's (byte steps, last
match). Correct when what it says of a kernel is what the loader does with it.

### MMU - `intermediate_stuff/mmu/mmu.c`, `uart_and_sd/mmu.c`

Builds page tables (4 KiB pages, or 2 MiB blocks) and switches the MMU on.
Correct when every address the code uses translates to itself with the right
attributes.

### GPIO, timer, mailbox, UART, screen - `GPIO/`, `Screen/`, `delays.c`, `mbox.c`, `uart.c`

Register arithmetic per pin; a timer of 64 bits read in two halves, and of 32 bits that
wraps; a mailbox shared by channels; a UART with one character in each direction; a text
cursor on a frame buffer. Correct when a call changes the pins it is about and no other,
the time read was the time at some moment of the call, a delay is not cut short, a mailbox
answer is the one to the call, characters arrive in order, and a text that fits is on the
screen.

### Programs - `uart_and_sd/main.c`, `test-multiboot/main.c`, `GPIO/gpio_test.c`

Small mains used for bring-up: write a block, print the serial number, blink.

## Modules

| module | models | lines of the code |
|---|---|---|
| `EmmcHost` | the registers of the EMMC controller that `sd.c` polls and writes | `emmc/sd.c` 51-119 |
| `SdCmd` | `sd_status`, `sd_int`, `sd_cmd` against any client and any timing of the controller | `emmc/sd.c` 122-224 |
| `SdCmdProofs` | theorems about `SdCmd` | |
| `SdTransfer` | `sd_readblock`, `sd_writeblock`, the controller's data phases and a card with blocks | `emmc/sd.c` 231-352 |
| `BlockStore` | what a driver of blocks promises: an abstract specification, of no code | |
| `SdTransferProofs` | theorems about `SdTransfer` | |
| `SdInit` | `sd_init`, `sd_clk`, and the card's identification states | `emmc/sd.c` 358-595 |
| `SdInitProofs` | theorems about `SdInit` | |
| `SdSystem` | the driver with its clients `Rpi_Emmc` and the write program, over a card that keeps its state | `uart_and_sd/sd.c` 99-396, `emmc/emmc.cpp`, `uart_and_sd/main.c` |
| `SdSystemProofs` | theorems about `SdSystem` | |
| `ElfBoot` | `main`, `multiboot_search`, `multiboot_boot`, `move` | `elf-boot/main.c`, `multiboot.c`, `move.c` |
| `LoaderProofs` | theorems about `ElfBoot`, `ElfParser` and `Printf` | |
| `ElfParser` | the reader, run before the loader on the same file | `elf-parser/main.c`, `multiboot.c` |
| `Mmu` | both versions of `mmu_init`, and the hardware's walk over the tables | `mmu/mmu.c` 61-288, `uart_and_sd/mmu.c` 58-126 |
| `MmuProofs` | theorems about `Mmu` and `Startup` | |
| `Startup` | `_start` and the vectors, around `Mmu` | `uart_and_sd/start.S` 30-143, the same in `elf-boot/test.S` |
| `Printf` | `_vsnprintf` and its entry points | `elf-boot/printf.c` 133-326, 577-903 |
| `Console` | `mbox_call`, the functions of `uart.c` and the program that uses them, with the firmware, the UART and a terminal | `test-multiboot/mbox.c` 45-62, `uart.c` 42-127, `main.c` 29-60 |
| `SystemTimer` | `get_system_timer`, `wait_msec_st` and the counter | `emmc/delays.c` 57-81 |
| `Gpio` | the functions of `GPIO.c`, the pins in `uart_init`, `gpio_test_main` | `GPIO/GPIO.c` 25-106, `GPIO/gpio_test.c`, `Screen/uart.c` 62-74 |
| `GpioProofs` | theorems about `SystemTimer` and `Gpio` | |
| `Screen` | `screen_init`, `screen_print` | `Screen/screen.c` 17-134 |
| `BoardProofs` | theorems about `Console` and `Screen` | |
| `MCSdCmd`, `MCSdTransfer`, `MCSdInit`, `MCSdSystem`, `MCElfBoot`, `MCMmu`, `MCBoard` | instances for TLC: sets of commands, responses, cards, headers, sections, formats, fonts and keys | |

Compositions: `SdTransfer` and `SdInit` extend `SdCmd`; `SdSystem` has both of them a step per
call, with the clients; `Startup` extends `Mmu`, which its `main` runs; `ElfParser` extends
`ElfBoot`, which runs after it; `Gpio` extends `SystemTimer`. `MCMmu` puts `Startup` and
`Printf` together (a `main` of the loader prints, in one of the starts), `MCBoard` the three bring-up
programs, of which one runs.

`SdTransfer` and `SdInit` both extend `SdCmd` and use its `sd_cmd`, polling
loops and end of a command, `EndCommand`. `SdCmd` is at the same time the
abstract specification of the two: its `CmdSpec` lets a client call the three
functions in any order, and lets the controller end commands and raise events at
any time. `UsesSdCmd == CmdSpec` is checked as a property of both modules, so
that what is proved of every client in `SdCmd` holds of the two real ones.

`BlockStore` is the other abstract specification. In it a call reads or writes a run of
blocks: a read that succeeds returns them, a write that succeeds has put them in their places,
a call that fails may leave any of its own blocks written, and one of them written late, but
not after the next call has begun to touch the store. Nobody looks at the buffer of a call that
failed, and the model forgets it with the other locals. In `SdTransfer` the store is the card,
and the late block the one that is still in the FIFO when the call has returned; `ImplementsStore == Store!Spec` is checked. `hasty` is what a standard capacity card
makes of it: with a transfer for each block, success promises nothing of a write (finding 1).

### The driver

**Program counters.** The C call stack is `pc` (the function the caller called,
in `SdTransfer` and `SdInit`), `cmd` (where `sd_cmd` is) and `wait` (where
`sd_status` or `sd_int` is). A caller moves only when its callee is at `none`.
`sd_cmd` calls itself once, for CMD_APP_CMD; `outer` is the suspended call.
`sd_clk` has a counter of its own, `clk`.

**Grain.** A step of the driver is at most one access to a register that the
controller can change between: `StatusPoll`, `StatusExit`, `IntPoll`, `IntRead`
and `IntAck` are separate, and so are clearing INTERRUPT (`CmdClear`) and writing
CMDTM (`CmdIssue`). The 128 accesses that move one block are one step
(`MoveBlock`), because the controller does not touch the FIFO while a block is
being taken from it; the two words of the SCR are two.

**Registers** are the sets of the bits that are set. The error bits of
INT_ERROR_MASK behave alike and are `"ERROR"`; the two timeout bits, which
`sd_int` tells apart, are their own. CMD_TIMEOUT is not in INT_ERROR_MASK but
the controller sets the summary bit 15 with every error, and that is in it.

**Countdowns.** `while (cond && cnt--)` decrements when `cond` holds and leaves
the loop when the counter was 0 before it; `cnt <= 0` afterwards means a timeout
even if the condition has just become false. `PollStep` has both. In `sd_init` and
`sd_clk` the counter is tested outside, which `Again` / `InTime` / `TimedOut` say.

**The hardware** is what the code is written against. In `SdCmd` it is
arbitrary: a command ends at any time or never, with its completion and any response, or
with an error; each end raises one event, and whatever a data phase raises, before or after it and
at any time, is a step of its own. `CMD_WRITE_*` have the bit set that `CMD_READ_*` have for data
from the card (lines 62-66); the models take them for writes, as their callers do. In `SdTransfer`
and `SdInit` the controller and the card are state machines: a data command starts
a phase of BLKSIZECNT blocks, the card leaves the transfer state and comes back
after the announced number of blocks or on STOP_TRANS; a card that may not
execute a command in its state does not answer. Faults (a lost command, a lost
answer, a data phase that breaks off, with or without its last block programmed)
are steps that at most `MaxFaults` of happen in a behaviour.

**sd_init as it is compiled.** The prints between `if`s are commented out, so
each `if` of lines 519-523 has the next one as its body, and clearing SCR_SUPP_CCS
at line 589 hangs on the two tests before it. `LateError` and `Finish` follow the
compiled code, not its indentation. `sd_cmd` removes CMD_NEED_APP from `code`
before it compares it with CMD_SEND_OP_COND (lines 191 and 206), so these
comparisons are never true, and the response of ACMD41 goes through the mask of
errors like that of any command; `OpCondBits` says what is left of it.

**The whole.** In `SdSystem` a call of `sd_cmd`, `sd_status` or `sd_int` with the test of its
result is one step, with every outcome that `SdCmd` allows: the answer, none, an error, and
the error of the nested CMD_APP_CMD left in `sd_err`. This leaves room for whole histories: any number of
calls, an `sd_init` for a second device after transfers, transfers after an `sd_init` that failed.
`latched` is the error bit that the tail of a data phase leaves when nobody polls, `left` the
blocks the controller still expects, `sd` the card's state, which only GO_IDLE or the end of the
power takes back. Blocks are those of the `read_sync` and `write_sync` of `emmc.cpp`; `write_sync` leaves out the
argument `num` and does not compile against `sd.h`, it is taken to write one block. Multi-block
writes, which no client makes, and the races within a data phase are in `SdTransfer`. A call for less than one
block is one for one block (`AtLeastOne`). `main` writes
block 0, although the comments over COUNTER_SECTOR and beside the call say block 1.
`main` is linked with the driver of `uart_and_sd`, `Rpi_Emmc` with that of `emmc`; they differ
in the two places where the prints are commented out (`Dangling`, `Cleared`).

### The loader

The phases of `main` are the values of `pc`: clear the own bss, search, save the
device tree, boot, load, clear the kernel's bss, jump. A copy takes a step per
byte, because source, target and running loader share one memory. A byte is
known by the address at which the firmware put it, so `mem[a] = b` says that cell
`a` holds what was at `b`; `Zero` and `Junk` are bytes that a loop cleared and
bytes nobody wrote. The header's magic and checksum are abstracted to the set of
word offsets at which a valid header is found (`DOMAIN image`); it is not limited
to the file, because the search is not. `Real` and `LoadSize` keep the widths:
the differences of 32-bit fields wrap at `LongSize` where the code computes with
64 bits, and the length is narrowed to an `int`. Once the code or the stack of the
loader is overwritten, anything may happen, which is `Derail`. An access outside
the memory is reported by `exc_handler`, which stops: `MoveFault`.

### The MMU

`mem` has the descriptors that `mmu_init` wrote, by word; an address is counted in
pages, a word is `page * Entries + index`, as in `page_base[i * page_entries + j]`. The
two versions of the function are two values of `version`. A step is one write outside
the loops, or one turn of an outer loop, or the loop over the first block: nothing
reads the tables while they are filled (the vectors' pages are mapped when the MMU is on, `Startup`), so the grain of the writes is of no
consequence, their order is (a later write to the same word wins). Bits of a
descriptor are the ones that differ between pages: USER, RO, NX, DEV and BLOCK;
shareability goes with DEV. `Check` is the test of `id_aa64mmfr0_el1`, which returns with
the MMU off. `Walk` is the hardware: three tables, indexed with the fields of the
address, and the words that nobody wrote are `Unknown`.

### The console

`main` of `test-multiboot` is the client: two calls of `mbox_call`, the first within
`uart_init`, then text, the number, and the loop that echoes. All calls use the one
buffer `mbox`, which the firmware reads and answers in place, at a time of its own;
`inbox` and `replies` are the two directions of the mailbox, and messages that are not
for `mbox_call` may stand in the second. `SendStep` is one character of `uart_puts` or
`uart_hex` through `uart_send`, with the carriage return before a newline. The UART
holds one character in each direction, because LCRH is written without the bit that
enables the FIFOs (`uart.c:75`); what is sent before the clock is set arrives
`Garbled`. `asked` is what is to arrive, character by character: `OnWire` puts the carriage return
before the newline that ends a text (no text of `main` has one elsewhere). The other directories have the same `mbox.c` and, but for the pins in `Screen`, the
same `uart.c`.

### Start-up, printf, reader, pins, screen

`Startup`: `x0` is the level that was read first, which the code tests after it has changed it: a
core that came from EL3 goes through the part for EL2 as it should, one that started at EL1 skips
the vectors, so that its faults are lost. `Words` is `__bss_size`, a number of words rounded
down: up to seven bytes of the bss are not cleared. The bss of the loader is cleared by its `main`. `Fault` may come at
every step of `mmu_init`: before the MMU is on the handler is at its address, afterwards its page
has to be executable, which beyond the first 2 MiB of the image it is not.

`Printf`: a format is given as the sequence of its fields, so that the splitting of the
string (lines 590-680) has no state; a lone `%` at its end, which makes the code read past the
NUL, is not among the formats. `CInteger` is the C standard's conversion, `Differs` the list of
items for which the code is known to deviate. The count that is returned includes a NUL printed with
`%c`, which `_putchar` does not get.

`ElfParser`: the file is the loader's image, cut off at a size of its own and mapped in pages. A
header may also be at an offset that is not a word (`Odds`), which only the reader sees. `ReaderSpec` is the reader, then the loader. The outcome of
the tests of the ELF header is left open: `main` does not look at it.

`SystemTimer`: each of the up to five reads is a step, and the counter may tick between any two.
`Gpio`: a register is the set of its bits; the addresses of `GPIO.h` are integers, so that
`GPSET0 + pin / 32` is not aligned for the pins from 32 on: stage `"fault"`. `UartPins(8)` is the
`uart_init` of `Screen`, which accesses one byte of the register: pins 14 and 15 do not become ALT0.
`Screen`: `mem` has the pixels drawn since the last `screen_init`, by address. The directory has no
`main`, so that any client may call.

## Runs

| run | question | answer |
|---|---|---|
| `sd_cmd` | does `sd_cmd` take an answer only for its own command, send application commands only behind an accepted prefix, and return, whatever client and controller do? | yes |
| `sd_transfer` | do reads and writes that report success do what they report, does the card return to its transfer state, does the driver implement `BlockStore`? | yes |
| `sd_transfer_returns` | does every call return; do driver, controller and card implement `SdCmd`? | yes |
| `standard_capacity_write` | is a write that reports success on the card, also where every block is a transfer? | no, finding 1 |
| `sd_init` | after success, do driver, controller and card agree on width, addressing and state, also when `sd_init` is repeated; is finding 2 the only way not to return; does it implement a client of `SdCmd`? | yes |
| `init_scr_loop` | does every `sd_init` return? | no, finding 2 |
| `sd_system` | does a read return what was written last, whatever failed between; does `sd_init` bring the card back; is the clock within the limits of the card; do blocks land in their places; does the driver know its card? | yes, after an `sd_init` that succeeded |
| `misplaced_write` | and after one that failed? | no, finding 3 |
| `elf_boot` | does the kernel arrive whole, with the device tree, does the overlap check protect the loader, is what the reader said of the file what the loader does? | yes, for well-placed kernels |
| `elf_boot_bss` | is the kernel's bss zero at the jump? | no, finding 4 |
| `mmu` | is every page mapped to itself with the right kind of memory, is the image protected, is the UART reached from the upper half; does `main` start ready and are faults reported; does `printf` format and keep within its buffers? | yes |
| `board` | do the calls over the shared buffer keep apart, does the terminal get everything in order; is the time read current, the light not too fast, no other pin touched; is a text that fits on the screen? | yes |

Every property of a passing run has a mutant: a changed definition, kept beside
the original, under which TLC finds the property violated.

### The properties, and what they cost to break

- `ResponseIsOwn`: a command given up after a timeout may complete while the next
  one is being prepared. Breaking it takes a late completion between the poll of
  CMD_INHIBIT, the clearing of INTERRUPT and the write of CMDTM.
- `AppCommandIsPrefixed`: with an address assigned, no failure of the nested
  CMD_APP_CMD leads to the application command. Without an address the code
  ignores the result of the prefix, so nothing is promised there.
- `ReadReturnsDisk`, `TransferReachesDisk`: the return value against the card, over all
  interleavings of data phase and polls. The second is stated for `OneTransfer` calls;
  without CCS and with more than one block it does not hold, which is finding 1.
- `ImplementsStore`: a block of an abandoned write may be programmed after the
  call has returned, but not once the next call has got past its wait for the
  data line; every other step that changes the card is one of the call that asked for it.
- `CardBackInTran`: one of three parties ends a multi-block transfer, depending
  on two flags; after success the card must be where the next call needs it.
- `InitEstablishes`: a relation between driver, controller and card across repeated, partly
  failed initialisations. `InitReturnsOrStarves`: a call
  returns, or it stays in the loop of finding 2 with the FIFO empty, and nowhere else.
- `ReadsLastWrite`: breaking it takes a write, a failure of some other call, and a read. An error
  left latched, a transfer left open in the card, a bus width that differs, and the flags of an
  `sd_init` for another device are all between them. What a failed write leaves is unknown.
- `InitHeals`: from every state that calls and faults can leave, an `sd_init` in which the hardware
  does not fail succeeds, for cards of version 2 (a card of version 1 never answers SEND_IF_COND,
  which ends `sd_init`) that do not need the last attempt of ACMD41, which counts as a timeout.
- `ClockWithinLimits`: 400 kHz at most while the card is identified, 25 MHz at most ever, with the
  divisor as computed for controllers of versions 1 to 3.
- `DriverKnowsCard`: what an `sd_init` that succeeded has established survives every transfer, broken off or
  not. Breaking it takes a lost answer to SET_BUS_WIDTH that goes unnoticed, an address lost or
  a flag of another card kept; the two copies of the driver, which differ in two `if`s, both have it.
- `LoadedIsFile`, `DtbSaved`, `LoaderIntact`: contents of memory at the end (or in
  every state), against all headers. `WellPlaced` is their precondition: the
  header is consistent, the target is away from loader and device tree, and
  the misplaced clearing of finding 4 does not hit them. The kernel image in the
  repository (load 0x1000000, header 0x1019610, load_end = bss_end = 0x1126c68)
  satisfies it. `LoaderIntact` needs only a consistent header with a load address
  at or above the loader's start; below it the check of `move`, which looks at the
  first byte only, protects nothing. Headers with a `load_end_addr` or `bss_end_addr` of zero are among those of the
  run, but not well-placed.

- `IdentityMapped`, `KernelSeesUart`: the two sets of tables lie side by side; every
  descriptor of the one has to survive the writing of the other. `ImageProtected`: a
  page is protected exactly if a byte of the text or of the read-only data is in it,
  for sections of every alignment. In the version with blocks this is said of the
  first block only: beyond it nothing can be executed and nothing is protected.
- `BufferIsFree`: with foreign messages between the answers, no call fills the buffer
  while the firmware still has to act on it. `TextInOrder` relates the calls of the
  program to what has reached the terminal at every moment; `ConsoleArrives` is its
  other half: in the end nothing is missing, and what the receiver took has been
  sent back. `TextInOrder` takes the rate of the line for right: the result of setting the clock is ignored, and if that
  fails what arrives is garbled, as it is in the code.
- `FaultsAreReported`: whether the handler is reached depends on the level the core started at,
  the stack pointer chosen in `_start`, and the tables built later in C.
- `FormatsLikeC`: over every combination of flags, several widths, precisions and values, up to
  the listed differences. `BufferHoldsText` is the promise of `snprintf`.
- `ReaderAgrees`: two searches in different steps and directions, over regions of different length; for a file with one
  header, at a word of the bytes the reader searches. The kernel in the repository has its header beyond
  them (0x19610 of 8192 bytes): the reader does not find it.
- `ReadIsCurrent`: breaking it takes a roll-over between two reads. `BlinksSlowly`: of any halves that follow
  each other at most one period is missing. One half alone may be short, down to nothing: the time it is counted from is read
  before the light is switched, and a delay may come between. What may not be is that the delay is made
  good by halves that follow, or that the wrap of the low half ends one early. `OtherPinsKept`: ten pins
  share a register that is read and written back; it does not say that the pins of the call get their function,
  which in `Screen` they do not. `TextOnScreen`: a glyph belongs
  where the text before it says, in a frame buffer of any pitch, and stays there until it is printed over; of text that
  does not fit, and of what is printed before there is a frame buffer, it says nothing.

### Bounds

| bound | value | why it is enough |
|---|---|---|
| `MaxPolls` | 1 or 2 (1000000) | a loop has the same three exits (condition met, met at the last poll, given up) with 1; 2 adds a poll that goes round |
| `Codes`, `Responses` in `MCSdCmd` | one command of each kind `sd_cmd` distinguishes; one response field at a time | commands of a kind take the same path; fields are tested one at a time |
| `NumBlocks`, `MaxNum` | 2, 2 | a transfer of two blocks has a first, a last and a block boundary; address 2 is off the card |
| `BlockLen` | 2 (512) | byte and block addresses differ |
| `Data` | 2 values with symmetry, 1 for liveness | contents are only compared |
| `Reach` | 3 | a call may begin beyond the card, or go one block beyond it |
| `FaultBits` | time-outs in `sd_transfer`, ERROR in `sd_transfer_returns` | the driver stops at each of them; they differ in the value of `sd_err` |
| `MaxFaults` | 1 or 2 | a fault and the recovery from it; two for repeated `sd_init` |
| `MaxTries` | 2 or 3 (6) | first, middle and last attempt of ACMD41 |
| `Cards` | four kinds | version 1, standard and high capacity of version 2, with and without SET_BLOCKCNT and four data lines |
| memory of `ElfBoot` | 22 bytes, file of 5, device tree of 2, stack of 1 | every order and overlap of target, loader, device tree and file occurs; headers with all load, end and bss addresses over it, at the first and the last searched word and one beyond, two headers, none, and one without addresses |
| `WordSize`, `LongSize` | 46, 92 (2^32, 2^64) | above twice the memory, so that a wrapped difference lies outside it, as in the code |

| `Entries`, `PageSize` | 4, 2 (512, 4096) | first, middle and last entry of a table; sections begin and end inside and at the border of a page. The theorems have no bound |
| `Sections` | all of three pages of text and data in bytes, all ends of the image before the registers | every order, alignment and length |
| `MailDepth`, `MaxForeign` | 1, 2 | a foreign message before each of the two answers, or two before one |
| `Digits`, serial number | 2 (8), 0xF0 and 0x9A | digits 0, 9, A and F |
| `Keys`, `MaxTyped` | a letter and Enter, 3 | one character in the receiver, one being sent, one lost |
| `NumBlocks`, `MaxNum`, `CountSize` of `SdSystem` | 3, 3, 3 (2^16) | a read of `CountSize` blocks programs a count of 0; byte addresses 2 and 4 are on and off a card of blocks |
| `MaxFaults` of `SdSystem` | 2 | one that breaks something, one during the recovery |
| `Cores`, `BssBytes` | 3 cores, 19 | two words and three bytes |
| `BufferSize`, `Counts`, `SizeOf` | 9 (32), 0, 1 and 3, 8 to 256 (2^8 to 2^64) | a number in base 2 fills the buffer; no room, room for the NUL only, a text cut off |
| `Sizes`, `SearchBytes`, `PageBytes` | 0 to 10, 3 (8192), 2 (4096) | empty, shorter than the search, as long, longer |
| `LoSize`, `MaxHi`, `Delays`, `Period`, `Blinks` | 4, 2, up to 5, 2, 2 | the low half rolls over once and twice, between any two reads; a period that spans the wrap |
| `Pins`, `Modes` | 9, 14, 29, 33; three functions | last and middle field of a register, two registers, one pin beyond the first bank |
| `Grants`, `MaxText`, font of 8 x 2 | buffers for one and two columns and rows, with padding lines, 5 | text that fits and text that does not; a carriage return prints over |

A read of `SystemTimer` takes less than one period of the low half (over an hour): the one assumption
about time. In `Screen` the font is 8 pixels wide, like `font.psf`: of a wider one the code looks at one
byte of a row only, of a narrower one at the wrong bits.

`SdTransfer` has as many calls in a behaviour as fit the fault budget, without a
bound of their own: the state after a call is a state before the next.

### Fairness

`WF` is on the steps of the driver only (`DriverStep`, `LowStep`, `CallStep`,
`InitStep`): the boot core executes instructions and nothing preempts it. Nothing
is assumed of controller, card or client, so a liveness property says that the
driver returns even if the hardware stops for ever. The clients' calls
are not fair: nobody has to call. `ElfBoot` is sequential and has `WF(Next)`.
In `Console` (and `BoardSpec`) the program is fair for the same reason, and so are the firmware and the
line: `mbox_call` and `uart_send` have no timeout, so the code itself takes it for
granted that both go on. Typing and foreign messages are not fair.
`elf_boot`, `elf_boot_bss`, `mmu`, `board`, `sd_system` and `misplaced_write` do not check for deadlock, because the
loader, `mmu_init` and `main` end, the echo waits for a key for ever, and `sd_init` may starve (finding 2); in
the other runs of the driver a call is always possible from the idle state, and deadlock is
checked.

## Proofs

Assumptions are those on the constants, each named in the module that declares
it: `MaxPolls` is positive, the sets of commands, responses and events are
subsets of those the controller has, the image's parts follow each other in memory
in the order of the linker script, header fields fit a word, what a block holds is none of the
markers for "nothing", and the light changes before the low half of the timer comes round.

`SdCmdProofs` proves, for every client, every bound and every set of events:

- `CmdTypeCorrect`: `CmdSpec => []CmdTypeOK`. It includes that a countdown is not
  negative inside its loop, which the decrement in the condition makes worth saying.
- `ResponseIsOwnAlways`: `CmdSpec => []ResponseIsOwn`. The property is about the
  end of a call and is not inductive; `OwnAnswer` strengthens it along the call:
  what a loop has established when it is left by its condition, that the line
  is free from there to the write of CMDTM, that no CMD_DONE is latched at that
  write, and so that one latched later is the command's own.
- `AppCommandIsPrefixedAlways`: with `Prefixed`, which carries the acceptance of
  the prefix through the nested call to the write of the application command.

Of the loader, `LoaderProofs` proves for every layout, memory size and set of headers:
`TypeCorrect`, `LoadedIsFileAlways`, `DtbSavedAlways` and `LoaderIntactAlways`. The
inductive invariant `Inv` has, beside the types: the image is as the firmware left
it until the kernel is copied (`ImageKept`); the header is the first (`HeaderFirst`);
for each of the two copies, a prefix is in place and the source untouched
(`DtbLoop`, `LoadLoop`); the result stays until the jump (`DtbKept`, `FileKept`).
The copy goes forward and may overlap its own source from the left; it may not
overlap the image at all under `WellPlaced`, and the proof needs just that.
`Inv` was checked by TLC on the instance of `elf_boot` first.

`MmuProofs` proves, for tables of any size, wherever they and the image are:
`TypeCorrect`, `IdentityMappedAlways`, `DevicesAreDevicesAlways` and
`KernelSeesUartAlways`. The properties speak of the moment the MMU is on; `Inv` says
what has been written by then: what the first `i` turns of the loops wrote is still
there (`PagesBuilt`, `BlocksBuilt`, `SmallBuilt`), and so are the three descriptors of
the upper half (`KernelBuilt`). The step of each action is that its words are none of
those written before (`PutHas`), which comes down to the rows of a table array
following each other (`Rows`); `LowerWalk` then computes the walk. The assumptions are
that the registers begin with a block, that the image ends below the tables and the
tables below the registers. `Inv` was checked by TLC on the instance of `mmu` first.

`GpioProofs` proves, for counters and registers of every size, every pin and every delay:
`ReadIsCurrentAlways`, `WaitsLongEnoughAlways` (of the timer under any client),
`BlinksSlowlyAlways` and `OtherPinsKeptAlways`. For a read of the timer the invariant says what
each of the three values read so far proves about the time: no more than one period of the low half passes during
a call, so that either the high half has not changed or the second pair was read after it had. For
`gpio_test_main`, which looks at the low half only, a difference taken modulo the period is at most the
time that has passed (`DifferenceOfLow`), however often the half has wrapped. `Since` names the time that `prev` is the low half of; in
`BlinkInv` every half since a switch has put it at least a period on (`OneMore`, `AddUp`), and the switch that begins a half comes after it, by as
much as the program was kept. `OtherPinsKept` comes down to `FieldsApart`: the fields of two pins in one register do not
overlap, so clearing one and adding its new value carries nothing into the next.

`SdTransferProofs` proves, for cards, calls and blocks of every size, any polling bound and any number
of faults:

- `TransferTypeCorrect`, with `LineHeld` (a data phase, or a data command under way, holds the
  data line) and `Announced` (a block count of 0 is never announced).
- `UsesSdCmdAlways`: driver and hardware step as `SdCmd` lets a client and a controller step, so that
  the theorems of `SdCmdProofs` hold of `sd_readblock` and `sd_writeblock`.
- `ReadReturnsDiskAlways` and `TransferReachesDiskAlways`. `TransferInv` follows a call from the moment it
  has found the data line free. `InFlight` says that a data command the controller still works on is the call's own,
  with its address, and that nothing else goes on; `Phase` relates blocks left, blocks moved, the FIFO
  and the card's position; `Announces` says that READ_RDY stands for a block in the FIFO and WRITE_RDY
  for room in it; `Ends` that DATA_DONE stands for the end of all blocks; `Copied` that the blocks a read
  has taken are right. The exception is the difficult part: a phase that breaks off after READ_RDY was acknowledged
  takes the block away, and the driver copies garbage. `Doomed` shows that the call cannot succeed
  then: the error is latched, another block is due, and its wait finds the error. `Frames`, `LineFree` and
  `EventSeen` say who waits for whom, and what the two polling loops have established. All of
  it was checked by TLC on the instance of `sd_transfer` first.
- `CardBackInTranAlways`, for cards that do not refuse SET_BLOCKCNT. The card ends a transfer of several blocks
  by the number it was given, the driver ends it with STOP_TRANS, and a single block ends by itself.
  `Counted` carries the number from the argument of SET_BLOCKCNT to the start of the phase, through a command
  that is issued, answered or lost; from there on `Ending` has card and controller count down together, so that
  the end of the phase, which a write has seen (`Ended`) and a read has reached with its last block, is the card's
  own; `Stopped` is the case of STOP_TRANS. For a card that may refuse the number the driver goes on all the same (after the list of findings).
- `ImplementsStoreAlways`: every step of driver, controller and card is a step of `BlockStore` or a stutter. The hard
  part is a write that is not one transfer: its caller goes on before the card has programmed the block. `StoreInv`
  says of it which command is under way and which block is in the FIFO (`HastyCommand`, `HastyPhase`; `Fresh` is the
  time between the answer and the first word), of a phase left behind that it ends before a new command
  is accepted (`Settled`), and of a read that what it has not copied is untouched. The mapping (`StoreCall`, `StoreData`,
  `StoreOwed`) takes the block that is still in the FIFO when a call has ended for the late block of the store.

`SdInitProofs` proves `InitTypeCorrect`, `UsesSdCmdAlways` and `InitEstablishesAlways`, for cards of every kind and any
number of attempts, polls and faults. `BaseInv` says which command each label of `sd_init` is waiting for, and
that the data line belongs to SEND_SCR alone (`ScrPhase`); `InitInv` carries what each step has established
about the card: an answer that is taken is the answer of the command (from `OwnAnswer` of `SdCmdProofs`), so the
address, the width and the flags are the card's. The assumption is that `sd_init` may send its own commands and
get the answers that it tests for (`InterfaceAssumption`).

`SdSystemProofs` proves all that `sd_system` checks, for every set of cards, number of blocks, of attempts, of faults
and of calls:

- `SystemTypes`, with the shape of a call (`CallInv`).
- `ReadsReturnLastWrite` and `BlocksStayInPlace`. `PlaceInv` has the card at the block the driver expects, also when
  the count of blocks wraps to 0; `StoredInv` relates what was written last, what the card has and what was read so
  far, while a write runs, after it failed, and over any number of calls that fail.
- `InitBringsCardBack`: `HealInv` gives the state of the card at each label of an `sd_init` without faults, whatever
  state it began in; with it every command is answered.
- `ClockStaysWithinLimits`: what the divisor comes to for controllers of each version, where the card is slow.
- `DriverKnowsCardAlways`: `KnowInv` says that a card which is not selected uses one line, that a transfer does not
  deselect it, since only GO_IDLE does, and which label of `sd_init` has established what. The width is the last thing agreed on: of SET_BUS_WIDTH
  an answer that was taken means that the card has changed (`BusWidthAnswered`).

They rest on: a count field of two values at least (`CountSize`); and that a card which has CCS in the bits of its SCR,
where the standard has a reserved bit, is one of version 1.

In `MmuProofs`, `ImageProtectedAlways` is about bytes where the tables are about pages: `Touching` shows that a page has
a byte of a section exactly if the loops, which go by rounded page numbers, give it the section's attribute. For `Startup` the invariant
`StartupInv` has the one core that goes on and the others parked (`OthersWait`), the stack and the level on the
way from each level a core may start at (`Ready`), and the words of the bss cleared so far; a fault
is reported because until the MMU is on the vectors are where they are, and afterwards `ImageProtected` holds of their page.

In `LoaderProofs`, `ReaderAgreesAlways` joins two searches: `Decided` says what the reader has to find in the bytes it
looked at, `Reported` that the extra fields it reports are those of that header. The assumption is that the loader searches as
far as the reader does at least.

Of `Printf` it proves `BufferHoldsTextAlways` and `FormatsLikeCAlways`, for every format, argument and length of a buffer,
every size of the types and of the buffer for the digits. `PrintfInv` says what has been put out when item `k` is next: the text of
the items before it (`Printed`), cut off at `maxlen`, or without its NULs. The text is `FlattenSeq`, which the library defines by a
recursive function, and the number of digits a least power; the induction over them goes by the least number for which the
claim would be wrong (`LeastNat`, from the library's `WFMin`), an argument that needs no operator for a parameter. From
it come `CatStep`, how a text grows by an item; `VisibleConcat`, that a NUL can be left out item by item; and `CountIs`.
For an integer, `Layout` is the text the standard asks for: `PlainLayout` and `HashLayout` show that the code's
buffer, read from its end, is that text. The second is the harder one: a prefix takes the places of zeros that were filled before
it was known, and `PrefixFits` says when there are such places. `CIntegerLayout` shows the same of the standard's
conversion, with the zero of an alternative octal number, which is a prefix in the code and a digit in the standard;
the items for which the two part are those of `Differs`, and no others are needed. The assumptions are that an item has the fields
`_vsnprintf` can read from a format (`IsItem`), that no type is larger than `long`, and what the provers do not know of
powers (`PowersAssumption`).

`BoardProofs` proves, of the serial number program with mailboxes, transmitters, keys and numbers of every size:
`PrintsItsSerialAlways`, `BufferIsFreeAlways` and `TextInOrderAlways`. `Mail` says that there is never more than
one message of `mbox_call` under way and no answer left behind when it returns; `Numbers` what has been printed by the time
the program gets to where it is going, and that the buffer still holds the rest; `Text` that what arrived, what is in
the transmitter and what `uart_puts` has still to send (`Pending`) are, one after the other, what was asked for.
`PowersAssumption` states of the powers of 16 what the provers do not know: they are positive numbers.
Of the screen it proves `TextOnScreenAlways`, for every text, frame buffer and font of eight columns. The property counts newlines and characters
of the text where the code has a cursor; `Cursor` and `NextPlace` join the two. `SpotsApart` is the arithmetic: two pixels of
cells that fit have one address only if they are the same pixel of the same cell, for every pitch, because a line is no
longer than the pitch (`PixelsApart`) and a cell no wider than the font. With it a glyph hides what was in its cell and nothing else.

Only model-checked: liveness (`CallReturns`, `TransferReturns`, `InitReturnsOrStarves`, `BootEnds`, `ConsoleArrives`),
which is out of the provers' reach. Of `Printf` the digits of a number are not proved against the number: both sides of
`FormatsLikeC` take them from `DigitsOf`, so that the theorem is about everything around them.

## Findings

1. `emmc/sd.c:329`: on a standard capacity card a multi-block write waits for one
   DATA_DONE and may take that of the first block for the last; an error of an earlier
   block may be wiped by the next command (`standard_capacity_write`).
2. `emmc/sd.c:569`: the loop that reads the SCR never decrements its counter, so the
   timeout after it is out of reach (`init_scr_loop`).
3. `emmc.cpp:11`: nobody looks at the result of `sd_init`; after one that failed late, blocks of
   a high capacity card are addressed by bytes, and a write that reports success is elsewhere
   (`misplaced_write`).
4. `multiboot.c:139`: the loop over the bss clears addresses in the embedded file
   after the copy instead of `load_end_addr .. bss_end_addr`; harmless for the kernel
   in the repository, whose bss is empty in its header (`elf_boot_bss`).

Seen in the models, without a run of their own: `sd_cmd` returns the error bits of a
card's answer without setting `sd_err`, so that a refused SET_BLOCKCNT (`emmc/sd.c:251`) is taken
for an accepted one (`Refusing` in `sd_transfer_returns`); with the prints commented out, an error of ACMD41 is
retried until it is a timeout (`emmc/sd.c:519`, `Dangling`); faults of a core started at EL1, or of text
beyond the first block, are lost; a `load_end_addr` of zero, which by the comment in `multiboot.c:26-29` stands for the
whole file, gives `move` a negative size, so that nothing is copied before the jump (`multiboot.c:136`), and a
`bss_end_addr` of zero, which stands for no bss (`multiboot.c:34-36`), sends the loop that clears it through all of memory
if the header is linked above where it was found and `load_end_addr` is not zero; "Check for potential overlap" (`move.c:10`) passes a kernel
that begins below the loader and reaches into it, which then overwrites the running code; pins 14 and 15 are not set in
`Screen/uart.c:63`, through a `char *`, although the line above says "map UART0 to GPIO pins"; the pins from 32
on make `GPIO.c` fault; `printf` deviates from the standard where `Differs` says so.

## Not modelled, and why

- Floating point in `printf` (lines 330-575): no property of a digit sequence short of
  recomputing it in arithmetic that TLA+ does not have. The splitting of a format string.
- `multiboot_explain`, the prints of the ELF reader, of `exc_handler` and the hex dumps: they print; nothing depends on
  what they print.
- `gpio_delay`: the loop of `gpio_test_main` over the timer, once (`IsOver`).
- `mem_rand`: its call in `main` is commented out.
- The pin set-up in `sd_init`: no state that a property looks at.
- `wait_msec`, `wait_cycles`: they take time and change no state. The controller
  may act between any two steps, so the models include every duration.
- `num * 512` wraps at the same count at which `num << 16` does its worst; callers only compare it with 0.
- Caches, MAIR, TCR and shareability in `mmu_init`: values written once, with no state
  behind them that the walk depends on.
- `read`, `write`, `deactivate` of `Rpi_Emmc`: empty.

## Plan

What would come next, in this order:

1. Of `Printf`, that `DigitsOf` are the digits of their number, by the same induction over the powers.
2. `SdSystem` takes a command as one step and `SdTransfer` as many: that the outcomes `SdSystem` gives to
   a block read or written are those of `SdTransfer` is an argument of this document, not a theorem.
3. The data races that more than one core would bring, if the kernel ever starts cores 1-3: today
   they stay in the loop of `test.S`.
