# A specification of X-ALP

X-ALP is a small RISC-V system on chip: a CVA6 processor, an AXI crossbar, a
memory, a debug module and a handful of memory-mapped peripherals, with the C
runtime, drivers and boot code that run on it and a Verilator test bench around
it. This directory holds TLA+ specifications of the parts in which things happen
concurrently or in an order that matters, the TLC configurations that check
them on small instances, and proofs of their main properties that TLAPS checks
for all values of the constants.

Paths below are relative to the repository root as it appears under `src/`.
`V/` stands for `hw/vendor/pulp_platform/`, `OT/` for
`hw/vendor/lowrisc/opentitan/hw/ip/`.

## 1. The system

### 1.1 Components

| component | code | state | operations | talks to |
|---|---|---|---|---|
| AXI crossbar | `hw/subsystems/bus_subsystem.sv` 47-78, `V/axi/src/axi_xbar.sv`, `axi_mux.sv` | round-robin pointers and locks of the arbiters, one pair per slave port and direction | route, arbitrate, return responses by ID | masters CPU, debug module, external; slaves memory, debug module, peripheral bus, external |
| peripheral bus | `bus_subsystem.sv` 127-187, `V/register_interface/src/axi_to_reg_v2.sv`, `V/axi/src/axi_to_detailed_mem.sv` | read/write selection, fork, meta buffer, credits, request and response FIFO per lane, lock of the lane arbiter | accept, fork, access a register on each lane, join, answer | crossbar above; the register blocks below |
| memory | `hw/subsystems/memory_subsystem.sv` | the SRAM words | read, write | crossbar; preloaded by the test bench |
| boot ROM, soc_ctrl | `hw/ip/bootrom`, `hw/ip/soc_ctrl` | BOOT_EXIT_LOOP, BOOT_ADDRESS, EXIT_VALUE, EXIT_VALID, SYSTEM_FREQUENCY_HZ | register accesses; launch signal of the test bench | peripheral bus; pins to the test bench |
| fast interrupt controller | `hw/ip/fast_intr_ctrl`, `sw/device/lib/drivers/fast_intr_ctrl` | PENDING, CLEAR, ENABLE | capture lines, clear; enable, clear, sixteen handlers | peripherals' lines; processor's interrupt pins |
| serial console | `hw/subsystems/uart_subsystem.sv`, `OT/uart`, `sw/device/lib/drivers/uart`, `sw/device/lib/runtime/syscalls.c` | CTRL, two FIFOs, two shift registers; `g_uart_initialized` | `_write`, `_writestr`, `_putchar`, `uart_init`, `uart_putchar`, `uart_write`, `uart_getchar` | peripheral bus; host (`uartdpi`) |
| start-up and exit | `sw/device/lib/crt/crt0.S`, `syscalls.c` 103-110 | – | set frequency, clear bss, call `main`, report the exit | soc_ctrl |
| test bench | `tb/src/verilator`, `tb/src/testharness.sv` | boot mode, time limit, cycle count | load ELF, reset, launch, run, report | pins of the chip, SRAM array |
| debug | `hw/subsystems/debug_subsystem.sv`, `tb/src/remote_bitbang` | debug module (vendored); client socket and pins of the bit-bang server | JTAG to system bus accesses; accept, execute command | crossbar as master and slave |
| processor | `hw/subsystems/cpu_subsystem.sv`, CVA6 | vendored | – | crossbar, interrupts, debug |
| text output | `runtime/printf.c` | sink, index | `printf`, `sprintf`, `snprintf`, `fctprintf` | `_putchar` of the console |
| heap | `syscalls.c` 278-302, `runtime/heap.cpp` | the break; malloc's blocks | `_brk`, `_sbrk`, `new`, `delete` | newlib's malloc |
| base library | `sw/device/lib/base` | – | fields, copies and bit operations on device registers; `memcpy`, `memset`, `memcmp`, `memchr`, `memrchr` | devices; every program |
| scripts | `util`, `test`, `config` | – | – | – |

### 1.2 How they interact

The processor and the debug module are masters of the crossbar. An access to
the memory goes to an AXI-to-memory bridge of its own; an access to a
peripheral goes through the *peripheral bus*, which turns a 64-bit AXI beat
into one access on each of two 32-bit lanes, serialises the lanes over one
register bus, and joins their responses. Everything else in the system is seen
by software through this bus: the FIFO of the UART is popped by an access on
it, an interrupt is cleared by one, and the simulation ends by one. The
peripherals act on their own between any two accesses. Interrupt handlers
interleave with the program; the host of the serial line and the test bench run
at their own pace.

### 1.3 What is hard

* **Concurrency.** Reads and writes of several masters meet in a pipeline of
  FIFOs, a fork and two joins; the UART receives while the driver polls it; lines
  rise in the cycle in which another one is cleared.
* **Untagged responses that cannot be held back.** A lane presents its response
  for one cycle; a full FIFO loses it, and the join pairs by position only.
* **Side effects of width.** A read always accesses both halves of a 64-bit line,
  so polling one register can pop the FIFO behind its neighbour.
* **Whole-register writes.** One write enable for sixteen pending bits.
* **Progress.** Busy-waiting without timeouts in the driver, round-robin
  arbiters and locks in the hardware, a slave that never answers.
* **Order of several steps.** Reset, preload, launch; exit value, exit valid;
  command, pins, reply.
* **Time limits.** The test bench looks at the chip every 100 cycles; its limit has
  six units and none by default.
* **Broken and ended connections.** The bit-bang server reads and accepts in loops,
  with the simulation standing still.
* **Boundaries.** Words and bytes (loader, copies), the end of the heap, sums that
  wrap, fields of text in which sign, prefix, zeros and width compete, rounding
  that carries.

### 1.4 What makes each component correct

* *Peripheral bus*: every transaction is answered once, after all of its
  accesses; each access is made once; accesses of two transactions do not
  interleave; nothing is lost; an error is reported exactly when an access the
  transaction asked for failed; nobody waits for ever.
* *Console*: what the program writes goes out once, completely and in order,
  and is out when the call returns; what the host sends is returned in order;
  calls return.
* *Fast interrupt controller*: an enabled line is served, clearing one line does
  not disturb another, and a handler does not run for ever.
* *Memory*: a store changes the bytes it names and no others; two addresses are
  two cells.
* *Boot and test bench*: the program starts after it is loaded and launched, and
  the verdict is the program's exit value.
* *Debug*: the simulation sees every change of the pins, a reply shows the pin as it
  is, what was sent is executed; the server serves one client after the other.
* *Heap*: the break stays in the heap, blocks do not overlap.
* *Base library*: an operation changes its field or its bytes and nothing else.
* *Text output*: the text is the one the C standard asks for; a buffer is never
  overrun.

The file `PROJECT.json` lists every hazard found so far with its line, also
those of parts not modelled yet.

## 2. The modules

| module | models | uses |
|---|---|---|
| `SerialPort` | what the peripheral bus promises | – |
| `PeriphBus` | the peripheral bus with its masters and slaves | refines `SerialPort` |
| `MCPeriphBus` | instances of `PeriphBus` for TLC | `PeriphBus` |
| `PeriphBusProofs` | inductive invariant, types, responses; refinement and exact write errors | `PeriphBus`, `SerialPort` |
| `Uart` | console: library calls, driver, UART, host | – |
| `MCUart` | instances of `Uart` for TLC | `Uart` |
| `UartProofs` | inductive invariant and output properties | `Uart` |
| `FastIntrCtrl` | controller, driver, handlers, lines | – |
| `FastIntrCtrlProofs` | inductive invariant, bounded number of runs | `FastIntrCtrl` |
| `SocBoot` | a simulation from command line to process status: test bench, soc_ctrl, the CPU's way through boot ROM, crt0, main, traps, exit | – |
| `MCSocBoot` | command lines for TLC | `SocBoot` |
| `SocBootProofs` | inductive invariants of launch, exit and time | `SocBoot` |
| `ElfLoad` | reading an ELF file and writing it into the SRAM, against the image | – |
| `ElfLoadProofs` | inductive invariant of the loader: the image, the CPU's view of it | `ElfLoad` |
| `Bitbang` | JTAG server, debuggers and sockets | – |
| `BitbangProofs` | inductive invariants of a tick and a connection | `Bitbang` |
| `Heap` | break, malloc's blocks | – |
| `Bitfield` | fields of a word, as sets of bits | – |
| `Mmio` | operations on device registers, against another writer | `Bitfield` |
| `Memory` | memcpy, memset, memcmp, memchr, memrchr | – |
| `MCSequential` | files, memories and calls for TLC; one of the four sequential parts moves in each behaviour | `ElfLoad`, `Heap`, `Mmio`, `Memory` |
| `SequentialProofs` | inductive invariants of the heap, the loops and the operations on registers; the four sequential parts beside each other | `MCSequential`, `ElfLoadProofs` |
| `Printf` | printf.c | – |
| `PrintfC` | what the C standard says, and where printf.c differs | `Printf` |
| `PrintfProofs` | the walk reads a directive as C does; inductive invariant of the walk and the buffer; texts, integers, special values and %f are as C says | `PrintfC` |
| `MCPrintf` | directives and arguments for TLC | `PrintfC` |

Constants carry named assumptions in the module that declares them. A definition
whose comment begins with "Mutant" is not part of a specification: it is a
plausible mistake in the definition next to it, kept to show that a property
notices it.

### 2.1 PeriphBus

Each action is one valid/ready handshake; handshakes of one clock cycle occur
in some order, which allows every order the circuit has and some it has not.

| model | code |
|---|---|
| `Ask` | a master raises AR, or AW with W |
| `Arbitrate`, `head` | the arbiters of `axi_mux.sv` (AW 261-315, AR 406-440) and their locks |
| `Select`, `metaSel` | `meta_sel_d` in `axi_to_detailed_mem.sv` 279-321, with its lock |
| `cur`, `left`, `ForkMeta`, `ForkMem` | `i_fork`; its two outputs for the meta and the select buffer have the same depth and are emptied together, and are one here |
| `metaq` | `i_meta_buf` and `i_sel_buf`, depth 1 + `BufDepth` |
| `cnt`, `bankReq`, `bankRsp` | credit counter and FIFOs of `mem_stream_to_banks_detailed` |
| `Granted`, `rvalid`, `Collect` | `periph_to_reg.sv`: a response is valid for one cycle after the grant |
| `SkipZeroWrite` | `axi_to_reg_v2.sv` 201-219 |
| `RegIssue`, `RegReady`, `owner`, `rr` | `reg_mux` on `rr_arb_tree` with `LockIn`; `addr_decode`, `reg_demux`; the slave's `ready` |
| `Fault` | `addrmiss` and `wr_err` of the register blocks |
| `ErrLanes`, `SizeEnable` | the bank masks of `axi_to_detailed_mem.sv` 504-514, evaluated with SystemVerilog's precedences |
| `Answer` | `i_join`, `i_fork_dynamic` |

Data is abstracted to what the properties tell apart: a transaction is a
direction, the number of its 64-bit line, and a size and half (reads) or how far
the strobes of each half cover the register (writes). `hits` and `ans` are
history variables: the accesses made for the transaction in service, and the
last answer of each port. Single-beat transactions only: the peripheral window
is not cacheable and the debug module issues single beats.

`SerialPort` is the promise: one transaction at a time, each of its accesses
once, then the answer, whose error is a function of the accesses' faults. The
refinement mapping sends `serving` to the port whose transaction is in the lanes.

### 2.2 Uart

The program calls `_write`, `_putchar` or `uart_getchar` whenever it is idle; each
register access of the driver is a step (`pc` names the next one), and the UART
and the host move between any two steps. A *read* of a register takes two
steps, one for each half of its line, in either order (`StatusLane`, `DataLane`),
because that is what the peripheral bus does with it; STATUS at 0x10 and RDATA
at 0x14 are the halves of one line. That no other access comes between them is
what `ImplementsSerialPort` shows of the bus. Writes touch one half only. Bytes
of each direction are numbered in the order they are sent; `wire`, `written`,
`got` and `accepted` are histories. A frame whose beginning the receiver missed
because the driver re-initialised it ends with nothing or with a byte nobody
sent (`Garbled`). The re-initialisation at every `_write` is in the model, as is
its refusal of an increment that does not fit 16 bits and an increment of 0
that it accepts.

`_writestr` is a `_write` of one byte more than the string, the terminating NUL.
The writes of `uart_reset` to OVRD, TIMEOUT_CTRL and the interrupt registers
have no effect on what is modelled and are part of `ResetFifos`.

### 2.3 FastIntrCtrl

Each action is one clock cycle (`Clock`): the controller loads its registers
(`NextPending`: one write enable for all pending bits), the lines move, and the
processor does at most one thing. Lines in `Pulse` stay up for one cycle, the
others until their handler serves the peripheral. A handler writes
FAST_INTR_CLEAR, then calls `fic_irq_*`, then returns; handlers do not nest.
`enable_fast_interrupt` is a read and a later write with interrupts in between.
Line numbers and vectors are abstracted to a set of lines. In this SoC the lines
are tied to 0 and only two outputs are connected (`hw/system/core_v_mcu.sv` 89,
187); the model is of the controller and its driver as they are meant to be
wired.

### 2.4 SocBoot

Test bench and chip take turns: `left` counts the cycles of the `runCycles` under
way, and in each of them the chip takes a step of `Cycle` or idles; with no
cycles left the test bench goes on (`Bench`).

| model | code |
|---|---|
| `Switches`, `CmdOption`, `BootModeArg`, `Limit`, `LimitStatus`, `Image` | `ParseCommandArgs`, `TbUtils`, `ParseCLIArguments` (`tb_sim_ctrl.cpp` 25-178, `tb_utils.cpp`) |
| `Parse`, `PreExec`, `SetReset`, `UnsetReset`, `ForceBoot`, `Run`, `PostExec` | the functions of those names, called in turn by `RunSimulation` |
| `ResetChip`, `Forced` | reset values of soc_ctrl; `testbench_set_exit_loop` and its `ff` (`soc_ctrl.sv` 32-42), forced by `tb_preload_force` |
| `BootLoop`, `BootJump`, `RomExit` | `bootrom.S` 59-84 (`bootrom.c` is not built: the Makefile beside it takes `*.S` only, line 21) |
| `Crt0`, `MainReturns`, `ExitWrites` | `crt0.S`; `_exit` of `syscalls.c` |
| `Trap`, `Handler` | vector table and `handler.c` |

A file is *whole* (all its segments are there), *bare* (whole, but without crt0, so
that its main returns to the boot ROM), *torn* (program headers are cut off:
`load_elf` returns early, `read_elf` still returns 0, and the CPU is launched),
*cut* (bytes of a segment are cut off: the assertion of `tb_elfloader.cpp` 105
fails) or *missing*. What a torn file leaves at BOOT_ADDRESS is unknown code:
`Stray` stores into EXIT_VALUE and EXIT_VALID what it likes, `_exit(0)` included,
so that such a run may pass; `PassIsEarned` and `ValidMeansFinal` say nothing of it.
A program that meets the `ebreak` of the boot ROM is *astray* and stores nothing.
Before the first reset the registers hold anything. Time is in picoseconds, as
`sim_cycles_` and `max_sim_time_` are; the product that makes the limit has the
width of an unsigned long long (`TimeMod`) and wraps, and `stoull` throws at a
number that has more. `code` and `said` are histories: what the program passed to
exit, and which handler reported a trap.

### 2.5 ElfLoad

A byte is where it comes from (`<<segment, index>>`), so that the SRAM array says
which byte of the file is where. `LoadSegment` with `Write` is `load_elf` with the
map that keeps the first of two equal addresses, `GetSection`, `LoadChunks` and
`LoadChunk` are `get_section`, the loops of `PreExec` and `tb_loadChunk`, which
writes whole words. A file whose program headers are cut off prints an error and
is loaded as far as it goes, because `read_elf` returns 0 all the same.
`ImageWord` says, word by word, what the file describes under these rules.
`CpuByte` is the SRAM through the 14 address bits of the memory subsystem.

### 2.6 Bitbang

`Tick` is a call of `jtag_tick`, `Return` its end; between the two the server
accepts (`Accept`) or reads until there is a command and executes it (`Execute`),
and the simulation (`Simulate`) stands still, while debuggers go on (`Connect`,
`Send`, `Receive`, `HangUp`, `Break`). Calls on a broken connection, and replies that
find the socket's buffer full, abort the program (`AcceptFails`, `ReadFails`,
`ReplyFails`). `testharness.sv` does not instantiate `SimJTAG`, so the server only
runs in a test bench that does.

### 2.7 Heap, Mmio, Memory

`Heap`: addresses are numbers modulo `AddrMod`, increments are all the signed
numbers of that width, so that `brk + incr` wraps as it does in the code. The heap may
be empty (`link.ld` lets `__heap_size` be 0), in which `_sbrk` returns NULL (`SbrkReturns`,
`syscalls.c` 294); the run's heap is not, the proofs are of both. Above
`_sbrk` stands what the code assumes of newlib's malloc (external): it reuses
freed blocks that are large enough, grows the heap at the break, and may give the
topmost block back.

`Mmio`: a word is a set of bits; each volatile access of an operation is a step,
and another party (the device, an interrupt handler) may write any register
between two of them (`Other`). `stale` remembers whether it wrote the word an
operation had read. `Copy*` follow `mmio_region_memcpy32` through a first part, whole
words and a last part. `Bitfield` holds the functions of `bitfield.h` that they call.

`Memory`: one turn of a loop is a step. `memcpy`, whose parameters are `__restrict`
(`memory.h` 98: "non-overlapping regions"), is called for regions apart; the operands
of `memcmp` may overlap.

### 2.8 Printf, PrintfC

`Printf` is `_vsnprintf` with one step per part of a directive (text, flags and
width, precision, length, conversion); the conversions are functions from
arguments to text, written in the order of the code: `_ntoa_format`, `_ftoa`,
`_etoa`, `_out_rev`. A double is given by a sign, decimal digits and a scale, with
`lean` for what is smaller than the last digit; the exponent estimate of `_etoa` is
modelled by what it returns, which was compared with the compiled function on
several thousand directives. `PrintfC` says what the C standard prints, and
`Deviates`, `Rollover`, `LacksPoint`, `DeviatesExp`, `KeepsZeros` and `DeviatesSpecial` say
for which directives printf.c prints something else: both directions are checked. Of the
standard's `#` and `%g` (`CFigures`) the code knows nothing: it never writes a point
that no digit follows, and drops no zeros. The definitions were compared beyond the run's
instances: for integers with flags, widths and precisions around each other and
around the 32 characters of the conversion buffer, for `%e` and `%g` with some millions of
random combinations of flags, width, precision, number and buffer size. Left out there, and
said in the properties: more than nine decimals, beyond which `_ftoa` puts zeros, and
floating-point texts that do not fit the buffer (`InReach`). A precision above 41 fills
the buffer with these zeros before it is counted down to 9, so that `_ftoa` reads `pow10[]`
behind its end (`printf.c` 339, 346); what it makes of that finds no room in the text, and
the model has the text (`FixedText`).

## 3. The runs

All numbers are for the configurations in this directory.

| run | configuration | states | shows |
|---|---|---|---|
| `periph_bus` | two readers, one writer, lines 1 (a register and a hole) and 9 (a slave that never answers), reads of 32 bits | 217 375 | `TypeOK`, `NoResponseLost`, `ResponsesMatch`, `MetaHasRoom`, `WriteErrorExact`, `ImplementsSerialPort`, `EveryRequestAnswered` |
| `periph_bus_unmapped` | one reader, one writer, a line no rule matches | – | `UnmappedIsError` is violated |
| `periph_bus_read_error` | the same | – | `ReadErrorExact` is violated |
| `uart` | TX FIFO of 1, RX FIFO of 2, 2 bytes out, 3 bytes in, increments 0, 2684, 65536 | 134 813 | `TypeOK`, `TxInOrder`, `WriteComplete`, `RxOrder`, `CallsReturn` |
| `uart_getchar` | FIFOs of 2 | – | `EveryByteReturned` is violated |
| `fast_intr` | three held lines, each raised twice | 146 367 | `TypeOK`, `AtMostTwoRuns`, `HeldLineServed` |
| `fast_intr_clear` | two pulsed lines and a held one | – | `ClearsOnlyItsBit` is violated |
| `soc_boot` | 45 command lines: boot modes, kinds of file, limits in every unit and one that wraps, broken options; exit codes 0, 1, 512; three traps | 45 449 | `TypeOK`, `ValidMeansFinal`, `PassIsEarned`, `LimitKept`, `LaunchedByBench`, `SimulationEnds`, `BootsToMain` |
| `bitbang` | two debuggers, two commands each out of 1, 4, R, Q; room for one reply | 170 278 | `TypeOK`, `QuitEndsConnections`, `EveryEdgeSeen`, `ReplyIsCurrent`, `HangUpKeepsServer`, `DebuggersServed` |
| `sequential` | *loader*: words of 2 bytes, chunks of 4, 8 words of SRAM, a CPU address of 4 bytes, files of up to two segments; *heap*: from 2 to 9, addresses modulo 32, every increment and size; *mmio*: three words of four bytes of one bit, every start and length, one other write; *memory*: six bytes of one bit, every content, operands and length | 281 582 | `TypeOK`, `ImageLoaded`, `BrkInHeap`, `BlocksApart`, `OperationIsExact`, `ResultIsRight`, `LoopsEnd`, `NeighboursKept` |
| `sram_width` | the same | – | `CpuReadsImage` is violated |
| `printf` | 13 families of directives and arguments | 183 002 | `MatchesC`, `FloatsMatchC`, `SinkHoldsText` |

The loader and the three library parts share no state and call each other
nowhere, so `sequential` checks them in one run in which the other three rest;
nothing is lost by it, as no property speaks of two of them. Some properties
are conjunctions whose parts are stated where the part is modelled:
`FloatsMatchC` (`FixedIsNearest`, `ExponentIsRight`, `SpecialsAreShown`),
`OperationIsExact` (`CopyIsExact`, `FieldIsSet`, `FewReads`), `ResultIsRight`
(`CopyCopies`, `SetFills`, `CompareOrders`, `SearchFinds`, `LooksOnly`) and, of liveness,
`SimulationEnds` (`LimitEnds`, `ExitEnds`), `DebuggersServed`
(`CommandsExecuted`, `TickEnds`) and `LoopsEnd` (`LoadEnds`, `OperationsEnd`).

**Why the bounds are enough.** The bus holds at most one transaction in the
lanes, one in the fork and the meta buffer and one at the head of each channel;
three ports fill every place and leave one to wait outside, on the channel where
arbitration happens. A line with a register and a hole, and strobes that cover a register, a
part of it or nothing, give every combination of faults the two lanes can have. FIFO depths of 1
and 2 make the FIFOs full and empty within two or
three bytes, and the driver never has more than one byte on its way; three bytes
from the host overflow an RX FIFO of two. Three lines are one being served, one
interfering and one waiting; two raises let a line rise again while its handler
runs. The safety properties of output and bus, and the number of handler runs,
are also proved for all values (section 4), so their bounds do not matter.

*SocBoot*: the test bench moves in slices, so a slice of 100 cycles and limits of
0, 30, 40.01, 100, 124.1, 200 and more cycles lie on both sides of it; a unit is ten
of the next, a cycle 100 ps and the limit 20 bits wide, so that 106 s wrap to 114.24
cycles; exit codes 0, 1 and 512 are success, failure and a failure that 8 bits hide. *ElfLoad*:
two segments are
enough for an overlap, a shared word, equal addresses in both orders, and a word
of two bytes and a chunk of two words for every remainder. *Bitbang*: a first
connection and the one after it. *Mmio*: three words have a first, a whole and a
last one. *Heap*: all sums of the address width are tried. *Printf*: widths and
precisions go around the length of each number, and around the 32 characters of the
conversion buffer; integers of 20 and 24 bits (`IntMod`, `LongMod`) stand for 32 and 64.

**Deadlock** is checked except where stopping is legal: in `periph_bus` an access
to the slave that never answers hangs the bus (that is a hazard, not an error of
the model), in `Uart` the program may stop calling and the host sending, a process
ends (`SocBoot`, the loader), a server aborts (`Bitbang`), and a call of a library
function returns (`Mmio`, `Memory`, `Printf`).

**Violations** are disagreements between the code and its own text:

* `UnmappedIsError`: `bus_subsystem.sv` 150 promises an error slave for
  non-matching addresses; the decoder's default is slave 0, so unmapped pages
  are aliases of soc_ctrl and a stray write at offset 0 sets EXIT_VALID.
* `ReadErrorExact`: `axi_to_detailed_mem.sv` 507 describes the active banks of a
  read by byte offsets; operator precedence makes the code use the line number. A
  32-bit read of FAST_INTR_ENABLE is answered SLVERR because of the hole beside it.
* `EveryByteReturned`: `uart.c` 100 reads one byte from the FIFO; the poll before
  it has taken one already.
* `ClearsOnlyItsBit`: `fast_intr_ctrl.h` 117-118 clears the bit of the requested
  peripheral; all pending bits are reloaded.
* `CpuReadsImage`: `memory_subsystem.sv` 25 speaks of a 64 KB SRAM and gives its address
  14 bits, and `link.ld` 22-24 lays out two regions of 32 KB; the CPU has the first 16 KB
  four times (`AddrWidth` is computed from the number of words, and bytes are what it
  counts on line 82), while the loader fills the whole array.

**Further disagreements** between the code and its text are inside properties
that hold because they say exactly what the code does, or were seen while
modelling:

* `remote_bitbang.c` 138 and `remote_bitbang.h` 39 put off to the next call what the
  loops wait for in this one; the simulation stands still until a debugger acts
  (`DebuggersServed` has that as its condition).
* `printf.c` 345 handles the carry of a rounded fraction, but not if the fraction is
  exactly half way (`Rollover` in `FixedIsNearest`). `printf.c` 448 knows 307 as the
  largest exponent; 0 is printed by `%e` with one of -308. `printf.c` 442 corrects
  rounding errors of the exponent; for 10^3 and 10^5 it makes one, and `%e` prints
  `10.000000e+02` and `10.000000e+04` (`DeviatesExp` in `ExponentIsRight`). C drops zeros
  at the end of `%g` and asks for a point with `#`; the code does neither (`KeepsZeros`,
  `LacksPoint`, `LacksPointExp`), but `0.0096`, of which it drops a digit by
  mistake, may come out right (`LosesOnlyZero`).
* `printf.h` 84 says that the count written is returned; a text that was cut returns
  the length of the whole (`SinkHoldsText` is about the buffer only).
* `tb_sim_ctrl.cpp` 49 offers `-q` and `--no_err` to always return 0; `-q` is not in
  the list of short options (line 37), and an early end does not look at it.
* `tb_utils.cpp` 153 announces an idle boot when no boot mode is given; the mode "0"
  it returns is not one of those `tb_sim_ctrl.cpp` 94 knows, and becomes a forced
  boot.

**Fairness.** *PeriphBus*: weak fairness of every handshake, as a circuit takes
every handshake that stays possible; strong fairness of `Arbitrate`, because the
arbiter of `axi_mux` is a round robin and does not pass a waiting port over
for ever, though its channel is taken by others again and again. No fairness for
`Ask`. The slaves in `Dead` never become ready. *Uart*: the processor goes on
with the call it is in and the transmitter shifts; the host need not send, so
only calls that transmit are claimed to return, and only if the increment is
not 0. *FastIntrCtrl*: the clock runs and handlers are executed; peripherals need
not raise anything. *SocBoot*: the process runs on (weak fairness of `Next`), and a
CPU that can take one of the steps that need nothing from the program takes it
after some cycles (strong fairness of `CycleSystem`, because the test bench's own
steps come in between); the program need not end. *MCSequential*: a sequential
program, the loader or an operation on registers, goes on; the other writer of
`Mmio` need not. *Bitbang*: the simulation goes
on calling the server (weak fairness of `Server`); debuggers and network may do
nothing.

## 4. The proofs

All proofs are for arbitrary constants under the named assumptions
(`PortAssumption`, `MapAssumption`, `UartAssumption`, `SourceAssumption`,
`SocBootAssumption`, `ArgvsAssumption`, `ClientsAssumption`, `CapsAssumption`,
`HeapAssumption`, `MemoryAssumption`, `MmioAssumption`, `WordBitsAssumption`,
`SizesAssumption`, `FilesAssumption`, `CallsAssumption`, `TypeSizesAssumption`): ports are
readers or writers, marks are not
values, sets of the right kind, the heap is in the lower half of the addresses, a word
is a whole number of bytes. For the loader: a chunk and the address space are whole
numbers of SRAM words, the SRAM lies within the address space, the CPU reaches at
least one word of it, and no segment is longer than the 2^32 bytes that the address of
`tb_loadChunk` tells apart (a longer one would be written over itself). For printf: a call has
as many
arguments as its directive has stars, each of its type, a double above
PRINTF_MAX_FLOAT is at least 10^9, and types and buffers have a size.

**PeriphBus.** `NoResponseLost` and `ResponsesMatch` are not inductive. `FlowInv`
(`PeriphBusProofs`) adds where a transaction is: `CreditInv` – with no credit
taken all lanes are empty, with one taken all lanes hold the same transaction,
each in exactly one place, and it is the oldest of the meta buffer, or, if the
fork has served the lanes first, the one the fork still holds; `QueueInv` –
which entries the meta buffer has in each state of the fork; `LifeInv` – a
port keeps its transaction from channel to answer and no channel asks for it
twice; `OwnerInv` – the lane on the register bus has an access to make. One lemma
per action; `FlowCorrect` gives `TypeCorrect`, `NoLoss`, `Match` and `Room`.
`AccessInv` adds what was done: which lanes made their
access, and that each response reports the fault of its own access. With it every
step of the bus is a step of `SerialPort` or none (`Implements`), and `Answer`
computes the error from the right faults (`WriteExact`).

**Uart.** `ConsoleInv`: between calls everything written is on the wire; while
`uart_putchar` waits at most one byte is not, in the FIFO or in the transmitter;
and, the point of the proof, a STATUS half that was read with TXIDLE set still
means "drained" when the driver looks at it, whatever happened in between
(`IdleInv`). It follows that no reset by a later `_write` cuts a byte: `Complete`,
`InOrder`, `UartTypeCorrect`. For input, `RxInv` orders all places a byte of the
host can be in: what was returned comes before what the driver holds, that before
the FIFO, that before the shift register (`Held`, `Past`); a poll, an overflow or a
reset only takes bytes out of this order. `ReceivedInOrder` follows.

**FastIntrCtrl.** `RunsInv` counts for each line how many runs of its handler what
is raised, pending or being cleared can still cause (`Owed`), and bounds the
sum; `ClearInv` says that a clear bit belongs to the handler that runs. `TwoRuns`
and `FicTypeCorrect` follow.

**SocBoot.** `ResetInv`: in which phases the chip is in reset and what the registers
then hold; `LaunchInv`: a forced loop exit belongs to a forced boot with a loaded
image; `ExitInv`: where the CPU is tells which of the two writes of `_exit` are done,
so EXIT_VALID without the final value occurs in no state (`ExitValueIsFinal`,
`StatusIsEarned`, `LaunchIsForced`), unless the CPU is in what a torn file left.
`TimeInv`: `now` and the cycles left are at most a start-up, or a slice that began
below the limit; the limit is what was asked for unless the product overflows
(`LimitIsKept`).

**Bitbang.** `TickInv`: between ticks the simulation's pins are the server's, within
one they differ only after the command was executed, and the sample of TDO is the
line's value (`NoEdgeIsLost`, `ReplyIsFresh`). `ServerInv`: after a quit the client of
the moment has executed nothing; `WaitingInv`: the server and its queue
(`QuitIsForGood`, `HangUpStarvesOthers`).

**ElfLoad** (`ElfLoadProofs`). `FileInv`: while the segments are read, the map of memories
has for each address of a section the bytes of the first segment at that address, and the
list of sections has the addresses in the order of the file. `PlaceInv`: where in the
sections and the chunks of one the test bench is, and what it still finds in the map.
`SramInv`, without which `ImageLoaded` is not inductive: at any moment each SRAM word
`Shows` the last chunk that was written `On` it, of the sections done and of the one half
done. `ImageLoaded` is this invariant at the end of the list. The arithmetic is in three
lemmas: which word is some words further on (`WordOfSum`), how far it then is from a word,
around the end of the address space too (`FromFurther`), and that a section is too short
for its chunks to come around to it again (`ChunkReaches`).
`CpuReadsAQuarter` says how far the violated `CpuReadsImage` fails: the CPU finds a byte of
a well laid out file exactly if it lies below the width of the CPU's address. Of the segments
of such a file each word has one writer (`OnlyWriter`), a byte is in the word its address
says (`ByteIn`), and no other word is equally far from the segment (`FromApart`), so that
a CPU whose address is cut off reads a byte of the wrong word. `ChunksAreFound` is a fact no run
needs to state:
the test bench never asks the map for a chunk it cannot serve.

**Heap** (`SequentialProofs`). `HeapInv`: break between the ends, blocks below it, apart, and
either live or
free. The arithmetic step is that a sum which passed the comparison did not wrap
into the heap from outside (`BreakStaysInHeap`, `BlocksNeverOverlap`).

**Memory** (`SequentialProofs`). `CopyInv`: after i turns the first i bytes of the destination
are those
of the source as it was, or the byte of `memset`, and the rest, the source of a copy with
it, is untouched. `LookInv`: what was looked at so far was equal, or not found, and nothing
changed. `MemcpyCopies`, `MemsetFills`, `CompareIsOrder` and `SearchIsExact` make
`ResultsAreRight`.

**Mmio** (`SequentialProofs`). `OpInv`: a copy is as far in the region as in the buffer, and
after its first part it stands at the start of a word. `ReadInv`: what was read is
still in the register unless the other party wrote it, so that a write puts back what
is there (`RegistersKeepNeighbours`). On these rest three invariants, of which
`OperationsAreExact` is the sum: `FieldIsSet` itself, by `ReadBack`; `CountInv`, the
reads made against the bytes moved; and `CopiedInv`, which bytes are moved so far and
that no others changed. The work is in the places: `WithinWord`, `Quotient` and
`NextWord` say that a part of a copy lies in one word and where the next begins.

**The sequential parts beside each other** (`SequentialProofs`). `PartsMove`: a behaviour of
`MCSequential`, in which the four parts share a next-state relation and nothing else, is a
behaviour of each part. So `SequentialTypes` gives its `TypeOK`, and `SequentialSafety`
what each part promises. The theorems of the loader and of `Mmio` are about `LoadSteps`
and `MmioSteps`, the specifications without their fairness, which they do not need.

**Printf** (`PrintfProofs`). `SinkHoldsText` alone is not inductive: that the text is a text
needs every conversion to put out characters, which needs its width and precision to
be numbers, which needs a star of the format to find its argument. `PrintfInv` says where
the walk is (`Walk`) and what has been put out (`Written`). `Walk` is the whole reading of a
format: in every stage, what is left is the rest of the directive from a certain part on,
and flags, width, precision and the arguments left are what the C standard makes of the parts
before it (`CFlags`, `CWidth`, `CPrec`). It holds because the characters by which the code
decides are in classes apart (`ClassesAreApart`, with the assumption that the specifier is
none of them), because a number does not start with the flag 0 (`DecimalHead`), and because
`_atoi` reads back what was written in decimal (`AtoiOfDecimal`, from `AtoiSteps` and
`SumIs`). The conversions are recursive functions; the library's induction theorems take
operators, so induction is made from the least element of a set of numbers (`WellOrder`,
`Induct`), and `Recursion` shows that a function exists that is given by its value on a
smaller number. On these rest the types of digits, powers and `_atoi`, and of every
conversion (`ConvertedIs`). `CallFits` gives the invariant to a call; `PrefixOfBoth` is the
buffer's step, and `TerminateKeeps` the terminator's place. The results, for any directive,
arguments, `maxlen` (0 too) and size of the conversion buffer: `SinkIsExact`, and
`TextsAreRight`, the part of `MatchesC` on characters, strings and percent signs. At the end
of the walk the text between the literals is `Converted` with the standard's flags, width
and precision (`InnerIs`). The same lemma gives `SpecialsAreRight`, the part of
`FloatsMatchC` on infinities and NaN: what the code and the standard print is a sign,
three letters and blanks, and both texts are told apart by the characters they have, by how
they begin and by their length (`SpecialsAgree`). The proof failed at first for a NaN with
the sign bit, which C prints as `-nan` and the code as `nan`: `DeviatesSpecial` had left it
out and the instance had none.

**Integers** (`IntegersAreRight`, and with the texts `TextsAndIntegersAreRight`, which is
`MatchesC`). `IntegersMatchC` is an equivalence: outside `Deviates` the texts are the same,
and within it they differ. Both texts are brought to one form, blanks, sign, prefix, zeros
and digits (`CIntegerIs`, `ShownInteger`); the buffer holds them back to front, so that
the reverse of a concatenation, of zeros and of two characters come first
(`ReverseAt` to `ReverseTwice`), and what the limit of the buffer makes of two appended
parts (`RoomTwice`, `PaddedTwice`). The digits are the same on both sides
(`FiguresAre`, `ValuesAgree`), sign and flags too (`CodeFlagsAre`, `SignAre`), so that what is left
is arithmetic of lengths: `LengthsCompared` says when the two texts have the same length,
and `SameUnlessCut` that they are then the same unless the buffer is cut. Texts of
different lengths are apart (`ShorterIsApart`, `Apart`); of the same length they
may differ in one blank (`BlankSigned`) or in the minus sign that %hhd loses
(`CharLosesSign`). `IntegersAgree` joins the cases. The types may have any width and the
buffer any size, also one smaller than a number.

**%f** (`FixedIsRight`). Rounding in `_ftoa` splits a number into whole and fraction before
it rounds; `RoundNear` (from `DividedTwice`) says that this gives one of the nearest
multiples of the last decimal (`CNearest`), unless the fraction is half way to the next whole
number (`HalfWay`). The digits of both sides are brought to one form, decimals, point and
whole part back to front (`Written10`): those of the code by `NumberIs`, for which the
zeros that the code adds on the left of a fraction (`LowTimes`, `SamePlaces`) and the limit of
nine decimals (`NineIsEnough`) are accounted for, those of the standard by `CDecimalIs`. Field and
sign are `JustIs`. The other direction needs texts to differ: in the missing carry zeros
fill the buffer and no point is left (`NumberRolls`), without decimals there is none
(`WholeIsDigits`), and -0 has no sign, while every text of the
standard has both (`FixedIsNone`). The powers of ten in the properties were written with
`^` and had to become the table's (`Pow10`), about which induction says something
(`PowersTimes`).

**Model-checked only.** Liveness (`EveryRequestAnswered`, `CallsReturn`,
`HeldLineServed`, `SimulationEnds`, `BootsToMain`, `DebuggersServed`, `LoopsEnd`) is
outside what the prover can do. Of `FloatsMatchC` the part `ExponentIsRight` (%e and %g):
the parts of such a text are covered by the lemmas for %f and for integers, but not their
combination in every case of `DeviatesExp`, nor the zeros that C drops. The violated properties
have no theorem, of
course.

## 5. What is not modelled, and why

* *Data cache and byte lanes*: `memory_subsystem.sv` 52 ties the byte enable of the
  SRAM to 1. Which bytes a store of part of a word overwrites depends on what the
  write buffer of CVA6's write-through cache puts beside them.
* *Crossbar*: ID routing, its other slave ports and the decode error slave; the
  bursts of the external master through the converter.
* *Register blocks* of soc_ctrl and the interrupt controller beyond their address
  decoding and the registers named above; BOOT_ADDRESS and
  SYSTEM_FREQUENCY_HZ as values.
* *UART*: interrupts (masked), parity, loopback, break, override (switched off by the
  driver), bit timing.
* *SocBoot*: the CPU before the first reset and after the `wfi` of `_exit`;
  `extract_memory_type`, whose result `tb_loadChunk` does not use; waves, logs and
  statistics; `sim_cycles_` itself overflowing, after 213 days of simulated time.
* *Heap*: what newlib's `malloc` makes of a NULL from `_sbrk`; here it fails by -1 only.
* *Printf*: a format that ends within a directive; a fault of the load behind `pow10[]`; errors
  of the floating-point unit
  in `_etoa` other than those of its estimate.
* *Base library*: the bit-counting functions of `bitfield.h`, which are compiler
  builtins.
* *System bus access of the debug module*: a master of `PeriphBus` like the others.

Possible next steps: `Uart` over `PeriphBus`, replacing the argument of section 2.2
by a refinement; the data cache's write buffer above the SRAM.

Left out for good: the CVA6 core and the debug module (vendored; the models use
that an uncached load waits for earlier stores and that a handler runs with
interrupts off), build and generation scripts (offline tools), example
applications (their calls are those `Uart` lets a program make), top-level wiring.
