# A TLA+ model of CFU Playground (custom boards)

CFU Playground builds a small RISC-V system on an FPGA: a VexRiscv CPU, a
*custom function unit* (CFU) attached to its pipeline, memories and peripherals
put together by LiteX, and the TensorFlow-Lite-Micro software that runs on it
and calls the CFU for the inner loops of a network. This directory models the
parts that carry the repository's own logic and in which several agents act at
once or a long sequence of steps has to come out right.

Paths below are relative to the root of the repository.

## Inventory

### Parts with state of their own

| Part | Source | State it keeps | Operations | What makes it hard |
| --- | --- | --- | --- | --- |
| Convolution CFU | `proj/filter_preload/cfu.sv` | FSM state, accumulator, layer configuration, three loop counters, Wishbone outputs, two fetched words, `rsp_valid` | nine commands (`funct7` 0..8), reset | works on both clock edges, fetches over a bus with any delay, reads operands it never latched, tests its counters after advancing them |
| CPU side of the CFU port | `soc/vexriscv/VexRiscv_SlimPerfCfu.v` (CfuPlugin and the stall logic around it), generated from `GenCoreDefault.scala` | the execute, memory and writeBack stages, `hold`, `fired`, `CFU_IN_FLIGHT`, the response buffer | pipeline advance, stall, flush, reset | speculation, stalls in any stage, a one-entry response buffer |
| Convolution driver | `proj/filter_preload/src/.../integer_ops/conv.h` | four loop indices, the last response | the command sequence of a layer | relies on state the CFU keeps from one command, and one layer, to the next |
| Amaranth CFU base class | `python/amaranth_cfu/cfu.py` | FSM state, stored function id, stored output, the instructions' own state | command, done, transfer, reset | combinational start and response, a response the CPU may not take at once |
| Clock controller | `soc/clock_control.py` | which of CPU and CFU is enabled | one decision per oscillator cycle | each side's clock depends on the other side's signals |
| Sequential memory reader | `python/amaranth_cfu/util.py` | previous `next`/`restart`, address, data | next, restart | address one cycle ahead of the data |
| LRAM of the HPS | `soc/hps_lattice_nx.py` | the `ack` bit, the blocks' words and their outputs | read, write, the CFU's ports, initial contents | words striped over blocks, two ports on two clocks, an acknowledge on a third |
| Clock and reset generators | `soc/hps_proto2_platform.py`, the two boards of `python/custom_boards/targets` | power-on counter, PLLs, synchronizers, button timer | power-on, press, reset of the SoC, fallback to the bootloader | clocks that stop or are not there yet while a reset is released |
| Build and load workflow | `soc/common_soc.py`, `soc/board_specific_workflows`, `soc/patch_cpu_variant.py` | generated cores, LiteX's copies of them, the output directory, the board's flash | make, build, load, software load | state that outlives a run, a run that fails or is killed in the middle |
| Template CFU and driver | `proj/proj_template/cfu.sv`, its `conv.h` | FSM state, accumulator, fetched words | two commands | same bus, both clock edges |
| Performance counters | `common/src/perf.h`, `perf.cc`, `PerfCsrPlugin` | 32-bit counters, enables, start counts, `mcycle`/`mcycleh` | enable, disable, reset, read | a 64-bit value read in halves while it runs |
| Illegal instruction handler | `common/src/instruction_handler.cc`, `crt0-vexriscv.S` | saved registers, `mepc` | trap, emulated division, return | state shared with interrupted code |
| Parallel place and route | `scripts/parallel-nextpnr-nexus` | running children | launch, wait, pick a winner | children end in any order |

### Parts without

SoC assembly (`soc/hps_soc.py`, `soc/sim.py`, `python/custom_boards/targets`)
is a sequence of calls into LiteX, made once for a set of options. What is hard
about it is the number of combinations: a call needs attributes, files and pads
that other calls have made or taken, and the address space, the LRAM and the
configuration of the software are decided in several places that have to agree.
`python/vexriscv_cfu_ram/core.py` wires CPU, CFU and memory and appears in the
models as that wiring. Menus, the TFLite runner, the utilities and the report
scripts are sequential programs without interaction. The rest of the VexRiscv
core is generated third-party code, TensorFlow Lite Micro and the benchmarks are
vendored.

### How they interact

* CPU and CFU: a valid/ready command channel (function id, two operands) and a
  valid/ready response channel, wired in `core.py:125-162`. No tags: a response
  belongs to a command by order alone.
* CFU and memory: the convolution CFU is a Wishbone master of its own
  (`core.py:137-148`), sharing memory with the CPU.
* Driver and CFU: `cfu_op0` commands; the CFU keeps configuration and counters
  between them.
* Clock controller: sees the four handshake signals, enables the two clocks
  (`hps_soc.py:118-151`).
* CPU, CFU and LRAM: the CPU reads and writes over the bus, the CFU reads the
  same words through ports of its own (`hps_soc.py:170`), each on its own clock
  enable (`hps_soc.py:153-159`).
* Boards and resets: the generators decide when the registers of the SoC start.
* Workflow and SoC: `common_soc.py` makes a SoC for a variant of the CPU, whose
  core, compiler flags and reset address have to fit what ends up in the flash.
* Reset: the system's resets CPU and CFU; `self.reset` (`core.py:47`) the CPU only.

### What makes them correct

* A CFU instruction gets the result computed for it: none is lost, doubled or
  swapped, whatever stalls or is flushed around it; the CFU has no effects for
  an instruction that may still be flushed; only CFU instructions reach it.
* The CFU multiplies the words its counters point at, whatever the memory's
  delay; it reads nothing outside the tensors; its sums are those of the
  reference kernel; every layer ends.
* Neither side's clock stops while that side is needed, and never both.
* Whatever is striped, gated and acknowledged in between, CPU and CFU read the
  words the program wrote.
* A SoC leaves reset with every register cleared, and the way back to the
  bootloader does not depend on it.
* A combination of options builds or raises, and what is built has memories at
  addresses of their own, clocks, and software configured for it.
* What is on a board after a run that says it succeeded is what was asked for.

The hazards, each with the line where it bites and the property that covers it
(or why none does yet), are listed in `PROJECT.json`.

## Modules

| Module | Models | Builds on |
| --- | --- | --- |
| `ConvCfu` | the convolution CFU and the memory slave on its Wishbone port | |
| `VexCfuPlugin` | the CPU side of the CFU port | |
| `CfuMaster` | abstract: a program that gives the convolution CFU one command at a time | |
| `ConvSoC` | CPU, convolution CFU and memory on one clock; implements `CfuMaster` | `ConvCfu`, `VexCfuPlugin`, `CfuMaster` by `INSTANCE` |
| `ConvCfuProofs` | lemmas about the CFU: what each edge and the reset do to its registers | `ConvCfu` |
| `ConvSoCProofs` | theorems about `ConvSoC` | `ConvSoC`, `ConvCfuProofs` |
| `ConvLayer` | the driver's command sequence on the CFU, over several layers, and the reference kernel | `ConvCfu` |
| `ConvLayerProofs` | theorems about `ConvLayer` | `ConvLayer`, `ConvCfuProofs` |
| `CfuUnit` | abstract: a unit that takes one job at a time and returns its result | |
| `AmaranthCfu` | the Amaranth base class and its instructions | |
| `ClockControl` | the clock controller | |
| `AmaranthSoC` | CPU, Amaranth CFU and clock controller; implements `CfuUnit` | the three above it, `CfuUnit` by `INSTANCE` |
| `SequenceReader` | abstract: a buffer read item by item | |
| `MemReader` | the sequential memory reader and its memory; implements `SequenceReader` | `SequenceReader` by `INSTANCE` |
| `AmaranthProofs` | theorems about `AmaranthSoC` and `MemReader` | `AmaranthSoC`, `MemReader` |
| `NxLram` | the LRAM behind its bus and its second ports | |
| `HpsMemory` | LRAM, CPU, CFU and clock controller of the HPS | `NxLram`, `ClockControl` |
| `HpsMemoryProofs` | theorems about `HpsMemory` | `HpsMemory` |
| `PowerOn` | clock and reset generators of four boards | `ClockControl` |
| `PowerOnProofs` | theorems about `PowerOn` | `PowerOn` |
| `SocCalls` | calls that put a SoC together | |
| `HpsSoC` | the calls of `hps_soc.py` | `SocCalls` |
| `SimSoC` | the calls of `litex_sim.py` and `sim.py` | `SocCalls` |
| `BoardSoC` | the calls of the Arty and the OrangeCrab | `SocCalls` |
| `SocBuild` | making these calls, for any options | the three above it |
| `SocBuildProofs` | theorems about `SocBuild` | `SocBuild` |
| `CpuVariants` | names, parameters, files and flags of CPU variants, and what their cores have | |
| `BoardWorkflow` | runs of `common_soc.py` on one board and output directory | `CpuVariants` |
| `BoardWorkflowProofs` | theorems about `BoardWorkflow` | `BoardWorkflow` |
| `MC*` | instances for TLC | |

Operators named after an operator with a suffix and commented *Fault* are the
same code with a plausible bug. No specification uses them; they are there to
show that each property can be violated by an error in the code.

### `ConvCfu`: `proj/filter_preload/cfu.sv`

State variables carry the names of the registers. `CfuNegEdge(cmd)` is the
`always @(negedge clk)` block together with `next_state`, one disjunct per
state; `CfuPosEdge(rsp_ready)` is the `rsp_valid` flip-flop; `CfuReset` the
asynchronous reset, which clears only the registers the code clears. Registers
are 32 bits wide: arithmetic is modulo `WORD`, a constant that is 2^32 in the
code and smaller in the runs so that wrap-around happens. Three abstractions:

* The accumulator is the sequence of *products* added to it: the words fetched,
  the lanes selected and the input offset. Equal sequences are equal sums, and
  a sequence can be compared with the reference kernel term by term.
* A word read from memory is represented by its address.
* The nine-bit `InputOffset` keeps its width (`Low9`).

The slave (`SlaveAnswer`, `SlaveError`, `SlaveWait`) is any Wishbone memory: it
may answer, report an error (with `ack` or without, and a word that means
nothing) or wait in each cycle in which it is addressed, and may still answer a
request for one edge after it has been withdrawn.

### `VexCfuPlugin`: the CPU side

Registers and combinational signals carry the names of the generated Verilog
without their prefixes. `CpuPosEdge` is one rising edge for the three last
stages and the plugin's registers. An instruction is one of five kinds, which
is all that plugin and stall logic distinguish. What the rest of the core does
is chosen freely each cycle: `halt` (a cache refill or a CSR access, a busy
divider, a busy data cache), `flush` (a load that is redone, an exception,
a return) and `decoded`, the instruction that comes next.

### `ConvSoC`, `CfuMaster`

One action per clock edge (`RisingEdge`, `FallingEdge`) and `Reset`. On the
rising edge CPU, memory and `rsp_valid` read each other's old values; on the
falling edge the CFU's machine reads CPU and memory. `serving` and `answered`
are history: which instruction the CFU works for and what it answered it.

`CfuMaster` is what a program may rely on, seen from the wires: a command stays
until its response comes, the response is taken on the rising edge on which it
is valid, is that command's, and has been used before the next one comes. It has
no pipeline, no speculation and no buffer. In the mapping `Offer` is what the
execute stage presents and `Buffered` the response in the plugin's buffer, with
the instruction it is for.

### `ConvLayer`

`SetUp`, `StoreOutput` and `NextOutput` are the loops of `ConvPerChannel`. The
CPU is reduced to what `CfuMaster` says of it (command and operands held until
the response, which is taken on the edge at which it is valid), which `ConvSoC`
is shown to implement.
`Reference` is the vendored kernel's set of (image byte, filter byte) pairs; an
output is right if the lanes of its products are these pairs, each once, with
the layer's input offset. Requantisation of the sum is left out.

### `AmaranthCfu`, `ClockControl`, `AmaranthSoC`, `CfuUnit`

`AmaranthCfu` has one action per FSM state (`WaitCmd`, `WaitInstruction`,
`WaitTransfer`), each with `check_instruction_done` where the code calls it,
while the instructions run alongside (`NextUnit`). The instructions are those
of `test_cfu.py` and the fallback: combinational ones are always done,
registered ones take their operands at start and are done for one cycle, any
number of cycles later. `ClockControl` is the controller's FSM with its two
outputs; `DynamicClock = FALSE` is the SoC without it. One step of
`AmaranthSoC` is an oscillator cycle in which CPU and CFU each tick or stand
still.

`CfuUnit` is what the program may rely on: a job begins when the unit is free,
finishes with its own result, and only a reset drops it. In the mapping the job
is that of the instruction in memory (`in_flight`), or of the one in execute
whose command has been accepted (`fired`); `taken` is recorded when the
instruction leaves the memory stage with the value it takes.

### `MemReader`, `SequenceReader`

One step is a cycle of `SequentialMemoryReader` with the read port it drives
(`Cycle`), while somebody else may write a word (`Write`). `limit` changes only
with a restart, as the comment in `test_util.py` has it ("depth constant for
this test"); a limit lowered while reading would let the address run past it.
The address on the port *is* the abstract reader's upcoming item; `data` is
what it shows.

### `NxLram`, `HpsMemory`

`NxLram` is the memory: which block and row an address of the bus stands for
(with one port the high bits choose the block, with two the low ones), the bus
side with its clock enable and byte enables, the second port of each block, and
`ack`. A word read on one port while it is written on the other comes out old or
new. `HpsMemory` adds what is around it in `hps_soc.py`: a CPU that keeps a
transfer until it is acknowledged and looks only when it has a clock, a CFU that
gives addresses to its ports when it has one, and the clock controller. One step
is an edge of the oscillator, which clocks `ack` and the memories
(`hps_soc.py:208`, `:217`). `image` is history: the memory as the program has
left it. The 64-bit width, which nothing in the repository uses, is left out.

### `PowerOn`

One step is an edge of the board's own clock; the clock of the SoC is derived
from it (`SysEdge`): by a PLL, a divider that the DDR PHY stops and resets, or a
gate. `Por`, `Timer` and `Synchronizer` are the power-on counter, the button's
`WaitTimer` and the `AsyncResetSynchronizer`; the PLL locks at any time once
it is out of reset, and stays locked until it is in it. The SoC asks for a
reset at any time it runs, the button is pressed and released at any time.
`cleared` and `held` are history: whether the registers have had an edge in this
reset, and how long the button has been down. The bootloader starts everything
anew (`Reload`).

### `SocCalls`, `HpsSoC`, `SimSoC`, `BoardSoC`, `SocBuild`

A call is a record: what it needs, which pads it asks for, what it makes, which
window of the address space it maps, how many blocks of LRAM it takes and
whether its own assertions hold. `HpsSoC`, `SimSoC` and `BoardSoC` translate the
constructors and `main` functions into sequences of calls, one operator per
method, as functions of the options that change what is put together. `SocBuild`
makes the calls one by one: `Make`, or `Raise` when something a call needs is
missing. Addresses and sizes are in units of 64 KB; of a file only its size in
words is kept (`FileWords`). What is not asked for, or not there, is `"none"`.

### `CpuVariants`, `BoardWorkflow`

`CpuVariants` is the naming of `patch_cpu_variant.py`: which variants are known,
which are generated and from which parameters, which file holds their core and
what the compiler is told. It is also what a core has (multiplier, divider, data
cache): `GenCoreDefault` is the generator, as a function of its options, which
are the variant's parameters for a core that is generated and the recipe in
`soc/vexriscv/Makefile` (`MakefileOptions`) for one of the repository. The
defaults of the two differ: `patch_cpu_variant.py` asks for no divider, the
generator makes one when it is not told. `BoardWorkflow` is a process that runs
`common_soc.py` (`Start`), step by step, over state that outlives it: the
repository's cores (`cores`), LiteX's copies (`vdir`), the output directory
(`out`) and the flash of the board. Any step may fail where the code can, the
process may be killed at any step, and someone may make a core anew between two
runs. A file that a run replaces in one step (the toolchain's bitstream) is
replaced in one step; flash that is being programmed, with gateware or with
software, is left in pieces. A core's file is a record: what the core has, and
which of its making it is; half of a core is `PartOfCore`, and of the cores that
come with LiteX nothing is known (`LitexCore`). What gateware contains is the file
that LiteX had at that moment, so `RunsOnItsCore` compares what the compiler was
told in one run with a core made by whichever run made it. The variant of a run
says a parameter once and writes its value in one way (`WorkflowAssumption`):
`dCacheSize:0` is searched for as text, and `dCacheSize:00` would not be found.

## Runs

| Run | Question | Result |
| --- | --- | --- |
| `soc_protocol` | any interleaving of stalls, flushes, memory delays, errors, resets: is a response ever refused, lost, given to another instruction, or made of wrong words? does every CFU instruction complete? do pipeline and plugin implement the abstract master? | no; yes; yes |
| `layers` | is every output of a 1x1 layer on four channels the reference kernel's, and on eight and twelve every output but the first? do layers end, do reads stay in the tensors, whatever layer or reset came before? | yes |
| `layer_first_output` | and the first output? | no |
| `amaranth_no_divider` | does CPU + Amaranth CFU + clock controller implement the abstract unit, in a core without a divider? does every job end, with clocks being stopped? | yes; yes |
| `amaranth_divider` | with a divider and multi-cycle instructions: do only CFU instructions become commands? | no |
| `memory_reader` | are items shown in order, each as it was when asked for? | yes |
| `hps_memory` | do CPU and CFU read what the program wrote, through striping and two ports? | yes |
| `hps_memory_gated` | and with dynamic clock control? | no |
| `soc_build` | does a build raise for exactly the options listed, and is what it makes consistent? | yes |
| `soc_build_lram` | does an HPS take the LRAM there is? | no |
| `power_on` | is no register released without a clock edge, does the button reach the bootloader when held and only then, does the SoC start? | yes |
| `workflow` | after any runs, failures and kills: is software where its CPU starts, gateware whole, success a build, the core in the gateware the current one, and the software compiled for that core? | yes |

### Findings

1. *First output of a layer* (`layer_first_output`, `cfu.sv:162`): the test for
   the end of the depth is made after the counter has advanced, so a convolution
   that starts at depth 0 ends four channels early. The counter then stays on the
   last chunk, and since no command clears it the *next* convolution starts
   there, wraps and covers every channel: all outputs of a layer are right but
   the first. With four channels there is nothing to miss.
2. *Hold outlives its command* (`amaranth_divider`,
   `VexRiscv_SlimPerfCfu.v:5503`): `hold` is set whenever a CFU instruction is
   scheduled, even if its command has already been accepted, and cleared when the
   CFU is ready. A division does not count as having side effects, so a CFU
   instruction behind one is sent at once and waits in execute; if its CFU needs
   more than a cycle, `hold` is still set when it moves on, and the next
   instruction is sent to the CFU as if it were one of its own, its result
   replaced by the response. Cores generated without a divider, and CFUs that
   answer in the cycle of the command, are not affected, and the refinement holds
   for them. The convolution CFU is not affected either: it becomes ready in the
   cycle in which it answers.
3. *Acknowledge without a read* (`hps_memory_gated`, `hps_lattice_nx.py:201`):
   with dynamic clock control `ack` runs on the oscillator while the memory
   behind it has the clock enable of the CPU. `ack` toggles as long as a transfer
   waits; if the CPU's clock comes back in a cycle in which it happens to be set,
   the CPU takes the transfer for done although the memory has not had an edge
   since it was asked: it reads the output of an earlier read, or loses a write.
4. *Six blocks of five* (`soc_build_lram`, `hps_soc.py:105`):
   `--separate-arena` is looked at before `--execute-from-lram`, so with both the
   branch that leaves a block for the ROM is not taken: 64 KB of memory, 256 KB
   of arena and 64 KB of ROM are 384 KB, where `RAM_SIZE` (`hps_soc.py:53`) is
   320. Nothing in the repository looks at the sum. `LramSharedOut`, which holds,
   says that these are the only options for which it is not five blocks.

### Observations without a run

* A function code without a state (`cfu.sv:142`) is accepted in `INIT` and never
  answered; the CPU waits for ever. `ConvCfu` has the behaviour, and the
  programs of the runs use known codes (`KnownOps` in the proofs).
* At the end of the depth in the middle of a row `CALC_COORDS` has no way out
  (`cfu.sv:163`): a layer with filters larger than 1x1 never ends.
* With `--execute-from-lram` the clock enable of the ROM is never driven
  (`hps_soc.py:224`), so the memory the CPU starts from has no clock.
* `--debug` of the HPS cannot be built: its UART is a second one, which the
  platform does not have. `sim.py --run` without `--bin` goes on to boot from
  memory that holds nothing.
* In the variants of the iCE40UP5K boards one is called `fonu+cfu`
  (`ice40up5k.py:41`), so that `fomu+cfu` is replaced by itself; `__all__` of the
  workflows lacks a comma (`board_specific_workflows/__init__.py:48`).
* A variant that is neither known nor to be generated ends in `exit()`, with a
  status of zero. `OkMeansBuilt` excepts it.
* Software on the iCEbreaker begins at a fixed offset, and nothing checks that
  the gateware ends before it; the Fomu's image builder does check.
  `GatewareWhole` excepts it.
* A generation that is killed may leave half a core behind, which the next run
  takes for one (`patch_cpu_variant.py:211`); `--load` without `--build` loads
  whatever gateware is there, also of another variant.

One comment is imprecise without consequence: above `cmd_ready`, `cfu.sv:177`
says "Only not ready for a command when we have a response", while the CFU is
not ready in every state but `INIT`, long before there is a response. `ConvSoC`
shows why the CPU depends on that: the operands are not latched, and it is the
CPU waiting for ready that holds them. A CFU ready as the comment says would
lose its operands (the fault `cmd_readyUnlessResponse`).

### Bounds

* `ConvSoC`: five ids, because four instructions can be of interest (in execute,
  in memory, being served, last answered); ids have no effect in the hardware
  and are reused. `Ops` {0, 4} stand for the command that convolves and one that
  sets registers: the others differ in the registers they write, and all nine
  occur in `ConvLayer`. `MaxProducts` bounds the accumulator: no new convolution
  begins above it. One convolution has both fetches, so every interleaving of CPU
  and memory around them occurs. `WORD` 32 is enough for the addresses involved.
* `ConvLayer`: layers of 1x1 filters on four, eight and twelve channels (one,
  two and three chunks), two outputs in each of batch, column and channel, so
  every loop goes round and every offset command is given twice; two or three
  layers, so that what a layer leaves behind meets the next; offsets at both
  ends of their range; one reset (`MaxResets`) at any moment. `WORD` 1024 holds
  the tensors, and negative operands wrap. `layer_first_output` needs one layer
  of eight channels.
* `AmaranthSoC`: two pairs of operands (`Inputs`), so that two calls of a function
  have different results and the operands of one are not the same; one
  combinational and one registered instruction, the only two kinds; the pipeline
  is bounded by itself.
* `MemReader`: three words, so that first, last and middle item differ and a
  limit below, at and above each address occurs; two values.
* `HpsMemory`: two blocks of two rows, the fewest for which block and row can be
  confused; words of one byte with two values. Writes of some bytes of a word
  are covered by the proofs, which hold for any set of lanes. The gated run
  needs one block.
* `PowerOn`: `PorCycles` 2 and `HoldCycles` 4, so that a PLL can lock and the
  SoC come out of reset within a press; all boards, all choices of locking,
  pressing and resetting at each edge. The proofs cover every length.
* `SocBuild`: files of 16384 words, which is what a block of LRAM holds, and of
  one word more; every combination of options is a behaviour. The proofs hold for
  files of any size.
* `BoardWorkflow`: a variant LiteX knows (`fomu` of the repository takes its place
  on the iCE40 boards), a misspelt one, one generated from the defaults, one
  without a data cache and one from a parameter there is not; gateware that just fits
  and gateware that does not; options as the Makefile combines them; one change
  of a core. Runs follow one another without bound.
* Deadlock is checked in every run but `soc_build`, in which a build ends, built
  or raised.

### Fairness

The clock runs: weak fairness of `RisingEdge` and `FallingEdge`, of `Tick`.
Beyond that, each environment does not do the same thing for ever: a memory
that is asked again and again answers at some time (`MemoryAnswers`); a core
that is offered a cycle again and again sometimes neither halts nor flushes
(`CoreMoves`) - caches fill, divisions end; an instruction of the CFU ends
(`InstructionEnds`); the program goes on (`ProgramRuns`). These are strong
because an edge at which they can happen alternates with edges at which they
cannot. No fairness is assumed of CFU or plugin logic: it is deterministic and
moves with the clock. In
`PowerOn` the board's own clock goes on ticking, whatever the PLLs do, and
nobody has to touch the button or reset the SoC for it to do so. That the PLL
locks, and that the DDR PHY gets through its initialisation, are premises of
`SocStarts`; `BootloaderReachable` has no such premise.

## Proofs

The `*Proofs` modules prove for every value of the constants what the runs check
on small ones.

Assumptions, all named in the modules: `WordAssumption` (a word has more
than four values, so that the counters can step), `SoCAssumption` (non-empty
operands and ids, enough ids that a fresh one exists), `RegisteredAssumption`,
`DynamicClockAssumption`, `ReaderAssumption` (at least one word, and zero
among the values), `FilesAssumption` (sizes of files are natural numbers), `LramAssumption` (one to five blocks, a power of two with two
ports, as the code asserts), `PowerOnAssumption` (delays are positive),
`ModelsAssumption` (layers as TFLite makes them: not empty, groups that divide
the channels) and `WorkflowAssumption` (the boards, variants and sizes of
gateware there are); and
as hypotheses of theorems `KnownOps` (the program
uses function codes 0..8) and `HoldClears` (no divider, or instructions that
answer in the cycle of their command), and `~DynamicClock` for what `HpsMemory`
reads and writes. They are what the observation on function codes and findings 2
and 3 say is needed. The theorems about `ConvLayer` have two hypotheses of their
own, which `MCConvLayer` states as an assumption, so that TLC evaluates them on
the models of the runs: `PointwiseModels` (below) and `WORD % 512 = 0`, which
2^32 satisfies: the nine bits of the input offset are sign-extended to a word.

*`ConvSoC`.* No safety property is inductive alone. `HandshakeInv` says where
the handshake can be on each level of the clock: the CFU works only for a
command being presented; `rsp_valid` lives from the rising edge in a final
state to the next one; the command fires on that edge and no other; a buffered
response belongs to the instruction in memory or to a fired one in execute.
From it follow that no response is refused (`NeverRefused`), that an
instruction reaches memory with its answer (`AnsweredBeforeMemory`), that no
command is speculative (`CommandsAreCommitted`), and, as an action property,
that operands are held (`OperandsHeld`; the run checks it as part of
`MasterSpec`). `AnswerInv` adds whose answer is in
which place and gives `ResultsMatch`. `FetchInv` says which address an
acknowledge is for on each level of the clock and gives
`ProductsOfFetchedWords`: the half-cycle between `FETCH_VAL` and `FETCH_FILTER`
is where the argument is needed. `TypeCorrect` needs none of these.
`ImplementsMaster` maps every edge and the reset to a step of `CfuMaster`: on the
rising edge on which `rsp_valid` is set the command on the wires is the one the
CFU works for and the buffer is free, which is what `HandshakeInv` and
`AnswerInv` are for; on any other the wires keep what they offer, or begin to
offer, and a buffered response is kept or used. It is the assumption `ConvLayer`
makes of the CPU, so what is proved of layers holds on the pipeline.

*`ConvLayer`.* The theorems are about every sequence of layers with any number
of batches, rows, columns, output channels and input channels, any offset and
any stride, whose filters are 1x1 with all input channels and no padding, and
whose tensors begin at a word and end before the address space does
(`PointwiseModels`; the number of channels is a multiple of four). With larger
filters a layer does not end (above), so there is little to prove. Contents do
not occur in the model. The reset may come at any edge. The invariant has five
parts.
`HandshakeInv`: for the command the driver presents, the states the CFU can be
in on each level of the clock, and that a response waits for no other command.
`ConfigInv`: by the order of the driver's commands, what each register of the
configuration holds from which command on. `DepthInv`: every convolution leaves
the depth counter at the last chunk of four channels (`D - 4`), so the next one
begins with that chunk and goes on from zero - the reason why the first output of
a layer with more or fewer channels than the one before it is wrong, and why
`Steady` outputs are not. `SumInv`: the accumulator holds the products of the
chunks passed, the last chunk first, with the offset of the layer cut to nine
bits, which `SignedOffset` shows to lose nothing. `FetchInv`: which word of which
tensor is on the bus, or has arrived. `WholeSum` says that the chunks are the
reference kernel's sum, `Addresses` and `Chunks` that the CFU's address
arithmetic modulo the word is the kernel's `Offset`. From the invariant follow
`SteadyOutputsAreExact`, `FourChannelsAreExact` and `FetchesStayInTensors`.
`ConvCfuProofs` has what this proof and that of `ConvSoC` say of the CFU alone.

*`BoardWorkflow`.* The theorems are about every set of variants, every size of
gateware up to the four units the model gives it, and any sequence of runs with
failures and kills anywhere. `OutInv` says that what is in the output directory
starts where the board has its software, whichever run left it there; `RunInv`
what a process knows after each step; `CoreInv` that from the copy on LiteX
has the core the repository has; `BuildInv` that what a run loads is what it has
built; `ImageInv` what is in a Fomu's image. `FlashInv` is the strengthening
`GatewareWhole` needs: gateware starts in one unit only, and is whole, or a unit
of it is garbage, or software has been written over its end, which only the
iCEbreaker allows. Each way of writing the flash has a lemma (`FlashGateware`,
`FlashCutGateware`, `FlashSoftware`, `FlashImage`, `FlashCutImage`). From these
follow `SoftwareWhereItStarts`, `ZeroMeansBuilt`, `GatewareStaysWhole` and, as an
action property, `LatestCore`. `CompilesForItsCore` has an invariant of its own,
`CoreContents`: every file of a core, in the repository and in LiteX, and the core
in the gateware, has what the name of its file says (`CoreHas`); two variants may
share a file, so this needs that all parameters are in the name. `FlagsAndCore`
adds that flags and cache configuration of a variant say the same, given the
assumptions on how parameters are written.

*`AmaranthSoC`.* `HandshakeInv` states that a response is due exactly while a
job is in the unit and is in exactly one place (the CFU or `rData`), and that
`hold` belongs to a command that is still presented - the conjunct that fails
without `HoldClears`. `ResponseInv` says that wherever the response is, it is
that of the job. The inductive step is cut by who ticks: CPU with or without
CFU, CFU with or without CPU. `ImplementsUnit` then maps every step: a command
accepted is `Begin`, an instruction leaving memory is `Finish` (with the next
job if another command is accepted in the same cycle), a reset is `Reset`, all
else stutters. `ClocksAreSafe` and `InstructionsStartIdle` are consequences of
the invariant.

*`MemReader`.* The type invariant with the bound of the address by the limit
is inductive; `ImplementsSequence` follows from it step by step, with
`ShownNext` saying what the port shows one cycle after it was pointed.

*`HpsMemory`.* `Places` and `Striping` are about addresses alone: with either
layout every address of the bus has a place and no two share one, and word `r` of
block `b` is word `Blocks * r + b`. `MemoryInv` relates memory, bus and history:
a word is the program's, or the program's with the bytes of the write under way,
which the edge that ends the transfer writes once more (`MergeTwice`); and the
block read shows the program's word from the edge that acknowledges it on. It is
inductive only while the CPU has a clock at every edge. `ReadsAreExact`,
`WritesAreInPlace` and `PortsMeanTheSame` follow. Types (`TypeCorrect`) are
proved with the clock controller, too, and not checked by a run.

*`PowerOn`.* `TimerInv` says that the timer and the time the button has been
down add up, which gives `NeedsHold`; `LockInv` that a PLL locks only after the
power-on delay; `ClearedInv` that a synchronizer that has let go of its first
stage has seen an edge of the SoC's clock; `GateInv` that the reset of the HPS
opens the gate of its own clock - without it the step of `ClearedInv` on the HPS
would not go through, since a gate that stays shut lets no register clear. From
these follows `StartsClean`.

*`SocBuild`.* A program is a sequence of calls that depends on its options, and
the theorems are about all of them and files of any size. The first part of
`SocBuildProofs` is about sequences of calls: what they make (`Made`), ask for
(`Asked`), map (`Mapped`) and take (`Takes`), and whether all of them can be made
after what others have (`Runs`), each with the lemma that says it of two
sequences one after the other (`DoesConcat`, `RunsThen`). Then every method has a
lemma that says what it does and under which condition on the options it can be
made, up to the five programs (`DoesHpsMain`, `DoesSimMain`, `DoesLitexSimMain`,
`DoesArtyMain`, `DoesOrangecrabMain`); `Buildable` is what these conditions come
to, and `BuildableOrNot` that it is the opposite of the list in `Unbuildable`.
The invariant of the machine, `BuildInv`, has two parts besides the types:
`NothingLost`, that what has been made and what is still to be made is what the
program makes, and `StillRuns`, that the rest can be made exactly if the whole
could, which is where a pad asked for twice or a call made too early would show.
`RaisesOnlyForThose` follows from it at once. A build that has ended has made all
the program makes (`BuiltHps`, `BuiltSim`, `BuiltLitexSim`), from which follow
`StartsInMemory`, `SpendsAllLram`, `ArenaIsThere`, `SidesAreClocked` and
`BootsImages`. The last rests on what the BIOS does with its constants: it tests
SDRAM there is unless `SDRAM_TEST_DISABLE` says not to (`MemoryIsTested`, external). `NoSharedAddress` holds during the build, too: every window lies
in the region of its slave (`InRegion`), regions are disjoint but for that of the
LRAM and the main memory (`RegionsDisjoint`), and no program has both (`Apart`).

Only model-checked: liveness, which needs fairness and `ENABLED` and is out of
this prover's reach: that commands, jobs and layers end, that the SoC comes out
of reset and the button reaches the bootloader. The four runs that end in a
violation are, by their nature, only model-checked. Every safety property,
action property and refinement that a passing run checks is proved, under the
hypotheses above; for `ConvLayer` these leave out filters that are not 1x1.

## Not modelled, and why

* Arithmetic of lanes: which bytes are multiplied is modelled, what their
  product is in 16 bits is not.
* A reset of the CPU alone (`core.py:47`), which leaves the CFU in the middle of
  a command: LiteX decides what drives it.
* Requantisation, bias and activation clamp after the CFU's sum: vendored code
  on values.
* The template CFU: its bus and its handshake are those of the convolution CFU,
  and its two commands are two of its states. `soc/cfu/Cfu.v` is the
  combinational instruction of `AmaranthCfu`.
* Performance counters, the instruction handler, menus, the TFLite runner and
  the utilities: sequential programs on values of registers.
* `parallel-nextpnr-nexus`, Renode and report scripts: the first waits for
  children of which any may win, the others turn text into text.
* LiteX and Migen themselves: a call into them is what the repository relies on
  (`external` in the map).
* The layout of `INITVAL` parameters, build templates, and options that change
  no call (frequencies, file names, verbosity). Of the Arty's, also those that
  add a peripheral and nothing else: SD card, flash, JTAG, the Numato adapter.
* The `.v` files of the repository's cores: what they have is taken from the
  recipes they are made with.
* What the image file of the Fomu held before a run: opening it for writing
  empties it.
* Flash and files are written in units; how LiteX's programmers talk to a board
  is not modelled.

## What could follow

1. `TemplateCfu` on `VexCfuPlugin`, with its driver: the convolution fetched
   word by word by commands; compared with the reference.
2. A reset of the CPU alone in `AmaranthSoC` and `ConvSoC`: which answers can
   reach the wrong instruction.
3. `PerfCounters`: `mcycle64` over two registers, start counts and totals over
   enable, disable and wrap; `InstructionHandler`: trap, emulation, return.
4. Lane arithmetic and the layout of initial contents as operators against
   reference definitions.
5. Theorems: `SteadyConvolution` for 1x1 filters with padding; `ConvLayer` as a
   composition of its driver with `CfuMaster`.
