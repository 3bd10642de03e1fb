# FISMOS in TLA+

FISMOS is a security module for Zynq systems: a PicoRV32 softcore in the FPGA
fabric runs a firmware with cryptographic services, and programs under Linux on
the ARM cores use it through an AXI4-Lite shared memory (two registers and two
exchange buffers), either by mapping the device or through a kernel module.
This directory holds its specification: TLA+ modules translated from the code,
TLC configurations that check them on small instances, and proofs checked by
TLAPS. Paths below are relative to `src/`.

## 1. The system

### Components

| Component | State | Operations |
|---|---|---|
| Firmware: `firmware/fismos_firmware_main.c` and the handlers `fismos_tinyAES.c`, `fismos_hmac.c`, `fismos_keystorage.c`, `fismos_rsa.c`, accessors in `fismos.c`, start-up in `start.S` | program position, the local `..._RUN` flags of `main()`, the handler's copy of the input and loop index | poll the control register; acknowledge (`0x0000ffff`), clear the interrupt (`0x00ffffff`), report "working" (`0x000F00mm`), copy the input, compute, write the output, report "done" (`0x00FF00mm`) |
| Shared memory: `gateware/axil_dp_ram.v`, addresses in `_config.v` | control and status register, `bram_in`, `bram_out` (16 words each), the handshake registers of two AXI4-Lite ports, two interrupt lines | Linux (port A) writes control and input, reads all; the softcore (port B) writes status and output, reads control, status and input |
| Softcore bus: `fismos.v`, `fismos_AXI_shared_memory.v`, `picorv32_axi_adapter.v`, `cpu_memory.v`, `io_memory.v`, `resetn_oneshot.v` | processor RAM, output register, ready lines, the adapter's acknowledgements, the reset synchroniser | one memory access at a time, decoded by address to one of three slaves |
| PicoRV32: `picorv32_core.v` | registers, decoder and memory state machines | executes the firmware |
| Kernel module: `software/src_LKM/fismos.c` | file-level address variables, four mutexes, static input arrays; what is registered with the kernel | `read`, `write` and `open` of three device files, load with its error ladder, unload |
| Host programs: `software/src_baremetal/test_baremetal.c`, `software/src_linux_app/*` | their position in the protocol | load input, write command, (poll status,) fetch output, write zero |
| tinyAES: `firmware/aes.c`, `aes.h` | `struct AES_ctx`: key schedule and Iv, carried from call to call | the block cipher; ECB, CBC and counter mode on a buffer, in place |
| C library support: `fismos_syscalls.c`, `fismos_memcmp.c` | heap break | `_sbrk`, `memcmp`, output, stubs |
| Testbench: `gateware/fismos_tb.v` | stop condition | simulation only |
| Build: linker scripts, `Makefile`, `scripts/xilinx` | none | none |

### Interaction and what is hard

The two sides share nothing but the memory, and neither locks it. Every access
of one side can fall between any two of the other. A *request* is a word that
stands in the control register until it is replaced; an *answer* is several
buffer words and a status word, written one after the other. The firmware
remembers in local flags which modes it has run, clears them when a poll reads a
zero, and never confirms that it saw the zero. The softcore can be reset at any
clock edge, while the shared memory keeps its content. One level down, three
slaves answer one bus whose ready lines are joined by an exclusive or, and an
adapter keeps acknowledgements in registers of which a reset clears one. On the
Linux side several processes run the same driver functions at once, over
file-level variables, and open its files while it is being loaded, fails to
load, or is removed. The cipher's functions work in the caller's buffer and keep
a pointer into it.

What must be right, by component:

* **Firmware**: the copy never invents a word; "done" stands over one whole
  answer; the answer is withdrawn before it is overwritten; a mode runs once per
  request; a failed run never says "done".
* **Protocol**: a program that waits gets its own answer and does not wait for
  ever; a zero re-arms the modes.
* **Bus**: at most one slave answers; an access is performed exactly once; a load
  returns its own place's value; no access hangs, also after a reset.
* **Port A**: writes are performed and answered once; answers wait until they are
  taken; reads and writes do not starve each other; an interrupt is raised once.
* **Kernel module**: a reader gets its own register, what a
  writer parses is its own text as far as that goes, calls return; loading puts everything in place or nothing, a part is taken away
  once and only if it is there, and no open file loses its code by unloading.
* **tinyAES**: the cipher and the modes are the standard's, and decryption restores
  the message however either side splits it into calls.

`PROJECT.json` lists the hazards line by line, with the properties that watch
each of them.

## 2. Modules

```
FismosRegisters                 words, modes, status values
  |-- FismosCore                firmware + shared memory + any host + reset
  |     |-- FismosService       refinement mapping to CommandService
  |     |     `-- FismosCore_proofs
  |     `-- FismosHost          FismosCore + a program that follows the protocol
  |           `-- FismosHost_proofs (+ FismosCore_proofs)
  |-- CommandService            what the module promises, atomically
  `-- AxilDpRam (+ AxilPort)    shared memory, port A, clock edge by clock edge
        `-- PortAMemory         refinement mapping to AtomicPort
              `-- AxilDpRam_proofs
AtomicPort                      what port A promises to Linux
AxilPort                        the AXI4-Lite handshake of one port
  `-- SoftcoreBus               core, slaves, adapter, port B, reset
        `-- SoftcoreMemory      refinement mapping to AtomicMemory
              `-- SoftcoreBus_proofs
AtomicMemory                    what the bus promises to the firmware
FismosLkm                       the kernel module's calls
  `-- FismosLkm_proofs
FismosLkmLoad                   loading, unloading, open files
  `-- FismosLkmLoad_proofs
Aes                             the block cipher of aes.c
  |-- FismosAes                 key, Iv and test vector of the firmware
  `-- AesTables (+ AesStandard) its tables next to the standard's
        `-- Aes_proofs
AesStandard                     the cipher as FIPS 197 defines it
AesModes                        ECB, CBC, CTR over several calls, any cipher
  `-- AesModes_proofs (+ Aes_proofs)
MCAes = AesModes + FismosAes + AesTables; the other MC modules instantiate one each
```

* **FismosRegisters**: a 32-bit word is a pair of 16-bit halves. `Half` is half the
  depth of a buffer (8 in the code): HMAC and RSA read and write `Half` words, AES
  and the keystorage all `2 * Half`; the comparison reads all and writes one.
* **FismosCore**: every access of shared memory by the firmware is one action
  named after its place in the code; `pc` names the place. `PollRequest` is the
  if-chain of `main()` (the values are distinct, so the order of the branches does
  not matter); `StartWork`, `ReadWord`, `Compute...`, `WriteWord` and `Finish` are
  the common shape of the five handlers, which differ in `InLen`, `OutLen` and in
  how they fail: a rejected comparison writes `0xffffffff` and spins, a rejected
  keystorage spins, an mbedTLS error makes `main()` spin or, for RSA, traps the
  processor. (The comparison itself is made: `fismos_hmac.c` defines
  `FISMOS_VERBOSE`.) *What* a mode computes is the parameter `Compute(m, x, k)`
  and the result of `memcmp` is `Accepts(m, x)`. The host is arbitrary: any
  control word of `Commands`, any input word, at any moment. `Reset` is the reset
  line; `Boot` is `start.S` and the beginning of `main()`. Registers without an
  `initial` value power up as 0.
* **CommandService**: the same interface without the steps. A request is taken, the
  old answer is withdrawn, and the new answer appears *whole*, computed from an
  input every word of which was on offer since; or the service falls silent.
  **FismosService** instantiates it: the visible answer is the output buffer while
  the status says "done", and nothing otherwise.
* **FismosHost** composes FismosCore with one program: load, command, wait for
  `Expected(mode)`, fetch, write zero, next. `test_baremetal.c` has this shape. Its
  polling loop is the guard of `SeeStatus`: of all readings only the last matters.
  It is parameterised by the modes it requests, whether it repeats one, and the
  status word it waits for.
* **AxilPort**: both ports of `axil_dp_ram.v` run the same logic, so it is written
  once: `AfterEdge(s, m)` are the port's registers after an edge in state `s` under
  the master's signals `m`.
* **SoftcoreBus**: one step is one rising edge; all parts compute their next state
  from the same old state, as non-blocking assignments do. The core is what the bus
  sees of it: it offers an arbitrary access, holds it until it is answered, takes
  the answer, may hold `mem_valid` up for the second word of an unaligned fetch, and
  may trap. Four adapter registers have no initial value and start with any.
* **AtomicMemory**: the memory the firmware believes in. An access is offered, takes
  effect at one moment, is answered with what its place held then, and is taken;
  only a reset cuts it off. **SoftcoreMemory** instantiates it: an access is offered
  while `mem_valid` is up and `mem_ready` is not, and answered while both are. This
  is why FismosCore may have one action for each access of shared memory.
* **AxilDpRam**: port A at clock-edge level under any AXI4-Lite master: address and
  data offered at different edges, answers taken when the master likes, and the
  interrupt logic. The softcore's stores are single steps here.
* **AtomicPort**: the memory a program on the Linux side believes in. A read and a
  write may wait at the same time; each takes effect at one moment and is answered
  once, a read with what its place held then; only a reset drops it.
  **PortAMemory** instantiates it: an access waits from its offer (a write, from the
  offer of the later of its two parts) to the edge that performs it. This is why
  the host's accesses in FismosCore and FismosHost are single actions.
* **FismosLkm**: each `read` or `write` is a sequence of steps, one per access of
  what calls share: the address variables, a mutex, the device, the static array.
  Every call is the first on a newly opened file and asks for all there is. Of the
  static array the model has the characters that are parsed (`Parsed`, 9 in the
  code); a text overwrites as many of them as it has, and what stood behind stays.
* **FismosLkmLoad**: `fismos_init()` as the list of what is still to be registered,
  the labels of its error ladder (`Ladder`) and `fismos_exit()` as lists of what is
  still to be taken away, one kernel call per step. `Failing` is what the kernel
  may refuse. Processes open a file from the moment it is registered; the kernel
  keeps a module whose files are open (they name their `.owner`), but frees one
  whose init failed in any case.
* **Aes**: `KeyExpansion`, `Cipher`, `InvCipher` and what they are made of, one
  operator per function, with the tables of the code. `Nk` is what `aes.h` defines
  by `AES128`, `AES192` or `AES256`. **AesStandard** is written from FIPS 197
  without tables: bytes are polynomials, the S-box is computed. **AesTables** says
  that the tables and the arithmetic of the one are those of the other
  (`TablesAssumption`): statements about single bytes, all of which TLC evaluates.
* **AesModes**: a sender and a receiver with a context each, a call as a sequence of
  blocks done in place. `at` is the pointer `Iv` of `AES_CBC_encrypt_buffer()`,
  which points into the buffer until it is stored at the end. The cipher is a
  parameter, so that the modes can be proved about without it.
* **FismosAes**: what `FISMOS_AES256_decrypt_CBC()` passes to the cipher, and the
  words the testbench puts into the exchange buffer.

One word stands for each buffer in the edge-level modules: nothing in the
handshake depends on the offset. History variables (`seen`, `job`, `held`,
`performed`, `current`, `window`, `unanswered`, `unread`, `armed`) are read by
no guard and are described where they are declared. Definitions whose comment
begins with "Mutant" are deliberately wrong versions of the definition below
them, used to see that a property can fail.

## 3. What is checked

| Run | Shows | Bounds |
|---|---|---|
| `core` | `CopyIsRegular`, `DoneMeansAnswered`, `AnswerStaysPut`, `OncePerRequest`, `FailureIsSilent`, and that FismosCore implements CommandService (`ServiceSpec`) | `Half` = 1: buffers of 2 words of 2 values; RSA, comparison and keystorage requested; any host, any number of resets |
| `host_each_mode_once` | a program that requests four modes (AES, comparison, RSA, keystorage) once each, in any order, gets its own answers (`FetchedIsMine`) and never waits for ever (`EveryCommandAnswered`) | all orders of the modes, one reset anywhere |
| `softcore_bus` | `OneAnswerer`, `PerformedOnce`, `LoadIsRegular`, `StoreTookEffect`, `AccessEnds`, and that SoftcoreBus implements AtomicMemory (`MemorySpec`) | 2 values; resets and traps at any edge, unbounded |
| `port_a` | `WriteOnce`, `AnswersHold`, `ReadIsRegular`, `NoStarvation`, `InterruptOncePerPress`, and that AxilDpRam implements AtomicPort (`PortAtomic`) | 2 words from Linux, the firmware's 2 acknowledgements |
| `lkm_one_file` | `ReadIsRegular`, `ParsesOwnText`, `EveryCallReturns` when processes use one device file | 2 processes, 2 values; 2 characters are parsed, of texts of 1, 2 and 3 |
| `lkm_load` | `UndoesTheDone`, `LoadedIsComplete`, `NothingLeftBehind`, `OnlyFailureTakesCode` when the kernel refuses at most the status register's file | 3 processes; any number of loads and unloads |
| `aes` | `SentIsStandard`, `DecryptRestores` in ECB, CBC and CTR | `Nk` = 4; the firmware's key, the four blocks of its test vector; 2 Ivs, of which one makes the counter carry over eight bytes; every split into calls on both sides |

`core` requests three of the five modes. Between them they read half of the buffer
and all of it, write half, one word and all, and fail in every way there is: AES
differs from the keystorage only in that it never fails, HMAC from RSA only in
that a library error leads to the loop of `main()`, as it does in the comparison.
The proofs cover all five. It is the largest run (1.3 million states).

The bounds are enough for what the properties tell apart. Two words of two values
make a torn, a shifted and a stale copy all different from a right one, and make
the half-buffer modes leave a rest; `MCCompute` names an answer after everything
it depends on, so answers are equal only when they should be. Nothing else is
bounded in `core`, `softcore_bus`, `port_a` and `lkm_load`: hosts, resets, clock
edges and loads go on for ever and the state space is finite by itself. In FismosHost
`Rounds` and `MaxResets` bound the program's commands and the resets.
Two processes are what it takes for the kernel module's calls: those of a third would
meet the same variables in the same states. Four blocks let a call of several
blocks follow another on each side. With every run of `MCAes` TLC also evaluates
`TablesAssumption`: for each byte `sbox` is the S-box of the standard, `rsbox` its
inverse and `xtime()` the double, for each two bytes the exclusive or is the sum of
polynomials, and `Rcon` has the powers of two.
`CHECK_DEADLOCK FALSE` appears in the
FismosHost configurations only: a program that has no command left stops, and a
softcore that failed spins or is trapped.

### Where code and documentation disagree

These runs state what a document, comment or test says, and TLC finds a
behaviour of the code that violates it. The findings in `PROJECT.json` quote
the lines.

| Run | Violated | Behaviour |
|---|---|---|
| `host_repeats_mode` | `FetchedIsMine` | a second request of the same mode finds the "done" of the first, and the first answer is fetched for the second input |
| `host_zero_missed` | `ZeroResets` | a zero replaced before the next poll re-arms nothing, and the next request of a mode that has run is ignored |
| `lkm_two_files` | `ReadIsRegular` | reads of two device files share the address variables outside their mutexes |
| `lkm_load_fails` | `UndoesTheDone` | when the data buffer is refused, its label takes away the data buffer, and the status register stays in the kernel |
| `aes_256` | `DecryptRestores` | the build defines `AES128`, so the input of the testbench does not decrypt to the `out[]` it was made for; with `Nk` = 8 it does |

Two consequences for users of the passing runs: `host_each_mode_once` holds
because no mode is repeated, and because modes 3 and 4, which report the same
status word, are not both requested. The theorems about it have the same
hypotheses (`ProtocolKept`).

Further divergences need no run, as they can be read off a line:

* mode 4 reports `0x000F0003` and `0x00FF0003`, working on and done with mode 3
  (`main` 138, 151);
* mode 2 of the README has no branch in `main()`, and the host waits for ever;
* `test_baremetal.c:31` waits for `0xffff0001`, which the firmware never writes (it
  writes `0x00FF0001`, line 96 of `fismos_firmware_main.c`), so the test does not end;
* `fismos_luks.sh:7` and the shell example read the output without waiting for the
  status;
* the stores of the kernel module's `write` functions are commented out, while the
  writes report success;
* a text shorter than nine characters is parsed together with what the static array
  held behind it, as it is never cleared: the `12345678` of the Python examples
  (`python_example_dev_fismos/main.py:17`) is parsed as `123456780` in a module just
  loaded, which does not fit an `int`; after a text of the shell example, which has
  nine characters with its line end, it is parsed as meant. `ParsesOwnText` therefore
  speaks of as many characters as the text has;
* bit 24 of the status register is "Interrupt from FISMOS to Linux" (`README.md:78`)
  but the line `interrupt_to_linux` powers up as 1 (`axil_dp_ram.v:171`) with the bit
  0, and the firmware never sets the bit;
* other labels of `fismos_init()`: a refused instruction register jumps behind the
  label that would unregister the platform driver and leaves it in the kernel; a
  refused platform driver is unregistered although it never was registered; and a
  file that a process opened before a later registration failed loses its code.

### Fairness

* FismosHost: weak fairness of the firmware and of the program: the processor
  executes instructions and the scheduler runs the process. Resets are never owed.
* SoftcoreBus: weak fairness of a clock edge without reset and without a trap: the
  clock runs, and neither is ever owed, so that a hung access cannot count on a
  reset to end it.
* AxilDpRam: weak fairness of an edge at which the master takes what is answered
  and offers nothing new: the clock runs, answers are not refused for ever, the port
  is not held in reset for ever, and no offer is owed that would help another.
* FismosLkm: processes keep running, and strong fairness of taking a mutex:
  Linux mutexes hand the lock to a waiter that has been passed over.
* FismosCore has safety properties only, and no fairness.

## 4. What is proved

### Firmware and shared memory (FismosCore_proofs)

For every buffer size `Half >= 1`, every set of data values containing the power-up
content, every set of control words, every `Compute`, and every `Accepts` that
rejects only in the two checking modes (`HalfAssumption`, `DataAssumption`,
`CommandAssumption`, `AcceptsAssumption`):

| Theorem | Statement | Argument |
|---|---|---|
| `TypeCorrect` | `Spec => []TypeOK` | not inductive alone: an index must be *below* the bound of its loop before the access; `TypeInv` adds `IndexInRange` |
| `DoneAnswered` | `Spec => []DoneMeansAnswered` | `AnswerInv` follows a run through its phases: the status word fits `pc`, the job is the one whose input is in `in`, the words below `i` are written, and the input was accepted |
| `FailureSilent` | `Spec => []FailureIsSilent` | the part of `AnswerInv` on status and `pc` |
| `AnswerStays` | `Spec => AnswerStaysPut` | the steps that write the buffer start under a "working" status, by `AnswerInv` |
| `CopyRegular` | `Spec => []CopyIsRegular` | `CopyInv` adds that what the buffer holds has been seen |
| `RunsOncePerRequest` | `Spec => OncePerRequest` | `HeldInv`: a held mode has its RUN flag set, and no mode is held while a zero can be polled |
| `ImplementsService` | `Spec => ServiceSpec` | from these invariants, each action of FismosCore is one of CommandService or leaves it unchanged |

The strengthening is needed because each property speaks of one phase only:
"done" says nothing of how the words came to be written, and the loops establish
it a word at a time. `AnswerInv` is what a debugger would show at each place
of the code.

### A program on the Linux side (FismosHost_proofs)

For any number of rounds and resets, and a program that keeps the protocol
(`ProtocolKept`: no mode twice, no two modes with the same "done", the status the
firmware writes awaited):

| Theorem | Statement | Argument |
|---|---|---|
| `HostTypeCorrect` | `HSpec => []HostTypeOK` | with the bounds of the program's indices |
| `FetchesItsOwn` | `HSpec => []FetchedIsMine` | each step of the composition is one of FismosCore, so `TypeInv` and `AnswerInv` hold. `HostInv` adds: nothing tells of a mode before its command is given (`FreshModes`); from then on command and input stand (`CommandStands`), every copy of it is the program's input (`CopiesGiven`), so the "done" awaited is about that input (`DoneIsMine`); and a run that a reset causes during the fetch writes the same words again (`AnswerStands`) |

Without "no mode twice" the first of these parts fails, without "no two alike"
the fourth: they are what the firmware needs of its users, and the README of the
repository does not say so.

### Buses (SoftcoreBus_proofs, AxilDpRam_proofs)

For any values and places, and resets (and traps) at any edge:

| Theorem | Statement | Argument |
|---|---|---|
| SoftcoreBus `TypeCorrect`, `AnswersAlone`, `PerformsOnce`, `LoadRegular`, `StoreEffective` | `TypeOK`, `OneAnswerer`, `PerformedOnce`, `LoadIsRegular`, `StoreTookEffect` | `BusInv`: the bus is `Free`, or an access is `Pending` (offered, nobody answers, no acknowledgement is remembered), or `Done` (its one slave answers, with the value). An edge leads from each phase to the next or, through a reset, to `Free`; the acknowledgements a reset keeps are gone before the next access is offered |
| SoftcoreBus `ImplementsMemory` | `Spec => MemorySpec` | in `BusInv` the access of AtomicMemory is free when the bus is `Free`, offered when it is `Pending`, answered when it is `Done`. The edge that leaves `Pending` performs the access, with or without a reset; the one that leaves `Done` takes the answer; and Linux, writing between them, changes neither |
| AxilDpRam `TypeCorrect`, `WritesOnce`, `AnswersStay` | `TypeOK`, `WriteOnce`, `AnswersHold` | `Handshake`: each counter is what a register of the port says |
| AxilDpRam `ReadRegular` | `ReadIsRegular` | `ReadInv`: while a read waits, its window holds what its place holds; once performed, what it answers |
| AxilDpRam `ImplementsPort` | `Spec => PortAtomic` | `PortInv`: `Handshake`, and no channel carries more than one offer. The edge that performs an access is the one at which it stops waiting and its answer is counted; what is offered or taken at the same edge belongs to the other side or to the next access; a reset empties both sides, with or without a last effect |
| AxilDpRam `OncePerPress` | `InterruptOncePerPress` | `Armed`: bit 24 was seen clear unless the hardware remembers the interrupt |

### Kernel module (FismosLkm_proofs, FismosLkmLoad_proofs)

For any number of processes:

| Theorem | Statement | Argument |
|---|---|---|
| FismosLkm `TypeCorrect`, `ParsesOwn` | `TypeOK`, `ParsesOwnText`, for any files in use | a process between lock and unlock owns its file's mutex, so no other copies between its copy and its parse, and the copy puts the text in front (`OverwrittenType`) |
| FismosLkm `ReadRegular` | `ReadIsRegular`, if all processes use one file (`OneFile`) | the address variables can then hold that file's register only |
| FismosLkmLoad `TypeCorrect`, `LoadedComplete`, `FilesKeepTheirCode` | `TypeOK`, `LoadedIsComplete`, `OnlyFailureTakesCode`, whatever the kernel refuses | what is registered is what is no longer to do; from `rmmod` on no file is open |
| FismosLkmLoad `LadderUndoes`, `LadderLeavesNothing` | `UndoesTheDone`, `NothingLeftBehind`, if the kernel refuses the status register only | what is registered is exactly what is still to be taken away, at each place of the ladder and of `fismos_exit()` |

### tinyAES (Aes_proofs, AesModes_proofs)

For every key, block and key length the build may define (`NkAssumption`):

| Theorem | Statement | Argument |
|---|---|---|
| `BlockRestored` | `InvCipher()` undoes `Cipher()` | each step has its inverse: the exclusive or is a group, which its table of half bytes shows; `rsbox` undoes `sbox`, entry by entry; `InvMixColumns()` undoes `MixColumns()`, because both are linear (so is doubling, bit by bit), and on a column with a single byte all but that byte cancels. The rounds are then undone in the reverse order by induction over the round |
| `CipherIsStandard` | `Cipher()` after `KeyExpansion()` is the cipher of FIPS 197 | the words of the key schedule and the blocks after each round agree, by induction, because each byte of a round does. What is used of single bytes is `TablesAssumption` |
| `CounterIsStandard` | the counter loop is the addition of SP 800-38A | after `n` steps the bytes behind are added, and the loop is over if one of them was below 255 |

The modes are proved for any cipher first, under hypotheses on the constants, and
for tinyAES in the end. `CipherIsSound`: blocks are mapped to blocks, and decryption
and a second exclusive or undo the first; `CipherOfStandard`: cipher and counter are
the standard's; `NothingArrived`: the sender begins with an empty buffer (a run may
also begin with blocks that were encrypted elsewhere, as in `aes_256`). For any key,
Ivs and message, and any split into calls on both sides:

| Theorem | Statement | Argument |
|---|---|---|
| `TypeCorrect` | `Spec => []TypeOK`, given `CipherIsSound` | `CallFits`: the blocks of a running call are there to be taken |
| `SentStandard` | `Spec => []SentIsStandard`, given all three | `ChainInv`: the blocks done in the running call are what the property says of those returned, and the context's Iv, or what the pointer `Iv` points at, is the encrypted block before, or in CTR the first counter advanced by the number of blocks |
| `Restored` | `Spec => []DecryptRestores`, given `CipherIsSound` and `NothingArrived` | the same invariant on the receiver's side, where the copy of the block takes the place of the pointer |
| `TinyAesCorrect` | the three together for the functions of Aes (`TinyAes`) | the hypotheses hold for aes.c by the theorems of Aes_proofs |

Recursive functions (rounds, key schedule, counter) are reasoned about through two
lemmas at the beginning of Aes_proofs: a set that contains 0 and the successors of
its members contains every natural number (`SetInduction`, from the well-foundedness
of the naturals), and a function with a recursive definition exists (`RecursionExists`). Both are
stated for sets, not for predicates, so that the provers can use them.

### Only model-checked or evaluated

The liveness properties (`EveryCommandAnswered`, `AccessEnds`, `NoStarvation`,
`EveryCallReturns`): the prover does not handle fairness and `ENABLED`. That the
tables are the standard's: `TablesAssumption` is evaluated for every byte, in every
run of `MCAes`, rather than proved. A receiver that gets blocks encrypted elsewhere
(`aes_256`).

## 5. What is not modelled

| Part | Why |
|---|---|
| Heap: `_sbrk` and the allocations of the RSA handler, whose successful path frees nothing | what a signature allocates, and in what pieces, is decided in mbedTLS and in the C library, which are not in the repository |
| `memcmp`, the other system calls | byte loops and stubs without state; the outcome of the comparisons is the parameter `Accepts` |
| PicoRV32 pipeline, coprocessors, prefetch buffer | a third-party core; only its memory interface, which the bus depends on |
| Partial-word stores of the softcore | the firmware accesses whole words in shared memory; byte stores go to its own RAM |
| Offsets beyond the buffers | word offsets 18 to 31 index past the 16 words; the outcome depends on synthesis and no program uses them |
| Repeated calls on one open device file, seeks, short reads | the programs open the file for each call and ask for all of it; writes to the status file are refused and change nothing |
| Texts that are read from device files | a text is the value it spells; that a short value is followed by bytes `sprintf()` never wrote is not told apart |
| The number `kstrtoint()` makes of the parsed characters | it goes into a local variable that nothing reads |
| What a kernel pointer is | an address is a register name; `phys_to_virt` is the identity on names |
| `probe()` and `remove()` of the driver | they do nothing |
| Calls of counter mode on parts of blocks | such a call drops the rest of its key stream block; the firmware makes none |
| Testbench, build, board files | no behaviour of the system; the testbench's input is `bram_in` of FismosAes |
| `fismos_ecdsa.c.ignore` | not compiled |

## 6. Running

```
tlc -workers 2 -config core.cfg MCFismosCore
tlc -workers 2 -config host_each_mode_once.cfg MCFismosHost
tlc -workers 2 -config softcore_bus.cfg MCSoftcoreBus
tlc -workers 2 -config port_a.cfg MCAxilDpRam
tlc -workers 2 -config lkm_one_file.cfg MCFismosLkm
tlc -workers 2 -config lkm_load.cfg MCFismosLkmLoad
tlc -workers 2 -config aes.cfg MCAes
tlapm FismosCore_proofs.tla
tlapm FismosHost_proofs.tla
tlapm SoftcoreBus_proofs.tla
tlapm AxilDpRam_proofs.tla
tlapm FismosLkm_proofs.tla
tlapm FismosLkmLoad_proofs.tla
tlapm Aes_proofs.tla
tlapm AesModes_proofs.tla
```

`PROJECT.json` maps each definition to the lines it models and lists runs,
mutants, findings, hazards and theorems.
