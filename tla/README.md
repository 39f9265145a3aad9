# Verification of ProbableCause's debug bridge

ProbableCause studies how DRAM that is refreshed too slowly identifies the chip
it is on. The repository holds firmware that measures decay on an MSP430
(`uController/`), an FPGA system with an OpenRISC CPU for DDR2 memory (`ddr2/`),
and a small database of fingerprints (`manInTheMiddle/`). Its one concurrent
program is `adv_jtag_bridge`, the daemon through which GDB, a serial console and
a watchpoint client all drive the CPU of the FPGA system. This directory models
that daemon from its servers down to the cables, and the programs of the
experiments and the database besides.

Paths below are relative to
`src/ddr2/cores/adv_debug_sys/Software/adv_jtag_bridge/` unless they name a
directory above.

## Inventory

### The bridge

Four threads: the *monitor* (`hardware_monitor.c`), the *RSP server* for GDB
(`rsp-server.c`, the main thread), the *JSP server* for a serial console
(`jsp_server.c`) and the *HWP server* for a watchpoint client (`hwp_server.c`).

| component | state | operations | interacts with |
|---|---|---|---|
| monitor | `connections[]`, `num_monitor_connections`, `pipes_mutex`, `target_is_running` | register, unregister; thread: snapshot, `select()`, serve commands, poll the CPU, notify | all servers, over two pipes each; the CPU, through the debug API |
| RSP, run control | `rsp.client_fd`, `target_running`, `client_waiting`, `single_step_mode`, `pipe_fds` | accept, packets `c s 0x03 D` and queries, statuses `H R`, close | monitor (writes `S`/`U`, reads `H`/`R`); DSR, DMR1, DMR2 |
| RSP, packets | socket, checksum, acknowledgement | `get_packet`, `put_packet` | GDB |
| matchpoints | `mp_hash`, `hwp_in_use[8]`, DVR/DCR/DMR1/DMR2 | `Z`/`z` packets; register writes of the HWP client | RSP and HWP threads, without a lock |
| JSP | two 256-byte ring buffers, `jsp_target_is_running` | receive, send, transact with the serial port | monitor (reads), debug API |
| HWP | `hwp_target_is_running`, cached DMR2 | `?`, `p`, `P`, reports | monitor (reads), debug API |
| debug API | `dbg_access_mutex` | lock, select a module, operate, flush | all threads above |
| debug unit commands | `current_chain`, `desired_chain`, `current_reg_idx[]` | select, control registers, bursts with CRC and retry | debug API, JTAG chain |
| JTAG chain | TAP state, lengths before and after the device, retry counter | reset, set IR, shift, retry, search for devices | cable driver |
| cable drivers | packet being answered; buffered commands, bytes still to be received | stream out, stream in, flush | the USB device |
| start-up | chain configuration from BSDL files | `main()` | starts everything |

### Outside the bridge

| component | state | operations |
|---|---|---|
| fingerprint database (`manInTheMiddle/`) | `database/<chip>/<page>.txt` | add, match, merge, remove |
| DRAM experiments (`uController/dram_*`) | write and read positions, block counter, delay interval, flash address | write, wait, read and record; search for a delay |
| headers (`uController/headers/`) | ports, flash | DRAM accesses, flash writes |

Vendored Verilog, the simulation library, BSDL parsing, the self-test and the
file-to-file scripts are left aside; `PROJECT.json` lists each with the reason.

### What is hard, and what correct means

* **Monitor.** Threads register and unregister while the monitor is between a
  snapshot and a scan, with `select()` outside the lock and descriptor numbers
  reused. Writes to full pipes and reads of empty ones block under the lock.
  `pipe()` and accesses to the CPU fail. Correct: table, count, descriptors and
  registrations agree; a server's last status is what the monitor believes; the
  CPU is resumed only on command; servers see one sequence of events.
* **RSP, run control.** Commands are asynchronous and `target_running` lags.
  Correct: what GDB is told is true, a GDB that waits is answered, a break or a
  step is never lost, one client's state does not reach the next.
* **Matchpoints.** Two threads, one unlocked array. Correct: no watchpoint is
  used twice, none is lost, memory gets its instructions back.
* **JSP.** Ring buffers at their limit, partial sends. Correct: bytes arrive
  once and in order.
* **RSP, packets.** Requests, acknowledgements, breaks and statuses cross; each
  may be damaged or late. Correct: a request is obeyed once, in order, as sent,
  and answered by its own answer.
* **RSP, requests.** The NPC the CPU hides, accesses that fail, causes of stops.
  Correct: what GDB reads is in the registers; a stop has its own signal.
* **Debug API and units.** Cached selection after errors, bursts continued after
  errors, accesses given up half way. Correct: every operation addresses the
  module its caller named; success means that all words were transferred.
* **JTAG chain, cables.** Words, lanes and packets that do not line up, devices
  before and behind, partial transfers. Correct: exactly the bits of the caller
  are clocked, and each answer is put where it belongs.
* **Fingerprints, experiments.** Alignment of merged chips, scripts that end
  half way; 16-bit arithmetic, flash that only clears bits, rows refreshed by
  every access. Correct: no page or result is lost or altered.

The hazards, each at its line and with the properties that would catch it, are in
`PROJECT.json`.

## Modules

| module | what it is | source |
|---|---|---|
| `HardwareMonitor` | the monitor thread and its interface; servers as users of the interface | `hardware_monitor.c` |
| `StatusBroadcast` | abstract: one target and an atomic broadcast to those who joined | |
| `RspSession` | extends `HardwareMonitor`: the RSP thread and GDB in place of an arbitrary commander | `rsp-server.c` |
| `RspPacket` | packets, acknowledgements and breaks, character by character | `rsp-server.c` |
| `RspRequests` | what requests do to the registers, the copy of the NPC, the signal of a stop | `rsp-server.c` |
| `Watchpoints` | the RSP and HWP threads over `mp_hash`, `hwp_in_use` and the debug registers | `rsp-server.c`, `hwp_server.c` |
| `JspServer` | the JSP thread, its rings, the FIFOs of the serial port, a client | `jsp_server.c` |
| `DebugAccess` | the debug API under its mutex, with the selection it keeps | `dbg_api.c`, `adv_dbg_commands.c`, `legacy_dbg_commands.c` |
| `AtomicUnit` | abstract: modules of words that each call accesses in one step | |
| `BurstTransfer` | a burst to or from the Wishbone module, with retries | `adv_dbg_commands.c` |
| `LegacyUnit` | accesses to the legacy debug unit, exchange by exchange | `legacy_dbg_commands.c` |
| `DebugUnits` | the two above beside each other, and what they promise | |
| `TapChain` | operations as packets, and the devices that receive them | `chain_commands.c` |
| `ChainEnumeration` | the search for the devices of the chain | `chain_commands.c` |
| `CableStream` | streams through the two USB-Blaster drivers | `cable_usbblaster.c`, `cable_ft245.c`, `cable_common.c` |
| `MpsseCable` | streams through the FT2232 driver | `cable_ft2232.c` |
| `DecaySchedule` | the schedule of the DRAM experiments, the rows and their decay | `uController/` |
| `FingerprintLog`, `FailureMap` | extend `DecaySchedule`: what is logged of one pass, or of several | `dram_fingerprint`, `dram_imgdecay`, `dram_heatmap` |
| `VoltageScan` | the scans at reduced voltage | `dram_voltage` |
| `Experiments` | one of the programs of the three rows above: what each logs, and what it needs | `uController/` |
| `DelaySearch` | the binary search for a delay | `dram_bst` |
| `FingerprintDb` | the database, file by file | `manInTheMiddle/` |
| `MC...` | model-checking instances; see *Runs* | |
| `RspSessionProofs` | the inductive invariant and the theorems about the monitor; that it implements `StatusBroadcast`; sessions are behaviours of the monitor; what GDB is told in them | |
| `DebugAccessProofs` | the mutex, the caches, and that the API implements `AtomicUnit` | |
| `DebugUnitsProofs` | bursts of the advanced unit, accesses of the legacy one | |
| `CableStreamProofs` | what is clocked and where it is put, with the USB-Blaster drivers | |
| `RspRequestsProofs`, `WatchpointsProofs`, `JspServerProofs`, `ExperimentsProofs` | the invariants of these components and their theorems | |

How they compose: `RspSession` extends `HardwareMonitor` and refines the use of
it that the monitor's run and proofs allow to any server. Below the servers the
layers are modelled apart, each against what the layer above relies on:
`DebugAccess` takes a scan as one step that succeeds or fails, `BurstTransfer`
and `LegacyUnit` are what happens in such a scan, `TapChain` is what becomes of
its streams, and the cable modules are how streams get to the device. Above,
one access is one step (`Watchpoints`, `RspRequests`), as `AtomicUnit` allows.

Definitions whose comment begins with "Mutant" belong to no specification. Each
is a plausible bug for the definition after it, kept to show that a checked
property fails when the code is wrong.

### HardwareMonitor

`pc` is the monitor's place in `target_handler()`; an action ends where another
thread can interfere.

| code | actions |
|---|---|
| lines 188-200, snapshot under the lock | `Snapshot` |
| 207-219, `select()`: data, time-out or EBADF | `SelectReady`, `SelectNothing` |
| 223-259, the scan with the lock held | `LockScan`, `ScanSkip`, `ReadCommand`, `NotifiedCmd`, `ScanDone` |
| 264-281, the poll | `PollNothing`, `PollStopped`, `LockPoll`, `NotifiedPoll` |
| 312-327, one write per step | `NotifyOne` |
| `register_with_monitor_thread()` | `RegisterCheck` (before the lock), `RegisterLocked`, `RegisterFails` |
| `unregister_with_monitor_thread()` | `Unregister` |
| servers | `SendCommand`, `ReadStatus`, `Attach`, `Detach` |
| CPU | `CpuStops` |

* `connections[k]` holds the server that owns the slot instead of four
  descriptors. Of these only the monitor's read end matters, because the scan
  compares numbers: `fd`. Closing frees a number, which a later registration may
  get again. A read end stands for the connection as all four are opened and
  closed together.
* `select()` may report a descriptor closed while it waits as ready (at end of
  file) or fail with EBADF; both are modelled.
* A pipe is a sequence of at most `PipeCap` bytes. A write to a full pipe and a
  read of an empty one block: the action is disabled.
* A critical section is one step if it cannot block (both registration calls).
  The scan and the broadcasts can, and are steps of their own with the lock held.
* `AccessMayFail` lets every access to the CPU fail; `lostStall` remembers that
  the last access of `stall_cpu()` was a stall and failed.
* The slot vacated by `unregister` keeps its bytes in the code. Nothing reads a
  slot past the count, and the model clears it.
* Initially the listeners are registered, in any order, as `main()` does before
  it serves a client; `target_is_running` is set and the CPU in either state.

### RspSession

`rpc` is the place of the RSP thread. It splits each function at its calls to
`set_stall_state()` and at accesses of DSR, where the monitor and the CPU
interleave.

| code | actions |
|---|---|
| `handle_rsp()` 395-440, `rsp_server_request()` | `Accept`, `RegisterClient`, `StallForClient`, `EnableStops` |
| `rsp_client_request()` | `ClientGone`, `BreakRunning`, `RefuseRunning`, `BreakStopped`, `Query`, `DetachClient`, `Continue`, `Step` |
| `rsp_continue_generic()`, `rsp_step_generic()`, last lines | `Resume` |
| `handle_rsp()` 483-539 | `Running`, `Halted`, `HaltedAgain` |
| `rsp_client_close()` | `StallToClose`, `ClearDsr`, `RestartToClose`, `CloseClient` |

* Packets are taken before statuses, as `poll()`'s results are tested in that
  order.
* `"q"` stands for every packet that neither resumes nor closes: registers,
  memory, matchpoints, the answers `OK` and the ignored ones.
* GDB resumes and detaches only when it believes the target stopped, breaks only
  when it waits, and sends anything else or leaves at any time. `gdb` is what it
  believes; it becomes "stopped" with a stop reply.
* The CPU stops by itself only while DSR is set, at any time then: breakpoints,
  exceptions and steps alike. After the trigger in DMR1 is set it does so
  eventually.
* `pipe()` succeeds here. (The callers test for a negative result where 0
  means failure; a session without pipes is not modelled.)
* The stores of `client_waiting` and `single_step_mode` are visible to the RSP
  thread only, so their order within a handler does not matter.

### Watchpoints

`rpc` and `hpc` are the places of the two threads within a packet. Nothing
protects `hwp_in_use`; `dbg_access_mutex` makes one access to the CPU one step.
The module stands beside the others: of run control it keeps only whether the
target runs (`ResumeOrStop`), which `RspSession` models.

| code | actions |
|---|---|
| `rsp_insert_matchpoint()`, `rsp_remove_matchpoint()`, memory | `InsertMemory`, `RemoveMemory` |
| `rsp_write_mem()`, `rsp_write_mem_bin()` | `WriteMemory` |
| `rsp_insert_matchpoint()`, hardware, with `hwp_get_available_watchpoint()` | `FindWatchpoint`, `TakeWatchpoint`, `WriteDvr`, `WriteDcr`, `ReadDmr2`, `WriteDmr2`, `ReadDmr1`, `WriteDmr1` |
| `rsp_remove_matchpoint()`, hardware, with `hwp_return_watchpoint()` | `RemoveHardware`, `ClearDmr2`, `ClearDcr`, `ReturnWatchpoint` |
| `hwp_client_request()`: `?`, `p`, `P` | `Asks`, `Ends`, `ReadRegister`, `WriteRegister` |
| `hwp_write_reg()` for a DCR, with `hwp_set_in_use()` | `WriteCondition`, `MarkInUse` |

* The loop over `hwp_in_use` is taken as one look at the array; the mark that
  follows it is a step of its own.
* A condition is "off", "client", GDB's for a type of matchpoint, or "absent",
  which is what reads of a missing watchpoint give. Writes to a missing
  watchpoint are lost.
* Accesses succeed. Almost no caller here looks at the result. The reads of
  `hwp_init()` may fail.
* Initially any condition of the client's may be left in the hardware.
  `hwp_init()` writes no DCR: it takes a watchpoint that is there for free whatever
  its condition, or for used if the read failed. `marked` is history: the
  watchpoints the bridge has marked itself since, of which `PoolIsTrue` speaks.
* `?` answers from the target itself. In the code it answers from the last
  status the thread has read, which can only be older.
* The client writes any address, chaining and set of enabled watchpoints, and as
  a condition "off", its own, or one of GDB's it has read before (`seen`).
* Packets that change nothing are left out: a `z` packet without an entry, a
  `Z` packet when no watchpoint is free.
* The table outlives a client. A new client that sets the same matchpoint is
  the same step as a repeated `Z` packet. `repeated` is history: whether GDB
  has set a matchpoint again that was set.
* `program` is history: what GDB last wrote, which `memory` should hold except
  for traps. `overwritten` are the addresses at which it has written over an entry
  of the table, which nothing prevents; of these `ProgramIsKept` says nothing.
* `Overlap` says whether the two users may meet. The comment at
  `hwp_server.c:800-804` relies on that they do not: GDB sets matchpoints as it
  starts the CPU and clears them after a stop, and the client is kept away while
  the CPU runs. With `Overlap = FALSE` the HWP thread serves a packet only while
  GDB has no hardware matchpoint and is setting none. With `Overlap = TRUE` only
  what the code tests keeps them apart.

### RspPacket

`pc` is where the RSP thread waits for a character: in the loop of
`handle_rsp()`, for "$", in the data, for the checksum, or for "+".

| code | actions |
|---|---|
| `handle_rsp()`, `poll()` on the client | `PollClient` |
| `get_packet()` | `AwaitStart`, `ReadBody`, `ReadSum` |
| `put_packet()` | `Puts` (in each action that answers), `AwaitAck` |
| `rsp_client_request()`, by what it does next | `BreakRunning`, `RefuseRunning`, `BreakStopped`, `Resume`, `Reply` |
| `handle_rsp()`, statuses | `Running`, `Halted`, `HaltedAgain` |
| `put_rsp_char()`, `get_rsp_char()`, `rsp_unescape()`, `hex()` | `ConnectionFails`, `Unescape`, `Hex` |
| GDB | `GdbSends`, `GdbReadsAck`, `GdbReadsReply`, `GdbTimesOut`, `GdbBreaks`, `GdbLeaves` |

* Characters are numbers, so that checksums, escapes and an invalid hexadecimal
  digit are what they are in the code. The buffer holds nine of them.
* GDB's half of the protocol is external: it repeats a request on "-", throws
  away and acknowledges a packet that comes instead of an acknowledgement.
* TCP does not damage characters; the acknowledgements are there for lines that
  do. `damages` bounds how often.

### RspRequests

A handler is one step, as the RSP thread touches registers only while the target
stands still. A word has two digits instead of eight, and of the general
registers there is one.

| code | actions |
|---|---|
| `rsp_read_reg()`, `rsp_write_reg()`, `set_npc()` | `ReadReg`, `WriteReg`, `SetNpc` |
| `rsp_read_all_regs()`, `rsp_write_all_regs()` with `hex2reg()` | `ReadAll`, `WriteAll` with `Shifted` |
| `rsp_restart()`, `rsp_command()` | `Restart`, `ReadSpr`, `WriteSpr` |
| `rsp_continue()`, `rsp_continue_with_signal()`, `rsp_step()`, `set_stall_state()` | `Continue`, `ContinueFrom`, `Step` |
| `handle_rsp()` on "H", `rsp_exception()` | `Halted`, `SignalOf` |
| `D`, `rsp_client_close()` | `Detach`, `Connect` |
| CPU | `CpuStops` |

* `hidden` is the property of the CPU the comment at `rsp-server.c:124` is
  about: a written NPC reads as 0 until an instruction is executed.
* With `MayFail` every access fails or not. A word that was not read holds
  anything, as `ReadWord` says.
* `undisturbed` is history: that so far no access failed, `set_npc()` alone wrote
  the NPC (no `G`, no SPR 16 through `qRcmd`), and GDB has not detached. It guards
  `StopsAreTold`, which does not hold beyond.
* `answer` is what GDB was told last, and whether the access behind the answer
  failed: `rsp_command()` looks at no result, and sends a value or "OK" all the same.

### JspServer

`jpc` is the place of the JSP thread: `Accept`, `Select`, `Receive` and `Send`
(twice each, for the two linear parts of a ring), `Transact`, `TransactFails`.

* Bytes are numbered in the order they are sent; the properties compare numbers.
* A transaction with the hardware is one step: the thread holds the mutex of the
  debug API, and the hardware fixes both counts at its start. A transaction that
  fails may have been carried out by the hardware or not.
* The code does not look for room in the ring towards the client, and the program
  may run ahead of its client: bytes are overwritten then. `overrun` is history:
  whether the ring has ever been given more than it had room for. Until then
  `BytesInOrder` speaks of output as well, and from then on of input only.

### DebugAccess and AtomicUnit

A thread calls a function of the API (`Call`), takes the mutex (`Lock`), selects
module and register unless the caches say they are selected (`Select`,
`SelectRegister`), gives the command (`Command`), transfers words (`Transfer`),
reads the error register (`ReadError`) and releases the mutex (`Unlock`). Each of
these but the mutex is a scan, which fails or not (`Fails`), seen by the unit or
not.

* `Functions` has for each function of `dbg_api.c` the module in its name and the
  module it selects, which differ for one of them.
* `DEBUG_HARDWARE` chooses between the two units as the Makefile does. The
  Makefile's `SUPPORT_LEGACY` is true; both are modelled.
* `AtomicUnit` has the same calls and one step for each. Under the mapping in
  `DebugAccess` the step is that of the first word written; reads are seen when
  the call ends. `ImplementsAtomicUnit` says so of both units, for as long as the
  history variable `whole` is true: calls have been made in one burst each, and
  no scan has failed. A failure makes a block write partial, and the functions
  of the processors on the legacy unit take the mutex for each word of a block
  anew; the abstract unit knows neither.

### BurstTransfer

A single burst: command, status bits, words, CRC, error register, and again from
the failed word on. `HISPEED` is the build option that sends all words in one
stream, which the Makefile sets; `XILINX` stands for `global_xilinx_bscan`.

| code | actions |
|---|---|
| `adbg_burst_command()` | `BurstCommand` |
| the loops for status bits | `PollStatus` |
| the words, in one stream or one by one | `ReadStream`, `WriteStream`, `ReadWord`, `WriteWord` |
| the CRC | `CheckCrc` |
| the error register, `bus_error_retries` | `ReadError` |

* Faults are errors of the bus, flipped bits, failing transfers, a time-out, and
  (word by word) a word the unit is too busy to take. A bit may flip in a word, in
  the command, in the match bit of a write or in the error register. Only words have
  a CRC; `garbled` is history, whether any of the others was damaged.
* The CRC is modelled by whether it matches. `retry_do()` always refuses, as
  `NUM_SOFT_RETRIES` is 0; `exit()` is a place of its own.
* `BusErrorsAreRetried` is about calls in which only the bus failed: errors of the
  bus alone are made good, as long as there are not too many and, in one stream,
  the retry did not end in a CRC error (below).
* Not modelled: the status bits of a chain of several devices, which lag behind
  (`adv_dbg_commands.c:715`).

### LegacyUnit

Each function is a step per exchange: `SelectedBefore` or `SetChain`, then
`Command` and `Go`, or `Ctrl`, or `CtrlRead`. An exchange that fails is refused,
garbled in the unit or on its way back, or not heard (`Outcomes`). After a
failure `Retry` and `GiveUp` are as `retry_do()` has them, and the TAP stays in
EXIT1_DR, from where the next exchange goes elsewhere (`SetShiftDr`, `Streams`).

### TapChain and ChainEnumeration

An operation of `chain_commands.c` is a sequence of packets, one per clock
(`Reset`, `SetIr`, `Write`, `ReadWrite`, `GetIdcode`), which `Send` sends one
after the other to the chain (`Clocked`): the TAP controller, which is that of
IEEE 1149.1, and the registers of all devices, ours and those on either side.

* Words are sets of bits; `FirstWord` and `SecondWord` are the shifts by which
  the instruction is placed. `Fits` says that it ends before its word
  does: where it does not, the code overwrites its bits.
* With `MayFail` packets are lost, with an error, which ends the operation, or
  without one, which does not.
* The search takes three steps for a device: start bit, manufacturer, the rest.

### CableStream and MpsseCable

A bit of a stream is named by its place in it; `wire` is what was clocked into
the chain, `instream` what the caller's words hold.

| code | actions |
|---|---|
| `cable_usbblaster_write_stream()`, `cable_ft245_write_stream()` | `LowerClock`, `WritePacket`, `WriteBit` |
| `..._read_stream()` | `LowerClock`, `ReadPacket`, `Answer` (`TakeAnswers`, `TakeShort`), `ReadBit` |
| `cable_ftdi_write_stream()`, `cable_ftdi_read_stream()` | `Call` with `Commands`, `Send`, `Buffer` |
| `usbconn_ftdi_flush()`, `usbconn_ftdi_read()` | `FlushSend`, `FlushReceive`, `Copy`, `Direct` |

* A transfer fails, or gives a part, or is late, in every way the library's
  result allows. The errors of `MpsseCable`'s reads are not modelled; its stream
  functions report none in any case.
* `lost` of `CableStream` is no variable of the code: it says that a transfer of
  the call failed, that its answer came late or in part, or that it reads what an
  earlier call left in the cable. The properties say what holds then, too.
* An answer may even have less than its two bytes of status (`short`). The code takes
  two off its unsigned counts all the same; the model counts below zero. A byte that
  comes then is put far outside the caller's words: the place "crashed".
* The opening of the devices is left out.

### The experiments

`DecaySchedule` has the two halves of a block of time, `WriteHalf` and
`ReadHalf`, as all overlapped programs have them. A cell fails if its row was not
accessed for longer than it keeps its charge, and an access refreshes the row.

* `FingerprintLog` is `dram_fingerprint` and `dram_imgdecay` (`IMAGE`),
  `FailureMap` is `overlappedBits.c` and `overlapped.c` (`BY_ROWS`). Flash only
  changes bits from 1 to 0 (`FlashWrite`).
* `VoltageScan` is `dram_voltage/main.c`, `sequentialFlips.c` and
  `sequentialBits.c` (`PROGRAM`). The power-on writes its two words. The first two
  read with `dram_rb_hr()`, which refreshes all rows. `sequentialBits.c` reads with
  `dram_rb()`, which refreshes one: each row decays until the rows before it have been
  read (`Lateness`, at most `MAX_LATE`).
* `Experiments` runs one of these programs, named as its directory or file is, and
  has the property all share: what is in flash is what the cells did.
* `DelaySearch` is `dram_bst`, a pass over the memory one step. `Uint` is the
  16-bit arithmetic.

### FingerprintDb

`Add` and `Check` are calls of the script. `ChipAdd` takes a number, `WritePage`
writes a file, `MatchPage` looks for a page in all other chips, `Merge` puts the
pages of two chips together, `RemoveFile` removes a file of theirs, `Combine`
goes on with the next match. `Crash` ends the script between two files, `SearchOn`
is the search for a number when all are taken.

* A page is a model value. The margin of noise in `Constants.py` is less than one
  bit, so that pages match when they are equal.
* Exceptions of Python are ends of the call (`FindFails`, `ShiftFails`).
* Three history variables say what such an end leaves: `unmerged`, the chips with
  pages of a call that failed before it had merged them; `merging`, the pages of the
  two chips that are being merged; `atRisk`, those of merges that were not completed.

## Runs

Modules that are small and belong together share a run: the MC module has an
instance of each in a *setting*, which the first state chooses and no step
changes. A property says of which settings it holds. In `experiments` the constants
of the configuration are the settings of the search and, for `Experiments`, of
`dram_fingerprint`, of which `LogIsTrue` speaks; the other six programs are
instances of `Experiments` with settings of their own, and `ResultsAreTrue` says
`LogIsTrue` of each of them and the same of the database. In `jtag` they are those
of `CableStream` in the setting *blaster*; `StreamsAreRight` speaks of these
streams, and `CommandsAreRight` of the buffers of all drivers and the commands of
the FT2232.

| run | settings and bounds | shows |
|---|---|---|
| `monitor` | 2 commanders, 1 listener, 3 slots, 3 descriptor numbers, pipes of 2 bytes, 2 commands; everything may fail | `TableConsistent`, `StatusIsCurrent`, `HaltIsTrue`, `ResumeOnlyOnCommand`, `ImplementsBroadcast` |
| `session` | RSP alone, 5 connections and packets, pipes that never fill | `SessionTypeOK`, `StopsAreReal`, `NeverRefused`, `ReportsAreOwed`; under fairness `GdbIsAnswered` |
| `session_listener` | a listener besides, 4 connections and packets, pipes of 2 bytes | `UsesMonitor` |
| `restart_at_close` | as `session` | violates `RestartedAtClose` |
| `packets` | *damaged*: 3 requests of all kinds, one damaged character of data either way; *breaking*: 3 requests, 2 breaks; *noisy*: 2 requests, any character damaged, a time-out, a break, a GDB that leaves | `RequestsInOrder`, `RepliesMatch`; under fairness `AnswersArrive` |
| `requests` | words of 4 values, 1 breakpoint; *requests*: accesses succeed; *failing*: registers only; *stopping*: resumes and stops | `StopsAreTold`, `FailuresAreTold` |
| `watchpoints` | 2 watchpoints and one that is missing, any of them in use at the start, 2 hardware types and memory, 1 address, 2 instructions, no overlap; requests may be repeated, and entries of the table written over while no watchpoint is in play | `OwnedOnce`, `MatchpointsAreArmed`, `PoolIsTrue`, `ProgramIsKept`, `NothingIsLostOnce` |
| `jsp` | rings of 3, FIFOs of 2, one transaction may fail; *order*: 4 bytes in and 5 out, 5 together, a client that may leave, a program that may overrun the ring; *delivery*: 3 bytes each way, a client that stays | `BytesInOrder`; under fairness `BytesArrive` |
| `access` | 2 threads, words of 2 values, blocks of 0 to 2; *legacy*: two processors, every scan may fail; *advanced*: memory, control and serial port, no failures | `ReachesNamedModule`, `ImplementsAtomicUnit`; under fairness `LockIsReleased` |
| `jtag` | cables with bytes of 2 bits and packets of 2 to 7 bytes, 2 calls: failing, late, in parts and short of status (*blaster*), late and in parts, 1 call (*ft245*), working (*mpsse*), short or dropping (*mpsse short*, *mpsse drops*); the TAP in 7 chains, in two of which the instruction does not fit its word (*tap*), or losing packets (*tap fails*); the search in all chains of up to 3 devices (*search*) or in a *broken* one | `StreamsAreRight`, `CommandsAreRight`, `OurDeviceOnly`, `FindsDevices`; under fairness `EveryCallReturns` |
| `units` | all blocks of 4 words, 2 faults besides those of the bus: *hispeed*, *word by word*, *xilinx* without bus errors; the *legacy* unit with 4 accesses to 2 chains, or 5 with a *retry* | `BurstIsRight`, `ResultIsTrue`, `OnlyAsAsked`; under fairness `BurstsReturn` |
| `experiments` | *dram_bst*: all chips of 4 bits, 17 delays, `unsigned int`s below 20; the overlapped programs: 2 rows of 2 words of 2 bits; the scans: 4 or 6 words, read while up to 3 halves of a step of the delay pass; the database: 3 calls with all segments of 2 chips and 3 numbers, or 3 that may be ended and 2 numbers | `SearchIsRight`, `AlwaysCloser`, `LogIsTrue`, `ResultsAreTrue`; under fairness `Ends` |

*Why the bounds are enough.* `monitor` has as many slots as servers, so the
array fills, and two servers that leave make `unregister` move entries; with
one number more than is ever open, numbers are reused at once, later or not at
all; with two commands, one is pending while the other is served. The theorems
hold without these bounds. In `session` a client that resumes, breaks and leaves
takes four of the five, and the next client connects after it: state that
outlives a client is seen. A real pipe holds 64 KiB. `PipeCap` is small where a
full pipe is the question, and never reached where it is not; `MaxCommands` is
never reached in a session, since the bound on packets is. The watchpoint, access
and request runs have no bound on the length of a behaviour. Two hardware
matchpoints are enough to share a watchpoint, and two watchpoints run out when
both are set, one is repeated or the client has one; the third exists only in
the array. Types of matchpoint differ where addresses do not, and the code
treats the pair as one key. The two instructions are only compared, so that they are
symmetric. Code is written over entries of the table only while no watchpoint has been
marked or enabled and the client is not at work (`OverwritesAlone`): the handlers for
memory touch no variable of those for hardware but `running` and `repeated`, and the
theorems hold without the bound.

The buffer of `packets` is shorter than the longest packet, so that one is refused
for its length. The rings of `jsp` wrap at every place and fill; the socket and the
FIFO are smaller than what is sent. The streams of `jtag` end at, before and after
the boundaries of bits, bytes, words, packets and commands, and the chains put the
instruction at the beginning, in the middle and at the end of a word, and across
two. Blocks of `units` begin and end anywhere in the memory, and there are more bus
errors than the program tolerates. In `experiments` the memory has rows of either
parity, so that cells of both polarities, and results of both halves of a byte; two
bits of a word fail apart; delays lie below, at and above what a cell survives; the
sum of the bounds of the search exceeds an `unsigned int`; three calls are what it
takes for a third segment to link two chips, and with two or three numbers for three
chips they run out.

*Stopping.* The monitor can wait for ever: on a full pipe, an empty one or an
abandoned mutex. The bytes of `jsp` and the requests of `packets` are used up,
and the RSP thread may wait for ever for a character. Deadlock is not an error in
these three runs, which say `CHECK_DEADLOCK FALSE`; everywhere else it is one.

*Fairness.* `SessionFairness` is weak fairness of each thread: of the monitor's
next step, of the RSP thread's, of a listener's reads while it is attached. A
thread that is not blocked is eventually scheduled, so weak fairness is what the
operating system gives. Registration waits for a mutex, for which weak fairness
would not do if the monitor could take it again and again; the `session` run
shows `GdbIsAnswered` with weak fairness alone. A CPU told to step
executes an instruction. GDB is never obliged to do anything, and breakpoints
need never be hit.

In the other runs it is weak fairness of the one thread the property is about,
and of those it depends on: in `packets` the RSP thread, and a GDB that reads
what it is sent; in `jsp` the JSP thread, the program that reads its serial port
(`InputArrives`), the client that reads its socket (`OutputArrives`); in `access`
the holder of the mutex, not who waits for it; in `jtag`, `units` and
`experiments` the call, the program or the script that runs. Sequential programs
make their next step. Nothing is assumed of devices: that an answer comes is
never a matter of fairness.

### Where the code and its comments disagree

The run `restart_at_close` keeps one of these as a counterexample.
`rsp_client_close()` stalls a running target, clears DSR and says "restart it".
Both commands are bytes in a pipe which the next call closes, discarding what the
monitor has not read. When it has read the "S" only, the target stays stalled
with nobody connected. (When it has read neither, the target is left alone.) The
comment that unregistering must come after the last `set_stall_state()` does not
help: it comes right after.

The modules behave as the code does in all of these as well; the properties are
stated so that they hold beside them.

* **Breaks.** After a resume `target_running` is set when the "R" comes back. A
  break that arrives before it is dropped with the warning that the target is
  stopped (`rsp-server.c:760`); the target runs and GDB waits. `BreakIsReported`
  is about breaks that are taken. A break while `put_packet()` waits for "+"
  makes it send the reply again (:1049); the second "+" sends the thread into
  `get_packet()`, where it does not watch the pipe. `StopIsReported` holds in
  the setting without breaks.
* **Detach.** `set_stall_state(0)` writes to `pipe_fds[0]` after
  `rsp_client_close()` has set it to -1 (:815): a stopped target stays stopped,
  although "the rules say that execution should continue".
* **Broadcast.** The JSP and HWP servers register at start-up and read their
  pipes only for a client. With no client their pipes fill (one byte for each
  stop or start, after 64 KiB of them) and the broadcast blocks in `write()` with
  the lock held (`hardware_monitor.c:319`): GDB can no longer stop, start or
  leave.
* **Registers.** `qRcmd writespr` is answered "OK" whether or not the write
  succeeded (:2364). A "G" packet's digits are taken from the letter on (:1863), so
  that every register gets the last digit of the one before; it writes the NPC
  without the copy (:1873); `set_npc()` keeps a copy of what it failed to write
  (:1649). `undisturbed` ends with either, and with it what is claimed. `qRcmd
  readspr` looks at no result either, "s" ignores its address, "C" never resumes,
  and a cause of a stop that is not known leaves the signal of the stop before.
* **Matchpoints.** The table is initialized once (`rsp-server.c:237`), and a write
  of memory does not look at it: a GDB that loads its program over a breakpoint
  which an earlier client has left, and sets and removes one there, gets the older
  instruction back (:2711). `overwritten` says where. A `Z1` for a matchpoint that
  is set takes and arms a second watchpoint (:2865) which no `z1` gives back, and
  which stops the CPU for ever; `NothingIsLostOnce` holds until GDB has repeated a
  request. The HWP thread writes the condition first and marks the watchpoint
  afterwards (`hwp_server.c:791`), GDB may be granted it in between. The client is
  kept away while the target runs, but GDB sets and clears matchpoints while it is
  stopped (:451). A client that writes a disabled condition to a missing watchpoint
  marks it as free (:815), and GDB is granted it.
* **Serial console.** The ring towards the client is written without a test for room
  (`jsp_server.c:541`): if the program is ahead of the client by more than a ring,
  bytes are overwritten and the count exceeds the size. The end of a connection is
  not noticed (:420), so that no other client is accepted.
* **Debug API.** `dbg_cpu1_write()` selects the first processor of the advanced
  unit (`dbg_api.c:580`): `Cpu1Write` is in no run on that unit, and the theorem
  excludes it. A selection that failed is recorded as made
  (`adv_dbg_commands.c:106`); the legacy functions forget it.
  `dbg_cpu0_write_ctrl()` passes 2 for the reset bit, of which bit 0 is sent
  (`dbg_api.c:494`): the legacy unit never resets the CPU.
* **Bursts.** The command of a burst, the match bit of a write and the error register
  travel without a CRC (`adv_dbg_commands.c:305`, :731, :534): if one of them is damaged
  another block may be transferred, or an error missed, and the call returns none.
  After a bus error the rest of a burst is announced, but in one
  stream all words are sent again from the first (`adv_dbg_commands.c:641`): the
  retry ends in a CRC error. On Xilinx parts the error register is never read
  (:417, :532). A read that times out returns from Shift-DR (:439). Accesses to
  the legacy unit that fail leave the TAP in EXIT1_DR
  (`legacy_dbg_commands.c:192`); `OnlyAsAsked` shows that none after it reaches
  the unit.
* **TAP.** An instruction that ends with a word, or in the next, is not loaded whole: the
  ones that follow it are shifted by 32 or more (`chain_commands.c:206`), which on the
  machines the bridge is built for is a shift by the rest, and overwrite it.
  `IrIsLoaded` says of such chains only that the other devices get BYPASS.
* **Cables.** The bytes of a second packet are put in lanes counted from the
  start of that packet (`cable_usbblaster.c:484`): `ReadIsPlaced` is about reads
  of one packet. An answer of less than two bytes makes the unsigned counts wrap around
  (:487): the packet counts as answered, and what comes later is written far outside
  the caller's words. Their `unsigned char` counter never reaches a length of 256
  words. `..._write_stream()` forgets an error when single bits follow. The
  FT245 driver hears of no bit that is lost: `cable_ft245_out()` always returns
  0. After a short read the FT2232 driver counts bytes twice
  (`cable_ft2232.c:343`).
* **Database.** `--check` ends in a `ValueError` for every file
  (`probableCause.py:179`), linking pages may end in a `TypeError` (:66), and
  `getChipNumber()` never returns when all numbers are taken. Chips whose pages a
  call had stored when it ended in that `TypeError` stay apart, and `LinkedAreMerged`
  leaves them out. Merging removes
  both chips before it writes the new one (:109): a script that ends in between
  loses pages, and one that left holes may have a later merge drop the pages
  before the common one. `PagesAreKept` is about calls that are not interrupted;
  of the others `OnlyMergesLose` says which pages they may lose.
* **Voltage scans.** The power-on after the delay writes two of the words that are
  then counted (`dram_voltage/main.c:85`), which `RecordsAreMeasured` allows for.
  `sequentialBits.c` reads without a refresh of the rows to come (:90): these decay
  for longer than the delay that is logged. Its count wraps around when all words
  have failed (:80). `sequentialFlips.c` returns from the whole scan at the first
  voltage that decays, and declares an `unsigned float`, which does not compile.

## Proofs

`RspSessionProofs` proves of the monitor, for any number of servers, slots and
descriptors and any capacity of the pipes, from the assumptions declared in
`HardwareMonitor` (no more servers than slots; distinct placeholders; a capacity of
at least one):

* `TypeCorrect`, `TableIsConsistent`, `RegistrationFits`, `StatusStaysCurrent`,
  `HaltStaysTrue`, `ResumeIsCommanded`: types, the bounds of the array, and the
  properties of the run `monitor`.

The inductive invariant `IInv` conjoins

* `TypeOK` and `TableConsistent`: that there is a free slot at the moment of a
  registration follows by counting (`RoomForOne`): the slots in use inject into
  the servers without the one that registers;
* `LockInv`: the monitor has the lock exactly in the scan and the broadcasts, so
  that the table stands still there (`TableIsLocked`);
* `BroadcastInv`: the status a broadcast writes is what the monitor believes;
* `StopInv`: the belief "stopped" is true, failed stalls apart;
* `FreshPipes`: the pipes of a server that is not registered are empty, so that
  a new registration starts with no status;
* `StatusIsCurrent`: the last status sent to a server the broadcast has reached
  is the belief.

None of them is inductive alone: `StatusIsCurrent` needs the lock to keep the
table still under a broadcast, `FreshPipes` for new servers and `BroadcastInv`
for what is written. `HaltIsTrue` follows from `StatusIsCurrent` and `StopInv`.
The frame lemmas (`TableFrame`, `PipeFrame`, `MonitorFrame`) say which actions
touch which variables, so that each part is split over a few actions only.

`MonitorImplementsBroadcast` is the refinement: under the mapping in
`HardwareMonitor` every step is a step of `StatusBroadcast` or a stutter. A
broadcast takes effect at once when it begins: an inbox is the server's pipe and
the status still owed to it. A stop found by the poll takes effect when its
broadcast begins, not when the belief changes.

Its second half proves `SessionUsesMonitor`, that every session is a behaviour
of the monitor, and with it `HaltIsTrue` for sessions. On top of that invariant
it proves, for any packets, listeners and capacity of the pipes:

* `SessionTypeCorrect`;
* `ClientsAreNotRefused` and `ReportsStayOwed`: what the server answers a client
  agrees with what the client was told, and it owes stops only to who waits;
* `StopsAreBelieved`, that a client told of a stop talks to a CPU that stands
  still unless the access that was to stall it failed, and `StopsStayReal`, that
  it does so without exception where accesses succeed. That assumption,
  `~AccessMayFail`, is needed: the monitor believes a stall that failed.

`SessionInv` follows one stop from the command to the reply. A command and its
answer pass two pipes, and between them the answer is an obligation of a broadcast
(`OwesRunning`); so the invariant says, for each place of the RSP
thread, what may be on its way either way: nothing resumes the target behind the
back of a client that was told of a stop (`Settling`), each resume is answered by
the "R" that sets `target_running` before any "H" clears it (`Resuming`), and
between the two everything is quiet (`Quiet`). `GdbAsksOnce` bounds the packets
of GDB. Each action's proof is one lemma.

`WatchpointsProofs` proves, for any number of watchpoints, present or not, any
addresses, instructions and types of matchpoint:

* `TypeCorrect` and `ProgramStaysKept`, however the threads interleave and
  requests repeat. Memory breakpoints need no assumption on the HWP client: they
  touch nothing its thread does. What is excepted are the addresses at which GDB has
  written over an entry of the table.
* `WatchpointsAreOwnedOnce`, `MatchpointsStayArmed` and `PoolStaysTrue`, assuming
  `Overlap = FALSE`: exactly the assumption the comment in the code makes. Of
  conditions left in the hardware at the start nothing is assumed; the pool is true
  of the watchpoints that have been marked since (`marked`).
* `NothingGetsLost`, from the same assumption: `NothingIsLostOnce`, which is
  guarded by `repeated` and so says of every behaviour up to which step it holds.

Its inductive invariant conjoins `TypeOK`, `OwnedOnce` and

* `QuietInv`: while GDB has a hardware matchpoint or the RSP thread is in a
  packet for one, the HWP thread is in none;
* `GrantInv`: between the look and the mark the watchpoint found stays free;
* `StageInv`: how far the registers have been written at each step of a packet;
* `ArmedInv` and `PoolInv`: `MatchpointsAreArmed` and `PoolIsTrue` extended to
  the states inside a packet.

`NothingGetsLost` adds `OwnerInv`, the same for owners.

`JspServerProofs` proves, for any size of the rings, the FIFOs and the socket, and
any number of failures:

* `JspInvariant`: types; the two indices and the count of each ring agree; a ring
  has room for what the hardware can deliver; a FIFO holds no more than its size;
* `BytesStayInOrder`: what has arrived, what is in the ring and what is in the
  socket are together the bytes sent, in order; once a transaction has failed,
  none is lost towards the hardware, and none is repeated towards the client.

Nothing is assumed of the program or the client. The thread writes to the ring
towards the client without a look at its room, and what is said of that direction
holds until the ring is overrun (`overrun`); from then on only its indices stay in
range, which is what the lemmas with `Loose` in their names are about. What a ring
holds is a sequence (`Bytes`), and the lemmas say what each operation does to it:
putting at the write index appends, taking a linear part at the read index removes
from the front, wherever either wraps. The steps are then about sequences: FIFO,
ring and socket concatenated.

`ExperimentsProofs` proves of `DelaySearch`, for any range of delays, any
`unsigned int` that holds the longest of them and three more (not the sum of two),
any target and margin, and every chip whose bits only decay with the delay:

* `TypeCorrect`, `SearchIsCorrect` (from `FoundIsCorrect` and `StopIsCorrect`)
  and `SearchEnds` (`AlwaysCloser`): what the search finds is near enough, it
  comes closer with every pass, and where it gives up no delay would do but one
  in the remaining gap or at the ends of the range.

The invariant adds `BoundsAreSeen`, that a bound which has moved was measured
to be too short or too long, and `RoomToSearch`, that there is a delay between
the bounds as long as the search goes on. `RoomIsExact` and `DelayBetween` are
the arithmetic: the test for room does not wrap around, and half of each bound,
rounded down, still adds up to a delay between the two.

Of the programs of `Experiments` it proves, for any number of rows, columns, bits,
delays and voltages, any image and every chip:

* `LogsAreTrue`: what flash says is what the cells did when left alone for exactly
  the delay: the fingerprint, what is left of an image, the first delays at which
  words or bits fail, the number of words that stay valid. Of `sequentialBits.c`, which
  reads without a refresh, it says so of a time between the delay and the delay with
  all of the reading. It is a theorem about
  whichever of the seven programs `PROGRAM` names, so that it covers what
  `ResultsAreTrue` checks of the chip as well.

The heart of it is `ScheduleInv`, which all overlapped programs share. `Counters`
gives the word to write and the word to read as functions of the block, `RowTimes`
says when each row was last accessed: at its last write, or, once its first word
has been read, at the last read. So its cells decay for exactly the delay before
that first read, and for one block between the reads after it; `Cells` says that
until the first read no cell that outlasts the delay is lost, and afterwards no
other is left. `WriteSchedule` and `ReadOnSchedule` carry it over a write and a
read, `ReadFinds` is what a read gets. On top of it, `Results` says what each half
of each byte of flash holds, and that those to come are still all ones, which is
why a write to flash gives what was written; `Addresses` says that the byte in use is
the one of the next word; `Firsts` that flash has the least of the delays tried so
far (`Tried`). Of a scan it is `Lost` and, where reading takes time, `LateLost`: which
words differ, or may, when they are read.

It assumes of the constants:

* rows have an even number of words (`LogAssumption`; they have 256): two words
  share a byte, and the parity of the column says which half;
* fewer than 255 delays (`MapAssumption`; `overlappedBits.c` tries 225): their
  numbers are bytes, and 255 is erased flash. The comment there, "Supports up to
  255*DELAY_INCREMENT seconds", is one too many: a first failure in the last pass
  would look like none;
* a delay of no block at all only for cells that outlast one (`RefreshAssumption`):
  such cells would be read as good in the first word of a row and not in the next.

`DebugAccessProofs` proves, for any threads, words, lengths of a block, lists of
calls and either kind of debug unit:

* `TypeCorrect`, whatever scans fail: only the holder of the mutex is inside.
* `CacheStaysTrue`: `current_chain` is what the unit has selected. It is proved
  where no scan fails or the unit is the legacy one, which forgets a failed
  selection; for the advanced one with failures it does not hold.
* `ReachesNamed`: each access reaches the module its function names. It assumes
  besides that each function selects the module it names, which all do but
  `dbg_cpu1_write()` on the advanced unit.
* `AccessImplementsAtomicUnit`, with the same assumption (`SelectsNamed`): every
  step maps to a step of `AtomicUnit` or a stutter while `whole` is true.

The invariant conjoins `ThreadsOK`, `MutexOK` and `RestOK` with
`BelievedSelected`: between its selection and its unlock a thread finds its
module recorded as selected, whatever others did before. `ReachesNamedModule`
follows from that and `CacheIsTrue`, which is inductive beside it.

The refinement adds `WholeInv`: while calls are whole, the caller inside has
transferred exactly the words before its position and found no failure
(`Progressed`), so that its first write is the abstract access, and its last read
saw nothing but what the abstract read sees at the end; nobody but the holder of
the mutex moves a word in between (`OthersProgress`).

`DebugUnitsProofs` proves, for any memory, block, faults and bounds on errors, in
one stream or word by word:

* `BurstsAreRight`: a burst that reports no error has transferred every word, with
  retries too, none writes outside its block, and errors of the bus alone are made
  good, as long as nothing was damaged that no CRC protects: the invariant is
  `BurstInv` until then (`UntilGarbled`). It assumes `NoBusOnXilinx`: on those parts
  the program returns without a look at the error register, and a word that failed
  on the bus goes unnoticed.

and, for any chains, retries and accesses of the legacy unit:

* `LegacyResultsAreTrue`, that an access that returns no error has done what it
  says, and `AccessesAreAsAsked`, that none touches more than it names, and none
  reaches the unit while the TAP is out of step.

The invariant of a burst conjoins `BurstShape`, the ranges of its variables;
`Position`, that the unit is at the word the program is at; `WordsRight`, that
each word so far is right, or the CRC is wrong, or the error register tells of an
error at or before it (`RightOrTold`); and `ErrorsHaveCauses`. The middle case is
what makes the retry sound: the error register holds the first error, so that the
words before it are right when the program goes on from there. That of the legacy
unit is `OnItsChain`: between the selection and the return the unit is on the chain
of the access, and when the transfer goes it is the one that was prepared.

`CableStreamProofs` proves, for bytes, words and packets of any size, streams of any
length, any number of retries and both USB-Blaster drivers, from `CableAssumption`
alone (sizes are positive):

* `TypeCorrect`: the counts of a call stay in range, below zero only after an answer
  without its status (`short`), and only bits of the stream are clocked and read;
* `StreamsStayRight`: `StreamsAreRight`, of writes and reads, with the conditions
  that the code makes necessary. A write forgets errors, and one driver does not hear
  of a bit that is lost: they have clocked their stream if nothing failed (`~lost`).
  Other reads that return without an error have clocked it whatever failed. The
  places of the bits are right for reads of one packet that were answered at once:
  the lanes of a second one count from its own start.

Its invariant conjoins `TypeInv`, with the progress of a call by its place (`Progress`);
`ClockInv`, that the chain has seen just the bits that are due (`Sent`) as long as no
failure is forgotten (`Honest`), and that packets find the clock low; and `PlaceInv`,
that nothing is left in the cable between packets and bits, and that the words hold
the bits up to this one and are clear behind it. `ShiftSends` is the arithmetic of a
packet: bits of bytes, counted from the start of the stream, are the bits of the
stream; `AnswersPlaced` that of an answer: each byte of it has a lane of its own.

`RspRequestsProofs` proves, for any width of a word, breakpoints and requests:

* `TypeCorrect`, `AnswersStayTrue` and with them `FailuresStayTold`, whatever
  accesses fail: `p`, `P` and `g` never give an untrue value or "OK", and `qRcmd` does
  so only when its own access fails. The "OK" to `G` and the NPC are excepted;
* `StopsAreTrue`, with its parts `NpcStaysTrue`, `StopsAtBreakpoint` and
  `SignalStaysTrue`, without an assumption: each is guarded by `undisturbed`. The
  requests that end it are allowed, and are where the three cease to hold.

The invariant adds `CopyIsKept`, that the copy of the NPC is right where it is in use,
and in use while a stopped CPU hides its own, and `CauseIsShown`, that the registers from
which the signal is taken were cleared by the resume and show this stop.

*Only model-checked:* all properties of `RspPacket`, `TapChain`,
`ChainEnumeration`, `MpsseCable` and the database; and all liveness. Liveness under
fairness and ENABLED are out of this prover's reach, as is induction over data: what
a checksum, the fold over the packets of a stream or the merging of chips computes
for every input cannot be proved, and `RspPacket`, `TapChain`, `MpsseCable` and
`FingerprintDb` are built on these.

## Plan

In this order, most important behaviour first.

1. *(done)* `HardwareMonitor`, `StatusBroadcast`, `RspSession` with their runs
   and proofs.
2. *(done)* `Watchpoints` with its run and proofs.
3. *(done)* `JspServer`, its rings, partial sends and receives.
4. *(done)* `DebugAccess` with `AtomicUnit`, and its proofs; `BurstTransfer` and
   `LegacyUnit` below it.
5. *(done)* `RspPacket`; `RspRequests` with its proofs.
6. *(done)* `TapChain`, `ChainEnumeration`, `CableStream`, `MpsseCable`.
7. *(done)* `DecaySchedule` with `FingerprintLog` and `FailureMap`,
   `VoltageScan`, `DelaySearch` with its proofs.
8. *(done)* `FingerprintDb`.
9. *(done)* What the overlapped programs log and what the voltage scans record,
   as theorems about `Experiments`.
10. *(done)* Proofs of the session's invariants, of `JspServer`, that
   `DebugAccess` implements `AtomicUnit`, of the debug units and of `CableStream`.
11. The abstract pool of watchpoints with owners that `Watchpoints` implements
    when its two users do not overlap, and failing accesses there.
12. Memory packets; chains of several devices under the status bits of a burst.

## Not modelled

* Sockets: how they are set up, and the errors of their calls. A connection is
  open, closed by the client, or not there.
* The text of packets, and the packets that carry memory or descriptions of the
  server (`m`, `M`, `X` as far as they are more than writes, `q` other than
  `qRcmd`): conversions between bytes and words.
* Start-up: command line, BSDL files, configuration of the chain. The constants
  of the modules are what it may leave. The builds that differ are settings:
  bursts with `USE_HISPEED` (the Makefile's default) and without, the legacy
  unit and the advanced one, a JSP server or none.
* The drivers for parallel ports, simulations and DLC9 cables, which move single
  bits through a port, a file or a socket, and the self-test, a script of
  accesses.
* `dram_picture`, `dram_heatmap/main.cpp` and `workspace`, earlier or interactive
  variants of the programs that are modelled; the scripts that turn result files
  into other result files; the OpenRISC test programs.
* Vendored Verilog and what comes with it.

`PROJECT.json` gives the reason for each component.
