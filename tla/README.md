# Verification of axis-systolic-array

TLA+ models of the AXI-Stream systolic array, the DMA path around it and the
two pieces of software that drive it (bare-metal firmware and Linux driver),
the two bridges that attach it to an Ibex core, and the Python scripts and
makefiles of that core's UVM regression,
with TLC configurations and TLAPS proofs. Paths below are relative to the
repository root; those of the regression flow are relative to
`ibex-soc/dv/uvm/core_ibex/` unless they start with `util/`, which is
`ibex-soc/util/`.

## 1. The system

| Component | Source | State it keeps | Operations |
|---|---|---|---|
| Systolic array | `rtl/sa/axis_sa.sv`, `pe.sv`, `mac.sv`, `tri_buffer.sv`, `n_delay.sv` | delay lines of valid and last, per-diagonal flags, skew buffers, multiplier and accumulator pipelines, output shift registers | one clock edge: take an operand beat, accumulate, copy finished sums out, shift an output beat |
| DMA controller | `rtl/sys/dma_controller.sv` | 16 registers: START, four DONE, ADDR/BYTES/TUSER | software write, descriptor handshake, status report |
| Read DMA (x3) | `rtl/ext/alex_axi_dma_rd.sv` | AXI state machine, pending command, stream state machine, output FIFO | take descriptor, issue bursts, deliver beats, report status |
| Write DMA | `rtl/ext/alex_axi_dma_wr.sv` | state machine, burst and length counters, status FIFO | take descriptor, store beats, finish a short burst, drop a long packet, report status |
| Width adapter (x4) | `rtl/ext/alex_axis_adapter*.sv` | segment registers, output register | pass, widen or narrow a beat |
| Joins | `rtl/sys/top_axi.v` (also `top_axi_int.v`, `top_sa_ram.v`) | none (wires) | k with x into the array, array output with a into y |
| Firmware | `c/firmware.h`, `c/xilinx_example.c` | program counter | program registers, START, poll S2MM_DONE |
| Linux driver | `linux_driver/systolic_array_{main,hw,dma}.c` | DMA buffers; nothing between calls, no lock | ioctls: raw registers, copies, RUN |
| Skid buffer | `rtl/sys/skid_buffer.sv` | three states and two words | one clock edge |
| Ibex register bridge | `rtl/sys/dev_to_maxil.sv` | bridge state, one held request, read throttle | turn a request of the core into an AXI-Lite transaction |
| AXI-Lite register port | `rtl/ext/alex_axilite_{wr,rd}.sv` | latched address and data, response | write or read one register |
| Ibex host bridge | `rtl/sys/saxi_to_host.sv` | engine state, one read and one write command, write buffer, R and B channel | perform a DMA burst word by word on the Ibex bus |
| Metadata store | `scripts/metadata.py` (`LockedMetadata`), `scripts_lib.py` (`export`) | `metadata.pickle`, its lock | lock and read, change, write back and unlock |
| Make flow | `Makefile`, `wrapper.mk`, `scripts/{riscvdv,ibex_sim}.mk` and the scripts they run | files and their ages; a `TestRunResult` pickle per test | generate, compile, simulate, check, collect; interruption, second run |
| Log check | `scripts/check_logs.py`, `riscv_dv_extension/ibex_log_to_trace_csv.py` | none | log and trace to verdict |
| Test selection | `scripts/{metadata,ibex_cmd,directed_test_schema}.py`, `directed_tests/gen_testlist.py` | none | arguments and testlists to TEST.SEED words |
| Test build | `scripts/{run_instr_gen,compile_test}.py` | a scratch directory | generator's output to `test.S` to `test.bin` |
| Simulator commands | `util/ibex_config.py`, `scripts/{ibex_cmd,riscvdv_interface,scripts_lib}.py`, `yaml/rtl_simulation.yaml` | none | named configuration to commands |
| Tool check | `util/check_tool_requirements.py` | none | installed versions against required ones |
| Reports | `scripts/collect_results.py`, `scripts/report_lib/` | none | results and coverage to `regr.log`, JUnit, JSON |
| AXI infrastructure | the rest of `rtl/ext` | crossbar, arbiter, RAM (third-party) | |
| Co-simulation | `firebridge/` | memory image shared through DPI | |

How they interact. Software writes the registers of the DMA controller over
AXI-Lite and sets START. The controller offers a descriptor to each DMA: to the
readers while the writer is ready, to the writer while reader 0 is. The readers
fetch k, x and a from memory and stream them through the adapters. A k and an x
beat enter the array together; after the last beat of a packet the array yields
C output beats, each of which is joined with an a beat and streamed to the write
DMA, whose response sets S2MM_DONE, which the software polls. In the Ibex system
(`rtl/sys/sa_for_ibex.v`) the core reaches the registers through `dev_to_maxil`
and the AXI-Lite port, and the four DMAs, behind a crossbar, reach memory through
`saxi_to_host`.

The regression flow runs apart from the hardware. `make run` creates the
metadata and a `TestRunResult` per test (`metadata.py --op create_metadata`), asks
for the tests' names (`print_field`), and builds the file tree of `wrapper.mk` in
parallel: generator, `test.S`, `test.bin`, `rtl_sim.log`, `trr.yaml` of each test,
testbench, coverage, and at last `regr.log`. The scripts talk to each other only
through files: `metadata.pickle`, which six of them lock and write and the others
read without the lock, and the test's pickle, which each script of the test reads
and writes.

What is hard here:

- *Overlap in the array.* The sums of a packet reach the output registers
  diagonal by diagonal, while the previous packet may still be leaving through
  the same registers and the sink may stall.
- *Partial handshakes.* One START bit starts four engines, each with its own
  ready. An engine is ready again long before its data has gone through.
- *Stale flags.* DONE of the last run, tlast wires looked at long after their
  beat, a writer state left over from a packet of another length.
- *Software that comes back early.* A timed-out driver call leaves the hardware
  running; two processes interleave their register writes.
- *Long paths.* A register access crosses three state machines; it must take
  effect once although each of them holds its own copy for a while.
- *Shared engines.* The host bridge runs read and write bursts, accepted at the
  same time, through one engine with one error flag.
- *Termination.* The firmware polls without a limit.
- *State in files.* A pickle is emptied before it is written; make may stop
  between any two steps of its scripts and be started again, and what it finds
  then is judged by age alone. A script of a parallel make may hold an old copy.
- *Failures that are no errors.* A generator, simulation or timeout that goes wrong
  returns 0, and a later script has to notice.
- *Names and options put together at run time.* A parameter may get lost between
  two stages and five simulators, a test between two testlists.

What makes each component correct: the array delivers the matrix product, C
beats per packet with last on the last one, holds a refused beat, loses no
packet and does not block; the controller's START is taken by all channels at
once; DONE means that nothing of the run is left anywhere; a call that returns
success has done its own transfer; every call returns; a register access takes
effect at one instant between its grant and its answer; a burst's words are
accessed once each and in order, and its answer tells of its own errors; what a
script adds to the metadata stays; a test is reported as PASS only if it passed,
and not forgotten if it did; the tests that run are those that were chosen, with the
configuration that was named; all reports tell the same story.

## 2. Modules

| Module | Models | Built on |
|---|---|---|
| `AxisSA` | the array, clock by clock, with its two stream neighbours | |
| `MCAxisSA` | TLC constants of `AxisSA` | `AxisSA` |
| `AxisSA_proofs` | TLAPS proofs: types and stability next to any neighbours, the matrix product with one packet at a time or packets far enough apart | `AxisSA` |
| `DmaController` | START, DONE and BYTES registers; which channels take a descriptor | |
| `RunPath` | the hardware from START to DONE: readers, adapters' capacity, joins, array as a counter of owed results, writer | `DmaController` |
| `RunPathInv`, `RunPath_proofs` | what the data path keeps whoever writes the registers, and its proof, step by step | `RunPath` |
| `Firmware` | `run()` in a loop, on top of `RunPath` | `RunPath` |
| `FirmwareInv` | the inductive invariant of `Firmware` | `Firmware`, `RunPathInv` |
| `MCFirmware` | TLC root | `FirmwareInv` |
| `Firmware_proofs` | TLAPS proofs | `FirmwareInv`, `RunPath_proofs` |
| `LinuxDriver` | `SA_IOC_RUN` by several processes, on top of `RunPath` | `RunPath` |
| `LinuxDriverInv` | the inductive invariants of `LinuxDriver` | `LinuxDriver`, `RunPathInv` |
| `MCLinuxDriver` | TLC constants of `LinuxDriver` | `LinuxDriver` |
| `LinuxDriver_proofs` | TLAPS proofs | `LinuxDriverInv`, `RunPath_proofs` |
| `RegPort` | abstract: a register access, performed in one instant | |
| `DevToMaxil` | the register bridge, the AXI-Lite port and the register file; refines `RegPort` | `RegPort` |
| `MCDevToMaxil` | TLC constants of `DevToMaxil` | `DevToMaxil` |
| `DevToMaxil_proofs` | TLAPS proofs of the refinement and of the read throttle | `DevToMaxil` |
| `SaxiToHost` | the host bridge between an AXI master and an Ibex bus | |
| `MCSaxiToHost` | TLC constants of `SaxiToHost` | `SaxiToHost` |
| `SaxiToHost_proofs` | TLAPS proofs of its safety properties | `SaxiToHost` |
| `MetadataRegister` | abstract: what is added to the metadata stays | |
| `MetadataStore` | the locked, truncated and rewritten file; refines `MetadataRegister` | `MetadataRegister` |
| `TestLogs` | from a log and a trace to the verdict | |
| `Regression` | make, its scripts and the files of a regression | `MetadataStore`, `TestLogs` |
| `MCRegression` | TLC constants of `Regression` | `Regression` |
| `RegressionInv` | the inductive invariant of `Regression` | `Regression` |
| `Regression_proofs` | TLAPS proofs of the store's refinement, of the regression's safety properties and of its use of the store | `RegressionInv` |
| `TestSelect`, `TestBuild`, `SimCommands`, `ToolVersions`, `Reports` | the sequential tools, as operators | |
| `FlowTools` | a call of one of these tools, and what each is for | the five above |
| `MCFlowTools` | inputs for the tools | `FlowTools` |
| `FlowTools_proofs` | TLAPS proofs about the tool check, the reports and the building of a test | `FlowTools` |

### AxisSA

One step is one rising edge. Every register declared in the SystemVerilog is a
variable, every wire an operator of the same name, so `RegValid` is the
`always_ff` of `r_valid`, `en_mac(ready)` the wire `en_mac` in a cycle in which
`m_ready` is `ready`, and so on. The words are abstract: an input word is named
by its packet, beat and lane, a product is the pair of its factors and a sum the
sequence of products added since the accumulator was restarted. The arithmetic
itself (widths, sign) is therefore not looked at, but any missing, repeated,
misaligned or foreign product is. `Idle` stands for the word on the bus while
valid is low.

The source is the one `formal/axis_fvip.svh` assumes: valid and payload are held
until taken, anything may be offered otherwise. The sink takes or refuses. A mode
(constant `Modes`, fixed in the initial state) says how long the packets are, how
many may be on their way, and whether the sink may refuse a beat: `Serial(k)`
offers a packet when the one before has left, `Paced(k)` and `Stream(k)` do not
wait.

### DmaController and RunPath

All registers are written in one clocked block; an event of the hardware and a
software write in the same clock act as the event first and the write second
(the later assignment wins), so they are separate steps.

Streams hold only the tlast flags of the beats on their way. A stream's FIFO,
adapter and pipeline registers together hold `Cap` beats. A beat is a word of
the array's side of the adapter. `Sticky` says what the k and x adapters show on
tlast when no beat is valid: a bypass and an upsizer keep the flag of the last
beat, a downsizer lowers it. The array is a counter `res` of output beats owed;
when a packet ends while the previous one is not yet out, the model allows any
number of lost results, as `AxisSA` shows (`sa_stream_matmul`).

| Action | Code |
|---|---|
| `Handshake` | descriptor handshake at one clock edge, of exactly the channels `Taken(ReadyChannels)`; START falls if all are ready |
| `RdIssued`, `RdTake`, `RdBeat` | read DMA: last AR burst issued; stream side takes the command; a beat enters the output FIFO, the last with tlast and status |
| `TakeBeat`, `AddBeat` | the two joins of `top_axi.v` |
| `WrBeat`, `WrFinish`, `WrDrop`, `WrResp` | write DMA states WRITE, FINISH_BURST, DROP_DATA and the B channel |

Not in this model: several bursts per transfer, byte offsets, addresses, data.

### Firmware, LinuxDriver

Each register access is a step and hardware steps fall in between. The ADDR
writes change nothing the model keeps and go with the BYTES writes. `Poll` is one
turn of the polling loop. In `LinuxDriver` the four reads of
`sa_hw_done_status` are separate steps in any order (C leaves it open), and the
countdown of `sa_hw_wait_done` may expire after any unsuccessful look when
`Timeouts` is set; the call then ends and the process may make another.

### RegPort, DevToMaxil

`RegPort` is what the software modules take for granted when they make a
register access a single step: issue, perform, reply, the second exactly once
and atomically, with the hardware free to change START and DONE at any time.
`DevToMaxil` is the hardware path clock by clock, with the code's names: `state`,
`req_valid`, `rd_cooldown` of the bridge; `wr` and `rd` hold the registers
(`s_axil_awvalid_reg`, `reg_wr_en_reg`, ...) of the two halves of the port. One
step `Clock` is one edge and consists of `Bridge`, `WrPort`, `RdPort` and
`RegFile`; the core (`Core`) holds a request until it is granted. The refinement
mapping `op` calls an access pending once the bridge has latched it and done once
the port holds a response for it; its result is what the bridge will answer.

### SaxiToHost

One step is one clock edge; `Inputs` are the signals of the neighbours in that
clock. `RdCmd`, `WrCmd`, `WData`, `RChannel`, `BChannel`, `Errors` and `Engine` are
the `always` blocks of the code, in its order. A word is known by its address and
a write beat by its place in the burst. The bus grants when it likes and answers
once, at least one clock after the grant. `rburst` and `wburst` record, for the
burst last accepted, the accesses granted, the beats passed on and whether any
failed; no code looks at them.

### MetadataStore, Regression, TestLogs

`MetadataStore` has the steps of `LockedMetadata`: `Enter` (the file is opened and an
alarm set), `Lock` (granted and unpickled), `Truncate` and `Unlock` (`__exit__`, in the
two halves of `export`), `LockFails` (the 5 s alarm, or a file that cannot be
unpickled), and `Killed`, after which the system drops the lock and the file stays as
it is. What a script adds is its own name, so the file is a set of scripts.
`MetadataRegister` says what this amounts to: additions at one instant, and at worst
the loss of everything. That loss is for good: `make run` leaves metadata alone that
exists.

`Regression` has one file per target of the makefiles, `<<kind, test>>` or
`<<script, All>>`. Of time it keeps what make asks: for a file and a prerequisite,
which is newer (`newer`), and what make found when it started (`absent`, `dirty`).

| Action | Code |
|---|---|
| `StartMake`, `CreateMetadata` | `make run`; the test pickles are written first, then the metadata |
| `Skip`, `Start`, `StopMake` | make: a target that is up to date, a recipe (at most `Jobs`), the end |
| `OpenStore` ... `CloseStore`, `Execute` | the six scripts that lock: with-block, commands, `touch` of the stamp |
| `ReadPickles` | a script of one test reads metadata, without the lock, and the test's pickle |
| `Generate`, `Compile`, `Simulate`, `Check` | `run_instr_gen`, `compile_test`, `run_rtl`, `check_logs` |
| `ExportFirst`, `Export` | the test's pickle and `trr.yaml` are written: `compile_test` before its commands, `run_rtl` before and after, the others last |
| `Dies` | an exception before anything was written |
| `Interrupt`, `Edit` | make is interrupted or killed with its scripts; a source is edited between two runs |

make itself is not part of the repository; what the model takes from it is what the
makefiles rely on. Coverage is on, so the report waits for the merged coverage.

`TestLogs` is the verdict: a log is a sequence of line kinds, and the operators are the
loops of `check_ibex_uvm_log`, `process_ibex_sim_log` and `compare_test_run`, with the
exceptions they let through (`UvmRaises`: a log that says FAILED without an error line
ends in a `TypeError`).

### FlowTools and the tools it calls

Each tool is a function of what it is given, written as operators, and one call is one
step; only `Compile` continues what `Generate` left. `answer` is what the tool leaves
behind: files, words for make, an exit status, or `Bad` and `Unwritten` where it raises.
Strings are abstract but for what is done to them: a path is a sequence of names, so
that relocation is a lookup; a command is a sequence of words, of which some are
parameters still to be replaced; a version is its numbers. Which tests are built, what
tools are asked for and installed, and which results are collected are constants;
`MCFlowTools` gives them correct values and each kind of mistake the code checks for.

## 3. What TLC checks

| Run | Instance | Shows |
|---|---|---|
| `array` | R=2, C=3, LM=2, LA=2, three packets: of 1 to 3 beats one at a time with any stalls, or of 6 beats back to back into a sink that never stalls | `MatMul`, `LastBeat`, `StallStable`, `Drains`, `Accepts` |
| `sa_stream_matmul` | R=C=2, LM=LA=1, packets of 1 to 2 beats back to back, any stalls | `MatMul` violated |
| `firmware` | C=2, K=3, two beats per stream, two open responses | `StartPulse`, `DoneMeansQuiet`, `OnePacketInFlight`, `IInv`, `RunReturns` |
| `firmware_hang` | the same with `Sticky = FALSE` | `RunReturns` violated |
| `linux_single` | one process, no timeouts | `RunMeansDone`, `RunReturns` |
| `linux` | two processes, timeouts, AXI errors, an S2MM length one below the packet | `TakenTogether`, `OnePacketInFlight`, `StartFalls` |
| `linux_timeout` | one process, timeouts | `RunMeansDone` violated |
| `regport` | two registers, one of them written by hardware, two values, `POLL_GAP` = 8 as built | `AtomicAccess` (refinement of `RegPort`), `PathInv`, `PollGap`, `Answered` |
| `host_bridge` | bursts of 1 to 3 beats in both directions, 2-bit counters | `ReadBeat`, `ReadAccess`, `WriteAccess`, `WriteResponse`, `Served` |
| `regression` | one generated and one directed test, two jobs, two runs of make, one edit or interruption, a log that passes and one that fails | `PassIsReal`, `CollectedLast`, `NothingForgotten`, `Refines` (refinement of `MetadataRegister`), `MakeEnds` |
| `regression_rerun` | one directed test, the same bounds | `RerunPassIsReal` violated |
| `flow_tools` | one call of one tool, about 23000 inputs | `TestsSelected`, `BinaryArrives`, `ConfigArrives`, `ToolsChecked`, `ReportsAgree` |

Bounds, and why they are enough.

- *AxisSA.* `MaxPkts = 3` packets: the effects between packets are between
  neighbours, and a third one meets whatever state the second leaves behind.
  R=2, C=3 has diagonals before, at and after column C-1, which is where the
  flag rules change; LM=LA=2 has an inner stage in both pipelines. The packets
  back to back have R+2C-2 = 6 beats, the spacing at which overlap is harmless.
- *RunPath.* K=3 > Cap=2 so that readers are stopped by a full stream; C=2 has
  a first and a last result. `MaxActive=2` (32 in the code) so that the limit is
  never reached in a run of `firmware`, and reached in the driver's runs, where it is 1.
- *LinuxDriver.* One operand beat per packet where two processes interleave
  (the interleavings are of register accesses and of engines, not of beats);
  two beats in `linux_single` and `linux_timeout`. S2MM lengths below the packet
  (`linux`) and above it (`linux_single`, where the last beat still ends the
  transfer) take the writer through all its states.
- *DevToMaxil.* The path holds one access at a time and treats all registers
  alike but for the hardware's writes; a wrong address shows between two
  registers, a stale value between two values. Nothing is bounded in time.
- *SaxiToHost.* Bursts of one, two and three beats have a first, an inner and a
  last one; reads and writes use disjoint addresses, so that a mix-up shows. The
  two-bit counter of the model wraps at four beats as the code's eight-bit one does
  at 256; bursts of that length are excluded by `SaxiToHostAssumption`, since the
  DMAs are built with `AXI_MAX_BURST_LEN` = 1 (`top_axi_int.v:93`).

- *Regression.* The tests touch each other only through the metadata, the report and
  make's jobs, so one of each kind and two jobs show the effects; the second make
  meets everything the first one can leave. `MaxEvents = 1`: one edit or one
  interruption, at any moment. The logs that end by their own clock or with an empty
  trace are in `MCOutcomes`; with them and one directed test the properties also hold,
  but the instance with two tests gets too large.
- *FlowTools.* Nothing depends on the length of a list but its first elements and
  one after another: up to three tests, three results, four numbers of a version. All
  five simulators and all 17 parameters are there.

All runs check for deadlock but three: in `regression` and `regression_rerun` make may
have been started as often as the bound allows, and in `flow_tools` a behaviour is one
call (two for the building of a test).

Fairness. `AxisSA`: the clock ticks, and the sink does not refuse a beat for
ever (`AXI_MAX_STALL_ENV` of the formal testbench). `RunPath`: each engine that
can take a step does (they are clocked), and memory answers every request;
nothing is assumed about the order in which engines move. The firmware's and a
driver call's own steps are weakly fair; no process is obliged to make a call.
`DevToMaxil`: the clock ticks, nothing else. `SaxiToHost`: the clock ticks, the bus
grants a request that stays up and answers a granted one, and the master provides
write data and takes beats and responses, each eventually; that write data does
not itself wait for a read behind the bridge is assumed here, not shown.
`Regression`: a make that runs goes on (weak fairness of `Work`: the operating system
runs its processes and grants a free lock; a simulation is killed after its time).
No script is favoured, nobody is obliged to start make, and interruptions
and edits may or may not come.

## 4. What is proved

The theorems hold for every value of the constants that the modules' assumptions
admit. Those that need more say so in their statement, and the text below says why
the code gives it.

| Module | Theorems about the runs' properties | Hypotheses |
|---|---|---|
| `AxisSA_proofs` | `TypeOK`, `StallStable` | none |
| | `MatMul`, `LastBeat`, and that `s_ready` is never low | `Unhurried`: one packet in flight (`OneAtATime`), or packets of at least R + 2C - 2 and more than R beats into a sink that never refuses one (`FarApart`) |
| `Firmware_proofs` | `IInv`, `TypeOK`, `StartPulse`, `DoneMeansQuiet`, `OnePacketInFlight` | `Sticky` |
| `LinuxDriver_proofs` | `TypeOK`, `TakenTogether`, `OnePacketInFlight` | `Sticky`, `FitsArray` |
| | `RunMeansDone` | also one process, no timeouts, `FitsOutput` |
| `DevToMaxil_proofs` | `AtomicAccess`, `PathInv`, `TypeOK`, `PollGap` | none |
| `SaxiToHost_proofs` | `TypeOK`, `ReadBeat`, `ReadAccess`, `WriteAccess`, `WriteResponse` | none |
| `Regression_proofs` | `TypeOK`, `PassIsReal`, `CollectedLast`, `NothingForgotten`, `Refines` | none |
| `FlowTools_proofs` | `ToolsChecked`, `ReportsAgree`, `BinaryArrives` | none |

Hardly any of these properties is inductive. Each component has an invariant that is;
TLC checked it on a small instance before the proof was written (`IInv` of `Firmware`
and `PathInv` of `DevToMaxil` in the runs, the others apart).

**The array.** `ArrayInv` (types, also of the skew buffers, and that an offered beat
still fits its packet) holds for all sizes and any neighbours. A step in which the sink
receives nothing although a beat is there is one with `m_ready` low, and then nothing
in the output registers moves (`StalledStep`); that is `StallStable`.

Next to neighbours that do not hurry it (`Unhurried`) the array computes the matrix
product: `ProductCorrect`, for every R, C, LM, LA, every length of the packets and any
gaps in the input. Either there is one packet at a time, with any stalls of the output
(`OneAtATime`: what `OnePacketInFlight` says of both drivers), or packets follow each
other directly, but are long, and the sink takes what it is offered (`FarApart`). The
model's words are abstract, so what is proved is which products are summed up and where
they leave, not the arithmetic of a product.

The invariant `HistoryInv` says that there is a history `p`, `b`, where `p[n]` packets and
`b[n]` beats of the next had been accepted n clocks ago, and that it determines every
register: tap n of the delay lines is valid where the history steps and last where `p`
does (`Lines`), the operands of element (r, c) are the beat of r + c + 1 clocks ago
(`Operands`), its sum is over the beats of LM + r + c clocks ago, or over the whole packet
before them until the next begins (`Sums`), its diagonal's output register is full when
the packet being received was complete LM + LA + r + c clocks ago, and then holds column
c - `m_beat` (`Flags`, `Results`). A clock moves the history by one tap (`Moves`; one lemma
per part: `CountsMove`, `LinesMove`, `FlagsMove`, ...). Why results never meet:

- one packet at a time: nothing else is on its way while results leave, so that `en_mac`
  does not matter;
- far apart: by `Spaced` the ends of two packets are at least `kmin` clocks apart. A
  packet's sum is complete at element (0, 0) R + C - 2 clocks before its results begin to
  leave, all rows at once, and they take C clocks; so with R + 2C - 2 the sum of the next
  packet is complete there in the clock of the last beat at the earliest (`SecondPacket`,
  `CopyMeetsLast`), when the output register it goes to is no longer needed. Until then
  there is one packet behind the sums (`OneInside`).

The bound is nearly exact: with packets one beat shorter `MatMul` is violated for 1 x 1, 2 x 1,
3 x 1, 1 x 2 and 2 x 2 with LM = LA = 1 and for 2 x 2 with LA = 2; for 2 x 3 with both 2 it
still holds. With one column R + 2C - 2 is R, and packets of R beats do fail, hence
the second condition. TLC checked `HistoryInv`, with the history computed from `valid`,
for six sizes and both kinds of neighbours (up to 23,663 states). Short packets back
to back make `MatMul` and `LastBeat` false (`sa_stream_matmul`).

**The data path and its drivers.** `RunPathInv!PathInv` is the part of the invariant
that does not depend on who writes the registers:

- in each reader, the command, the beats left and the FIFO hold one packet, and tlast
  marks its last beat and no other (`ReadStream`); the same for the results
  (`WriteStream`);
- while operand beats are on their way no result is owed (`Coming`); afterwards the
  tlast wires of k and x are up, which is where `Sticky` is used, and there is no
  more of a than of results (`Going`);
- the write DMA is idle, or fills up its burst, only when all of a packet has passed
  (`Passed`).

`RunPath_proofs` has one lemma per engine step. `Sticky` is true when no downsizer sits
in front of the array: with the defaults of the `Makefile` (4 x 4, 8-bit operands, 32-bit
AXI) the adapters are bypasses. `firmware_hang` shows what happens otherwise.

`FirmwareInv!IInv` adds how a run progresses: registers already written by `run()` hold
their lengths (`Programmed`); outside the polling loop, and until START is taken, nothing
moves (`AtRest`); there is one place in the write transfer for every result owed
(`Loading`, `Draining`); DONE of the writer only after its last beat and its response
(`Running`). `NoDrop` shows that FINISH_BURST and DROP_DATA are never entered.

`LinuxDriverInv!IInv` is for any number of processes, calls that overlap in any way and
time out at any moment: a register that a process has written is never empty again,
so that START never hands out an empty transfer, and the handshakes of a START come
together (`TakenAll`). `FitsArray` says that no call asks for more beats of a than the array
has results (a is C rows of R words, `run/config.py:108`, of which a row is a beat). It is
the caller's duty: `sa_check_run_size` only compares the lengths with the buffers.
`SingleInv` is for one process without
timeouts: until START is seen everything is at rest, each result owed has its
place in the write transfer (`Stored`), and S2MM_DONE is set only when the run has come to
rest. `FitsOutput` is that the y transfer has room for the results. Neither hypothesis can
be dropped from `RunIsDone`: `linux_timeout` shows a violation with timeouts, and a
y transfer that is too short makes the write DMA drop the rest and store less than the
packet.

**The register bridge.** `PathInv` says for each state of the bridge which latches of the
port are full and that they hold the bridge's request. `PathStep` proves it state by
state; `ClockRefines` shows, again state by state, which step of `RegPort` a clock is:
the grant is `Issue`, the clock of `reg_wr_en` or `reg_rd_en` is `Perform`, the bridge's
answer is `Reply`, and every other clock leaves the access alone (`Atomic`).

`PollGap` for every `POLL_GAP` needs that the counter of width `CW` holds the gap:
`CounterWidth` derives it from the definition of `CW` as a least number (`LeastElement`,
by well-founded induction on the naturals), and `GapInv` says that the cooldown and the
clocks since the last read add up to the gap (TLC: `POLL_GAP` 0 to 5, 4,896 states each).

**The host bridge.** `IInv` of `SaxiToHost_proofs` (TLC: 105,040 states): the engine is
`Idle`, or a read (`Reads`) or a write (`Writes`) is under way; its command, the bus access
and the history of its burst agree on the beat it has reached (`RdRuns`, `WrRuns`), while
the command of the other direction is still as it was accepted (`Fresh`), and the one
error flag belongs to the burst under way. The properties follow for every address and
every length the counter holds.

**The metadata store.** `OneWriter` (the holder of the lock, and no other script, is
in its with-block, and the object it will write back is the one on disk) is not
inductive: `HolderFile` adds that the file stays whole until its holder begins to
write, and torn while it does. In the refinement `Unlock` is `Add`, `CreateKilled` and
`Killed` of the script that was writing are `Lose`, everything else is a stutter.

**The regression.** `UsesStore` shows that each step of make and its scripts is one of the
store or leaves it alone, so the theorems about the store hold of the regression
(`RegressionRefines`). The others rest on `RegressionInv!FlowInv` (TLC: 419,646 states), for
any tests, logs, jobs, numbers of makes, edits and interruptions. Its
parts say where a script can be (`Positions`, `Progress`, `Steps`), that what make
remembers of the files' ages is still so where it matters (`Memory`, `LogFiles`), and, as
long as nothing is edited, that what a simulation is made from and its log are never
made again (`Stable`). From this follows that a verdict is about the log that is there
(`Verdicts`). `FirstMake` is what a first make may rely on: it finds no logs,
so that every log is checked in it. The proof goes action by action, with one lemma for
each part an action can disturb.

**The tools.** A call is one step, so that the invariants only say what a call was given
and what it left (`Checked`, `Collected`, `Built`); the proofs are about the operators, for
any requirements, tools, results and names of tests.

- `ToolsChecked`: `packaging.version` compares number by number (`SameOrder`), and the
  letters and months of VCS releases come out in the order of time, within a month and
  between years (`VcsOrder`); so a tool passes exactly if it can be read and is no older
  (`GoodIsRecent`), and the exit status is that of all of them (`MainChecks`).
- `ReportsAgree`: a test passes or fails (`PassOrFail`), and the JUnit files have one failing
  case for each failing test and seed (`FailedCases`, counted by a bijection), as many as
  `regr.log`, the JSON report and the exit status say (`ReportsWritten`).
- `BinaryArrives`: where a generator puts the program (`CsrGenerated`, `OtherGenerated`: the
  relocation takes the first prefix that fits, `Relocations`) is where the compiler looks
  for it, and `test.bin` is made. The last of the commands makes a file that no other one
  makes (`LastMakes`), so it exists only if that command ran, and all before it did:
  `FirstStuck`, by well-founded induction, finds the first command that lacks a file.

Assumptions on constants that the proofs use and that TLC evaluates in the runs:

- sizes and latencies are positive, and the modes' lengths make sense
  (`SizeAssumption`, `SourceAssumption`);
- versions are numbers, those of VCS with a service pack and a patch below 100, and every
  tool that has a requirement says some version when asked (`VersionAssumption`);
- at least one result is collected, and one of each test and seed, as `create_metadata`
  names the files (`ResultsAssumption`); an entry of a testlist that has `rtl_params` has
  at least one (`TestlistAssumption`, used by TLC's runs only);
- `2 ^ w` is a positive natural number and doubles from w to w + 1 (`PowersOfTwo`,
  `SaxiToHostAssumption`): facts of arithmetic, which the provers do not know of `^`;
- at least one test is selected (the scripts stop otherwise), and what a simulation
  leaves is a log that can be opened, with a trace (`RegressionAssumption`).

Only model-checked:

- all liveness properties (`Drains`, `Accepts`, `RunReturns`, `StartFalls`, `Answered`,
  `Served`, `MakeEnds`): fairness and ENABLED are out of TLAPS's reach here;
- `TestsSelected` and `ConfigArrives` of `FlowTools`: what is selected, and the words of a
  command, come out of filters and folds over lists of any length (`SelectSeq`,
  `FlattenSeq`, `FoldSet`), which needs induction over data.

## 5. What the violations show

- `sa_stream_matmul`: `axis_sa` alone does not meet the
  assertions of `formal/tb_axis_sa.sv` for short packets that follow each other
  directly. `m_first` moves in cycles in which the accumulators stand still, and
  output registers are refilled or found occupied while the previous packet is
  still in them. (`Accepts` fails on the same instance under `FairSpec`: `s_ready` may
  stay low for ever.) In the whole system this cannot happen: `OnePacketInFlight`
  keeps packets apart, and `array` shows the array correct under exactly
  that condition.
- `firmware_hang`: `m_y_tlast = s_last & m_last` depends on what the adapters
  show when idle. With a downsizer (a stream word wider than the array's) the
  flag is gone, the write DMA goes on to drop the next packet, and the next call
  of `run()` never returns.
- `linux_timeout`: after `-ETIMEDOUT` the next `SA_IOC_RUN` may return 0 on the
  DONE bits of the transfer that had timed out.
- `regression_rerun`: a test passes; a source is edited; the test is simulated again
  and its log shows an error. `check_logs` sets the failure mode but leaves `passed`
  as it finds it, True, and `regr.log` says PASS. As long as nothing is simulated
  twice (`PassIsReal`) this cannot happen.

Met while modelling, and described where the models have them:

- make interrupted between `run_rtl` and `check_logs`: `trr.yaml` is newer than the
  log, so the next make does not check it and reports the test as FAILED
  (`NothingForgotten` is about the first make).
- metadata lost between `open('wb')` and `pickle.dump` stays lost, since
  `create_metadata` only asks whether the file exists; readers without the lock may
  find it empty and die.
- a TIMEOUT in a test's pickle is never reset either: the test stays FAILED.
- an empty test pickle ends `collect_results` (`EOFError` is not a `RuntimeError`); the
  branch for broken tests names a field that does not exist.
- with two `rtl_params` a test is listed once for each that matches (`Copies`);
  the repository's testlists have at most one (`Plain`). `TestsSelected` asks of such
  a test only that it is not missing.
- `TEST=all` selects no directed tests: `process_directed_testlist` looks for
  `all_directed` and the names of tests (`metadata.py:325`). The documentation says
  otherwise: "Use the special name "all" to run all the tests" (`metadata.py:265`), and
  `all` is the default, a "full regression" (`Makefile:37`). `TestsSelected` takes
  neither side: with `all` the directed tests may be there or not.
- a word without `=` in the `sim_opts` of a riscv-dv test, or a
  `+discrete_debug_module` without a number, ends `create_metadata` (`metadata.py:419`);
  the repository's testlist has none (`SimOptsRaise`).
- `gen_testlist.py` adds nothing, and says nothing, for a suite that is misspelt or whose directory is missing. Its own help text
  (`directed_tests/gen_testlist.py:458`) misspells `epmp-tests`.
- VCS versions of different months of a year are compared wrongly (`Behind`).
- `dsim` is offered (`Makefile:33`, `ibex_cmd.py:25`, `rtl_simulation.yaml:131`), but its
  testbench cannot be compiled: `ibex_config.py` has no `dsim_opts` for what `SIM_CFGS`
  demands, and the template has no `<cmp_opts>` and ends with a quote that is never
  closed. Only its sim command is ever made. `ConfigArrives` does not ask whether `dsim`
  has commands; if both are made, they must carry the configuration.
- an environment variable that a simulator lists must be set even if no command uses it
  (`dv_root` and `DUT_TOP` of xlm, `ALDEC_PATH` of riviera), although `subst_env_vars` says
  that it is an error if `<V>` occurs and `$V` is not set (`scripts_lib.py:154`, likewise
  `riscvdv_interface.py:105`). `ConfigArrives` leaves such variables open: it asks for
  commands if all are set, and for none if one that is used is not.
- discrete-debug-module tests never make the `test.bin` that make waits for, so each
  make compiles them again.
- a coverage report without covergroups, or with a metric of total 0, ends
  `collect_results` between `regr.log` and `report.json`.

## 6. Not modelled, and the plan

Not modelled for good:

- generated Vivado/OpenROAD/Chipyard flows, the vendored Ibex RTL, Python data
  generators, the simulation testbenches, the third-party crossbar: no state of the
  program, or other projects' code;
- the vendored riscv-dv, of which only the commands it prints and the place of its
  files matter here, and are external;
- `report_lib/html.py` and `svg.py` (layout of the numbers in `Reports`), the text of
  Xcelium's coverage report, pkg-config's flags, FuseSoC options of `ibex_config.py`,
  YAML copies of pickles.

Not modelled so far: zero lengths and bursts of the DMAs, the contents of buffers while
calls race, the skid buffers of `top_axi_int.v`, the output FIFO's pointers, and
the four DMAs around `saxi_to_host`. These are the hazards without a property.

What would come next, in this order:

1. `StreamPath`: output FIFO of the read DMA with its half-full backpressure and
   the width adapter in its three configurations, refining the abstract stream of
   `RunPath` (`Cap`, `Push`, `Pop`, `Sticky`).
2. `DmaRead`/`DmaWrite` at the level of bursts: 4 KiB boundaries, a transfer of
   several bursts, status after the last response, a length of zero.
3. `SkidBuffer` refining a FIFO of two, with the clock after reset.
4. Buffer contents in `LinuxDriver`: copies racing a run.
5. `SharedPort`: the four DMAs behind the crossbar and `SaxiToHost` on one memory
   port: the AR masks of `top_axi_int.v:562-697`, and whether a write burst announced
   before its data can block the reads that data needs.
6. An AXI-Lite master that overlaps address, data and reads, on the port of
   `DevToMaxil` (the Zynq processor's case).
7. Proofs: refinement of the abstract stream; `TestsSelected` and `ConfigArrives` with
   the folds replaced by what they return.
