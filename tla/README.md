# Verification of RISCV_CPU

TLA+ models of the RISC-V CPU in `src/Source`, of its memory system, and of the
serial link to the program on the PC that holds its memory
(`src/MemorySource`), of the simulator beside it, and of the uC/OS-II kernel
ported to the CPU and the library under it (`src/SystemSource`), with the TLC runs that check them on
small instances and TLAPS proofs for every instance: that the pipeline, the cache, the
memory controller, the UART, the ring buffer, and the kernel's partitions and timers
implement their abstract specifications.

## 1. The system

```
      FPGA                                                        PC
  +------------------------------------------------+     +--------------------+
  | pipeline: IF ID EX ME WB, PC_reg, Ctrl          |     | Environment        |
  |     | fetch port            | data port         |     |  memory, input     |
  |  icache (Cache.v)        dcache (Cache.v)       |     |  0x100, output     |
  |     | port 1                | port 0            |     |  0x104             |
  |     +---- memory_controller +                   |     |     ^              |
  |                | packets                        |     |  Adapter           |
  |          multchan_comm + mfifo                  |     |  (onRecv, send)    |
  |                | bytes                          |     |     ^              |
  |           uart_comm + fifo  <---- serial line ----->  serial port           |
  +------------------------------------------------+     +--------------------+
```

| Component | State | Operations | Talks to |
|---|---|---|---|
| CPU pipeline (`cpu.v`, `pc_reg.v`, `IF*.v`, `ID*.v`, `EX*.v`, `ME*.v`, `WB.v`, `Regfile.v`, `Ctrl.v`) | pc, four stage registers, three copies of a pending jump, registers | one clock edge | the two caches: request wires, `busy`, one-cycle `done` |
| Instruction datapath (inside `ID.v`, `EX.v`, `ME.v`) | none of its own | decode, ALU, branch condition, byte lanes | - |
| Cache (`Cache.v`, two instances) | ways, tags, ages, fill machine, one pending request | one edge in one of four states | CPU above, controller below, same handshake |
| Memory controller (`tmpSource/Mem_controller_tmp.v`) | one pending request per port, the port served | serve by priority, post writes, await a response | packets to and from `multchan_comm` |
| Packet multiplexer (`multchan_comm_tmp.v`, `mfifo.v`) | sender and receiver machines, packet id, packet buffers, channel arbiter | a byte per step | UART below, controller above |
| UART (`uart_comm.v`) | two state machines, baud counters, two byte buffers | a clock edge of either side | the serial line |
| fifo (`fifo_tmp.v`) | ring, two pointers, count | edge with read and/or write, reset | UART |
| Adapter (`adapter.cpp`) | receive machine, ids | `onRecv` byte by byte, `send` | Environment |
| Environment (`environment.cpp`) | memory, input and output streams, whether it runs | `LoadMemory`, `Run`, `ReadMemory`, `WriteMemory` | Adapter or Simulator |
| Simulator (`simulator.cpp`) | registers, PC | `RunInsn` | Environment |
| uC/OS-II kernel (`Micrium/Software/uCOS-II/Source`) | ready table, task and event control blocks, flag groups, timer wheel, partitions | services of tasks and handlers, the tick | the port: critical sections, context switch |
| Port and board (`os_cpu_a.S`, `os_cpu_c.c`, `riscv_hal.c`, `main.c`) | the pending software interrupt | trap entry and exit, tick, context switch | kernel, application |
| uC/LIB (`Micrium/Software/uC-LIB`) | memory segments, pools; buffers and strings of its callers | allocation, copies, strings, numbers | kernel and application |
| Top level, display, old memories, test benches, drivers | see `PROJECT.json` | | |

What is hard in it:

* nothing between IF and the PC has a fixed latency: every stage can be held for
  an unknown number of cycles, `done` lasts one cycle, and a jump that resolves
  meanwhile is remembered in three places (`pc_reg.v`, `IF_ID.v`, `ID_EX.v`);
* the input and output ports make an access that is repeated, or made by an
  instruction that should have been dropped, visible;
* the cache serves hits while a block is being filled, answers a write before
  memory has it, and wraps its ages at two bits;
* the controller answers writes when their packet is queued, and a response
  packet does not say what it answers;
* the line loses bytes (parity errors, full buffers) and nothing is retried;
* the two ends of the line have their own clocks;
* a kernel service that waits is two critical sections with a context switch in
  between, in which posts, time-outs, aborts, deletions and priority changes reach
  the same control block; a mutex moves its owner between tables it may be in;
  flag groups and timers are linked by hand;
* the reset button resets the FPGA and not the PC, in the middle of a packet or
  with an answer on its way;
* the two caches share a memory and do not see each other's writes;
* the library's pools keep a count and a list in two critical sections, and its
  arithmetic on addresses and lengths runs into the end of memory.

What makes each component correct, in one line: the pipeline executes the
program as a sequential machine does; the datapath computes RV32I; a cache
cannot be told from memory; the controller is a memory with two ports; the link
is a pair of queues that may stop and never lies; the UART is a byte queue that
may drop and never corrupts; the ring buffer is a bounded queue; the simulator
computes RV32I too; the Environment is a memory with two devices; the kernel runs the highest task that can run, loses nothing
that is posted, and its queues, timers and partitions are what their names say;
the library's blocks stay apart and whole, and its functions do what a reader of
their names expects at every length.

## 2. The modules

Each level is checked on its own against an abstract specification, and the
level above is modelled over that specification:

| Module | Models | Implements | Assumes below |
|---|---|---|---|
| `Pipeline` | the clocked modules of `cpu.v` | `Isa` | two ports that answer after any delay, of the kind of `MemoryPort` |
| `Datapath` | what ID, EX and ME compute | `Rv32i` | a word of memory |
| `Cache` | `Cache.v` | `MemoryPort` | `MemoryPort` |
| `MemController` | `memory_controller`, `Adapter::data_handler` | `SharedMemory` (`MemoryPort` for several clients) | lossless queues |
| `FetchCache` | the instruction cache beside the data cache's writes | | `SharedMemory` |
| `Link` | `multchan_comm`, `Adapter`, the reset button | `PacketChannel` (two queues, which a reset of one end breaks) | a line that loses bytes |
| `Environment` | `environment.cpp`, octet by octet | `Devices` | the streams of the PC |
| `UartComm` | `uart_comm` at both ends and the wire | `ByteLine` | a wire that damages one bit of a frame |
| `Fifo` | `fifo` | `BoundedQueue` | - |
| `Simulator` | `simulator.cpp` | `Rv32i` | a word of memory |
| `OsCore` | `os_core.c`: tables, scheduler, interrupts, tick | | the port |
| `OsSync` | `os_sem.c`, `os_mutex.c`, `os_q.c`, `os_mbox.c` and `OSEventPendMulti` | `MessageQueues` (by `Os`) | `OsCore` |
| `OsFlag` | `os_flag.c` | | `OsCore` |
| `OsTask` | `os_task.c`, `os_time.c` | | `OsCore` |
| `Os` | tasks, handlers and the tick calling them | | the application: `Setup` |
| `OsTmr` | `os_tmr.c` | `Timers` | the tick's signal |
| `OsMem` | `os_mem.c` | `BlockPools` | - |
| `LibMem` | segments and pools of `lib_mem.c`, and its copies | | critical sections |
| `LibStrings` | `lib_str.c`: numbers and texts | | - |

`MemoryOps` holds words, masks, requests and their effects on memory and on the
two ports as the CPU sees them, shared by the memory modules; `Environment` shows
what the code makes of them byte by byte. `MC*` modules are the instances TLC runs. The modules
named `...Proofs` hold the theorems about the module they are named after, and `UartProofs` those about `Fifo` as well (section 5).

The levels are joined by these abstract specifications and not by one
composition: `Cache` is checked above any `MemoryPort`, so in particular above
the controller's, and `FetchCache` has the writes of the other cache come between its
fetches as `SharedMemory` lets them; `Link` shows that what the controller takes for lossless queues
is lossless as long as no byte is lost, and otherwise stops; `UartComm` shows
that what `Link` takes for a line that loses bytes is one. The data port of
`Pipeline` is `MemoryPort` with its actions merged into the pipeline's clock
edge, since one clock drives both.

### How the code is rendered

* **Clocked logic.** A register is a variable, a combinational output an
  operator named after its wire (`id_stall_req`, `ex_b_flag`, `mem_addr`), and a
  clock edge one action. In `Pipeline`, `Clock` is the conjunction of one
  formula per clocked module (`PC_reg_Edge`, `IF_ID_Edge`, ...), because all
  of them move at the same edge. In `Cache`, an edge is split by state and kind
  of request into one action each. The fifo is clocked on the falling edge in
  `uart_comm`, between two edges of its users, which makes looking at `full` or
  `empty` and acting on it one step.
* **The PC program.** `onRecv` is one action per byte, as in the code. `Simulator`
  has one action per case of `RunInsn`.
* **The kernel.** Its globals are the fields of a record, and an operator named
  after a C function returns the record the function leaves behind (or a record
  of that, an error and a value). Each operator stands for code between
  `OS_ENTER_CRITICAL` and `OS_EXIT_CRITICAL`; `Os` makes each of them one step of the
  running task. What a task is in the middle of is its `frame`: past the checks of
  its arguments (`enter`), before `OS_Sched` (`sched`, or `block` when it waits),
  back from it (`resume`), half-way through a creation or deletion. A handler runs with interrupts disabled (the
  port's trap handlers never re-enable them), so a handler with all it calls,
  `OSIntEnter` to `OSIntExit`, is one step, and it may come between any two steps
  of a task. `OSCtxSw` and `OSIntCtxSw` only raise the software interrupt, which
  is the field `msip`; `Switch` is its handler. Bit tables are pairs of the set of
  bits and the set of rows their group byte names, since the two are stored and
  updated separately.
* **Timers and partitions** share no variable with the rest of the kernel and are
  modules of their own. A timer service runs with the scheduler locked and is one
  step; the timer task's walk of a spoke is one step per timer, since callbacks come
  in between. `OSMemCreate` is two steps, as it links the blocks outside its
  critical section.
* **Environment.** Its memory is a sequence of octets and a word access is made of
  octet accesses, so that an exception in the middle of one leaves what was stored
  before it. The image and the input are streams: one is at its end only after a
  read has failed. The serial port's read is taken to block, as on Windows.
* **Library.** Each critical section of `LibMem` is a step and so is what comes
  between two of them; clients hold blocks and write to them, over the link a free
  block carries. A copy is the sequence of its accesses, each of an octet
  or a word. The characters of numbers are digit values and a handful of others;
  texts have codes and addresses, since strings may run into the null pointer.
* **Reset** is an action of `Link`: the FPGA's end starts afresh, `stale` says what is on the
  line or at the PC from before, and a frame that is cut off is lost or a byte of no kind.
* **Data.** Words are integers modulo a small number (`Pipeline`), functions from
  byte lanes (memory modules), integers of 2^SHIFT bits (`Datapath`) or tags that
  tell requests apart (`Link`). `Isa` keeps one instruction of each kind the
  pipeline treats differently; `Datapath` has all thirty-seven of the README's
  table and no overlap between instructions. Messages of the kernel are model
  values, priorities and ticks small numbers.
* **History variables** are marked: `v`, and `pc` in EX_ME (`Pipeline`),
  `answered` (`Cache`, `MemController`), `fetched` (`FetchCache`), `owed`, `performed`,
  `tag`, `losses`, `stale`, `resets` (`Link`), `line` (`UartComm`), `call` (`Environment`),
  `held` and `credit` (`Os`), `lent` (`OsMem`), `given`, `out`, `failed`, `before`,
  `asked` (`LibMem`), `made` (`LibStrings`). No definition that drives a register of the code
  reads them. Mutated forms of definitions, marked as such, stand beside them:
  each is a plausible mistake that the named property must catch.

## 3. The runs

| Run | Question | States |
|---|---|---|
| `pipeline_data` | `ImplementsIsa` for every four-instruction program over eight instructions that produce, consume, load and store at every distance | 3.3 M |
| `pipeline_jump` | the same over jumps, branches, links and accesses, with `JumpBitsAgree`, `AnswersMatchRequests`, `TypeOK`, and `AlwaysRetires` under fairness | 1.1 M |
| `datapath` | `ExecutesRv32i` in the CPU and `SimulatorExecutesRv32i` in the simulator: every instruction, immediate and pair of operands from a set of boundary values | 6.0 M |
| `datapath_logic` | **violated**: `ExecutesTableB`, the same with negative logical immediates | |
| `cache_fill` | `ImplementsMemory`, `Coherent`, `AnsweredUnlessFrozen`: fills, hits under fills, misses, masked stores, both ports | 263 k |
| `cache_ways` | `LookupsHold`: five blocks in four ways, ages wrapping | 838 k |
| `cache_livelock` | **violated**: `Answered` when 0x100 is read during a fill | |
| `cache_neighbour` | **violated**: `NeverCached` when a neighbour of 0x100 is read | |
| `memctl` | `ImplementsShared`, `OneReadUnderWay`, `DataPortAnswered` with two clients; `FetchesNeverGoBack` of the instruction cache; the library's `BlocksApart`, `PoolsKeepBlocks`, `BytesAsAsked` | 162 k |
| `link` | `ImplementsChannel` with up to three faults (lost bytes, a reset), `Delivered` without; `ImplementsDevices` | 1.9 M |
| `uart` | `ImplementsByteLine`, `Arrives` with drifting clocks and a damaged bit; `ImplementsQueue`, `PointersAgree` of its ring buffer with resets at any time | 230 k |
| `os` | the kernel's eight invariants, `ImplementsQueues`, `TimedWaitEnds` under fairness; `ImplementsTimers`; `ImplementsPools`; the library's `NumbersRoundTrip`, `TextsAsNamed` | 197 k |

The type invariants of `Cache`, `MemController` and `Os` are conjuncts of `Coherent`,
`OneReadUnderWay` and `ListsAgree`.

Components that share no state are run side by side where that saves a run: a
behaviour of `MCUartComm` is one of the UART or one of the ring buffer, one of
`MCDatapath` is one of the CPU or one of the simulator, one of `MCLink` is one of the
link or of the Environment, one of `MCMemController` of the controller, of the
instruction cache, or of the library's segments or octets, and one of `MCOs` is one of
the kernel in some scenario, of the timers, of the partitions, or of the library's
numbers or texts.

### Bounds, and why they are enough

* **Pipeline**: four words, three registers, four instructions. The pipeline
  overlaps at most four instructions and a program wraps round at its end, so
  every window of four consecutive instructions from the repertoire occurs, at
  every latency of both ports (a latency is the number of edges an access stays
  busy; it is not bounded). Three of the jump repertoire's instructions are tried
  in the second place only. `rom` chooses between the cache's port and the
  combinational memory of the first design (`OldSource/Inst_rom.v`): a cache takes
  at least two cycles for an instruction, so only with the latter do two
  instructions sit in adjacent stages, and forwarding from EX and the load-use
  stall are exercised.
* **Datapath**: eight-bit words of four two-bit bytes and four-bit immediates:
  the ratios of the code (four bytes to a word, shift amounts of log2 of the word
  size, immediates shorter than a word) without its sizes. Operands are the values
  where signs, carries and bytes change.
* **Cache**: four words to a block (eight in the code), so that the critical word
  can be first, last or between; two ways and three competing blocks for
  evictions; a second set; two lanes, where the store selects one and carries
  something else in the other. `cache_ways` has the real four ways, two-bit
  ages, and more blocks than ways.
* **Memory controller**: both clients, three addresses (a word, the input, the
  output), a channel of two packets so that it can be full.
* **Instruction cache**: three blocks of four words in two ways, so that blocks are
  evicted and come back; a word is the number of writes to it, two at most.
* **Link**: `IDS`, 32 in the code, is 3, so that ids wrap; `WINDOW` bounds the
  requests under way, `FAULTS` the bytes lost and the resets together, `RESETS` the
  resets (one), `LINE` the bytes in the line. `FAULTS` is 3, so at most two bytes are lost
  beside a reset: with a third, `ImplementsChannel` fails (section 4). `MID_READ` allows a reset while the PC owes an
  answer; it is false, see section 4.
  Packets of each kind differ in length, as they do in the code. Deadlock is not
  checked because the real link does stop after a loss.
* **UART**: `T` is the code's 10 edges per bit. `EARLY` 6 and `LATE` 4 are the
  largest drifts within a frame that work, T/2+1 and T/2-1: with one more on either
  side `ImplementsByteLine` fails. Two data bits stand for eight, since the drift
  is bounded per frame whatever its length.
* **Environment**: eleven octets of memory of which some are protected, words of two
  octets, images that are empty, leave room for two octets and fill the memory.
* **Simulator**: the instances of `Datapath`, with registers 0 and two others in each
  of the three places of an instruction, so that they may coincide.
* **Kernel**: three tasks and the idle task over six priorities in rows of two, so
  that rows fill and empty and the group byte matters. Each scenario of `MCOs`
  gives each task and the handlers a handful of calls around one kind of object,
  made in any order and without end: semaphores; mutexes with and without a
  ceiling, owners that block and waits that expire; mailboxes; a queue of two
  entries; one task waiting for several events; flags with every kind of wait;
  creation, deletion, suspension and change of priority of tasks; deletion of events
  and flag groups. Time-outs are of one or two ticks. Scenarios with `split` also
  take the checks before a critical section as a step of their own.
* **Timers**: three timers, one-shot and periodic, on a wheel of two spokes with a
  clock that wraps at three, so that timers share a spoke and, as 2^32 is no multiple of
  the seven spokes of `os_cfg.h`, the clock wraps out of
  step with the wheel.
* **Partitions**: areas of three and two blocks, two callers creating at once.
* **Library**: heaps of 8 to 32 bytes with addresses modulo 128, so that a segment can end
  where addresses wrap, at bases that are aligned and that are not; two clients; two static pools of different block sizes, a
  dynamic pool with and without limit and initial blocks, a padded segment. Buffers in
  twelve octets with words of four, at every alignment and distance. Eight-bit
  numbers, whose digits, thresholds and signs lie as those of 32 bits do; texts of up
  to four characters. Strings anywhere in every content of five cells over two letters, an
  upper-case one and its lower-case one, with every bound.

### Fairness

Weak fairness only. `Clock` (and `Send`, `Receive`, `SenderEdge`, ...) because the
clock does not stop; an answer of a port that is asked, because the level below
answers (`cache_fill`, `memctl`, `link` show it, each for the next); `onRecv` and
`Adapter` because the loop of `Environment::Run` reads the port for ever. Nothing
is assumed of the clients: they need not ask. In `Os` the software interrupt, the
tick, `OSStart` and the steps of a service a running task is in the middle of are
weakly fair; that a task ever calls anything, or returns from its own code, is not
assumed. `Delivered` is conditional on no
byte being lost; the code has no time-out that would make it hold otherwise.

## 4. What the runs showed about the code

Three disagreements with the project's README, each with its run:

1. **A read of 0x100 during a fill locks the CPU up** (`cache_livelock`). The
   registers of a fill are not clocked while the access looked at is the uncached
   address (`Cache.v:328`), yet the cache goes on asking memory for the same word,
   and never gets to the read. `AnsweredUnlessFrozen` in `cache_fill` shows that
   it is the only way a request stays unanswered.
2. **A read of 0x104..0x11c caches 0x100** (`cache_neighbour`). The block fill reads
   the input device, consuming a character, and later reads of 0x100 hit and
   return zero. `ImplementsMemory` is checked with clients that do not read
   those words.
3. **XORI, ORI and ANDI widen their immediate with zeros** (`datapath_logic`).
   `xori rd, rs, -1` inverts twelve bits.

The kernel (all of whose services `os_cfg.h` enables)
does not keep its promises in these scenarios, which are in `MCOs` but
outside the set the run uses. To see them, give `Scenarios` the definition named
and check the property alone:

4. **A deleted flag group is written to** (`MCFlagDel`, `FlagListsWhole`).
   `OSFlagDel` with `OS_DEL_ALWAYS` readies the waiters, which unlinks their nodes, and
   returns the group to the free list (`os_flag.c:402`, "Return group to free list").
   A waiter then finds its wait aborted and unlinks its node again (`os_flag.c:762`),
   through pointers that are stale: the second unlinking overwrites
   `OSFlagWaitList` of the freed group, which is the link of the free list.
5. **A permit is lost** (`MCOwner`, `NothingLost`). When a mutex raises an owner whose
   timed wait for a semaphore has expired but which has not run yet, only its ready
   bit moves (`os_mutex.c:540`); its old bit stays in the semaphore's wait list. A
   later `OSSemPost` finds the bit and no task, and the permit is gone.
6. **A task stays suspended after it is resumed** (`MCMulti`, `ReadyIffRunnable`).
   `OS_EventTaskRdy` clears one status bit of a task that waits for events of several
   kinds (`os_core.c:1120`), so `OSTaskResume` takes it for still pending
   (`os_task.c:874`) and does not make it ready.
7. **A lower task goes on running** (`MCCeiling`, `HighestRuns`). `OSMutexPost` restores
   the owner's priority and, if no task waits any more because the one that raised it
   timed out, returns without calling `OS_Sched` (`os_mutex.c:701-705`).

The simulator leaves RV32I in the three places `Departs` names: LB and LH do not
extend the sign, JALR with its link register as its base jumps relative to the
link, and shifts by a register are not cut to five bits.
`SimulatorExecutesRv32i` shows that there are no others.

The library departs from what its names promise in places the properties allow for:

* A get of a limited dynamic pool counts the block (`lib_mem.c:2009`) before it grows
  the pool, and does not take the count back when the segment is full (`:2039`):
  after as many failures as there are blocks the pool is empty for good. `failed` in
  `PoolsKeepBlocks` is their number.
* A free lowers the count (`lib_mem.c:2103`) before it links the block (`:2108`); a get in
  between allocates a new block though one is on its way back.
* `Str_Cmp_N` and `Str_CmpIgnoreCase_N`, when a bound ends at the last address, compare the
  characters behind it, where note 3d2 (`lib_str.c:847`) has the strings identical.
* `Str_FmtNbr_Int32S` negates the least number (`lib_str.c:2274`), which C leaves
  undefined; it is modelled as the wrap that compilers produce.

Facts that contradict no statement of the repository but a user should know:

* After a lost request the PC refuses packets until the five-bit id comes round, and
  then performs a later one, so `ImplementsChannel` needs `WINDOW <= IDS`: a run of
  more than 32 posted stores after a loss is resumed in the middle.
* After the reset button the PC's next id is not the FPGA's, and everything is refused
  unless the two agree by chance. With `MID_READ` true `ImplementsChannel` fails:
  a response that was on its way answers the first fetch after the reset. And a reset
  together with three lost bytes can join the first half of an old packet to the data
  of a new one, which is then performed.
* Nothing makes the instruction cache see stores: a word that is written stays as it was
  until its block is evicted. `FetchesNeverGoBack` says only that it does not come
  back after the new one was fetched.
* An image as large as the memory is refused (`environment.cpp:33-36`), since the end of
  the stream shows only after a read has failed; for the same reason an octet of no meaning
  follows the image in memory (`:40`) and the input (`:152`). A store that
  reaches beyond the memory has stored its first octets when it is refused.

## 5. The proofs

All theorems are of the specification (`Spec => []...` or `Spec => Implements...`), for all
values of the constants under the modules' named assumptions. Most assumptions only give
the constants their types; those that say more, and the one hypothesis of a theorem, are
explained below the table.

| Theorem | Says | Argument |
|---|---|---|
| `PipelineProofs!TypeCorrect` | `[]TypeOK` | One lemma per clocked module, from the types of the wires. |
| `PipelineProofs!JumpBits` | `[]JumpBitsAgree` | Inductive as it stands. The stall vector of `Ctrl` is a prefix (`StallPrefix`), so PC_reg and IF_ID see the same stalls; ID_EX can be stalled alone only behind a load, which is not a branch. |
| `PipelineProofs!Answers` | `[]AnswersMatchRequests` | Strengthened with `PortsOK` (no port is busy and answering at once). While the fetch port has not answered the pc is held (`PcHeld`); while the data port has not, EX_ME is (`MeHeld`); so a latched request still names the instruction it is paired with. |
| `PipelineProofs!Refinement` | `Spec => ImplementsIsa` | `StageInv`: what each stage carries is what the sequential machine, stopped at the instruction in ME, would make of it: operands forwarded or read (`ExHolds`), the access in ME (`MeHolds`), and from EX back to IF the addresses of the instructions that come next (`PathHolds`), where a bubble or a pending jump stands in between. `RegsRead` says that forwarding, the write of the same edge and the register file agree; an edge at which ME moves on is a step of `Isa`, any other a stutter. |
| `CacheProofs!Lookups` | `[]LookupsHold` | With `WaysTyped`. The way that is replaced is the oldest (`FirstWay`: a least element by two keys), and a block is only loaded that no way has. |
| `CacheProofs!Coherence`, `InputUncached`, `Refinement` | `[]Coherent`, the uncached address in no way, `Spec => ImplementsMemory` | `CInv`: per state of the fill machine what is latched (`LatchOk`, `StateOk`), that the word being read is the one asked for (`ReadHolds`), and that every word which has arrived is that of memory, the rest of a block under fill excepted (`Held`, `Arrived`). Each action of the machine shows to the client one answer of `MemoryPort` or nothing (`Result`). |
| `MemControllerProofs!Invariance` | `[]OneReadUnderWay` | Strengthened with what each port keeps busy for: a read is the last packet of the channel (`ReadLast`) and its port is the one served (`WaitsForRead`). |
| `MemControllerProofs!Refinement` | `Spec => ImplementsShared` | The memory of `SharedMemory` is the PC's with the writes still in the channel performed: `Folds` relates the two along the queue, and a prefix of it that the PC has performed does not show (`Same`, `Steps`). A read is answered when the response is received, which is the memory then, as nothing is behind it (`AnswerHolds`). |
| `MemControllerProofs!EnvironmentRefinement` | `EnvironmentSpec => ImplementsDevices` | `EnvInv`: while the image is read, memory is the image as far as it has been read, one octet more once its end has been met, and zero behind (`ImageIn`), which is what `LoadedImage` needs when the program starts. Words do not overlap (`WordsApart`), so a store, also one that is cut short by the end of memory, changes one word at most (`StoreOwn`, `StoreOthers`). |
| `UartProofs!Refinement` | `Spec => ImplementsByteLine` | `UartInv`: the receiver is at the bit the sender has on the wire or at the one behind it, and which it is follows from the two counters and the slip (`Sync`); what it has sampled is what was sent (`OnWire`, `Received`). |
| `UartProofs!FifoInvariance` | `[](TypeOK /\ PointersAgree)` | Inductive together: the count alone tells full from empty. |
| `UartProofs!FifoRefinement` | `Spec => ImplementsQueue` | The queue is the ring read from the read pointer; `SlotShift` renumbers it after a read, and each edge maps to an edge of the queue. |
| `LinkProofs!LinkKeepsStep` | `Spec /\ []Mild => []LinkOK` | `Mild` is what `MildLinkImplementsChannel` assumes of the faults. `LinkOK` names every byte on its way: the o-th of the packet of the k-th request owed, sent with the id k behind the last one accepted (`UpOK`). Either the two ends are `InStep`, and the bytes come in that order with some missing, or they are `Probing` since the last reset: the line holds what is left of packets from before it, none of them reads, and behind it the first fetch, which is all there is until it is answered. |
| `LinkProofs!MildLinkImplementsChannel` | `Spec /\ []Mild => ImplementsChannel` | From `LinkOK`: the byte that ends the packet awaited is that of the oldest request owed, and all of its data has come (`AcceptIs`), or, when probing, that of the first fetch, which leaves everything before it unperformed (`ProbeAcceptIs`, `ProbeFetchIs`). One response is under way at most, and it is that of the request just performed (`DownOK`). |
| `LinkProofs!LinkImplementsChannel` | `Spec => ImplementsChannel` | The bounds on faults give `[]Mild`. |
| `OsMemProofs!Refinement` | `Spec => ImplementsPools` | `MemInv`: the free blocks of a partition are linked from its head, once each, as many as its count (`FreeLinked`); partitions have areas of their own (`Apart`), lend their own blocks (`LentOwn`), and those not in use are a tail of the order in which `OS_MemInit` chained them (`UnusedChained`). `WalkFrom` relates the walk along the links to the list. |
| `OsTmrProofs!Refinement` | `Spec => ImplementsTimers` | `TmrInv`: every timer that is not in use is on the free list once (`Kept`), every timer that runs is on the doubly linked list of the spoke its match names and on no other (`OnSpoke`), and of a spoke that is being walked those before the cursor do not match and those behind it have not been looked at (`WheelOK`). `Until` turns the match of a timer into what is left of it, as the clock wraps. |
| `OsProofs!SignallingKeepsLists`, `SignallingKeepsReady`, `SignallingLosesNothing`, `SignallingRunsHighest`, `SignallingKeepsMutexes` | `[](Signalling(scenario) => P)` for `P` each of `ListsAgree`, `ReadyIffRunnable`, `NothingLost`, `HighestRuns`, `MutualExclusion` | From `KernelInvariant`, `[](Signalling(scenario) => KernelInv)`, in four parts (below). |
| `OsProofs!SignallingKeepsOrder` | `Spec /\ Signalling(scenario) => ImplementsQueues` | The steps of the same proof move one ring at most (`QueuesMove`), by one of the four changes of `RingMoves`; `TailOf`, `AppendOf` and `PrependOf` say what each is of the sequence of messages (`MsgsOf`). |

What the assumptions and hypotheses say beyond types:

* `DevicesApart` (a hypothesis of the three theorems about coherence): no client reads
  another word of a block with a device in it. The program reads 0x100 and writes 0x104
  only (`Test/io.h`); `cache_neighbour` shows what happens otherwise, so it cannot be
  dropped. Writes are unrestricted.
* `DriftAssumption`: within a frame the clocks slip about half a bit at most (`EARLY`, `LATE`). It is tight:
  with one edge more on either side TLC finds `ImplementsByteLine` violated.
* `EnvironmentAssumption`: the word addresses are those of the whole words of memory, and
  the three devices are among them. Memory need not be whole words, and programs may ask
  for any address.
* `MemAssumption`: areas are disjoint, finite and not empty. `OSMemCreate` refuses fewer
  than two blocks, so the proof covers more than the code admits.
* `TmrAssumption`: there is a timer, finitely many, and delays and periods fit in the width
  of `OSTmrTime`, as `INT32U` does in the code. Nothing relates the number of spokes to
  the width of the clock.

* `WINDOW <= IDS` (a hypothesis of the theorems about `Link`): no more requests are owed
  than there are ids. The code does not see to it: after a loss posted stores go on, and
  section 4 says what happens when 32 more of them come behind the lost one.
* `Mild` (`LinkKeepsStep`, `MildLinkImplementsChannel`): the button is not pressed, whatever
  is lost; or it is pressed, any number of times, and fewer than three bytes are lost
  and no response is cut off (`~MID_READ`). `LinkImplementsChannel` says the same of
  the constants: `RESETS = 0`, or `~MID_READ` and `FAULTS <= 3`, which the run `link` uses.
  Neither half can be weakened: section 4 has the counterexamples to three losses and to `MID_READ`.
* `KernelAssumption`, `ApplicationAssumption`: finitely many tasks, the idle task not among
  them, rows of at least one bit, queues of at least one entry, at least one tick a
  second; and the distinct names of the code's distinct constants (the null pointer,
  `OS_TCB_RESERVED`, `OS_ERR_NONE`) are distinct from everything else.
* `Signalling(scenario)` is the hypothesis of the kernel's theorems. It holds of a scenario
  when main creates tasks at priorities of their own, semaphores, mailboxes, queues and
  mutexes without a ceiling (`OS_PRIO_MUTEX_CEIL_DIS`), each object once; tasks pend with
  and without a timeout, accept, post, post with options, flush, set, abort, delay, suspend
  and resume themselves and others, end others' delays and lock the scheduler, in any order;
  and handlers post, ticks and interrupts coming between any two critical sections. What it
  leaves out is mutexes with a ceiling, event flags, multi-pend, creating and deleting at
  run time, changes of priority and `OS_POST_OPT_NO_SCHED`. It cannot be dropped:
  `MCFlagDel`, `MCOwner`, `MCMulti` and `MCCeiling` (section 4) violate the conclusions
  outside it, as a post with `OS_POST_OPT_NO_SCHED` is meant to for `HighestRuns`. `MCOs`
  has TLC evaluate it: four of the scenarios of `os` satisfy it.

**The kernel's invariant.** None of the five properties is inductive, nor are they
together, since each looks at the kernel only where the others say nothing.
`ListsOK` is what the services rely on without looking: the priority table and the TCBs
are inverse; a task is on the list of an event exactly when its `OSTCBEventPtr` names it;
its status bit is that of the event's type as long as it waits, and gone when a tick
has ended the wait though it is still on the list (`StillWaits`); it is ready unless
suspended, delayed or waiting; a task in the middle of a pend finds `OSTCBStatPend` and
`OSTCBMsg` as they must be for what it will return. `SchedOK` says what is left to do: the
software interrupt is pending with the highest task named, or the frame of the running
task still has its `OS_Sched` to come, or the scheduler is locked, or the highest runs. A task
that pends has checked `OSLockNesting` before it enters its critical section, and nobody else can
lock in between, so no task blocks with the scheduler locked. `CreditOK` counts,
beside what the event holds, the tasks that have been granted something and have not
run yet. `OwnersOK` says that whoever the history shows with a mutex is the owner its
event names. That a post made the waiter the owner long before it runs is part of
`ListsOK` (`Owns`): a task that has been granted a mutex owns it, though it may be
suspended meanwhile, and a mutex that counts as free names no owner (`EcbOK`), so no
accept gets in between. The order of the argument is the code's: `Woken` is one waiter leaving a list,
by post, abort or broadcast alike; `Keeps` that a service keeps `ListsOK` whoever calls
it; `Gives` what it adds to its event; and then each service is a step of a task
or runs inside an interrupt handler. A ring buffer is related to its slots
by `Dropped`, `Appended` and `Prepended`, which the invariant needs, and from those to the
sequence it holds. `KernelStep` is what each step is shown to do: keep the invariant, and
move the ring of one queue at most. The second half is not a consequence of the first, as a
step could permute two messages and lose none.

Least elements, finite counts and the values of functions defined recursively along a list
are had from the well-foundedness of the inclusion of finite sets (lemma `Least` of the modules that need it),
since the induction theorems of the library cannot be instantiated.

Only model-checked: liveness (`AlwaysRetires`, `AnsweredUnlessFrozen`,
`DataPortAnswered`, `Delivered`, `Arrives`, `TimedWaitEnds`), which TLAPS does not reach; `ExecutesRv32i`
and `SimulatorExecutesRv32i`, as the operations on bits of `Bitwise` are defined
recursively, on eight-bit words only; the kernel's
mutexes with a ceiling (`OwnerInherits`), flags and multi-pend, and what creates, deletes and moves tasks; and so far
`FetchCache` and the library.

## 6. Not modelled, and why

* Reset in the middle of a run, except in `Fifo` and `Link`: elsewhere reset is `Init`.
* The arbiter of `multchan_comm` between channels: one channel is connected.
* The cache's flush input, tied to zero in `cpu.v`.
* The bit positions of the instruction encoding; misaligned accesses.
* Undetected damage: a frame with two flipped bits passes the parity check.
* Of the kernel: the system time, the statistics task, tick stepping, services that
  only read, names, registers, hooks and stacks; what a trap saves and restores; an
  application that waits for an event while another task deletes it between the
  check of its type and the critical section; callbacks of timers that act on
  other timers; deletion of a mutex by another task than its owner.
* Of the creation of an event, an interrupt between taking it from the free list and
  setting it up; null messages to queues, which the code cannot tell from no message.
* `OSTmrDly` of a timer that has been freed, which the code leaves as it is and no one reads.
* Of `FlagWaitersUnsatisfied`, waiters for clear flags: a waiter that consumes set
  flags clears them and wakes nobody (`os_flag.c:779-800`), so they may go on waiting. A
  waiter that consumes clear flags sets them likewise, so no scenario has one.
* Of the library: floating point, argument checks and debug information, which its
  configuration disables; sizes as large as the address space; a copy onto its own
  source, which its notes exclude; products and masks of `lib_math`, character classes
  of `lib_ascii`, and the bit counts and time stamps of `cpu_core`, which nothing calls.
* The display, board files, build, test programs, and the vendor's drivers, for the reasons
  `PROJECT.json` gives.

Most of the lines of the C files are comments, declarations and configuration, which
no definition stands for: of the bodies of functions, about two thirds are modelled.

## 7. Plan

The order is by what the CPU cannot do without: pipeline, caches, controller,
link, UART, buffer, datapath and simulator are done, and the kernel on top of
them. Next:

1. Reset in the middle of a run in the pipeline and the caches.
2. The arbiter of `multchan_comm` with two channels: priorities, skip counters,
   starvation.
3. Both caches over one controller in one composition, with the pipeline's data port
   taken from `MemoryPort`. `FetchCache` is the half of it where they interfere.
4. Proofs: that the pools of `LibMem` keep their
   blocks apart; then mutexes with a ceiling, which move their owner between priorities
   in whatever table it is: `OwnerInherits` holds only as long as no waiter gives up (section 4).
