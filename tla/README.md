# A TLA+ verification of MILO

MILO runs small WebAssembly drivers on microcontroller boards and simulated
devices. A host (Python) compiles a driver and pushes it over MILO-Link, a
framed protocol on a serial line, a pipe or a TCP connection; a receiver (Rust)
checks it, runs it in an interpreter whose syscalls drive the hardware, and
sends the result back. This directory models the parts in which order,
concurrency and failure matter, checks them with TLC and proves the central
ones with TLAPS.

## 1. The system

| part | code | state it keeps | operations |
|---|---|---|---|
| executor contract | `receiver/src/engine/executor.rs` (trait) | submissions, results | submit, poll_result, stop, is_running, status, take/give hardware |
| threaded executor | `engine/executor_threaded.rs`, stop flag of `targets/sim/mod.rs` | hardware, join handle, result queue, status, `SIM_STOPPED` | the trait's, and the worker thread |
| blocking executors | `engine/executor.rs`, `engine/executor_dual.rs` | hardware, one result, status | the trait's |
| main loop, policy | `receiver/src/lib.rs` (`main_loop_with_policy`, `authorize_module`) | parameter slots, where it is between two calls of the executor | one handler per opcode, idle-gap poll |
| TCP server transport | `transport/mod.rs` | listener, client, byte buffer | ensure_client, take_frame, read_frame, write_frame |
| stream loops | `main.rs` (`pico_entry`, `--stdin`), `EmbeddedIoTransport` | byte buffer | parse, dispatch, run inline |
| runtime, adapter | `lib.rs` (`MiloRuntime`), `hal/adapter.rs` | logs, memory handle, fuel, registered peripherals | execute, the syscalls, deny |
| import scan | `engine/validation.rs` | position in the bytes, rejected names | read_leb128_u32, sections, imports |
| device proxy | `host/devices/device.py`, `host/core/transport.py` | `_pending_results` | push, hot_swap, push_async, wait_result, stop, query_status, set_param, discover |
| registry | `host/devices/registry.py` | devices by name | register, unregister, fleet operations |
| MCP server | `host/mcp/server.py` | registry, `_procs`, next port | the tools, shutdown |
| compiler | `host/core/compiler.py` | a lock per process; on disk the content cache and the warm project | compile, clear |
| intent loop | `host/cli.py` (`cmd_run`) | code, attempt, unread frames | prompt, generate, compile, correct, push, report |
| flashing | `host/flash/*.py`, `host/devices/boards.py` | on disk the firmware cache; targets, picked families | init, download, a backend's probe and flash |

Host and receiver interact through frames only, and a frame carries an opcode
and no identifier: which module a result belongs to follows from its order.
In the receiver the main loop's thread and the worker share the stop flag, the
parameter slots and the join; the hardware is moved into the worker and comes
back through the join. The receivers that the MCP server launches are processes
that may die at any time; the server itself ends with its input, or by a
KeyboardInterrupt in the middle of a tool. The compiler's cache and the firmware
cache are directories that several processes share.

Hard to test, and the reason for the models:

* the worker runs between any two calls of the main loop, so the order of stop,
  join, flag reset and spawn in `submit`, and of the two reads behind a status
  reply, matters;
* results are sent when the loop is idle and not when the module ends, and it is
  idle only when no frame comes for 50 ms;
* a panic (a slice of a guest's range, the scan of a module that is cut off) ends
  a worker on one receiver and the whole receiver on another;
* a client may vanish and come back, reads cut frames anywhere, lengths may be
  too long;
* results interleave with control replies, calls time out and their replies
  come late;
* launched processes may be late, die, or find their port taken;
* a process is killed while it fills a cache that the next one reads blindly,
  another one clears it or builds in it at the same time;
* a flash backend finds its board on the bus and not at the port it is given, and
  boards are re-plugged while it works.

`PROJECT.json` lists each hazard at its line with the properties that cover it,
or says why none does, and every component, modelled or not.

## 2. Modules

Each module's header comment says what it abstracts. `MC*` modules only give
constants their values.

**Executor** is the contract of the `MiloExecutor` trait: `accepted`
submissions, the results `answered` so far in order, `running`. It is an
abstract specification that two modules are shown to implement.

**ThreadedExecutor** has one action per method. `submit` and `take_hardware`
over a live worker block in `handle.join()` and are two actions each (`call`
says which is blocked). The worker's steps are the two halves of `delay_ms`
(load the flag; sleep), waking, the end of the module, running out of fuel, and
a panic. Wasm instructions are not steps: they show as fuel. `submitted`,
`taken` and `lateSleeps` are history variables.

**Receiver** extends ThreadedExecutor with the main loop over a TCP client. One
action per opcode handler, one per executor call where a handler makes several
(`loop` says where it is). `IdlePoll` is the `Err` arm of `read_frame`. The
host connects, sends whole frames, closes, reconnects, and in one workload
streams parameters without end (`HostStream`), so that the idle gap need not
come. Payloads are what the receiver can tell apart (raw, signed, forged; imports
allowed, foreign, or cut off in the middle); the signature check is external. The
scan of a module that is cut off panics on the main thread and the process is
gone (`ScanPanics`). A write to a closed connection vanishes or drops the client.

**InlineExecutor** is `SingleCoreExecutor` (and `DualCoreExecutor`, which in
the source always falls back to the calling core) under the main loop's order
of calls. `submit` takes the hardware out (`BeginRun`), runs the module, puts it
back and leaves one result (`SubmitReturns`), or finds no hardware because it is
`lent` to a caller of `take_hardware`.

**TcpFraming** is the byte level below Receiver: `take_frame`'s four cases,
reads of any length up to the chunk, disconnections. A byte is its frame's
identity and position, so a frame cut wrongly is seen.

**StreamLoop** covers the three receivers without connections. Bytes have
values, because a loop that loses its place reads payload as headers. These
receivers have one thread: a panic of the scan or of a module ends them.

**Runtime** is one `MiloRuntime` after another over the adapter. The guest is
arbitrary. There are `PtrSpace` guest pointers and the unchecked `u32` sums of
`i2c_transfer`/`spi_transfer` wrap, as they do in a release build; Rust's slice
indexing then panics or not. A buffer whose length the guest chose may be more
than the heap holds (`AllocationFails`). `said` is history: how much each run
logged. What the interpreter computes is not modelled.

**WasmValidation** has the operators of the import scan: the length and value of
a LEB128 number, the end of a name, the end of an import descriptor, and
`Fault`, the position that stands for an index out of bounds. A byte's top bit
is `More` (0x80), the rest of it a digit to that base, a number has at most
`MaxGroups` digits (5) and is taken modulo `U32` (2^32); scaled down, so that every
number of digits occurs. Its second half is an encoder of the format, which is
not in the repository and is what the scan is compared with.

**Firmware** composes InlineExecutor, Runtime and WasmValidation into a board:
a load frame arrives, the scan walks its bytes one step at a time, the module is
refused or submitted, it runs, submit returns, the loop polls. The run lies between
the two steps of InlineExecutor's `submit`, while the runtime has the hardware.
`setting` chooses, once, uploads of all kinds, guests that make
any syscall, or the library's runtime used by itself.

**HostDevice** is `MiloDevice` over an ordered wire to a receiver that answers
control requests at once and modules later, in order (what Executor and
Receiver promise). A `setting` fixes the methods the program uses, whether
reads may time out, and whether the receiver is a Pico, which answers the
opcodes it does not know with an EXEC_RESULT. A read may also time out inside a
frame, its header included: the rest of the frame stays on the stream (`CutFrame`)
and the next read takes it for a header. Mostly the length it finds there never
comes, and it swallows what arrives until it times out in turn; behind a cut
after the opcode the length is some 256 times the frame's, and once that much has
been swallowed the read returns a frame of opcode 0, in the middle of another
frame or between two (`SkipBogus`).

**Registry** and **McpServer** (which extends it): devices by name in dict
order (`Index`), connections waiting in a receiver's backlog, fleet operations
that visit devices one by one in that order or in parallel (`NextNames` of the
names not yet visited) and what they do when one raises; spawning,
`_wait_port`, registration, disconnection; receivers that bind late, die, or find
the port taken. `Shutdown` is the `finally` of `serve_stdio`, at the end of the
input or by a KeyboardInterrupt inside whichever tool is under way.

**Compiler** is `compile_rust_to_wasm`, one action per access to something that
another thread or process may touch: the lock, the content cache, `lib.rs`
(opened and so truncated, then written), cargo, the target, the `.tmp` file, the
rename. A module is named by the source it was built from. cargo is external:
builds of one directory exclude each other, a build compiles the `lib.rs` it
reads when it starts. A killed process may leave its cargo running, a write may
fail and leave its file truncated.
`clear_compile_cache` removes its files one by one without the lock. Cargo.toml
and `.cargo/config.toml` are not files of the model.

**IntentLoop** extends Compiler with `cmd_run`. The language model answers with
any source or an error (the conversation's text is left out). `wasm` is
`wasm_bytes`, set to None at each prompt, filled by a compile and tested before the
push. The device answers in order, at any time or never; the serial transport
discards its input before a push, the others do not. `owed` is history: the
requests, other than the push, that a frame read after the push may answer. A
session ends when its connection is lost or a result is not JSON, may be killed,
and another is begun on the same cache and the same device.

**Flash** is `milo init` and `milo download` as two processes over the firmware
cache. A board is at a serial port, in its boot loader or unplugged (`where`), and
may change its place at any time (`Replug`); init knows ports, and at each the
board whose VID:PID it read (`seen`). A file is absent, torn or whole, and `fd`
follows an open `.part` file through another process's rename or unlink.
`ProbeFinds` and `Reaches` say what each backend may report and write: esptool and
avrdude use the port, the UF2 and STM32 backends any board of theirs that is in its
boot loader, or the only one that picotool can reboot. avr.py's probe reports any
part it knows, whichever chip answers; avrdude, told that part, writes no other
chip. An exception that nothing catches ends its process (`crashed`, which is not
`killed`): in a download or the manifest anything but a URLError, a serial error in
the discovery probe, picotool's timeout. Assumed of the constants
(`FlashAssumption`): candidate families have a backend, and no chip is called
`stm32`, which is what stm32.py reports of a chip it cannot name (`boards.py:92`).

## 3. What TLC checks

| run | instance | what holds |
|---|---|---|
| `executor` | 3 submissions, 3 fuel | the hardware is in exactly one place unless a panic lost it; results in submission order, none lost or doubled; at most one sleep after a stop; a stop is never undone for its module; the contract is implemented |
| `receiver` | 3 frames over 2 connections of pushes, good and refused swaps, stops, queries; 2 frames of every opcode and payload under each policy; a push among parameters that never end | a status reply never says running with another status; results on the wire in order over reconnections; only what the policy trusts runs; a refused swap stops nothing; frames are served, and loads answered if the stream ends, unless a panic of the scan ends the process |
| `board` | uploads: modules of up to 2 imports of every kind, with sections around them, whole, padded, cut at any byte; guests: 2 modules, 2 syscalls each, pointers at both ends of a 3-bit space; the library: 2 modules in one runtime | the scan rejects exactly the foreign function imports and does not panic on a whole module; accesses in bounds and in the module's own memory; a result has every message of its own run and no other's; each module is answered before the next frame is read; the hardware is in the executor, the runtime or with whoever took it; every load ends |
| `host` | 4 calls of four kinds of program | results are kept and in order across timeouts, also inside a frame; status replies match their requests; blocking pushes return their own result; calls return |
| `tcp_framing` | 2 frames on each of 2 connections, of lengths 0, the limit, limit+1 and longer than a chunk | frames intact, buffer bounded, frames delivered |
| `stream_loop` | 3 frames, three loops | frames dispatched as sent and answered, until one is too long; a panic costs the replies from its own frame on |
| `mcp_server` | 2 names, 2 spawns, 1 outsider on a port of its own | no launched process is forgotten; a fleet operation that returns has reached every device whichever died; all die after a shutdown, also one in the middle of a tool |
| `compiler` | a session of up to 4 compiles in which every retry is used, killed and begun again; or 2 threads of one process with 3 compiles; 3 sources of which one is rejected; 1 kill or write that fails, 1 clear | a compile returns its own source's module; the cache holds nothing torn or foreign; a good source compiles whatever failed before; what is pushed is the latest code's module; a reported result is the push's own or one the device, or an input that cannot be flushed, still owed; whatever is under way ends |
| `flash` | up to 2 of 5 boards (an ESP32-C3 with an ambiguous VID:PID, a Nano with an ATmega168, two kinds of Pico, an STM32) on 2 ports, any of them running MILO already, 2 re-plugs; or 2 boards, 1 download beside and 1 kill | no torn file in the cache; a board is written with its own chip's firmware, or a backend on the bus mistook it for a board that was there; every target has its turn, unless an exception that init does not catch ends it |

Why the bounds are enough. Three submissions give one module running, one
result queued behind it and one blocked in `submit`, the most that can be
outstanding between two polls; the proofs of section 4 remove this bound. Three
frames are a push, a swap over it and a request behind the blocked join, and two
connections let a result fall between them. Four calls are two asynchronous
pushes, a control request and a wait. In the framing runs the limit, the header
and the chunk are scaled so that one chunk holds two frames, or a frame and the
header of the next, and so that the longest frame needs several reads. A 3-bit
pointer with a memory of 5 has ranges that fit, pass the end, and wrap. With a
base of 4 and 32 numbers, a LEB128 number has one, two or three digits
and the last one loses a bit, as the fifth does in the code; two imports show
what a misread of the first does to the second. One clear, one kill and three
compiles put a clear or an orphaned build between any two steps of another
compile; four compiles are a prompt with both of its retries and a compile of
the next session. `Retries` of the session's discovery is 2 and not 3. Two
boards are what it takes for one to be mistaken for the other, two re-plugs put one
board in the place of another, and two processes
are all that share the firmware cache. One streamed frame at a time is enough to
leave the receiver's loop without an idle gap for ever. The runs that switch deadlock checking
off do so because the system may stop: the host sends nothing more, a panicked
runtime stays dead, a server has shut down, the sessions and downloads are used
up.

Fairness. The scheduler runs both threads of a receiver and a sleep ends (weak
fairness of the worker and of the main loop); the loops of `main.rs` and
`lib.rs` never return; fuel is finite, so a module ends. That the main loop polls
does not follow: a host whose frames come within each read timeout keeps it from
polling, so `EveryLoadAnswered` has the premise that such a stream ends
(`StreamEnds`). In HostDevice the
device answers and the thread inside a call reads on. In Firmware the board goes on with a frame it has read.
In IntentLoop the session goes on (its reads have deadlines), and of the
compiling threads and of the builds some one goes on, not each: a lock and a
build lock are passed on, and calls are finite. In Flash only `milo init` is
fair: its tools have time limits, and the user answers. In McpServer only the
delivery of a SIGTERM is fair.
Nothing else is assumed of the host in Receiver, and nothing in TcpFraming and
StreamLoop: it may stop, close, or never send.

### Disagreements between the code and what it says of itself

Three runs expect a violation, and TLC finds it.

* `receiver_panic`: a syscall that panics takes the hardware with it, and every
  later module is answered "no hardware available". SECURITY.md: "The worst
  outcome is a failed episode on that one device."
* `tcp_expect`: a header over the limit, already buffered behind a complete
  frame, makes `take_frame` drop the client and the `expect("client checked
  above")` that follows panic.
* `compiler_processes`: two processes with the cache on (a `milo run` and an MCP
  server, say) build in the same directory; one returns and caches the other's
  module. The comment calls the project "per process" and the cache "always
  correct"; the path is one for all processes, the lock is not. Within one
  process, or with the other one on `MILO_COMPILE_CACHE=0`, `OwnModule` holds
  (run `compiler`).

Others were met while modelling. They have no run of their own; the models contain
the behaviour (but for the last of the list), and the properties name it as an
exception or a premise:

* frames that keep coming within 50 ms of each other keep a finished module's result
  from ever being sent (`lib.rs:180-192`);
* a module that is cut off makes the import scan panic (`validation.rs:78`), on the
  main thread: the receiver is gone, and every frame behind it unanswered;
* a result that the idle gap pops while no client is connected is lost
  (`lib.rs:185`);
* `push` with an earlier `push_async` outstanding returns the earlier module's
  result; on a Pico a `set_param` or `stop` leaves an error frame that a later
  `push` returns (`device.py:99`, `main.rs:399`);
* `request_discovery` discards a result that comes before the manifest
  (`transport.py:62`);
* `broadcast_param` and `push_async_to_all` end at the first device that raises
  (`registry.py:123`, `registry.py:157`);
* someone else's receiver on the MCP server's next port is registered in place
  of the spawned one, which dies because the port is taken (`server.py:94`); and
  when that stranger answers while the spawned one is still starting, and dies
  before the registration, the spawn fails with the process already in `_procs`
  under a name that is still free, and the next spawn of the name overwrites the
  only reference to it. The attempt to prove `NoOrphans` showed this;
* the Pico clears its buffer on a frame that is too long ("resynchronize",
  `main.rs:379`) while the rest of the payload is still coming and is read as
  headers;
* a denied syscall reaches `log_sink` and `last_log` and never the result frame,
  where the comment at `adapter.rs:193` and SECURITY.md promise it; `LogsAreOwn`
  says that a result has all its run logged and not that it has nothing else;
* a KeyboardInterrupt between `Popen` and the entry in `_procs` (`server.py:90-98`)
  leaves a receiver that nothing refers to;
* the scan does not read the maximum of an imported table, and reads the imports
  behind it from the wrong place (`validation.rs:106`);
* "Write `firmware_path` to the device at `port`" (`flash/__init__.py:56`) is not
  what the UF2 and DFU backends do when two boards of a family are on the bus;
* "Confirm the chip type at `port`" (`flash/__init__.py:47`) is not what avr.py's
  probe does, which takes any non-zero signature for that of the part it asked for;
* a transfer that ends early is renamed into the firmware cache as if complete,
  a mismatch found by `--verify` leaves the file there, and `milo init` flashes
  it; two downloads of one variant share a `.part` file;
* a connection that is reset or times out in the middle of one board's download is
  no URLError and so no DownloadError (`download.py:110-119`, `init_cmd.py:142`): it
  ends `milo init` with a traceback, the remaining boards untried, and so do a
  `picotool reboot` that hangs (`rp2040.py:58`) and a serial line that fails during
  the discovery probe (`init_cmd.py:203-241`);
* a board that runs MILO and is busy for three seconds is offered for flashing
  (`init_cmd.py:80`);
* over TCP, or while the device still owes an answer, `milo run` reports an
  earlier push's result as the latest one's (`cli.py:273`);
* a clear that removes `.cargo/config.toml` before cargo runs makes it link with
  other flags, and the module is cached all the same (`compiler.py:95`; not in the
  model).

## 4. What TLAPS proves

For every number of submissions and every fuel (`MaxJobs`, `MaxFuel` any
naturals, `ExecutorAssumption`), in **ReceiverProofs**:

* `ExecTypeCorrect`, `ResultsStayInOrder`, `LateSleepBounded` - consequences of
  the inductive invariant `ExecInv`, the conjunction of `ExecTypeOK`, `Shape`,
  `ResultsInSubmissionOrder` and `LateSleepInv`. The order property is nearly
  inductive: it accounts for every unanswered submission (queued, running,
  blocked). It needs `Shape`: a handle exists exactly while there is a worker,
  and a blocked call has a handle and has set the stop flag. `AtMostOneLateSleep`
  is not inductive: `LateSleepInv` adds that once a late sleep has begun, the
  flag is still set and the worker is past the load that missed it.
* `HardwareIsConserved` - relative to `ExecInv`, with the lemma that a panicked
  result survives being queued and popped.
* `StopIsNeverUndone` - an action property: only `submit` clears the flag, and
  only with no worker or a finished one.
* `ExecutorImplementsContract` - ThreadedExecutor implements Executor under
  `accepted <- submitted, answered <- taken, running <- IsRunning`: a submit is
  an `AbsSubmit`, a join that launches the blocked module an `AbsStart`, the
  worker's end an `AbsFinish`, a poll an `AbsAnswer`, the rest stutters.

For every `MaxJobs`, in **FirmwareProofs**: `BlockingLoopAnswers`
(`AnsweredBeforeNextFrame`) and `InlineImplementsContract`, from the invariant
`InlineInv` (types; what the result slot holds between submit and poll; that it
is empty before a swap's submit and while a module runs).

For every `PtrSpace`, both widths of `usize`, every board, any uploads, fuel and
number of modules (`RuntimeAssumption`, `InlineAssumption`; for these nothing is
assumed of what the uploads hold), in the same module:

* `FirmwareAccessesInBounds` and `FirmwareLogsAreOwn`, from one inductive
  invariant of the runtime's variables, `RunInv`. To the runtime a step of the
  board is one of its own, a panic of the scan or nothing (`FirmwareSteps`), so
  the board and the library share it. `AccessesInBounds` needs that
  `HostState.memory` is the running module's or none, and that an access is of a
  run that has begun, whose memory keeps its size; the arithmetic is
  `WrapIsCaught`: a sum that wraps lies below its first summand, so the slice
  panics. `LogsAreOwn` needs that the host state's logs are what the run under
  way has said, and that no ended run's entry is written again.
* `FirmwareHardwareInOnePlace` - from the invariant that the runtime has the
  hardware exactly while the executor is inside a `submit` that took it, so that
  every way a run ends passes through `Finish`.
* `FirmwareAnswers` and `FirmwareImplementsContract`: a board step is one of
  InlineExecutor's or none (the lemma `FirmwareIsInline`), so the two theorems above
  hold of the board.

For every alphabet, any widths of a byte and of a u32 in which `MaxGroups` bytes
are enough for each u32 (`ValidationAssumption`; it holds of 0x80, 5 and 2^32), and
any uploads whose bytes, after a good header, are the first bytes or all of a
module (`UploadAssumption`), in the same module: `FirmwareVerdictIsRight`, the
scan's verdict. `VerdictIsRight` itself says nothing of modules that import a table
with a maximum, whose second limit the scan does not skip (`validation.rs:106`).

* The lemmas come first. `Reads(b, p, s, q)` says that reading `s` at `p` leads to
  `q`: the end of `s`, or past the end of the bytes if they do not reach as far.
  It is shown of a number, minimal or padded (`ReadsLeb` and what it rests on: the
  digits written are the digits read, and there are no more of them), of a name, of
  each kind of import descriptor and of a section, and it composes over `\o`.
* The inductive invariant is `VerdictInv`; its core, `ScanRight`, says that the scan
  of an upload is at the start of a section, or at the i-th import's module name,
  field name or kind with exactly the first i - 1 imports judged (`OnTrack`), or
  past the end of bytes that are cut off (`Past`), where it can only panic or stop.
  What has been rejected is throughout a prefix of what should be.
* `Remaining`, `Number`, `Joined` and `ForeignUpTo` are recursive functions. That
  they exist is shown by iteration (`IterationExists`), what they compute by taking
  a least counterexample (`UpTo`), in place of the induction theorems.

For any frames, workloads and policies, over `ExecInv` (`ReceiverAssumption`), in
the same module as the executor's, `OnlyTrustedModulesEverRun`, `StatusRepliesCohere`,
`ResultsInOrderOnTheWire` and the action property `OnlyRequestsStop`. The
invariant `RecvInv` adds to the executor's what the main loop knows between two
calls. `HandlerInv`: a swap in progress holds a frame that was authorised, and a
status read before `is_running` says Running if a module still runs, since only
a later submit could change that. `OutboxInv`: nothing was written to a
connection not yet accepted and no reply carries a result not yet polled, so the
next result has the largest number and goes to the last connection.

For any number of threads, processes and sources, any kills, failed writes and
clears, if **at most one process uses the cache directory** (`MaxCaching <= 1`,
a hypothesis of the theorems and not of the module, necessary by the run
`compiler_processes`; `CompilerAssumption`, in which the set of threads is
finite), in **IntentLoopProofs**: `CompileReturnsOwnModule`, `CacheStaysHonest`,
`GoodSourcesCompile`, and of the session `SessionPushesLatestCode` and
`SessionReportsOwnResult`. `CompilerInv` says step by step what a call relies on
(`CallInv`): past `Acquire` it holds the lock, so `lib.rs`, the target and the
`.tmp` file are its own or removed by a clear, and then the call is marked
`disturbed`. The delicate part is `TargetIsOwn`: an orphaned cargo of a killed
process may still be building when the target is read, and what it builds is the
holder's source too or nothing. `SessionInv` ties the session's code to its
compile and says that `wasm_bytes` is None or the module of the code at hand;
`OwnAnswers` says that whatever is on its way after a push is that push's answer or
`owed`: the reset, or what the device had not answered, accounts for every frame
that a read may take.

For any names, spawns and receivers (`ServerAssumption`), in **McpServerProofs**:
`FleetOpsReachAll`, from `RegistryInv` (the entries are a dict, a request runs
alone, and what a fleet operation has not reached it has still to visit), and
`ServerKeepsTrack` (`NoOrphans`) from `TrackInv` as well, **if nobody else listens
on the ports the server picks** (`OutsiderPort \notin Own`; section 3 says why it
is needed). `NoOrphans` is not inductive: a name that is free to be spawned again
must have no live process in `_procs`, and the port that answers must be the
launched receiver's. Both hold through a shutdown in the middle of a tool
(`ShutdownKeeps`).

For any boards, families, variants and downloads (`FlashAssumption`), in
**FlashProofs**: `CacheStaysWhole`, from `FileInv` (a variant's `.part` file
belongs to one process as long as its downloads do not overlap, and is complete
when it is renamed), and the action property `WritesOnlyTheVariant`, from
`BoardInv`, which carries what the probe saw to the moment of the write, over every
re-plug in between: a backend on the bus reported the chip of a board that has been
plugged in since (`window`); the tools at a port check the chip themselves.

For any frame lengths, limits, chunks, cuts and connections (`FramingAssumption`),
in **TcpFramingProofs**: `FramesArriveIntact` and `BufferStaysBounded`. The
invariant is that the buffer followed by the wire is what is left of the client's
stream after the frames already returned. Where a frame starts is a sum over the
frames before it; the invariant says that a table of these starts exists, which
each send extends by a row, and so needs no induction over sequences.

For each of the receivers without connections, any limit, chunk size and cuts, and
any frames of bytes whose length is a u32 (`StreamAssumption`), in
**StreamLoopProofs**: `StreamDispatchesAsSent`. Here bytes have values and the
header is decoded from them (`BigEndian`). The loop is in step or lost
(`StreamInv`): in step, the buffer followed by the wire is the host's stream after the frames dispatched (there is a table of what is
left before each frame, to whose every row a send appends); lost, it was in step up
to a frame that is too long. Only such a frame turns the one into the other, since
in step the length a header declares is the length of a payload that was sent.

For any number of calls in any order and every kind of program and receiver
(`HostAssumption`), in **HostDeviceProofs**:

* `StatusRepliesAreOwn` and `SyncLoadsReturnOwn`, from `HostInv`. Frames carry no
  identifier, so a reply is a call's own only because no other of its kind is on
  its way. `StatusInv` and `LoadInv` follow the one unanswered request, or the one
  module, from the host's queue through the receiver to the wire back.
* `ResultsAreKept` and `HostResultsInOrder`, from `ResultInv` besides. What calls
  have returned, what is stashed and what is on the wire are together what the
  receiver wrote (`ResultsKept`) or, when discoveries and cut frames drop some, a
  part of it in the same order (`InOrder`); for that each result must be new when
  it is written, so `FreshInv` keeps the numbers of requests, accepted modules and
  written results apart. `Ids`, which selects results from a sequence, is a
  recursive function: that it exists and what `Append` and `Tail` do to it
  (`FoundExists`, `FoundAgree`, `IdsAppend`, `IdsTail`) is shown by taking the
  least index at which the claim fails, since the library's induction cannot be
  instantiated.

Every inductive invariant was checked by TLC on the instance of the module's run
before it was proved. Lemmas about operators carry the proofs: what `Append` and
`Tail` do to an ordered queue of results, what `RemoveAt` leaves of a dict, what
taking a frame, a read or a send does to a stream.

Only model-checked, and why:

* all liveness: the prover does not handle fairness;
* the compiler across processes: its properties are false there.

## 5. Not modelled

The repository has some 88,000 lines of code, of which about 80,000 are the
vendored interpreter and parser under `src/patches`. They are third-party code
with a specification of their own, and are external here: a guest is any
sequence of syscalls. MILO's own code, about 8,000 lines, is what the modules
are about.

Of MILO's own code these are left out, and why:

* Ed25519 (an oracle in Receiver) and key files: cryptography;
* the simulated physics: floating point over wall-clock time;
* the board bindings of `targets/`: thin calls into vendor crates, stateless but
  for the hardware; the Wi-Fi transport: its methods return an error;
* the manifest's JSON, result formatting, the prompts given to the language
  model and the extraction of code from its answer: text without state;
* mDNS: a library call; `serial_push`, the hardware-in-the-loop runner, demos
  and release scripts: sequential programs over what is modelled;
* the end of input of the `--stdin` receiver, which exits; an MCP server that is
  killed outright, and its serial connections; a connection that is lost under
  `MiloDevice` itself (every later call raises; Registry and IntentLoop have it); the single bytes of the host's reads (a frame is read, not
  read, or cut);
* Cargo.toml and `.cargo/config.toml` of the warm project (`compiler.py:94-95`),
  whose text is constant: a clear that removes them under a build is not covered;
* the wrap of the scan's position on a 32-bit `usize` (`validation.rs:135`);
* versions of firmware: the cache names a file without one.

Clock time is absent throughout: a timeout may happen whenever its read waits.

## 6. What is left

Every safety and action property that a run checks and that holds is proved, with
the hypotheses named above. What remains to TLC is liveness.

To extend the model, the nearest candidates are the wrap of the scan's position on
a 32-bit `usize`, serial connections of the MCP server, and the memory that
`EmbeddedIoTransport` allocates for whatever length a header declares
(`transport/mod.rs:50`): StreamLoop has no limit on memory, so no property covers it.
