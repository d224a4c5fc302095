------------------------------ MODULE Runtime ------------------------------
(***************************************************************************)
(* One module's run inside a receiver: MiloRuntime (receiver/src/lib.rs)   *)
(* with its syscalls, over EmbeddedHalAdapter (hal/adapter.rs).  The guest *)
(* is arbitrary: it makes any syscall with any arguments, from its start   *)
(* function (when HostState.memory is still None) or from run_logic.       *)
(* Guest memory is its size; an access to it is the range that was sliced. *)
(* There are PtrSpace pointers, for the 2^32 of a u32.                     *)
(***************************************************************************)
EXTENDS Naturals, Sequences

CONSTANTS
    PtrSpace,     \* number of guest pointers (2^32, scaled down)
    UsizeWraps,   \* usize is as narrow as a guest pointer (the boards)
    Ptrs, Lens,   \* pointers and lengths the guest passes
    MemSizes,     \* sizes of exported memories; 0: the module exports none
    Board,        \* the peripherals registered: <<kind, id>>
    Ids,          \* the ids the guest tries
    Duties,       \* duties it passes to pwm_set
    FullDuty,     \* 10000 of pwm_set, scaled down
    MaxDuty,      \* max_duty_cycle() of the channels, scaled down
    MaxFuel,      \* fuel of a runtime, in syscalls
    MaxRuns       \* bound: modules executed

ASSUME RuntimeAssumption ==
    /\ PtrSpace \in Nat \ {0} /\ MaxFuel \in Nat /\ MaxRuns \in Nat
    /\ UsizeWraps \in BOOLEAN
    /\ Ptrs \subseteq 0..PtrSpace - 1 /\ Lens \subseteq 0..PtrSpace - 1
    /\ MemSizes \subseteq Nat
    /\ Board \subseteq {"gpio", "pwm", "adc", "i2c", "spi", "uart"} \X Ids
    /\ Ids \subseteq Nat /\ Duties \subseteq Nat
    /\ FullDuty \in Nat \ {0} /\ MaxDuty \in Nat

NoMemory == 0

VARIABLES
    stage,     \* "none", "ready", "start", "run", or "dead" after a panic
    memory,    \* HostState.memory: the run whose memory it is, or NoMemory
    logs,      \* HostState.logs
    fuel,      \* the store's fuel
    pins,      \* levels driven on the GPIO pins
    duty,      \* duty cycles set on the PWM channels
    lastLog,   \* adapter.last_log: what log_sink saw last
    memSize,   \* per run: the size of the module's memory
    results,   \* per run: its result
    said,      \* history: per run, how many messages it logged
    access     \* history: the ranges of guest memory the last one sliced

hwVars == <<pins, duty, lastLog>>
runVars == <<stage, memory, logs, fuel, hwVars, memSize, results, said, access>>

\* The run under way, while stage is "start" or "run".
Run == Len(memSize)

PwmIds == {i \in Ids : <<"pwm", i>> \in Board}
GpioIds == {i \in Ids : <<"gpio", i>> \in Board}

RunInit ==
    /\ stage = "none"
    /\ memory = NoMemory
    /\ logs = <<>>
    /\ fuel = 0
    /\ pins = [i \in GpioIds |-> FALSE]
    /\ duty = [i \in PwmIds |-> 0]
    /\ lastLog = <<>>
    /\ memSize = <<>>
    /\ results = <<>>
    /\ said = <<>>
    /\ access = <<>>

-----------------------------------------------------------------------------
(* The runtime's life.                                                     *)

\* MiloRuntime::new: fresh host state and fuel.
NewRuntime ==
    /\ stage = "none"
    /\ stage' = "ready"
    /\ memory' = NoMemory
    /\ logs' = <<>>
    /\ fuel' = MaxFuel
    /\ UNCHANGED <<hwVars, memSize, results, said, access>>

\* into_hardware: the peripherals keep their state.
IntoHardware ==
    /\ stage = "ready"
    /\ stage' = "none"
    /\ UNCHANGED <<memory, logs, fuel, hwVars, memSize, results, said, access>>

\* Mutant: the logs of the last module are not cleared.
ExecuteKeepsLogs ==
    /\ stage = "ready"
    /\ Len(memSize) < MaxRuns
    /\ memory' = NoMemory
    /\ \E size \in MemSizes : memSize' = Append(memSize, size)
    /\ said' = Append(said, 0)
    /\ stage' = "start"
    /\ UNCHANGED <<logs, fuel, hwVars, results, access>>

\* execute(): clear the last run's logs and memory, instantiate.
Execute ==
    /\ stage = "ready"
    /\ Len(memSize) < MaxRuns
    /\ logs' = <<>>
    /\ memory' = NoMemory
    /\ \E size \in MemSizes : memSize' = Append(memSize, size)
    /\ said' = Append(said, 0)
    /\ stage' = "start"
    /\ UNCHANGED <<fuel, hwVars, results, access>>

\* The start function has returned: look up "memory" and "run_logic".
CallRunLogic ==
    /\ stage = "start"
    /\ memory' = IF memSize[Run] > 0 THEN Run ELSE NoMemory
    /\ stage' = "run"
    /\ UNCHANGED <<logs, fuel, hwVars, memSize, results, said, access>>

EndWith(result) ==
    /\ results' = Append(results, result)
    /\ stage' = "ready"
    /\ UNCHANGED <<memory, logs, fuel, hwVars, memSize, said, access>>

\* ModuleInvalid, a trap, fuel exhausted or MissingExport: no logs.
Fail ==
    /\ stage \in {"start", "run"}
    /\ EndWith([ok |-> FALSE, logs |-> <<>>])

\* run_logic returns: Ok(logs).
Return ==
    /\ stage = "run"
    /\ EndWith([ok |-> TRUE, logs |-> logs])

-----------------------------------------------------------------------------
(* Syscalls.                                                               *)

\* Mutant: a syscall costs no fuel.
SyscallFree ==
    /\ stage \in {"start", "run"}
    /\ UNCHANGED <<fuel, memory, memSize, results>>

\* The guest calls: it has fuel for it.
Syscall ==
    /\ stage \in {"start", "run"}
    /\ fuel > 0
    /\ fuel' = fuel - 1
    /\ UNCHANGED <<memory, memSize, results>>

Registered(kind, id) == <<kind, id>> \in Board

\* deny(): an audit line to the sink; the call is a no-op.
Deny(syscall, id) ==
    /\ lastLog' = <<[denied |-> syscall, id |-> id]>>
    /\ UNCHANGED <<stage, logs, pins, duty, said, access>>

GpioSet ==
    /\ Syscall
    /\ \E pin \in Ids, level \in BOOLEAN :
          \/ /\ Registered("gpio", pin)
             /\ pins' = [pins EXCEPT ![pin] = level]
             /\ UNCHANGED <<stage, logs, duty, lastLog, said, access>>
          \/ ~Registered("gpio", pin) /\ Deny("gpio_set", pin)

\* PwmAdapter::set_duty.
ScaledDuty(d) == ((IF d < FullDuty THEN d ELSE FullDuty) * MaxDuty) \div FullDuty

PwmSet ==
    /\ Syscall
    /\ \E ch \in Ids, d \in Duties :
          \/ /\ Registered("pwm", ch)
             /\ duty' = [duty EXCEPT ![ch] = ScaledDuty(d)]
             /\ UNCHANGED <<stage, logs, pins, lastLog, said, access>>
          \/ ~Registered("pwm", ch) /\ Deny("pwm_set", ch)

\* gpio_get and adc_read answer the guest, or deny.
ReadInput ==
    /\ Syscall
    /\ \E in \in {<<"gpio", "gpio_get">>, <<"adc", "adc_read">>}, id \in Ids :
          \/ /\ Registered(in[1], id)
             /\ UNCHANGED <<stage, logs, hwVars, said, access>>
          \/ ~Registered(in[1], id) /\ Deny(in[2], id)

\* delay_ms, get_uptime_us and get_param, and any syscall that fails with -1
\* or ignores the call: the adapter and the host state do not change.
NoEffect == UNCHANGED <<stage, logs, hwVars, said, access>>

Quiet == Syscall /\ NoEffect

\* A panic of the syscall: the receiver's thread (or the board) is gone.
Panic ==
    /\ stage' = "dead"
    /\ UNCHANGED <<logs, hwVars, said, access>>

\* A Vec of a length the guest chose, which the heap of a board may not hold.
AllocationFails(len) == memory # NoMemory /\ len > 0 /\ Panic

\* Mutant: only the end of the range is compared with the memory's size.
SliceableEndOnly(lo, hi) == hi <= memSize[memory]

\* Rust slices lo..hi of the memory, or panics.
Sliceable(lo, hi) == lo <= hi /\ hi <= memSize[memory]

\* A range of guest memory that a syscall has sliced.
Slice(ptr, len, hi) ==
    [run |-> Run, owner |-> memory, lo |-> ptr, len |-> len, hi |-> hi]

\* The end of a range in u32, and in usize.
EndU32(ptr, len) == (ptr + len) % PtrSpace
EndUsize(ptr, len) == IF UsizeWraps THEN (ptr + len) % PtrSpace ELSE ptr + len

SliceableU32(ptr, len) == Sliceable(ptr, EndU32(ptr, len))
SliceU32(ptr, len) == Slice(ptr, len, EndU32(ptr, len))

\* i2c_transfer (bus 0) and spi_transfer: slice the tx bytes unchecked, make
\* room for the rx bytes, do the transfer, slice the rx bytes unchecked if it
\* succeeded.
Transfer ==
    /\ Syscall
    /\ \E kind \in {"i2c", "spi"}, id \in Ids, tx, rx \in Ptrs, txLen, rxLen \in Lens,
          success \in BOOLEAN :
          /\ kind = "i2c" => id = 0
          /\ success => Registered(kind, id)
          /\ \/ memory = NoMemory /\ NoEffect
             \/ /\ memory # NoMemory
                /\ SliceableU32(tx, txLen)
                /\ success /\ rxLen > 0 => SliceableU32(rx, rxLen)
                /\ access' = IF success /\ rxLen > 0
                             THEN <<SliceU32(tx, txLen), SliceU32(rx, rxLen)>>
                             ELSE <<SliceU32(tx, txLen)>>
                /\ UNCHANGED <<stage, logs, hwVars, said>>
             \/ /\ memory # NoMemory
                /\ ~SliceableU32(tx, txLen) \/ (success /\ rxLen > 0 /\ ~SliceableU32(rx, rxLen))
                /\ Panic
             \/ /\ memory # NoMemory
                /\ SliceableU32(tx, txLen)
                /\ AllocationFails(rxLen)

\* uart_write, uart_read (which makes room for all it may get, and copies the
\* len bytes that arrived) and log_msg compare
\* the end of the range with the memory's size first, in usize; Then is what
\* they do with a range they have sliced.
Checked(ptr, len, Then) ==
    LET hi == EndUsize(ptr, len)
    IN  \/ memory = NoMemory /\ NoEffect
        \/ memory # NoMemory /\ hi > memSize[memory] /\ NoEffect
        \/ /\ memory # NoMemory /\ hi <= memSize[memory]
           /\ ~Sliceable(ptr, hi)
           /\ Panic
        \/ /\ memory # NoMemory /\ hi <= memSize[memory]
           /\ Sliceable(ptr, hi)
           /\ access' = <<Slice(ptr, len, hi)>>
           /\ Then

Uart ==
    /\ Syscall
    /\ \E ptr \in Ptrs, len \in Lens :
          \/ Checked(ptr, len, UNCHANGED <<stage, logs, hwVars, said>>)
          \/ AllocationFails(len)

\* log_msg logs to the adapter and to the result, unless it is not UTF-8.
LogLine ==
    LET line == [run |-> Run, n |-> said[Run] + 1]
    IN  \/ /\ logs' = Append(logs, line)
           /\ said' = [said EXCEPT ![Run] = @ + 1]
           /\ lastLog' = <<line>>
           /\ UNCHANGED <<stage, pins, duty>>
        \/ UNCHANGED <<stage, logs, hwVars, said>>

LogMsg ==
    /\ Syscall
    /\ \E ptr \in Ptrs, len \in Lens : Checked(ptr, len, LogLine)

-----------------------------------------------------------------------------
\* What the module under way may do, from instantiation to its result.
GuestNext ==
    \/ CallRunLogic \/ Fail \/ Return
    \/ GpioSet \/ PwmSet \/ ReadInput \/ Quiet \/ Transfer \/ Uart \/ LogMsg

\* A user of the library, who may execute several modules in one runtime.
RunNext == NewRuntime \/ IntoHardware \/ Execute \/ GuestNext

-----------------------------------------------------------------------------
(* Properties.                                                             *)

\* Every range a syscall touches is the range the guest asked for, lies in
\* the memory, and that memory is the running module's own: sums that wrap
\* are caught by the slice, and no module sees the memory of an earlier one.
AccessesInBounds ==
    \A i \in DOMAIN access :
        LET a == access[i]
        IN  /\ a.owner = a.run
            /\ a.hi = a.lo + a.len
            /\ a.hi <= memSize[a.owner]

\* A successful result carries every message of its own run, in order and
\* once, and no other run's, also when a runtime executes several modules.  It
\* may have further lines of its run: hal/adapter.rs:192 promises the denials, of
\* which the code puts none there (Deny).
LogsAreOwn ==
    \A k \in DOMAIN results :
        results[k].ok =>
            LET lines == results[k].logs
            IN  /\ \A i \in DOMAIN lines : lines[i].run = k
                /\ \A i, j \in DOMAIN lines : i < j => lines[i].n < lines[j].n
                /\ \A n \in 1..said[k] : \E i \in DOMAIN lines : lines[i].n = n

=============================================================================
