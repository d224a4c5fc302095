-------------------------- MODULE ThreadedExecutor --------------------------
(***************************************************************************)
(* ThreadedExecutor (receiver/src/engine/executor_threaded.rs) with the    *)
(* simulated hardware's cooperative stop (receiver/src/targets/sim/mod.rs).*)
(*                                                                         *)
(* Two threads: the caller's, which runs the executor's methods, and the   *)
(* worker that submit() spawns.  They share SIM_STOPPED; the hardware is   *)
(* moved into the worker and comes back through the join.  A method is one *)
(* action, except that submit() and take_hardware() may block in a join,   *)
(* and are then two.  Modules are named by their submission number.        *)
(***************************************************************************)
EXTENDS Naturals, Sequences

CONSTANTS
    MaxJobs,    \* bound: how many modules are ever submitted
    MaxFuel     \* fuel a module starts with: the delay_ms calls it can make

ASSUME ExecutorAssumption == MaxJobs \in Nat /\ MaxFuel \in Nat

VARIABLES
    hardware,    \* self.hardware.is_some()
    status,      \* self.status
    handle,      \* self.handle: the job whose thread it joins, 0 for None
    results,     \* self.results
    call,        \* the method blocked in handle.join(), or "none"
    callerHw,    \* the caller holds the hardware take_hardware() gave it
    simStopped,  \* SIM_STOPPED
    worker,      \* where the worker thread is
    fuel,        \* fuel left to the worker's module
    outcome,     \* what the worker's closure returned
    submitted,   \* history: modules submitted so far
    taken,       \* history: results poll_result() has returned
    lateSleeps   \* history: sleeps the worker began with SIM_STOPPED set

callerVars == <<hardware, status, handle, results, call, callerHw, submitted, taken>>
workerVars == <<worker, fuel, outcome, lateSleeps>>
execVars == <<callerVars, workerVars, simStopped>>

NoJob == 0
ExecStatus == {"Idle", "Running", "Completed", "Stopped"}
Outcomes == {"ok", "error", "panicked", "nohw"}
Result == [job : 1..MaxJobs, outcome : Outcomes]

\* handle.is_finished(): the closure has returned, or unwound by a panic.
WorkerFinished == worker \in {"done", "panicked"}

\* is_running()
IsRunning == handle # NoJob /\ ~WorkerFinished

\* Mutant: the stored status, which stop() sets while the worker still runs.
StatusNowStored == status

\* status()
StatusNow == IF IsRunning THEN "Running" ELSE status

-----------------------------------------------------------------------------
(* Construction: ThreadedExecutor::new.                                    *)

ExecInit ==
    /\ hardware = TRUE
    /\ status = "Idle"
    /\ handle = NoJob
    /\ results = <<>>
    /\ call = "none"
    /\ callerHw = FALSE
    /\ simStopped = FALSE
    /\ worker = "none"
    /\ fuel = 0
    /\ outcome = "ok"
    /\ submitted = 0
    /\ taken = <<>>
    /\ lateSleeps = 0

-----------------------------------------------------------------------------
(* The caller's methods.                                                   *)

\* What a join of the finished worker yields: its result, and the hardware
\* unless the thread panicked and took the hardware down with it.
JoinedResult ==
    [job |-> handle, outcome |-> IF worker = "done" THEN outcome ELSE "panicked"]

\* Mutants: a slot instead of a queue; a push at the wrong end.
JoinedResultsSlot == <<JoinedResult>>
JoinedResultsFront == <<JoinedResult>> \o results
JoinedResults == Append(results, JoinedResult)

\* Mutant: a failed module does not hand the hardware back.
JoinedHardwareOkOnly == worker = "done" /\ outcome = "ok"
JoinedHardware == worker = "done"
JoinedStatus == IF status = "Stopped" THEN "Stopped" ELSE "Completed"

\* The part of submit() after the join: take the hardware, clear the stop
\* flag, spawn; or queue an error result if there is no hardware.
Launch(hw, rs, job) ==
    \/ /\ ~hw
       /\ results' = Append(rs, [job |-> job, outcome |-> "nohw"])
       /\ status' = "Completed"
       /\ hardware' = FALSE
       /\ handle' = NoJob
       /\ worker' = "none"
       /\ UNCHANGED <<simStopped, fuel, outcome, lateSleeps>>
    \/ /\ hw
       /\ results' = rs
       /\ status' = "Running"
       /\ hardware' = FALSE
       /\ handle' = job
       /\ worker' = "run"
       /\ simStopped' = FALSE
       /\ fuel' = MaxFuel
       /\ outcome' = "ok"
       /\ lateSleeps' = 0

\* submit() with no previous worker.
Submit ==
    /\ call = "none"
    /\ submitted < MaxJobs
    /\ handle = NoJob
    /\ submitted' = submitted + 1
    /\ Launch(hardware, results, submitted + 1)
    /\ UNCHANGED <<call, callerHw, taken>>

\* Mutant: start_hook clears the flag before the join, not after it.
SubmitOverRunningClears ==
    /\ call = "none"
    /\ submitted < MaxJobs
    /\ handle # NoJob
    /\ submitted' = submitted + 1
    /\ simStopped' = FALSE
    /\ call' = "submit"
    /\ UNCHANGED <<hardware, status, handle, results, callerHw, taken, workerVars>>

\* submit() with a previous worker: stop it, then block in reap()'s join.
SubmitOverRunning ==
    /\ call = "none"
    /\ submitted < MaxJobs
    /\ handle # NoJob
    /\ submitted' = submitted + 1
    /\ simStopped' = TRUE
    /\ call' = "submit"
    /\ UNCHANGED <<hardware, status, handle, results, callerHw, taken, workerVars>>

\* Mutant: submit waits for the hardware to come back, for ever after a panic.
SubmitJoinWaits ==
    \/ /\ call = "submit"
       /\ worker = "done"
       /\ call' = "none"
       /\ Launch(JoinedHardware, JoinedResults, submitted)
       /\ UNCHANGED <<callerHw, submitted, taken>>
    \/ /\ call = "submit"
       /\ worker = "panicked"
       /\ UNCHANGED execVars

SubmitJoin ==
    /\ call = "submit"
    /\ WorkerFinished
    /\ call' = "none"
    /\ Launch(JoinedHardware, JoinedResults, submitted)
    /\ UNCHANGED <<callerHw, submitted, taken>>

\* Remove the oldest of the results rs, no worker being left.
PopResult(rs, hw) ==
    /\ rs # <<>>
    /\ results' = Tail(rs)
    /\ taken' = Append(taken, Head(rs))
    /\ hardware' = hw
    /\ handle' = NoJob
    /\ status' = "Idle"
    /\ worker' = "none"
    /\ UNCHANGED <<call, callerHw, simStopped, fuel, outcome, submitted, lateSleeps>>

\* Mutants: finished workers are not reaped; results are popped while a
\* worker is still running.
PollResultNoReap ==
    /\ call = "none"
    /\ handle = NoJob
    /\ PopResult(results, hardware)
PollResultEager ==
    /\ call = "none"
    /\ results # <<>>
    /\ results' = Tail(results)
    /\ taken' = Append(taken, Head(results))
    /\ status' = "Idle"
    /\ UNCHANGED <<hardware, handle, call, callerHw, submitted, workerVars, simStopped>>

\* poll_result() returning a result: reap a finished worker, then pop the
\* oldest result, which it does only when no worker is left.
PollResult ==
    /\ call = "none"
    /\ ~IsRunning
    /\ IF handle # NoJob THEN PopResult(JoinedResults, JoinedHardware)
                         ELSE PopResult(results, hardware)

\* stop(): only the flag and the status; the worker unwinds by itself.
Stop ==
    /\ call = "none"
    /\ simStopped' = TRUE
    /\ status' = "Stopped"
    /\ UNCHANGED <<hardware, handle, results, call, callerHw, submitted, taken, workerVars>>

\* take_hardware() with no worker, and with one (stop it, join it, take).
TakeHardware ==
    /\ call = "none"
    /\ handle = NoJob
    /\ hardware
    /\ callerHw' = TRUE
    /\ hardware' = FALSE
    /\ UNCHANGED <<status, handle, results, call, submitted, taken, workerVars, simStopped>>

TakeHardwareFromRunning ==
    /\ call = "none"
    /\ handle # NoJob
    /\ simStopped' = TRUE
    /\ call' = "take"
    /\ UNCHANGED <<hardware, status, handle, results, callerHw, submitted, taken, workerVars>>

TakeHardwareJoin ==
    /\ call = "take"
    /\ WorkerFinished
    /\ call' = "none"
    /\ results' = JoinedResults
    /\ status' = JoinedStatus
    /\ callerHw' = JoinedHardware
    /\ hardware' = FALSE
    /\ handle' = NoJob
    /\ worker' = "none"
    /\ UNCHANGED <<simStopped, fuel, outcome, submitted, taken, lateSleeps>>

GiveHardware ==
    /\ call = "none"
    /\ callerHw
    /\ hardware' = TRUE
    /\ callerHw' = FALSE
    /\ UNCHANGED <<status, handle, results, call, submitted, taken, workerVars, simStopped>>

-----------------------------------------------------------------------------
(* The worker thread: MiloRuntime::execute over the module's run_logic.    *)
(* Only the syscalls that touch shared state are steps; wasm instructions  *)
(* between them show as fuel.                                              *)

\* Mutant: the flag is not looked at.
DelayMsDeaf ==
    /\ worker = "run"
    /\ fuel > 0
    /\ fuel' = fuel - 1
    /\ worker' = "tosleep"
    /\ UNCHANGED <<callerVars, simStopped, outcome, lateSleeps>>

\* delay_ms, first half: load SIM_STOPPED; a stopped module does not sleep.
DelayMs ==
    /\ worker = "run"
    /\ fuel > 0
    /\ fuel' = fuel - 1
    /\ worker' = IF simStopped THEN "run" ELSE "tosleep"
    /\ UNCHANGED <<callerVars, simStopped, outcome, lateSleeps>>

\* delay_ms, second half: the sleep that the load allowed.
Sleep ==
    /\ worker = "tosleep"
    /\ worker' = "sleep"
    /\ lateSleeps' = IF simStopped THEN lateSleeps + 1 ELSE lateSleeps
    /\ UNCHANGED <<callerVars, simStopped, fuel, outcome>>

Wake ==
    /\ worker = "sleep"
    /\ worker' = "run"
    /\ UNCHANGED <<callerVars, simStopped, fuel, outcome, lateSleeps>>

\* run_logic returns (the logs), or execute fails: an invalid module, a trap,
\* a missing export.
Finish ==
    /\ worker = "run"
    /\ worker' = "done"
    /\ outcome' \in {"ok", "error"}
    /\ UNCHANGED <<callerVars, simStopped, fuel, lateSleeps>>

\* Out of fuel: execute returns FuelExhausted at the next instruction.
FuelExhausted ==
    /\ worker = "run"
    /\ fuel = 0
    /\ worker' = "done"
    /\ outcome' = "error"
    /\ UNCHANGED <<callerVars, simStopped, fuel, lateSleeps>>

\* A syscall panics: the slice of guest memory that i2c_transfer and
\* spi_transfer take is out of bounds.
Panic ==
    /\ worker = "run"
    /\ worker' = "panicked"
    /\ UNCHANGED <<callerVars, simStopped, fuel, outcome, lateSleeps>>

-----------------------------------------------------------------------------
Joins == SubmitJoin \/ TakeHardwareJoin

CallerNext ==
    \/ Submit \/ SubmitOverRunning \/ Stop
    \/ PollResult
    \/ TakeHardware \/ TakeHardwareFromRunning \/ GiveHardware
    \/ Joins

WorkerNext == DelayMs \/ Sleep \/ Wake \/ Finish \/ FuelExhausted \/ Panic

ExecNext == CallerNext \/ WorkerNext

ExecSpec == ExecInit /\ [][ExecNext]_execVars

-----------------------------------------------------------------------------
(* Properties.                                                             *)

\* Every variable of the executor and of its worker keeps its type.
ExecTypeOK ==
    /\ hardware \in BOOLEAN
    /\ status \in ExecStatus
    /\ handle \in 0..MaxJobs
    /\ results \in Seq(Result)
    /\ call \in {"none", "submit", "take"}
    /\ callerHw \in BOOLEAN
    /\ simStopped \in BOOLEAN
    /\ worker \in {"none", "run", "tosleep", "sleep", "done", "panicked"}
    /\ fuel \in 0..MaxFuel
    /\ outcome \in {"ok", "error"}
    /\ submitted \in 0..MaxJobs
    /\ taken \in Seq(Result)
    /\ lateSleeps \in Nat

\* The live worker owns the hardware: it was moved into its closure.
WorkerHasHw == worker \notin {"none", "panicked"}

\* Some worker has panicked: the result says so, wherever it now is.
SomePanic ==
    \/ worker = "panicked"
    \/ \E i \in DOMAIN results : results[i].outcome = "panicked"
    \/ \E i \in DOMAIN taken : taken[i].outcome = "panicked"

\* The hardware is in exactly one place - the executor, the live worker or
\* the caller of take_hardware() - unless a panicking worker lost it: stops,
\* swaps, failed modules and takes all hand it on.
HardwareConserved ==
    /\ ~(hardware /\ WorkerHasHw)
    /\ ~(hardware /\ callerHw)
    /\ ~(callerHw /\ WorkerHasHw)
    /\ hardware \/ callerHw \/ WorkerHasHw \/ SomePanic

\* The submissions not yet answered, oldest first, are those of the queued
\* results, then the worker's, then the one blocked in submit(): no result is
\* lost, duplicated or out of order, whatever swaps and stops interleave
\* ("both results must reach the host", executor_threaded.rs:26-27).
ResultsInSubmissionOrder ==
    /\ \A i \in DOMAIN taken : taken[i].job = i
    /\ \A i \in DOMAIN results : results[i].job = Len(taken) + i
    /\ handle # NoJob => handle = Len(taken) + Len(results) + 1
    /\ submitted = Len(taken) + Len(results)
                   + (IF handle # NoJob THEN 1 ELSE 0)
                   + (IF call = "submit" THEN 1 ELSE 0)

\* After a stop the module sleeps at most once more, in the delay_ms whose
\* load of the flag came before the stop (sim/mod.rs:291-298).
AtMostOneLateSleep == lateSleeps <= 1

\* A stop is never undone for the module it was meant for: SIM_STOPPED is
\* cleared only when that module's worker is no longer there to see it
\* (submit joins before start_hook).
StopStays ==
    [][simStopped /\ IsRunning => simStopped']_execVars

\* ThreadedExecutor implements the MiloExecutor contract.
Contract == INSTANCE Executor WITH
    accepted <- submitted, answered <- taken, running <- IsRunning
ImplementsContract == Contract!AbsSpec

=============================================================================
