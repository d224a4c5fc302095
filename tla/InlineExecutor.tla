--------------------------- MODULE InlineExecutor ---------------------------
(***************************************************************************)
(* SingleCoreExecutor (receiver/src/engine/executor.rs), which runs a      *)
(* module inside submit(), and DualCoreExecutor's fallback, which does the *)
(* same (executor_dual.rs), called the way main_loop_with_policy calls an  *)
(* executor: submit() then poll_result() for a push, stop() before them    *)
(* for a swap.  poll_result() answers only while the status is Completed,  *)
(* and a second submit() would overwrite last_result, so that no result is *)
(* lost depends on the order of these calls.                               *)
(***************************************************************************)
EXTENDS Naturals, Sequences

CONSTANT MaxJobs    \* bound: how many modules are ever submitted

ASSUME InlineAssumption == MaxJobs \in Nat

VARIABLES
    hardware,    \* self.hardware.is_some()
    status,      \* self.status
    lastResult,  \* self.last_result: empty, or one result
    lent,        \* the hardware is with a caller of take_hardware()
    loop,        \* where the main loop is: "read", "swap", "run" (in a submit()
                 \* that runs the module) or "poll"
    submitted,   \* history: modules submitted so far
    taken        \* history: results poll_result() has returned

vars == <<hardware, status, lastResult, lent, loop, submitted, taken>>

ExecStatus == {"Idle", "Running", "Completed", "Stopped"}
Outcomes == {"ok", "error", "nohw"}
Result == [job : 1..MaxJobs, outcome : Outcomes]

\* is_running(), which the caller of a blocking submit() never sees TRUE.
IsRunning == status = "Running"

Init ==
    /\ hardware = TRUE
    /\ status = "Idle"
    /\ lastResult = <<>>
    /\ lent = FALSE
    /\ loop = "read"
    /\ submitted = 0
    /\ taken = <<>>

-----------------------------------------------------------------------------
(* The executor's methods.                                                 *)

\* submit() takes the hardware out for the runtime ...
BeginRun ==
    /\ hardware
    /\ hardware' = FALSE
    /\ status' = "Running"
    /\ loop' = "run"
    /\ UNCHANGED <<lastResult, lent, taken>>

\* ... or has none, and returns at once with an error.
NoHardware ==
    /\ ~hardware
    /\ lastResult' = <<[job |-> submitted + 1, outcome |-> "nohw"]>>
    /\ status' = "Completed"
    /\ loop' = "poll"
    /\ UNCHANGED <<hardware, lent, taken>>

Submit ==
    /\ submitted < MaxJobs
    /\ submitted' = submitted + 1
    /\ BeginRun \/ NoHardware

\* Mutant: the status is not set when execute() has returned.
SubmitReturnsRunning ==
    /\ loop = "run"
    /\ hardware' = TRUE
    /\ \E o \in {"ok", "error"} : lastResult' = <<[job |-> submitted, outcome |-> o]>>
    /\ loop' = "poll"
    /\ UNCHANGED <<status, lent, submitted, taken>>

\* submit() returns: the hardware is back, whether execute() succeeded or not.
SubmitReturns ==
    /\ loop = "run"
    /\ hardware' = TRUE
    /\ \E o \in {"ok", "error"} : lastResult' = <<[job |-> submitted, outcome |-> o]>>
    /\ status' = "Completed"
    /\ loop' = "poll"
    /\ UNCHANGED <<lent, submitted, taken>>

\* poll_result() takes last_result if the status is Completed.
PollResult ==
    /\ taken' = IF status = "Completed" THEN taken \o lastResult ELSE taken
    /\ lastResult' = IF status = "Completed" THEN <<>> ELSE lastResult
    /\ status' = IF status = "Completed" THEN "Idle" ELSE status
    /\ UNCHANGED <<hardware, lent, submitted>>

\* stop() only marks the status: nothing runs when it is called.
Stop ==
    /\ status' = "Stopped"
    /\ UNCHANGED <<hardware, lastResult, lent, submitted, taken>>

-----------------------------------------------------------------------------
(* The main loop's use of it.                                              *)

Push ==
    /\ loop = "read"
    /\ Submit

\* A swap: stop, then submit.
HotSwap ==
    /\ loop = "read"
    /\ submitted < MaxJobs
    /\ Stop
    /\ loop' = "swap"

HotSwapSubmit ==
    /\ loop = "swap"
    /\ Submit

PollAfterSubmit ==
    /\ loop = "poll"
    /\ PollResult
    /\ loop' = "read"

HandleStop ==
    /\ loop = "read"
    /\ Stop
    /\ UNCHANGED loop

\* take_hardware() and give_hardware() of the trait, between two frames.
TakeHardware ==
    /\ loop = "read"
    /\ hardware
    /\ hardware' = FALSE
    /\ lent' = TRUE
    /\ UNCHANGED <<status, lastResult, loop, submitted, taken>>

GiveHardware ==
    /\ loop = "read"
    /\ lent
    /\ lent' = FALSE
    /\ hardware' = TRUE
    /\ UNCHANGED <<status, lastResult, loop, submitted, taken>>

-----------------------------------------------------------------------------
Next ==
    \/ Push \/ HotSwap \/ HotSwapSubmit \/ SubmitReturns \/ PollAfterSubmit
    \/ HandleStop \/ TakeHardware \/ GiveHardware

Spec == Init /\ [][Next]_vars

-----------------------------------------------------------------------------
(* Properties.                                                             *)

\* Every variable of the executor keeps its type.
TypeOK ==
    /\ hardware \in BOOLEAN /\ lent \in BOOLEAN
    /\ status \in ExecStatus
    /\ lastResult \in Seq(Result)
    /\ loop \in {"read", "swap", "run", "poll"}
    /\ submitted \in 0..MaxJobs
    /\ taken \in Seq(Result)

\* Whenever the loop reads the next frame, every module submitted so far has
\* been answered by its own result, and last_result holds nothing that a
\* later poll could mistake for the next module's.
AnsweredBeforeNextFrame ==
    loop \in {"read", "swap"} =>
        /\ lastResult = <<>>
        /\ Len(taken) = submitted
        /\ \A i \in DOMAIN taken : taken[i].job = i

\* The blocking executor implements the MiloExecutor contract too.
Contract == INSTANCE Executor WITH
    accepted <- submitted, answered <- taken, running <- IsRunning
ImplementsContract == Contract!AbsSpec

=============================================================================
