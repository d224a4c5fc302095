------------------------------ MODULE Executor ------------------------------
(***************************************************************************)
(* What the MiloExecutor trait (receiver/src/engine/executor.rs) promises  *)
(* its caller, the receiver's main loop: every module that is submitted    *)
(* gets exactly one result, results come back in submission order, one     *)
(* module executes at a time, and poll_result answers nothing while a      *)
(* module is executing.  Modules are named by their submission number.     *)
(***************************************************************************)
EXTENDS Naturals, Sequences

VARIABLES
    accepted,   \* how many modules submit() has taken
    answered,   \* the results poll_result() has returned, oldest first
    running     \* is_running()

absVars == <<accepted, answered, running>>

\* An ExecResult: which submission it belongs to and how that run ended.
Outcomes == {"ok", "error", "panicked", "nohw"}

AbsInit ==
    /\ accepted = 0
    /\ answered = <<>>
    /\ running = FALSE

\* submit(): the module may or may not be executing when the call returns.
AbsSubmit ==
    /\ accepted' = accepted + 1
    /\ running' \in BOOLEAN
    /\ running => running'
    /\ UNCHANGED answered

\* An accepted module begins to execute: only one at a time.
AbsStart ==
    /\ ~running
    /\ Len(answered) < accepted
    /\ running' = TRUE
    /\ UNCHANGED <<accepted, answered>>

AbsFinish ==
    /\ running
    /\ running' = FALSE
    /\ UNCHANGED <<accepted, answered>>

\* poll_result() returns the result of the oldest unanswered module.
AbsAnswer ==
    /\ ~running
    /\ Len(answered) < accepted
    /\ \E o \in Outcomes :
          answered' = Append(answered, [job |-> Len(answered) + 1, outcome |-> o])
    /\ UNCHANGED <<accepted, running>>

AbsNext == AbsSubmit \/ AbsStart \/ AbsFinish \/ AbsAnswer

AbsSpec == AbsInit /\ [][AbsNext]_absVars
=============================================================================
