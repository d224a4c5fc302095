--------------------------- MODULE FirmwareProofs ---------------------------
(***************************************************************************)
(* What a module that runs on a board can reach and report, for every      *)
(* size of the pointer space, every board, any number of modules and any   *)
(* fuel: its accesses stay in its own memory, its result carries its own   *)
(* logs.  The blocking executor, under the main loop's order of calls,     *)
(* never loses or misattributes a result and implements the MiloExecutor   *)
(* contract; so does the board, and it never loses its hardware.           *)
(*                                                                         *)
(* Every step of Firmware is, for the runtime's variables, a step of       *)
(* Runtime, a panic of the scan, or nothing (FirmwareSteps); so one        *)
(* inductive invariant of the runtime, RunInv, serves for both.            *)
(*                                                                         *)
(* And the verdict of the import scan is right, for every alphabet, any    *)
(* width of the numbers and any modules: what the scan reads at a position *)
(* is what a compiler wrote there, or the bytes are cut off before it      *)
(* (Reads).  The invariant, VerdictInv, says which part of the module the  *)
(* scan is at.                                                             *)
(***************************************************************************)
EXTENDS Firmware, SequenceTheorems, WellFoundedInduction, TLAPS

-----------------------------------------------------------------------------
(* The blocking executor.                                                  *)

\* In the poll that follows a submit, last_result is the newest module's.
PollHolds ==
    loop = "poll" =>
        /\ status = "Completed"
        /\ submitted \in 1..MaxJobs
        /\ Len(taken) = submitted - 1
        /\ \E o \in Outcomes : lastResult = <<[job |-> submitted, outcome |-> o]>>
        /\ \A i \in DOMAIN taken : taken[i].job = i

\* While submit() runs a module, every earlier one has been answered.
RunHolds ==
    loop = "run" =>
        /\ submitted \in 1..MaxJobs
        /\ Len(taken) = submitted - 1
        /\ \A i \in DOMAIN taken : taken[i].job = i

\* A swap that has stopped still has a submission to make.
SwapHolds == loop = "swap" => submitted < MaxJobs

\* The inductive invariant: the property needs the states of a submission and
\* of the poll, too.
InlineInv ==
    /\ TypeOK
    /\ status = "Running" <=> loop = "run"
    /\ RunHolds
    /\ PollHolds
    /\ SwapHolds
    /\ AnsweredBeforeNextFrame

\* Appending the polled result: what the answered sequence looks like then.
LEMMA AppendAnswer ==
    ASSUME NEW s \in Seq(Result), NEW n \in 1..MaxJobs, NEW o \in Outcomes,
           Len(s) = n - 1, \A i \in DOMAIN s : s[i].job = i
    PROVE  LET t == s \o <<[job |-> n, outcome |-> o]>>
           IN  /\ t \in Seq(Result)
               /\ t = Append(s, [job |-> Len(s) + 1, outcome |-> o])
               /\ Len(t) = n
               /\ \A i \in DOMAIN t : t[i].job = i
<1> DEFINE r == [job |-> n, outcome |-> o]
<1> DEFINE t == s \o <<r>>
<1>1. r \in Result
  BY DEF Result
<1>2. n \in Nat /\ Len(s) \in Nat /\ Len(s) + 1 = n
  BY InlineAssumption
<1>3. t \in Seq(Result) /\ Len(t) = n
  BY <1>1, <1>2
<1>4. t = Append(s, r)
  BY <1>1
<1>5. ASSUME NEW i \in DOMAIN t PROVE t[i].job = i
  <2>1. i \in 1..n
    BY <1>3
  <2>2. CASE i = n
    BY <2>2, <1>2, <1>3, <1>4
  <2>3. CASE i # n
    <3>1. i \in 1..Len(s)
      BY <2>1, <2>3, <1>2
    <3>2. t[i] = s[i]
      BY <3>1, <1>4
    <3>3. QED
      BY <3>1, <3>2
  <2>4. QED
    BY <2>2, <2>3
<1>6. QED
  BY <1>2, <1>3, <1>4, <1>5

\* A submission, by a push or by the second half of a swap: the module runs, or
\* is answered at once because the hardware is away.
LEMMA SubmitKeeps ==
    ASSUME InlineInv, Submit, loop \in {"read", "swap"}
    PROVE  /\ InlineInv'
           /\ submitted' = submitted + 1 /\ taken' = taken
<1>1. /\ submitted \in 0..MaxJobs /\ submitted < MaxJobs /\ submitted' = submitted + 1
      /\ taken' = taken /\ taken \in Seq(Result) /\ lastResult \in Seq(Result)
  BY DEF InlineInv, TypeOK, Submit, BeginRun, NoHardware
<1>2. submitted + 1 \in 1..MaxJobs /\ submitted' \in 0..MaxJobs /\ submitted' \in 1..MaxJobs
  BY <1>1, InlineAssumption
<1>3. hardware' \in BOOLEAN /\ lent' \in BOOLEAN
  BY DEF InlineInv, TypeOK, Submit, BeginRun, NoHardware
<1>4. Len(taken') = submitted' - 1 /\ \A i \in DOMAIN taken' : taken'[i].job = i
  <2>1. Len(taken) = submitted /\ \A i \in DOMAIN taken : taken[i].job = i
    BY DEF InlineInv, AnsweredBeforeNextFrame
  <2>2. QED
    BY <1>1, <2>1
<1>5. CASE BeginRun
  <2>1. status' = "Running" /\ loop' = "run" /\ lastResult' = lastResult
    BY <1>5 DEF BeginRun
  <2>2. TypeOK'
    BY <1>1, <1>2, <1>3, <2>1 DEF TypeOK, ExecStatus
  <2>3. RunHolds'
    BY <1>2, <1>4 DEF RunHolds
  <2>4. QED
    BY <1>1, <2>1, <2>2, <2>3 DEF InlineInv, PollHolds, SwapHolds, AnsweredBeforeNextFrame
<1>6. CASE NoHardware
  <2> DEFINE r == [job |-> submitted + 1, outcome |-> "nohw"]
  <2>1. status' = "Completed" /\ loop' = "poll" /\ lastResult' = <<r>>
    BY <1>6 DEF NoHardware
  <2>2. r \in Result /\ "nohw" \in Outcomes
    BY <1>2 DEF Result, Outcomes
  <2>3. lastResult' \in Seq(Result)
    BY <2>1, <2>2
  <2>4. TypeOK'
    BY <1>1, <1>2, <1>3, <2>1, <2>3 DEF TypeOK, ExecStatus
  <2>5. \E o \in Outcomes : lastResult' = <<[job |-> submitted', outcome |-> o]>>
    BY <1>1, <2>1, <2>2
  <2>6. PollHolds'
    BY <1>2, <1>4, <2>1, <2>5 DEF PollHolds
  <2>7. QED
    BY <1>1, <2>1, <2>4, <2>6 DEF InlineInv, RunHolds, SwapHolds, AnsweredBeforeNextFrame
<1>7. QED
  BY <1>5, <1>6 DEF Submit

\* submit() returns: the result of the newest module is in last_result.
LEMMA ReturnKeeps ==
    ASSUME InlineInv, SubmitReturns
    PROVE  InlineInv'
<1>1. PICK o \in {"ok", "error"} : lastResult' = <<[job |-> submitted, outcome |-> o]>>
  BY DEF SubmitReturns
<1>2. /\ status' = "Completed" /\ loop' = "poll" /\ submitted' = submitted /\ taken' = taken
      /\ submitted \in 1..MaxJobs /\ Len(taken) = submitted - 1
      /\ \A i \in DOMAIN taken : taken[i].job = i
  BY DEF SubmitReturns, InlineInv, RunHolds
<1>3. o \in Outcomes /\ [job |-> submitted, outcome |-> o] \in Result
  BY <1>2 DEF Outcomes, Result
<1>4. hardware' \in BOOLEAN /\ lent' \in BOOLEAN
  BY DEF InlineInv, TypeOK, SubmitReturns
<1>5. TypeOK'
  BY <1>1, <1>2, <1>3, <1>4 DEF InlineInv, TypeOK, ExecStatus
<1>6. PollHolds'
  BY <1>1, <1>2, <1>3 DEF PollHolds
<1>7. QED
  BY <1>2, <1>5, <1>6 DEF InlineInv, RunHolds, SwapHolds, AnsweredBeforeNextFrame

\* The poll after a submission takes exactly that module's result.
LEMMA PollKeeps ==
    ASSUME InlineInv, PollAfterSubmit
    PROVE  /\ InlineInv'
           /\ submitted' = submitted
           /\ Len(taken) < submitted
           /\ \E o \in Outcomes :
                 taken' = Append(taken, [job |-> Len(taken) + 1, outcome |-> o])
<1>1. PICK o \in Outcomes : lastResult = <<[job |-> submitted, outcome |-> o]>>
  BY DEF InlineInv, PollHolds, PollAfterSubmit
<1>2. /\ status = "Completed" /\ submitted \in 1..MaxJobs /\ Len(taken) = submitted - 1
      /\ \A i \in DOMAIN taken : taken[i].job = i
  BY DEF InlineInv, PollHolds, PollAfterSubmit
<1>3. /\ taken' = taken \o lastResult /\ lastResult' = <<>> /\ status' = "Idle"
      /\ hardware' = hardware /\ submitted' = submitted /\ loop' = "read"
  BY <1>2 DEF PollAfterSubmit, PollResult
<1>4. taken \in Seq(Result)
  BY DEF InlineInv, TypeOK
<1>5. /\ taken' \in Seq(Result)
      /\ taken' = Append(taken, [job |-> Len(taken) + 1, outcome |-> o])
      /\ Len(taken') = submitted
      /\ \A i \in DOMAIN taken' : taken'[i].job = i
  BY <1>1, <1>2, <1>3, <1>4, AppendAnswer
<1>6. hardware' \in BOOLEAN /\ lent' \in BOOLEAN
  BY DEF PollAfterSubmit, PollResult, InlineInv, TypeOK
<1>7. TypeOK'
  BY <1>3, <1>5, <1>6 DEF InlineInv, TypeOK, ExecStatus
<1>8. AnsweredBeforeNextFrame'
  BY <1>3, <1>5 DEF AnsweredBeforeNextFrame
<1>9. InlineInv'
  BY <1>3, <1>7, <1>8 DEF InlineInv, RunHolds, PollHolds, SwapHolds
<1>10. Len(taken) < submitted
  BY <1>2, InlineAssumption
<1>11. QED
  BY <1>3, <1>5, <1>9, <1>10

\* Every step of the blocking loop keeps the invariant.
LEMMA InlineStep == InlineInv /\ [Next]_vars => InlineInv'
<1> SUFFICES ASSUME InlineInv, [Next]_vars PROVE InlineInv'
  OBVIOUS
<1>1. CASE Push
  BY <1>1, SubmitKeeps DEF Push
<1>2. CASE HotSwapSubmit
  BY <1>2, SubmitKeeps DEF HotSwapSubmit
<1>3. CASE PollAfterSubmit
  BY <1>3, PollKeeps
<1>4. CASE HotSwap
  <2>1. hardware' \in BOOLEAN /\ lent' \in BOOLEAN
    BY <1>4 DEF HotSwap, Stop, InlineInv, TypeOK
  <2>2. QED
    BY <1>4, <2>1 DEF HotSwap, Stop, InlineInv, TypeOK, ExecStatus, RunHolds, PollHolds, SwapHolds,
       AnsweredBeforeNextFrame
<1>5. CASE HandleStop
  <2>1. hardware' \in BOOLEAN /\ lent' \in BOOLEAN
    BY <1>5 DEF HandleStop, Stop, InlineInv, TypeOK
  <2>2. QED
    BY <1>5, <2>1 DEF HandleStop, Stop, InlineInv, TypeOK, ExecStatus, RunHolds, PollHolds, SwapHolds,
       AnsweredBeforeNextFrame
<1>6. CASE TakeHardware \/ GiveHardware
  <2>1. hardware' \in BOOLEAN /\ lent' \in BOOLEAN
    BY <1>6 DEF TakeHardware, GiveHardware, InlineInv, TypeOK
  <2>2. QED
    BY <1>6, <2>1 DEF TakeHardware, GiveHardware, InlineInv, TypeOK, RunHolds, PollHolds, SwapHolds,
       AnsweredBeforeNextFrame
<1>7. CASE UNCHANGED vars
  <2>1. hardware' \in BOOLEAN /\ lent' \in BOOLEAN
    BY <1>7 DEF vars, InlineInv, TypeOK
  <2>2. QED
    BY <1>7, <2>1 DEF vars, InlineInv, TypeOK, RunHolds, PollHolds, SwapHolds, AnsweredBeforeNextFrame
<1>8. CASE SubmitReturns
  BY <1>8, ReturnKeeps
<1>9. QED
  BY <1>1, <1>2, <1>3, <1>4, <1>5, <1>6, <1>7, <1>8 DEF Next

\* The inductive invariant holds in every state of the executor.
THEOREM InlineInvariant == Spec => []InlineInv
<1>1. Init => InlineInv
  <2> SUFFICES ASSUME Init PROVE InlineInv
    OBVIOUS
  <2>1. TypeOK
    <3>1. hardware \in BOOLEAN /\ lent \in BOOLEAN
      BY DEF Init
    <3>2. QED
      BY <3>1, InlineAssumption DEF Init, TypeOK, ExecStatus
  <2>2. QED
    BY <2>1 DEF Init, InlineInv, RunHolds, PollHolds, SwapHolds, AnsweredBeforeNextFrame
<1>2. QED
  BY <1>1, InlineStep, PTL DEF Spec

\* Between two frames every module the blocking executor was given has been
\* answered, by its own result (executor.rs:109-163 under lib.rs:203-295).
THEOREM BlockingLoopAnswers == Spec => []AnsweredBeforeNextFrame
<1>1. InlineInv => AnsweredBeforeNextFrame
  BY DEF InlineInv
<1>2. QED
  BY <1>1, InlineInvariant, PTL

\* Every step of the blocking loop is one of the contract or none of it: submit
\* accepts, the module runs in it and ends, the poll behind it answers.
LEMMA InlineContractStep ==
    InlineInv /\ InlineInv' /\ [Next]_vars => [Contract!AbsNext]_(Contract!absVars)
<1> SUFFICES ASSUME InlineInv, InlineInv', [Next]_vars
             PROVE  [Contract!AbsNext]_(Contract!absVars)
  OBVIOUS
<1>r. IsRunning <=> loop = "run"
  BY DEF InlineInv, IsRunning
<1>s. IsRunning' <=> loop' = "run"
  BY DEF InlineInv, IsRunning
<1>b. IsRunning \in BOOLEAN /\ IsRunning' \in BOOLEAN
  BY DEF IsRunning
<1>1. CASE Push \/ HotSwapSubmit
  <2>1. submitted' = submitted + 1 /\ taken' = taken /\ ~IsRunning
    BY <1>1, <1>r DEF Push, HotSwapSubmit, Submit, BeginRun, NoHardware
  <2>2. QED
    BY <2>1, <1>b DEF Contract!AbsNext, Contract!AbsSubmit
<1>2. CASE SubmitReturns
  <2>1. submitted' = submitted /\ taken' = taken /\ loop = "run" /\ loop' = "poll"
    BY <1>2 DEF SubmitReturns
  <2>2. IsRunning /\ IsRunning' = FALSE
    BY <2>1, <1>r, <1>s, <1>b
  <2>3. QED
    BY <2>1, <2>2 DEF Contract!AbsNext, Contract!AbsFinish
<1>3. CASE PollAfterSubmit
  <2>1. /\ submitted' = submitted /\ Len(taken) < submitted
        /\ \E o \in Outcomes :
              taken' = Append(taken, [job |-> Len(taken) + 1, outcome |-> o])
    BY <1>3, PollKeeps
  <2>2. \E o \in Contract!Outcomes :
              taken' = Append(taken, [job |-> Len(taken) + 1, outcome |-> o])
    BY <2>1 DEF Outcomes, Contract!Outcomes
  <2>3. loop = "poll" /\ loop' = "read"
    BY <1>3 DEF PollAfterSubmit
  <2>4. IsRunning = FALSE /\ IsRunning' = FALSE
    BY <2>3, <1>r, <1>s, <1>b
  <2>5. QED
    BY <2>1, <2>2, <2>4 DEF Contract!AbsNext, Contract!AbsAnswer
<1>4. CASE HotSwap \/ HandleStop \/ TakeHardware \/ GiveHardware
  <2>1. submitted' = submitted /\ taken' = taken /\ loop # "run" /\ loop' # "run"
    BY <1>4 DEF HotSwap, HandleStop, Stop, TakeHardware, GiveHardware
  <2>2. IsRunning = FALSE /\ IsRunning' = FALSE
    BY <2>1, <1>r, <1>s, <1>b
  <2>3. QED
    BY <2>1, <2>2 DEF Contract!absVars
<1>5. CASE UNCHANGED vars
  BY <1>5 DEF vars, IsRunning, Contract!absVars
<1>6. QED
  BY <1>1, <1>2, <1>3, <1>4, <1>5 DEF Next

\* SingleCoreExecutor, called as main_loop_with_policy calls it, implements
\* the same contract as ThreadedExecutor.
THEOREM InlineImplementsContract == Spec => ImplementsContract
<1>1. Init => Contract!AbsInit
  BY DEF Init, Contract!AbsInit, IsRunning
<1>2. InlineInv /\ InlineInv' /\ [Next]_vars => [Contract!AbsNext]_(Contract!absVars)
  BY InlineContractStep
<1>3. QED
  BY <1>1, <1>2, InlineInvariant, PTL DEF Spec, ImplementsContract, Contract!AbsSpec

-----------------------------------------------------------------------------
(* The module that runs.                                                   *)

Line == [run : Nat, n : Nat]
Access == [run : Nat, owner : Nat, lo : Nat, len : Nat, hi : Nat]

RunType ==
    /\ stage \in {"none", "ready", "start", "run", "dead"}
    /\ memory \in {NoMemory, Run}
    /\ logs \in Seq(Line)
    /\ memSize \in Seq(Nat)
    /\ results \in Seq([ok : BOOLEAN, logs : Seq(Line)])
    /\ said \in Seq(Nat)
    /\ access \in Seq(Access)

\* lines are the messages of run k, numbered, and there are count of them.
Numbered(lines, k, count) ==
    /\ Len(lines) = count
    /\ \A i \in 1..count : lines[i] = [run |-> k, n |-> i]

\* One entry of said per run, one result per run that has ended; while a
\* module runs, the host state's logs are what this run has said, and the logs
\* of a successful result are what its run had said.
LogsInv ==
    /\ Len(said) = Run
    /\ Len(results) <= Run
    /\ stage \in {"start", "run"} => Len(results) + 1 = Run /\ Numbered(logs, Run, said[Run])
    /\ stage \in {"none", "ready"} => Len(results) = Run
    /\ \A k \in DOMAIN results : results[k].ok => Numbered(results[k].logs, k, said[k])

\* An access is to the memory of a run that has begun, so that its size is
\* still what it was.
AccessInv ==
    /\ \A i \in DOMAIN access : access[i].run \in 1..Run
    /\ AccessesInBounds

RunInv == RunType /\ LogsInv /\ AccessInv

\* A panic of the scan, which is no step of the runtime.
ScanPanic == Panic /\ UNCHANGED <<memory, fuel, memSize, results>>

-----------------------------------------------------------------------------

\* Numbered lines are what LogsAreOwn asks of a result.
LEMMA NumberedLogs == RunType /\ LogsInv => LogsAreOwn
  <1> DEFINE Own(k, lines) ==
                /\ \A i \in DOMAIN lines : lines[i].run = k
                /\ \A i, j \in DOMAIN lines : i < j => lines[i].n < lines[j].n
                /\ \A n \in 1..said[k] : \E i \in DOMAIN lines : lines[i].n = n
  <1>1. ASSUME NEW k \in Nat, NEW lines \in Seq(Line), said[k] \in Nat,
               Numbered(lines, k, said[k])
        PROVE  Own(k, lines)
    <2>1. DOMAIN lines = 1..said[k] /\ \A i \in 1..said[k] : lines[i] = [run |-> k, n |-> i]
      BY <1>1 DEF Numbered
    <2>2. ASSUME NEW i \in 1..said[k] PROVE lines[i].run = k /\ lines[i].n = i
      <3>1. lines[i] = [run |-> k, n |-> i]
        BY <2>1
      <3> QED
        BY <1>1, <3>1
    <2> QED
      BY <1>1, <2>1, <2>2
  <1> HIDE DEF Own
  <1>2. ASSUME RunType, LogsInv, NEW k \in DOMAIN results, results[k].ok
        PROVE  Own(k, results[k].logs)
    <2>1. k \in 1..Len(results) /\ Len(results) <= Len(said) /\ said \in Seq(Nat)
      BY <1>2 DEF RunType, LogsInv, Run
    <2>2. said[k] \in Nat
      BY <2>1
    <2>3. results[k] \in [ok : BOOLEAN, logs : Seq(Line)]
      <3>1. results \in Seq([ok : BOOLEAN, logs : Seq(Line)])
        BY <1>2 DEF RunType
      <3> QED
        BY <2>1, <3>1, ElementOfSeq
    <2>4. results[k].logs \in Seq(Line)
      BY <2>3
    <2>5. Numbered(results[k].logs, k, said[k])
      BY <1>2 DEF LogsInv
    <2> QED
      BY <1>1, <2>2, <2>4, <2>5
  <1> QED
    BY <1>2 DEF LogsAreOwn, Own

\* A sum that wraps lies below its first summand: the slice of a wrapped range
\* panics (lib.rs:427), and one that does not is the range asked for.
LEMMA WrapIsCaught ==
    ASSUME NEW M \in Nat \ {0}, NEW a \in 0..M - 1, NEW b \in 0..M - 1,
           a <= (a + b) % M
    PROVE  (a + b) % M = a + b
  OBVIOUS

\* Whichever way its end is computed, a range that can be sliced is the one the
\* guest asked for, and lies in the memory of the run under way.
LEMMA SlicesAreOwn ==
    ASSUME RunType, memory # NoMemory,
           NEW ptr \in Ptrs, NEW len \in Lens,
           NEW hi, hi = EndU32(ptr, len) \/ hi = EndUsize(ptr, len),
           Sliceable(ptr, hi)
    PROVE  /\ Slice(ptr, len, hi) \in Access
           /\ Run \in 1..Len(memSize)
           /\ Slice(ptr, len, hi).run = Run
           /\ Slice(ptr, len, hi).owner = Run
           /\ Slice(ptr, len, hi).hi = Slice(ptr, len, hi).lo + Slice(ptr, len, hi).len
           /\ Slice(ptr, len, hi).hi <= memSize[Run]
  <1>1. ptr \in 0..PtrSpace - 1 /\ len \in 0..PtrSpace - 1 /\ PtrSpace \in Nat \ {0}
    BY RuntimeAssumption
  <1>2. memory = Run /\ Run \in 1..Len(memSize) /\ memSize \in Seq(Nat)
    BY DEF RunType, NoMemory, Run
  <1>3. ptr <= hi /\ hi <= memSize[Run]
    BY <1>2 DEF Sliceable
  <1>4. hi = ptr + len
    BY <1>1, <1>3, WrapIsCaught DEF EndU32, EndUsize
  <1> QED
    BY <1>1, <1>2, <1>3, <1>4 DEF Slice, Access

-----------------------------------------------------------------------------
(* The invariant is inductive.                                             *)

\* Before any module.
LEMMA RunInvInit == RunInit => RunInv
  BY DEF RunInit, RunInv, RunType, LogsInv, AccessInv, Run, NoMemory, Line, Access,
         Numbered, AccessesInBounds

\* A step that changes at most the stage, to "dead", and what the invariant
\* does not speak of.
LEMMA RunInvKept ==
    ASSUME RunInv, stage' \in {stage, "dead"},
           UNCHANGED <<memory, logs, memSize, results, said, access>>
    PROVE  RunInv'
  <1>1. RunType'
    BY DEF RunInv, RunType, Run
  <1>2. LogsInv'
    BY DEF RunInv, LogsInv, Run
  <1>3. AccessInv'
    BY DEF RunInv, AccessInv, AccessesInBounds, Run
  <1> QED
    BY <1>1, <1>2, <1>3 DEF RunInv

\* A step that slices guest memory and changes nothing else but the fuel.
LEMMA RunInvSliced ==
    ASSUME RunInv, UNCHANGED <<stage, memory, logs, memSize, results, said>>,
           access' \in Seq(Access),
           \A i \in DOMAIN access' :
              /\ access'[i].run = Run /\ access'[i].owner = Run
              /\ access'[i].hi = access'[i].lo + access'[i].len
              /\ access'[i].hi <= memSize[Run],
           Run \in 1..Len(memSize)
    PROVE  RunInv'
  <1>1. RunType'
    BY DEF RunInv, RunType, Run
  <1>2. LogsInv'
    BY DEF RunInv, LogsInv, Run
  <1>3. AccessInv'
    BY DEF AccessInv, AccessesInBounds, Run
  <1> QED
    BY <1>1, <1>2, <1>3 DEF RunInv

\* The step of log_msg that logs a line: it goes to the host state's logs and
\* to what the run has said, and to no run that has ended.
LEMMA RunInvLogged ==
    ASSUME RunInv, stage \in {"start", "run"},
           UNCHANGED <<stage, memory, memSize, results>>,
           logs' = Append(logs, [run |-> Run, n |-> said[Run] + 1]),
           said' = [said EXCEPT ![Run] = @ + 1],
           access' \in Seq(Access),
           \A i \in DOMAIN access' :
              /\ access'[i].run = Run /\ access'[i].owner = Run
              /\ access'[i].hi = access'[i].lo + access'[i].len
              /\ access'[i].hi <= memSize[Run],
           Run \in 1..Len(memSize)
    PROVE  RunInv'
  <1> DEFINE line == [run |-> Run, n |-> said[Run] + 1]
  <1>1. said \in Seq(Nat) /\ Len(said) = Run /\ said[Run] \in Nat /\ Run \in Nat
    BY DEF RunInv, RunType, LogsInv, Run
  <1>2. said' \in Seq(Nat) /\ Len(said') = Run /\ said'[Run] = said[Run] + 1
    BY <1>1
  <1>3. line \in Line /\ logs \in Seq(Line) /\ Numbered(logs, Run, said[Run])
    BY <1>1 DEF Line, RunInv, RunType, LogsInv
  <1>4. Numbered(logs', Run, said'[Run]) /\ logs' \in Seq(Line)
    <2>1. Len(logs') = said[Run] + 1 /\ logs' \in Seq(Line)
      BY <1>3 DEF Numbered
    <2>2. ASSUME NEW i \in 1..(said[Run] + 1) PROVE logs'[i] = [run |-> Run, n |-> i]
      <3>1. CASE i = said[Run] + 1
        BY <1>1, <1>3, <3>1 DEF Numbered
      <3>2. CASE i # said[Run] + 1
        <4>1. i \in 1..said[Run] /\ i \in 1..Len(logs)
          BY <1>1, <1>3, <3>2 DEF Numbered
        <4>2. logs'[i] = logs[i]
          BY <1>3, <4>1
        <4> QED
          BY <1>3, <4>1, <4>2 DEF Numbered
      <3> QED
        BY <3>1, <3>2
    <2> QED
      BY <1>2, <2>1, <2>2 DEF Numbered
  <1>5. RunType'
    BY <1>2, <1>4 DEF RunInv, RunType, Run
  <1>6. ASSUME NEW k \in DOMAIN results, results[k].ok
        PROVE  Numbered(results[k].logs, k, said'[k])
    <2>1. k # Run
      BY DEF RunInv, RunType, LogsInv, Run
    <2>2. said'[k] = said[k]
      BY <1>1, <2>1 DEF RunInv, RunType, LogsInv, Run
    <2> QED
      BY <1>6, <2>2 DEF RunInv, LogsInv
  <1>7. LogsInv'
    BY <1>2, <1>4, <1>6 DEF RunInv, LogsInv, Run
  <1>8. AccessInv'
    BY DEF AccessInv, AccessesInBounds, Run
  <1> QED
    BY <1>5, <1>7, <1>8 DEF RunInv

\* The step of uart_write, uart_read and log_msg, up to what they do with the
\* range they have sliced.
LEMMA CheckedKept ==
    ASSUME RunInv, UNCHANGED <<memory, memSize, results>>,
           NEW ptr \in Ptrs, NEW len \in Lens, NEW ACTION Then,
           Checked(ptr, len, Then)
    PROVE  \/ RunInv'
           \/ /\ Then
              /\ access' \in Seq(Access)
              /\ \A i \in DOMAIN access' :
                    /\ access'[i].run = Run /\ access'[i].owner = Run
                    /\ access'[i].hi = access'[i].lo + access'[i].len
                    /\ access'[i].hi <= memSize[Run]
              /\ Run \in 1..Len(memSize)
  <1> DEFINE hi == EndUsize(ptr, len)
  <1>1. CASE NoEffect
    BY <1>1, RunInvKept DEF NoEffect
  <1>2. CASE Panic
    BY <1>2, RunInvKept DEF Panic
  <1>3. CASE memory # NoMemory /\ Sliceable(ptr, hi) /\ access' = <<Slice(ptr, len, hi)>> /\ Then
    <2>1. RunType
      BY DEF RunInv
    <2>2. /\ Slice(ptr, len, hi) \in Access
          /\ Run \in 1..Len(memSize)
          /\ Slice(ptr, len, hi).run = Run
          /\ Slice(ptr, len, hi).owner = Run
          /\ Slice(ptr, len, hi).hi = Slice(ptr, len, hi).lo + Slice(ptr, len, hi).len
          /\ Slice(ptr, len, hi).hi <= memSize[Run]
      BY <1>3, <2>1, SlicesAreOwn
    <2> QED
      BY <1>3, <2>2
  <1> QED
    BY <1>1, <1>2, <1>3 DEF Checked

\* i2c_transfer and spi_transfer, which may slice twice.
LEMMA TransferKept == RunInv /\ Transfer => RunInv'
  <1> SUFFICES ASSUME RunInv, Transfer PROVE RunInv'
    OBVIOUS
  <1>1. UNCHANGED <<memory, memSize, results>> /\ RunType
    BY DEF Transfer, Syscall, RunInv
  <1>2. CASE NoEffect
    BY <1>1, <1>2, RunInvKept DEF NoEffect
  <1>3. CASE Panic
    BY <1>1, <1>3, RunInvKept DEF Panic
  <1>4. ASSUME memory # NoMemory, UNCHANGED <<stage, logs, said>>,
               NEW tx \in Ptrs, NEW rx \in Ptrs, NEW txLen \in Lens, NEW rxLen \in Lens,
               SliceableU32(tx, txLen),
               \/ access' = <<SliceU32(tx, txLen)>>
               \/ /\ SliceableU32(rx, rxLen)
                  /\ access' = <<SliceU32(tx, txLen), SliceU32(rx, rxLen)>>
        PROVE  RunInv'
    <2> DEFINE Own(a) == /\ a \in Access /\ a.run = Run /\ a.owner = Run
                         /\ a.hi = a.lo + a.len /\ a.hi <= memSize[Run]
    <2>1. Run \in 1..Len(memSize) /\ Own(SliceU32(tx, txLen))
      BY <1>1, <1>4, SlicesAreOwn DEF SliceableU32, SliceU32
    <2>2. SliceableU32(rx, rxLen) => Own(SliceU32(rx, rxLen))
      BY <1>1, <1>4, SlicesAreOwn DEF SliceableU32, SliceU32
    <2>3. access' \in Seq(Access) /\ \A i \in DOMAIN access' : Own(access'[i])
      <3> HIDE DEF Own
      <3>1. CASE access' = <<SliceU32(tx, txLen)>>
        BY <2>1, <3>1 DEF Own
      <3>2. CASE SliceableU32(rx, rxLen) /\ access' = <<SliceU32(tx, txLen), SliceU32(rx, rxLen)>>
        BY <2>1, <2>2, <3>2 DEF Own
      <3> QED
        BY <1>4, <3>1, <3>2
    <2> QED
      BY <1>1, <1>4, <2>1, <2>3, RunInvSliced
  <1> QED
    BY <1>1, <1>2, <1>3, <1>4 DEF Transfer, AllocationFails

\* Every step of the runtime keeps the invariant.
LEMMA RunInvStep == RunInv /\ (RunNext \/ ScanPanic \/ UNCHANGED runVars) => RunInv'
  <1> SUFFICES ASSUME RunInv, RunNext \/ ScanPanic \/ UNCHANGED runVars PROVE RunInv'
    OBVIOUS
  <1> USE DEF RunInv
  <1>1. CASE NewRuntime
    BY <1>1 DEF NewRuntime, RunType, LogsInv, AccessInv, AccessesInBounds, Run, NoMemory
  <1>2. CASE IntoHardware
    BY <1>2 DEF IntoHardware, RunType, LogsInv, AccessInv, AccessesInBounds, Run
  <1>3. CASE Execute
    <2> PICK size \in MemSizes : memSize' = Append(memSize, size)
      BY <1>3 DEF Execute
    <2>1. /\ memSize' \in Seq(Nat) /\ Len(memSize') = Run + 1
          /\ \A r \in 1..Run : memSize'[r] = memSize[r]
      BY RuntimeAssumption DEF RunType, Run
    <2>2. /\ said' \in Seq(Nat) /\ Len(said') = Run + 1 /\ said'[Run + 1] = 0
          /\ \A r \in 1..Run : said'[r] = said[r]
      BY <1>3 DEF Execute, RunType, LogsInv, Run
    <2>3. RunType'
      BY <1>3, <2>1, <2>2 DEF Execute, RunType, Run, NoMemory
    <2>4. LogsInv'
      <3>1. Numbered(logs', Run + 1, said'[Run + 1])
        BY <1>3, <2>2 DEF Execute, Numbered
      <3>2. \A k \in DOMAIN results : results[k].ok => Numbered(results[k].logs, k, said'[k])
        <4> SUFFICES ASSUME NEW k \in DOMAIN results, results[k].ok
                     PROVE  Numbered(results[k].logs, k, said'[k])
          OBVIOUS
        <4>1. k \in 1..Run
          BY DEF RunType, LogsInv, Run
        <4>2. said'[k] = said[k]
          BY <2>2, <4>1
        <4>3. Numbered(results[k].logs, k, said[k])
          BY DEF LogsInv
        <4> QED
          BY <4>2, <4>3
      <3> QED
        BY <1>3, <2>1, <2>2, <3>1, <3>2 DEF Execute, RunType, LogsInv, Run
    <2>5. AccessInv'
      BY <1>3, <2>1 DEF Execute, RunType, AccessInv, AccessesInBounds, Run
    <2> QED
      BY <2>3, <2>4, <2>5
  <1>4. CASE CallRunLogic
    BY <1>4 DEF CallRunLogic, RunType, LogsInv, AccessInv, AccessesInBounds, Run
  <1>5. CASE Fail \/ Return
    <2> DEFINE failed == [ok |-> FALSE, logs |-> <<>>]
               returned == [ok |-> TRUE, logs |-> logs]
    <2> PICK r \in {failed, returned} : results' = Append(results, r)
      BY <1>5 DEF Fail, Return, EndWith
    <2>0. r \in [ok : BOOLEAN, logs : Seq(Line)] /\ (r.ok => r.logs = logs)
      <3>1. <<>> \in Seq(Line) /\ logs \in Seq(Line)
        BY DEF RunType
      <3>2. CASE r = failed
        BY <3>1, <3>2
      <3>3. CASE r = returned
        BY <3>1, <3>3
      <3> QED
        BY <3>2, <3>3
    <2> HIDE DEF failed, returned
    <2>1. /\ stage \in {"start", "run"} /\ stage' = "ready"
          /\ UNCHANGED <<memory, logs, memSize, said, access>>
      BY <1>5 DEF Fail, Return, EndWith
    <2>2. /\ results' \in Seq([ok : BOOLEAN, logs : Seq(Line)])
          /\ Len(results') = Len(results) + 1 /\ results'[Len(results) + 1] = r
          /\ \A k \in 1..Len(results) : results'[k] = results[k]
      BY <2>0 DEF RunType
    <2>3. RunType'
      BY <2>1, <2>2 DEF RunType, Run
    <2>4. LogsInv'
      <3>1. /\ Len(results) + 1 = Run /\ Numbered(logs, Run, said[Run]) /\ Len(said) = Run
            /\ \A k \in DOMAIN results : results[k].ok => Numbered(results[k].logs, k, said[k])
        BY <2>1 DEF LogsInv
      <3>2. ASSUME NEW k \in DOMAIN results', results'[k].ok
            PROVE  Numbered(results'[k].logs, k, said[k])
        <4>1. k \in 1..Len(results) \/ k = Run
          BY <2>2, <3>1 DEF RunType
        <4>2. CASE k = Run
          BY <2>0, <2>2, <3>1, <3>2, <4>2
        <4>3. CASE k \in 1..Len(results)
          BY <2>2, <3>1, <3>2, <4>3 DEF RunType
        <4> QED
          BY <4>1, <4>2, <4>3
      <3> QED
        BY <2>1, <2>2, <3>1, <3>2 DEF LogsInv, Run
    <2>5. AccessInv'
      BY <2>1 DEF AccessInv, AccessesInBounds, Run
    <2> QED
      BY <2>3, <2>4, <2>5
  <1>6. CASE GpioSet \/ PwmSet \/ ReadInput \/ Quiet
    <2>1. UNCHANGED <<stage, memory, logs, memSize, results, said, access>>
      BY <1>6 DEF GpioSet, PwmSet, ReadInput, Quiet, Syscall, Deny, NoEffect
    <2> QED
      BY <2>1, RunInvKept
  <1>7. CASE Transfer
    BY <1>7, TransferKept
  <1>8. CASE Uart
    <2>1. UNCHANGED <<memory, memSize, results>>
      BY <1>8 DEF Uart, Syscall
    <2>2. PICK ptr \in Ptrs, len \in Lens :
             \/ Checked(ptr, len, UNCHANGED <<stage, logs, hwVars, said>>)
             \/ AllocationFails(len)
      BY <1>8 DEF Uart
    <2>3. CASE Checked(ptr, len, UNCHANGED <<stage, logs, hwVars, said>>)
      BY <2>1, <2>3, CheckedKept, RunInvSliced
    <2>4. CASE AllocationFails(len)
      BY <2>1, <2>4, RunInvKept DEF AllocationFails, Panic
    <2> QED
      BY <2>2, <2>3, <2>4
  <1>9. CASE LogMsg
    <2>1. UNCHANGED <<memory, memSize, results>> /\ stage \in {"start", "run"}
      BY <1>9 DEF LogMsg, Syscall
    <2>2. PICK ptr \in Ptrs, len \in Lens : Checked(ptr, len, LogLine)
      BY <1>9 DEF LogMsg
    <2> QED
      BY <2>1, <2>2, CheckedKept, RunInvSliced, RunInvLogged DEF LogLine
  <1>10. CASE ScanPanic \/ UNCHANGED runVars
    BY <1>10, RunInvKept DEF ScanPanic, Panic, runVars
  <1> QED
    BY <1>1, <1>2, <1>3, <1>4, <1>5, <1>6, <1>7, <1>8, <1>9, <1>10 DEF RunNext, GuestNext

-----------------------------------------------------------------------------
(* The board.                                                              *)

\* To the runtime, a step of the board is one of its own, a panic of the scan,
\* or nothing.
LEMMA FirmwareSteps ==
    [FirmNext]_firmVars => RunNext \/ ScanPanic \/ UNCHANGED runVars
  <1> USE DEF firmVars
  <1>1. FirmNext => RunNext \/ ScanPanic \/ UNCHANGED runVars
    <2> SUFFICES ASSUME FirmNext PROVE RunNext \/ ScanPanic \/ UNCHANGED runVars
      OBVIOUS
    <2>1. CASE ScanModuleName \/ ScanFieldName \/ ScanKind
      BY <2>1 DEF ScanModuleName, ScanFieldName, ScanKind, MoveTo, ScanPanic
    <2>2. CASE Begin \/ Instantiate \/ Guest \/ Finish \/ LibraryUse
      BY <2>2 DEF Begin, Instantiate, Guest, Finish, LibraryUse, RunNext, GuestNext
    <2>3. CASE \/ Receive \/ SkipSection \/ EnterImports \/ ScanEnds \/ Refuse \/ StopForSwap
               \/ FinishNoHardware \/ Poll \/ Between
      BY <2>3 DEF Receive, SkipSection, EnterImports, ScanEnds, Refuse, StopForSwap,
                  FinishNoHardware, Poll, Between
    <2> QED
      BY <2>1, <2>2, <2>3 DEF FirmNext, HandlerNext
  <1> QED
    BY <1>1

\* The runtime's invariant, of the board and of the library.
LEMMA FirmwareRunInv == FirmSpec => []RunInv
  <1>1. FirmInit => RunInv
    BY RunInvInit DEF FirmInit
  <1>2. RunInv /\ [FirmNext]_firmVars => RunInv'
    BY FirmwareSteps, RunInvStep
  <1> QED
    BY <1>1, <1>2, PTL DEF FirmSpec

\* Every range of guest memory that a syscall of lib.rs touches is the one
\* the guest asked for, in the memory of the module that runs: whatever the
\* width of a pointer and of usize, whatever the guest passes, and although
\* i2c_transfer and spi_transfer compare nothing before they slice.
THEOREM FirmwareAccessesInBounds == FirmSpec => []AccessesInBounds
  <1>1. RunInv => AccessesInBounds
    BY DEF RunInv, AccessInv
  <1> QED
    BY <1>1, FirmwareRunInv, PTL

\* A successful result of execute() carries the messages its own module
\* logged, in order, for any number of modules in one runtime or one after
\* the other on a board.
THEOREM FirmwareLogsAreOwn == FirmSpec => []LogsAreOwn
  <1>1. RunInv => LogsAreOwn
    BY NumberedLogs DEF RunInv
  <1> QED
    BY <1>1, FirmwareRunInv, PTL

\* To the blocking executor, a step of the board is one of its own or nothing.
LEMMA FirmwareIsInline == FirmSpec => Spec
  <1>1. FirmInit => Init
    BY DEF FirmInit
  <1>2. [FirmNext]_firmVars => [Next]_vars
    <2>1. FirmNext => Next \/ UNCHANGED vars
      <3> SUFFICES ASSUME FirmNext PROVE Next \/ UNCHANGED vars
        OBVIOUS
      <3>1. CASE StopForSwap \/ Begin \/ Finish \/ FinishNoHardware \/ Poll \/ Between
        BY <3>1 DEF StopForSwap, Begin, Finish, FinishNoHardware, Poll, Between, Next
      <3>2. CASE \/ SkipSection \/ EnterImports \/ ScanModuleName \/ ScanFieldName
                 \/ ScanKind \/ ScanEnds
        BY <3>2 DEF SkipSection, EnterImports, ScanModuleName, ScanFieldName, ScanKind,
                    ScanEnds, Scanning
      <3>3. CASE Receive \/ Refuse \/ Instantiate \/ Guest \/ LibraryUse
        BY <3>3 DEF Receive, Refuse, Instantiate, Guest, LibraryUse
      <3> QED
        BY <3>1, <3>2, <3>3 DEF FirmNext, HandlerNext
    <2> QED
      BY <2>1 DEF firmVars
  <1> QED
    BY <1>1, <1>2, PTL DEF FirmSpec, Spec

\* So what is proved of the blocking executor holds of the board: no frame is
\* read before the last module's result was polled, and the single result slot
\* (executor.rs:95) loses and repeats nothing, with the runs spelt out ...
THEOREM FirmwareAnswers == FirmSpec => []AnsweredBeforeNextFrame
  BY FirmwareIsInline, BlockingLoopAnswers, PTL

\* ... and the board fulfils the contract of the trait MiloExecutor.
THEOREM FirmwareImplementsContract == FirmSpec => ImplementsContract
  BY FirmwareIsInline, InlineImplementsContract, PTL

\* Where a step of the module's run may take the runtime: a panic is the end.
LEMMA RunKeepsPlace ==
    /\ RunNext => stage # "dead"
    /\ GuestNext => stage \in {"start", "run"} /\ stage' \in {"ready", "start", "run", "dead"}
  <1> USE DEF Syscall
  <1>1. CallRunLogic \/ Fail \/ Return => stage \in {"start", "run"} /\ stage' \in {"ready", "run"}
    BY DEF CallRunLogic, Fail, Return, EndWith
  <1>2. GpioSet \/ PwmSet \/ ReadInput \/ Quiet => stage \in {"start", "run"} /\ stage' = stage
    BY DEF GpioSet, PwmSet, ReadInput, Quiet, NoEffect, Deny
  <1>3. Transfer => stage \in {"start", "run"} /\ stage' \in {stage, "dead"}
    BY DEF Transfer, NoEffect, Panic, AllocationFails
  <1>4. Uart => stage \in {"start", "run"} /\ stage' \in {stage, "dead"}
    BY DEF Uart, Checked, NoEffect, Panic, AllocationFails
  <1>5. LogMsg => stage \in {"start", "run"} /\ stage' \in {stage, "dead"}
    BY DEF LogMsg, Checked, NoEffect, Panic, LogLine
  <1>6. GuestNext => stage \in {"start", "run"} /\ stage' \in {"ready", "start", "run", "dead"}
    <2> SUFFICES ASSUME GuestNext
                 PROVE  stage \in {"start", "run"} /\ stage' \in {"ready", "start", "run", "dead"}
      OBVIOUS
    <2> QED
      BY <1>1, <1>2, <1>3, <1>4, <1>5 DEF GuestNext
  <1> QED
    BY <1>6 DEF RunNext, NewRuntime, IntoHardware, Execute

\* The hardware is in one place: the two steps of submit() (executor.rs:113-142)
\* move it into the runtime and back, around whatever the module does.
THEOREM FirmwareHardwareInOnePlace == FirmSpec => []HardwareInOnePlace
  <1>1. FirmInit => HardwareInOnePlace
    BY DEF FirmInit, Init, RunInit, HardwareInOnePlace, InRuntime
  <1>2. HardwareInOnePlace /\ [FirmNext]_firmVars => HardwareInOnePlace'
    <2> SUFFICES ASSUME HardwareInOnePlace, [FirmNext]_firmVars, setting' # "library", stage' # "dead"
                 PROVE  /\ hardware' \/ lent' \/ InRuntime'
                        /\ ~(hardware' /\ lent') /\ ~(hardware' /\ InRuntime')
                        /\ ~(lent' /\ InRuntime')
      BY DEF HardwareInOnePlace
    <2> DEFINE Here == /\ hardware \/ lent \/ InRuntime
                       /\ ~(hardware /\ lent) /\ ~(hardware /\ InRuntime) /\ ~(lent /\ InRuntime)
    <2>1. setting' = setting
      BY DEF FirmNext, HandlerNext, Receive, Scanning, SkipSection, EnterImports, ScanModuleName,
             ScanFieldName, ScanKind, ScanEnds, Refuse, StopForSwap, Begin, Instantiate, Guest,
             Finish, FinishNoHardware, Poll, Between, LibraryUse, firmVars
    <2>2. stage # "dead" => Here
      BY <2>1 DEF HardwareInOnePlace
    <2>3. CASE UNCHANGED <<hardware, lent>> /\ (InRuntime' <=> InRuntime) /\ stage # "dead"
      BY <2>2, <2>3
    <2>4. CASE Begin
      <3>1. stage = "none" /\ stage' = "ready" /\ hardware
        BY <2>4 DEF Begin, NewRuntime
      <3>2. hardware' = FALSE /\ lent' = lent
        BY <2>4, <3>1 DEF Begin, Push, HotSwapSubmit, Submit, BeginRun, NoHardware
      <3> QED
        BY <2>2, <3>1, <3>2 DEF InRuntime
    <2>5. CASE Finish
      <3>1. stage = "ready" /\ stage' = "none" /\ hardware' = TRUE /\ lent' = lent
        BY <2>5 DEF Finish, IntoHardware, SubmitReturns
      <3> QED
        BY <2>2, <3>1 DEF InRuntime
    <2>6. CASE FinishNoHardware
      <3>1. UNCHANGED <<hardware, lent, stage>>
        BY <2>6 DEF FinishNoHardware, runVars, Push, HotSwapSubmit, Submit, BeginRun, NoHardware
      <3> QED
        BY <2>3, <3>1 DEF InRuntime
    <2>7. CASE Between
      <3>1. stage = "none" /\ stage' = "none" /\ (HandleStop \/ TakeHardware \/ GiveHardware)
        BY <2>7 DEF Between, runVars
      <3> QED
        BY <2>2, <3>1 DEF InRuntime, HandleStop, Stop, TakeHardware, GiveHardware
    <2>8. CASE Instantiate \/ Guest
      <3>1. UNCHANGED <<hardware, lent>>
        BY <2>8 DEF Instantiate, Guest, vars
      <3>2. InRuntime /\ InRuntime'
        BY <2>8, RunKeepsPlace DEF Instantiate, Guest, Execute, GuestNext, InRuntime
      <3> QED
        BY <2>3, <3>1, <3>2 DEF InRuntime
    <2>9. CASE \/ SkipSection \/ EnterImports \/ ScanModuleName \/ ScanFieldName
               \/ ScanKind \/ ScanEnds
      <3>1. UNCHANGED <<hardware, lent, stage>>
        BY <2>9 DEF SkipSection, EnterImports, ScanModuleName, ScanFieldName, ScanKind, ScanEnds,
                    Scanning, MoveTo, Panic, vars, runVars
      <3> QED
        BY <2>3, <3>1 DEF InRuntime
    <2>10. CASE Receive \/ Refuse \/ StopForSwap \/ Poll \/ UNCHANGED firmVars
      <3>1. UNCHANGED <<hardware, lent, stage>>
        BY <2>10 DEF Receive, Refuse, StopForSwap, HotSwap, Stop, Poll, PollAfterSubmit, PollResult,
                     firmVars, vars, runVars
      <3> QED
        BY <2>3, <3>1 DEF InRuntime
    <2>11. CASE LibraryUse
      BY <2>1, <2>11 DEF LibraryUse
    <2> QED
      BY <2>4, <2>5, <2>6, <2>7, <2>8, <2>9, <2>10, <2>11 DEF FirmNext, HandlerNext
  <1> QED
    BY <1>1, <1>2, PTL DEF FirmSpec

-----------------------------------------------------------------------------
(* Sequences and counting.                                                 *)

\* A set of naturals has a least element.
LEMMA LeastElement ==
    ASSUME NEW T, T \subseteq Nat, T # {}
    PROVE  \E n \in T : \A m \in T : n <= m
  <1>1. PICK n \in T : \A m \in T : ~(<<m, n>> \in OpToRel(<, Nat))
    BY WFMin, NatLessThanWellFounded
  <1>2. \A m \in T : ~(m < n)
    BY <1>1 DEF OpToRel
  <1> QED
    BY <1>2

\* g iterates step n times from x0.
Iterates(g, n, S, x0, step) ==
    /\ g \in [0..n -> S]
    /\ g[0] = x0
    /\ \A i \in 1..n : g[i] = step[i][g[i - 1]]

\* A recursion over an initial segment of the naturals has a solution.
LEMMA IterationExists ==
    ASSUME NEW S, NEW x0 \in S, NEW N \in Nat, NEW step \in [1..N -> [S -> S]]
    PROVE  \E g : Iterates(g, N, S, x0, step)
  <1> DEFINE T == {n \in 0..N : ~\E g : Iterates(g, n, S, x0, step)}
  <1>1. SUFFICES ASSUME T # {} PROVE FALSE
    OBVIOUS
  <1>2. PICK m \in T : \A k \in T : m <= k
    <2>1. T \subseteq Nat
      OBVIOUS
    <2> HIDE DEF T
    <2> QED
      BY <1>1, <2>1, LeastElement
  <1>3. m # 0
    <2>1. Iterates([n \in 0..0 |-> x0], 0, S, x0, step)
      BY DEF Iterates
    <2> QED
      BY <2>1
  <1>4. m \in Nat /\ m - 1 \in 0..N /\ m - 1 \notin T /\ m \in 1..N /\ m - 1 \in Nat /\ m - 1 < m
    BY <1>2, <1>3
  <1>5. PICK g : Iterates(g, m - 1, S, x0, step)
    BY <1>4
  <1>6. g[m - 1] \in S /\ step[m] \in [S -> S]
    BY <1>4, <1>5 DEF Iterates
  <1>7. step[m][g[m - 1]] \in S
    BY <1>6
  <1> DEFINE h == [n \in 0..m |-> IF n < m THEN g[n] ELSE step[m][g[m - 1]]]
  <1>8. h \in [0..m -> S]
    <2>1. \A n \in 0..m : n < m => g[n] \in S
      BY <1>4, <1>5 DEF Iterates
    <2> QED
      BY <1>7, <2>1
  <1>9. h[0] = x0
    BY <1>3, <1>4, <1>5 DEF Iterates
  <1>10. ASSUME NEW n \in 1..m PROVE h[n] = step[n][h[n - 1]]
    <2>1. CASE n = m
      <3>1. h[m] = step[m][g[m - 1]] /\ h[m - 1] = g[m - 1]
        BY <1>4
      <3> QED
        BY <2>1, <3>1
    <2>2. CASE n # m
      <3>1. n \in 1..(m - 1) /\ n < m /\ n - 1 < m /\ n - 1 \in 0..m /\ n \in 0..m
        BY <1>4, <2>2
      <3>2. h[n] = g[n] /\ h[n - 1] = g[n - 1]
        BY <3>1
      <3> QED
        BY <1>5, <3>1, <3>2 DEF Iterates
    <2> QED
      BY <2>1, <2>2
  <1> HIDE DEF h
  <1>11. Iterates(h, m, S, x0, step)
    BY <1>8, <1>9, <1>10 DEF Iterates
  <1> QED
    BY <1>2, <1>11

\* What is true of 0 and passed on by each step is true up to N: here, that
\* a set holds every number.
LEMMA UpTo ==
    ASSUME NEW N \in Nat, NEW H, 0 \in H, \A i \in 1..N : i - 1 \in H => i \in H
    PROVE  \A i \in 0..N : i \in H
  <1> DEFINE T == {n \in 0..N : n \notin H}
  <1>1. SUFFICES ASSUME T # {} PROVE FALSE
    OBVIOUS
  <1>2. PICK m \in T : \A k \in T : m <= k
    <2>1. T \subseteq Nat
      OBVIOUS
    <2> HIDE DEF T
    <2> QED
      BY <1>1, <2>1, LeastElement
  <1>3. m # 0
    BY <1>2
  <1>4. m \in 1..N /\ m - 1 \in 0..N /\ m - 1 < m
    BY <1>2, <1>3
  <1>5. m - 1 \notin T
    BY <1>2, <1>4
  <1> QED
    BY <1>2, <1>4, <1>5

-----------------------------------------------------------------------------
(* The recursive definitions.                                              *)

\* Division with remainder by the base.
LEMMA Euclid ==
    ASSUME NEW n \in Nat
    PROVE  /\ n \div More \in Nat /\ n % More \in 0..(More - 1)
           /\ n = (n \div More) * More + (n % More)
  BY ValidationAssumption

\* The digit of a byte.
LEMMA DigitOf ==
    ASSUME NEW d \in 0..(More - 1)
    PROVE  d % More = d /\ (d + More) % More = d
  <1>1. More \in Nat /\ More > 1 /\ d \in Nat /\ d < More
    BY ValidationAssumption
  <1>2. d % More = d
    BY <1>1
  <1>3. (d + More) % More = d
    BY <1>1
  <1> QED
    BY <1>2, <1>3

\* Groups of n are taken off one after the other.
LEMMA RemainingSteps ==
    ASSUME NEW n \in Nat
    PROVE  /\ Remaining(n) \in [0..MaxGroups -> Nat]
           /\ Remaining(n)[0] = n
           /\ \A i \in 1..MaxGroups : Remaining(n)[i] = Remaining(n)[i - 1] \div More
  <1> DEFINE Body(g, i) == IF i = 0 THEN n ELSE g[i - 1] \div More
             Rec(g) == g = [i \in 0..MaxGroups |-> Body(g, i)]
             step == [i \in 1..MaxGroups |-> [x \in Nat |-> x \div More]]
  <1>0. MaxGroups \in Nat
    BY ValidationAssumption
  <1>1. step \in [1..MaxGroups -> [Nat -> Nat]]
    BY Euclid
  <1>2. PICK f : Iterates(f, MaxGroups, Nat, n, step)
    <2> HIDE DEF step
    <2> QED
      BY <1>0, <1>1, IterationExists
  <1>3. f \in [0..MaxGroups -> Nat] /\ f[0] = n /\ \A i \in 1..MaxGroups : f[i] = f[i - 1] \div More
    <2>1. f \in [0..MaxGroups -> Nat] /\ f[0] = n /\ \A i \in 1..MaxGroups : f[i] = step[i][f[i - 1]]
      BY <1>2 DEF Iterates
    <2>2. \A i \in 1..MaxGroups : f[i - 1] \in Nat
      BY <1>0, <2>1
    <2> QED
      BY <2>1, <2>2
  <1>4. Rec(f)
    <2>1. \A i \in 0..MaxGroups : f[i] = Body(f, i)
      BY <1>0, <1>3
    <2> HIDE DEF Body
    <2> QED
      BY <1>3, <2>1
  <1>5. PICK g : Rec(g) /\ Remaining(n) = g
    BY <1>4 DEF Remaining
  <1>d. g = [i \in 0..MaxGroups |-> g[i]]
    <2> HIDE DEF Body
    <2> QED
      BY <1>5
  <1>6. g[0] = n /\ \A i \in 1..MaxGroups : g[i] = g[i - 1] \div More
    <2>1. \A i \in 0..MaxGroups : g[i] = Body(g, i)
      <3> HIDE DEF Body
      <3> QED
        BY <1>5
    <2>2. 0 \in 0..MaxGroups /\ \A i \in 1..MaxGroups : i \in 0..MaxGroups /\ i # 0
      BY <1>0
    <2> QED
      BY <2>1, <2>2
  <1>7. \A i \in 0..MaxGroups : g[i] \in Nat
    <2> DEFINE H == {i \in 0..MaxGroups : g[i] \in Nat}
    <2>1. 0 \in H
      BY <1>0, <1>6
    <2>2. ASSUME NEW i \in 1..MaxGroups, i - 1 \in H PROVE i \in H
      <3>1. g[i - 1] \in Nat /\ i \in 0..MaxGroups
        BY <1>0, <2>2
      <3>2. g[i] = g[i - 1] \div More
        BY <1>6
      <3> QED
        BY <3>1, <3>2, Euclid
    <2> HIDE DEF H
    <2>3. \A i \in 0..MaxGroups : i \in H
      BY <1>0, <2>1, <2>2, UpTo
    <2> QED
      BY <2>3 DEF H
  <1> QED
    BY <1>5, <1>6, <1>7, <1>d

\* v are the values of the first digits of d.
Values(v, d, N) ==
    /\ v \in [0..N -> Nat] /\ v[0] = 0 /\ Number(d) = v[N]
    /\ \A i \in 1..N : v[i] = v[i - 1] * More + d[i]

\* The value of digits, one after the other.
LEMMA NumberSteps ==
    ASSUME NEW N \in Nat, NEW d \in Seq(Nat), Len(d) = N
    PROVE  \E v : Values(v, d, N)
  <1> DEFINE Body(g, i) == IF i = 0 THEN 0 ELSE g[i - 1] * More + d[i]
             Rec(g) == g = [i \in 0..Len(d) |-> Body(g, i)]
             step == [i \in 1..N |-> [x \in Nat |-> x * More + d[i]]]
  <1>0. More \in Nat /\ \A i \in 1..N : d[i] \in Nat
    BY ElementOfSeq, ValidationAssumption
  <1>1. step \in [1..N -> [Nat -> Nat]]
    <2>1. \A i \in 1..N : \A x \in Nat : x * More + d[i] \in Nat
      BY <1>0
    <2> QED
      BY <2>1
  <1>2. PICK f : Iterates(f, N, Nat, 0, step)
    <2> HIDE DEF step
    <2> QED
      BY <1>1, IterationExists
  <1>3. f \in [0..N -> Nat] /\ f[0] = 0 /\ \A i \in 1..N : f[i] = f[i - 1] * More + d[i]
    <2>1. f \in [0..N -> Nat] /\ f[0] = 0 /\ \A i \in 1..N : f[i] = step[i][f[i - 1]]
      BY <1>2 DEF Iterates
    <2>2. \A i \in 1..N : f[i - 1] \in Nat
      BY <2>1
    <2> QED
      BY <2>1, <2>2
  <1>4. Rec(f)
    <2>1. \A i \in 0..N : f[i] = Body(f, i)
      BY <1>3
    <2> HIDE DEF Body
    <2> QED
      BY <1>3, <2>1
  <1>5. PICK g : Rec(g) /\ Number(d) = g[Len(d)]
    BY <1>4 DEF Number
  <1>d. g = [i \in 0..N |-> g[i]]
    <2> HIDE DEF Body
    <2> QED
      BY <1>5
  <1>6. g[0] = 0 /\ \A i \in 1..N : g[i] = g[i - 1] * More + d[i]
    <2>1. \A i \in 0..N : g[i] = Body(g, i)
      <3> HIDE DEF Body
      <3> QED
        BY <1>5
    <2>2. 0 \in 0..N /\ \A i \in 1..N : i \in 0..N /\ i # 0
      OBVIOUS
    <2> QED
      BY <2>1, <2>2
  <1>7. \A i \in 0..N : g[i] \in Nat
    <2> DEFINE H == {i \in 0..N : g[i] \in Nat}
    <2>1. 0 \in H
      BY <1>6
    <2>2. ASSUME NEW i \in 1..N, i - 1 \in H PROVE i \in H
      <3>0. i \in 0..N /\ g[i - 1] \in Nat
        BY <2>2
      <3>1. d[i] \in Nat /\ g[i] = g[i - 1] * More + d[i]
        BY <1>0, <1>6
      <3>2. \A x, y \in Nat : x * More + y \in Nat
        BY <1>0
      <3> QED
        BY <3>0, <3>1, <3>2
    <2> HIDE DEF H
    <2>3. \A i \in 0..N : i \in H
      BY <2>1, <2>2, UpTo
    <2> QED
      BY <2>3 DEF H
  <1>8. g \in [0..N -> Nat]
    BY <1>7, <1>d
  <1>9. Values(g, d, N)
    BY <1>5, <1>6, <1>8 DEF Values
  <1> QED
    BY <1>9

-----------------------------------------------------------------------------
(* Bytes at a position.                                                    *)

\* Where b goes on from position p, it goes on with s, as far as it reaches.
At(b, p, s) == \A i \in 1..Len(s) : p + i <= Len(b) => b[p + i] = s[i]

\* s is the beginning of t.
Begins(s, t) == Len(s) <= Len(t) /\ \A i \in 1..Len(s) : s[i] = t[i]

\* What follows a position, part by part.
LEMMA AtConcat ==
    ASSUME NEW b, NEW p \in Nat, NEW s \in Seq(Nat), NEW t \in Seq(Nat), At(b, p, s \o t)
    PROVE  At(b, p, s) /\ At(b, p + Len(s), t)
  <1>1. Len(s) \in Nat /\ Len(t) \in Nat
    BY LenProperties
  <1>2. PICK z : z = s \o t
    OBVIOUS
  <1>3. Len(z) = Len(s) + Len(t)
        /\ \A i \in 1..(Len(s) + Len(t)) : z[i] = IF i <= Len(s) THEN s[i] ELSE t[i - Len(s)]
    BY <1>2, ConcatProperties
  <1>4. \A i \in 1..Len(z) : p + i <= Len(b) => b[p + i] = z[i]
    BY <1>2 DEF At
  <1>5. ASSUME NEW i \in 1..Len(s), p + i <= Len(b) PROVE b[p + i] = s[i]
    <2>1. i \in 1..(Len(s) + Len(t)) /\ i <= Len(s)
      BY <1>1
    <2> QED
      BY <1>3, <1>4, <1>5, <2>1
  <1>6. ASSUME NEW i \in 1..Len(t), (p + Len(s)) + i <= Len(b) PROVE b[(p + Len(s)) + i] = t[i]
    <2>1. Len(s) + i \in 1..(Len(s) + Len(t)) /\ ~(Len(s) + i <= Len(s)) /\ (Len(s) + i) - Len(s) = i
      BY <1>1
    <2>2. p + (Len(s) + i) = (p + Len(s)) + i
      BY <1>1
    <2>3. z[Len(s) + i] = t[i]
      BY <1>3, <2>1
    <2> QED
      BY <1>3, <1>4, <1>6, <2>1, <2>2, <2>3
  <1> QED
    BY <1>5, <1>6 DEF At

\* A byte at a position.
LEMMA AtByte ==
    ASSUME NEW b, NEW p \in Nat, NEW x, At(b, p, <<x>>), p < Len(b), Len(b) \in Nat
    PROVE  b[p + 1] = x
  <1>1. Len(<<x>>) = 1 /\ <<x>>[1] = x /\ 1 \in 1..1
    OBVIOUS
  <1>2. p + 1 <= Len(b)
    OBVIOUS
  <1> QED
    BY <1>1, <1>2 DEF At

\* A position that is followed by t is followed by the beginning of t.
LEMMA AtBegins ==
    ASSUME NEW b, NEW p, NEW s \in Seq(Nat), NEW t \in Seq(Nat), Begins(s, t), At(b, p, t)
    PROVE  At(b, p, s)
  <1>1. Len(s) \in Nat /\ Len(t) \in Nat
    BY LenProperties
  <1>2. \A i \in 1..Len(s) : i \in 1..Len(t)
    BY <1>1 DEF Begins
  <1> QED
    BY <1>2 DEF At, Begins

\* Each of a row of sequences that begins the next one begins all later ones.
LEMMA Chain ==
    ASSUME NEW S, NEW N \in Nat, NEW g \in [0..N -> Seq(S)],
           \A i \in 1..N : Begins(g[i - 1], g[i]),
           NEW k \in 0..N
    PROVE  Begins(g[k], g[N])
  <1> DEFINE H == {j \in 0..N : k <= j => Begins(g[k], g[j])}
  <1>1. \A s : Len(s) \in Nat => Begins(s, s)
    BY DEF Begins
  <1>l. \A j \in 0..N : Len(g[j]) \in Nat
    BY LenProperties
  <1>2. 0 \in H
    BY <1>1, <1>l
  <1>3. ASSUME NEW i \in 1..N, i - 1 \in H PROVE i \in H
    <2>1. i \in 0..N /\ i - 1 \in 0..N
      OBVIOUS
    <2>2. ASSUME k <= i PROVE Begins(g[k], g[i])
      <3>1. CASE k = i
        BY <1>1, <1>l, <3>1
      <3>2. CASE k # i
        <4>1. k <= i - 1
          BY <2>2, <3>2
        <4>2. Begins(g[k], g[i - 1])
          BY <1>3, <4>1
        <4>3. Begins(g[i - 1], g[i])
          OBVIOUS
        <4>4. PICK x, y, z : x = g[k] /\ y = g[i - 1] /\ z = g[i]
          OBVIOUS
        <4>5. Len(x) \in Nat /\ Len(y) \in Nat /\ Len(z) \in Nat
          BY <1>l, <2>1, <4>4
        <4>6. Begins(x, z)
          BY <4>2, <4>3, <4>4, <4>5 DEF Begins
        <4> QED
          BY <4>4, <4>6
      <3> QED
        BY <3>1, <3>2
    <2> QED
      BY <2>1, <2>2
  <1> HIDE DEF H
  <1>4. \A i \in 0..N : i \in H
    BY <1>2, <1>3, UpTo
  <1> QED
    BY <1>4 DEF H

-----------------------------------------------------------------------------
(* LEB128.                                                                 *)

\* The bytes of an encoded number.
LEMMA LebBytes ==
    ASSUME NEW n \in Nat, NEW k \in 1..MaxGroups
    PROVE  /\ EncodeLeb(n, k) \in Seq(Nat) /\ Len(EncodeLeb(n, k)) = k
           /\ \A i \in 1..k : EncodeLeb(n, k)[i] =
                 (Remaining(n)[i - 1] % More) + (IF i < k THEN More ELSE 0)
           /\ \A i \in 1..k : Remaining(n)[i - 1] % More \in 0..(More - 1)
  <1> DEFINE R == Remaining(n)
             e == EncodeLeb(n, k)
  <1>0. k \in Nat /\ k <= MaxGroups /\ MaxGroups \in Nat /\ More \in Nat
    BY ValidationAssumption
  <1>1. \A i \in 1..k : R[i - 1] \in Nat
    <2>1. \A i \in 1..k : i - 1 \in 0..MaxGroups
      BY <1>0
    <2>2. R \in [0..MaxGroups -> Nat]
      BY RemainingSteps
    <2> HIDE DEF R
    <2> QED
      BY <2>1, <2>2
  <1>2. \A i \in 1..k : R[i - 1] % More \in 0..(More - 1)
    BY <1>1, Euclid
  <1>3. \A i \in 1..k : (R[i - 1] % More) + (IF i < k THEN More ELSE 0) \in Nat
    <2> HIDE DEF R
    <2>1. \A x \in 0..(More - 1) : x + More \in Nat /\ x + 0 \in Nat
      BY <1>0
    <2> QED
      BY <1>2, <2>1
  <1>4. e = [i \in 1..k |-> (R[i - 1] % More) + (IF i < k THEN More ELSE 0)]
    BY DEF EncodeLeb
  <1>5. e \in [1..k -> Nat] /\ \A i \in 1..k : e[i] = (R[i - 1] % More) + (IF i < k THEN More ELSE 0)
    <2> HIDE DEF e, R
    <2> QED
      BY <1>3, <1>4
  <1>6. e \in Seq(Nat) /\ Len(e) = k
    <2> HIDE DEF e
    <2> QED
      BY <1>0, <1>5
  <1> QED
    BY <1>2, <1>5, <1>6

\* A u32 has a shortest encoding.
LEMMA LebSizeFits ==
    ASSUME NEW n \in 0..(U32 - 1)
    PROVE  LebSize(n) \in 1..MaxGroups /\ Remaining(n)[LebSize(n)] = 0
  <1> DEFINE T == {k \in 1..MaxGroups : Remaining(n)[k] = 0}
  <1>1. MaxGroups \in T
    BY ValidationAssumption
  <1>2. \E k \in T : \A j \in T : k <= j
    <2>1. T \subseteq Nat /\ T # {}
      BY <1>1, ValidationAssumption
    <2> HIDE DEF T
    <2> QED
      BY <2>1, LeastElement
  <1>3. LebSize(n) \in T
    <2>1. LebSize(n) = Min(T)
      BY DEF LebSize
    <2> HIDE DEF T
    <2> QED
      BY <1>2, <2>1 DEF Min
  <1> QED
    BY <1>3

\* How far a number is read: to the first place where reading stops.
LEMMA LebLenIs ==
    ASSUME NEW b, Len(b) \in Nat, NEW p \in Nat, NEW k \in 0..MaxGroups,
           p + k >= Len(b) \/ k = MaxGroups \/ (k > 0 /\ b[p + k] < More),
           \A j \in 0..(k - 1) :
              ~(p + j >= Len(b) \/ j = MaxGroups \/ (j > 0 /\ b[p + j] < More))
    PROVE  LebLen(b, p) = k
  <1> DEFINE T == {n \in 0..MaxGroups : p + n >= Len(b) \/ n = MaxGroups
                                          \/ (n > 0 /\ b[p + n] < More)}
  <1>0. MaxGroups \in Nat
    BY ValidationAssumption
  <1>1. k \in T /\ T \subseteq Nat
    BY <1>0
  <1>2. \A j \in T : k <= j
    BY <1>0
  <1>3. LebLen(b, p) = Min(T)
    BY DEF LebLen
  <1> HIDE DEF T
  <1>4. Min(T) \in T /\ Min(T) <= k
    BY <1>1, <1>2 DEF Min
  <1>5. Min(T) \in Nat /\ k <= Min(T) /\ k \in Nat
    BY <1>0, <1>1, <1>2, <1>4
  <1>6. \A x, y \in Nat : x <= y /\ y <= x => x = y
    OBVIOUS
  <1> QED
    BY <1>3, <1>4, <1>5, <1>6

\* What is read of a number, whatever the bytes: at most MaxGroups of them,
\* none past the end.
LEMMA LebRange ==
    ASSUME NEW b \in Seq(Nat), NEW p \in Nat
    PROVE  /\ LebLen(b, p) \in 0..MaxGroups
           /\ p <= Len(b) => p + LebLen(b, p) <= Len(b)
           /\ Leb(b, p) \in Nat
           /\ p >= Len(b) => LebLen(b, p) = 0
  <1> DEFINE T == {n \in 0..MaxGroups : p + n >= Len(b) \/ n = MaxGroups
                                          \/ (n > 0 /\ b[p + n] < More)}
  <1>0. MaxGroups \in Nat /\ More \in Nat /\ More > 1 /\ U32 \in Nat /\ U32 > 2 /\ Len(b) \in Nat
    BY ValidationAssumption, LenProperties
  <1>1. MaxGroups \in T /\ T \subseteq Nat
    BY <1>0
  <1>2. LebLen(b, p) = Min(T)
    BY DEF LebLen
  <1>3. \E k \in T : \A j \in T : k <= j
    <2> HIDE DEF T
    <2> QED
      BY <1>1, LeastElement
  <1>4. LebLen(b, p) \in T /\ \A j \in T : LebLen(b, p) <= j
    <2> HIDE DEF T
    <2> QED
      BY <1>2, <1>3 DEF Min
  <1>5. LebLen(b, p) \in 0..MaxGroups
    BY <1>4
  <1>6. ASSUME p <= Len(b) PROVE p + LebLen(b, p) <= Len(b)
    <2>1. CASE Len(b) - p <= MaxGroups
      <3>1. Len(b) - p \in T
        BY <1>0, <1>6, <2>1
      <3>2. LebLen(b, p) <= Len(b) - p
        BY <1>4, <3>1
      <3> HIDE DEF T
      <3> QED
        BY <1>0, <1>5, <3>2
    <2>2. CASE ~(Len(b) - p <= MaxGroups)
      <3> HIDE DEF T
      <3> QED
        BY <1>0, <1>5, <1>6, <2>2
    <2> QED
      BY <2>1, <2>2
  <1>7. ASSUME p >= Len(b) PROVE LebLen(b, p) = 0
    <2>1. 0 \in T
      BY <1>0, <1>7
    <2>2. LebLen(b, p) <= 0
      BY <1>4, <2>1
    <2> HIDE DEF T
    <2> QED
      BY <1>0, <1>5, <2>2
  <1> HIDE DEF T
  <1>8. Leb(b, p) \in Nat
    <2> DEFINE n == LebLen(b, p)
               d == [i \in 1..n |-> b[p + n + 1 - i] % More]
    <2>1. n \in Nat
      BY <1>0, <1>5
    <2>2. \A i \in 1..n : b[p + n + 1 - i] % More \in Nat
      <3>1. SUFFICES ASSUME NEW i \in 1..n PROVE b[p + n + 1 - i] % More \in Nat
        OBVIOUS
      <3>2. p < Len(b)
        BY <1>0, <1>7, <2>1
      <3>3. p + n <= Len(b)
        BY <1>0, <1>6, <3>2
      <3> HIDE DEF n
      <3>4. p + n + 1 - i \in 1..Len(b)
        BY <1>0, <2>1, <3>3
      <3>5. b[p + n + 1 - i] \in Nat
        BY <3>4, ElementOfSeq
      <3>6. \A x \in Nat : x % More \in Nat
        BY <1>0
      <3> QED
        BY <3>5, <3>6
    <2>3. d \in Seq(Nat) /\ Len(d) = n
      <3> HIDE DEF n
      <3> QED
        BY <2>1, <2>2
    <2>4. Number(d) \in Nat
      <3> HIDE DEF d, n
      <3>1. PICK v : Values(v, d, n)
        BY <2>1, <2>3, NumberSteps
      <3> QED
        BY <2>1, <3>1 DEF Values
    <2>5. Leb(b, p) = Number(d) % U32
      BY DEF Leb
    <2> HIDE DEF d
    <2> QED
      BY <1>0, <2>4, <2>5
  <1> QED
    BY <1>5, <1>6, <1>7, <1>8

\* A number smaller than the modulus.
LEMMA SmallMod ==
    ASSUME NEW n \in Nat, NEW m \in Nat, n < m
    PROVE  n % m = n /\ n \div m = 0
  OBVIOUS

\* A number is read as it was written; of one that is cut off, all there is.
LEMMA LebAt ==
    ASSUME NEW b \in Seq(Nat), NEW p \in Nat, p <= Len(b),
           NEW n \in 0..(U32 - 1), NEW k \in 1..MaxGroups, Remaining(n)[k] = 0,
           At(b, p, EncodeLeb(n, k))
    PROVE  /\ p + k <= Len(b) => AfterLeb(b, p) = p + k /\ Leb(b, p) = n
           /\ p + k > Len(b) => AfterLeb(b, p) = Len(b)
  <1> DEFINE R == Remaining(n)
  <1>0. /\ MaxGroups \in Nat /\ More \in Nat /\ More > 1 /\ U32 \in Nat /\ U32 > 2 /\ Len(b) \in Nat
        /\ n \in Nat /\ n < U32 /\ k \in Nat /\ 1 <= k /\ k <= MaxGroups
    BY ValidationAssumption, LenProperties
  <1>1. R \in [0..MaxGroups -> Nat] /\ R[0] = n /\ R[k] = 0
        /\ \A i \in 1..MaxGroups : R[i] = R[i - 1] \div More
    BY <1>0, RemainingSteps
  <1>2. \A i \in 1..k : p + i <= Len(b) => b[p + i] = (R[i - 1] % More) + (IF i < k THEN More ELSE 0)
    <2> DEFINE e == EncodeLeb(n, k)
    <2>1. n \in Nat
      BY <1>0
    <2>2. Len(e) = k /\ \A i \in 1..k : e[i] = (R[i - 1] % More) + (IF i < k THEN More ELSE 0)
      BY <2>1, LebBytes
    <2>3. \A i \in 1..Len(e) : p + i <= Len(b) => b[p + i] = e[i]
      BY Zenon DEF At
    <2> HIDE DEF e, R
    <2> QED
      BY <2>2, <2>3, ZenonT(40)
  <1>3. \A i \in 1..k : R[i - 1] % More \in 0..(More - 1)
    BY <1>0, LebBytes
  <1> HIDE DEF R
  <1>4. \A i \in 1..k : p + i <= Len(b) /\ i < k => ~(b[p + i] < More)
    <2>1. SUFFICES ASSUME NEW i \in 1..k, p + i <= Len(b), i < k PROVE ~(b[p + i] < More)
      OBVIOUS
    <2>2. b[p + i] = (R[i - 1] % More) + More /\ R[i - 1] % More \in 0..(More - 1)
      BY <1>2, <1>3, <2>1
    <2>3. \A x \in 0..(More - 1) : ~(x + More < More)
      BY <1>0
    <2> QED
      BY <2>2, <2>3
  <1>5. ASSUME p + k <= Len(b) PROVE AfterLeb(b, p) = p + k /\ Leb(b, p) = n
    <2>1. b[p + k] < More
      <3>1. k \in 1..k /\ ~(k < k)
        BY <1>0
      <3>2. b[p + k] = (R[k - 1] % More) + 0 /\ R[k - 1] % More \in 0..(More - 1)
        BY <1>2, <1>3, <1>5, <3>1
      <3>3. \A x \in 0..(More - 1) : x + 0 < More
        BY <1>0
      <3> QED
        BY <3>2, <3>3
    <2>2. LebLen(b, p) = k
      <3>1. \A j \in 0..(k - 1) : ~(p + j >= Len(b)) /\ ~(j = MaxGroups)
        BY <1>0, <1>5
      <3>2. ASSUME NEW j \in 0..(k - 1), j > 0 PROVE ~(b[p + j] < More)
        <4>1. j \in 1..k /\ p + j <= Len(b) /\ j < k
          BY <1>0, <1>5, <3>2
        <4> QED
          BY <1>4, <4>1, Zenon
      <3>3. k \in 0..MaxGroups /\ k > 0
        BY <1>0
      <3> QED
        BY <1>0, <2>1, <3>1, <3>2, <3>3, LebLenIs
    <2> DEFINE d == [i \in 1..k |-> b[p + k + 1 - i] % More]
    <2>3. \A i \in 1..k : k - i \in 0..MaxGroups /\ d[i] = R[k - i] % More
      <3>1. SUFFICES ASSUME NEW i \in 1..k PROVE k - i \in 0..MaxGroups /\ d[i] = R[k - i] % More
        OBVIOUS
      <3>2. k + 1 - i \in 1..k /\ p + (k + 1 - i) = p + k + 1 - i /\ p + (k + 1 - i) <= Len(b)
            /\ (k + 1 - i) - 1 = k - i /\ k - i \in 0..MaxGroups
        BY <1>0, <1>5
      <3>3. b[p + k + 1 - i] = (R[k - i] % More) + (IF k + 1 - i < k THEN More ELSE 0)
            /\ R[k - i] % More \in 0..(More - 1)
        BY <1>2, <1>3, <3>2
      <3>4. \A x \in 0..(More - 1) : (x + More) % More = x /\ (x + 0) % More = x
        <4>1. \A x \in 0..(More - 1) : x + 0 = x
          BY <1>0
        <4> QED
          BY <4>1, DigitOf, Zenon
      <3>5. b[p + k + 1 - i] % More = R[k - i] % More
        BY <3>3, <3>4
      <3> QED
        BY <3>2, <3>5
    <2>4. d \in Seq(Nat) /\ Len(d) = k
      <3>1. \A i \in 1..k : R[k - i] % More \in Nat
        <4>1. \A i \in 1..k : R[k - i] \in Nat
          BY <1>1, <2>3
        <4>2. \A x \in Nat : x % More \in Nat
          BY <1>0
        <4> QED
          BY <4>1, <4>2
      <3>2. d \in [1..k -> Nat]
        BY <2>3, <3>1
      <3> HIDE DEF d
      <3> QED
        BY <1>0, <3>2
    <2>5. Leb(b, p) = Number(d) % U32
      BY <2>2 DEF Leb
    <2> HIDE DEF d
    <2>v. PICK v : Values(v, d, k)
      BY <1>0, <2>4, NumberSteps, Zenon
    <2>6. v[0] = 0 /\ Number(d) = v[k] /\ \A i \in 1..k : v[i] = v[i - 1] * More + d[i]
      BY <2>v DEF Values
    <2>7. \A i \in 0..k : v[i] = R[k - i]
      <3> DEFINE H == {i \in 0..k : v[i] = R[k - i]}
      <3>1. 0 \in H
        BY <1>0, <1>1, <2>6
      <3>2. ASSUME NEW i \in 1..k, i - 1 \in H PROVE i \in H
        <4>1. k - (i - 1) = (k - i) + 1 /\ (k - i) + 1 \in 1..MaxGroups /\ ((k - i) + 1) - 1 = k - i
              /\ k - i \in 0..MaxGroups /\ i \in 0..k
          BY <1>0
        <4>2. v[i - 1] = R[(k - i) + 1] /\ R[(k - i) + 1] = R[k - i] \div More
          BY <1>1, <3>2, <4>1
        <4>3. v[i] = (R[k - i] \div More) * More + (R[k - i] % More)
          BY <2>3, <2>6, <4>2
        <4>4. R[k - i] \in Nat
          BY <1>1, <4>1
        <4> QED
          BY <4>1, <4>3, <4>4, Euclid
      <3> HIDE DEF H
      <3>3. \A i \in 0..k : i \in H
        BY <1>0, <3>1, <3>2, UpTo
      <3> QED
        BY <3>3 DEF H
    <2>8. Number(d) = n
      BY <1>0, <1>1, <2>6, <2>7, SMTT(20)
    <2>9. n % U32 = n
      BY <1>0, SmallMod, Zenon
    <2> QED
      BY <1>0, <2>2, <2>5, <2>8, <2>9 DEF AfterLeb
  <1>6. ASSUME p + k > Len(b) PROVE AfterLeb(b, p) = Len(b)
    <2>1. Len(b) - p \in 0..MaxGroups /\ p + (Len(b) - p) = Len(b) /\ Len(b) - p < k
      BY <1>0, <1>6
    <2>2. \A j \in 0..((Len(b) - p) - 1) : ~(p + j >= Len(b)) /\ ~(j = MaxGroups)
      BY <1>0, <2>1
    <2>3. ASSUME NEW j \in 0..((Len(b) - p) - 1), j > 0 PROVE ~(b[p + j] < More)
      <3>1. j \in 1..k /\ p + j <= Len(b) /\ j < k
        BY <1>0, <2>1, <2>3
      <3> QED
        BY <1>4, <3>1, Zenon
    <2>4. LebLen(b, p) = Len(b) - p
      <3>1. p + (Len(b) - p) >= Len(b)
        BY <1>0, <2>1
      <3> QED
        BY <1>0, <2>1, <2>2, <2>3, <3>1, LebLenIs
    <2> QED
      BY <2>1, <2>4 DEF AfterLeb
  <1> QED
    BY <1>5, <1>6

\* A byte that is its own number.
LEMMA SmallByte ==
    ASSUME NEW x \in {0, 1}
    PROVE  <<x>> = EncodeLeb(x, 1) /\ Remaining(x)[1] = 0 /\ x \in 0..(U32 - 1) /\ 1 \in 1..MaxGroups
  <1>0. MaxGroups \in Nat /\ 1 \in 1..MaxGroups /\ More \in Nat /\ More > 1 /\ U32 \in Nat /\ U32 > 2
        /\ x \in Nat /\ x < More /\ x \in 0..(U32 - 1)
    BY ValidationAssumption
  <1>1. Remaining(x)[0] = x /\ Remaining(x)[1] = x \div More
    <2>1. 1 - 1 = 0
      OBVIOUS
    <2>2. Remaining(x)[0] = x /\ Remaining(x)[1] = Remaining(x)[1 - 1] \div More
      BY <1>0, RemainingSteps, Zenon
    <2> QED
      BY <2>1, <2>2
  <1>2. x \div More = 0 /\ x % More = x
    BY <1>0, SmallMod, Zenon
  <1>3. EncodeLeb(x, 1) = <<x>>
    <2>1. EncodeLeb(x, 1) \in Seq(Nat) /\ Len(EncodeLeb(x, 1)) = 1
      BY <1>0, LebBytes
    <2>2. EncodeLeb(x, 1)[1] = (Remaining(x)[1 - 1] % More) + 0
      BY <1>0, LebBytes
    <2>3. EncodeLeb(x, 1)[1] = x
      BY <1>0, <1>1, <1>2, <2>2
    <2>4. PICK e \in Seq(Nat) : e = EncodeLeb(x, 1) /\ Len(e) = 1 /\ e[1] = x
      BY <2>1, <2>3
    <2>5. e = <<x>>
      BY <2>4
    <2> QED
      BY <2>4, <2>5
  <1> QED
    BY <1>0, <1>1, <1>2, <1>3

-----------------------------------------------------------------------------
(* Reading what was written.                                               *)

\* Reading s at p leads to q: to the end of s, or past the end of the bytes
\* where they do not reach as far.
Reads(b, p, s, q) ==
    /\ q \in Nat
    /\ IF p + Len(s) <= Len(b) THEN q = p + Len(s) ELSE q >= Len(b)

\* What is read after something read.
LEMMA ReadsThen ==
    ASSUME NEW b, Len(b) \in Nat, NEW p \in Nat, NEW s \in Seq(Nat), NEW t \in Seq(Nat),
           NEW q, NEW r \in Nat,
           Reads(b, p, s, q),
           p + Len(s) <= Len(b) => Reads(b, p + Len(s), t, r),
           q >= Len(b) => r >= Len(b)
    PROVE  Reads(b, p, s \o t, r)
  <1>1. Len(s) \in Nat /\ Len(t) \in Nat
    BY LenProperties
  <1>2. Len(s \o t) = Len(s) + Len(t)
    BY ConcatProperties
  <1>3. CASE p + Len(s) <= Len(b)
    <2>1. IF (p + Len(s)) + Len(t) <= Len(b) THEN r = (p + Len(s)) + Len(t) ELSE r >= Len(b)
      BY <1>3 DEF Reads
    <2>2. (p + Len(s)) + Len(t) = p + (Len(s) + Len(t))
      BY <1>1
    <2> QED
      BY <1>2, <2>1, <2>2 DEF Reads
  <1>4. CASE ~(p + Len(s) <= Len(b))
    <2>1. q >= Len(b)
      BY <1>4 DEF Reads
    <2>2. r >= Len(b)
      BY <2>1
    <2>3. ~(p + (Len(s) + Len(t)) <= Len(b))
      BY <1>1, <1>4
    <2> QED
      BY <1>2, <2>2, <2>3 DEF Reads
  <1> QED
    BY <1>3, <1>4

\* A position stays one, and one past the end stays past it.
LEMMA AfterLebPast ==
    ASSUME NEW b \in Seq(Nat), NEW p \in Nat
    PROVE  AfterLeb(b, p) \in Nat /\ (p >= Len(b) => AfterLeb(b, p) >= Len(b))
  <1>1. LebLen(b, p) \in Nat /\ Len(b) \in Nat
    <2>1. LebLen(b, p) \in 0..MaxGroups /\ MaxGroups \in Nat
      BY LebRange, ValidationAssumption
    <2> QED
      BY <2>1, LenProperties
  <1> QED
    BY <1>1 DEF AfterLeb, Fault

\* A number is read to its end.
LEMMA ReadsLeb ==
    ASSUME NEW b \in Seq(Nat), NEW p \in Nat,
           NEW n \in 0..(U32 - 1), NEW k \in 1..MaxGroups, Remaining(n)[k] = 0,
           At(b, p, EncodeLeb(n, k))
    PROVE  /\ Reads(b, p, EncodeLeb(n, k), AfterLeb(b, p))
           /\ p + k <= Len(b) => Leb(b, p) = n
  <1>1. Len(b) \in Nat /\ n \in Nat /\ k \in Nat
    BY LenProperties, ValidationAssumption
  <1>2. Len(EncodeLeb(n, k)) = k
    BY <1>1, LebBytes, Zenon
  <1>3. AfterLeb(b, p) \in Nat /\ (p >= Len(b) => AfterLeb(b, p) >= Len(b))
    BY AfterLebPast
  <1>4. CASE p <= Len(b)
    <2>1. /\ p + k <= Len(b) => AfterLeb(b, p) = p + k /\ Leb(b, p) = n
          /\ p + k > Len(b) => AfterLeb(b, p) = Len(b)
      BY <1>4, LebAt, Zenon
    <2>2. Leb(b, p) = n \/ p + k > Len(b)
      BY <1>1, <2>1
    <2>3. IF p + k <= Len(b) THEN AfterLeb(b, p) = p + k ELSE AfterLeb(b, p) >= Len(b)
      BY <1>1, <2>1
    <2> QED
      BY <1>2, <1>3, <2>1, <2>3, Zenon DEF Reads
  <1>5. CASE ~(p <= Len(b))
    <2>1. ~(p + k <= Len(b)) /\ p >= Len(b)
      BY <1>1, <1>5
    <2> QED
      BY <1>2, <1>3, <2>1, Zenon DEF Reads
  <1> QED
    BY <1>4, <1>5

\* A u32 in its fewest bytes.
LEMMA MinimalIs ==
    ASSUME NEW n \in 0..(U32 - 1)
    PROVE  /\ Minimal(n) = EncodeLeb(n, LebSize(n)) /\ LebSize(n) \in 1..MaxGroups
           /\ Remaining(n)[LebSize(n)] = 0
           /\ Minimal(n) \in Seq(Nat) /\ Len(Minimal(n)) = LebSize(n)
  <1>1. LebSize(n) \in 1..MaxGroups /\ Remaining(n)[LebSize(n)] = 0
    BY LebSizeFits
  <1>2. n \in Nat
    BY ValidationAssumption
  <1>3. EncodeLeb(n, LebSize(n)) \in Seq(Nat) /\ Len(EncodeLeb(n, LebSize(n))) = LebSize(n)
    BY <1>1, <1>2, LebBytes, Zenon
  <1> QED
    BY <1>1, <1>3, Zenon DEF Minimal

\* The same for a number in its fewest bytes.
LEMMA ReadsMinimal ==
    ASSUME NEW b \in Seq(Nat), NEW p \in Nat, NEW n \in 0..(U32 - 1), At(b, p, Minimal(n))
    PROVE  /\ Reads(b, p, Minimal(n), AfterLeb(b, p))
           /\ p + Len(Minimal(n)) <= Len(b) => Leb(b, p) = n
  BY MinimalIs, ReadsLeb, Zenon

\* The names of a module are sequences of bytes.
LEMMA NameIs ==
    ASSUME NEW nm \in Names
    PROVE  /\ nm \in Seq(Nat) /\ Len(nm) \in 0..(U32 - 1)
           /\ EncodeName(nm) \in Seq(Nat)
           /\ EncodeName(nm) = Minimal(Len(nm)) \o nm
           /\ Len(EncodeName(nm)) = Len(Minimal(Len(nm))) + Len(nm)
  <1>1. nm \in Seq(Byte) /\ Len(nm) < U32 /\ U32 \in Nat /\ More \in Nat
    BY ValidationAssumption DEF Names
  <1>2. Byte \subseteq Nat
    BY <1>1 DEF Byte
  <1>3. nm \in Seq(Nat)
    <2>1. \A i \in 1..Len(nm) : nm[i] \in Nat
      BY <1>1, <1>2, ElementOfSeq
    <2>2. nm \in [1..Len(nm) -> Nat] /\ Len(nm) \in Nat
      BY <1>1, <2>1
    <2> QED
      BY <2>2
  <1>4. Len(nm) \in 0..(U32 - 1)
    BY <1>1, <1>3
  <1>5. Minimal(Len(nm)) \in Seq(Nat)
    BY <1>4, MinimalIs
  <1>6. PICK m \in Seq(Nat) : m = Minimal(Len(nm))
    BY <1>5
  <1>7. m \o nm \in Seq(Nat) /\ Len(m \o nm) = Len(m) + Len(nm)
    BY <1>3, ConcatProperties
  <1> QED
    BY <1>3, <1>4, <1>6, <1>7 DEF EncodeName

\* A name is read to its end and as it was written.
LEMMA ReadsName ==
    ASSUME NEW b \in Seq(Nat), NEW p \in Nat, NEW nm \in Names, At(b, p, EncodeName(nm))
    PROVE  /\ Reads(b, p, EncodeName(nm), AfterName(b, p))
           /\ p + Len(EncodeName(nm)) <= Len(b) => Name(b, p) = nm
  <1> DEFINE l == Len(Minimal(Len(nm)))
  <1>1. /\ nm \in Seq(Nat) /\ Len(nm) \in 0..(U32 - 1) /\ Len(nm) \in Nat
        /\ Len(EncodeName(nm)) = l + Len(nm) /\ l \in Nat /\ Len(b) \in Nat
    BY NameIs, MinimalIs, LenProperties, Zenon
  <1>2. At(b, p, Minimal(Len(nm))) /\ At(b, p + l, nm)
    <2>1. Minimal(Len(nm)) \in Seq(Nat) /\ At(b, p, Minimal(Len(nm)) \o nm)
      BY <1>1, NameIs, MinimalIs, Zenon
    <2> QED
      BY <1>1, <2>1, AtConcat, Zenon
  <1>3. Reads(b, p, Minimal(Len(nm)), AfterLeb(b, p)) /\ (p + l <= Len(b) => Leb(b, p) = Len(nm))
    BY <1>1, <1>2, ReadsMinimal, Zenon
  <1>4. AfterLeb(b, p) \in Nat /\ Leb(b, p) \in Nat
    BY AfterLebPast, LebRange
  <1> HIDE DEF l
  <1>5. IF p + l <= Len(b) THEN AfterLeb(b, p) = p + l ELSE AfterLeb(b, p) >= Len(b)
    BY <1>3 DEF Reads, l
  <1>6. CASE p + (l + Len(nm)) <= Len(b)
    <2>1. p + l <= Len(b) /\ p <= Len(b)
      BY <1>1, <1>6
    <2>2. AfterLeb(b, p) = p + l /\ Leb(b, p) = Len(nm)
      BY <1>3, <1>5, <2>1
    <2>3. AfterLeb(b, p) + Leb(b, p) = p + (l + Len(nm))
      BY <1>1, <2>2
    <2>4. AfterName(b, p) = p + (l + Len(nm))
      BY <1>6, <2>1, <2>3 DEF AfterName
    <2>5. Name(b, p) = SubSeq(b, (p + l) + 1, p + (l + Len(nm)))
      BY <2>2, <2>4 DEF Name
    <2>6. SubSeq(b, (p + l) + 1, p + (l + Len(nm))) = nm
      <3>1. PICK lo, hi : lo = (p + l) + 1 /\ hi = p + (l + Len(nm))
        OBVIOUS
      <3>2. lo \in Nat /\ hi \in Nat /\ 1 <= lo /\ hi <= Len(b) /\ (hi - lo) + 1 = Len(nm)
            /\ lo <= hi + 1
        BY <1>1, <1>6, <3>1
      <3>3. SubSeq(b, lo, hi) \in Seq(Nat) /\ Len(SubSeq(b, lo, hi)) = Len(nm)
            /\ \A i \in 1..Len(nm) : SubSeq(b, lo, hi)[i] = b[(lo + i) - 1]
        <4>1. \A i \in lo..hi : b[i] \in Nat
          <5>1. \A i \in lo..hi : i \in 1..Len(b)
            BY <1>1, <3>2
          <5> QED
            BY <5>1, ElementOfSeq
        <4>2. SubSeq(b, lo, hi) = [i \in 1..((hi - lo) + 1) |-> b[(lo + i) - 1]]
          BY <1>1, <3>2
        <4>3. \A i \in 1..Len(nm) : (lo + i) - 1 \in lo..hi
          BY <1>1, <3>2
        <4>4. SubSeq(b, lo, hi) = [i \in 1..Len(nm) |-> b[(lo + i) - 1]]
          BY <3>2, <4>2
        <4>5. [i \in 1..Len(nm) |-> b[(lo + i) - 1]] \in [1..Len(nm) -> Nat]
          BY <4>1, <4>3
        <4> QED
          BY <1>1, <4>4, <4>5, SMTT(20)
      <3>4. \A i \in 1..Len(nm) : b[(lo + i) - 1] = nm[i]
        <4>1. \A i \in 1..Len(nm) : (lo + i) - 1 = (p + l) + i /\ (p + l) + i <= Len(b)
          BY <1>1, <1>6, <3>1
        <4> QED
          BY <1>2, <4>1 DEF At
      <3>5. PICK z \in Seq(Nat) : z = SubSeq(b, lo, hi) /\ Len(z) = Len(nm)
                                  /\ \A i \in 1..Len(nm) : z[i] = nm[i]
        BY <3>3, <3>4
      <3>6. z = nm
        BY <1>1, <3>5, SeqEqual
      <3> QED
        BY <3>1, <3>5, <3>6
    <2> QED
      BY <1>1, <1>6, <2>4, <2>5, <2>6 DEF Reads
  <1>7. CASE ~(p + (l + Len(nm)) <= Len(b))
    <2>1. AfterLeb(b, p) + Leb(b, p) >= Len(b)
      <3>1. CASE p + l <= Len(b)
        <4>1. AfterLeb(b, p) = p + l /\ Leb(b, p) = Len(nm)
          BY <1>3, <1>5, <3>1
        <4> QED
          BY <1>1, <1>7, <4>1
      <3>2. CASE ~(p + l <= Len(b))
        <4>1. AfterLeb(b, p) >= Len(b)
          BY <1>5, <3>2
        <4> QED
          BY <1>1, <1>4, <4>1
      <3> QED
        BY <3>1, <3>2
    <2>2. AfterName(b, p) \in Nat /\ AfterName(b, p) >= Len(b)
      BY <1>1, <1>4, <2>1 DEF AfterName, Fault
    <2> QED
      BY <1>1, <1>7, <2>2 DEF Reads
  <1> QED
    BY <1>6, <1>7

\* Nothing more is named past the end.
LEMMA AfterNamePast ==
    ASSUME NEW b \in Seq(Nat), NEW p \in Nat, p >= Len(b)
    PROVE  AfterName(b, p) \in Nat /\ AfterName(b, p) >= Len(b)
  <1>1. AfterLeb(b, p) \in Nat /\ Leb(b, p) \in Nat /\ Len(b) \in Nat /\ AfterLeb(b, p) >= Len(b)
    BY AfterLebPast, LebRange, LenProperties
  <1> QED
    BY <1>1 DEF AfterName, Fault

\* What follows the kind of an import.
KindTail(i) ==
    CASE i.kind = Function -> Minimal(i.min)
      [] i.kind = Table ->
            <<0>> \o (IF i.max THEN <<1>> \o Minimal(i.min) \o Minimal(i.min)
                      ELSE <<0>> \o Minimal(i.min))
      [] i.kind = Memory ->
            (IF i.max THEN <<1>> \o Minimal(i.min) \o Minimal(i.min)
             ELSE <<0>> \o Minimal(i.min))
      [] i.kind = Global -> <<0, 0>>

\* What an import consists of.
LEMMA ImportIs ==
    ASSUME NEW i \in Import
    PROVE  EncodeImport(i) = EncodeName(i.module) \o EncodeName(i.field) \o <<i.kind>> \o KindTail(i)
  BY DEF EncodeImport, KindTail

\* The cases of what follows a kind, written and read.
LEMMA KindCases ==
    ASSUME NEW b, NEW p, NEW i
    PROVE  /\ i.kind = Function => KindTail(i) = Minimal(i.min)
           /\ i.kind = Table /\ ~i.max => KindTail(i) = <<0>> \o (<<0>> \o Minimal(i.min))
           /\ i.kind = Memory /\ ~i.max => KindTail(i) = <<0>> \o Minimal(i.min)
           /\ i.kind = Memory /\ i.max => KindTail(i) = <<1>> \o Minimal(i.min) \o Minimal(i.min)
           /\ i.kind = Global => KindTail(i) = <<0, 0>>
           /\ b[p + 1] = Function => AfterKind(b, p) = AfterLeb(b, p + 1)
           /\ b[p + 1] = Table => AfterKind(b, p) = AfterLeb(b, AfterLeb(b, p + 2))
           /\ b[p + 1] = Memory => AfterKind(b, p) =
                 IF p + 1 <= Len(b) /\ Leb(b, p + 1) % 2 = 1
                 THEN AfterLeb(b, AfterLeb(b, AfterLeb(b, p + 1)))
                 ELSE AfterLeb(b, AfterLeb(b, p + 1))
           /\ b[p + 1] = Global => AfterKind(b, p) = p + 3
  <1> USE DEF Function, Table, Memory, Global
  <1>1. i.kind = Function => KindTail(i) = Minimal(i.min)
    BY DEF KindTail
  <1>2. i.kind = Table /\ ~i.max => KindTail(i) = <<0>> \o (<<0>> \o Minimal(i.min))
    BY DEF KindTail
  <1>3. i.kind = Memory /\ ~i.max => KindTail(i) = <<0>> \o Minimal(i.min)
    BY DEF KindTail
  <1>4. i.kind = Memory /\ i.max => KindTail(i) = <<1>> \o Minimal(i.min) \o Minimal(i.min)
    BY DEF KindTail
  <1>5. i.kind = Global => KindTail(i) = <<0, 0>>
    BY DEF KindTail
  <1>6. b[p + 1] = Function => AfterKind(b, p) = AfterLeb(b, p + 1)
    BY DEF AfterKind
  <1>7. b[p + 1] = Table => AfterKind(b, p) = AfterLeb(b, AfterLeb(b, p + 2))
    BY DEF AfterKind
  <1>8. b[p + 1] = Memory => AfterKind(b, p) =
                 IF p + 1 <= Len(b) /\ Leb(b, p + 1) % 2 = 1
                 THEN AfterLeb(b, AfterLeb(b, AfterLeb(b, p + 1)))
                 ELSE AfterLeb(b, AfterLeb(b, p + 1))
    BY DEF AfterKind
  <1>9. b[p + 1] = Global => AfterKind(b, p) = p + 3
    BY DEF AfterKind
  <1> QED
    BY <1>1, <1>2, <1>3, <1>4, <1>5, <1>6, <1>7, <1>8, <1>9, Zenon

\* A flag and a number.
LEMMA ReadsLimits ==
    ASSUME NEW b \in Seq(Nat), NEW p \in Nat, NEW x \in {0, 1}, NEW n \in 0..(U32 - 1),
           At(b, p, <<x>> \o Minimal(n))
    PROVE  /\ <<x>> \o Minimal(n) \in Seq(Nat)
           /\ Reads(b, p, <<x>> \o Minimal(n), AfterLeb(b, AfterLeb(b, p)))
           /\ AfterLeb(b, AfterLeb(b, p)) \in Nat
           /\ p >= Len(b) => AfterLeb(b, AfterLeb(b, p)) >= Len(b)
           /\ p + 1 <= Len(b) => Leb(b, p) = x
           /\ p + Len(<<x>> \o Minimal(n)) <= Len(b) => p + 1 <= Len(b)
  <1> DEFINE q == AfterLeb(b, p)
             r == AfterLeb(b, q)
  <1>1. <<x>> \in Seq(Nat) /\ Len(<<x>>) = 1 /\ Len(b) \in Nat /\ Minimal(n) \in Seq(Nat)
        /\ Len(Minimal(n)) \in Nat
    BY LenProperties, MinimalIs
  <1>2. At(b, p, <<x>>) /\ At(b, p + 1, Minimal(n))
    BY <1>1, AtConcat, Zenon
  <1>3. Reads(b, p, <<x>>, q) /\ (p + 1 <= Len(b) => Leb(b, p) = x)
    BY <1>2, SmallByte, ReadsLeb, Zenon
  <1>4. q \in Nat /\ r \in Nat /\ (p >= Len(b) => q >= Len(b)) /\ (q >= Len(b) => r >= Len(b))
    BY AfterLebPast
  <1>5. ASSUME p + Len(<<x>>) <= Len(b) PROVE Reads(b, p + Len(<<x>>), Minimal(n), r)
    <2>1. q = p + 1 /\ p + 1 \in Nat
      BY <1>1, <1>3, <1>5 DEF Reads
    <2>2. Reads(b, p + 1, Minimal(n), AfterLeb(b, p + 1))
      BY <1>2, <2>1, ReadsMinimal, Zenon
    <2> QED
      BY <1>1, <2>1, <2>2, Zenon
  <1>6. Reads(b, p, <<x>> \o Minimal(n), r)
    <2> HIDE DEF q, r
    <2> QED
      BY <1>1, <1>3, <1>4, <1>5, ReadsThen, Zenon
  <1>7. <<x>> \o Minimal(n) \in Seq(Nat) /\ Len(<<x>> \o Minimal(n)) = 1 + Len(Minimal(n))
    BY <1>1, ConcatProperties, Zenon
  <1>8. p + (1 + Len(Minimal(n))) <= Len(b) => p + 1 <= Len(b)
    BY <1>1
  <1> QED
    BY <1>3, <1>4, <1>6, <1>7, <1>8, Zenon

\* The kind of an import is read to its end, but for a table with a maximum.
LEMMA ReadsKind ==
    ASSUME NEW b \in Seq(Nat), NEW p \in Nat, NEW i \in Import, ~(i.kind = Table /\ i.max),
           p < Len(b), At(b, p, <<i.kind>>), At(b, p + 1, KindTail(i))
    PROVE  /\ KindTail(i) \in Seq(Nat)
           /\ b[p + 1] = i.kind
           /\ Reads(b, p + 1, KindTail(i), AfterKind(b, p))
  <1> DEFINE n == i.min
             M == Minimal(n)
             L == <<0>> \o M
  <1>1. n \in 0..(U32 - 1) /\ M \in Seq(Nat) /\ i.max \in BOOLEAN /\ Len(b) \in Nat
        /\ i.kind \in {Function, Table, Memory, Global}
    BY LenProperties, MinimalIs DEF Import, ExternKinds
  <1>2. b[p + 1] = i.kind
    BY <1>1, AtByte
  <1>3. p + 1 \in Nat /\ p + 1 <= Len(b) /\ p + 2 \in Nat /\ (p + 1) + 1 = p + 2
    BY <1>1
  <1>4. CASE i.kind = Function
    <2>1. KindTail(i) = M /\ AfterKind(b, p) = AfterLeb(b, p + 1)
      BY <1>2, <1>4, KindCases, Zenon
    <2> QED
      BY <1>1, <1>2, <1>3, <2>1, ReadsMinimal, Zenon
  <1>5. CASE i.kind = Table
    <2>1. KindTail(i) = <<0>> \o L /\ AfterKind(b, p) = AfterLeb(b, AfterLeb(b, p + 2))
      BY <1>2, <1>5, KindCases, Zenon
    <2>2. <<0>> \in Seq(Nat) /\ Len(<<0>>) = 1 /\ L \in Seq(Nat) /\ <<0>> \o L \in Seq(Nat)
      BY <1>1, ConcatProperties
    <2>3. At(b, p + 2, L)
      BY <1>3, <2>1, <2>2, AtConcat, ZenonT(40)
    <2> DEFINE r == AfterLeb(b, AfterLeb(b, p + 2))
    <2>4. Reads(b, p + 2, L, r) /\ r \in Nat /\ (p + 2 >= Len(b) => r >= Len(b))
      BY <1>1, <1>3, <2>3, ReadsLimits, Zenon
    <2>5. Reads(b, p + 1, <<0>>, p + 2)
      BY <1>1, <1>3, <2>2 DEF Reads
    <2>6. Reads(b, p + 1, <<0>> \o L, r)
      <3> HIDE DEF r, L
      <3> QED
        BY <1>1, <1>3, <2>2, <2>4, <2>5, ReadsThen, Zenon
    <2> QED
      BY <1>2, <2>1, <2>2, <2>6, Zenon
  <1>6. CASE i.kind = Memory /\ ~i.max
    <2>1. KindTail(i) = L
      BY <1>2, <1>6, KindCases, Zenon
    <2>2. AfterKind(b, p) = IF p + 1 <= Len(b) /\ Leb(b, p + 1) % 2 = 1
                            THEN AfterLeb(b, AfterLeb(b, AfterLeb(b, p + 1)))
                            ELSE AfterLeb(b, AfterLeb(b, p + 1))
      BY <1>2, <1>6, KindCases, Zenon
    <2>3. /\ L \in Seq(Nat) /\ Reads(b, p + 1, L, AfterLeb(b, AfterLeb(b, p + 1)))
          /\ (p + 1) + 1 <= Len(b) => Leb(b, p + 1) = 0
          /\ (p + 1) + Len(L) <= Len(b) => (p + 1) + 1 <= Len(b)
      BY <1>1, <1>3, <2>1, ReadsLimits, Zenon
    <2>4. CASE (p + 1) + 1 <= Len(b)
      <3>1. Leb(b, p + 1) = 0 /\ 0 % 2 # 1
        BY <2>3, <2>4
      <3>2. AfterKind(b, p) = AfterLeb(b, AfterLeb(b, p + 1))
        BY <2>2, <3>1, Zenon
      <3> QED
        BY <1>2, <2>1, <2>3, <3>2, Zenon
    <2>5. CASE ~((p + 1) + 1 <= Len(b))
      <3>1. p + 1 >= Len(b)
        BY <1>1, <1>3, <2>5
      <3>2. AfterKind(b, p) \in Nat /\ AfterKind(b, p) >= Len(b)
        BY <1>3, <2>2, <3>1, AfterLebPast
      <3>3. ~((p + 1) + Len(L) <= Len(b))
        BY <2>3, <2>5, Zenon
      <3> QED
        BY <1>2, <2>1, <2>3, <3>2, <3>3, Zenon DEF Reads
    <2> QED
      BY <2>4, <2>5, Zenon
  <1>7. CASE i.kind = Memory /\ i.max
    <2> DEFINE O == <<1>> \o M
               q == AfterLeb(b, AfterLeb(b, p + 1))
               r == AfterLeb(b, q)
    <2>1. KindTail(i) = O \o M
      BY <1>2, <1>7, KindCases, Zenon
    <2>2. AfterKind(b, p) = IF p + 1 <= Len(b) /\ Leb(b, p + 1) % 2 = 1 THEN r ELSE q
      BY <1>2, <1>7, KindCases, Zenon
    <2>o. O \in Seq(Nat) /\ O \o M \in Seq(Nat) /\ Len(O) \in Nat
      <3>1. <<1>> \in Seq(Nat)
        OBVIOUS
      <3>2. O \in Seq(Nat)
        BY <1>1, <3>1, ConcatProperties, Zenon
      <3> QED
        BY <1>1, <3>2, ConcatProperties, LenProperties, Zenon
    <2>3. At(b, p + 1, O) /\ At(b, (p + 1) + Len(O), M)
      BY <1>1, <1>3, <2>1, <2>o, AtConcat, Zenon
    <2>4. /\ Reads(b, p + 1, O, q) /\ q \in Nat
          /\ (p + 1) + 1 <= Len(b) => Leb(b, p + 1) = 1
          /\ (p + 1) + Len(O) <= Len(b) => (p + 1) + 1 <= Len(b)
          /\ p + 1 >= Len(b) => q >= Len(b)
      BY <1>1, <1>3, <2>3, ReadsLimits, Zenon
    <2>5. r \in Nat /\ (q >= Len(b) => r >= Len(b))
      BY <2>4, AfterLebPast, Zenon
    <2>6. ASSUME (p + 1) + Len(O) <= Len(b) PROVE Reads(b, (p + 1) + Len(O), M, r)
      <3>1. q = (p + 1) + Len(O)
        BY <2>4, <2>6, Zenon DEF Reads
      <3> QED
        BY <1>1, <2>3, <2>4, <3>1, ReadsMinimal, Zenon
    <2>7. Reads(b, p + 1, O \o M, r)
      <3> HIDE DEF r, q, O, M
      <3> QED
        BY <1>1, <1>3, <2>o, <2>4, <2>5, <2>6, ReadsThen, Zenon
    <2>8. CASE (p + 1) + 1 <= Len(b)
      <3>1. Leb(b, p + 1) = 1 /\ 1 % 2 = 1
        BY <2>4, <2>8
      <3>2. AfterKind(b, p) = r
        BY <1>3, <2>2, <3>1, Zenon
      <3> QED
        BY <1>2, <2>1, <2>o, <2>7, <3>2, Zenon
    <2>9. CASE ~((p + 1) + 1 <= Len(b))
      <3>1. p + 1 >= Len(b)
        BY <1>1, <1>3, <2>9
      <3>2. AfterKind(b, p) \in Nat /\ AfterKind(b, p) >= Len(b)
        BY <2>2, <2>4, <2>5, <3>1, Zenon
      <3>3. ~((p + 1) + Len(O \o M) <= Len(b))
        <4>1. ~((p + 1) + Len(O) <= Len(b))
          BY <2>4, <2>9, Zenon
        <4>2. Len(O \o M) = Len(O) + Len(M) /\ Len(M) \in Nat
          BY <1>1, <2>o, ConcatProperties, LenProperties, Zenon
        <4> HIDE DEF O, M
        <4> QED
          BY <1>1, <1>3, <2>o, <4>1, <4>2
      <3> QED
        BY <1>2, <2>1, <2>o, <3>2, <3>3, Zenon DEF Reads
    <2> QED
      BY <2>8, <2>9, Zenon
  <1>8. CASE i.kind = Global
    <2>1. KindTail(i) = <<0, 0>> /\ AfterKind(b, p) = p + 3
      BY <1>2, <1>8, KindCases, Zenon
    <2>2. <<0, 0>> \in Seq(Nat) /\ Len(<<0, 0>>) = 2
      OBVIOUS
    <2>3. Reads(b, p + 1, <<0, 0>>, p + 3)
      BY <1>1, <1>3, <2>2 DEF Reads
    <2> QED
      BY <1>2, <2>1, <2>2, <2>3, Zenon
  <1> QED
    BY <1>1, <1>4, <1>5, <1>6, <1>7, <1>8, Zenon

-----------------------------------------------------------------------------
(* A module's imports, one after the other.                                *)

\* Bytes followed by bytes.
LEMMA ConcatBytes ==
    ASSUME NEW s \in Seq(Nat), NEW t \in Seq(Nat)
    PROVE  s \o t \in Seq(Nat) /\ Len(s \o t) = Len(s) + Len(t) /\ Len(s) \in Nat /\ Len(t) \in Nat
  BY ConcatProperties, LenProperties

\* What follows a kind is a sequence of bytes.
LEMMA KindTailIs ==
    ASSUME NEW i \in Import
    PROVE  KindTail(i) \in Seq(Nat)
  <1>1. i.min \in 0..(U32 - 1) /\ i.max \in BOOLEAN /\ i.kind \in {Function, Table, Memory, Global}
    BY DEF Import, ExternKinds
  <1>2. PICK M \in Seq(Nat) : M = Minimal(i.min)
    BY <1>1, MinimalIs
  <1>3. <<0>> \in Seq(Nat) /\ <<1>> \in Seq(Nat) /\ <<0, 0>> \in Seq(Nat)
    OBVIOUS
  <1>4. <<0>> \o M \in Seq(Nat) /\ (<<1>> \o M) \o M \in Seq(Nat) /\ <<0>> \o (<<0>> \o M) \in Seq(Nat)
    BY <1>3, ConcatProperties, Zenon
  <1>5. <<0>> \o ((<<1>> \o M) \o M) \in Seq(Nat)
    BY <1>3, <1>4, ConcatProperties, Zenon
  <1>6. CASE i.kind = Table /\ i.max
    <2>1. KindTail(i) = <<0>> \o ((<<1>> \o Minimal(i.min)) \o Minimal(i.min))
      BY <1>6 DEF KindTail, Function, Table, Memory, Global
    <2> QED
      BY <1>2, <1>5, <2>1, Zenon
  <1>7. CASE ~(i.kind = Table /\ i.max)
    BY <1>1, <1>2, <1>3, <1>4, <1>7, KindCases, Zenon
  <1> QED
    BY <1>6, <1>7

\* The parts of an encoded import.
LEMMA ImportParts ==
    ASSUME NEW i \in Import
    PROVE  LET X == EncodeName(i.module)
               Y == EncodeName(i.field)
               K == <<i.kind>>
               T == KindTail(i)
           IN  /\ X \in Seq(Nat) /\ Y \in Seq(Nat) /\ K \in Seq(Nat) /\ T \in Seq(Nat)
               /\ Len(X) \in Nat /\ Len(Y) \in Nat /\ Len(K) = 1 /\ Len(T) \in Nat
               /\ X \o Y \in Seq(Nat) /\ (X \o Y) \o K \in Seq(Nat)
               /\ Len(X \o Y) = Len(X) + Len(Y)
               /\ Len((X \o Y) \o K) = (Len(X) + Len(Y)) + 1
               /\ EncodeImport(i) = ((X \o Y) \o K) \o T
               /\ EncodeImport(i) \in Seq(Nat)
               /\ Len(EncodeImport(i)) = ((Len(X) + Len(Y)) + 1) + Len(T)
  <1>1. i.module \in Names /\ i.field \in Names /\ i.kind \in {0, 1, 2, 3}
    BY DEF Import, ExternKinds, Function, Table, Memory, Global
  <1>2. PICK X \in Seq(Nat) : X = EncodeName(i.module)
    BY <1>1, NameIs, Zenon
  <1>3. PICK Y \in Seq(Nat) : Y = EncodeName(i.field)
    BY <1>1, NameIs, Zenon
  <1>4. PICK T \in Seq(Nat) : T = KindTail(i)
    BY KindTailIs
  <1>k. <<i.kind>> \in Seq(Nat) /\ Len(<<i.kind>>) = 1
    <2>1. i.kind \in Nat
      BY <1>1
    <2> QED
      BY <2>1
  <1>5. PICK K \in Seq(Nat) : K = <<i.kind>>
    BY <1>k, Zenon
  <1>6. X \o Y \in Seq(Nat) /\ Len(X \o Y) = Len(X) + Len(Y)
    BY ConcatBytes, Zenon
  <1>7. (X \o Y) \o K \in Seq(Nat) /\ Len((X \o Y) \o K) = (Len(X) + Len(Y)) + 1
    BY <1>k, <1>5, <1>6, ConcatBytes
  <1>8. ((X \o Y) \o K) \o T \in Seq(Nat)
        /\ Len(((X \o Y) \o K) \o T) = ((Len(X) + Len(Y)) + 1) + Len(T)
    BY <1>7, ConcatBytes, Zenon
  <1>9. EncodeImport(i) = ((X \o Y) \o K) \o T
    BY <1>2, <1>3, <1>4, <1>5, ImportIs, Zenon
  <1>10. Len(X) \in Nat /\ Len(Y) \in Nat /\ Len(T) \in Nat
    BY LenProperties
  <1> QED
    BY <1>k, <1>2, <1>3, <1>4, <1>5, <1>6, <1>7, <1>8, <1>9, <1>10, Zenon

\* The imports, one after the other.
LEMMA JoinedSteps ==
    ASSUME NEW im \in Seq(Import)
    PROVE  /\ Joined(im) \in [0..Len(im) -> Seq(Nat)]
           /\ Joined(im)[0] = <<>>
           /\ \A i \in 1..Len(im) : Joined(im)[i] = Joined(im)[i - 1] \o EncodeImport(im[i])
  <1> DEFINE N == Len(im)
             Body(g, i) == IF i = 0 THEN <<>> ELSE g[i - 1] \o EncodeImport(im[i])
             Rec(g) == g = [i \in 0..Len(im) |-> Body(g, i)]
             step == [i \in 1..N |-> [x \in Seq(Nat) |-> x \o EncodeImport(im[i])]]
  <1>0. N \in Nat /\ <<>> \in Seq(Nat) /\ \A i \in 1..N : im[i] \in Import
    BY ElementOfSeq, LenProperties
  <1>e. \A i \in 1..N : EncodeImport(im[i]) \in Seq(Nat)
    BY <1>0, ImportParts, Zenon
  <1>c. \A i \in 1..N : \A x \in Seq(Nat) : x \o EncodeImport(im[i]) \in Seq(Nat)
    BY <1>e, ConcatProperties, Zenon
  <1>1. step \in [1..N -> [Seq(Nat) -> Seq(Nat)]]
    <2> HIDE DEF N
    <2> QED
      BY <1>c
  <1>2. PICK f : Iterates(f, N, Seq(Nat), <<>>, step)
    <2> HIDE DEF step, N
    <2> QED
      BY <1>0, <1>1, IterationExists, Zenon
  <1>3. f \in [0..N -> Seq(Nat)] /\ f[0] = <<>>
        /\ \A i \in 1..N : f[i] = f[i - 1] \o EncodeImport(im[i])
    <2>1. f \in [0..N -> Seq(Nat)] /\ f[0] = <<>> /\ \A i \in 1..N : f[i] = step[i][f[i - 1]]
      BY <1>2 DEF Iterates
    <2> HIDE DEF N
    <2>2. \A i \in 1..N : f[i - 1] \in Seq(Nat)
      BY <1>0, <2>1
    <2>3. \A i \in 1..N : step[i][f[i - 1]] = f[i - 1] \o EncodeImport(im[i])
      BY <2>2
    <2> QED
      BY <2>1, <2>3, Zenon
  <1>4. Rec(f)
    <2> HIDE DEF N
    <2>1. \A i \in 0..N : f[i] = Body(f, i)
      <3>1. SUFFICES ASSUME NEW i \in 0..N PROVE f[i] = Body(f, i)
        OBVIOUS
      <3>2. CASE i = 0
        BY <1>3, <3>2
      <3>3. CASE i # 0
        <4>1. i \in 1..N
          BY <1>0, <3>3
        <4> QED
          BY <1>3, <3>3, <4>1, Zenon
      <3> QED
        BY <3>2, <3>3
    <2> HIDE DEF Body
    <2> QED
      BY <1>3, <2>1 DEF N
  <1>5. PICK g : Rec(g) /\ Joined(im) = g
    BY <1>4 DEF Joined
  <1>d. g = [i \in 0..N |-> g[i]]
    <2> HIDE DEF Body
    <2> QED
      BY <1>5
  <1>6. g[0] = <<>> /\ \A i \in 1..N : g[i] = g[i - 1] \o EncodeImport(im[i])
    <2>1. \A i \in 0..N : g[i] = Body(g, i)
      <3> HIDE DEF Body
      <3> QED
        BY <1>5
    <2>2. 0 \in 0..N /\ \A i \in 1..N : i \in 0..N /\ i # 0
      BY <1>0
    <2> HIDE DEF N
    <2> QED
      BY <2>1, <2>2, Zenon
  <1> HIDE DEF N, Body
  <1>7. \A i \in 0..N : g[i] \in Seq(Nat)
    <2> DEFINE H == {i \in 0..N : g[i] \in Seq(Nat)}
    <2>1. 0 \in H
      <3>1. 0 \in 0..N
        BY <1>0
      <3> QED
        BY <1>0, <1>6, <3>1, Zenon
    <2>2. ASSUME NEW i \in 1..N, i - 1 \in H PROVE i \in H
      <3>1. g[i - 1] \in Seq(Nat) /\ i \in 0..N
        BY <1>0, <2>2
      <3>2. g[i] = g[i - 1] \o EncodeImport(im[i])
        BY <1>6
      <3>3. g[i] \in Seq(Nat)
        BY <1>c, <3>1, <3>2, Zenon
      <3> QED
        BY <3>1, <3>3
    <2> HIDE DEF H
    <2>3. \A i \in 0..N : i \in H
      BY <1>0, <2>1, <2>2, UpTo
    <2> QED
      BY <2>3 DEF H
  <1>8. g \in [0..N -> Seq(Nat)]
    BY <1>7, <1>d
  <1> QED
    BY <1>5, <1>6, <1>8, Zenon DEF N

\* The functions outside the alphabet, one after the other.
LEMMA ForeignSteps ==
    ASSUME NEW im \in Seq(Import)
    PROVE  /\ ForeignUpTo(im) \in [0..Len(im) -> Seq(Names)]
           /\ ForeignUpTo(im)[0] = <<>>
           /\ \A i \in 1..Len(im) : ForeignUpTo(im)[i] =
                 IF im[i].kind = Function /\ im[i].field \notin Alphabet
                 THEN Append(ForeignUpTo(im)[i - 1], im[i].field)
                 ELSE ForeignUpTo(im)[i - 1]
  <1> DEFINE N == Len(im)
             With(x, i) == IF im[i].kind = Function /\ im[i].field \notin Alphabet
                           THEN Append(x, im[i].field) ELSE x
             Body(g, i) == IF i = 0 THEN <<>> ELSE With(g[i - 1], i)
             Rec(g) == g = [i \in 0..Len(im) |-> Body(g, i)]
             step == [i \in 1..N |-> [x \in Seq(Names) |-> With(x, i)]]
  <1>0. N \in Nat /\ <<>> \in Seq(Names) /\ \A i \in 1..N : im[i] \in Import
    BY ElementOfSeq, LenProperties
  <1>e. \A i \in 1..N : im[i].field \in Names
    BY <1>0 DEF Import
  <1>c. \A i \in 1..N : \A x \in Seq(Names) : With(x, i) \in Seq(Names)
    BY <1>e, AppendProperties
  <1>1. step \in [1..N -> [Seq(Names) -> Seq(Names)]]
    <2> HIDE DEF N, With
    <2> QED
      BY <1>c
  <1>2. PICK f : Iterates(f, N, Seq(Names), <<>>, step)
    <2> HIDE DEF step, N
    <2> QED
      BY <1>0, <1>1, IterationExists, Zenon
  <1> HIDE DEF With
  <1>3. f \in [0..N -> Seq(Names)] /\ f[0] = <<>>
        /\ \A i \in 1..N : f[i] = With(f[i - 1], i)
    <2>1. f \in [0..N -> Seq(Names)] /\ f[0] = <<>> /\ \A i \in 1..N : f[i] = step[i][f[i - 1]]
      BY <1>2 DEF Iterates
    <2> HIDE DEF N
    <2>2. \A i \in 1..N : f[i - 1] \in Seq(Names)
      BY <1>0, <2>1
    <2>3. \A i \in 1..N : step[i][f[i - 1]] = With(f[i - 1], i)
      BY <2>2
    <2> QED
      BY <2>1, <2>3, Zenon
  <1>4. Rec(f)
    <2> HIDE DEF N
    <2>1. \A i \in 0..N : f[i] = Body(f, i)
      <3>1. SUFFICES ASSUME NEW i \in 0..N PROVE f[i] = Body(f, i)
        OBVIOUS
      <3>2. CASE i = 0
        BY <1>3, <3>2
      <3>3. CASE i # 0
        <4>1. i \in 1..N
          BY <1>0, <3>3
        <4> QED
          BY <1>3, <3>3, <4>1, Zenon
      <3> QED
        BY <3>2, <3>3
    <2> HIDE DEF Body
    <2> QED
      BY <1>3, <2>1 DEF N
  <1>5. PICK g : Rec(g) /\ ForeignUpTo(im) = g
    BY <1>4 DEF ForeignUpTo, With
  <1>d. g = [i \in 0..N |-> g[i]]
    <2> HIDE DEF Body
    <2> QED
      BY <1>5
  <1>6. g[0] = <<>> /\ \A i \in 1..N : g[i] = With(g[i - 1], i)
    <2>1. \A i \in 0..N : g[i] = Body(g, i)
      <3> HIDE DEF Body
      <3> QED
        BY <1>5
    <2>2. 0 \in 0..N /\ \A i \in 1..N : i \in 0..N /\ i # 0
      BY <1>0
    <2> HIDE DEF N
    <2> QED
      BY <2>1, <2>2, Zenon
  <1> HIDE DEF N, Body
  <1>7. \A i \in 0..N : g[i] \in Seq(Names)
    <2> DEFINE H == {i \in 0..N : g[i] \in Seq(Names)}
    <2>1. 0 \in H
      <3>1. 0 \in 0..N
        BY <1>0
      <3> QED
        BY <1>0, <1>6, <3>1, Zenon
    <2>2. ASSUME NEW i \in 1..N, i - 1 \in H PROVE i \in H
      <3>1. g[i - 1] \in Seq(Names) /\ i \in 0..N
        BY <1>0, <2>2
      <3>2. g[i] = With(g[i - 1], i)
        BY <1>6
      <3>3. g[i] \in Seq(Names)
        BY <1>c, <3>1, <3>2, Zenon
      <3> QED
        BY <3>1, <3>3
    <2> HIDE DEF H
    <2>3. \A i \in 0..N : i \in H
      BY <1>0, <2>1, <2>2, UpTo
    <2> QED
      BY <2>3 DEF H
  <1>8. g \in [0..N -> Seq(Names)]
    BY <1>7, <1>d
  <1> QED
    BY <1>5, <1>6, <1>8, Zenon DEF N, With

-----------------------------------------------------------------------------
(* The sections of a module.                                               *)

SizeOf(content, padded) == IF padded THEN MaxGroups ELSE LebSize(Len(content))
SectionHead(id, content, padded) == <<id>> \o EncodeLeb(Len(content), SizeOf(content, padded))

\* What there is to a section: a head that holds its size, and its content.
SectionLayout(id, content, padded, n, k, head, whole) ==
    /\ n \in 0..(U32 - 1) /\ k \in 1..MaxGroups /\ Remaining(n)[k] = 0
    /\ n \in Nat /\ k \in Nat
    /\ <<id>> \in Seq(Nat) /\ Len(<<id>>) = 1
    /\ EncodeLeb(n, k) \in Seq(Nat) /\ Len(EncodeLeb(n, k)) = k
    /\ head = <<id>> \o EncodeLeb(n, k)
    /\ head \in Seq(Nat) /\ Len(head) = 1 + k
    /\ whole = head \o content
    /\ whole \in Seq(Nat)
    /\ Len(whole) = (1 + k) + n

\* A section is its head and its content.
LEMMA SectionIs ==
    ASSUME NEW id \in Nat, NEW content \in Seq(Nat), Len(content) < U32, NEW padded
    PROVE  SectionLayout(id, content, padded, Len(content), SizeOf(content, padded),
                         SectionHead(id, content, padded), EncodeSection(id, content, padded))
  <1> DEFINE n == Len(content)
             k == SizeOf(content, padded)
             head == SectionHead(id, content, padded)
  <1>1. n \in Nat /\ U32 \in Nat /\ MaxGroups \in Nat \ {0}
    BY LenProperties, ValidationAssumption
  <1>2. n \in 0..(U32 - 1)
    BY <1>1
  <1>3. k \in 1..MaxGroups /\ Remaining(n)[k] = 0
    <2>1. MaxGroups \in 1..MaxGroups /\ Remaining(n)[MaxGroups] = 0
      BY <1>1, <1>2, ValidationAssumption
    <2>2. LebSize(n) \in 1..MaxGroups /\ Remaining(n)[LebSize(n)] = 0
      BY <1>2, LebSizeFits
    <2> QED
      BY <2>1, <2>2 DEF SizeOf
  <1>4. k \in Nat
    BY <1>1, <1>3
  <1>5. EncodeLeb(n, k) \in Seq(Nat) /\ Len(EncodeLeb(n, k)) = k
    BY <1>1, <1>3, LebBytes
  <1>6. <<id>> \in Seq(Nat) /\ Len(<<id>>) = 1
    OBVIOUS
  <1>7. head \in Seq(Nat) /\ Len(head) = 1 + k
    BY <1>5, <1>6, ConcatBytes, Zenon DEF SectionHead
  <1>8. EncodeSection(id, content, padded) = head \o content
    BY DEF EncodeSection, SectionHead, SizeOf
  <1>9. head \o content \in Seq(Nat) /\ Len(head \o content) = (1 + k) + n
    BY <1>7, ConcatBytes, Zenon
  <1>10. head = <<id>> \o EncodeLeb(n, k)
    BY DEF SectionHead
  <1> QED
    BY <1>1, <1>2, <1>3, <1>4, <1>5, <1>6, <1>7, <1>8, <1>9, <1>10, Zenon DEF SectionLayout

\* The head of a section is read to its end, and leads over its content.
LEMMA ReadsSection ==
    ASSUME NEW id \in Nat, NEW content \in Seq(Nat), Len(content) < U32, NEW padded,
           NEW b \in Seq(Nat), NEW p \in Nat, p < Len(b), At(b, p, EncodeSection(id, content, padded))
    PROVE  /\ b[p + 1] = id
           /\ Reads(b, p, SectionHead(id, content, padded), AfterLeb(b, p + 1))
           /\ Reads(b, p, EncodeSection(id, content, padded), AfterLeb(b, p + 1) + Leb(b, p + 1))
           /\ At(b, p + Len(SectionHead(id, content, padded)), content)
  <1> DEFINE n == Len(content)
             k == SizeOf(content, padded)
             head == SectionHead(id, content, padded)
             whole == EncodeSection(id, content, padded)
             q == AfterLeb(b, p + 1)
             v == Leb(b, p + 1)
  <1>0. SectionLayout(id, content, padded, n, k, head, whole)
    BY SectionIs, Zenon
  <1> HIDE DEF n, k, head, whole, q, v
  <1>1. /\ n \in 0..(U32 - 1) /\ k \in 1..MaxGroups /\ Remaining(n)[k] = 0
        /\ n \in Nat /\ k \in Nat
        /\ <<id>> \in Seq(Nat) /\ Len(<<id>>) = 1
        /\ EncodeLeb(n, k) \in Seq(Nat) /\ Len(EncodeLeb(n, k)) = k
        /\ head = <<id>> \o EncodeLeb(n, k)
        /\ head \in Seq(Nat) /\ Len(head) = 1 + k
        /\ whole = head \o content
        /\ Len(whole) = (1 + k) + n
    BY <1>0, Zenon DEF SectionLayout
  <1>m. n \in Nat /\ k \in Nat
    BY <1>1, Zenon
  <1>2. Len(b) \in Nat /\ p + 1 \in Nat /\ p + 1 <= Len(b)
    BY LenProperties
  <1>3. At(b, p, head) /\ At(b, p + Len(head), content)
    <2>1. At(b, p, whole)
      BY Zenon DEF whole
    <2>2. At(b, p, head \o content)
      BY <1>1, <2>1, Zenon
    <2> QED
      BY <1>1, <2>2, AtConcat, Zenon
  <1>4. At(b, p, <<id>>) /\ At(b, p + 1, EncodeLeb(n, k))
    BY <1>1, <1>3, AtConcat, Zenon
  <1>5. b[p + 1] = id
    BY <1>2, <1>4, AtByte, Zenon
  <1>6. Reads(b, p + 1, EncodeLeb(n, k), q) /\ ((p + 1) + k <= Len(b) => v = n)
    BY <1>1, <1>2, <1>4, ReadsLeb, Zenon DEF q, v
  <1>7. q \in Nat /\ v \in Nat
    BY <1>2, AfterLebPast, LebRange, Zenon DEF q, v
  <1>8. IF (p + 1) + k <= Len(b) THEN q = (p + 1) + k ELSE q >= Len(b)
    BY <1>1, <1>6, Zenon DEF Reads
  <1>9. (p + 1) + k = p + (1 + k)
    BY <1>m
  <1>10. Reads(b, p, head, q)
    BY <1>1, <1>7, <1>8, <1>9, Zenon DEF Reads
  <1>11. Reads(b, p, whole, q + v)
    <2>1. CASE (p + 1) + k <= Len(b)
      <3>1. q + v = p + ((1 + k) + n)
        <4>1. q = (p + 1) + k /\ v = n
          BY <1>6, <1>8, <2>1
        <4> QED
          BY <1>m, <4>1
      <3>2. q + v >= Len(b) \/ p + ((1 + k) + n) <= Len(b)
        BY <1>m, <1>2, <1>7, <3>1
      <3>3. q + v \in Nat
        BY <1>7
      <3> QED
        BY <1>1, <3>1, <3>2, <3>3, Zenon DEF Reads
    <2>2. CASE ~((p + 1) + k <= Len(b))
      <3>1. q >= Len(b)
        BY <1>8, <2>2
      <3>2. q + v >= Len(b) /\ q + v \in Nat /\ ~(p + ((1 + k) + n) <= Len(b))
        BY <1>m, <1>2, <1>7, <2>2, <3>1
      <3> QED
        BY <1>1, <3>2, Zenon DEF Reads
    <2> QED
      BY <2>1, <2>2
  <1> QED
    BY <1>3, <1>5, <1>10, <1>11, Zenon DEF head, whole, q, v

\* The list of a module's imports.
LEMMA ImportListIs ==
    ASSUME NEW m, WellFormed(m)
    PROVE  LET im == m.imports
               N == Len(m.imports)
           IN  /\ im \in Seq(Import) /\ N \in Nat /\ N \in 0..(U32 - 1)
               /\ Minimal(N) \in Seq(Nat) /\ Len(Minimal(N)) \in Nat
               /\ Joined(im)[N] \in Seq(Nat) /\ Len(Joined(im)[N]) \in Nat
               /\ ImportList(im) = Minimal(N) \o Joined(im)[N]
               /\ ImportList(im) \in Seq(Nat)
               /\ Len(ImportList(im)) = Len(Minimal(N)) + Len(Joined(im)[N])
               /\ Len(ImportList(im)) < U32
  <1> DEFINE im == m.imports
             N == Len(m.imports)
  <1>1. im \in Seq(Import) /\ N < U32 /\ Len(ImportList(im)) < U32
    BY DEF WellFormed
  <1>2. N \in Nat
    BY <1>1, LenProperties
  <1>3. N \in 0..(U32 - 1) /\ N \in 0..N
    BY <1>1, <1>2, ValidationAssumption
  <1>4. Minimal(N) \in Seq(Nat)
    BY <1>3, MinimalIs, Zenon
  <1>5. Joined(im)[N] \in Seq(Nat)
    <2>1. Joined(im) \in [0..N -> Seq(Nat)]
      BY <1>1, JoinedSteps, Zenon
    <2> HIDE DEF im, N
    <2> QED
      BY <1>3, <2>1
  <1>6. ImportList(im) = Minimal(N) \o Joined(im)[N]
    BY DEF ImportList
  <1> QED
    BY <1>1, <1>2, <1>3, <1>4, <1>5, <1>6, ConcatBytes, Zenon

\* The sections of a module, one after the other.
LEMMA ModuleIs ==
    ASSUME NEW m, WellFormed(m)
    PROVE  /\ Before(m) \in Seq(Nat) /\ Imported(m) \in Seq(Nat) /\ After(m) \in Seq(Nat)
           /\ Len(Before(m)) \in Nat /\ Len(Imported(m)) \in Nat /\ Len(After(m)) \in Nat
           /\ Before(m) \o Imported(m) \in Seq(Nat)
           /\ Len(Before(m) \o Imported(m)) = Len(Before(m)) + Len(Imported(m))
           /\ Encode(m) = (Before(m) \o Imported(m)) \o After(m)
           /\ Encode(m) \in Seq(Nat)
           /\ Len(Encode(m)) = (Len(Before(m)) + Len(Imported(m))) + Len(After(m))
           /\ m.before => Len(Before(m)) > 0
           /\ ~m.before => Len(Before(m)) = 0
           /\ m.imports # <<>> => Len(Imported(m)) > 0
           /\ m.imports = <<>> => Len(Imported(m)) = 0
           /\ ~m.after => Len(After(m)) = 0
  <1>0. <<>> \in Seq(Nat) /\ Len(<<>>) = 0 /\ m.before \in BOOLEAN /\ m.after \in BOOLEAN
    BY DEF WellFormed
  <1>1. Before(m) \in Seq(Nat) /\ (m.before => Len(Before(m)) > 0) /\ (~m.before => Len(Before(m)) = 0)
    <2>1. CASE m.before
      <3>1. <<0, 2>> \in Seq(Nat) /\ Len(<<0, 2>>) = 2 /\ Len(<<0, 2>>) < U32 /\ 1 \in Nat
        BY ValidationAssumption
      <3>2. EncodeSection(1, <<0, 2>>, FALSE) \in Seq(Nat)
            /\ Len(EncodeSection(1, <<0, 2>>, FALSE)) = (1 + SizeOf(<<0, 2>>, FALSE)) + Len(<<0, 2>>)
            /\ SizeOf(<<0, 2>>, FALSE) \in Nat
        BY <3>1, SectionIs, ZenonT(40) DEF SectionLayout
      <3>3. PICK s : s = SizeOf(<<0, 2>>, FALSE)
        OBVIOUS
      <3>4. (1 + s) + 2 > 0
        <4>1. s \in Nat
          BY <3>2, <3>3, Zenon
        <4> QED
          BY <4>1
      <3>5. Before(m) = EncodeSection(1, <<0, 2>>, FALSE)
        BY <2>1, Zenon DEF Before
      <3> QED
        BY <2>1, <3>1, <3>2, <3>3, <3>4, <3>5, Zenon
    <2>2. CASE ~m.before
      BY <1>0, <2>2, Zenon DEF Before
    <2> QED
      BY <2>1, <2>2
  <1>2. Imported(m) \in Seq(Nat) /\ (m.imports # <<>> => Len(Imported(m)) > 0)
        /\ (m.imports = <<>> => Len(Imported(m)) = 0)
    <2>1. CASE m.imports # <<>>
      <3> DEFINE c == ImportList(m.imports)
      <3>1. c \in Seq(Nat) /\ Len(c) < U32 /\ ImportSection \in Nat
        BY ImportListIs DEF ImportSection
      <3> HIDE DEF c
      <3>2. EncodeSection(ImportSection, c, m.padded) \in Seq(Nat)
            /\ Len(EncodeSection(ImportSection, c, m.padded)) = (1 + SizeOf(c, m.padded)) + Len(c)
            /\ SizeOf(c, m.padded) \in Nat /\ Len(c) \in Nat
        BY <3>1, SectionIs, Zenon DEF SectionLayout
      <3>3. PICK s \in Nat : s = SizeOf(c, m.padded)
        BY <3>2
      <3>4. (1 + s) + Len(c) > 0
        BY <3>2
      <3>5. Imported(m) = EncodeSection(ImportSection, c, m.padded)
        BY <2>1, Zenon DEF Imported, c
      <3> QED
        BY <2>1, <3>1, <3>2, <3>3, <3>4, <3>5, Zenon
    <2>2. CASE m.imports = <<>>
      BY <1>0, <2>2, Zenon DEF Imported
    <2> QED
      BY <2>1, <2>2
  <1>3. After(m) \in Seq(Nat) /\ (~m.after => Len(After(m)) = 0)
    <2>1. CASE m.after
      <3>1. <<2>> \in Seq(Nat) /\ Len(<<2>>) < U32 /\ 3 \in Nat
        BY ValidationAssumption
      <3>2. EncodeSection(3, <<2>>, FALSE) \in Seq(Nat)
        BY <3>1, SectionIs, Zenon DEF SectionLayout
      <3> QED
        BY <2>1, <3>2, Zenon DEF After
    <2>2. CASE ~m.after
      BY <1>0, <2>2, Zenon DEF After
    <2> QED
      BY <2>1, <2>2
  <1>4. Encode(m) = (Before(m) \o Imported(m)) \o After(m)
    BY DEF Encode
  <1>5. PICK x \in Seq(Nat), y \in Seq(Nat), z \in Seq(Nat) : x = Before(m) /\ y = Imported(m) /\ z = After(m)
    BY <1>1, <1>2, <1>3, Zenon
  <1>6. x \o y \in Seq(Nat) /\ Len(x \o y) = Len(x) + Len(y) /\ Len(x) \in Nat /\ Len(y) \in Nat
    BY ConcatBytes, Zenon
  <1>7. (x \o y) \o z \in Seq(Nat) /\ Len((x \o y) \o z) = (Len(x) + Len(y)) + Len(z) /\ Len(z) \in Nat
    <2>1. (x \o y) \o z \in Seq(Nat) /\ Len((x \o y) \o z) = Len(x \o y) + Len(z) /\ Len(z) \in Nat
      BY <1>6, ConcatBytes, Zenon
    <2> QED
      BY <1>6, <2>1, Zenon
  <1> QED
    BY <1>1, <1>2, <1>3, <1>4, <1>5, <1>6, <1>7, Zenon

\* Where the parts of the imports are: the end of the count, the end of the
\* first i imports, the field and the kind of the i-th.
ImportHead(m) == SectionHead(ImportSection, ImportList(m.imports), m.padded)
CountAt(m) == Len(Before(m)) + Len(ImportHead(m))
ImportsAt(m) == CountAt(m) + Len(Minimal(Len(m.imports)))
ImportAt(m, i) == ImportsAt(m) + Len(Joined(m.imports)[i])
FieldAt(m, i) == ImportAt(m, i - 1) + Len(EncodeName(m.imports[i].module))
KindAt(m, i) == FieldAt(m, i) + Len(EncodeName(m.imports[i].field))

\* The first sections of a module.
LEMMA SectionsAt ==
    ASSUME NEW m, WellFormed(m), NEW b, At(b, 0, Encode(m))
    PROVE  /\ At(b, 0, Before(m)) /\ At(b, Len(Before(m)), Imported(m))
           /\ At(b, Len(Before(m)) + Len(Imported(m)), After(m))
  <1>1. /\ Before(m) \in Seq(Nat) /\ Imported(m) \in Seq(Nat) /\ After(m) \in Seq(Nat)
        /\ Len(Before(m)) \in Nat /\ Len(Imported(m)) \in Nat
        /\ Before(m) \o Imported(m) \in Seq(Nat)
        /\ Len(Before(m) \o Imported(m)) = Len(Before(m)) + Len(Imported(m))
        /\ Encode(m) = (Before(m) \o Imported(m)) \o After(m)
    BY ModuleIs, Zenon
  <1>2. 0 \in Nat /\ 0 + Len(Before(m)) = Len(Before(m))
        /\ 0 + (Len(Before(m)) + Len(Imported(m))) = Len(Before(m)) + Len(Imported(m))
    <2>1. Len(Before(m)) \in Nat /\ Len(Imported(m)) \in Nat
      BY <1>1, Zenon
    <2> QED
      BY <2>1
  <1>3. At(b, 0, Before(m) \o Imported(m)) /\ At(b, Len(Before(m)) + Len(Imported(m)), After(m))
    <2>1. At(b, 0, (Before(m) \o Imported(m)) \o After(m))
      BY <1>1, Zenon
    <2>2. At(b, 0, Before(m) \o Imported(m))
          /\ At(b, 0 + Len(Before(m) \o Imported(m)), After(m))
      BY <1>1, <1>2, <2>1, AtConcat, Zenon
    <2> QED
      BY <1>1, <1>2, <2>2, Zenon
  <1>4. At(b, 0, Before(m)) /\ At(b, 0 + Len(Before(m)), Imported(m))
    BY <1>1, <1>2, <1>3, AtConcat, Zenon
  <1> QED
    BY <1>2, <1>3, <1>4, Zenon

\* The imports that begin the list of all.
LEMMA JoinedBegins ==
    ASSUME NEW im \in Seq(Import), NEW i \in 0..Len(im)
    PROVE  Begins(Joined(im)[i], Joined(im)[Len(im)])
  <1> DEFINE g == Joined(im)
             N == Len(im)
  <1>0. N \in Nat
    BY LenProperties
  <1>1. g \in [0..N -> Seq(Nat)] /\ \A j \in 1..N : g[j] = g[j - 1] \o EncodeImport(im[j])
    BY JoinedSteps, Zenon
  <1>2. ASSUME NEW j \in 1..N PROVE Begins(g[j - 1], g[j])
    <2>1. im[j] \in Import
      BY ElementOfSeq
    <2>2. EncodeImport(im[j]) \in Seq(Nat)
      BY <2>1, ImportParts, Zenon
    <2>3. g[j - 1] \in Seq(Nat)
      <3>1. j - 1 \in 0..N
        BY <1>0
      <3> HIDE DEF g, N
      <3> QED
        BY <1>1, <3>1
    <2>4. PICK x \in Seq(Nat), y \in Seq(Nat) : x = g[j - 1] /\ y = EncodeImport(im[j])
      BY <2>2, <2>3, Zenon
    <2>5. Begins(x, x \o y)
      <3>1. Len(x) \in Nat /\ Len(y) \in Nat /\ Len(x \o y) = Len(x) + Len(y)
        BY LenProperties, ConcatProperties
      <3>2. \A k \in 1..Len(x) : (x \o y)[k] = x[k]
        <4>1. \A k \in 1..Len(x) : k \in 1..(Len(x) + Len(y)) /\ k <= Len(x)
          BY <3>1
        <4> QED
          BY <4>1, ConcatProperties
      <3>3. Len(x) <= Len(x) + Len(y)
        BY <3>1
      <3> QED
        BY <3>1, <3>2, <3>3, Zenon DEF Begins
    <2> QED
      BY <1>1, <2>4, <2>5, Zenon
  <1> HIDE DEF g, N
  <1>3. i \in 0..N
    BY DEF N
  <1>4. Begins(g[i], g[N])
    BY <1>0, <1>1, <1>2, <1>3, Chain, Zenon
  <1> QED
    BY <1>4 DEF g, N

\* Where the imports of a module are in its bytes.
LEMMA ImportsLayout ==
    ASSUME NEW m, WellFormed(m), m.imports # <<>>, NEW b, At(b, 0, Encode(m))
    PROVE  /\ CountAt(m) \in Nat /\ ImportsAt(m) \in Nat /\ ImportAt(m, 0) = ImportsAt(m)
           /\ At(b, CountAt(m), Minimal(Len(m.imports)))
           /\ CountAt(m) <= Len(Encode(m)) /\ ImportsAt(m) <= Len(Encode(m))
           /\ \A i \in 0..Len(m.imports) : ImportAt(m, i) \in Nat /\ ImportAt(m, i) <= Len(Encode(m))
           /\ \A i \in 1..Len(m.imports) :
                 /\ ImportAt(m, i) = ImportAt(m, i - 1) + Len(EncodeImport(m.imports[i]))
                 /\ At(b, ImportAt(m, i - 1), EncodeImport(m.imports[i]))
  <1> DEFINE im == m.imports
             N == Len(m.imports)
             c == ImportList(im)
             h == ImportHead(m)
             J == Joined(im)
             B == Len(Before(m))
             M == Minimal(N)
  <1>1. /\ im \in Seq(Import) /\ N \in Nat /\ N \in 0..(U32 - 1)
        /\ M \in Seq(Nat) /\ Len(M) \in Nat /\ J[N] \in Seq(Nat) /\ Len(J[N]) \in Nat
        /\ c = M \o J[N] /\ c \in Seq(Nat) /\ Len(c) = Len(M) + Len(J[N]) /\ Len(c) < U32
    BY ImportListIs, Zenon
  <1>2. ImportSection \in Nat
    BY DEF ImportSection
  <1>3. Imported(m) = EncodeSection(ImportSection, c, m.padded)
    BY Zenon DEF Imported
  <1>4. /\ h \in Seq(Nat) /\ Imported(m) = h \o c
        /\ Len(h) \in Nat /\ Len(h \o c) = Len(h) + Len(c)
    <2>1. SectionLayout(ImportSection, c, m.padded, Len(c), SizeOf(c, m.padded), h, Imported(m))
      BY <1>1, <1>2, <1>3, SectionIs, Zenon DEF ImportHead
    <2>2. h \in Seq(Nat) /\ Imported(m) = h \o c
      BY <2>1, Zenon DEF SectionLayout
    <2> QED
      BY <1>1, <2>2, ConcatBytes, Zenon
  <1>5. B \in Nat /\ Len(Encode(m)) = (B + Len(Imported(m))) + Len(After(m)) /\ Len(After(m)) \in Nat
    BY ModuleIs, Zenon
  <1>6. At(b, B, h \o c)
    BY <1>4, SectionsAt, Zenon
  <1>7. At(b, B + Len(h), c)
    BY <1>1, <1>4, <1>5, <1>6, AtConcat, Zenon
  <1>s. CountAt(m) = B + Len(h) /\ ImportsAt(m) = CountAt(m) + Len(M)
        /\ \A i : ImportAt(m, i) = ImportsAt(m) + Len(J[i])
    BY Zenon DEF CountAt, ImportsAt, ImportAt
  <1>j. J \in [0..N -> Seq(Nat)] /\ J[0] = <<>> /\ \A i \in 1..N : J[i] = J[i - 1] \o EncodeImport(im[i])
    BY <1>1, JoinedSteps, Zenon
  <1>b. \A i \in 0..N : Begins(J[i], J[N])
    BY <1>1, JoinedBegins, Zenon
  <1>i. \A i \in 1..N : EncodeImport(im[i]) \in Seq(Nat)
    <2>1. \A i \in 1..N : im[i] \in Import
      BY <1>1, ElementOfSeq
    <2> QED
      BY <2>1, ImportParts, Zenon
  <1>e. Len(Encode(m)) = (B + (Len(h) + Len(c))) + Len(After(m))
    BY <1>4, <1>5, Zenon
  <1> HIDE DEF im, N, c, h, J, B, M
  <1>n. N \in Nat /\ Len(M) \in Nat /\ Len(J[N]) \in Nat /\ Len(h) \in Nat /\ B \in Nat
        /\ Len(After(m)) \in Nat /\ Len(c) = Len(M) + Len(J[N])
    BY <1>1, <1>4, <1>5, Zenon
  <1>8. CountAt(m) \in Nat /\ ImportsAt(m) \in Nat
    BY <1>n, <1>s
  <1>9. At(b, CountAt(m), M) /\ At(b, ImportsAt(m), J[N])
    <2>1. At(b, CountAt(m), M \o J[N])
      BY <1>1, <1>7, <1>s, Zenon
    <2>2. M \in Seq(Nat) /\ J[N] \in Seq(Nat) /\ CountAt(m) \in Nat
      BY <1>1, <1>8, Zenon
    <2>3. At(b, CountAt(m), M) /\ At(b, CountAt(m) + Len(M), J[N])
      BY <2>1, <2>2, AtConcat, Zenon
    <2> QED
      BY <1>s, <2>3, Zenon
  <1>10. ASSUME NEW i \in 0..N PROVE J[i] \in Seq(Nat) /\ Len(J[i]) \in Nat /\ Len(J[i]) <= Len(J[N])
                                    /\ At(b, ImportsAt(m), J[i])
    <2>1. J[i] \in Seq(Nat)
      BY <1>j
    <2>2. Begins(J[i], J[N])
      BY <1>b
    <2>3. At(b, ImportsAt(m), J[i])
      BY <1>1, <1>9, <2>1, <2>2, AtBegins, Zenon
    <2> QED
      BY <2>1, <2>2, <2>3, LenProperties DEF Begins
  <1>11. ASSUME NEW i \in 0..N PROVE ImportAt(m, i) \in Nat /\ ImportAt(m, i) <= Len(Encode(m))
    <2>1. PICK a \in Nat : a = Len(J[i]) /\ a <= Len(J[N])
      BY <1>10, Zenon
    <2>2. ImportAt(m, i) = ((B + Len(h)) + Len(M)) + a
      BY <1>s, <2>1, Zenon
    <2>3. PICK l \in Nat, w \in Nat, y \in Nat, z \in Nat :
             l = Len(h) /\ w = Len(M) /\ y = Len(J[N]) /\ z = Len(After(m))
      BY <1>n, Zenon
    <2>4. ImportAt(m, i) = ((B + l) + w) + a /\ Len(Encode(m)) = (B + (l + (w + y))) + z /\ a <= y
      BY <1>n, <1>e, <2>1, <2>2, <2>3, Zenon
    <2>5. \A B0 \in Nat : ((B0 + l) + w) + a \in Nat
                          /\ (a <= y => ((B0 + l) + w) + a <= (B0 + (l + (w + y))) + z)
      OBVIOUS
    <2> QED
      BY <1>n, <2>4, <2>5, Zenon
  <1>12. ASSUME NEW i \in 1..N
         PROVE  /\ ImportAt(m, i) = ImportAt(m, i - 1) + Len(EncodeImport(im[i]))
                /\ At(b, ImportAt(m, i - 1), EncodeImport(im[i]))
    <2>1. i \in 0..N /\ i - 1 \in 0..N
      BY <1>n
    <2>2. PICK x \in Seq(Nat), y \in Seq(Nat) : x = J[i - 1] /\ y = EncodeImport(im[i])
      BY <1>10, <1>i, <2>1, Zenon
    <2>3. J[i] = x \o y /\ Len(x \o y) = Len(x) + Len(y) /\ Len(x) \in Nat /\ Len(y) \in Nat
      BY <1>j, <2>2, ConcatBytes, Zenon
    <2>4. At(b, ImportsAt(m), x \o y)
      BY <1>10, <2>1, <2>3, Zenon
    <2>5. At(b, ImportsAt(m) + Len(x), y)
      BY <1>8, <2>4, AtConcat, Zenon
    <2>6. ImportsAt(m) + (Len(x) + Len(y)) = (ImportsAt(m) + Len(x)) + Len(y)
      BY <1>8, <2>3
    <2> QED
      BY <1>s, <2>2, <2>3, <2>5, <2>6, Zenon
  <1>13. ImportAt(m, 0) = ImportsAt(m)
    <2>1. Len(J[0]) = 0
      BY <1>j
    <2> QED
      BY <1>8, <1>s, <2>1
  <1>14. CountAt(m) <= Len(Encode(m)) /\ ImportsAt(m) <= Len(Encode(m))
    BY <1>n, <1>e, <1>s
  <1>15. /\ \A i \in 0..N : ImportAt(m, i) \in Nat /\ ImportAt(m, i) <= Len(Encode(m))
         /\ \A i \in 1..N : /\ ImportAt(m, i) = ImportAt(m, i - 1) + Len(EncodeImport(im[i]))
                            /\ At(b, ImportAt(m, i - 1), EncodeImport(im[i]))
    BY <1>11, <1>12, Zenon
  <1> QED
    BY <1>8, <1>9, <1>13, <1>14, <1>15, Zenon DEF N, im, M

\* Where the parts of one import are.
LEMMA ImportLayout ==
    ASSUME NEW m, WellFormed(m), NEW b, At(b, 0, Encode(m)), NEW i \in 1..Len(m.imports)
    PROVE  /\ m.imports[i] \in Import
           /\ ImportAt(m, i - 1) \in Nat /\ FieldAt(m, i) \in Nat /\ KindAt(m, i) \in Nat
           /\ At(b, ImportAt(m, i - 1), EncodeName(m.imports[i].module))
           /\ At(b, FieldAt(m, i), EncodeName(m.imports[i].field))
           /\ At(b, KindAt(m, i), <<m.imports[i].kind>>)
           /\ At(b, KindAt(m, i) + 1, KindTail(m.imports[i]))
           /\ FieldAt(m, i) < Len(Encode(m)) /\ KindAt(m, i) < Len(Encode(m))
           /\ (KindAt(m, i) + 1) + Len(KindTail(m.imports[i])) = ImportAt(m, i)
           /\ ImportAt(m, i) <= Len(Encode(m))
           /\ Len(Encode(m)) \in Nat
  <1> DEFINE x == m.imports[i]
             X == EncodeName(x.module)
             Y == EncodeName(x.field)
             K == <<x.kind>>
             T == KindTail(x)
             p == ImportAt(m, i - 1)
             E == Len(Encode(m))
  <1>1. m.imports \in Seq(Import) /\ Len(m.imports) \in Nat
    BY ImportListIs, Zenon
  <1>2. x \in Import /\ m.imports # <<>> /\ i \in 0..Len(m.imports) /\ i - 1 \in 0..Len(m.imports)
    BY <1>1, ElementOfSeq
  <1>3. /\ p \in Nat /\ ImportAt(m, i) <= E
        /\ ImportAt(m, i) = p + Len(EncodeImport(x)) /\ At(b, p, EncodeImport(x))
    BY <1>2, ImportsLayout, Zenon
  <1>4. /\ X \in Seq(Nat) /\ Y \in Seq(Nat) /\ K \in Seq(Nat) /\ T \in Seq(Nat)
        /\ Len(X) \in Nat /\ Len(Y) \in Nat /\ Len(K) = 1 /\ Len(T) \in Nat
        /\ X \o Y \in Seq(Nat) /\ (X \o Y) \o K \in Seq(Nat)
        /\ Len(X \o Y) = Len(X) + Len(Y)
        /\ Len((X \o Y) \o K) = (Len(X) + Len(Y)) + 1
        /\ EncodeImport(x) = ((X \o Y) \o K) \o T
        /\ Len(EncodeImport(x)) = ((Len(X) + Len(Y)) + 1) + Len(T)
    BY <1>2, ImportParts, Zenon
  <1>5. FieldAt(m, i) = p + Len(X) /\ KindAt(m, i) = (p + Len(X)) + Len(Y)
    BY Zenon DEF FieldAt, KindAt
  <1>6. E \in Nat
    BY ModuleIs, LenProperties, Zenon
  <1> HIDE DEF x, X, Y, K, T, p, E
  <1>7. At(b, p, (X \o Y) \o K) /\ At(b, p + ((Len(X) + Len(Y)) + 1), T)
    <2>1. At(b, p, ((X \o Y) \o K) \o T)
      BY <1>3, <1>4, Zenon
    <2> QED
      BY <1>3, <1>4, <2>1, AtConcat, Zenon
  <1>8. At(b, p, X \o Y) /\ At(b, p + (Len(X) + Len(Y)), K)
    BY <1>3, <1>4, <1>7, AtConcat, Zenon
  <1>9. At(b, p, X) /\ At(b, p + Len(X), Y)
    BY <1>3, <1>4, <1>8, AtConcat, Zenon
  <1>n. p \in Nat /\ Len(X) \in Nat /\ Len(Y) \in Nat /\ Len(T) \in Nat
    BY <1>3, <1>4, Zenon
  <1>10. /\ p + (Len(X) + Len(Y)) = (p + Len(X)) + Len(Y)
         /\ p + ((Len(X) + Len(Y)) + 1) = ((p + Len(X)) + Len(Y)) + 1
         /\ p + (((Len(X) + Len(Y)) + 1) + Len(T)) = (((p + Len(X)) + Len(Y)) + 1) + Len(T)
         /\ p + Len(X) \in Nat /\ (p + Len(X)) + Len(Y) \in Nat
    BY <1>n
  <1>11. ImportAt(m, i) = (KindAt(m, i) + 1) + Len(T)
    BY <1>3, <1>4, <1>5, <1>10, Zenon
  <1>12. p + Len(X) < E /\ (p + Len(X)) + Len(Y) < E
    <2>1. (((p + Len(X)) + Len(Y)) + 1) + Len(T) <= E
      BY <1>3, <1>5, <1>11, Zenon
    <2> QED
      BY <1>n, <1>6, <2>1
  <1>13. At(b, KindAt(m, i), K) /\ At(b, KindAt(m, i) + 1, T)
    BY <1>5, <1>7, <1>8, <1>10, Zenon
  <1> QED
    BY <1>2, <1>3, <1>5, <1>6, <1>9, <1>10, <1>11, <1>12, <1>13, Zenon DEF x, X, Y, K, T, p, E

-----------------------------------------------------------------------------
(* The scan of an upload.                                                  *)

\* The rejected names that begin the list of all.
LEMMA ForeignBegins ==
    ASSUME NEW im \in Seq(Import), NEW i \in 0..Len(im)
    PROVE  IsPrefix(ForeignUpTo(im)[i], ForeignUpTo(im)[Len(im)])
  <1> DEFINE g == ForeignUpTo(im)
             N == Len(im)
             Outside(j) == im[j].kind = Function /\ im[j].field \notin Alphabet
  <1>0. N \in Nat
    BY LenProperties
  <1>1. g \in [0..N -> Seq(Names)]
        /\ \A j \in 1..N : g[j] = IF Outside(j) THEN Append(g[j - 1], im[j].field) ELSE g[j - 1]
    BY ForeignSteps, Zenon
  <1>2. ASSUME NEW j \in 1..N PROVE Begins(g[j - 1], g[j])
    <2>0. im[j] \in Import
      BY ElementOfSeq
    <2>1. im[j].field \in Names
      <3>1. \A y \in Import : y.field \in Names
        BY DEF Import
      <3> QED
        BY <2>0, <3>1, Zenon
    <2>2. g[j - 1] \in Seq(Names)
      <3>1. j - 1 \in 0..N
        BY <1>0
      <3> HIDE DEF g, N
      <3> QED
        BY <1>1, <3>1
    <2>3. PICK x \in Seq(Names), y \in Names : x = g[j - 1] /\ y = im[j].field
      BY <2>1, <2>2, Zenon
    <2>4. Begins(x, x) /\ Begins(x, Append(x, y))
      <3>1. Len(x) \in Nat /\ Len(Append(x, y)) = Len(x) + 1
            /\ \A k \in 1..Len(x) : Append(x, y)[k] = x[k]
        BY AppendProperties, LenProperties
      <3> QED
        BY <3>1 DEF Begins
    <2> HIDE DEF Outside
    <2> QED
      BY <1>1, <2>3, <2>4, Zenon
  <1> HIDE DEF g, N
  <1>3. i \in 0..N /\ N \in 0..N
    BY <1>0 DEF N
  <1>4. Begins(g[i], g[N])
    BY <1>0, <1>1, <1>2, <1>3, Chain, Zenon
  <1>5. PICK x \in Seq(Names), y \in Seq(Names) : x = g[i] /\ y = g[N]
    BY <1>1, <1>3
  <1>6. Begins(x, y)
    BY <1>4, <1>5
  <1>7. IsPrefix(x, y)
    <2>1. Len(x) \in Nat /\ Len(y) \in Nat /\ Len(x) <= Len(y) /\ \A k \in 1..Len(x) : x[k] = y[k]
      BY <1>6, LenProperties DEF Begins
    <2>2. SubSeq(x, 1, Len(x)) = [k \in 1..Len(x) |-> x[k]]
      BY <2>1
    <2>3. SubSeq(y, 1, Len(x)) = [k \in 1..Len(x) |-> y[k]]
      BY <2>1
    <2> QED
      BY <2>1, <2>2, <2>3 DEF IsPrefix
  <1> QED
    BY <1>5, <1>7 DEF g, N

\* The bytes end before the module does.
Cut(u) == Len(u.bytes) < Len(Encode(u.module))

\* An upload of a module as a compiler writes it.
Scannable(u) == u \in Uploads \cup Runnable /\ u.head = "ok" /\ ~HasTableMax(u.module)

\* What there is to the bytes of an upload.
LEMMA UploadIs ==
    ASSUME NEW u, Scannable(u)
    PROVE  /\ WellFormed(u.module) /\ u.bytes \in Seq(Nat) /\ Len(u.bytes) \in Nat
           /\ At(u.bytes, 0, Encode(u.module))
           /\ Len(Encode(u.module)) \in Nat /\ Len(u.bytes) <= Len(Encode(u.module))
           /\ u.whole = (Len(u.bytes) = Len(Encode(u.module)))
           /\ u.whole => ~Cut(u)
  <1> DEFINE b == u.bytes
             E == Encode(u.module)
  <1>1. u.bytes \in Seq(Byte)
    BY FirmwareAssumption DEF Scannable
  <1>2. PICK n \in 0..Len(E) : WellFormed(u.module) /\ b = SubSeq(E, 1, n) /\ u.whole = (n = Len(E))
    BY UploadAssumption DEF Scannable
  <1>3. E \in Seq(Nat) /\ Len(E) \in Nat
    BY <1>2, ModuleIs, LenProperties
  <1> HIDE DEF E
  <1>4. SubSeq(E, 1, n) = [i \in 1..n |-> E[i]] /\ \A i \in 1..n : E[i] \in Nat
    <2>1. \A i \in 1..n : i \in 1..Len(E)
      BY <1>3
    <2> QED
      BY <1>3, <2>1, ElementOfSeq
  <1>5. n \in Nat /\ n <= Len(E)
    BY <1>3
  <1>6. SubSeq(E, 1, n) \in Seq(Nat) /\ Len(SubSeq(E, 1, n)) = n
        /\ \A i \in 1..n : SubSeq(E, 1, n)[i] = E[i]
    BY <1>4, <1>5
  <1> HIDE DEF b
  <1>7. b \in Seq(Nat) /\ Len(b) = n /\ \A i \in 1..n : b[i] = E[i]
    BY <1>2, <1>6, Zenon
  <1>8. At(b, 0, E)
    <2>1. \A i \in 1..Len(E) : 0 + i <= Len(b) => 0 + i = i /\ i \in 1..n
      BY <1>3, <1>5, <1>7
    <2> QED
      BY <1>7, <2>1 DEF At
  <1>9. u.whole => ~(Len(b) < Len(E))
    <2>1. u.whole => n = Len(E)
      BY <1>2, Zenon
    <2>2. ~(Len(E) < Len(E))
      BY <1>3
    <2> QED
      BY <1>7, <2>1, <2>2, Zenon
  <1> QED
    BY <1>2, <1>3, <1>5, <1>7, <1>8, <1>9, Zenon DEF b, E, Cut

\* Past the end of bytes that were cut off.
Past(u, s) == s.pos >= Len(u.bytes) /\ Cut(u)

\* At the i-th import, or after the last.
OnTrack(u, s, i) ==
    LET m == u.module
        N == Len(m.imports)
    IN  /\ s.left = (N + 1) - i
        /\ s.rejected = ForeignUpTo(m.imports)[i - 1]
        /\ s.at = "import" => i \in 1..(N + 1) /\ s.pos = ImportAt(m, i - 1)
        /\ s.at = "field" => i \in 1..N /\ s.pos = FieldAt(m, i)
        /\ s.at = "kind" => i \in 1..N /\ s.pos = KindAt(m, i) /\ s.field = m.imports[i].field

\* What the scan s of an upload u has found so far is right.
ScanRight(u, s) ==
    LET m == u.module
    IN  /\ s.at = "section" =>
              /\ s.rejected = <<>>
              /\ \/ s.pos = 0 /\ m.before
                 \/ s.pos = Len(Before(m))
                 \/ s.pos >= Len(u.bytes) /\ (m.imports = <<>> \/ Cut(u))
        /\ s.at \in {"import", "field", "kind"} =>
              /\ m.imports # <<>>
              /\ Past(u, s) \/ \E i \in 1..(Len(m.imports) + 1) : OnTrack(u, s, i)
        /\ s.at \in {"accept", "refuse"} => (u.whole => s.rejected = Foreign(m))
        /\ IsPrefix(s.rejected, Foreign(m))
        /\ s.pos \in Nat

\* Nothing rejected is a prefix of anything.
LEMMA NothingRejected ==
    ASSUME NEW m, WellFormed(m)
    PROVE  /\ IsPrefix(<<>>, Foreign(m)) /\ Foreign(m) \in Seq(Names)
           /\ m.imports = <<>> => Foreign(m) = <<>>
           /\ ForeignUpTo(m.imports)[0] = <<>>
  <1>1. m.imports \in Seq(Import) /\ Len(m.imports) \in Nat
    BY ImportListIs, Zenon
  <1>2. ForeignUpTo(m.imports)[0] = <<>> /\ ForeignUpTo(m.imports) \in [0..Len(m.imports) -> Seq(Names)]
    BY <1>1, ForeignSteps, Zenon
  <1>3. 0 \in 0..Len(m.imports) /\ Len(m.imports) \in 0..Len(m.imports)
    BY <1>1
  <1>4. IsPrefix(<<>>, Foreign(m))
    <2>1. IsPrefix(ForeignUpTo(m.imports)[0], ForeignUpTo(m.imports)[Len(m.imports)])
      BY <1>1, <1>3, ForeignBegins, Zenon
    <2> QED
      BY <1>2, <2>1, Zenon DEF Foreign
  <1>5. Foreign(m) \in Seq(Names)
    BY <1>2, <1>3 DEF Foreign
  <1>6. m.imports = <<>> => Foreign(m) = <<>>
    <2>1. m.imports = <<>> => Len(m.imports) = 0
      OBVIOUS
    <2> QED
      BY <1>2, <2>1, Zenon DEF Foreign
  <1> QED
    BY <1>2, <1>4, <1>5, <1>6

\* The sections around the imports, as they are read.
LEMMA OtherSections ==
    ASSUME NEW m, WellFormed(m), NEW b \in Seq(Nat), NEW p \in Nat, p < Len(b)
    PROVE  /\ m.before /\ At(b, p, Before(m)) =>
                 b[p + 1] # ImportSection
                 /\ Reads(b, p, Before(m), AfterLeb(b, p + 1) + Leb(b, p + 1))
           /\ m.after /\ At(b, p, After(m)) =>
                 b[p + 1] # ImportSection
                 /\ Reads(b, p, After(m), AfterLeb(b, p + 1) + Leb(b, p + 1))
           /\ m.imports # <<>> /\ At(b, p, Imported(m)) =>
                 b[p + 1] = ImportSection /\ Reads(b, p, ImportHead(m), AfterLeb(b, p + 1))
  <1>1. 1 # ImportSection /\ 3 # ImportSection /\ 1 \in Nat /\ 3 \in Nat /\ ImportSection \in Nat
    BY DEF ImportSection
  <1>2. <<0, 2>> \in Seq(Nat) /\ Len(<<0, 2>>) < U32 /\ <<2>> \in Seq(Nat) /\ Len(<<2>>) < U32
    BY ValidationAssumption
  <1>3. ASSUME m.before, At(b, p, Before(m))
        PROVE  b[p + 1] # ImportSection /\ Reads(b, p, Before(m), AfterLeb(b, p + 1) + Leb(b, p + 1))
    <2>1. Before(m) = EncodeSection(1, <<0, 2>>, FALSE)
      BY <1>3, Zenon DEF Before
    <2>3. QED
      <3>1. PICK c, padded : c \in Seq(Nat) /\ c = <<0, 2>> /\ Len(c) < U32 /\ padded = FALSE
        BY <1>2, Zenon
      <3>2. At(b, p, EncodeSection(1, c, padded))
        BY <1>3, <2>1, <3>1, Zenon
      <3>3. c \in Seq(Nat) /\ Len(c) < U32
        BY <3>1, Zenon
      <3>4. b[p + 1] = 1 /\ Reads(b, p, EncodeSection(1, c, padded), AfterLeb(b, p + 1) + Leb(b, p + 1))
        BY <1>1, <3>2, <3>3, ReadsSection
      <3> QED
        BY <1>1, <2>1, <3>1, <3>4, Zenon
  <1>4. ASSUME m.after, At(b, p, After(m))
        PROVE  b[p + 1] # ImportSection /\ Reads(b, p, After(m), AfterLeb(b, p + 1) + Leb(b, p + 1))
    <2>1. After(m) = EncodeSection(3, <<2>>, FALSE)
      BY <1>4, Zenon DEF After
    <2>3. QED
      <3>1. PICK c, padded : c \in Seq(Nat) /\ c = <<2>> /\ Len(c) < U32 /\ padded = FALSE
        BY <1>2, Zenon
      <3>2. At(b, p, EncodeSection(3, c, padded))
        BY <1>4, <2>1, <3>1, Zenon
      <3>3. c \in Seq(Nat) /\ Len(c) < U32
        BY <3>1, Zenon
      <3>4. b[p + 1] = 3 /\ Reads(b, p, EncodeSection(3, c, padded), AfterLeb(b, p + 1) + Leb(b, p + 1))
        BY <1>1, <3>2, <3>3, ReadsSection
      <3> QED
        BY <1>1, <2>1, <3>1, <3>4, Zenon
  <1>5. ASSUME m.imports # <<>>, At(b, p, Imported(m))
        PROVE  b[p + 1] = ImportSection /\ Reads(b, p, ImportHead(m), AfterLeb(b, p + 1))
    <2>1. Imported(m) = EncodeSection(ImportSection, ImportList(m.imports), m.padded)
      BY <1>5, Zenon DEF Imported
    <2>2. ImportList(m.imports) \in Seq(Nat) /\ Len(ImportList(m.imports)) < U32
      BY ImportListIs, Zenon
    <2>3. QED
      <3>1. PICK c \in Seq(Nat) : c = ImportList(m.imports) /\ Len(c) < U32
        BY <2>2, Zenon
      <3>2. At(b, p, EncodeSection(ImportSection, c, m.padded))
        BY <1>5, <2>1, <3>1, Zenon
      <3>3. b[p + 1] = ImportSection
            /\ Reads(b, p, SectionHead(ImportSection, c, m.padded), AfterLeb(b, p + 1))
        BY <1>1, <3>1, <3>2, ReadsSection
      <3> QED
        BY <3>1, <3>3, Zenon DEF ImportHead
  <1> QED
    BY <1>3, <1>4, <1>5, Zenon

\* The scan goes over a section that is not the import section.
LEMMA SkipRight ==
    ASSUME NEW u, Scannable(u), NEW s, ScanRight(u, s), s.at = "section", s.pos < Len(u.bytes),
           u.bytes[s.pos + 1] # ImportSection,
           NEW t, t.at = "section", t.rejected = s.rejected,
           t.pos = AfterLeb(u.bytes, s.pos + 1) + Leb(u.bytes, s.pos + 1)
    PROVE  ScanRight(u, t)
  <1> DEFINE b == u.bytes
             m == u.module
             B == Len(Before(m))
             E == Len(Encode(m))
  <1>1. /\ WellFormed(m) /\ b \in Seq(Nat) /\ Len(b) \in Nat /\ At(b, 0, Encode(m))
        /\ E \in Nat /\ Len(b) <= E
    BY UploadIs, Zenon
  <1>2. /\ B \in Nat /\ Len(Imported(m)) \in Nat /\ Len(After(m)) \in Nat
        /\ E = (B + Len(Imported(m))) + Len(After(m))
        /\ (m.imports = <<>> => Len(Imported(m)) = 0) /\ (~m.after => Len(After(m)) = 0)
    BY <1>1, ModuleIs, Zenon
  <1>3. At(b, 0, Before(m)) /\ At(b, B, Imported(m)) /\ At(b, B + Len(Imported(m)), After(m))
    BY <1>1, SectionsAt, Zenon
  <1>4. /\ s.pos \in Nat /\ s.rejected = <<>> /\ IsPrefix(s.rejected, Foreign(m))
        /\ \/ s.pos = 0 /\ m.before
           \/ s.pos = B
           \/ s.pos >= Len(b) /\ (m.imports = <<>> \/ Cut(u))
    BY Zenon DEF ScanRight
  <1>5. s.pos < Len(b) /\ ~(s.pos >= Len(b))
    BY <1>1, <1>4
  <1>6. t.pos \in Nat
    <2>1. s.pos + 1 \in Nat
      BY <1>4
    <2>2. PICK x \in Nat, y \in Nat : x = AfterLeb(b, s.pos + 1) /\ y = Leb(b, s.pos + 1)
      BY <1>1, <2>1, AfterLebPast, LebRange, Zenon
    <2>3. t.pos = x + y
      BY <2>2, Zenon
    <2> QED
      BY <2>3
  <1>7. \/ t.pos = B
        \/ t.pos >= Len(b) /\ (m.imports = <<>> \/ Cut(u))
    <2>1. CASE s.pos = 0 /\ m.before
      <3>1. Reads(b, 0, Before(m), t.pos)
        BY <1>1, <1>3, <1>4, <1>5, <2>1, OtherSections, Zenon
      <3>2. IF 0 + B <= Len(b) THEN t.pos = 0 + B ELSE t.pos >= Len(b)
        BY <3>1, Zenon DEF Reads
      <3>3. 0 + B = B /\ (~(0 + B <= Len(b)) => Len(b) < E)
        BY <1>1, <1>2
      <3> QED
        BY <3>2, <3>3, Zenon DEF Cut
    <2>2. CASE s.pos = B
      <3>1. m.imports = <<>>
        BY <1>1, <1>3, <1>4, <1>5, <2>2, OtherSections, Zenon
      <3>2. B + Len(Imported(m)) = B
        BY <1>2, <3>1
      <3>3. m.after
        <4>1. SUFFICES ASSUME ~m.after PROVE FALSE
          OBVIOUS
        <4>2. E = (B + 0) + 0
          BY <1>2, <3>1, <4>1, Zenon
        <4> QED
          BY <1>1, <1>2, <1>5, <2>2, <4>2
      <3>4. Reads(b, B, After(m), t.pos)
        BY <1>1, <1>3, <1>4, <1>5, <2>2, <3>2, <3>3, OtherSections, Zenon
      <3>5. IF B + Len(After(m)) <= Len(b) THEN t.pos = B + Len(After(m)) ELSE t.pos >= Len(b)
        BY <3>4, Zenon DEF Reads
      <3>6. E = B + Len(After(m))
        BY <1>2, <3>2, Zenon
      <3>7. t.pos >= Len(b)
        BY <1>1, <3>5, <3>6
      <3> QED
        BY <3>1, <3>7, Zenon
    <2> QED
      BY <1>4, <1>5, <2>1, <2>2, Zenon
  <1>8. t.at # "import" /\ t.at # "field" /\ t.at # "kind" /\ t.at # "accept" /\ t.at # "refuse"
    OBVIOUS
  <1> QED
    BY <1>4, <1>6, <1>7, <1>8, Zenon DEF ScanRight

\* The scan enters the import section at its first import.
LEMMA EnterRight ==
    ASSUME NEW u, Scannable(u), NEW s, ScanRight(u, s), s.at = "section", s.pos < Len(u.bytes),
           u.bytes[s.pos + 1] = ImportSection,
           NEW t, t.at = "import", t.rejected = s.rejected,
           t.pos = AfterLeb(u.bytes, AfterLeb(u.bytes, s.pos + 1)),
           t.left = Leb(u.bytes, AfterLeb(u.bytes, s.pos + 1))
    PROVE  ScanRight(u, t)
  <1> DEFINE b == u.bytes
             m == u.module
             B == Len(Before(m))
             E == Len(Encode(m))
             N == Len(m.imports)
             h == ImportHead(m)
             q == AfterLeb(b, s.pos + 1)
  <1>1. /\ WellFormed(m) /\ b \in Seq(Nat) /\ Len(b) \in Nat /\ At(b, 0, Encode(m))
        /\ E \in Nat /\ Len(b) <= E
    BY UploadIs, Zenon
  <1>2. /\ B \in Nat /\ Len(Imported(m)) \in Nat /\ Len(After(m)) \in Nat
        /\ E = (B + Len(Imported(m))) + Len(After(m))
        /\ (m.imports = <<>> => Len(Imported(m)) = 0) /\ (~m.after => Len(After(m)) = 0)
    BY <1>1, ModuleIs, Zenon
  <1>3. At(b, 0, Before(m)) /\ At(b, B, Imported(m)) /\ At(b, B + Len(Imported(m)), After(m))
    BY <1>1, SectionsAt, Zenon
  <1>4. /\ s.pos \in Nat /\ s.rejected = <<>> /\ IsPrefix(s.rejected, Foreign(m))
        /\ \/ s.pos = 0 /\ m.before
           \/ s.pos = B
           \/ s.pos >= Len(b) /\ (m.imports = <<>> \/ Cut(u))
    BY Zenon DEF ScanRight
  <1>5. s.pos < Len(b) /\ ~(s.pos >= Len(b))
    BY <1>1, <1>4
  <1>6. s.pos = B
    <2>1. ~(s.pos = 0 /\ m.before)
      BY <1>1, <1>3, <1>4, <1>5, OtherSections
    <2> QED
      BY <1>4, <1>5, <2>1, Zenon
  <1>7. m.imports # <<>>
    <2>1. SUFFICES ASSUME m.imports = <<>> PROVE FALSE
      OBVIOUS
    <2>2. B + Len(Imported(m)) = B
      BY <1>2, <2>1
    <2>3. CASE m.after
      <3>1. At(b, s.pos, After(m))
        BY <1>3, <1>6, <2>2, Zenon
      <3> QED
        BY <1>1, <1>4, <1>5, <2>3, <3>1, OtherSections, Zenon
    <2>4. CASE ~m.after
      <3>1. E = (B + 0) + 0
        BY <1>2, <2>1, <2>4, Zenon
      <3>2. B \in Nat /\ E <= B /\ B < Len(b)
        <4>1. B \in Nat /\ B < Len(b)
          BY <1>2, <1>5, <1>6, Zenon
        <4>2. \A x \in Nat : (x + 0) + 0 <= x
          OBVIOUS
        <4> QED
          BY <3>1, <4>1, <4>2, Zenon
      <3>3. PICK e, l, k : e = E /\ l = Len(b) /\ k = B
        OBVIOUS
      <3>4. e \in Nat /\ l \in Nat /\ k \in Nat /\ e <= k /\ k < l /\ l <= e
        BY <1>1, <3>2, <3>3, Zenon
      <3> QED
        BY <3>4
    <2> QED
      BY <2>3, <2>4
  <1>8. Reads(b, B, h, q)
    BY <1>1, <1>3, <1>4, <1>5, <1>6, <1>7, OtherSections
  <1>9. /\ CountAt(m) \in Nat /\ ImportsAt(m) \in Nat /\ ImportAt(m, 0) = ImportsAt(m)
        /\ At(b, CountAt(m), Minimal(N)) /\ CountAt(m) <= E /\ ImportsAt(m) <= E
        /\ CountAt(m) = B + Len(h) /\ ImportsAt(m) = CountAt(m) + Len(Minimal(N))
    BY <1>1, <1>7, ImportsLayout, Zenon DEF CountAt, ImportsAt
  <1>10. N \in 0..(U32 - 1) /\ N \in Nat
    BY <1>1, ImportListIs, Zenon
  <1>11. q \in Nat /\ t.pos \in Nat /\ (q >= Len(b) => t.pos >= Len(b))
    <2>1. s.pos + 1 \in Nat
      BY <1>4
    <2>2. q \in Nat
      BY <1>1, <2>1, AfterLebPast, Zenon
    <2> QED
      BY <1>1, <2>2, AfterLebPast, Zenon
  <1>12. IF CountAt(m) <= Len(b) THEN q = CountAt(m) ELSE q >= Len(b)
    BY <1>8, <1>9, Zenon DEF Reads
  <1>13. Past(u, t) \/ (t.pos = ImportsAt(m) /\ t.left = N)
    <2>1. CASE CountAt(m) <= Len(b)
      <3>1. q = CountAt(m)
        BY <1>12, <2>1, Zenon
      <3>2. Reads(b, CountAt(m), Minimal(N), t.pos)
            /\ (CountAt(m) + Len(Minimal(N)) <= Len(b) => t.left = N)
        BY <1>1, <1>9, <1>10, <3>1, ReadsMinimal, Zenon
      <3>3. IF ImportsAt(m) <= Len(b) THEN t.pos = ImportsAt(m) ELSE t.pos >= Len(b)
        BY <1>9, <3>2, Zenon DEF Reads
      <3>4. CASE ImportsAt(m) <= Len(b)
        BY <1>9, <3>2, <3>3, <3>4, Zenon
      <3>5. CASE ~(ImportsAt(m) <= Len(b))
        <4>1. Len(b) < E
          <5>1. ImportsAt(m) \in Nat /\ ImportsAt(m) <= E
            BY <1>9, Zenon
          <5> QED
            BY <1>1, <3>5, <5>1
        <4> QED
          BY <3>3, <3>5, <4>1, Zenon DEF Past, Cut
      <3> QED
        BY <3>4, <3>5
    <2>2. CASE ~(CountAt(m) <= Len(b))
      <3>1. Len(b) < E
        <4>1. CountAt(m) \in Nat /\ CountAt(m) <= E
          BY <1>9, Zenon
        <4> QED
          BY <1>1, <2>2, <4>1
      <3> QED
        BY <1>11, <1>12, <2>2, <3>1, Zenon DEF Past, Cut
    <2> QED
      BY <2>1, <2>2
  <1>14. ASSUME t.pos = ImportsAt(m), t.left = N
         PROVE  1 \in 1..(N + 1) /\ OnTrack(u, t, 1)
    <2>1. 1 \in 1..(N + 1) /\ (N + 1) - 1 = N /\ 1 - 1 = 0
      BY <1>10
    <2>2. ForeignUpTo(m.imports)[0] = <<>>
      BY <1>1, NothingRejected, Zenon
    <2>3. t.rejected = ForeignUpTo(m.imports)[1 - 1] /\ t.left = (N + 1) - 1 /\ t.pos = ImportAt(m, 1 - 1)
      BY <1>4, <1>9, <1>14, <2>1, <2>2, Zenon
    <2>4. t.at # "field" /\ t.at # "kind"
      OBVIOUS
    <2> QED
      BY <2>1, <2>3, <2>4, Zenon DEF OnTrack
  <1>15. t.at # "section" /\ t.at # "accept" /\ t.at # "refuse"
    OBVIOUS
  <1> QED
    BY <1>4, <1>7, <1>11, <1>13, <1>14, <1>15, Zenon DEF ScanRight

\* The scan ends with the right verdict.
LEMMA EndsRight ==
    ASSUME NEW u, Scannable(u), NEW s, ScanRight(u, s),
           (s.at = "section" /\ s.pos >= Len(u.bytes)) \/ (s.at = "import" /\ s.left = 0),
           NEW t, t.at \in {"accept", "refuse"}, t.rejected = s.rejected, t.pos = s.pos
    PROVE  ScanRight(u, t)
  <1> DEFINE b == u.bytes
             m == u.module
             B == Len(Before(m))
             E == Len(Encode(m))
             N == Len(m.imports)
  <1>1. /\ WellFormed(m) /\ b \in Seq(Nat) /\ Len(b) \in Nat /\ E \in Nat /\ (u.whole => ~Cut(u))
        /\ u.whole = (Len(b) = E)
    BY UploadIs, Zenon
  <1>2. /\ B \in Nat /\ Len(Imported(m)) \in Nat /\ Len(After(m)) \in Nat
        /\ E = (B + Len(Imported(m))) + Len(After(m))
        /\ (m.imports # <<>> => Len(Imported(m)) > 0) /\ (m.before => B > 0)
    BY <1>1, ModuleIs, Zenon
  <1>3. (m.imports = <<>> => Foreign(m) = <<>>) /\ N \in Nat
    BY <1>1, NothingRejected, ImportListIs, Zenon
  <1>4. IsPrefix(s.rejected, Foreign(m)) /\ s.pos \in Nat
    BY Zenon DEF ScanRight
  <1>5. ASSUME u.whole PROVE s.rejected = Foreign(m)
    <2>0. Len(b) = E /\ ~Cut(u)
      BY <1>1, <1>5, Zenon
    <2>1. CASE s.at = "section" /\ s.pos >= Len(b)
      <3>1. s.rejected = <<>> /\ \/ s.pos = 0 /\ m.before
                                 \/ s.pos = B
                                 \/ m.imports = <<>> \/ Cut(u)
        BY <2>1, Zenon DEF ScanRight
      <3>2. ~(s.pos = 0 /\ m.before)
        <4>1. SUFFICES ASSUME s.pos = 0, m.before PROVE FALSE
          OBVIOUS
        <4>2. B > 0
          BY <1>2, <4>1, Zenon
        <4> QED
          BY <1>2, <2>0, <2>1, <4>1, <4>2
      <3>3. s.pos = B => m.imports = <<>>
        <4>1. SUFFICES ASSUME s.pos = B, m.imports # <<>> PROVE FALSE
          OBVIOUS
        <4>2. Len(Imported(m)) > 0
          BY <1>2, <4>1, Zenon
        <4> QED
          BY <1>2, <2>0, <2>1, <4>1, <4>2
      <3> QED
        BY <1>3, <2>0, <3>1, <3>2, <3>3, Zenon
    <2>2. CASE s.at = "import" /\ s.left = 0
      <3>1. PICK i \in 1..(N + 1) : OnTrack(u, s, i)
        BY <2>0, <2>2, Zenon DEF ScanRight, Past
      <3>2. s.left = (N + 1) - i /\ s.rejected = ForeignUpTo(m.imports)[i - 1]
        BY <3>1, Zenon DEF OnTrack
      <3>3. i - 1 = N
        BY <1>3, <2>2, <3>2
      <3> QED
        BY <3>2, <3>3, Zenon DEF Foreign
    <2> QED
      BY <2>1, <2>2
  <1>6. t.at # "section" /\ t.at # "import" /\ t.at # "field" /\ t.at # "kind"
    OBVIOUS
  <1> QED
    BY <1>4, <1>5, <1>6, Zenon DEF ScanRight

\* Reading on leads to the right place, or past the end of bytes that were
\* cut off; only there is it a panic.
LEMMA ReadsOn ==
    ASSUME NEW u, Scannable(u), NEW next \in Nat, NEW right \in Nat, right <= Len(Encode(u.module)),
           IF right <= Len(u.bytes) THEN next = right ELSE next >= Len(u.bytes)
    PROVE  /\ next >= Fault(u.bytes) => Cut(u)
           /\ next = right \/ (next >= Len(u.bytes) /\ Cut(u))
  <1>1. PICK l, e : l = Len(u.bytes) /\ e = Len(Encode(u.module))
    OBVIOUS
  <1>2. l \in Nat /\ e \in Nat /\ right <= e /\ (IF right <= l THEN next = right ELSE next >= l)
    BY <1>1, UploadIs, Zenon
  <1>3. (next >= l + 3 => l < e) /\ (next = right \/ (next >= l /\ l < e))
    BY <1>2
  <1> QED
    BY <1>1, <1>3, Zenon DEF Fault, Cut

\* The next import of a scan on track.
LEMMA TrackStep ==
    ASSUME NEW u, Scannable(u), NEW i \in 1..(Len(u.module.imports) + 1), NEW s, OnTrack(u, s, i),
           s.at = "import" => s.left > 0, s.at \in {"import", "field", "kind"}
    PROVE  i \in 1..Len(u.module.imports)
  <1>1. PICK N \in Nat : N = Len(u.module.imports)
    BY UploadIs, ImportListIs, Zenon
  <1>2. CASE s.at = "import"
    <2>1. s.left = (N + 1) - i /\ s.left > 0 /\ i \in 1..(N + 1)
      BY <1>1, <1>2, Zenon DEF OnTrack
    <2>2. i \in 1..N
      BY <2>1
    <2> QED
      BY <1>1, <2>2, Zenon
  <1>3. CASE s.at # "import"
    BY <1>3 DEF OnTrack
  <1> QED
    BY <1>2, <1>3

\* The name of an import's module is read.
LEMMA ModuleNameRight ==
    ASSUME NEW u, Scannable(u), NEW s, ScanRight(u, s), s.at = "import", s.left > 0,
           NEW t, t.at = "field", t.rejected = s.rejected, t.left = s.left
    PROVE  LET next == AfterName(u.bytes, s.pos)
           IN  /\ next \in Nat /\ (next >= Fault(u.bytes) => Cut(u))
               /\ t.pos = next => ScanRight(u, t)
  <1> DEFINE b == u.bytes
             m == u.module
             N == Len(m.imports)
             next == AfterName(b, s.pos)
  <1>1. WellFormed(m) /\ b \in Seq(Nat) /\ Len(b) \in Nat /\ At(b, 0, Encode(m))
    BY UploadIs, Zenon
  <1>2. /\ s.pos \in Nat /\ IsPrefix(s.rejected, Foreign(m)) /\ m.imports # <<>>
        /\ Past(u, s) \/ \E i \in 1..(N + 1) : OnTrack(u, s, i)
    BY Zenon DEF ScanRight
  <1>3. t.at # "section" /\ t.at # "import" /\ t.at # "kind" /\ t.at # "accept" /\ t.at # "refuse"
    OBVIOUS
  <1>4. CASE Past(u, s)
    <2>1. next \in Nat /\ next >= Len(b) /\ Cut(u)
      BY <1>1, <1>2, <1>4, AfterNamePast, Zenon DEF Past
    <2> QED
      BY <1>2, <1>3, <2>1, Zenon DEF ScanRight, Past
  <1>5. ASSUME NEW i \in 1..(N + 1), OnTrack(u, s, i)
        PROVE  /\ next \in Nat /\ (next >= Fault(b) => Cut(u))
               /\ t.pos = next => ScanRight(u, t)
    <2>1. i \in 1..N
      BY <1>5, TrackStep
    <2>2. s.pos = ImportAt(m, i - 1) /\ s.left = (N + 1) - i
          /\ s.rejected = ForeignUpTo(m.imports)[i - 1]
      BY <1>5, Zenon DEF OnTrack
    <2>3. /\ m.imports[i] \in Import /\ FieldAt(m, i) \in Nat
          /\ At(b, ImportAt(m, i - 1), EncodeName(m.imports[i].module))
          /\ FieldAt(m, i) < Len(Encode(m)) /\ Len(Encode(m)) \in Nat
          /\ FieldAt(m, i) = ImportAt(m, i - 1) + Len(EncodeName(m.imports[i].module))
      BY <1>1, <2>1, ImportLayout, Zenon DEF FieldAt
    <2>4. m.imports[i].module \in Names
      <3>1. \A y \in Import : y.module \in Names
        BY DEF Import
      <3> QED
        BY <2>3, <3>1, Zenon
    <2>5. Reads(b, s.pos, EncodeName(m.imports[i].module), next)
      BY <1>1, <1>2, <2>2, <2>3, <2>4, ReadsName, Zenon
    <2>6. next \in Nat /\ IF FieldAt(m, i) <= Len(b) THEN next = FieldAt(m, i) ELSE next >= Len(b)
      BY <2>2, <2>3, <2>5, Zenon DEF Reads
    <2>7. FieldAt(m, i) <= Len(Encode(m))
      <3>1. FieldAt(m, i) \in Nat /\ FieldAt(m, i) < Len(Encode(m)) /\ Len(Encode(m)) \in Nat
        BY <2>3, Zenon
      <3> QED
        BY <3>1
    <2>8. (next >= Fault(b) => Cut(u)) /\ (next = FieldAt(m, i) \/ (next >= Len(b) /\ Cut(u)))
      BY <2>3, <2>6, <2>7, ReadsOn, Zenon
    <2>9. ASSUME t.pos = FieldAt(m, i) PROVE OnTrack(u, t, i)
      BY <1>3, <2>1, <2>2, <2>9, Zenon DEF OnTrack
    <2>10. ASSUME t.pos = next PROVE Past(u, t) \/ OnTrack(u, t, i)
      BY <2>8, <2>9, <2>10, Zenon DEF Past
    <2> QED
      BY <1>2, <1>3, <2>6, <2>8, <2>10, Zenon DEF ScanRight
  <1> QED
    BY <1>2, <1>4, <1>5, Zenon

\* The name of an import's field is read, and kept.
LEMMA FieldNameRight ==
    ASSUME NEW u, Scannable(u), NEW s, ScanRight(u, s), s.at = "field",
           NEW t, t.at = "kind", t.rejected = s.rejected, t.left = s.left,
           t.field = Name(u.bytes, s.pos)
    PROVE  LET next == AfterName(u.bytes, s.pos)
           IN  /\ next \in Nat /\ (next >= Fault(u.bytes) => Cut(u))
               /\ t.pos = next => ScanRight(u, t)
  <1> DEFINE b == u.bytes
             m == u.module
             N == Len(m.imports)
             next == AfterName(b, s.pos)
  <1>1. WellFormed(m) /\ b \in Seq(Nat) /\ Len(b) \in Nat /\ At(b, 0, Encode(m))
    BY UploadIs, Zenon
  <1>2. /\ s.pos \in Nat /\ IsPrefix(s.rejected, Foreign(m)) /\ m.imports # <<>>
        /\ Past(u, s) \/ \E i \in 1..(N + 1) : OnTrack(u, s, i)
    BY Zenon DEF ScanRight
  <1>3. t.at # "section" /\ t.at # "import" /\ t.at # "field" /\ t.at # "accept" /\ t.at # "refuse"
    OBVIOUS
  <1>4. CASE Past(u, s)
    <2>1. next \in Nat /\ next >= Len(b) /\ Cut(u)
      BY <1>1, <1>2, <1>4, AfterNamePast, Zenon DEF Past
    <2> QED
      BY <1>2, <1>3, <2>1, Zenon DEF ScanRight, Past
  <1>5. ASSUME NEW i \in 1..(N + 1), OnTrack(u, s, i)
        PROVE  /\ next \in Nat /\ (next >= Fault(b) => Cut(u))
               /\ t.pos = next => ScanRight(u, t)
    <2>1. i \in 1..N /\ s.pos = FieldAt(m, i) /\ s.left = (N + 1) - i
          /\ s.rejected = ForeignUpTo(m.imports)[i - 1]
      BY <1>5, Zenon DEF OnTrack
    <2>3. /\ m.imports[i] \in Import /\ FieldAt(m, i) \in Nat /\ KindAt(m, i) \in Nat
          /\ At(b, FieldAt(m, i), EncodeName(m.imports[i].field))
          /\ KindAt(m, i) < Len(Encode(m)) /\ Len(Encode(m)) \in Nat
          /\ KindAt(m, i) = FieldAt(m, i) + Len(EncodeName(m.imports[i].field))
      BY <1>1, <2>1, ImportLayout, Zenon DEF KindAt
    <2>4. m.imports[i].field \in Names
      <3>1. \A y \in Import : y.field \in Names
        BY DEF Import
      <3> QED
        BY <2>3, <3>1, Zenon
    <2>5. Reads(b, s.pos, EncodeName(m.imports[i].field), next)
          /\ (KindAt(m, i) <= Len(b) => t.field = m.imports[i].field)
      BY <1>1, <1>2, <2>1, <2>3, <2>4, ReadsName, Zenon
    <2>6. next \in Nat /\ IF KindAt(m, i) <= Len(b) THEN next = KindAt(m, i) ELSE next >= Len(b)
      BY <2>1, <2>3, <2>5, Zenon DEF Reads
    <2>7. KindAt(m, i) <= Len(Encode(m))
      <3>1. KindAt(m, i) \in Nat /\ KindAt(m, i) < Len(Encode(m)) /\ Len(Encode(m)) \in Nat
        BY <2>3, Zenon
      <3> QED
        BY <3>1
    <2>8. (next >= Fault(b) => Cut(u)) /\ (next = KindAt(m, i) \/ (next >= Len(b) /\ Cut(u)))
      BY <2>3, <2>6, <2>7, ReadsOn, Zenon
    <2>9. ASSUME t.pos = KindAt(m, i), t.field = m.imports[i].field PROVE OnTrack(u, t, i)
      BY <1>3, <2>1, <2>9, Zenon DEF OnTrack
    <2>a. CASE KindAt(m, i) <= Len(b)
      BY <1>2, <1>3, <2>5, <2>6, <2>8, <2>9, <2>a, Zenon DEF ScanRight
    <2>b. CASE ~(KindAt(m, i) <= Len(b))
      <3>1. next >= Len(b) /\ Cut(u)
        <4>1. PICK k, l, e : k = KindAt(m, i) /\ l = Len(b) /\ e = Len(Encode(m))
          OBVIOUS
        <4>2. k \in Nat /\ l \in Nat /\ e \in Nat /\ k <= e /\ ~(k <= l)
          BY <1>1, <2>3, <2>7, <2>b, <4>1, Zenon
        <4>3. l < e
          BY <4>2
        <4> QED
          BY <2>6, <2>b, <4>1, <4>3, Zenon DEF Cut
      <3> QED
        BY <1>2, <1>3, <2>6, <2>8, <3>1, Zenon DEF ScanRight, Past
    <2> QED
      BY <2>a, <2>b, Zenon
  <1> QED
    BY <1>2, <1>4, <1>5, Zenon

\* The kind of an import is read: a function outside the alphabet is rejected.
LEMMA KindRight ==
    ASSUME NEW u, Scannable(u), NEW s, ScanRight(u, s), s.at = "kind",
           NEW t, t.at = "import", t.left = s.left - 1,
           t.rejected = IF u.bytes[s.pos + 1] = Function /\ s.field \notin Alphabet
                        THEN Append(s.rejected, s.field) ELSE s.rejected
    PROVE  LET next == IF s.pos < Len(u.bytes) THEN AfterKind(u.bytes, s.pos) ELSE Fault(u.bytes)
           IN  /\ next >= Fault(u.bytes) => Cut(u)
               /\ next < Fault(u.bytes) /\ t.pos = next => ScanRight(u, t)
  <1> DEFINE b == u.bytes
             m == u.module
             N == Len(m.imports)
             next == IF s.pos < Len(b) THEN AfterKind(b, s.pos) ELSE Fault(b)
  <1>1. WellFormed(m) /\ b \in Seq(Nat) /\ Len(b) \in Nat /\ At(b, 0, Encode(m)) /\ N \in Nat
        /\ m.imports \in Seq(Import)
    BY UploadIs, ImportListIs, Zenon
  <1>2. /\ s.pos \in Nat /\ IsPrefix(s.rejected, Foreign(m)) /\ m.imports # <<>>
        /\ Past(u, s) \/ \E i \in 1..(N + 1) : OnTrack(u, s, i)
    BY Zenon DEF ScanRight
  <1>3. t.at # "section" /\ t.at # "field" /\ t.at # "kind" /\ t.at # "accept" /\ t.at # "refuse"
    OBVIOUS
  <1>f. Fault(b) = Len(b) + 3
    BY DEF Fault
  <1>4. CASE Past(u, s)
    <2>1. ~(s.pos < Len(b)) /\ Cut(u)
      <3>1. s.pos >= Len(b) /\ Cut(u)
        BY <1>4, Zenon DEF Past
      <3>2. \A x, y \in Nat : x >= y => ~(x < y)
        OBVIOUS
      <3> QED
        BY <1>1, <1>2, <3>1, <3>2, Zenon
    <2>2. next = Fault(b)
      BY <2>1, Zenon
    <2>3. ~(Fault(b) < Fault(b))
      <3>1. \A x \in Nat : ~(x + 3 < x + 3)
        OBVIOUS
      <3> QED
        BY <1>1, <1>f, <3>1, Zenon
    <2> QED
      BY <2>1, <2>2, <2>3, Zenon
  <1>5. ASSUME NEW i \in 1..(N + 1), OnTrack(u, s, i)
        PROVE  /\ next >= Fault(b) => Cut(u)
               /\ next < Fault(b) /\ t.pos = next => ScanRight(u, t)
    <2>1. /\ i \in 1..N /\ s.pos = KindAt(m, i) /\ s.left = (N + 1) - i /\ s.field = m.imports[i].field
          /\ s.rejected = ForeignUpTo(m.imports)[i - 1]
      BY <1>5, Zenon DEF OnTrack
    <2>2. /\ m.imports[i] \in Import /\ KindAt(m, i) \in Nat
          /\ At(b, KindAt(m, i), <<m.imports[i].kind>>)
          /\ At(b, KindAt(m, i) + 1, KindTail(m.imports[i]))
          /\ KindAt(m, i) < Len(Encode(m)) /\ Len(Encode(m)) \in Nat
          /\ (KindAt(m, i) + 1) + Len(KindTail(m.imports[i])) = ImportAt(m, i)
          /\ ImportAt(m, i) <= Len(Encode(m))
      BY <1>1, <2>1, ImportLayout, Zenon
    <2>3. CASE ~(s.pos < Len(b))
      <3>1. Cut(u)
        <4>1. PICK k, l, e : k = KindAt(m, i) /\ l = Len(b) /\ e = Len(Encode(m))
          OBVIOUS
        <4>2. k \in Nat /\ l \in Nat /\ e \in Nat /\ k < e /\ ~(k < l)
          BY <1>1, <2>1, <2>2, <2>3, <4>1, Zenon
        <4>3. l < e
          BY <4>2
        <4> QED
          BY <4>1, <4>3, Zenon DEF Cut
      <3>2. next = Fault(b)
        BY <2>3, Zenon
      <3>3. ~(Fault(b) < Fault(b))
        <4>1. \A x \in Nat : ~(x + 3 < x + 3)
          OBVIOUS
        <4> QED
          BY <1>1, <1>f, <4>1, Zenon
      <3> QED
        BY <3>1, <3>2, <3>3, Zenon
    <2>4. CASE s.pos < Len(b)
      <3>1. ~(m.imports[i].kind = Table /\ m.imports[i].max)
        <4>1. i \in DOMAIN m.imports
          BY <1>1, <2>1
        <4> QED
          BY <4>1, Zenon DEF Scannable, HasTableMax
      <3>2. b[s.pos + 1] = m.imports[i].kind /\ Reads(b, s.pos + 1, KindTail(m.imports[i]), AfterKind(b, s.pos))
        BY <1>1, <1>2, <2>1, <2>2, <2>4, <3>1, ReadsKind, Zenon
      <3>3. next \in Nat /\ IF ImportAt(m, i) <= Len(b) THEN next = ImportAt(m, i) ELSE next >= Len(b)
        BY <2>1, <2>2, <2>4, <3>2, Zenon DEF Reads
      <3>4. i \in 0..N /\ ImportAt(m, i) \in Nat /\ (i + 1) - 1 = i /\ i + 1 \in 1..(N + 1)
            /\ ((N + 1) - i) - 1 = (N + 1) - (i + 1)
        <4>1. i \in 0..N /\ (i + 1) - 1 = i /\ i + 1 \in 1..(N + 1)
              /\ ((N + 1) - i) - 1 = (N + 1) - (i + 1)
          BY <1>1, <2>1
        <4>2. ImportAt(m, i) \in Nat
          BY <1>1, <1>2, <4>1, ImportsLayout, Zenon
        <4> QED
          BY <4>1, <4>2, Zenon
      <3>5. (next >= Fault(b) => Cut(u)) /\ (next = ImportAt(m, i) \/ (next >= Len(b) /\ Cut(u)))
        BY <2>2, <3>3, <3>4, ReadsOn, Zenon
      <3>6. t.rejected = ForeignUpTo(m.imports)[i]
        BY <1>1, <2>1, <3>2, ForeignSteps, Zenon
      <3>7. IsPrefix(t.rejected, Foreign(m))
        BY <1>1, <3>4, <3>6, ForeignBegins, Zenon DEF Foreign
      <3>8. ASSUME t.pos = ImportAt(m, i) PROVE OnTrack(u, t, i + 1)
        <4>1. t.left = (N + 1) - (i + 1) /\ t.rejected = ForeignUpTo(m.imports)[(i + 1) - 1]
              /\ t.pos = ImportAt(m, (i + 1) - 1)
          BY <2>1, <3>4, <3>6, <3>8, Zenon
        <4> QED
          BY <1>3, <3>4, <4>1, Zenon DEF OnTrack
      <3>9. ASSUME t.pos = next PROVE Past(u, t) \/ OnTrack(u, t, i + 1)
        BY <3>5, <3>8, <3>9, Zenon DEF Past
      <3> QED
        BY <1>2, <1>3, <3>3, <3>4, <3>5, <3>7, <3>9, Zenon DEF ScanRight
    <2> QED
      BY <2>3, <2>4
  <1> QED
    BY <1>2, <1>4, <1>5, Zenon

-----------------------------------------------------------------------------
(* The verdict.                                                            *)

ScanFields == {"at", "pos", "left", "field", "rejected"}
ScanSteps == {"section", "import", "field", "kind", "accept", "refuse"}

\* The inductive invariant: while a frame is handled the scan is right so
\* far, and nothing but a cut-off module has ended the receiver before the
\* module runs.
VerdictInv ==
    /\ DOMAIN scan = ScanFields
    /\ load = <<>> \/ \E u \in Uploads \cup Runnable : load = <<u>>
    /\ load = <<>> => scan.at = "none"
    /\ setting = "library" => load = <<>>
    /\ load # <<>> =>
          /\ scan.at \in ScanSteps \cup {"instantiate", "ran"}
          /\ scan.at \in ScanSteps => stage \in {"none", "dead"}
          /\ scan.at = "instantiate" => stage = "ready"
          /\ Scannable(load[1]) =>
                /\ ScanRight(load[1], scan)
                /\ stage = "dead" /\ scan.at # "ran" => Cut(load[1])

\* It is what the property needs.
LEMMA VerdictFollows == VerdictInv => VerdictIsRight
  <1> SUFFICES ASSUME VerdictInv, NEW k \in DOMAIN load, load[k].head = "ok",
                      ~HasTableMax(load[k].module)
               PROVE  /\ IsPrefix(scan.rejected, Foreign(load[k].module))
                      /\ load[k].whole =>
                            /\ scan.at \in {"accept", "refuse"} =>
                                  scan.rejected = Foreign(load[k].module)
                            /\ scan.at # "ran" => stage # "dead"
    BY Zenon DEF VerdictIsRight
  <1>1. load # <<>>
    OBVIOUS
  <1>2. PICK u \in Uploads \cup Runnable : load = <<u>>
    BY <1>1, Zenon DEF VerdictInv
  <1>3. k = 1 /\ load[1] = u
    BY <1>2
  <1>4. Scannable(u)
    BY <1>3, Zenon DEF Scannable
  <1>5. ScanRight(u, scan) /\ (stage = "dead" /\ scan.at # "ran" => Cut(u))
    BY <1>1, <1>3, <1>4, Zenon DEF VerdictInv
  <1>6. u.whole => ~Cut(u)
    BY <1>4, UploadIs, Zenon
  <1> QED
    BY <1>3, <1>5, <1>6, Zenon DEF ScanRight

\* It holds at start-up.
LEMMA VerdictInit == FirmInit => VerdictInv
  BY DEF FirmInit, VerdictInv, NoScan, ScanFields

\* The frame under way.
LEMMA Loaded ==
    ASSUME VerdictInv, scan.at # "none"
    PROVE  \E u \in Uploads \cup Runnable :
              load = <<u>> /\ load[1] = u /\ load # <<>> /\ bytes = u.bytes
  <1>1. PICK u \in Uploads \cup Runnable : load = <<u>>
    BY Zenon DEF VerdictInv
  <1>2. load[1] = u /\ load # <<>>
    BY <1>1
  <1> QED
    BY <1>1, <1>2, Zenon DEF bytes

\* A step of the scan.
LEMMA ScanKept ==
    ASSUME VerdictInv, NEW u \in Uploads \cup Runnable, load = <<u>>,
           load' = load, setting' = setting, DOMAIN scan' = ScanFields,
           scan'.at \in ScanSteps, stage' \in {"none", "dead"},
           Scannable(u) => ScanRight(u, scan') /\ (stage' = "dead" => Cut(u))
    PROVE  VerdictInv'
  <1>1. load # <<>> /\ load[1] = u
    OBVIOUS
  <1>2. scan'.at # "instantiate"
    BY DEF ScanSteps
  <1>3. setting # "library"
    BY <1>1, Zenon DEF VerdictInv
  <1> QED
    BY <1>1, <1>2, <1>3, Zenon DEF VerdictInv

\* The scan of the frame under way.
LEMMA Scanned ==
    ASSUME VerdictInv, NEW at \in ScanSteps, Scanning(at)
    PROVE  /\ scan.at = at /\ scan.at # "none" /\ stage = "none" /\ DOMAIN scan = ScanFields
           /\ load' = load /\ setting' = setting
           /\ \A u : load = <<u>> /\ Scannable(u) => ScanRight(u, scan)
  <1>1. scan.at = at /\ scan.at # "none" /\ load' = load /\ setting' = setting /\ stage # "dead"
    BY DEF Scanning, ScanSteps
  <1>2. load # <<>> /\ DOMAIN scan = ScanFields
    BY <1>1, Zenon DEF VerdictInv
  <1>3. stage = "none"
    BY <1>1, <1>2 DEF VerdictInv
  <1>4. ASSUME NEW u, load = <<u>>, Scannable(u) PROVE ScanRight(u, scan)
    <2>1. load[1] = u
      BY <1>4
    <2> QED
      BY <1>2, <1>4, <2>1, Zenon DEF VerdictInv
  <1> QED
    BY <1>1, <1>2, <1>3, <1>4, Zenon

\* A scan that moves or panics.
LEMMA Moved ==
    ASSUME VerdictInv, NEW at \in ScanSteps, Scanning(at), NEW next, NEW scanned,
           MoveTo(next, scanned), DOMAIN scanned = ScanFields, scanned.at \in ScanSteps,
           NEW u \in Uploads \cup Runnable, load = <<u>>,
           Scannable(u) => /\ next >= Fault(u.bytes) => Cut(u)
                           /\ next < Fault(u.bytes) => ScanRight(u, [scanned EXCEPT !.pos = next])
    PROVE  VerdictInv'
  <1>1. /\ scan.at = at /\ stage = "none" /\ DOMAIN scan = ScanFields /\ load' = load /\ setting' = setting
        /\ Scannable(u) => ScanRight(u, scan)
    BY Scanned, Zenon
  <1>2. bytes = u.bytes
    BY DEF bytes
  <1>3. CASE next >= Fault(bytes) /\ Panic /\ UNCHANGED <<memory, fuel, memSize, results, scan>>
    <2>1. stage' = "dead" /\ scan' = scan /\ stage' \in {"none", "dead"}
      BY <1>3 DEF Panic
    <2> QED
      BY <1>1, <1>2, <1>3, <2>1, ScanKept, Zenon
  <1>4. CASE next < Fault(bytes) /\ scan' = [scanned EXCEPT !.pos = next] /\ UNCHANGED runVars
    <2>1. stage' = "none" /\ stage' # "dead" /\ stage' \in {"none", "dead"}
      BY <1>1, <1>4 DEF runVars
    <2>2. DOMAIN scan' = ScanFields /\ scan'.at = scanned.at
      BY <1>4 DEF ScanFields
    <2>3. Scannable(u) => ScanRight(u, scan')
      BY <1>2, <1>4, Zenon
    <2> QED
      BY <1>1, <2>1, <2>2, <2>3, ScanKept, Zenon
  <1> QED
    BY <1>3, <1>4 DEF MoveTo

\* Past a section of another kind the scan is right.
LEMMA SkipKeeps == VerdictInv /\ SkipSection => VerdictInv'
  <1> SUFFICES ASSUME VerdictInv, SkipSection PROVE VerdictInv'
    OBVIOUS
  <1>0. "section" \in ScanSteps /\ Scanning("section")
    BY DEF SkipSection, ScanSteps
  <1>1. /\ scan.at = "section" /\ scan.at # "none" /\ stage = "none" /\ DOMAIN scan = ScanFields
        /\ load' = load /\ setting' = setting
        /\ \A u : load = <<u>> /\ Scannable(u) => ScanRight(u, scan)
    BY <1>0, Scanned, Zenon
  <1>2. PICK u \in Uploads \cup Runnable : load = <<u>> /\ bytes = u.bytes
    BY <1>1, Loaded, Zenon
  <1>3. /\ scan.pos < Len(u.bytes) /\ u.bytes[scan.pos + 1] # ImportSection
        /\ scan' = [scan EXCEPT !.pos = AfterLeb(u.bytes, scan.pos + 1) + Leb(u.bytes, scan.pos + 1)]
        /\ stage' = stage
    BY <1>2 DEF SkipSection, runVars
  <1>4. /\ DOMAIN scan' = ScanFields /\ scan'.at = "section" /\ scan'.rejected = scan.rejected
        /\ scan'.pos = AfterLeb(u.bytes, scan.pos + 1) + Leb(u.bytes, scan.pos + 1)
    BY <1>1, <1>3 DEF ScanFields
  <1>5. Scannable(u) => ScanRight(u, scan')
    BY <1>1, <1>2, <1>3, <1>4, SkipRight, Zenon
  <1>6. stage' \in {"none", "dead"} /\ stage' # "dead"
    BY <1>1, <1>3
  <1> QED
    BY <1>0, <1>1, <1>2, <1>4, <1>5, <1>6, ScanKept, Zenon

\* Past the count of the imports the scan is right.
LEMMA EnterKeeps == VerdictInv /\ EnterImports => VerdictInv'
  <1> SUFFICES ASSUME VerdictInv, EnterImports PROVE VerdictInv'
    OBVIOUS
  <1>0. "section" \in ScanSteps /\ "import" \in ScanSteps /\ Scanning("section")
    BY DEF EnterImports, ScanSteps
  <1>1. /\ scan.at = "section" /\ scan.at # "none" /\ stage = "none" /\ DOMAIN scan = ScanFields
        /\ load' = load /\ setting' = setting
        /\ \A u : load = <<u>> /\ Scannable(u) => ScanRight(u, scan)
    BY <1>0, Scanned, Zenon
  <1>2. PICK u \in Uploads \cup Runnable : load = <<u>> /\ bytes = u.bytes
    BY <1>1, Loaded, Zenon
  <1> DEFINE count == AfterLeb(u.bytes, scan.pos + 1)
  <1>3. /\ scan.pos < Len(u.bytes) /\ u.bytes[scan.pos + 1] = ImportSection
        /\ scan' = [scan EXCEPT !.at = "import", !.pos = AfterLeb(u.bytes, count),
                                !.left = Leb(u.bytes, count)]
        /\ stage' = stage
    BY <1>2 DEF EnterImports, runVars
  <1>4. /\ DOMAIN scan' = ScanFields /\ scan'.at = "import" /\ scan'.rejected = scan.rejected
        /\ scan'.pos = AfterLeb(u.bytes, count) /\ scan'.left = Leb(u.bytes, count)
    <2> HIDE DEF count
    <2> QED
      BY <1>1, <1>3 DEF ScanFields
  <1>5. Scannable(u) => ScanRight(u, scan')
    BY <1>1, <1>2, <1>3, <1>4, EnterRight, Zenon
  <1>6. stage' \in {"none", "dead"} /\ stage' # "dead"
    BY <1>1, <1>3
  <1> QED
    BY <1>0, <1>1, <1>2, <1>4, <1>5, <1>6, ScanKept, Zenon

\* Past the name of an import's module the scan is right.
LEMMA ModuleNameKeeps == VerdictInv /\ ScanModuleName => VerdictInv'
  <1> SUFFICES ASSUME VerdictInv, ScanModuleName PROVE VerdictInv'
    OBVIOUS
  <1>0. "import" \in ScanSteps /\ "field" \in ScanSteps /\ Scanning("import") /\ scan.left > 0
    BY DEF ScanModuleName, ScanSteps
  <1>1. /\ scan.at = "import" /\ scan.at # "none" /\ DOMAIN scan = ScanFields
        /\ \A u : load = <<u>> /\ Scannable(u) => ScanRight(u, scan)
    BY <1>0, Scanned, Zenon
  <1>2. PICK u \in Uploads \cup Runnable : load = <<u>> /\ bytes = u.bytes
    BY <1>1, Loaded, Zenon
  <1> DEFINE next == AfterName(u.bytes, scan.pos)
             scanned == [scan EXCEPT !.at = "field"]
             t == [scanned EXCEPT !.pos = next]
  <1>3. MoveTo(next, scanned)
    BY <1>2, Zenon DEF ScanModuleName
  <1>4. /\ DOMAIN scanned = ScanFields /\ scanned.at = "field"
        /\ t.at = "field" /\ t.rejected = scan.rejected /\ t.left = scan.left /\ t.pos = next
    <2> HIDE DEF next
    <2> QED
      BY <1>1 DEF ScanFields
  <1>5. Scannable(u) => (next >= Fault(u.bytes) => Cut(u)) /\ ScanRight(u, t)
    <2> HIDE DEF t
    <2> QED
      BY <1>0, <1>1, <1>2, <1>4, ModuleNameRight, Zenon
  <1> HIDE DEF next
  <1> QED
    BY <1>0, <1>2, <1>3, <1>4, <1>5, Moved, Zenon

\* Past the name of an import's field the scan is right.
LEMMA FieldNameKeeps == VerdictInv /\ ScanFieldName => VerdictInv'
  <1> SUFFICES ASSUME VerdictInv, ScanFieldName PROVE VerdictInv'
    OBVIOUS
  <1>0. "field" \in ScanSteps /\ "kind" \in ScanSteps /\ Scanning("field")
    BY DEF ScanFieldName, ScanSteps
  <1>1. /\ scan.at = "field" /\ scan.at # "none" /\ DOMAIN scan = ScanFields
        /\ \A u : load = <<u>> /\ Scannable(u) => ScanRight(u, scan)
    BY <1>0, Scanned, Zenon
  <1>2. PICK u \in Uploads \cup Runnable : load = <<u>> /\ bytes = u.bytes
    BY <1>1, Loaded, Zenon
  <1> DEFINE next == AfterName(u.bytes, scan.pos)
             name == Name(u.bytes, scan.pos)
             scanned == [scan EXCEPT !.at = "kind", !.field = name]
             t == [scanned EXCEPT !.pos = next]
  <1>3. MoveTo(next, scanned)
    BY <1>2, Zenon DEF ScanFieldName
  <1>4. /\ DOMAIN scanned = ScanFields /\ scanned.at = "kind"
        /\ t.at = "kind" /\ t.rejected = scan.rejected /\ t.left = scan.left /\ t.pos = next
        /\ t.field = name
    <2> HIDE DEF next, name
    <2> QED
      BY <1>1 DEF ScanFields
  <1>5. Scannable(u) => (next >= Fault(u.bytes) => Cut(u)) /\ ScanRight(u, t)
    <2> HIDE DEF t
    <2> QED
      BY <1>0, <1>1, <1>2, <1>4, FieldNameRight, Zenon
  <1> HIDE DEF next, name
  <1> QED
    BY <1>0, <1>2, <1>3, <1>4, <1>5, Moved, Zenon

\* Past an import, its name rejected or not, the scan is right.
LEMMA KindKeeps == VerdictInv /\ ScanKind => VerdictInv'
  <1> SUFFICES ASSUME VerdictInv, ScanKind PROVE VerdictInv'
    OBVIOUS
  <1>0. "kind" \in ScanSteps /\ "import" \in ScanSteps /\ Scanning("kind")
    BY DEF ScanKind, ScanSteps
  <1>1. /\ scan.at = "kind" /\ scan.at # "none" /\ DOMAIN scan = ScanFields
        /\ \A u : load = <<u>> /\ Scannable(u) => ScanRight(u, scan)
    BY <1>0, Scanned, Zenon
  <1>2. PICK u \in Uploads \cup Runnable : load = <<u>> /\ bytes = u.bytes
    BY <1>1, Loaded, Zenon
  <1> DEFINE next == IF scan.pos < Len(u.bytes) THEN AfterKind(u.bytes, scan.pos) ELSE Fault(u.bytes)
             rejected == IF u.bytes[scan.pos + 1] = Function /\ scan.field \notin Alphabet
                         THEN Append(scan.rejected, scan.field) ELSE scan.rejected
             scanned == [scan EXCEPT !.at = "import", !.left = @ - 1, !.field = <<>>,
                                     !.rejected = rejected]
             t == [scanned EXCEPT !.pos = next]
  <1>3. MoveTo(next, scanned)
    BY <1>2 DEF ScanKind
  <1>4. /\ DOMAIN scanned = ScanFields /\ scanned.at = "import"
        /\ t.at = "import" /\ t.rejected = rejected /\ t.left = scan.left - 1 /\ t.pos = next
    <2> HIDE DEF next, rejected
    <2> QED
      BY <1>1 DEF ScanFields
  <1>5. Scannable(u) => (next >= Fault(u.bytes) => Cut(u)) /\ (next < Fault(u.bytes) => ScanRight(u, t))
    <2> HIDE DEF t
    <2> QED
      BY <1>1, <1>2, <1>4, KindRight, Zenon
  <1> HIDE DEF next, rejected
  <1> QED
    BY <1>0, <1>2, <1>3, <1>4, <1>5, Moved, Zenon

\* The verdict at the end of the bytes or of the imports is right.
LEMMA EndsKeeps == VerdictInv /\ ScanEnds => VerdictInv'
  <1> SUFFICES ASSUME VerdictInv, ScanEnds PROVE VerdictInv'
    OBVIOUS
  <1>0. scan.at \in ScanSteps /\ Scanning(scan.at) /\ "accept" \in ScanSteps /\ "refuse" \in ScanSteps
    BY DEF ScanEnds, ScanSteps
  <1>1. /\ scan.at # "none" /\ stage = "none" /\ DOMAIN scan = ScanFields
        /\ load' = load /\ setting' = setting
        /\ \A u : load = <<u>> /\ Scannable(u) => ScanRight(u, scan)
    BY <1>0, Scanned, Zenon
  <1>2. PICK u \in Uploads \cup Runnable : load = <<u>> /\ bytes = u.bytes
    BY <1>1, Loaded, Zenon
  <1>3. /\ (scan.at = "section" /\ scan.pos >= Len(u.bytes)) \/ (scan.at = "import" /\ scan.left = 0)
        /\ scan' = [scan EXCEPT !.at = IF scan.rejected = <<>> THEN "accept" ELSE "refuse"]
        /\ stage' = stage
    BY <1>2 DEF ScanEnds, runVars
  <1>4. /\ DOMAIN scan' = ScanFields /\ scan'.at \in {"accept", "refuse"}
        /\ scan'.rejected = scan.rejected /\ scan'.pos = scan.pos
    BY <1>1, <1>3 DEF ScanFields
  <1>5. ASSUME Scannable(u) PROVE ScanRight(u, scan')
    <2>1. ScanRight(u, scan)
      BY <1>1, <1>2, <1>5, Zenon
    <2> DEFINE after == scan'
    <2>2. /\ after.at \in {"accept", "refuse"} /\ after.rejected = scan.rejected
          /\ after.pos = scan.pos
      BY <1>4
    <2> HIDE DEF after
    <2>3. ScanRight(u, after)
      BY <1>3, <1>5, <2>1, <2>2, EndsRight
    <2> QED
      BY <2>3 DEF after
  <1>6. stage' \in {"none", "dead"} /\ stage' # "dead" /\ scan'.at \in ScanSteps
    BY <1>0, <1>1, <1>3, <1>4
  <1> QED
    BY <1>1, <1>2, <1>4, <1>5, <1>6, ScanKept, Zenon

\* A frame starts a scan that has rejected nothing, or is refused unscanned.
LEMMA ReceiveKeeps == VerdictInv /\ Receive => VerdictInv'
  <1> SUFFICES ASSUME VerdictInv, Receive PROVE VerdictInv'
    OBVIOUS
  <1>1. PICK u \in Uploads \cup Runnable :
           /\ load' = <<u>>
           /\ scan' = [NoScan EXCEPT !.at = IF u.head = "ok" THEN "section" ELSE "refuse"]
    BY DEF Receive
  <1>2. stage' = "none" /\ setting' = setting /\ setting # "library"
    BY DEF Receive, runVars
  <1>3. /\ DOMAIN scan' = ScanFields /\ scan'.at = IF u.head = "ok" THEN "section" ELSE "refuse"
        /\ scan'.pos = 0 /\ scan'.rejected = <<>>
    BY <1>1 DEF NoScan, ScanFields
  <1>4. Scannable(u) => ScanRight(u, scan')
    <2>1. SUFFICES ASSUME Scannable(u) PROVE ScanRight(u, scan')
      OBVIOUS
    <2>2. scan'.at = "section"
      BY <1>3, <2>1 DEF Scannable
    <2>3. WellFormed(u.module)
      BY <2>1, UploadIs, Zenon
    <2>4. IsPrefix(<<>>, Foreign(u.module)) /\ (u.module.before \/ Len(Before(u.module)) = 0)
      BY <2>3, NothingRejected, ModuleIs, Zenon
    <2>5. scan'.at # "import" /\ scan'.at # "field" /\ scan'.at # "kind" /\ scan'.at # "accept"
          /\ scan'.at # "refuse" /\ 0 \in Nat
      BY <2>2
    <2> QED
      BY <1>3, <2>2, <2>4, <2>5, Zenon DEF ScanRight
  <1>5. scan'.at \in ScanSteps /\ scan'.at # "instantiate" /\ stage' \in {"none", "dead"} /\ stage' # "dead"
    BY <1>2, <1>3 DEF ScanSteps
  <1>6. load' # <<>> /\ load'[1] = u
    BY <1>1
  <1> QED
    BY <1>1, <1>2, <1>3, <1>4, <1>5, <1>6, Zenon DEF VerdictInv

\* What a module does, it does while it runs.
LEMMA GuestRuns == GuestNext \/ CallRunLogic \/ Fail \/ Return => stage \in {"start", "run"}
  BY DEF GuestNext, CallRunLogic, Fail, Return, GpioSet, PwmSet, ReadInput, Quiet, Transfer, Uart,
         LogMsg, Syscall

\* Every step of the board keeps the scan right.
LEMMA VerdictStep == VerdictInv /\ [FirmNext]_firmVars => VerdictInv'
  <1> SUFFICES ASSUME VerdictInv, [FirmNext]_firmVars PROVE VerdictInv'
    OBVIOUS
  <1>1. ASSUME load' = <<>>, scan' = NoScan PROVE VerdictInv'
    BY <1>1 DEF VerdictInv, NoScan, ScanFields
  <1>2. ASSUME stage' = stage, UNCHANGED <<setting, load, scan>> PROVE VerdictInv'
    BY <1>2, Zenon DEF VerdictInv
  <1>3. CASE Receive
    BY <1>3, ReceiveKeeps
  <1>4. CASE SkipSection \/ EnterImports \/ ScanModuleName \/ ScanFieldName \/ ScanKind \/ ScanEnds
    BY <1>4, SkipKeeps, EnterKeeps, ModuleNameKeeps, FieldNameKeeps, KindKeeps, EndsKeeps, Zenon
  <1>5. CASE Refuse
    BY <1>1, <1>5 DEF Refuse
  <1>6. CASE StopForSwap
    BY <1>2, <1>6 DEF StopForSwap, runVars
  <1>7. CASE Begin
    <2>1. /\ scan.at = "accept" /\ stage' = "ready" /\ load' = load /\ setting' = setting
          /\ scan' = [scan EXCEPT !.at = "instantiate"]
      BY <1>7 DEF Begin, Submitting, NewRuntime
    <2>2. /\ DOMAIN scan' = ScanFields /\ scan'.at = "instantiate"
          /\ scan'.rejected = scan.rejected /\ scan'.pos = scan.pos
      BY <2>1 DEF VerdictInv, ScanFields
    <2>3. scan'.at \notin ScanSteps /\ stage' # "dead" /\ scan.at # "none"
      BY <2>1, <2>2 DEF ScanSteps
    <2>4. PICK u \in Uploads \cup Runnable : load = <<u>> /\ load[1] = u /\ load # <<>>
      BY <2>3, Loaded, Zenon
    <2>5. Scannable(u) => ScanRight(u, scan')
      <3>1. Scannable(u) => ScanRight(u, scan)
        BY <2>4, Zenon DEF VerdictInv
      <3>2. scan'.at # "section" /\ scan'.at \notin {"import", "field", "kind"}
            /\ scan'.at \notin {"accept", "refuse"}
        BY <2>2
      <3> QED
        BY <2>2, <3>1, <3>2, Zenon DEF ScanRight
    <2> QED
      BY <2>1, <2>2, <2>3, <2>4, <2>5, Zenon DEF VerdictInv
  <1>8. CASE Instantiate
    <2>1. /\ scan.at = "instantiate" /\ load' = load /\ setting' = setting
          /\ scan' = [scan EXCEPT !.at = "ran"]
      BY <1>8 DEF Instantiate
    <2>2. /\ DOMAIN scan' = ScanFields /\ scan'.at = "ran"
          /\ scan'.rejected = scan.rejected /\ scan'.pos = scan.pos
      BY <2>1 DEF VerdictInv, ScanFields
    <2>3. scan'.at \notin ScanSteps /\ scan'.at # "instantiate" /\ scan.at # "none"
      BY <2>1, <2>2 DEF ScanSteps
    <2>4. PICK u \in Uploads \cup Runnable : load = <<u>> /\ load[1] = u /\ load # <<>>
      BY <2>3, Loaded, Zenon
    <2>5. Scannable(u) => ScanRight(u, scan')
      <3>1. Scannable(u) => ScanRight(u, scan)
        BY <2>4, Zenon DEF VerdictInv
      <3>2. scan'.at # "section" /\ scan'.at \notin {"import", "field", "kind"}
            /\ scan'.at \notin {"accept", "refuse"}
        BY <2>2
      <3> QED
        BY <2>2, <3>1, <3>2, Zenon DEF ScanRight
    <2> QED
      BY <2>1, <2>2, <2>3, <2>4, <2>5, Zenon DEF VerdictInv
  <1>9. CASE Guest
    <2>1. stage \in {"start", "run"} /\ UNCHANGED <<setting, load, scan>>
      BY <1>9, GuestRuns DEF Guest
    <2>2. load = <<>> \/ scan.at = "ran"
      BY <2>1 DEF VerdictInv
    <2>3. "ran" \notin ScanSteps /\ "ran" # "instantiate"
      BY DEF ScanSteps
    <2> QED
      BY <2>1, <2>2, <2>3, Zenon DEF VerdictInv
  <1>10. CASE Finish \/ FinishNoHardware
    BY <1>1, <1>10 DEF Finish, FinishNoHardware
  <1>11. CASE Poll
    BY <1>2, <1>11 DEF Poll, runVars
  <1>12. CASE Between
    BY <1>2, <1>12 DEF Between, runVars
  <1>13. CASE LibraryUse
    <2>1. load = <<>> /\ UNCHANGED <<setting, load, scan>>
      BY <1>13 DEF LibraryUse, VerdictInv
    <2> QED
      BY <2>1, Zenon DEF VerdictInv
  <1>14. CASE UNCHANGED firmVars
    BY <1>2, <1>14 DEF firmVars, runVars
  <1> QED
    BY <1>3, <1>4, <1>5, <1>6, <1>7, <1>8, <1>9, <1>10, <1>11, <1>12, <1>13, <1>14, Zenon
       DEF FirmNext, HandlerNext

\* validate_wasm_imports refuses exactly what it should: for every alphabet,
\* every upload, any number of imports and however wide a byte and a u32 are,
\* it rejects the function imports outside the alphabet, in order, and
\* nothing else, and panics only at bytes that are cut off.
THEOREM FirmwareVerdictIsRight == FirmSpec => []VerdictIsRight
  <1>1. FirmSpec => []VerdictInv
    BY VerdictInit, VerdictStep, PTL DEF FirmSpec
  <1> QED
    BY <1>1, VerdictFollows, PTL

=============================================================================
