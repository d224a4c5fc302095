--------------------------- MODULE ReceiverProofs ---------------------------
(***************************************************************************)
(* First ThreadedExecutor by itself, for every number of submissions and   *)
(* any fuel: type correctness, submission order of the results,            *)
(* conservation of the hardware, the bound on sleeping after a stop, and   *)
(* that it implements the MiloExecutor contract.                           *)
(*                                                                         *)
(* Then the receiver's main loop over it, for every policy, any frames,    *)
(* any number of them and of connections, and any number of submissions:   *)
(* which modules run, who may stop them, and what the host reads.  To the  *)
(* executor a step of the receiver is one of its own steps, so its         *)
(* invariant ExecInv is at hand.                                           *)
(***************************************************************************)
EXTENDS Receiver, SequenceTheorems, TLAPS

(***************************************************************************)
(* ThreadedExecutor.                                                       *)
(***************************************************************************)

\* How the variables hang together between two steps: a worker exists exactly
\* while its handle is held, a method blocks only on a worker it has stopped.
Shape ==
    /\ handle = NoJob <=> worker = "none"
    /\ call # "none" => handle # NoJob /\ simStopped

\* The strengthening behind AtMostOneLateSleep: once a sleep began after the
\* stop, the flag is still set and the worker is past the load that missed it.
LateSleepInv ==
    /\ lateSleeps <= 1
    /\ lateSleeps = 1 /\ worker # "none" => simStopped /\ worker # "tosleep"

ExecInv ==
    /\ ExecTypeOK
    /\ Shape
    /\ ResultsInSubmissionOrder
    /\ LateSleepInv

-----------------------------------------------------------------------------
(* Lemmas about the queue of results.                                      *)

\* The results taken and the results queued are those of submissions
\* 1, 2, 3, ... in that order.
Ordered(t, rs) ==
    /\ \A i \in DOMAIN t : t[i].job = i
    /\ \A i \in DOMAIN rs : rs[i].job = Len(t) + i

\* Queueing the result of the next submission keeps the order.
LEMMA QueueNext ==
    ASSUME NEW t \in Seq(Result), NEW rs \in Seq(Result), NEW r \in Result,
           Ordered(t, rs), r.job = Len(t) + Len(rs) + 1
    PROVE  /\ Append(rs, r) \in Seq(Result)
           /\ Append(rs, r) # <<>>
           /\ Len(Append(rs, r)) = Len(rs) + 1
           /\ Ordered(t, Append(rs, r))
<1>1. /\ Append(rs, r) \in Seq(Result)
      /\ Append(rs, r) # <<>>
      /\ Len(Append(rs, r)) = Len(rs) + 1
      /\ \A i \in 1..Len(rs) : Append(rs, r)[i] = rs[i]
      /\ Append(rs, r)[Len(rs) + 1] = r
  BY AppendProperties
<1>2. /\ Len(rs) \in Nat /\ DOMAIN rs = 1..Len(rs)
      /\ Len(t) \in Nat
      /\ DOMAIN Append(rs, r) = 1..(Len(rs) + 1)
  BY <1>1, LenProperties
<1>3. ASSUME NEW i \in 1..(Len(rs) + 1)
      PROVE  Append(rs, r)[i].job = Len(t) + i
  <2>1. CASE i = Len(rs) + 1
    BY <2>1, <1>1, <1>2
  <2>2. CASE i # Len(rs) + 1
    <3>1. i \in 1..Len(rs)
      BY <2>2, <1>2
    <3>2. rs[i].job = Len(t) + i
      BY <3>1, <1>2 DEF Ordered
    <3>3. QED
      BY <3>1, <3>2, <1>1
  <2>3. QED
    BY <2>1, <2>2
<1>4. QED
  BY <1>1, <1>2, <1>3 DEF Ordered

\* Popping the oldest queued result keeps the order and loses nothing.
LEMMA PopOldest ==
    ASSUME NEW t \in Seq(Result), NEW rs \in Seq(Result), rs # <<>>, Ordered(t, rs)
    PROVE  /\ Head(rs) \in Result
           /\ Head(rs).job = Len(t) + 1
           /\ Tail(rs) \in Seq(Result)
           /\ Append(t, Head(rs)) \in Seq(Result)
           /\ Len(Append(t, Head(rs))) = Len(t) + 1
           /\ Len(Tail(rs)) = Len(rs) - 1
           /\ Ordered(Append(t, Head(rs)), Tail(rs))
<1>1. /\ Head(rs) \in Result
      /\ Tail(rs) \in Seq(Result)
      /\ Len(Tail(rs)) = Len(rs) - 1
      /\ \A i \in 1..Len(Tail(rs)) : Tail(rs)[i] = rs[i + 1]
  BY HeadTailProperties
<1>2. /\ Len(rs) \in Nat \ {0}
      /\ Len(t) \in Nat
      /\ DOMAIN rs = 1..Len(rs)
      /\ DOMAIN t = 1..Len(t)
      /\ DOMAIN Tail(rs) = 1..(Len(rs) - 1)
  BY <1>1, EmptySeq, LenProperties
<1>3. Head(rs) = rs[1]
  OBVIOUS
<1>4. Head(rs).job = Len(t) + 1
  BY <1>2, <1>3 DEF Ordered
<1>5. /\ Append(t, Head(rs)) \in Seq(Result)
      /\ Len(Append(t, Head(rs))) = Len(t) + 1
      /\ \A i \in 1..Len(t) : Append(t, Head(rs))[i] = t[i]
      /\ Append(t, Head(rs))[Len(t) + 1] = Head(rs)
  BY <1>1, AppendProperties
<1>6. DOMAIN Append(t, Head(rs)) = 1..(Len(t) + 1)
  BY <1>5, LenProperties
<1>7. ASSUME NEW i \in 1..(Len(t) + 1)
      PROVE  Append(t, Head(rs))[i].job = i
  <2>1. CASE i = Len(t) + 1
    BY <2>1, <1>4, <1>5
  <2>2. CASE i # Len(t) + 1
    <3>1. i \in 1..Len(t)
      BY <2>2, <1>2
    <3>2. t[i].job = i
      BY <3>1, <1>2 DEF Ordered
    <3>3. QED
      BY <3>1, <3>2, <1>5
  <2>3. QED
    BY <2>1, <2>2
<1>8. ASSUME NEW i \in 1..(Len(rs) - 1)
      PROVE  Tail(rs)[i].job = Len(t) + 1 + i
  <2>1. i + 1 \in 1..Len(rs)
    BY <1>2
  <2>2. rs[i + 1].job = Len(t) + (i + 1)
    BY <2>1, <1>2 DEF Ordered
  <2>3. Tail(rs)[i] = rs[i + 1]
    BY <1>1
  <2>4. QED
    BY <2>2, <2>3, <1>2
<1>9. Ordered(Append(t, Head(rs)), Tail(rs))
  BY <1>2, <1>5, <1>6, <1>7, <1>8 DEF Ordered
<1>10. QED
  BY <1>1, <1>4, <1>5, <1>9

\* Result is a constant set: priming changes nothing.
LEMMA ResultConstant == Result' = Result
BY DEF Result, Outcomes

\* The join of a live worker yields a well-formed result for its job.
LEMMA JoinedResultType ==
    ASSUME ExecTypeOK, handle # NoJob
    PROVE  JoinedResult \in Result /\ JoinedResult.job = handle
BY DEF ExecTypeOK, JoinedResult, Result, Outcomes, NoJob

\* What the invariant says in terms of the queue: the results are in order,
\* the worker's job is the next one, the blocked submission the one after.
LEMMA InvQueue ==
    ASSUME ExecTypeOK, ResultsInSubmissionOrder
    PROVE  /\ Ordered(taken, results)
           /\ Len(taken) \in Nat /\ Len(results) \in Nat
           /\ handle # NoJob => handle = Len(taken) + Len(results) + 1
BY LenProperties DEF ExecTypeOK, ResultsInSubmissionOrder, Ordered

-----------------------------------------------------------------------------
(* The inductive invariant.                                                *)

\* A launch re-establishes the invariant whenever the queue rs it continues
\* is in order and the new job is the next submission.
LEMMA LaunchKeepsInv ==
    ASSUME ExecTypeOK,
           NEW hw \in BOOLEAN, NEW rs \in Seq(Result), NEW job \in 1..MaxJobs,
           Ordered(taken, rs), job = Len(taken) + Len(rs) + 1,
           lateSleeps <= 1,
           Launch(hw, rs, job),
           taken' = taken, submitted' = job, call' = "none", callerHw' \in BOOLEAN
    PROVE  ExecInv'
<1>0. Len(taken) \in Nat /\ Len(rs) \in Nat /\ taken \in Seq(Result)
      /\ DOMAIN taken = 1..Len(taken) /\ DOMAIN rs = 1..Len(rs)
  BY LenProperties DEF ExecTypeOK
<1>1. CASE ~hw
  <2> DEFINE r == [job |-> job, outcome |-> "nohw"]
  <2>1. r \in Result /\ r.job = Len(taken) + Len(rs) + 1
    BY DEF Result, Outcomes
  <2>2. /\ results' = Append(rs, r)
        /\ status' = "Completed" /\ hardware' = FALSE /\ handle' = NoJob /\ worker' = "none"
        /\ UNCHANGED <<simStopped, fuel, outcome, lateSleeps>>
    BY <1>1 DEF Launch
  <2>3. /\ results' \in Seq(Result)
        /\ Len(results') = Len(rs) + 1
        /\ Ordered(taken, results')
    BY <2>1, <2>2, <1>0, QueueNext
  <2>4. ExecTypeOK'
    <3>1. hardware' \in BOOLEAN /\ simStopped' \in BOOLEAN
      BY <2>2 DEF ExecTypeOK
    <3>2. QED
      BY <2>2, <2>3, <3>1, <1>0, ResultConstant, ExecutorAssumption
      DEF ExecTypeOK, ExecStatus, NoJob
  <2>5. Shape' /\ LateSleepInv'
    BY <2>2 DEF Shape, LateSleepInv, NoJob
  <2>6. ResultsInSubmissionOrder'
    <3>1. Ordered(taken', results')
      BY <2>3
    <3>2. submitted' = Len(taken') + Len(results') + 0 + 0
      BY <2>3, <1>0
    <3>3. QED
      BY <2>2, <3>1, <3>2 DEF ResultsInSubmissionOrder, Ordered
  <2>7. QED
    BY <2>4, <2>5, <2>6 DEF ExecInv
<1>2. CASE hw
  <2>1. /\ results' = rs
        /\ status' = "Running" /\ hardware' = FALSE /\ handle' = job /\ worker' = "run"
        /\ simStopped' = FALSE /\ fuel' = MaxFuel /\ outcome' = "ok" /\ lateSleeps' = 0
    BY <1>2 DEF Launch
  <2>2. ExecTypeOK'
    <3>1. hardware' \in BOOLEAN /\ simStopped' \in BOOLEAN
      BY <2>1
    <3>2. QED
      BY <2>1, <3>1, <1>0, ResultConstant, ExecutorAssumption DEF ExecTypeOK, ExecStatus
  <2>3. Shape' /\ LateSleepInv'
    BY <2>1 DEF Shape, LateSleepInv, NoJob
  <2>4. ResultsInSubmissionOrder'
    <3>1. Ordered(taken', results')
      BY <2>1
    <3>2. /\ handle' = Len(taken') + Len(results') + 1
          /\ submitted' = Len(taken') + Len(results') + 1 + 0
      BY <2>1, <1>0
    <3>3. handle' # NoJob
      BY <2>1, <1>0 DEF NoJob
    <3>4. QED
      BY <3>1, <3>2, <3>3 DEF ResultsInSubmissionOrder, Ordered
  <2>5. QED
    BY <2>2, <2>3, <2>4 DEF ExecInv
<1>3. QED
  BY <1>1, <1>2

\* Popping the queue rs re-establishes the invariant whenever rs is in order
\* and, with what was taken, covers all submissions.
LEMMA PopKeepsInv ==
    ASSUME ExecInv, call = "none",
           NEW hw \in BOOLEAN, NEW rs \in Seq(Result),
           Ordered(taken, rs), submitted = Len(taken) + Len(rs),
           PopResult(rs, hw)
    PROVE  ExecInv'
<1>1. rs # <<>> /\ taken \in Seq(Result)
  BY DEF PopResult, ExecInv, ExecTypeOK
<1>2. /\ results' = Tail(rs) /\ taken' = Append(taken, Head(rs))
      /\ hardware' = hw /\ handle' = NoJob /\ status' = "Idle" /\ worker' = "none"
      /\ UNCHANGED <<call, callerHw, simStopped, fuel, outcome, submitted, lateSleeps>>
  BY DEF PopResult
<1>3. /\ results' \in Seq(Result)
      /\ taken' \in Seq(Result)
      /\ Len(taken') = Len(taken) + 1
      /\ Len(results') = Len(rs) - 1
      /\ Ordered(taken', results')
  BY <1>1, <1>2, PopOldest
<1>4. Len(taken) \in Nat /\ Len(rs) \in Nat
  BY <1>1, LenProperties
<1>5. ExecTypeOK'
  <2>1. hardware' \in BOOLEAN
    BY <1>2
  <2>2. QED
    BY <1>2, <1>3, <2>1, ResultConstant, ExecutorAssumption
    DEF ExecInv, ExecTypeOK, ExecStatus, NoJob
<1>6. Shape' /\ LateSleepInv'
  BY <1>2 DEF ExecInv, Shape, LateSleepInv, NoJob
<1>7. ResultsInSubmissionOrder'
  <2>1. submitted' = Len(taken') + Len(results') + 0 + 0
    BY <1>2, <1>3, <1>4
  <2>2. QED
    BY <1>2, <1>3, <2>1 DEF ResultsInSubmissionOrder, Ordered
<1>8. QED
  BY <1>5, <1>6, <1>7 DEF ExecInv

\* The queue after a join: in order, and one longer.
LEMMA JoinExtends ==
    ASSUME ExecTypeOK, ResultsInSubmissionOrder, handle # NoJob
    PROVE  /\ JoinedResults \in Seq(Result)
           /\ JoinedResults # <<>>
           /\ Len(JoinedResults) = Len(results) + 1
           /\ Ordered(taken, JoinedResults)
<1>1. JoinedResult \in Result /\ JoinedResult.job = Len(taken) + Len(results) + 1
  BY JoinedResultType, InvQueue
<1>2. taken \in Seq(Result) /\ results \in Seq(Result) /\ Ordered(taken, results)
  BY InvQueue DEF ExecTypeOK
<1>3. QED
  BY <1>1, <1>2, QueueNext DEF JoinedResults

\* Every step of the executor, its caller and its worker keeps the invariant.
LEMMA ExecInvStep ==
    ASSUME ExecInv, [ExecNext]_execVars
    PROVE  ExecInv'
<1> USE DEF NoJob
<1>t. /\ ExecTypeOK /\ Shape /\ ResultsInSubmissionOrder /\ LateSleepInv
      /\ Len(taken) \in Nat /\ Len(results) \in Nat
      /\ Ordered(taken, results)
      /\ handle # NoJob => handle = Len(taken) + Len(results) + 1
  BY InvQueue DEF ExecInv
<1>1. CASE Submit
  <2>1. submitted = Len(taken) + Len(results)
    BY <1>1, <1>t DEF Submit, ResultsInSubmissionOrder
  <2>2. submitted + 1 \in 1..MaxJobs
    BY <1>1, <1>t, ExecutorAssumption DEF Submit, ExecTypeOK
  <2>3. /\ hardware \in BOOLEAN /\ results \in Seq(Result) /\ callerHw' \in BOOLEAN
        /\ taken' = taken /\ submitted' = submitted + 1 /\ call' = "none"
        /\ Launch(hardware, results, submitted + 1)
        /\ lateSleeps <= 1
    BY <1>1, <1>t DEF Submit, ExecTypeOK, LateSleepInv
  <2>4. QED
    BY <2>1, <2>2, <2>3, <1>t, LaunchKeepsInv
<1>2. CASE SubmitOverRunning
  <2>1. ExecTypeOK'
    BY <1>2, <1>t, ExecutorAssumption DEF SubmitOverRunning, ExecTypeOK, workerVars
  <2>2. Shape' /\ LateSleepInv'
    BY <1>2, <1>t DEF SubmitOverRunning, Shape, LateSleepInv, workerVars
  <2>3. ResultsInSubmissionOrder'
    BY <1>2, <1>t DEF SubmitOverRunning, ResultsInSubmissionOrder
  <2>4. QED
    BY <2>1, <2>2, <2>3 DEF ExecInv
<1>3. CASE SubmitJoin
  <2>1. handle # NoJob
    BY <1>3, <1>t DEF SubmitJoin, Shape
  <2>2. /\ JoinedResults \in Seq(Result)
        /\ Len(JoinedResults) = Len(results) + 1
        /\ Ordered(taken, JoinedResults)
    BY <2>1, <1>t, JoinExtends
  <2>3. submitted = Len(taken) + Len(JoinedResults) + 1 /\ submitted \in 1..MaxJobs
    BY <1>3, <2>1, <2>2, <1>t DEF SubmitJoin, ResultsInSubmissionOrder, ExecTypeOK
  <2>4. /\ JoinedHardware \in BOOLEAN /\ callerHw' \in BOOLEAN
        /\ taken' = taken /\ submitted' = submitted /\ call' = "none"
        /\ Launch(JoinedHardware, JoinedResults, submitted)
        /\ lateSleeps <= 1
    BY <1>3, <1>t DEF SubmitJoin, JoinedHardware, ExecTypeOK, LateSleepInv
  <2>5. QED
    BY <2>2, <2>3, <2>4, <1>t, LaunchKeepsInv
<1>4. CASE PollResult
  <2>1. CASE handle # NoJob
    <3>1. /\ JoinedResults \in Seq(Result)
          /\ Len(JoinedResults) = Len(results) + 1
          /\ Ordered(taken, JoinedResults)
      BY <2>1, <1>t, JoinExtends
    <3>2. submitted = Len(taken) + Len(JoinedResults)
      BY <1>4, <2>1, <3>1, <1>t DEF PollResult, ResultsInSubmissionOrder
    <3>3. /\ JoinedHardware \in BOOLEAN /\ call = "none"
          /\ PopResult(JoinedResults, JoinedHardware)
      BY <1>4, <2>1 DEF PollResult, JoinedHardware
    <3>4. QED
      BY <3>1, <3>2, <3>3, PopKeepsInv
  <2>2. CASE handle = NoJob
    <3>1. submitted = Len(taken) + Len(results)
      BY <1>4, <2>2, <1>t DEF PollResult, ResultsInSubmissionOrder
    <3>2. /\ hardware \in BOOLEAN /\ results \in Seq(Result) /\ call = "none"
          /\ PopResult(results, hardware)
      BY <1>4, <2>2, <1>t DEF PollResult, ExecTypeOK
    <3>3. QED
      BY <3>1, <3>2, <1>t, PopKeepsInv
  <2>3. QED
    BY <2>1, <2>2
<1>5. CASE Stop
  BY <1>5, <1>t DEF Stop, ExecInv, ExecTypeOK, ExecStatus, Shape, LateSleepInv,
     ResultsInSubmissionOrder, workerVars
<1>6. CASE TakeHardware
  BY <1>6, <1>t DEF TakeHardware, ExecInv, ExecTypeOK, Shape, LateSleepInv,
     ResultsInSubmissionOrder, workerVars
<1>7. CASE TakeHardwareFromRunning
  BY <1>7, <1>t DEF TakeHardwareFromRunning, ExecInv, ExecTypeOK, Shape, LateSleepInv,
     ResultsInSubmissionOrder, workerVars
<1>8. CASE TakeHardwareJoin
  <2>1. handle # NoJob
    BY <1>8, <1>t DEF TakeHardwareJoin, Shape
  <2>2. /\ JoinedResults \in Seq(Result)
        /\ Len(JoinedResults) = Len(results) + 1
        /\ Ordered(taken, JoinedResults)
    BY <2>1, <1>t, JoinExtends
  <2>3. ExecTypeOK'
    <3>1. hardware' \in BOOLEAN /\ callerHw' \in BOOLEAN
      BY <1>8 DEF TakeHardwareJoin, JoinedHardware
    <3>2. QED
      BY <1>8, <2>2, <3>1, <1>t, ResultConstant, ExecutorAssumption
      DEF TakeHardwareJoin, ExecTypeOK, ExecStatus, JoinedStatus
  <2>4. Shape' /\ LateSleepInv'
    BY <1>8, <1>t DEF TakeHardwareJoin, Shape, LateSleepInv
  <2>5. ResultsInSubmissionOrder'
    <3>1. /\ results' = JoinedResults /\ taken' = taken /\ submitted' = submitted
          /\ handle' = NoJob /\ call' = "none" /\ call = "take"
      BY <1>8 DEF TakeHardwareJoin
    <3>2. submitted = Len(taken) + Len(results) + 1 + 0
      BY <2>1, <3>1, <1>t DEF ResultsInSubmissionOrder
    <3>3. submitted' = Len(taken') + Len(results') + 0 + 0
      BY <2>2, <3>1, <3>2, <1>t
    <3>4. QED
      BY <2>2, <3>1, <3>3 DEF ResultsInSubmissionOrder, Ordered
  <2>6. QED
    BY <2>3, <2>4, <2>5 DEF ExecInv
<1>9. CASE GiveHardware
  BY <1>9, <1>t DEF GiveHardware, ExecInv, ExecTypeOK, Shape, LateSleepInv,
     ResultsInSubmissionOrder, workerVars
<1>10. CASE WorkerNext
  <2>0. UNCHANGED <<callerVars, simStopped>>
    BY <1>10 DEF WorkerNext, DelayMs, Sleep, Wake, Finish, FuelExhausted, Panic
  <2>1. ResultsInSubmissionOrder'
    BY <2>0, <1>t DEF callerVars, ResultsInSubmissionOrder
  <2>2. ExecTypeOK'
    BY <1>10, <2>0, <1>t, ExecutorAssumption DEF WorkerNext, DelayMs, Sleep, Wake, Finish,
       FuelExhausted, Panic, callerVars, ExecTypeOK
  <2>3. Shape'
    BY <1>10, <2>0, <1>t DEF WorkerNext, DelayMs, Sleep, Wake, Finish,
       FuelExhausted, Panic, callerVars, Shape
  <2>4. LateSleepInv'
    BY <1>10, <2>0, <1>t DEF WorkerNext, DelayMs, Sleep, Wake, Finish,
       FuelExhausted, Panic, LateSleepInv, ExecTypeOK
  <2>5. QED
    BY <2>1, <2>2, <2>3, <2>4 DEF ExecInv
<1>11. CASE UNCHANGED execVars
  BY <1>11, <1>t DEF execVars, callerVars, workerVars, ExecInv, ExecTypeOK, Shape,
     LateSleepInv, ResultsInSubmissionOrder
<1>12. QED
  BY <1>1, <1>2, <1>3, <1>4, <1>5, <1>6, <1>7, <1>8, <1>9, <1>10, <1>11
  DEF ExecNext, CallerNext, Joins

\* ThreadedExecutor::new establishes the invariant.
LEMMA ExecInitInv ==
    ASSUME ExecInit
    PROVE  ExecInv
<1>1. results \in Seq(Result) /\ taken \in Seq(Result)
      /\ Len(results) = 0 /\ Len(taken) = 0
      /\ DOMAIN results = {} /\ DOMAIN taken = {}
  BY EmptySeq DEF ExecInit
<1>2. ExecTypeOK
  <2>1. hardware \in BOOLEAN /\ callerHw \in BOOLEAN /\ simStopped \in BOOLEAN
    BY DEF ExecInit
  <2>2. QED
    BY <1>1, <2>1, ExecutorAssumption DEF ExecInit, ExecTypeOK, ExecStatus, NoJob
<1>3. Shape /\ LateSleepInv
  BY DEF ExecInit, Shape, LateSleepInv, NoJob
<1>4. ResultsInSubmissionOrder
  BY <1>1 DEF ExecInit, ResultsInSubmissionOrder, NoJob
<1>5. QED
  BY <1>2, <1>3, <1>4 DEF ExecInv

\* The invariant holds in every state of every execution.
THEOREM ExecInvariant == ExecSpec => []ExecInv
<1>1. ExecInit => ExecInv
  BY ExecInitInv
<1>2. ExecInv /\ [ExecNext]_execVars => ExecInv'
  BY ExecInvStep
<1>3. QED
  BY <1>1, <1>2, PTL DEF ExecSpec

\* Every variable of ThreadedExecutor and its worker keeps its type.
THEOREM ExecTypeCorrect == ExecSpec => []ExecTypeOK
<1>1. ExecInv => ExecTypeOK
  BY DEF ExecInv
<1>2. QED
  BY <1>1, ExecInvariant, PTL

\* Results leave the executor one per submission and in submission order,
\* whatever the caller's calls and the worker's steps interleave to.
THEOREM ResultsStayInOrder == ExecSpec => []ResultsInSubmissionOrder
<1>1. ExecInv => ResultsInSubmissionOrder
  BY DEF ExecInv
<1>2. QED
  BY <1>1, ExecInvariant, PTL

\* A stopped module sleeps at most once more.
THEOREM LateSleepBounded == ExecSpec => []AtMostOneLateSleep
<1>1. ExecInv => AtMostOneLateSleep
  BY DEF ExecInv, LateSleepInv, AtMostOneLateSleep
<1>2. QED
  BY <1>1, ExecInvariant, PTL

\* A stop is not undone while the module it was meant for is running: only a
\* launch clears the flag, and it comes after the join.
THEOREM StopIsNeverUndone == ExecSpec => StopStays
<1>1. ASSUME [ExecNext]_execVars
      PROVE  [simStopped /\ IsRunning => simStopped']_execVars
  <2>1. CASE Submit \/ SubmitJoin
    BY <2>1 DEF Submit, SubmitJoin, IsRunning
  <2>2. CASE SubmitOverRunning \/ Stop \/ TakeHardwareFromRunning
    BY <2>2 DEF SubmitOverRunning, Stop, TakeHardwareFromRunning
  <2>3. CASE PollResult \/ TakeHardware \/ TakeHardwareJoin \/ GiveHardware
    BY <2>3 DEF PollResult, PopResult, TakeHardware, TakeHardwareJoin, GiveHardware
  <2>4. CASE WorkerNext
    BY <2>4 DEF WorkerNext, DelayMs, Sleep, Wake, Finish, FuelExhausted, Panic
  <2>5. CASE UNCHANGED execVars
    BY <2>5
  <2>6. QED
    BY <1>1, <2>1, <2>2, <2>3, <2>4, <2>5 DEF ExecNext, CallerNext, Joins
<1>2. QED
  BY <1>1, PTL DEF ExecSpec, StopStays

-----------------------------------------------------------------------------
(* The hardware is conserved.                                              *)

PanickedIn(s) == \E i \in DOMAIN s : s[i].outcome = "panicked"

\* A queued panic stays in the queue when a result is appended.
LEMMA AppendKeepsPanic ==
    ASSUME NEW s \in Seq(Result), NEW r \in Result
    PROVE  /\ PanickedIn(s) => PanickedIn(Append(s, r))
           /\ r.outcome = "panicked" => PanickedIn(Append(s, r))
<1>1. /\ Append(s, r) \in Seq(Result)
      /\ Len(Append(s, r)) = Len(s) + 1
      /\ \A i \in 1..Len(s) : Append(s, r)[i] = s[i]
      /\ Append(s, r)[Len(s) + 1] = r
  BY AppendProperties
<1>2. /\ Len(s) \in Nat /\ DOMAIN s = 1..Len(s)
      /\ DOMAIN Append(s, r) = 1..(Len(s) + 1)
  BY <1>1, LenProperties
<1>3. QED
  BY <1>1, <1>2 DEF PanickedIn

\* A panic leaves the queue only into the results taken.
LEMMA PopKeepsPanic ==
    ASSUME NEW t \in Seq(Result), NEW s \in Seq(Result), s # <<>>,
           PanickedIn(s)
    PROVE  PanickedIn(Append(t, Head(s))) \/ PanickedIn(Tail(s))
<1>1. /\ Head(s) \in Result
      /\ Tail(s) \in Seq(Result)
      /\ Len(Tail(s)) = Len(s) - 1
      /\ \A i \in 1..Len(Tail(s)) : Tail(s)[i] = s[i + 1]
  BY HeadTailProperties
<1>2. /\ Len(s) \in Nat /\ DOMAIN s = 1..Len(s)
      /\ DOMAIN Tail(s) = 1..(Len(s) - 1)
  BY <1>1, LenProperties
<1>3. PICK i \in 1..Len(s) : s[i].outcome = "panicked"
  BY <1>2 DEF PanickedIn
<1>4. CASE i = 1
  <2>1. Head(s).outcome = "panicked"
    BY <1>3, <1>4
  <2>2. QED
    BY <2>1, <1>1, AppendKeepsPanic
<1>5. CASE i # 1
  <2>1. i - 1 \in 1..(Len(s) - 1) /\ (i - 1) + 1 = i
    BY <1>2, <1>5
  <2>2. Tail(s)[i - 1].outcome = "panicked"
    BY <2>1, <1>1, <1>3
  <2>3. QED
    BY <2>1, <2>2, <1>2 DEF PanickedIn
<1>6. QED
  BY <1>4, <1>5

\* After a launch the hardware is with the new worker, or a panic explains
\* that there is none to launch with.
LEMMA LaunchConserves ==
    ASSUME NEW hw \in BOOLEAN, NEW rs \in Seq(Result), NEW job \in 1..MaxJobs,
           Launch(hw, rs, job),
           callerHw' = callerHw, taken' = taken,
           hw => ~callerHw,
           ~hw => callerHw \/ PanickedIn(rs) \/ PanickedIn(taken)
    PROVE  HardwareConserved'
<1>1. CASE hw
  <2>1. hardware' = FALSE /\ worker' = "run" /\ ~callerHw'
    BY <1>1 DEF Launch
  <2>2. QED
    BY <2>1 DEF HardwareConserved, WorkerHasHw
<1>2. CASE ~hw
  <2> DEFINE r == [job |-> job, outcome |-> "nohw"]
  <2>1. hardware' = FALSE /\ worker' = "none" /\ results' = Append(rs, r)
    BY <1>2 DEF Launch
  <2>2. r \in Result
    BY DEF Result, Outcomes
  <2>3. PanickedIn(rs) => PanickedIn(results')
    BY <2>1, <2>2, AppendKeepsPanic
  <2>4. callerHw' \/ SomePanic'
    BY <1>2, <2>3 DEF SomePanic, PanickedIn
  <2>5. QED
    BY <2>1, <2>4 DEF HardwareConserved, WorkerHasHw
<1>3. QED
  BY <1>1, <1>2

\* Joining a worker that panicked puts the panic into the queue; what was
\* queued stays.
LEMMA JoinKeepsPanic ==
    ASSUME ExecTypeOK, handle # NoJob
    PROVE  /\ worker # "done" => PanickedIn(JoinedResults)
           /\ PanickedIn(results) => PanickedIn(JoinedResults)
<1>1. JoinedResult \in Result /\ results \in Seq(Result)
  BY JoinedResultType DEF ExecTypeOK
<1>2. worker # "done" => JoinedResult.outcome = "panicked"
  BY DEF JoinedResult
<1>3. QED
  BY <1>1, <1>2, AppendKeepsPanic DEF JoinedResults

\* Popping a result leaves the hardware where the poll's reap put it.
LEMMA PopConserves ==
    ASSUME ExecTypeOK, NEW hw \in BOOLEAN, NEW rs \in Seq(Result),
           PopResult(rs, hw),
           hw => ~callerHw,
           ~hw => callerHw \/ PanickedIn(rs) \/ PanickedIn(taken)
    PROVE  HardwareConserved'
<1>1. /\ rs # <<>> /\ results' = Tail(rs) /\ taken' = Append(taken, Head(rs))
      /\ hardware' = hw /\ worker' = "none" /\ callerHw' = callerHw
  BY DEF PopResult
<1>2. taken \in Seq(Result) /\ Head(rs) \in Result
  BY <1>1, HeadTailProperties DEF ExecTypeOK
<1>3. PanickedIn(rs) => PanickedIn(taken') \/ PanickedIn(results')
  BY <1>1, <1>2, PopKeepsPanic
<1>4. PanickedIn(taken) => PanickedIn(taken')
  BY <1>1, <1>2, AppendKeepsPanic
<1>5. hardware' \/ callerHw' \/ SomePanic'
  BY <1>1, <1>3, <1>4 DEF SomePanic, PanickedIn
<1>6. QED
  BY <1>1, <1>5 DEF HardwareConserved, WorkerHasHw

\* Every step conserves the hardware.
LEMMA ConservedStep ==
    ASSUME ExecInv, HardwareConserved, [ExecNext]_execVars
    PROVE  HardwareConserved'
<1> USE DEF NoJob
<1>t. ExecTypeOK /\ Shape /\ ResultsInSubmissionOrder
  BY DEF ExecInv
<1>p. SomePanic <=> worker = "panicked" \/ PanickedIn(results) \/ PanickedIn(taken)
  BY DEF SomePanic, PanickedIn
<1>1. CASE Submit
  <2>1. worker = "none"
    BY <1>1, <1>t DEF Submit, Shape
  <2>2. /\ hardware \in BOOLEAN /\ results \in Seq(Result)
        /\ submitted + 1 \in 1..MaxJobs
        /\ callerHw' = callerHw /\ taken' = taken
        /\ Launch(hardware, results, submitted + 1)
    BY <1>1, <1>t, ExecutorAssumption DEF Submit, ExecTypeOK
  <2>3. /\ hardware => ~callerHw
        /\ ~hardware => callerHw \/ PanickedIn(results) \/ PanickedIn(taken)
    BY <2>1, <1>p DEF HardwareConserved, WorkerHasHw
  <2>4. QED
    BY <2>2, <2>3, LaunchConserves
<1>2. CASE SubmitJoin
  <2>1. handle # NoJob /\ WorkerFinished
    BY <1>2, <1>t DEF SubmitJoin, Shape
  <2>2. /\ JoinedHardware \in BOOLEAN /\ JoinedResults \in Seq(Result)
        /\ submitted \in 1..MaxJobs
        /\ callerHw' = callerHw /\ taken' = taken
        /\ Launch(JoinedHardware, JoinedResults, submitted)
    <3>1. submitted \in 1..MaxJobs
      BY <1>2, <2>1, <1>t, InvQueue, ExecutorAssumption
      DEF SubmitJoin, ExecTypeOK, ResultsInSubmissionOrder
    <3>2. JoinedResults \in Seq(Result)
      BY <2>1, <1>t, JoinExtends
    <3>3. QED
      BY <1>2, <3>1, <3>2 DEF SubmitJoin, JoinedHardware
  <2>3. JoinedHardware => ~callerHw
    BY <2>1 DEF JoinedHardware, HardwareConserved, WorkerHasHw
  <2>4. ~JoinedHardware => PanickedIn(JoinedResults)
    BY <2>1, <1>t, JoinKeepsPanic DEF JoinedHardware
  <2>5. QED
    BY <2>2, <2>3, <2>4, LaunchConserves
<1>3. CASE PollResult
  <2>1. CASE handle # NoJob
    <3>1. WorkerFinished
      BY <1>3, <2>1 DEF PollResult, IsRunning
    <3>2. /\ JoinedHardware \in BOOLEAN /\ JoinedResults \in Seq(Result)
          /\ PopResult(JoinedResults, JoinedHardware)
      BY <1>3, <2>1, <1>t, JoinExtends DEF PollResult, JoinedHardware
    <3>3. JoinedHardware => ~callerHw
      BY <3>1 DEF JoinedHardware, HardwareConserved, WorkerHasHw
    <3>4. ~JoinedHardware => PanickedIn(JoinedResults)
      BY <2>1, <1>t, JoinKeepsPanic DEF JoinedHardware
    <3>5. QED
      BY <3>2, <3>3, <3>4, <1>t, PopConserves
  <2>2. CASE handle = NoJob
    <3>1. worker = "none"
      BY <2>2, <1>t DEF Shape
    <3>2. /\ hardware \in BOOLEAN /\ results \in Seq(Result)
          /\ PopResult(results, hardware)
      BY <1>3, <2>2, <1>t DEF PollResult, ExecTypeOK
    <3>3. /\ hardware => ~callerHw
          /\ ~hardware => callerHw \/ PanickedIn(results) \/ PanickedIn(taken)
      BY <3>1, <1>p DEF HardwareConserved, WorkerHasHw
    <3>4. QED
      BY <3>2, <3>3, <1>t, PopConserves
  <2>3. QED
    BY <2>1, <2>2
<1>4. CASE SubmitOverRunning \/ Stop \/ TakeHardwareFromRunning
  BY <1>4 DEF SubmitOverRunning, Stop, TakeHardwareFromRunning, workerVars,
     HardwareConserved, WorkerHasHw, SomePanic
<1>5. CASE TakeHardware
  <2>1. worker' = worker /\ worker = "none" /\ callerHw' = TRUE /\ hardware' = FALSE
    BY <1>5, <1>t DEF TakeHardware, Shape, workerVars
  <2>2. QED
    BY <2>1 DEF HardwareConserved, WorkerHasHw
<1>6. CASE TakeHardwareJoin
  <2>1. handle # NoJob
    BY <1>6, <1>t DEF TakeHardwareJoin, Shape
  <2>2. /\ hardware' = FALSE /\ worker' = "none"
        /\ callerHw' = JoinedHardware /\ results' = JoinedResults
    BY <1>6 DEF TakeHardwareJoin
  <2>3. ~JoinedHardware => PanickedIn(results')
    BY <2>1, <2>2, <1>t, JoinKeepsPanic DEF JoinedHardware
  <2>4. callerHw' \/ SomePanic'
    BY <2>2, <2>3 DEF SomePanic, PanickedIn
  <2>5. QED
    BY <2>2, <2>4 DEF HardwareConserved, WorkerHasHw
<1>7. CASE GiveHardware
  <2>1. worker' = worker /\ callerHw' = FALSE /\ hardware' = TRUE /\ callerHw
    BY <1>7 DEF GiveHardware, workerVars
  <2>2. QED
    BY <2>1 DEF HardwareConserved, WorkerHasHw
<1>8. CASE WorkerNext
  <2>1. /\ UNCHANGED <<hardware, callerHw, results, taken>>
        /\ WorkerHasHw
        /\ WorkerHasHw' \/ worker' = "panicked"
    BY <1>8 DEF WorkerNext, DelayMs, Sleep, Wake, Finish, FuelExhausted, Panic,
       callerVars, WorkerHasHw
  <2>2. WorkerHasHw' \/ SomePanic'
    BY <2>1 DEF SomePanic
  <2>3. QED
    BY <2>1, <2>2 DEF HardwareConserved
<1>9. CASE UNCHANGED execVars
  BY <1>9 DEF execVars, callerVars, workerVars, HardwareConserved, WorkerHasHw, SomePanic
<1>10. QED
  BY <1>1, <1>2, <1>3, <1>4, <1>5, <1>6, <1>7, <1>8, <1>9
  DEF ExecNext, CallerNext, Joins

\* The hardware is always in exactly one place, or a panicking worker lost it.
THEOREM HardwareIsConserved == ExecSpec => []HardwareConserved
<1>1. ExecInit => HardwareConserved
  BY DEF ExecInit, HardwareConserved, WorkerHasHw
<1>2. ExecInv /\ HardwareConserved /\ [ExecNext]_execVars => HardwareConserved'
  BY ConservedStep
<1>3. QED
  BY <1>1, <1>2, ExecInvariant, PTL DEF ExecSpec

-----------------------------------------------------------------------------
(* ThreadedExecutor implements the MiloExecutor contract.                  *)

\* A step is a step of the contract or leaves it unchanged.
LEMMA ContractStep ==
    ASSUME ExecInv, [ExecNext]_execVars
    PROVE  [Contract!AbsNext]_(Contract!absVars)
<1> USE DEF NoJob
<1>t. /\ ExecTypeOK /\ Shape /\ ResultsInSubmissionOrder
      /\ Len(taken) \in Nat /\ Len(results) \in Nat
      /\ Ordered(taken, results)
      /\ taken \in Seq(Result) /\ results \in Seq(Result)
  BY InvQueue DEF ExecInv, ExecTypeOK
<1>s. ASSUME submitted' = submitted, taken' = taken, IsRunning' = IsRunning
      PROVE  UNCHANGED Contract!absVars
  BY <1>s DEF Contract!absVars
<1>1. CASE Submit \/ SubmitOverRunning
  <2>1. submitted' = submitted + 1 /\ taken' = taken
    BY <1>1 DEF Submit, SubmitOverRunning
  <2>2. IsRunning => IsRunning'
    BY <1>1 DEF Submit, SubmitOverRunning, IsRunning, WorkerFinished, workerVars
  <2>3. IsRunning' \in BOOLEAN
    BY DEF IsRunning
  <2>4. QED
    BY <2>1, <2>2, <2>3 DEF Contract!AbsNext, Contract!AbsSubmit
<1>2. CASE SubmitJoin
  <2>1. ~IsRunning /\ submitted' = submitted /\ taken' = taken
    BY <1>2 DEF SubmitJoin, IsRunning
  <2>2. Len(taken) < submitted
    BY <1>2, <1>t DEF SubmitJoin, ResultsInSubmissionOrder, Shape
  <2>3. IsRunning' = TRUE \/ IsRunning' = FALSE
    BY DEF IsRunning
  <2>4. CASE IsRunning' = TRUE
    BY <2>1, <2>2, <2>4 DEF Contract!AbsNext, Contract!AbsStart
  <2>5. CASE IsRunning' = FALSE
    <3>1. IsRunning' = IsRunning
      BY <2>1, <2>5 DEF IsRunning
    <3>2. QED
      BY <2>1, <3>1, <1>s
  <2>6. QED
    BY <2>3, <2>4, <2>5
<1>3. CASE PollResult
  <2>1. ~IsRunning /\ ~IsRunning' /\ submitted' = submitted
    BY <1>3 DEF PollResult, PopResult, IsRunning
  <2>2. PICK rs \in Seq(Result) :
            /\ rs # <<>> /\ Ordered(taken, rs)
            /\ taken' = Append(taken, Head(rs))
            /\ submitted = Len(taken) + Len(rs)
    <3>1. CASE handle # NoJob
      <4>1. /\ JoinedResults \in Seq(Result) /\ JoinedResults # <<>>
            /\ Len(JoinedResults) = Len(results) + 1
            /\ Ordered(taken, JoinedResults)
        BY <3>1, <1>t, JoinExtends
      <4>2. taken' = Append(taken, Head(JoinedResults))
        BY <1>3, <3>1 DEF PollResult, PopResult
      <4>3. submitted = Len(taken) + Len(JoinedResults)
        BY <1>3, <3>1, <4>1, <1>t DEF PollResult, ResultsInSubmissionOrder
      <4>4. QED
        BY <4>1, <4>2, <4>3
    <3>2. CASE handle = NoJob
      BY <1>3, <3>2, <1>t DEF PollResult, PopResult, ResultsInSubmissionOrder
    <3>3. QED
      BY <3>1, <3>2
  <2>3. Head(rs) \in Result /\ Head(rs).job = Len(taken) + 1
    BY <2>2, <1>t, PopOldest
  <2>4. \E o \in Contract!Outcomes :
            Head(rs) = [job |-> Len(taken) + 1, outcome |-> o]
    BY <2>3 DEF Result, Outcomes, Contract!Outcomes
  <2>5. Len(taken) < submitted
    BY <2>2, <1>t, EmptySeq
  <2>6. IsRunning' = IsRunning
    BY <2>1 DEF IsRunning
  <2>7. QED
    BY <2>1, <2>2, <2>4, <2>5, <2>6 DEF Contract!AbsNext, Contract!AbsAnswer
<1>4. CASE Stop \/ TakeHardware \/ TakeHardwareFromRunning \/ GiveHardware
  <2>1. submitted' = submitted /\ taken' = taken /\ IsRunning' = IsRunning
    BY <1>4 DEF Stop, TakeHardware, TakeHardwareFromRunning, GiveHardware,
       IsRunning, WorkerFinished, workerVars
  <2>2. QED
    BY <2>1, <1>s
<1>5. CASE TakeHardwareJoin
  <2>1. submitted' = submitted /\ taken' = taken
    BY <1>5 DEF TakeHardwareJoin
  <2>2. IsRunning' = IsRunning
    BY <1>5 DEF TakeHardwareJoin, IsRunning
  <2>3. QED
    BY <2>1, <2>2, <1>s
<1>6. CASE DelayMs \/ Sleep \/ Wake
  <2>1. submitted' = submitted /\ taken' = taken
    BY <1>6 DEF DelayMs, Sleep, Wake, callerVars
  <2>2. IsRunning' = IsRunning
    BY <1>6 DEF DelayMs, Sleep, Wake, callerVars, IsRunning, WorkerFinished
  <2>3. QED
    BY <2>1, <2>2, <1>s
<1>7. CASE Finish \/ FuelExhausted \/ Panic
  <2>1. submitted' = submitted /\ taken' = taken
    BY <1>7 DEF Finish, FuelExhausted, Panic, callerVars
  <2>2. IsRunning /\ IsRunning' = FALSE
    BY <1>7, <1>t DEF Finish, FuelExhausted, Panic, callerVars, IsRunning, WorkerFinished, Shape
  <2>3. QED
    BY <2>1, <2>2 DEF Contract!AbsNext, Contract!AbsFinish
<1>8. CASE UNCHANGED execVars
  <2>1. submitted' = submitted /\ taken' = taken /\ IsRunning' = IsRunning
    BY <1>8 DEF execVars, callerVars, workerVars, IsRunning, WorkerFinished
  <2>2. QED
    BY <2>1, <1>s
<1>9. QED
  BY <1>1, <1>2, <1>3, <1>4, <1>5, <1>6, <1>7, <1>8
  DEF ExecNext, CallerNext, WorkerNext, Joins

\* ThreadedExecutor implements the MiloExecutor contract: one result per
\* submission, in submission order, one module at a time, and no result while
\* a module is running.
THEOREM ExecutorImplementsContract == ExecSpec => ImplementsContract
<1>1. ExecInit => Contract!AbsInit
  BY DEF ExecInit, Contract!AbsInit, IsRunning, NoJob
<1>2. ExecInv /\ [ExecNext]_execVars => [Contract!AbsNext]_(Contract!absVars)
  BY ContractStep
<1>3. QED
  BY <1>1, <1>2, ExecInvariant, PTL DEF ExecSpec, ImplementsContract, Contract!AbsSpec

(***************************************************************************)
(* The receiver.                                                           *)
(***************************************************************************)

\* What write_frame is given.
Reply ==
    [op : {"discovery"}]
    \cup [op : {"result"}, job : 0..MaxJobs, outcome : Outcomes]
    \cup [op : {"status"}, stopped : {TRUE}]
    \cup [op : {"status"}, status : ExecStatus, running : BOOLEAN]

\* The connection served is the one accepted last.
ConnInv ==
    /\ workload \in Workloads
    /\ conns \in 0..workload.conns
    /\ accepted \in 0..conns
    /\ client \in {NoConn, accepted}
    /\ hostConn \in 0..conns

\* Nothing was written to a connection not yet accepted, and no reply carries
\* the result of a module that has not been polled: the next result to be
\* written has the largest number so far and goes to the last connection.
OutboxInv ==
    /\ outbox \in [Conns -> Seq(Reply)]
    /\ \A c \in Conns : outbox[c] # <<>> => c <= accepted
    /\ \A c \in Conns : \A i \in DOMAIN outbox[c] :
          outbox[c][i].op = "result" => outbox[c][i].job \in 0..Len(taken)

\* What authorize_module has let through under the policy in force.
Trusted(f) ==
    /\ f.payload.imports = "allowed"
    /\ policy.require => f.payload.wrap = "signed"
    /\ f.payload.wrap # "forged"

\* Between the two calls of a handler: a submit blocks only the push or swap
\* that made it; a module found running after status() ran before it too; the
\* module a swap has yet to submit is authorised.
HandlerInv ==
    /\ call \in {"none", "submit"}
    /\ call = "submit" => loop = "poll"
    /\ loop = "query" => seenStatus \in ExecStatus /\ (IsRunning => seenStatus = "Running")
    /\ loop = "swap" => loading[1] \in Frame /\ Trusted(loading[1])
    /\ loaded \in Seq(Frame)

RecvInv ==
    /\ ExecInv
    /\ ConnInv
    /\ OutboxInv
    /\ HandlerInv
    /\ OnlyTrustedModulesRun
    /\ StatusReplyCoherent
    /\ WireOrder

-----------------------------------------------------------------------------
(* The executor under the main loop.                                       *)

\* Every step of the receiver is one of the executor's, or leaves it alone.
LEMMA RecvStepIsExecs ==
    ASSUME [Next]_vars
    PROVE  [ExecNext]_execVars
  <1>1. CASE UNCHANGED vars
    BY <1>1 DEF vars
  <1>2. CASE HostNext
    BY <1>2 DEF HostNext, HostConnect, HostClose, HostSend, HostStream
  <1>3. CASE Accept \/ Discovery \/ UnknownOpcode \/ SetParam \/ QueryStatus \/ QueryRunning
             \/ RejectModule \/ ScanPanics \/ Gone
    BY <1>3 DEF Accept, Discovery, UnknownOpcode, SetParam, QueryStatus, QueryRunning, RejectModule,
               ScanPanics, Gone, vars
  <1>4. CASE ClientGone \/ PollAfterSubmit \/ IdlePoll \/ IdleNothing
    BY <1>4 DEF ClientGone, PollAfterSubmit, IdlePoll, IdleNothing, PollAndSend, vars,
               ExecNext, CallerNext
  <1>5. CASE HandleStop \/ HotSwapStop
    BY <1>5 DEF HandleStop, HotSwapStop, ExecNext, CallerNext
  <1>6. CASE Push \/ HotSwapSubmit \/ SubmitReturns
    BY <1>6 DEF Push, HotSwapSubmit, SubmitReturns, SubmitModule, ExecNext, CallerNext, Joins
  <1>7. CASE WorkerStep
    BY <1>7 DEF WorkerStep, ExecNext
  <1> QED
    BY <1>1, <1>2, <1>3, <1>4, <1>5, <1>6, <1>7 DEF Next, MainLoopNext

\* A poll that answers takes the result of the next submission; no other call
\* of the executor takes any.
LEMMA PollTakesNext ==
    ASSUME ExecInv, ExecInv', PollResult
    PROVE  /\ Len(taken) \in Nat /\ Len(taken') = Len(taken) + 1
           /\ taken'[Len(taken')] \in Result
           /\ taken'[Len(taken')].job = Len(taken')
  <1>1. PICK rs : rs # <<>> /\ taken' = Append(taken, Head(rs))
    BY DEF PollResult, PopResult
  <1>2. taken \in Seq(Result) /\ taken' \in Seq(Result)
    BY ResultConstant DEF ExecInv, ExecTypeOK
  <1>3. Len(taken) \in Nat /\ Len(taken') = Len(taken) + 1
    BY <1>1, <1>2, LenProperties
  <1>4. Len(taken') \in DOMAIN taken' /\ taken'[Len(taken')] \in Result
    BY <1>2, <1>3, LenProperties, ElementOfSeq
  <1> QED
    BY <1>3, <1>4 DEF ExecInv, ResultsInSubmissionOrder

-----------------------------------------------------------------------------
(* What reaches the host.                                                  *)

\* A reply that a handler may write: coherent, and if it is a module's result
\* then the one polled in this very step.
Writable(r) ==
    /\ r \in Reply
    /\ ("running" \in DOMAIN r /\ r.running) => r.status = "Running"
    /\ r.op = "result" => r.job = NoJob \/ (r.job = Len(taken') /\ Len(taken') > Len(taken))

\* The client being served is one of the connections the workload opens.
LEMMA ConnsOpened ==
    ASSUME ConnInv, ReceiverAssumption
    PROVE  /\ Conns \subseteq Nat \ {NoConn}
           /\ 1..workload.conns \subseteq Conns
           /\ workload.conns \in Nat
           /\ client # NoConn => client \in Conns
  BY DEF ConnInv, ReceiverAssumption, Conns, NoConn

\* An outbox that does not change keeps its invariants while results are taken.
LEMMA OutboxKept ==
    ASSUME ConnInv, OutboxInv, StatusReplyCoherent, WireOrder, outbox' = outbox,
           accepted' \in Nat, accepted' >= accepted,
           Len(taken) \in Nat, Len(taken') \in Nat, Len(taken') >= Len(taken)
    PROVE  OutboxInv' /\ StatusReplyCoherent' /\ WireOrder'
  <1> USE ReceiverAssumption
  <1>1. \A c \in Conns : c \in Nat /\ accepted \in Nat
    BY ConnsOpened DEF ConnInv
  <1>2. Reply' = Reply /\ Conns' = Conns
    BY DEF Reply, Conns, Outcomes, ExecStatus
  <1>3. OutboxInv'
    BY <1>1, <1>2 DEF OutboxInv
  <1> QED
    BY <1>3, <1>2 DEF StatusReplyCoherent, WireOrder, Replies

\* write_frame.
LEMMA WriteKeepsOutbox ==
    ASSUME ConnInv, OutboxInv, StatusReplyCoherent, WireOrder,
           NEW r, Writable(r), WriteFrame(r), accepted' = accepted,
           Len(taken) \in Nat, Len(taken') \in Nat, Len(taken') >= Len(taken)
    PROVE  OutboxInv' /\ StatusReplyCoherent' /\ WireOrder'
  <1> USE ReceiverAssumption
  <1>1. CASE outbox' = outbox
    <2>1. accepted' \in Nat /\ accepted' >= accepted
      BY DEF ConnInv
    <2> QED
      BY <1>1, <2>1, OutboxKept
  <1>2. CASE /\ client # NoConn /\ client = hostConn
             /\ outbox' = [outbox EXCEPT ![client] = Append(@, r)]
    <2>0. r \in Reply /\ client \in Conns /\ client = accepted /\ Conns \subseteq Nat \ {NoConn}
      BY <1>2, ConnsOpened DEF Writable, ConnInv
    <2>1. outbox[client] \in Seq(Reply)
      BY <2>0 DEF OutboxInv
    <2>2. /\ Append(outbox[client], r) \in Seq(Reply)
          /\ Len(outbox[client]) \in Nat
          /\ DOMAIN outbox[client] = 1..Len(outbox[client])
          /\ DOMAIN Append(outbox[client], r) = 1..(Len(outbox[client]) + 1)
          /\ \A i \in 1..Len(outbox[client]) : Append(outbox[client], r)[i] = outbox[client][i]
          /\ Append(outbox[client], r)[Len(outbox[client]) + 1] = r
      BY <2>0, <2>1, AppendProperties, LenProperties
    <2>3. /\ outbox' \in [Conns -> Seq(Reply)]
          /\ outbox'[client] = Append(outbox[client], r)
          /\ \A c \in Conns \ {client} : outbox'[c] = outbox[c]
      BY <1>2, <2>0, <2>2 DEF OutboxInv
    <2>c. Reply' = Reply /\ Conns' = Conns
      BY DEF Reply, Conns, Outcomes, ExecStatus
    <2>4. ASSUME NEW c \in Conns, NEW i \in DOMAIN outbox'[c]
          PROVE  \/ i \in DOMAIN outbox[c] /\ outbox'[c][i] = outbox[c][i]
                 \/ c = client /\ i = Len(outbox[client]) + 1 /\ outbox'[c][i] = r
      <3>1. CASE c = client
        <4>1. i \in 1..(Len(outbox[client]) + 1)
          BY <2>2, <2>3, <3>1
        <4>2. i = Len(outbox[client]) + 1 \/ i \in 1..Len(outbox[client])
          BY <2>2, <4>1
        <4> QED
          BY <2>2, <2>3, <3>1, <4>2
      <3>2. CASE c # client
        BY <2>3, <3>2
      <3> QED
        BY <3>1, <3>2
    <2>5. OutboxInv'
      <3>1. \A c \in Conns : outbox'[c] # <<>> => c <= accepted'
        BY <2>0, <2>3 DEF OutboxInv, ConnInv
      <3>2. ASSUME NEW c \in Conns, NEW i \in DOMAIN outbox'[c], outbox'[c][i].op = "result"
            PROVE  outbox'[c][i].job \in 0..Len(taken')
        <4>1. CASE i \in DOMAIN outbox[c] /\ outbox'[c][i] = outbox[c][i]
          BY <3>2, <4>1 DEF OutboxInv
        <4>2. CASE outbox'[c][i] = r
          BY <3>2, <4>2 DEF Writable, NoJob
        <4> QED
          BY <2>4, <4>1, <4>2
      <3> QED
        BY <2>3, <2>c, <3>1, <3>2 DEF OutboxInv
    <2>6. StatusReplyCoherent'
      <3> SUFFICES ASSUME NEW c \in Conns, NEW i \in DOMAIN outbox'[c],
                          "running" \in DOMAIN outbox'[c][i], outbox'[c][i].running
                   PROVE  outbox'[c][i].status = "Running"
        BY <2>c DEF StatusReplyCoherent, Replies
      <3>1. CASE i \in DOMAIN outbox[c] /\ outbox'[c][i] = outbox[c][i]
        BY <3>1 DEF StatusReplyCoherent, Replies
      <3>2. CASE outbox'[c][i] = r
        BY <3>2 DEF Writable
      <3> QED
        BY <2>4, <3>1, <3>2
    <2>7. WireOrder'
      <3> SUFFICES ASSUME NEW c \in Conns, NEW d \in Conns,
                          NEW i \in DOMAIN outbox'[c], NEW k \in DOMAIN outbox'[d],
                          outbox'[c][i].op = "result", outbox'[d][k].op = "result",
                          outbox'[c][i].job # NoJob, outbox'[d][k].job # NoJob,
                          c < d \/ (c = d /\ i < k)
                   PROVE  outbox'[c][i].job < outbox'[d][k].job
        BY <2>c DEF WireOrder
      <3>1. CASE i \in DOMAIN outbox[c] /\ outbox'[c][i] = outbox[c][i]
        <4>1. CASE k \in DOMAIN outbox[d] /\ outbox'[d][k] = outbox[d][k]
          BY <3>1, <4>1 DEF WireOrder
        <4>2. CASE outbox'[d][k] = r
          <5>1. r.job = Len(taken') /\ Len(taken') > Len(taken)
            BY <4>2 DEF Writable
          <5>2. outbox[c][i].job \in 0..Len(taken)
            BY <3>1 DEF OutboxInv
          <5> QED
            BY <3>1, <4>2, <5>1, <5>2
        <4> QED
          BY <2>4, <4>1, <4>2
      <3>2. CASE c = client /\ i = Len(outbox[client]) + 1
        <4>1. CASE k \in DOMAIN outbox[d]
          <5>1. outbox[d] # <<>> /\ d \in Nat
            BY <2>0, <4>1
          <5>2. d <= client
            BY <2>0, <5>1 DEF OutboxInv
          <5>3. d = client /\ k \in 1..Len(outbox[client]) /\ i < k
            BY <2>0, <2>2, <3>2, <4>1, <5>1, <5>2
          <5> QED
            BY <2>2, <3>2, <5>3
        <4>2. CASE d = client /\ k = Len(outbox[client]) + 1
          BY <2>0, <2>2, <3>2, <4>2
        <4> QED
          BY <2>4, <4>1, <4>2
      <3> QED
        BY <2>4, <3>1, <3>2
    <2> QED
      BY <2>5, <2>6, <2>7
  <1> QED
    BY <1>1, <1>2 DEF WriteFrame

\* What any step writes keeps the outbox's three invariants: only the handlers of
\* QUERY_STATUS and the polls write what they speak of.
LEMMA OutboxStep ==
    ASSUME RecvInv, ExecInv', [Next]_vars
    PROVE  OutboxInv' /\ StatusReplyCoherent' /\ WireOrder'
  <1> USE ReceiverAssumption DEF RecvInv
  <1>n. /\ Len(taken) \in Nat /\ Len(taken') \in Nat
        /\ accepted \in Nat /\ conns \in Nat /\ accepted <= conns
    <2>1. taken \in Seq(Result) /\ taken' \in Seq(Result)
      BY ResultConstant DEF ExecInv, ExecTypeOK
    <2> QED
      BY <2>1, LenProperties, ConnsOpened DEF ConnInv
  <1>k. ASSUME outbox' = outbox, taken' = taken, accepted' \in {accepted, accepted + 1}
        PROVE  OutboxInv' /\ StatusReplyCoherent' /\ WireOrder'
    <2>1. accepted' \in Nat /\ accepted' >= accepted /\ Len(taken') >= Len(taken)
      BY <1>k, <1>n
    <2> QED
      BY <1>k, <1>n, <2>1, OutboxKept
  <1>w. ASSUME NEW r, Writable(r), WriteFrame(r), accepted' = accepted, taken' = taken
        PROVE  OutboxInv' /\ StatusReplyCoherent' /\ WireOrder'
    <2>1. Len(taken') >= Len(taken)
      BY <1>n, <1>w
    <2> QED
      BY <1>n, <1>w, <2>1, WriteKeepsOutbox
  <1>p. ASSUME PollAndSend PROVE OutboxInv' /\ StatusReplyCoherent' /\ WireOrder'
    <2> DEFINE r == ResultFrame(taken'[Len(taken')])
    <2>1. /\ taken'[Len(taken')] \in Result /\ taken'[Len(taken')].job = Len(taken')
          /\ Len(taken') = Len(taken) + 1
      BY <1>p, PollTakesNext DEF PollAndSend
    <2>2. r \in [op : {"result"}, job : 0..MaxJobs, outcome : Outcomes] /\ r.job = Len(taken')
      BY <2>1, ExecutorAssumption DEF ResultFrame, Result
    <2>3. DOMAIN r = {"op", "job", "outcome"}
      BY DEF ResultFrame
    <2>4. WriteFrame(r) /\ accepted' = accepted
      BY <1>p DEF PollAndSend
    <2>5. Len(taken') >= Len(taken) /\ Len(taken') > Len(taken)
      BY <1>n, <2>1
    <2> HIDE DEF r
    <2>6. Writable(r)
      BY <2>2, <2>3, <2>5 DEF Writable, Reply
    <2> QED
      BY <1>n, <2>4, <2>5, <2>6, WriteKeepsOutbox
  <1> USE DEF execVars, callerVars, recvVars, loopVars, hostVars
  <1>1. CASE UNCHANGED vars \/ IdleNothing \/ Gone
    BY <1>1, <1>k DEF vars, IdleNothing, Gone
  <1>2. CASE HostNext \/ Accept
    BY <1>2, <1>k DEF HostNext, HostConnect, HostClose, HostSend, HostStream, Accept
  <1>3. CASE SetParam \/ QueryStatus \/ HotSwapStop \/ ScanPanics
    BY <1>3, <1>k DEF SetParam, QueryStatus, HotSwapStop, ScanPanics, ReadFrame, Stop
  <1>4. CASE Push \/ HotSwapSubmit \/ SubmitReturns
    BY <1>4, <1>k DEF Push, HotSwapSubmit, SubmitReturns, ReadFrame, SubmitModule, Submit,
                     SubmitOverRunning, SubmitJoin
  <1>5. CASE WorkerStep
    BY <1>5, <1>k DEF WorkerStep, WorkerNext, DelayMs, Sleep, Wake, Finish, FuelExhausted, Panic
  <1>6. CASE ClientGone
    <2>1. PollResult => Len(taken') = Len(taken) + 1
      BY PollTakesNext
    <2>2. outbox' = outbox /\ accepted' = accepted /\ Len(taken') >= Len(taken)
      BY <1>6, <1>n, <2>1 DEF ClientGone
    <2> QED
      BY <1>n, <2>2, OutboxKept
  <1>7. CASE Discovery
    <2>1. Writable([op |-> "discovery"])
      BY DEF Writable, Reply
    <2> QED
      BY <1>7, <1>w, <2>1 DEF Discovery, ReadFrame
  <1>8. CASE UnknownOpcode \/ RejectModule
    <2> DEFINE r == [op |-> "result", job |-> NoJob, outcome |-> "error"]
    <2>1. r \in [op : {"result"}, job : 0..MaxJobs, outcome : Outcomes] /\ r.job = NoJob
      BY ExecutorAssumption DEF NoJob, Outcomes
    <2>2. DOMAIN r = {"op", "job", "outcome"}
      OBVIOUS
    <2>3. WriteFrame(r) /\ accepted' = accepted /\ taken' = taken
      BY <1>8 DEF UnknownOpcode, RejectModule, ReadFrame
    <2> HIDE DEF r
    <2>4. Writable(r)
      BY <2>1, <2>2 DEF Writable, Reply
    <2> QED
      BY <1>w, <2>3, <2>4
  <1>9. CASE HandleStop
    <2>1. Writable([op |-> "status", stopped |-> TRUE])
      BY DEF Writable, Reply
    <2> QED
      BY <1>9, <1>w, <2>1 DEF HandleStop, ReadFrame, Stop
  <1>10. CASE QueryRunning
    <2> DEFINE r == [op |-> "status", status |-> seenStatus, running |-> IsRunning]
    <2>1. seenStatus \in ExecStatus /\ (IsRunning => seenStatus = "Running") /\ IsRunning \in BOOLEAN
      BY <1>10 DEF QueryRunning, HandlerInv, IsRunning
    <2>2. Writable(r)
      BY <2>1 DEF Writable, Reply
    <2>3. WriteFrame(r) /\ accepted' = accepted /\ taken' = taken
      BY <1>10 DEF QueryRunning
    <2> HIDE DEF r
    <2> QED
      BY <1>w, <2>2, <2>3
  <1>11. CASE PollAfterSubmit \/ IdlePoll
    BY <1>11, <1>p, <1>k DEF PollAfterSubmit, IdlePoll
  <1> QED
    BY <1>1, <1>2, <1>3, <1>4, <1>5, <1>6, <1>7, <1>8, <1>9, <1>10, <1>11 DEF Next, MainLoopNext

\* Connections are numbered in the order the host opens them, and accepted so.
LEMMA ConnStep ==
    ASSUME ConnInv, [Next]_vars
    PROVE  ConnInv'
  <1> USE ReceiverAssumption DEF ConnInv, loopVars, hostVars, recvVars, NoConn
  <1>1. workload.conns \in Nat
    BY ConnsOpened
  <1>2. CASE HostNext \/ Accept
    BY <1>1, <1>2 DEF HostNext, HostConnect, HostClose, HostSend, HostStream, Accept
  <1>3. ASSUME UNCHANGED <<workload, conns, accepted, hostConn>>, client' \in {client, NoConn}
        PROVE  ConnInv'
    BY <1>3
  <1>4. ASSUME NEW r, WriteFrame(r) PROVE client' \in {client, NoConn}
    BY <1>4 DEF WriteFrame
  <1>5. CASE UNCHANGED vars \/ WorkerStep \/ SubmitReturns \/ IdleNothing \/ Gone
    BY <1>3, <1>5 DEF vars, WorkerStep, SubmitReturns, IdleNothing, Gone
  <1>6. CASE ClientGone \/ SetParam \/ QueryStatus \/ Push \/ HotSwapStop \/ HotSwapSubmit \/ ScanPanics
    BY <1>3, <1>6 DEF ScanPanics, ClientGone, SetParam, QueryStatus, Push, HotSwapStop, HotSwapSubmit, ReadFrame
  <1>7. CASE Discovery \/ UnknownOpcode \/ HandleStop \/ RejectModule \/ QueryRunning
    BY <1>3, <1>4, <1>7 DEF Discovery, UnknownOpcode, HandleStop, RejectModule, QueryRunning, ReadFrame
  <1>8. CASE PollAfterSubmit \/ IdlePoll
    BY <1>3, <1>4, <1>8 DEF PollAfterSubmit, IdlePoll, PollAndSend
  <1> QED
    BY <1>2, <1>5, <1>6, <1>7, <1>8 DEF Next, MainLoopNext

-----------------------------------------------------------------------------
(* What the main loop lets run.                                            *)

\* authorize_module: whichever load opcode a frame came by.
LEMMA AuthorizedIsTrusted ==
    ASSUME NEW f, AuthorizeModule(f)
    PROVE  Trusted(f)
  BY DEF AuthorizeModule, PolicyAdmits, Scanned, IsSigned, Trusted, VerifySigned

\* A step in which the main loop stays where it is, and no module starts.
LEMMA HandlerKept ==
    ASSUME HandlerInv, OnlyTrustedModulesRun,
           UNCHANGED <<workload, loop, loading, seenStatus, loaded>>,
           call' = call \/ (call = "submit" /\ call' = "none"),
           loop = "query" => (IsRunning' => IsRunning)
    PROVE  HandlerInv' /\ OnlyTrustedModulesRun'
  <1>1. policy' = policy
    BY DEF policy
  <1>2. Frame' = Frame /\ ExecStatus' = ExecStatus
    BY DEF Frame, ParamFrame, Payload, LoadOps, ControlOps, ExecStatus
  <1> QED
    BY <1>1, <1>2 DEF HandlerInv, OnlyTrustedModulesRun, Trusted

\* The step of a handler in which nothing is left half done.
LEMMA HandlerDone ==
    ASSUME HandlerInv, OnlyTrustedModulesRun,
           workload' = workload, loaded' = loaded, loop' \in {"read", "dead"}, call' = "none"
    PROVE  HandlerInv' /\ OnlyTrustedModulesRun'
  BY DEF HandlerInv, OnlyTrustedModulesRun, policy

\* Submitting a trusted module keeps everything loaded trusted.
LEMMA ModuleLoaded ==
    ASSUME HandlerInv, OnlyTrustedModulesRun, NEW f \in Frame, Trusted(f),
           workload' = workload, SubmitModule(f)
    PROVE  HandlerInv' /\ OnlyTrustedModulesRun'
  <1>1. loaded \in Seq(Frame) /\ loaded' = Append(loaded, f) /\ policy' = policy
    BY DEF HandlerInv, SubmitModule, policy
  <1>2. /\ loaded' \in Seq(Frame) /\ Len(loaded) \in Nat
        /\ DOMAIN loaded = 1..Len(loaded) /\ DOMAIN loaded' = 1..(Len(loaded) + 1)
        /\ \A i \in 1..Len(loaded) : loaded'[i] = loaded[i]
        /\ loaded'[Len(loaded) + 1] = f
    BY <1>1, AppendProperties, LenProperties
  <1>3. OnlyTrustedModulesRun'
    <2> SUFFICES ASSUME NEW j \in DOMAIN loaded'
                 PROVE  /\ loaded'[j].payload.imports = "allowed"
                        /\ policy.require => loaded'[j].payload.wrap = "signed"
                        /\ loaded'[j].payload.wrap # "forged"
      BY <1>1 DEF OnlyTrustedModulesRun
    <2>1. CASE j = Len(loaded) + 1
      BY <1>2, <2>1 DEF Trusted
    <2>2. CASE j \in DOMAIN loaded
      BY <1>2, <2>2 DEF OnlyTrustedModulesRun
    <2> QED
      BY <1>2, <2>1, <2>2
  <1>4. call' \in {"none", "submit"} /\ loop' = "poll"
    BY DEF SubmitModule, Submit, SubmitOverRunning
  <1>5. Frame' = Frame
    BY DEF Frame, ParamFrame, Payload, LoadOps, ControlOps
  <1> QED
    BY <1>2, <1>3, <1>4, <1>5 DEF HandlerInv

\* A handler that is between two calls of the executor still holds a frame that
\* authorize_module let through.
LEMMA HandlerStep ==
    ASSUME RecvInv, [Next]_vars
    PROVE  HandlerInv' /\ OnlyTrustedModulesRun'
  <1> USE ReceiverAssumption DEF RecvInv, execVars, callerVars, workerVars, recvVars, loopVars
  <1>f. \A f \in Frames : f \in Frame
    BY DEF ConnInv, Frames
  <1>1. CASE UNCHANGED vars \/ IdleNothing \/ Gone \/ HostNext \/ Accept
    BY <1>1, HandlerKept DEF vars, IdleNothing, Gone, HostNext, HostConnect, HostClose, HostSend, HostStream, Accept,
                             IsRunning, WorkerFinished
  <1>2. CASE WorkerStep
    <2>1. IsRunning' => IsRunning
      BY <1>2 DEF WorkerStep, WorkerNext, DelayMs, Sleep, Wake, Finish, FuelExhausted, Panic,
                  IsRunning, WorkerFinished
    <2>2. UNCHANGED <<workload, loop, loading, seenStatus, loaded, call>>
      BY <1>2 DEF WorkerStep, WorkerNext, DelayMs, Sleep, Wake, Finish, FuelExhausted, Panic
    <2> QED
      BY <2>1, <2>2, HandlerKept
  <1>3. CASE SubmitReturns
    BY <1>3, HandlerKept DEF SubmitReturns, SubmitJoin, HandlerInv
  <1>4. CASE Discovery \/ UnknownOpcode \/ SetParam \/ RejectModule \/ ScanPanics
    BY <1>4, HandlerDone DEF Discovery, UnknownOpcode, SetParam, RejectModule, ScanPanics, ReadFrame
  <1>5. CASE HandleStop
    BY <1>5, HandlerDone DEF HandleStop, ReadFrame, Stop
  <1>6. CASE QueryRunning
    BY <1>6, HandlerDone DEF QueryRunning, HandlerInv
  <1>7. CASE ClientGone \/ IdlePoll
    BY <1>7, HandlerDone DEF ClientGone, IdlePoll, IdleGap, PollAndSend, PollResult, PopResult
  <1>8. CASE PollAfterSubmit
    BY <1>8, HandlerDone DEF PollAfterSubmit, PollAndSend, PollResult, PopResult
  <1>9. CASE QueryStatus
    <2>1. seenStatus' = StatusNow /\ StatusNow \in ExecStatus /\ (IsRunning => StatusNow = "Running")
      BY <1>9 DEF QueryStatus, StatusNow, ExecInv, ExecTypeOK, ExecStatus
    <2>2. IsRunning' = IsRunning /\ loop' = "query" /\ call' = "none"
          /\ UNCHANGED <<workload, loaded>>
      BY <1>9 DEF QueryStatus, IsRunning, WorkerFinished, ReadFrame
    <2> QED
      BY <2>1, <2>2 DEF HandlerInv, OnlyTrustedModulesRun, policy
  <1>10. CASE Push
    <2>1. PICK f \in Frames : AuthorizeModule(f) /\ SubmitModule(f) /\ workload' = workload
      BY <1>10 DEF Push, ReadFrame
    <2> QED
      BY <1>f, <2>1, AuthorizedIsTrusted, ModuleLoaded
  <1>11. CASE HotSwapStop
    <2>1. PICK f \in Frames : AuthorizeModule(f) /\ loading' = <<f>> /\ workload' = workload
      BY <1>11 DEF HotSwapStop, ReadFrame
    <2>2. Trusted(f) /\ f \in Frame
      BY <1>f, <2>1, AuthorizedIsTrusted
    <2>3. loop' = "swap" /\ call' = "none" /\ loaded' = loaded
      BY <1>11 DEF HotSwapStop, Stop
    <2>4. policy' = policy /\ Frame' = Frame
      BY <2>1 DEF policy, Frame, ParamFrame, Payload, LoadOps, ControlOps
    <2> QED
      BY <2>1, <2>2, <2>3, <2>4 DEF HandlerInv, OnlyTrustedModulesRun, Trusted
  <1>12. CASE HotSwapSubmit
    BY <1>12, ModuleLoaded DEF HotSwapSubmit, HandlerInv
  <1> QED
    BY <1>1, <1>2, <1>3, <1>4, <1>5, <1>6, <1>7, <1>8, <1>9, <1>10, <1>11, <1>12
    DEF Next, MainLoopNext

-----------------------------------------------------------------------------
(* Theorems.                                                               *)

\* The inductive invariant of the receiver.
THEOREM RecvInvariant == Spec => []RecvInv
  <1>1. Init => RecvInv
    <2> SUFFICES ASSUME Init PROVE RecvInv
      OBVIOUS
    <2> USE ReceiverAssumption DEF Init
    <2>1. ExecInv
      BY ExecInitInv
    <2>2. ConnInv
      BY DEF ConnInv, NoConn
    <2>3. Len(taken) = 0 /\ <<>> \in Seq(Reply) /\ <<>> \in Seq(Frame) /\ DOMAIN <<>> = {}
      BY EmptySeq DEF ExecInit
    <2>4. OutboxInv /\ StatusReplyCoherent /\ WireOrder
      BY <2>3 DEF OutboxInv, StatusReplyCoherent, WireOrder, Replies
    <2>5. HandlerInv /\ OnlyTrustedModulesRun
      BY <2>3 DEF HandlerInv, OnlyTrustedModulesRun, ExecInit
    <2> QED
      BY <2>1, <2>2, <2>4, <2>5 DEF RecvInv
  <1>2. RecvInv /\ [Next]_vars => RecvInv'
    <2> SUFFICES ASSUME RecvInv, [Next]_vars PROVE RecvInv'
      OBVIOUS
    <2>1. ExecInv'
      BY RecvStepIsExecs, ExecInvStep DEF RecvInv
    <2> QED
      BY <2>1, ConnStep, OutboxStep, HandlerStep DEF RecvInv
  <1> QED
    BY <1>1, <1>2, PTL DEF Spec

\* Whatever frames the host sends, only modules that authorize_module may let
\* through under the policy in force are submitted.
THEOREM OnlyTrustedModulesEverRun == Spec => []OnlyTrustedModulesRun
  <1>1. RecvInv => OnlyTrustedModulesRun
    BY DEF RecvInv
  <1> QED
    BY <1>1, RecvInvariant, PTL

\* QUERY_STATUS never answers "running" with another status, though it reads
\* the two at different times.
THEOREM StatusRepliesCohere == Spec => []StatusReplyCoherent
  <1>1. RecvInv => StatusReplyCoherent
    BY DEF RecvInv
  <1> QED
    BY <1>1, RecvInvariant, PTL

\* Results reach the host in submission order and none twice, over all its
\* connections.
THEOREM ResultsInOrderOnTheWire == Spec => []WireOrder
  <1>1. RecvInv => WireOrder
    BY DEF RecvInv
  <1> QED
    BY <1>1, RecvInvariant, PTL

\* Only a STOP frame or an authorised load asks the running module to stop.
THEOREM OnlyRequestsStop == Spec => StopOnlyOnRequest
  <1> DEFINE Requested ==
        \/ loop = "swap"
        \/ /\ client # NoConn
           /\ LET f == Head(inbox[client])
              IN  f.op = "stop" \/ (f.op \in LoadOps /\ AuthorizeModule(f))
  <1>1. [Next]_vars => [~simStopped /\ simStopped' => Requested]_vars
    <2> SUFFICES ASSUME Next, ~simStopped, simStopped' PROVE Requested
      OBVIOUS
    <2> USE DEF execVars, callerVars, workerVars
    <2>1. ~(HostNext \/ Accept \/ Discovery \/ UnknownOpcode \/ SetParam \/ QueryStatus)
      BY DEF HostNext, HostConnect, HostClose, HostSend, HostStream, Accept, Discovery, UnknownOpcode,
             SetParam, QueryStatus
    <2>2. ~(QueryRunning \/ RejectModule \/ ScanPanics \/ IdleNothing \/ Gone)
      BY DEF QueryRunning, RejectModule, ScanPanics, IdleNothing, Gone, vars
    <2>3. ~(ClientGone \/ PollAfterSubmit \/ IdlePoll)
      BY DEF ClientGone, PollAfterSubmit, IdlePoll, PollAndSend, PollResult, PopResult
    <2>4. ~(SubmitReturns \/ WorkerStep)
      BY DEF SubmitReturns, SubmitJoin, Launch, WorkerStep, WorkerNext, DelayMs, Sleep, Wake,
             Finish, FuelExhausted, Panic
    <2>5. CASE HandleStop
      BY <2>5 DEF HandleStop, ReadFrame
    <2>6. CASE Push \/ HotSwapStop
      BY <2>6 DEF Push, HotSwapStop, ReadFrame, LoadOps
    <2>7. CASE HotSwapSubmit
      BY <2>7 DEF HotSwapSubmit
    <2> QED
      BY <2>1, <2>2, <2>3, <2>4, <2>5, <2>6, <2>7 DEF Next, MainLoopNext
  <1> QED
    BY <1>1, PTL DEF Spec, StopOnlyOnRequest

=============================================================================
