----------------------------- MODULE IntentLoop -----------------------------
(***************************************************************************)
(* cmd_run (host/cli.py): the session that turns a prompt into a module on *)
(* the device.  It asks the language model for code, compiles it with      *)
(* Compiler, asks for a correction when rustc rejects it, pushes the       *)
(* module and reads one frame as its result.  The device is seen from the  *)
(* wire: it answers requests in order, at any time or never.               *)
(***************************************************************************)
EXTENDS Compiler, Sequences, Functions

CONSTANTS
    Cli,            \* the thread of `milo run`
    Workloads,      \* the sets of threads that compile in one behaviour
    Retries,        \* request_discovery's attempts, 3 by default
    MaxRestarts     \* bound: sessions begun after the first

MAX_COMPILE_RETRIES == 2

ASSUME IntentAssumption ==
    /\ Cli \in Threads
    /\ Workloads \subseteq SUBSET Threads
    /\ Retries \in Nat \ {0}
    /\ MaxRestarts \in Nat

VARIABLES
    workload,     \* the threads that compile, fixed at the start
    resets,       \* the transport has reset_input: it is the serial one
    session,      \* where cmd_run is
    restarts,     \* bound: sessions begun after the first
    attempt,      \* attempt of the discovery or of the compile loop
    code,         \* the code the language model gave last
    wasm,         \* wasm_bytes, named by the source it was compiled from
    pushes,       \* modules pushed
    outstanding,  \* requests the device has not answered
    inbox,        \* frames the host has received and not read
    owed,         \* history: the requests that a frame read after the last push
                  \* may answer other than the push itself
    report        \* history: the push whose result was reported last

fixed == <<workload, resets, restarts>>
wire == <<outstanding, inbox>>
sent == <<pushes, owed, report>>
loopVars == <<fixed, session, attempt, code, wasm, wire, sent>>
vars == <<compilerVars, loopVars>>

Manifest == 0      \* a DISCOVERY frame; a result is the number of its push

Init ==
    /\ CompilerInit
    /\ workload \in Workloads
    /\ resets \in IF Cli \in workload THEN BOOLEAN ELSE {FALSE}
    /\ session = IF Cli \in workload THEN "ask" ELSE "ended"
    /\ restarts = 0
    /\ attempt = 0
    /\ code = Missing
    /\ wasm = Missing
    /\ pushes = 0
    /\ outstanding = <<>>
    /\ inbox = <<>>
    /\ owed = {}
    /\ report = 0

-----------------------------------------------------------------------------
(* request_discovery: the manifest, or the defaults after three attempts.  *)

AskDiscovery ==
    /\ session = "ask"
    /\ outstanding' = Append(outstanding, Manifest)
    /\ attempt' = attempt + 1
    /\ session' = "manifest"
    /\ UNCHANGED <<compilerVars, fixed, code, wasm, sent, inbox>>

NextDiscovery ==
    \/ attempt < Retries /\ session' = "ask" /\ UNCHANGED attempt
    \/ attempt = Retries /\ session' = "prompt" /\ attempt' = 0

\* Any other frame is dropped and costs an attempt, and so does a manifest that
\* is not JSON.
ReadManifest ==
    /\ session = "manifest"
    /\ inbox # <<>>
    /\ inbox' = Tail(inbox)
    /\ \/ Head(inbox) = Manifest /\ session' = "prompt" /\ attempt' = 0
       \/ NextDiscovery
    /\ UNCHANGED <<compilerVars, fixed, code, wasm, sent, outstanding>>

ManifestTimeout ==
    /\ session = "manifest"
    /\ NextDiscovery
    /\ UNCHANGED <<compilerVars, fixed, code, wasm, sent, wire>>

-----------------------------------------------------------------------------
(* One prompt.                                                             *)

Prompt ==
    /\ session = "prompt"
    /\ count.calls[Cli] + 1 + MAX_COMPILE_RETRIES <= MaxCalls[Cli]
    /\ session' = "generate"
    /\ UNCHANGED <<compilerVars, fixed, attempt, code, wasm, sent, wire>>

\* quit, EOF or Ctrl-C
Quit ==
    /\ session = "prompt"
    /\ session' = "ended"
    /\ UNCHANGED <<compilerVars, fixed, attempt, code, wasm, sent, wire>>

\* Mutant: wasm_bytes keeps the module of the last prompt.
GenerateKeepsWasm ==
    /\ session = "generate"
    /\ \/ /\ \E c \in Sources : code' = c
          /\ session' = "compile"
       \/ /\ session' = "prompt"
          /\ UNCHANGED code
    /\ UNCHANGED <<compilerVars, fixed, attempt, wasm, sent, wire>>

Generate ==
    /\ session = "generate"
    /\ \/ /\ \E c \in Sources : code' = c
          /\ wasm' = Missing
          /\ session' = "compile"
       \/ /\ session' = "prompt"       \* LLM error
          /\ UNCHANGED <<code, wasm>>
    /\ UNCHANGED <<compilerVars, fixed, attempt, sent, wire>>

StartCompile ==
    /\ session = "compile"
    /\ Call(Cli, code)
    /\ session' = "compiling"
    /\ UNCHANGED <<fixed, attempt, code, wasm, sent, wire>>

\* A module: the loop breaks.
CompileReturned ==
    /\ session = "compiling"
    /\ At(Cli, "returned")
    /\ wasm' = call[Cli].out
    /\ attempt' = 0
    /\ session' = "check"
    /\ UNCHANGED <<compilerVars, fixed, code, sent, wire>>

\* RuntimeError: ask for a correction, or leave the loop after the last attempt.
CompileFailed ==
    /\ session = "compiling"
    /\ At(Cli, "failed")
    /\ \/ attempt < MAX_COMPILE_RETRIES /\ session' = "fix" /\ UNCHANGED attempt
       \/ attempt = MAX_COMPILE_RETRIES /\ session' = "check" /\ attempt' = 0
    /\ UNCHANGED <<compilerVars, fixed, code, wasm, sent, wire>>

Fix ==
    /\ session = "fix"
    /\ \/ /\ \E c \in Sources : code' = c
          /\ attempt' = attempt + 1
          /\ session' = "compile"
       \/ /\ session' = "check"        \* LLM error: the loop breaks
          /\ attempt' = 0
          /\ UNCHANGED code
    /\ UNCHANGED <<compilerVars, fixed, wasm, sent, wire>>

\* Any other exception leaves cmd_run through its `finally`.
CompileBroken ==
    /\ session = "compiling"
    /\ At(Cli, "broken")
    /\ session' = "ended"
    /\ UNCHANGED <<compilerVars, fixed, attempt, code, wasm, sent, wire>>

\* Could not compile after retries.
NothingToPush ==
    /\ session = "check"
    /\ wasm = Missing
    /\ session' = "prompt"
    /\ UNCHANGED <<compilerVars, fixed, attempt, code, wasm, sent, wire>>

\* Requests that may still be answered by a frame read after a push, beside the
\* push: those the device has not answered yet and, where the transport cannot
\* drop its input, those whose answer is unread.
StillOwed == Range(outstanding) \cup (IF resets THEN {} ELSE Range(inbox))

\* Mutant: the frames received before the push are kept.
PushNoReset ==
    /\ session = "check"
    /\ wasm # Missing
    /\ pushes' = pushes + 1
    /\ outstanding' = Append(outstanding, pushes + 1)
    /\ owed' = StillOwed
    /\ session' = "await"
    /\ UNCHANGED <<compilerVars, fixed, attempt, code, wasm, inbox, report>>

Push ==
    /\ session = "check"
    /\ wasm # Missing
    /\ pushes' = pushes + 1
    /\ inbox' = IF resets THEN <<>> ELSE inbox
    /\ outstanding' = Append(outstanding, pushes + 1)
    /\ owed' = StillOwed
    /\ session' = "await"
    /\ UNCHANGED <<compilerVars, fixed, attempt, code, wasm, report>>

\* One frame is read: an EXEC_RESULT is reported, anything else is unexpected.
\* A result that is not JSON leaves cmd_run with a JSONDecodeError.
AwaitResult ==
    /\ session = "await"
    /\ inbox # <<>>
    /\ inbox' = Tail(inbox)
    /\ \/ /\ report' = IF Head(inbox) = Manifest THEN report ELSE Head(inbox)
          /\ session' = "prompt"
       \/ /\ Head(inbox) # Manifest
          /\ session' = "ended"
          /\ UNCHANGED report
    /\ UNCHANGED <<compilerVars, fixed, attempt, code, wasm, pushes, outstanding, owed>>

AwaitTimeout ==
    /\ session = "await"
    /\ session' = "prompt"
    /\ UNCHANGED <<compilerVars, fixed, attempt, code, wasm, sent, wire>>

\* A read or a write of the transport raises ConnectionError, which neither
\* request_discovery nor cmd_run catches.
ConnectionLost ==
    /\ session \in {"ask", "manifest", "await"} \/ (session = "check" /\ wasm # Missing)
    /\ session' = "ended"
    /\ UNCHANGED <<compilerVars, fixed, attempt, code, wasm, sent, wire>>

\* What the device answers while no session is open is lost.
DeviceAnswers ==
    /\ outstanding # <<>>
    /\ inbox' = IF session = "ended" THEN <<>> ELSE Append(inbox, Head(outstanding))
    /\ outstanding' = Tail(outstanding)
    /\ UNCHANGED <<compilerVars, fixed, session, attempt, code, wasm, sent>>

-----------------------------------------------------------------------------
\* The compiler's steps, and the calls of the threads beside the session.
CompilerBeside ==
    \/ \E t \in workload : (CompileStep(t) \/ DiskFull(t)) /\ UNCHANGED loopVars
    \/ \E t \in workload \ {Cli} :
          (Clear(t) \/ \E s \in Sources : Call(t, s)) /\ UNCHANGED loopVars
    \/ \E b \in Threads \cup {Orphan} : CargoStep(b) /\ UNCHANGED loopVars
    \/ \E p \in {ProcOf[t] : t \in workload \ {Cli}} : Crash(p) /\ UNCHANGED loopVars

\* The session's own process is killed.
SessionKilled ==
    /\ session # "ended"
    /\ Crash(ProcOf[Cli])
    /\ session' = "ended"
    /\ UNCHANGED <<fixed, attempt, code, wasm, sent, wire>>

\* A new session: a fresh transport, the same cache directory, and a device
\* that may still be at work on the last session's requests.
SessionRestart ==
    /\ session = "ended"
    /\ Cli \in workload
    /\ call[Cli].pc \in Resting
    /\ restarts < MaxRestarts
    /\ restarts' = restarts + 1
    /\ session' = "ask"
    /\ attempt' = 0
    /\ inbox' = <<>>
    /\ UNCHANGED <<compilerVars, workload, resets, code, wasm, sent, outstanding>>

SessionStep ==
    \/ AskDiscovery \/ ReadManifest \/ ManifestTimeout \/ Generate \/ StartCompile
    \/ CompileReturned \/ CompileFailed \/ Fix \/ CompileBroken \/ NothingToPush \/ Push
    \/ AwaitResult \/ AwaitTimeout

Next ==
    \/ SessionStep \/ Prompt \/ Quit \/ ConnectionLost \/ SessionKilled \/ SessionRestart
    \/ DeviceAnswers \/ CompilerBeside

\* The session runs and its reads have deadlines; some thread in the compiler
\* runs and some build goes on, which is enough where the calls are bounded.
Fairness ==
    /\ WF_vars(SessionStep)
    /\ WF_vars((\E t \in workload : CompileStep(t)) /\ UNCHANGED loopVars)
    /\ WF_vars((\E b \in Threads \cup {Orphan} : CargoStep(b)) /\ UNCHANGED loopVars)

Spec == Init /\ [][Next]_vars /\ Fairness

-----------------------------------------------------------------------------
(* Properties.                                                             *)

\* What goes to the device is the module of the code the language model gave
\* last for this prompt: no retry, earlier prompt or earlier session's module
\* is pushed in its place, also when every attempt fails or the language model
\* does, since wasm_bytes starts each prompt as None.
PushesLatestCode ==
    [][pushes' # pushes => wasm = code /\ code \notin Bad]_vars

\* A reported result is the pushed module's own, or that of a request which the
\* device had not answered when the module was pushed: on a transport with
\* reset_input no frame that had arrived before the push is ever reported for
\* it, whatever timeouts and earlier prompts left in the input.
ReportIsOwn ==
    [][report' # report => report' = pushes \/ report' \in owed]_vars

\* Whatever is under way ends: a prompt, since the retries are bounded and the
\* read has a deadline, and every compile, since the lock is released on every
\* path out of it, the exceptions included.
Busy ==
    \/ session \notin {"prompt", "ended"}
    \/ \E t \in Threads : call[t].pc \notin Resting

WorkEnds == Busy ~> ~Busy

=============================================================================
