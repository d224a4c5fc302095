------------------------------ MODULE Firmware ------------------------------
(***************************************************************************)
(* A board with a blocking executor, serving load frames: the handlers of  *)
(* main_loop_with_policy (receiver/src/lib.rs) under the open policy, from *)
(* the bytes of a module to its result.  It composes WasmValidation (the   *)
(* import scan), Runtime (the module's run) and InlineExecutor: between    *)
(* the two steps of its submit() the runtime has the hardware and the      *)
(* module does what it likes.                                              *)
(*                                                                         *)
(* The same module also runs the runtime alone, the way a user of the      *)
(* library may: several modules in one MiloRuntime.                        *)
(***************************************************************************)
EXTENDS InlineExecutor, Runtime, WasmValidation

CONSTANTS
    Uploads,    \* uploads of modules that make no syscalls
    Runnable    \* uploads of modules that make any

VARIABLES
    setting,    \* who uses the runtime, fixed at start-up: a board that gets
                \* one of Uploads, one that gets Runnable, or the library
    load,       \* the load frame being handled: empty, or one upload
    scan        \* validate_wasm_imports' pos, imports left, field_name and
                \* rejected, and at: how far the handling has come

firmVars == <<vars, runVars, setting, load, scan>>

\* What an upload carries: its opcode, the header, the bytes after it, the
\* module they were written from and whether they are all of it.
UploadFields == {"op", "head", "bytes", "module", "whole"}
Heads == {"short", "magic", "ok"}

ASSUME FirmwareAssumption ==
    /\ MaxJobs <= MaxRuns
    /\ \A u \in Uploads \cup Runnable :
          /\ DOMAIN u = UploadFields
          /\ u.op \in {"push", "swap"}
          /\ u.head \in Heads
          /\ u.bytes \in Seq(Byte)

\* The bytes after a good header are those of a module, or the first of them.
ASSUME UploadAssumption ==
    \A u \in Uploads \cup Runnable :
        u.head = "ok" =>
            /\ WellFormed(u.module)
            /\ \E n \in 0..Len(Encode(u.module)) :
                  /\ u.bytes = SubSeq(Encode(u.module), 1, n)
                  /\ u.whole = (n = Len(Encode(u.module)))

NoScan == [at |-> "none", pos |-> 0, left |-> 0, field |-> <<>>, rejected |-> <<>>]

bytes == load[1].bytes

FirmInit ==
    /\ Init
    /\ RunInit
    /\ setting \in {"uploads", "guests", "library"}
    /\ load = <<>>
    /\ scan = NoScan

-----------------------------------------------------------------------------
(* The frame arrives and authorize_module scans it.                        *)

\* Too short or the wrong magic number: invalid without a scan.
Receive ==
    /\ setting # "library"
    /\ stage = "none" /\ loop = "read"
    /\ load = <<>>
    /\ submitted < IF setting = "uploads" THEN 1 ELSE MaxJobs
    /\ \E u \in IF setting = "uploads" THEN Uploads ELSE Runnable :
          /\ load' = <<u>>
          /\ scan' = [NoScan EXCEPT !.at = IF u.head = "ok" THEN "section" ELSE "refuse"]
    /\ UNCHANGED <<vars, runVars, setting>>

Scanning(at) ==
    /\ stage # "dead"
    /\ scan.at = at
    /\ UNCHANGED <<vars, setting, load>>

\* A section that is not the import section: over it.
SkipSection ==
    /\ Scanning("section")
    /\ scan.pos < Len(bytes)
    /\ bytes[scan.pos + 1] # ImportSection
    /\ scan' = [scan EXCEPT !.pos = AfterLeb(bytes, scan.pos + 1) + Leb(bytes, scan.pos + 1)]
    /\ UNCHANGED runVars

\* The import section: its count.  The section's own size is not used.
EnterImports ==
    /\ Scanning("section")
    /\ scan.pos < Len(bytes)
    /\ bytes[scan.pos + 1] = ImportSection
    /\ LET count == AfterLeb(bytes, scan.pos + 1)
       IN  scan' = [scan EXCEPT !.at = "import", !.pos = AfterLeb(bytes, count),
                                !.left = Leb(bytes, count)]
    /\ UNCHANGED runVars

\* The scan moves to next, unless reading up to there went past the end of
\* the bytes: a panic.
MoveTo(next, scanned) ==
    \/ /\ next >= Fault(bytes)
       /\ Panic
       /\ UNCHANGED <<memory, fuel, memSize, results, scan>>
    \/ /\ next < Fault(bytes)
       /\ scan' = [scanned EXCEPT !.pos = next]
       /\ UNCHANGED runVars

\* One import: its module's name, its field's name ...
ScanModuleName ==
    /\ Scanning("import")
    /\ scan.left > 0
    /\ MoveTo(AfterName(bytes, scan.pos), [scan EXCEPT !.at = "field"])

ScanFieldName ==
    /\ Scanning("field")
    /\ MoveTo(AfterName(bytes, scan.pos),
              [scan EXCEPT !.at = "kind", !.field = Name(bytes, scan.pos)])

\* ... and its kind: a function outside the alphabet is rejected.
ScanKind ==
    /\ Scanning("kind")
    /\ LET function == bytes[scan.pos + 1] = Function
           foreign == function /\ scan.field \notin Alphabet
       IN  MoveTo(IF scan.pos < Len(bytes) THEN AfterKind(bytes, scan.pos) ELSE Fault(bytes),
                  [scan EXCEPT !.at = "import", !.left = @ - 1, !.field = <<>>,
                               !.rejected = IF foreign THEN Append(@, scan.field) ELSE @])

\* The scan is over after the imports, or with the bytes.
ScanEnds ==
    /\ Scanning(scan.at)
    /\ \/ scan.at = "section" /\ scan.pos >= Len(bytes)
       \/ scan.at = "import" /\ scan.left = 0
    /\ scan' = [scan EXCEPT !.at = IF scan.rejected = <<>> THEN "accept" ELSE "refuse"]
    /\ UNCHANGED runVars

\* An error result to the host, and the loop reads on.
Refuse ==
    /\ scan.at = "refuse"
    /\ load' = <<>>
    /\ scan' = NoScan
    /\ UNCHANGED <<vars, runVars, setting>>

-----------------------------------------------------------------------------
(* A swap's stop(), and submit().                                          *)

StopForSwap ==
    /\ scan.at = "accept"
    /\ load[1].op = "swap"
    /\ HotSwap
    /\ UNCHANGED <<runVars, setting, load, scan>>

Submitting == scan.at = "accept" /\ (load[1].op = "swap" => loop = "swap")

\* submit() takes the hardware into a new runtime ...
Begin ==
    /\ Submitting
    /\ hardware
    /\ Push \/ HotSwapSubmit
    /\ NewRuntime
    /\ scan' = [scan EXCEPT !.at = "instantiate"]
    /\ UNCHANGED <<setting, load>>

Instantiate ==
    /\ scan.at = "instantiate"
    /\ Execute
    /\ scan' = [scan EXCEPT !.at = "ran"]
    /\ UNCHANGED <<vars, setting, load>>

\* ... the module does what it likes ...
Guest ==
    /\ setting # "library"
    /\ IF setting = "guests" THEN GuestNext ELSE CallRunLogic \/ Fail \/ Return
    /\ UNCHANGED <<vars, setting, load, scan>>

\* Mutant: the hardware of a module that failed is not taken back.
FinishLosesHardware ==
    /\ scan.at = "ran"
    /\ IntoHardware
    /\ LET ok == results[Len(results)].ok
       IN  /\ hardware' = ok
           /\ lastResult' = <<[job |-> submitted, outcome |-> IF ok THEN "ok" ELSE "error"]>>
    /\ status' = "Completed"
    /\ loop' = "poll"
    /\ load' = <<>>
    /\ scan' = NoScan
    /\ UNCHANGED <<lent, submitted, taken, setting>>

\* ... and submit() returns, with the hardware and the run's outcome.
Finish ==
    /\ scan.at = "ran"
    /\ IntoHardware
    /\ SubmitReturns
    /\ lastResult'[1].outcome = IF results[Len(results)].ok THEN "ok" ELSE "error"
    /\ load' = <<>>
    /\ scan' = NoScan
    /\ UNCHANGED setting

\* submit() without hardware.
FinishNoHardware ==
    /\ Submitting
    /\ ~hardware
    /\ Push \/ HotSwapSubmit
    /\ load' = <<>>
    /\ scan' = NoScan
    /\ UNCHANGED <<runVars, setting>>

Poll ==
    /\ stage # "dead"
    /\ PollAfterSubmit
    /\ UNCHANGED <<runVars, setting, load, scan>>

\* Between two frames: OP_STOP, and the hardware taken away and given back.
Between ==
    /\ setting # "library"
    /\ stage = "none"
    /\ load = <<>>
    /\ HandleStop \/ TakeHardware \/ GiveHardware
    /\ UNCHANGED <<runVars, setting, load, scan>>

LibraryUse ==
    /\ setting = "library"
    /\ RunNext
    /\ UNCHANGED <<vars, setting, load, scan>>

-----------------------------------------------------------------------------
\* The board's own steps once it has read a frame.
HandlerNext ==
    \/ SkipSection \/ EnterImports \/ ScanModuleName \/ ScanFieldName \/ ScanKind
    \/ ScanEnds \/ Refuse
    \/ StopForSwap \/ Begin \/ Instantiate \/ Guest \/ Finish \/ FinishNoHardware
    \/ Poll

FirmNext == Receive \/ HandlerNext \/ Between \/ LibraryUse

\* A board keeps executing; frames need not come.
FirmSpec == FirmInit /\ [][FirmNext]_firmVars /\ WF_firmVars(HandlerNext)

-----------------------------------------------------------------------------
(* Properties.                                                             *)

\* The maximum of an imported table is not skipped by the scan.
HasTableMax(m) == \E i \in DOMAIN m.imports : m.imports[i].kind = Table /\ m.imports[i].max

\* What the scan refuses is exactly what it should.  Of a module as a
\* compiler writes it (no imported table with a maximum), whatever sections
\* surround the imports and however the numbers are padded, the scan rejects
\* the function imports outside the alphabet, in order, and nothing else,
\* and does not panic; of a module that was cut off it never rejects
\* anything but names of the module's own.
VerdictIsRight ==
    \A k \in DOMAIN load :
        LET u == load[k]
        IN  (u.head = "ok" /\ ~HasTableMax(u.module)) =>
            /\ IsPrefix(scan.rejected, Foreign(u.module))
            /\ u.whole =>
                  /\ scan.at \in {"accept", "refuse"} => scan.rejected = Foreign(u.module)
                  /\ scan.at # "ran" => stage # "dead"

\* The hardware is in exactly one place: in the executor, in the runtime of the
\* module under way, or with whoever took it.  No module that fails, no swap
\* and no load without hardware loses it, until a panic ends the receiver.
InRuntime == stage \in {"ready", "start", "run"}
HardwareInOnePlace ==
    (setting # "library" /\ stage # "dead") =>
        /\ hardware \/ lent \/ InRuntime
        /\ ~(hardware /\ lent) /\ ~(hardware /\ InRuntime) /\ ~(lent /\ InRuntime)

\* Every load ends: the loop is back at its read, unless a panic has ended
\* the receiver.  The module is stopped by its fuel at the latest.
LoadEnds == load # <<>> ~> (load = <<>> /\ loop = "read") \/ stage = "dead"

=============================================================================
