------------------------------ MODULE Compiler ------------------------------
(***************************************************************************)
(* compile_rust_to_wasm (host/core/compiler.py): the content cache, the    *)
(* warm cargo project and the lock that serializes the compiles of one     *)
(* process.  The cache directory is one path in the temp directory, the    *)
(* same for every process of the machine.  A source is the generated       *)
(* lib.rs; a module is named by the source it was built from; Torn is a    *)
(* file truncated and not yet written.                                     *)
(* Cargo.toml and .cargo/config.toml, whose text never changes, are not    *)
(* files of the model: a clear that removes them between                   *)
(* _ensure_warm_project (compiler.py:89) and cargo counts here as one      *)
(* that makes the build fail or changes nothing, although without          *)
(* config.toml cargo would link with other flags.                          *)
(***************************************************************************)
EXTENDS Naturals, FiniteSets

CONSTANTS
    Threads,      \* threads that compile
    ProcOf,       \* the process each runs in
    Sources,      \* the lib.rs texts compiled
    Bad,          \* those that rustc rejects
    MaxCaching,   \* how many processes use the cache; the others run with
                  \* MILO_COMPILE_CACHE=0
    MaxCalls,     \* bound: compiles each thread begins
    MaxFaults,    \* bound: processes killed and writes that fail
    MaxClears     \* bound: clear_compile_cache calls

Procs == {ProcOf[t] : t \in Threads}
Missing == "missing"
Torn == "torn"
NoThread == "nobody"
Orphan == "orphan"        \* a cargo whose parent was killed

ASSUME CompilerAssumption ==
    /\ IsFiniteSet(Threads)
    /\ Bad \subseteq Sources
    /\ Sources \cap {Missing, Torn} = {}
    /\ Threads \cap {NoThread, Orphan} = {}
    /\ MaxCalls \in [Threads -> Nat]
    /\ {MaxCaching, MaxFaults, MaxClears} \subseteq Nat

VARIABLES
    caching,      \* the processes that use the cache, fixed at the start
    lock,         \* _compile_lock of each process
    call,         \* per thread: the call it serves
    cargo,        \* the cargo children, and the orphan
    lib,          \* src/lib.rs of the warm project
    target,       \* milo_driver.wasm of the warm project
    cache,        \* <key>.wasm in the content cache
    tmp,          \* <key>.wasm.tmp
    todo,         \* what a clear_compile_cache has still to remove
    count         \* bounds: calls, faults and clears so far

files == <<lib, target, cache, tmp>>
compilerVars == <<caching, lock, call, cargo, files, todo, count>>

NoCall == [pc |-> "idle", src |-> Missing, out |-> Missing, disturbed |-> FALSE]
NoCargo == [st |-> "none", lib |-> Missing]
Resting == {"idle", "returned", "failed", "broken"}

\* The type of every variable.
CompilerTypeOK ==
    /\ caching \subseteq Procs
    /\ lock \in [Procs -> Threads \cup {NoThread}]
    /\ call \in [Threads -> [pc : Resting \cup {"called", "locked", "write", "run",
                                    "wait", "read", "open", "store", "replace", "clearing"},
                             src : Sources \cup {Missing},
                             out : Sources \cup {Missing, Torn},
                             disturbed : BOOLEAN]]
    /\ cargo \in [Threads \cup {Orphan} ->
                     [st : {"none", "queued", "building", "ok", "error"},
                      lib : Sources \cup {Missing, Torn}]]
    /\ {lib, target} \subseteq Sources \cup {Missing, Torn}
    /\ {cache, tmp} \subseteq [Sources -> Sources \cup {Missing, Torn}]

CompilerInit ==
    /\ caching \in {c \in SUBSET Procs : Cardinality(c) <= MaxCaching}
    /\ lock = [p \in Procs |-> NoThread]
    /\ call = [t \in Threads |-> NoCall]
    /\ cargo = [b \in Threads \cup {Orphan} |-> NoCargo]
    /\ lib = Missing
    /\ target = Missing
    /\ cache = [s \in Sources |-> Missing]
    /\ tmp = [s \in Sources |-> Missing]
    /\ todo = {}
    /\ count = [calls |-> [t \in Threads |-> 0], faults |-> 0, clears |-> 0]

-----------------------------------------------------------------------------
(* cargo, as _build_in uses it: builds of one project exclude each other,  *)
(* a build compiles the lib.rs it reads when it starts, and what is not    *)
(* fresh is rebuilt, so a build that succeeds leaves that lib.rs's module. *)

CargoReads(b) ==
    /\ cargo[b].st = "queued"
    /\ \A c \in DOMAIN cargo : cargo[c].st # "building"
    /\ cargo' = [cargo EXCEPT ![b] = [st |-> "building", lib |-> lib]]
    /\ UNCHANGED <<caching, lock, call, files, todo, count>>

\* A truncated lib.rs is a legal empty crate or a syntax error.
CargoEnds(b) ==
    /\ cargo[b].st = "building"
    /\ \/ /\ cargo[b].lib \in (Sources \ Bad) \cup {Torn}
          /\ target' = cargo[b].lib
          /\ cargo' = [cargo EXCEPT ![b].st = IF b = Orphan THEN "none" ELSE "ok"]
       \/ /\ cargo[b].lib \in Bad \cup {Missing, Torn}
          /\ cargo' = [cargo EXCEPT ![b].st = IF b = Orphan THEN "none" ELSE "error"]
          /\ UNCHANGED target
    /\ UNCHANGED <<caching, lock, call, lib, cache, tmp, todo, count>>

-----------------------------------------------------------------------------
(* compile_rust_to_wasm, one action per access to something shared.        *)

At(t, pc) == call[t].pc = pc
Go(t, pc) == call' = [call EXCEPT ![t].pc = pc]

\* Leaving the call leaves the `with _compile_lock` block.
Leave(t, pc, out) ==
    /\ call' = [call EXCEPT ![t].pc = pc, ![t].out = out]
    /\ lock' = [lock EXCEPT ![ProcOf[t]] = IF @ = t THEN NoThread ELSE @]

Call(t, s) ==
    /\ call[t].pc \in Resting
    /\ count.calls[t] < MaxCalls[t]
    /\ count' = [count EXCEPT !.calls[t] = @ + 1]
    /\ call' = [call EXCEPT ![t] = [NoCall EXCEPT !.pc = "called", !.src = s,
                                                     !.disturbed = todo # {}]]
    /\ UNCHANGED <<caching, lock, cargo, files, todo>>

\* Without the cache the build has a temporary directory of its own.
BuildIsolated(t) ==
    /\ At(t, "called")
    /\ ProcOf[t] \notin caching
    /\ IF call[t].src \in Bad THEN Leave(t, "failed", Missing)
                              ELSE Leave(t, "returned", call[t].src)
    /\ UNCHANGED <<caching, cargo, files, todo, count>>

\* Mutant: two threads of a process compile at once.
AcquireNoLock(t) ==
    /\ At(t, "called")
    /\ ProcOf[t] \in caching
    /\ Go(t, "locked")
    /\ UNCHANGED <<caching, lock, cargo, files, todo, count>>

Acquire(t) ==
    /\ At(t, "called")
    /\ ProcOf[t] \in caching
    /\ lock[ProcOf[t]] = NoThread
    /\ lock' = [lock EXCEPT ![ProcOf[t]] = t]
    /\ Go(t, "locked")
    /\ UNCHANGED <<caching, cargo, files, todo, count>>

\* The content cache, then _ensure_warm_project and _write_if_changed of
\* lib.rs, which truncates the file before it writes it.
CacheHit(t) ==
    /\ At(t, "locked")
    /\ cache[call[t].src] # Missing
    /\ Leave(t, "returned", cache[call[t].src])
    /\ UNCHANGED <<caching, cargo, files, todo, count>>

\* Mutant: lib.rs is left alone whenever there is one.
OpenLibIfAbsent(t) ==
    /\ At(t, "locked")
    /\ cache[call[t].src] = Missing
    /\ IF lib # Missing THEN Go(t, "run") /\ UNCHANGED lib
                        ELSE Go(t, "write") /\ lib' = Torn
    /\ UNCHANGED <<caching, lock, cargo, target, cache, tmp, todo, count>>

OpenLib(t) ==
    /\ At(t, "locked")
    /\ cache[call[t].src] = Missing
    /\ IF lib = call[t].src THEN Go(t, "run") /\ UNCHANGED lib
                            ELSE Go(t, "write") /\ lib' = Torn
    /\ UNCHANGED <<caching, lock, cargo, target, cache, tmp, todo, count>>

\* A file that was removed meanwhile stays removed.
WriteLib(t) ==
    /\ At(t, "write")
    /\ lib' = IF lib = Missing THEN Missing ELSE call[t].src
    /\ Go(t, "run")
    /\ UNCHANGED <<caching, lock, cargo, target, cache, tmp, todo, count>>

RunCargo(t) ==
    /\ At(t, "run")
    /\ cargo' = [cargo EXCEPT ![t] = [st |-> "queued", lib |-> Missing]]
    /\ Go(t, "wait")
    /\ UNCHANGED <<caching, lock, files, todo, count>>

CargoReturns(t) ==
    /\ At(t, "wait")
    /\ cargo' = [cargo EXCEPT ![t] = NoCargo]
    /\ \/ cargo[t].st = "ok" /\ Go(t, "read") /\ UNCHANGED lock
       \/ cargo[t].st = "error" /\ Leave(t, "failed", Missing)
    /\ UNCHANGED <<caching, files, todo, count>>

ReadWasm(t) ==
    /\ At(t, "read")
    /\ IF target = Missing
       THEN Leave(t, "broken", Missing)
       ELSE /\ call' = [call EXCEPT ![t].pc = "open", ![t].out = target]
            /\ UNCHANGED lock
    /\ UNCHANGED <<caching, cargo, files, todo, count>>

OpenTmp(t) ==
    /\ At(t, "open")
    /\ tmp' = [tmp EXCEPT ![call[t].src] = Torn]
    /\ Go(t, "store")
    /\ UNCHANGED <<caching, lock, cargo, lib, target, cache, todo, count>>

\* Mutant: the module is written to the cache file itself.
WriteTmpInPlace(t) ==
    /\ At(t, "store")
    /\ cache' = [cache EXCEPT ![call[t].src] = Torn]
    /\ tmp' = [tmp EXCEPT ![call[t].src] = call[t].out]
    /\ Go(t, "replace")
    /\ UNCHANGED <<caching, lock, cargo, lib, target, todo, count>>

\* The write goes to the file that was opened: another process may have
\* renamed it into the cache meanwhile, and a clear may have unlinked it.
WriteTmp(t) ==
    /\ At(t, "store")
    /\ LET s == call[t].src
       IN  /\ tmp' = [tmp EXCEPT ![s] = IF @ = Missing THEN @ ELSE call[t].out]
           /\ cache' = [cache EXCEPT ![s] =
                           IF tmp[s] = Missing /\ @ = Torn THEN call[t].out ELSE @]
    /\ Go(t, "replace")
    /\ UNCHANGED <<caching, lock, cargo, lib, target, todo, count>>

\* Mutant: os.replace's failure leaves the lock held.
ReplaceKeepsLock(t) ==
    /\ At(t, "replace")
    /\ LET s == call[t].src
       IN  IF tmp[s] = Missing
           THEN Go(t, "broken") /\ UNCHANGED <<lock, tmp, cache>>
           ELSE /\ cache' = [cache EXCEPT ![s] = tmp[s]]
                /\ tmp' = [tmp EXCEPT ![s] = Missing]
                /\ Leave(t, "returned", call[t].out)
    /\ UNCHANGED <<caching, cargo, lib, target, todo, count>>

Replace(t) ==
    /\ At(t, "replace")
    /\ LET s == call[t].src
       IN  IF tmp[s] = Missing
           THEN Leave(t, "broken", Missing) /\ UNCHANGED <<tmp, cache>>
           ELSE /\ cache' = [cache EXCEPT ![s] = tmp[s]]
                /\ tmp' = [tmp EXCEPT ![s] = Missing]
                /\ Leave(t, "returned", call[t].out)
    /\ UNCHANGED <<caching, cargo, lib, target, todo, count>>

\* An open() in a directory that a clear has removed since it was made, or
\* cargo's working directory: FileNotFoundError.
DirectoryGone(t) ==
    /\ \/ todo # {} /\ call[t].pc \in {"locked", "run", "open"}
       \/ lib = Missing /\ At(t, "run")
    /\ Leave(t, "broken", Missing)
    /\ UNCHANGED <<caching, cargo, files, todo, count>>

-----------------------------------------------------------------------------
(* clear_compile_cache takes no lock and removes lib.rs, the target and    *)
(* the content cache one after the other, in no fixed order.               *)

Disturb == [t \in Threads |-> [call[t] EXCEPT !.disturbed = TRUE]]

Clear(t) ==
    /\ call[t].pc \in Resting
    /\ todo = {}
    /\ count.clears < MaxClears
    /\ count' = [count EXCEPT !.clears = @ + 1]
    /\ todo' = {"lib", "target", "wasm"}
    /\ call' = [Disturb EXCEPT ![t] = [NoCall EXCEPT !.pc = "clearing"]]
    /\ UNCHANGED <<caching, lock, cargo, files>>

ClearFile(t) ==
    /\ At(t, "clearing")
    /\ \E f \in todo :
          /\ todo' = todo \ {f}
          /\ lib' = IF f = "lib" THEN Missing ELSE lib
          /\ target' = IF f = "target" THEN Missing ELSE target
          /\ cache' = [s \in Sources |-> IF f = "wasm" THEN Missing ELSE cache[s]]
          /\ tmp' = [s \in Sources |-> IF f = "wasm" THEN Missing ELSE tmp[s]]
    /\ call' = [Disturb EXCEPT ![t].pc = IF todo' = {} THEN "idle" ELSE "clearing"]
    /\ UNCHANGED <<caching, lock, cargo, count>>

Fault ==
    /\ count.faults < MaxFaults
    /\ count' = [count EXCEPT !.faults = @ + 1]

\* The disk is full: the write raises OSError and the file stays truncated.
DiskFull(t) ==
    /\ Fault
    /\ \/ call[t].pc \in {"write", "store"}
       \/ At(t, "called") /\ ProcOf[t] \notin caching
    /\ lock' = [lock EXCEPT ![ProcOf[t]] = IF @ = t THEN NoThread ELSE @]
    /\ call' = [call EXCEPT ![t] = [@ EXCEPT !.pc = "broken", !.disturbed = TRUE]]
    /\ UNCHANGED <<caching, cargo, files, todo>>

\* A process is killed between two steps; its cargo goes with it, or lives on.
Crash(p) ==
    /\ Fault
    /\ lock' = [lock EXCEPT ![p] = NoThread]
    /\ todo' = IF \E t \in Threads : ProcOf[t] = p /\ At(t, "clearing") THEN {} ELSE todo
    /\ call' = [t \in Threads |-> IF ProcOf[t] = p THEN NoCall ELSE call[t]]
    /\ \E orphan \in {NoCargo} \cup {cargo[t] : t \in {u \in Threads : ProcOf[u] = p}} :
          cargo' = [b \in DOMAIN cargo |->
                      IF b = Orphan
                      THEN IF orphan.st \in {"queued", "building"} THEN orphan ELSE cargo[b]
                      ELSE IF ProcOf[b] = p THEN NoCargo ELSE cargo[b]]
    /\ UNCHANGED <<caching, files>>

-----------------------------------------------------------------------------
CompileStep(t) ==
    \/ BuildIsolated(t) \/ Acquire(t) \/ CacheHit(t) \/ OpenLib(t) \/ WriteLib(t)
    \/ RunCargo(t) \/ CargoReturns(t) \/ ReadWasm(t) \/ OpenTmp(t) \/ WriteTmp(t)
    \/ Replace(t) \/ DirectoryGone(t) \/ ClearFile(t)
CargoStep(b) == CargoReads(b) \/ CargoEnds(b)

CompilerNext ==
    \/ \E t \in Threads :
          CompileStep(t) \/ DiskFull(t) \/ Clear(t) \/ \E s \in Sources : Call(t, s)
    \/ \E b \in Threads \cup {Orphan} : CargoStep(b)
    \/ \E p \in Procs : Crash(p)

CompilerSpec == CompilerInit /\ [][CompilerNext]_compilerVars

-----------------------------------------------------------------------------
(* Properties.                                                             *)

\* A compile returns the module of the source it was given, whatever was
\* compiled before it or beside it, and after crashes (compiler.py:69-70,
\* "both keyed on the exact generated lib.rs so they are always correct").
OwnModule ==
    \A t \in Threads : At(t, "returned") => call[t].out = call[t].src

\* Whatever is in the content cache is whole and is its key's module, also
\* when a process dies while it fills the cache: a later run reads it blindly.
CacheHonest == \A s \in Sources : cache[s] \in {Missing, s}

\* A source that rustc accepts fails to compile only beside a
\* clear_compile_cache or when a write of its own fails: not because of a
\* compile that failed or was killed before, and left a torn lib.rs, another
\* source's target or a torn .tmp file behind.
GoodSourceCompiles ==
    \A t \in Threads :
        /\ At(t, "failed") => call[t].src \in Bad \/ call[t].disturbed
        /\ At(t, "broken") => call[t].disturbed

=============================================================================
