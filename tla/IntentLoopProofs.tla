-------------------------- MODULE IntentLoopProofs --------------------------
(***************************************************************************)
(* The compiler and the session over it, for any number of threads,        *)
(* processes and sources, any number of crashes, failed writes and clears, *)
(* as long as at most one process uses the cache directory.                *)
(*                                                                         *)
(* The lock of that process makes its holder the only thread past Acquire, *)
(* so lib.rs, the target and the .tmp file are the holder's, except for    *)
(* what a clear_compile_cache removes and an orphaned cargo builds: and    *)
(* the orphan reads the holder's lib.rs too.                               *)
(***************************************************************************)
EXTENDS IntentLoop, FiniteSetTheorems, TLAPS

\* Between Acquire and Leave.
Inside == {"locked", "write", "run", "wait", "read", "open", "store", "replace"}

\* A thread whose call is over or has not begun, or that clears the cache.
NotCalling == {"idle", "clearing"}

\* At most one process caches.
OneCaches == \A p, q \in caching : p = q

\* Builds exclude each other, and only a waiting thread has a cargo.
CargoInv ==
    /\ \A b, c \in DOMAIN cargo :
          cargo[b].st = "building" /\ cargo[c].st = "building" => b = c
    /\ \A t \in Threads : cargo[t].st # "none" => At(t, "wait")

\* The cache and the .tmp files hold modules of their own key.
FilesInv ==
    \A s \in Sources :
        /\ cache[s] \in {Missing, s}
        /\ tmp[s] \in {Missing, Torn, s}
        /\ s \in Bad => cache[s] # s /\ tmp[s] # s

\* A file that the holder has written is there, unless a clear removed it.
Holds(t, file, content) ==
    /\ file \in {content, Missing}
    /\ ~call[t].disturbed => file = content

\* The target is t's module, and whatever is being built will leave it so.
TargetIsOwn(t) ==
    /\ call[t].src \notin Bad
    /\ Holds(t, target, call[t].src)
    /\ \A b \in DOMAIN cargo :
          cargo[b].st = "building" => cargo[b].lib \in {call[t].src, Missing}

\* What one thread's call relies on, by how far it has come.
CallInv(t) ==
    LET pc == call[t].pc
        src == call[t].src
    IN  /\ pc \notin NotCalling => src \in Sources /\ (todo # {} => call[t].disturbed)
        /\ pc \in Inside => ProcOf[t] \in caching /\ lock[ProcOf[t]] = t
        /\ pc = "write" => Holds(t, lib, Torn)
        /\ pc \in Inside \ {"locked", "write"} => Holds(t, lib, src)
        /\ cargo[t].st = "building" => Holds(t, cargo[t].lib, src)
        /\ cargo[t].st = "error" => src \in Bad \/ call[t].disturbed
        /\ cargo[t].st = "ok" \/ pc = "read" => TargetIsOwn(t)
        /\ pc \in {"open", "store", "replace", "returned"} =>
              call[t].out = src /\ src \notin Bad
        /\ pc = "store" => Holds(t, tmp[src], Torn)
        /\ pc = "replace" => Holds(t, tmp[src], src)
        /\ pc = "failed" => src \in Bad \/ call[t].disturbed
        /\ pc = "broken" => call[t].disturbed

CallsInv == \A t \in Threads : CallInv(t)

CompilerInv == CompilerTypeOK /\ OneCaches /\ CargoInv /\ FilesInv /\ CallsInv

-----------------------------------------------------------------------------
(* Types.                                                                  *)

\* The type of one call, of a file and of a cargo.
CallRecord ==
    [pc : Resting \cup {"called", "locked", "write", "run", "wait", "read", "open",
                        "store", "replace", "clearing"},
     src : Sources \cup {Missing},
     out : Sources \cup {Missing, Torn},
     disturbed : BOOLEAN]
Content == Sources \cup {Missing, Torn}
CargoRecord == [st : {"none", "queued", "building", "ok", "error"}, lib : Content]

\* A thread goes on, or leaves its call.
LEMMA CallMoves ==
    ASSUME CompilerTypeOK, NEW t \in Threads,
           NEW pc \in Resting \cup Inside, NEW out \in Content
    PROVE  /\ Go(t, pc) => call' \in [Threads -> CallRecord]
           /\ Leave(t, pc, out) => call' \in [Threads -> CallRecord]
           /\ call' = [call EXCEPT ![t].pc = pc, ![t].out = out] => call' \in [Threads -> CallRecord]
  <1>1. call \in [Threads -> CallRecord]
    BY DEF CompilerTypeOK, CallRecord
  <1>2. call[t] \in CallRecord
    BY <1>1
  <1>3. /\ [call[t] EXCEPT !.pc = pc] \in CallRecord
        /\ [call[t] EXCEPT !.pc = pc, !.out = out] \in CallRecord
    BY <1>2 DEF CallRecord, Inside, Content
  <1> QED
    BY <1>1, <1>2, <1>3 DEF Go, Leave

\* The type invariant, one variable at a time.
LEMMA TypeByParts ==
    ASSUME CompilerTypeOK, caching' = caching,
           lock' \in [Procs -> Threads \cup {NoThread}],
           call' \in [Threads -> CallRecord],
           cargo' \in [Threads \cup {Orphan} -> CargoRecord],
           lib' \in Content, target' \in Content,
           cache' \in [Sources -> Content], tmp' \in [Sources -> Content]
    PROVE  CompilerTypeOK'
  BY DEF CompilerTypeOK, CallRecord, CargoRecord, Content

\* What the type invariant says of each variable, for the steps that need one.
LEMMA PartsOfType ==
    ASSUME CompilerTypeOK
    PROVE  /\ lock \in [Procs -> Threads \cup {NoThread}]
           /\ call \in [Threads -> CallRecord]
           /\ cargo \in [Threads \cup {Orphan} -> CargoRecord]
           /\ lib \in Content /\ target \in Content
           /\ cache \in [Sources -> Content] /\ tmp \in [Sources -> Content]
           /\ \A t \in Threads : call[t].src \in Sources \cup {Missing} /\ call[t].out \in Content
           /\ \A b \in Threads \cup {Orphan} : cargo[b].lib \in Content
           /\ {Missing, Torn} \subseteq Content /\ Sources \subseteq Content
  BY DEF CompilerTypeOK, CallRecord, CargoRecord, Content

-----------------------------------------------------------------------------
(* The invariant is inductive.                                             *)

\* The lock: two threads past Acquire are one.
LEMMA OnlyHolder ==
    ASSUME CompilerInv, NEW t \in Threads, NEW u \in Threads,
           call[t].pc \in Inside, call[u].pc \in Inside
    PROVE  t = u
  BY DEF CompilerInv, OneCaches, CallsInv, CallInv

\* A thread whose call a step leaves alone: unless it is outside the lock, the
\* step leaves it its files, and a build that begins reads its lib.rs.
LEMMA OtherKept ==
    ASSUME CompilerInv, NEW u \in Threads,
           call'[u] = call[u], cargo'[u] = cargo[u], caching' = caching,
           todo' # {} => todo # {},
           lock[ProcOf[u]] = u => lock'[ProcOf[u]] = u,
           DOMAIN cargo' = DOMAIN cargo,
           call[u].pc \in Inside =>
              /\ UNCHANGED <<lib, target, tmp>>
              /\ \A b \in DOMAIN cargo :
                    cargo'[b].st = "building" => cargo'[b] = cargo[b] \/ cargo'[b].lib = lib
    PROVE  CallInv(u)'
  <1>1. cargo[u].st # "none" => call[u].pc = "wait"
    BY DEF CompilerInv, CargoInv, At
  <1>2. CallInv(u)
    BY DEF CompilerInv, CallsInv
  <1>3. cargo[u].st \in {"none", "queued", "building", "ok", "error"}
    BY DEF CompilerInv, CompilerTypeOK
  <1>4. CASE call[u].pc \notin Inside
    BY <1>1, <1>2, <1>3, <1>4 DEF CallInv, Inside
  <1>5. CASE call[u].pc \in Inside
    <2>1. UNCHANGED <<lib, target, tmp>>
      BY <1>5
    <2>2. TargetIsOwn(u) /\ Holds(u, lib, call[u].src) => TargetIsOwn(u)'
      BY <1>5 DEF TargetIsOwn, Holds
    <2> QED
      BY <1>1, <1>2, <1>5, <2>1, <2>2 DEF CallInv, Inside, Holds
  <1> QED
    BY <1>4, <1>5

\* A thread that calls compile_rust_to_wasm holds nothing yet.
LEMMA CallStep ==
    ASSUME CompilerInv, NEW t \in Threads, NEW s \in Sources, Call(t, s)
    PROVE  CompilerInv'
  <1> USE CompilerAssumption DEF CompilerInv, Call, files, NoCall, Resting
  <1>1. CompilerTypeOK'
    BY DEF CompilerTypeOK
  <1>2. OneCaches' /\ FilesInv'
    BY DEF OneCaches, FilesInv
  <1>3. CargoInv'
    BY DEF CargoInv, At, CompilerTypeOK
  <1>4. CallInv(t)'
    <2>1. cargo[t].st = "none"
      BY DEF CargoInv, At
    <2> QED
      BY <2>1 DEF CallInv, CompilerTypeOK, Inside
  <1>5. ASSUME NEW u \in Threads \ {t} PROVE CallInv(u)'
    BY OtherKept DEF CompilerTypeOK
  <1> QED
    BY <1>1, <1>2, <1>3, <1>4, <1>5 DEF CallsInv

\* One step of a compile, whose thread t is the only one whose call changes
\* and, once inside the lock, the only one that touches the files.
LEMMA CompileStepKept ==
    ASSUME CompilerInv, NEW t \in Threads, CompileStep(t), ~ClearFile(t)
    PROVE  CompilerInv'
  <1> USE CompilerAssumption DEF CompilerInv, files, At, Missing, Torn
  <1>o. ASSUME NEW u \in Threads \ {t}, call[t].pc \in Inside PROVE call[u].pc \notin Inside
    BY <1>o, OnlyHolder
  <1>c. CallInv(t) /\ (cargo[t].st # "none" => call[t].pc = "wait")
    BY DEF CallsInv, CargoInv
  <1>p. ProcOf[t] \in Procs
    BY DEF Procs
  <1>1. CASE BuildIsolated(t)
    <2> USE DEF BuildIsolated
    <2>1. CompilerTypeOK'
      <3>1. call' \in [Threads -> CallRecord]
        BY <1>1, <1>c, PartsOfType, CallMoves DEF Inside, Resting, CallInv, NotCalling
      <3>2. lock' \in [Procs -> Threads \cup {NoThread}]
        BY <1>1, <1>p, PartsOfType DEF Leave
      <3>3. cargo' \in [Threads \cup {Orphan} -> CargoRecord]
        BY <1>1, PartsOfType DEF CargoRecord, NoCargo
      <3> QED
        BY <1>1, <3>1, <3>2, <3>3, PartsOfType, TypeByParts
    <2>2. CargoInv' /\ FilesInv' /\ OneCaches'
      BY <1>1, <1>c DEF CargoInv, FilesInv, OneCaches, CompilerTypeOK, CallInv, Holds, Inside, NotCalling, Leave
    <2>3. CallInv(t)'
      <3>1. cargo'[t].st = "none"
        BY <1>1, <1>c
      <3>2. CASE call[t].src \in Bad
        BY <1>1, <1>c, <3>1, <3>2 DEF CallInv, Inside, NotCalling, CompilerTypeOK, Leave
      <3>3. CASE call[t].src \notin Bad
        BY <1>1, <1>c, <3>1, <3>3 DEF CallInv, Inside, NotCalling, CompilerTypeOK, Leave
      <3> QED
        BY <3>2, <3>3
    <2>4. ASSUME NEW u \in Threads \ {t} PROVE CallInv(u)'
      <3>1. call'[u] = call[u] /\ (lock[ProcOf[u]] = u => lock'[ProcOf[u]] = u)
        BY <1>1 DEF CompilerTypeOK, Procs, Leave
      <3>2. /\ cargo'[u] = cargo[u] /\ DOMAIN cargo' = DOMAIN cargo
            /\ \A b \in DOMAIN cargo : cargo'[b].st = "building" => cargo'[b] = cargo[b]
        BY <1>1 DEF CompilerTypeOK, NoCargo
      <3> QED
        BY <1>1, <1>o, <3>1, <3>2, OtherKept DEF Inside
    <2> QED
      BY <2>1, <2>2, <2>3, <2>4 DEF CallsInv
  <1>2. CASE Acquire(t)
    <2> USE DEF Acquire
    <2>1. CompilerTypeOK'
      <3>1. call' \in [Threads -> CallRecord]
        BY <1>2, <1>c, PartsOfType, CallMoves DEF Inside, Resting, CallInv, NotCalling
      <3>2. lock' \in [Procs -> Threads \cup {NoThread}]
        BY <1>2, <1>p, PartsOfType DEF Go
      <3>3. cargo' \in [Threads \cup {Orphan} -> CargoRecord]
        BY <1>2, PartsOfType DEF CargoRecord, NoCargo
      <3> QED
        BY <1>2, <3>1, <3>2, <3>3, PartsOfType, TypeByParts
    <2>2. CargoInv' /\ FilesInv' /\ OneCaches'
      BY <1>2, <1>c DEF CargoInv, FilesInv, OneCaches, CompilerTypeOK, CallInv, Holds, Inside, NotCalling, Go
    <2>3. CallInv(t)'
      BY <1>2, <1>c DEF CallInv, TargetIsOwn, Holds, Inside, NotCalling, CompilerTypeOK, FilesInv, Go
    <2>4. ASSUME NEW u \in Threads \ {t} PROVE CallInv(u)'
      <3>1. call'[u] = call[u] /\ (lock[ProcOf[u]] = u => lock'[ProcOf[u]] = u)
        BY <1>2 DEF CompilerTypeOK, Procs, Go
      <3>2. /\ cargo'[u] = cargo[u] /\ DOMAIN cargo' = DOMAIN cargo
            /\ \A b \in DOMAIN cargo : cargo'[b].st = "building" => cargo'[b] = cargo[b]
        BY <1>2 DEF CompilerTypeOK, NoCargo
      <3> QED
        BY <1>2, <1>o, <3>1, <3>2, OtherKept DEF Inside
    <2> QED
      BY <2>1, <2>2, <2>3, <2>4 DEF CallsInv
  <1>3. CASE CacheHit(t)
    <2> USE DEF CacheHit
    <2>1. CompilerTypeOK'
      <3>1. call' \in [Threads -> CallRecord]
        BY <1>3, <1>c, PartsOfType, CallMoves DEF Inside, Resting, CallInv, NotCalling
      <3>2. lock' \in [Procs -> Threads \cup {NoThread}]
        BY <1>3, <1>p, PartsOfType DEF Leave
      <3>3. cargo' \in [Threads \cup {Orphan} -> CargoRecord]
        BY <1>3, PartsOfType DEF CargoRecord, NoCargo
      <3> QED
        BY <1>3, <3>1, <3>2, <3>3, PartsOfType, TypeByParts
    <2>2. CargoInv' /\ FilesInv' /\ OneCaches'
      BY <1>3, <1>c DEF CargoInv, FilesInv, OneCaches, CompilerTypeOK, CallInv, Holds, Inside, NotCalling, Leave
    <2>3. CallInv(t)'
      BY <1>3, <1>c DEF CallInv, TargetIsOwn, Holds, Inside, NotCalling, CompilerTypeOK, FilesInv, Leave
    <2>4. ASSUME NEW u \in Threads \ {t} PROVE CallInv(u)'
      <3>1. call'[u] = call[u] /\ (lock[ProcOf[u]] = u => lock'[ProcOf[u]] = u)
        BY <1>3 DEF CompilerTypeOK, Procs, Leave
      <3>2. /\ cargo'[u] = cargo[u] /\ DOMAIN cargo' = DOMAIN cargo
            /\ \A b \in DOMAIN cargo : cargo'[b].st = "building" => cargo'[b] = cargo[b]
        BY <1>3 DEF CompilerTypeOK, NoCargo
      <3> QED
        BY <1>3, <1>o, <3>1, <3>2, OtherKept DEF Inside
    <2> QED
      BY <2>1, <2>2, <2>3, <2>4 DEF CallsInv
  <1>4. CASE OpenLib(t)
    <2> USE DEF OpenLib
    <2>1. CompilerTypeOK'
      <3>1. call' \in [Threads -> CallRecord]
        BY <1>4, <1>c, PartsOfType, CallMoves DEF Inside, Resting, CallInv, NotCalling
      <3>2. lock' \in [Procs -> Threads \cup {NoThread}]
        BY <1>4, <1>p, PartsOfType DEF Go
      <3>3. cargo' \in [Threads \cup {Orphan} -> CargoRecord]
        BY <1>4, PartsOfType DEF CargoRecord, NoCargo
      <3> QED
        BY <1>4, <3>1, <3>2, <3>3, PartsOfType, TypeByParts
    <2>2. CargoInv' /\ FilesInv' /\ OneCaches'
      BY <1>4, <1>c DEF CargoInv, FilesInv, OneCaches, CompilerTypeOK, CallInv, Holds, Inside, NotCalling, Go
    <2>3. CallInv(t)'
      BY <1>4, <1>c DEF CallInv, TargetIsOwn, Holds, Inside, NotCalling, CompilerTypeOK, FilesInv, Go
    <2>4. ASSUME NEW u \in Threads \ {t} PROVE CallInv(u)'
      <3>1. call'[u] = call[u] /\ (lock[ProcOf[u]] = u => lock'[ProcOf[u]] = u)
        BY <1>4 DEF CompilerTypeOK, Procs, Go
      <3>2. /\ cargo'[u] = cargo[u] /\ DOMAIN cargo' = DOMAIN cargo
            /\ \A b \in DOMAIN cargo : cargo'[b].st = "building" => cargo'[b] = cargo[b]
        BY <1>4 DEF CompilerTypeOK, NoCargo
      <3> QED
        BY <1>4, <1>o, <3>1, <3>2, OtherKept DEF Inside
    <2> QED
      BY <2>1, <2>2, <2>3, <2>4 DEF CallsInv
  <1>5. CASE WriteLib(t)
    <2> USE DEF WriteLib
    <2>1. CompilerTypeOK'
      <3>1. call' \in [Threads -> CallRecord]
        BY <1>5, <1>c, PartsOfType, CallMoves DEF Inside, Resting, CallInv, NotCalling
      <3>2. lock' \in [Procs -> Threads \cup {NoThread}]
        BY <1>5, <1>p, PartsOfType DEF Go
      <3>3. cargo' \in [Threads \cup {Orphan} -> CargoRecord]
        BY <1>5, PartsOfType DEF CargoRecord, NoCargo
      <3> QED
        BY <1>5, <3>1, <3>2, <3>3, PartsOfType, TypeByParts
    <2>2. CargoInv' /\ FilesInv' /\ OneCaches'
      BY <1>5, <1>c DEF CargoInv, FilesInv, OneCaches, CompilerTypeOK, CallInv, Holds, Inside, NotCalling, Go
    <2>3. CallInv(t)'
      BY <1>5, <1>c DEF CallInv, TargetIsOwn, Holds, Inside, NotCalling, CompilerTypeOK, FilesInv, Go
    <2>4. ASSUME NEW u \in Threads \ {t} PROVE CallInv(u)'
      <3>1. call'[u] = call[u] /\ (lock[ProcOf[u]] = u => lock'[ProcOf[u]] = u)
        BY <1>5 DEF CompilerTypeOK, Procs, Go
      <3>2. /\ cargo'[u] = cargo[u] /\ DOMAIN cargo' = DOMAIN cargo
            /\ \A b \in DOMAIN cargo : cargo'[b].st = "building" => cargo'[b] = cargo[b]
        BY <1>5 DEF CompilerTypeOK, NoCargo
      <3> QED
        BY <1>5, <1>o, <3>1, <3>2, OtherKept DEF Inside
    <2> QED
      BY <2>1, <2>2, <2>3, <2>4 DEF CallsInv
  <1>6. CASE RunCargo(t)
    <2> USE DEF RunCargo
    <2>1. CompilerTypeOK'
      <3>1. call' \in [Threads -> CallRecord]
        BY <1>6, <1>c, PartsOfType, CallMoves DEF Inside, Resting, CallInv, NotCalling
      <3>2. lock' \in [Procs -> Threads \cup {NoThread}]
        BY <1>6, <1>p, PartsOfType DEF Go
      <3>3. cargo' \in [Threads \cup {Orphan} -> CargoRecord]
        BY <1>6, PartsOfType DEF CargoRecord, NoCargo
      <3> QED
        BY <1>6, <3>1, <3>2, <3>3, PartsOfType, TypeByParts
    <2>2. CargoInv' /\ FilesInv' /\ OneCaches'
      BY <1>6, <1>c DEF CargoInv, FilesInv, OneCaches, CompilerTypeOK, CallInv, Holds, Inside, NotCalling, Go
    <2>3. CallInv(t)'
      BY <1>6, <1>c DEF CallInv, TargetIsOwn, Holds, Inside, NotCalling, CompilerTypeOK, FilesInv, Go
    <2>4. ASSUME NEW u \in Threads \ {t} PROVE CallInv(u)'
      <3>1. call'[u] = call[u] /\ (lock[ProcOf[u]] = u => lock'[ProcOf[u]] = u)
        BY <1>6 DEF CompilerTypeOK, Procs, Go
      <3>2. /\ cargo'[u] = cargo[u] /\ DOMAIN cargo' = DOMAIN cargo
            /\ \A b \in DOMAIN cargo : cargo'[b].st = "building" => cargo'[b] = cargo[b]
        BY <1>6 DEF CompilerTypeOK, NoCargo
      <3> QED
        BY <1>6, <1>o, <3>1, <3>2, OtherKept DEF Inside
    <2> QED
      BY <2>1, <2>2, <2>3, <2>4 DEF CallsInv
  <1>7. CASE CargoReturns(t)
    <2> USE DEF CargoReturns
    <2>1. CompilerTypeOK'
      <3>1. call' \in [Threads -> CallRecord]
        BY <1>7, <1>c, PartsOfType, CallMoves DEF Inside, Resting, CallInv, NotCalling
      <3>2. lock' \in [Procs -> Threads \cup {NoThread}]
        BY <1>7, <1>p, PartsOfType DEF Go, Leave, NoCargo
      <3>3. cargo' \in [Threads \cup {Orphan} -> CargoRecord]
        BY <1>7, PartsOfType DEF CargoRecord, NoCargo
      <3> QED
        BY <1>7, <3>1, <3>2, <3>3, PartsOfType, TypeByParts
    <2>2. CargoInv' /\ FilesInv' /\ OneCaches'
      BY <1>7, <1>c DEF CargoInv, FilesInv, OneCaches, CompilerTypeOK, CallInv, Holds, Inside, NotCalling, Go, Leave, NoCargo
    <2>3. CallInv(t)'
      BY <1>7, <1>c DEF CallInv, TargetIsOwn, Holds, Inside, NotCalling, CompilerTypeOK, FilesInv, Go, Leave, NoCargo
    <2>4. ASSUME NEW u \in Threads \ {t} PROVE CallInv(u)'
      <3>1. call'[u] = call[u] /\ (lock[ProcOf[u]] = u => lock'[ProcOf[u]] = u)
        BY <1>7 DEF CompilerTypeOK, Procs, Go, Leave, NoCargo
      <3>2. /\ cargo'[u] = cargo[u] /\ DOMAIN cargo' = DOMAIN cargo
            /\ \A b \in DOMAIN cargo : cargo'[b].st = "building" => cargo'[b] = cargo[b]
        BY <1>7 DEF CompilerTypeOK, NoCargo
      <3> QED
        BY <1>7, <1>o, <3>1, <3>2, OtherKept DEF Inside
    <2> QED
      BY <2>1, <2>2, <2>3, <2>4 DEF CallsInv
  <1>8. CASE ReadWasm(t)
    <2> USE DEF ReadWasm
    <2>1. CompilerTypeOK'
      <3>1. call' \in [Threads -> CallRecord]
        <4>1. CASE target = Missing
          BY <1>8, <4>1, PartsOfType, CallMoves DEF Resting
        <4>2. CASE target # Missing
          BY <1>8, <4>2, PartsOfType, CallMoves DEF Inside
        <4> QED
          BY <4>1, <4>2
      <3>2. lock' \in [Procs -> Threads \cup {NoThread}]
        BY <1>8, <1>p, PartsOfType DEF Leave
      <3>3. cargo' \in [Threads \cup {Orphan} -> CargoRecord]
        BY <1>8, PartsOfType DEF CargoRecord, NoCargo
      <3> QED
        BY <1>8, <3>1, <3>2, <3>3, PartsOfType, TypeByParts
    <2>2. CargoInv' /\ FilesInv' /\ OneCaches'
      BY <1>8, <1>c DEF CargoInv, FilesInv, OneCaches, CompilerTypeOK, CallInv, Holds, Inside, NotCalling, Leave
    <2>3. CallInv(t)'
      BY <1>8, <1>c DEF CallInv, TargetIsOwn, Holds, Inside, NotCalling, CompilerTypeOK, FilesInv, Leave
    <2>4. ASSUME NEW u \in Threads \ {t} PROVE CallInv(u)'
      <3>1. call'[u] = call[u] /\ (lock[ProcOf[u]] = u => lock'[ProcOf[u]] = u)
        BY <1>8 DEF CompilerTypeOK, Procs, Leave
      <3>2. /\ cargo'[u] = cargo[u] /\ DOMAIN cargo' = DOMAIN cargo
            /\ \A b \in DOMAIN cargo : cargo'[b].st = "building" => cargo'[b] = cargo[b]
        BY <1>8 DEF CompilerTypeOK, NoCargo
      <3> QED
        BY <1>8, <1>o, <3>1, <3>2, OtherKept DEF Inside
    <2> QED
      BY <2>1, <2>2, <2>3, <2>4 DEF CallsInv
  <1>9. CASE OpenTmp(t)
    <2> USE DEF OpenTmp
    <2>1. CompilerTypeOK'
      <3>1. call' \in [Threads -> CallRecord]
        BY <1>9, <1>c, PartsOfType, CallMoves DEF Inside, Resting, CallInv, NotCalling
      <3>2. lock' \in [Procs -> Threads \cup {NoThread}]
        BY <1>9, <1>p, PartsOfType DEF Go
      <3>3. cargo' \in [Threads \cup {Orphan} -> CargoRecord]
        BY <1>9, PartsOfType DEF CargoRecord, NoCargo
      <3> QED
        BY <1>9, <3>1, <3>2, <3>3, PartsOfType, TypeByParts
    <2>2. CargoInv' /\ FilesInv' /\ OneCaches'
      BY <1>9, <1>c DEF CargoInv, FilesInv, OneCaches, CompilerTypeOK, CallInv, Holds, Inside, NotCalling, Go
    <2>3. CallInv(t)'
      BY <1>9, <1>c DEF CallInv, TargetIsOwn, Holds, Inside, NotCalling, CompilerTypeOK, FilesInv, Go
    <2>4. ASSUME NEW u \in Threads \ {t} PROVE CallInv(u)'
      <3>1. call'[u] = call[u] /\ (lock[ProcOf[u]] = u => lock'[ProcOf[u]] = u)
        BY <1>9 DEF CompilerTypeOK, Procs, Go
      <3>2. /\ cargo'[u] = cargo[u] /\ DOMAIN cargo' = DOMAIN cargo
            /\ \A b \in DOMAIN cargo : cargo'[b].st = "building" => cargo'[b] = cargo[b]
        BY <1>9 DEF CompilerTypeOK, NoCargo
      <3> QED
        BY <1>9, <1>o, <3>1, <3>2, OtherKept DEF Inside
    <2> QED
      BY <2>1, <2>2, <2>3, <2>4 DEF CallsInv
  <1>10. CASE WriteTmp(t)
    <2> USE DEF WriteTmp
    <2>1. CompilerTypeOK'
      <3>1. call' \in [Threads -> CallRecord]
        BY <1>10, <1>c, PartsOfType, CallMoves DEF Inside, Resting, CallInv, NotCalling
      <3>2. lock' \in [Procs -> Threads \cup {NoThread}]
        BY <1>10, <1>p, PartsOfType DEF Go
      <3>3. cargo' \in [Threads \cup {Orphan} -> CargoRecord]
        BY <1>10, PartsOfType DEF CargoRecord, NoCargo
      <3> QED
        BY <1>10, <3>1, <3>2, <3>3, PartsOfType, TypeByParts
    <2>2. CargoInv' /\ FilesInv' /\ OneCaches'
      BY <1>10, <1>c DEF CargoInv, FilesInv, OneCaches, CompilerTypeOK, CallInv, Holds, Inside, NotCalling, Go
    <2>3. CallInv(t)'
      BY <1>10, <1>c DEF CallInv, TargetIsOwn, Holds, Inside, NotCalling, CompilerTypeOK, FilesInv, Go
    <2>4. ASSUME NEW u \in Threads \ {t} PROVE CallInv(u)'
      <3>1. call'[u] = call[u] /\ (lock[ProcOf[u]] = u => lock'[ProcOf[u]] = u)
        BY <1>10 DEF CompilerTypeOK, Procs, Go
      <3>2. /\ cargo'[u] = cargo[u] /\ DOMAIN cargo' = DOMAIN cargo
            /\ \A b \in DOMAIN cargo : cargo'[b].st = "building" => cargo'[b] = cargo[b]
        BY <1>10 DEF CompilerTypeOK, NoCargo
      <3> QED
        BY <1>10, <1>o, <3>1, <3>2, OtherKept DEF Inside
    <2> QED
      BY <2>1, <2>2, <2>3, <2>4 DEF CallsInv
  <1>11. CASE Replace(t)
    <2> USE DEF Replace
    <2>1. CompilerTypeOK'
      <3>1. call' \in [Threads -> CallRecord]
        BY <1>11, <1>c, PartsOfType, CallMoves DEF Inside, Resting, CallInv, NotCalling
      <3>2. lock' \in [Procs -> Threads \cup {NoThread}]
        BY <1>11, <1>p, PartsOfType DEF Leave
      <3>3. cargo' \in [Threads \cup {Orphan} -> CargoRecord]
        BY <1>11, PartsOfType DEF CargoRecord, NoCargo
      <3> QED
        BY <1>11, <3>1, <3>2, <3>3, PartsOfType, TypeByParts
    <2>2. CargoInv' /\ FilesInv' /\ OneCaches'
      <3>1. CargoInv' /\ OneCaches'
        BY <1>11, <1>c DEF CargoInv, OneCaches, CompilerTypeOK, Leave
      <3>2. call[t].src \in Sources /\ Holds(t, tmp[call[t].src], call[t].src)
        BY <1>11, <1>c DEF CallInv, NotCalling
      <3>3. cache \in [Sources -> Content] /\ tmp \in [Sources -> Content]
        BY PartsOfType
      <3>4. FilesInv'
        BY <1>11, <3>2, <3>3 DEF FilesInv, Holds
      <3> QED
        BY <3>1, <3>4
    <2>3. CallInv(t)'
      BY <1>11, <1>c DEF CallInv, TargetIsOwn, Holds, Inside, NotCalling, CompilerTypeOK, FilesInv, Leave
    <2>4. ASSUME NEW u \in Threads \ {t} PROVE CallInv(u)'
      <3>1. call'[u] = call[u] /\ (lock[ProcOf[u]] = u => lock'[ProcOf[u]] = u)
        BY <1>11 DEF CompilerTypeOK, Procs, Leave
      <3>2. /\ cargo'[u] = cargo[u] /\ DOMAIN cargo' = DOMAIN cargo
            /\ \A b \in DOMAIN cargo : cargo'[b].st = "building" => cargo'[b] = cargo[b]
        BY <1>11 DEF CompilerTypeOK, NoCargo
      <3> QED
        BY <1>11, <1>o, <3>1, <3>2, OtherKept DEF Inside
    <2> QED
      BY <2>1, <2>2, <2>3, <2>4 DEF CallsInv
  <1>12. CASE DirectoryGone(t)
    <2> USE DEF DirectoryGone
    <2>1. CompilerTypeOK'
      <3>1. call' \in [Threads -> CallRecord]
        BY <1>12, <1>c, PartsOfType, CallMoves DEF Inside, Resting, CallInv, NotCalling
      <3>2. lock' \in [Procs -> Threads \cup {NoThread}]
        BY <1>12, <1>p, PartsOfType DEF Leave
      <3>3. cargo' \in [Threads \cup {Orphan} -> CargoRecord]
        BY <1>12, PartsOfType DEF CargoRecord, NoCargo
      <3> QED
        BY <1>12, <3>1, <3>2, <3>3, PartsOfType, TypeByParts
    <2>2. CargoInv' /\ FilesInv' /\ OneCaches'
      BY <1>12, <1>c DEF CargoInv, FilesInv, OneCaches, CompilerTypeOK, CallInv, Holds, Inside, NotCalling, Leave
    <2>3. CallInv(t)'
      BY <1>12, <1>c DEF CallInv, TargetIsOwn, Holds, Inside, NotCalling, CompilerTypeOK, FilesInv, Leave
    <2>4. ASSUME NEW u \in Threads \ {t} PROVE CallInv(u)'
      <3>1. call'[u] = call[u] /\ (lock[ProcOf[u]] = u => lock'[ProcOf[u]] = u)
        BY <1>12 DEF CompilerTypeOK, Procs, Leave
      <3>2. /\ cargo'[u] = cargo[u] /\ DOMAIN cargo' = DOMAIN cargo
            /\ \A b \in DOMAIN cargo : cargo'[b].st = "building" => cargo'[b] = cargo[b]
        BY <1>12 DEF CompilerTypeOK, NoCargo
      <3> QED
        BY <1>12, <1>o, <3>1, <3>2, OtherKept DEF Inside
    <2> QED
      BY <2>1, <2>2, <2>3, <2>4 DEF CallsInv
  <1> QED
    BY <1>1, <1>2, <1>3, <1>4, <1>5, <1>6, <1>7, <1>8, <1>9, <1>10, <1>11, <1>12 DEF CompileStep

\* A call beside a clear_compile_cache: it is disturbed, and files go missing.
LEMMA DisturbedKept ==
    ASSUME CompilerInv, NEW u \in Threads,
           call'[u] = [call[u] EXCEPT !.disturbed = TRUE],
           UNCHANGED <<caching, lock, cargo>>,
           lib' \in {lib, Missing}, target' \in {target, Missing},
           \A s \in Sources : tmp'[s] \in {tmp[s], Missing}
    PROVE  CallInv(u)'
  <1>1. CallInv(u) /\ call[u] \in CallRecord
    BY PartsOfType DEF CompilerInv, CallsInv
  <1>2. /\ call'[u].pc = call[u].pc /\ call'[u].src = call[u].src
        /\ call'[u].out = call[u].out /\ call'[u].disturbed = TRUE
    BY <1>1 DEF CallRecord
  <1>3. TargetIsOwn(u) => TargetIsOwn(u)'
    BY <1>2 DEF TargetIsOwn, Holds
  <1> QED
    BY <1>1, <1>2, <1>3 DEF CallInv, Holds, NotCalling, Inside

\* clear_compile_cache begins without the lock: it marks the calls it disturbs.
LEMMA ClearStep ==
    ASSUME CompilerInv, NEW t \in Threads, Clear(t)
    PROVE  CompilerInv'
  <1> USE DEF CompilerInv, Clear, files
  <1>1. call \in [Threads -> CallRecord] /\ call[t] \in CallRecord
    BY PartsOfType
  <1>2. \A u \in Threads : [call[u] EXCEPT !.disturbed = TRUE] \in CallRecord
    BY <1>1 DEF CallRecord
  <1>3. [NoCall EXCEPT !.pc = "clearing"] \in CallRecord
    BY DEF CallRecord, NoCall
  <1>4. call' \in [Threads -> CallRecord]
    BY <1>2, <1>3 DEF Disturb
  <1>5. CompilerTypeOK' /\ OneCaches' /\ FilesInv'
    BY <1>4, PartsOfType, TypeByParts DEF OneCaches, FilesInv
  <1>6. /\ call'[t] = [NoCall EXCEPT !.pc = "clearing"]
        /\ \A u \in Threads \ {t} : call'[u] = [call[u] EXCEPT !.disturbed = TRUE]
    BY DEF Disturb
  <1>7. cargo[t].st = "none"
    BY DEF CargoInv, At, Resting
  <1>8. ASSUME NEW u \in Threads \ {t} PROVE call'[u].pc = call[u].pc
    <2>1. call[u] \in CallRecord /\ call'[u] = [call[u] EXCEPT !.disturbed = TRUE]
      BY <1>1, <1>6
    <2> QED
      BY <2>1 DEF CallRecord
  <1>9. CargoInv'
    BY <1>7, <1>8 DEF CargoInv, At
  <1>10. CallInv(t)'
    BY <1>6, <1>7 DEF CallInv, NoCall, NotCalling, Inside
  <1>11. ASSUME NEW u \in Threads \ {t} PROVE CallInv(u)'
    BY <1>6, DisturbedKept
  <1> QED
    BY <1>5, <1>9, <1>10, <1>11 DEF CallsInv

\* A file that is removed makes no other file foreign: a call under way finds it
\* missing, and was marked as disturbed.
LEMMA ClearFileStep ==
    ASSUME CompilerInv, NEW t \in Threads, ClearFile(t)
    PROVE  CompilerInv'
  <1> USE DEF CompilerInv, files
  <1>1. call \in [Threads -> CallRecord] /\ call[t] \in CallRecord
    BY PartsOfType
  <1>2. /\ lib' \in {lib, Missing} /\ target' \in {target, Missing}
        /\ cache' \in [Sources -> Content] /\ tmp' \in [Sources -> Content]
        /\ \A s \in Sources : cache'[s] \in {cache[s], Missing} /\ tmp'[s] \in {tmp[s], Missing}
        /\ UNCHANGED <<caching, lock, cargo>>
    BY PartsOfType DEF ClearFile
  <1>3. /\ call'[t] = [call[t] EXCEPT !.disturbed = TRUE,
                                      !.pc = IF todo' = {} THEN "idle" ELSE "clearing"]
        /\ call'[t].pc \in NotCalling
        /\ \A u \in Threads \ {t} : call'[u] = [call[u] EXCEPT !.disturbed = TRUE]
        /\ DOMAIN call' = Threads
        /\ call' = [u \in Threads |-> call'[u]]
    BY <1>1 DEF ClearFile, Disturb, NotCalling, CallRecord
  <1>4. call' \in [Threads -> CallRecord]
    <2>1. ASSUME NEW u \in Threads PROVE call'[u] \in CallRecord
      <3>1. CASE u = t
        BY <1>1, <1>3, <3>1 DEF CallRecord, Resting
      <3>2. CASE u # t
        <4>1. call[u] \in CallRecord /\ call'[u] = [call[u] EXCEPT !.disturbed = TRUE]
          BY <1>1, <1>3, <3>2
        <4> QED
          BY <4>1 DEF CallRecord
      <3> QED
        BY <3>1, <3>2
    <2> QED
      BY <1>3, <2>1
  <1>5. CompilerTypeOK' /\ OneCaches' /\ FilesInv'
    BY <1>2, <1>4, PartsOfType, TypeByParts DEF OneCaches, FilesInv
  <1>6. cargo[t].st = "none"
    BY DEF CargoInv, At, ClearFile
  <1>7. ASSUME NEW u \in Threads \ {t} PROVE call'[u].pc = call[u].pc
    <2>1. call[u] \in CallRecord /\ call'[u] = [call[u] EXCEPT !.disturbed = TRUE]
      BY <1>1, <1>3
    <2> QED
      BY <2>1 DEF CallRecord
  <1>8. CargoInv'
    BY <1>2, <1>6, <1>7 DEF CargoInv, At
  <1>9. CallInv(t)'
    BY <1>2, <1>3, <1>6 DEF CallInv, NotCalling, Inside
  <1>10. ASSUME NEW u \in Threads \ {t} PROVE CallInv(u)'
    BY <1>2, <1>3, DisturbedKept
  <1> QED
    BY <1>5, <1>8, <1>9, <1>10 DEF CallsInv

\* A failed write leaves a torn file and no call inside the lock.
LEMMA DiskFullStep ==
    ASSUME CompilerInv, NEW t \in Threads, DiskFull(t)
    PROVE  CompilerInv'
  <1> USE DEF CompilerInv, DiskFull, Fault, files
  <1>1. call \in [Threads -> CallRecord] /\ call[t] \in CallRecord /\ CallInv(t)
    BY PartsOfType DEF CallsInv
  <1>2. /\ call' = [call EXCEPT ![t] = [call[t] EXCEPT !.pc = "broken", !.disturbed = TRUE]]
        /\ call' \in [Threads -> CallRecord]
    BY <1>1 DEF CallRecord, Resting
  <1>3. lock' \in [Procs -> Threads \cup {NoThread}]
    BY PartsOfType DEF Procs
  <1>4. CompilerTypeOK' /\ OneCaches' /\ FilesInv'
    BY <1>2, <1>3, PartsOfType, TypeByParts DEF OneCaches, FilesInv
  <1>5. cargo[t].st = "none"
    BY DEF CargoInv, At
  <1>6. CargoInv'
    BY <1>1, <1>2, <1>5 DEF CargoInv, At
  <1>7. CallInv(t)'
    BY <1>1, <1>2, <1>5 DEF CallInv, NotCalling, Inside, CallRecord, At
  <1>8. ASSUME NEW u \in Threads \ {t} PROVE CallInv(u)'
    BY <1>1, <1>2, PartsOfType, OtherKept DEF Procs
  <1> QED
    BY <1>4, <1>6, <1>7, <1>8 DEF CallsInv

\* A build that begins reads what the holder wrote, whoever started it.
LEMMA CargoReadsStep ==
    ASSUME CompilerInv, NEW b \in Threads \cup {Orphan}, CargoReads(b)
    PROVE  CompilerInv'
  <1> USE DEF CompilerInv, CargoReads, files
  <1>1. cargo \in [Threads \cup {Orphan} -> CargoRecord] /\ lib \in Content
    BY PartsOfType
  <1>2. cargo' \in [Threads \cup {Orphan} -> CargoRecord]
    BY <1>1 DEF CargoRecord
  <1>3. CompilerTypeOK' /\ OneCaches' /\ FilesInv'
    BY <1>2, PartsOfType, TypeByParts DEF OneCaches, FilesInv
  <1>4. CargoInv'
    BY <1>1 DEF CargoInv, At
  <1>5. ASSUME NEW u \in Threads, u # b PROVE CallInv(u)'
    BY <1>1, <1>5, OtherKept
  <1>6. ASSUME b \in Threads PROVE CallInv(b)'
    <2>1. CallInv(b) /\ call[b].pc = "wait"
      BY <1>6 DEF CallsInv, CargoInv, At
    <2>2. cargo'[b] = [st |-> "building", lib |-> lib]
      BY <1>1
    <2> QED
      BY <2>1, <2>2 DEF CallInv, Holds, Inside, NotCalling
  <1> QED
    BY <1>3, <1>4, <1>5, <1>6 DEF CallsInv

\* A build that ends leaves the holder's module, or that of nobody inside.
LEMMA CargoEndsStep ==
    ASSUME CompilerInv, NEW b \in Threads \cup {Orphan}, CargoEnds(b)
    PROVE  CompilerInv'
  <1> USE CompilerAssumption DEF CompilerInv
  <1>1. cargo \in [Threads \cup {Orphan} -> CargoRecord] /\ cargo[b] \in CargoRecord
    BY PartsOfType
  <1>2. PICK st \in {"none", "ok", "error"} :
           /\ cargo' = [cargo EXCEPT ![b].st = st]
           /\ b = Orphan => st = "none"
           /\ b # Orphan => st # "none"
           /\ st = "ok" => cargo[b].lib \in (Sources \ Bad) \cup {Torn} /\ target' = cargo[b].lib
           /\ st = "error" => cargo[b].lib \in Bad \cup {Missing, Torn}
    BY DEF CargoEnds
  <1>3. /\ cargo[b].st = "building"
        /\ \/ cargo[b].lib \in (Sources \ Bad) \cup {Torn} /\ target' = cargo[b].lib
           \/ target' = target
        /\ UNCHANGED <<caching, lock, call, lib, cache, tmp, todo>>
    BY DEF CargoEnds
  <1>4. cargo' \in [Threads \cup {Orphan} -> CargoRecord] /\ target' \in Content
    BY <1>1, <1>2, <1>3, PartsOfType DEF CargoRecord, Content
  <1>5. CompilerTypeOK' /\ OneCaches' /\ FilesInv'
    BY <1>3, <1>4, PartsOfType, TypeByParts DEF OneCaches, FilesInv
  <1>6. /\ cargo'[b].st = st /\ cargo'[b].lib = cargo[b].lib
        /\ \A c \in Threads \cup {Orphan} : c # b => cargo'[c] = cargo[c] /\ cargo[c].st # "building"
        /\ DOMAIN cargo = Threads \cup {Orphan} /\ DOMAIN cargo' = Threads \cup {Orphan}
    BY <1>1, <1>2, <1>3 DEF CargoInv, CargoRecord
  <1>7. CargoInv'
    BY <1>2, <1>3, <1>6 DEF CargoInv, At
  <1>8. ASSUME NEW u \in Threads, u # b PROVE CallInv(u)'
    <2>1. CallInv(u) /\ call[u] = call'[u] /\ cargo'[u] = cargo[u]
      BY <1>3, <1>6, <1>8 DEF CallsInv
    <2>2. TargetIsOwn(u) => TargetIsOwn(u)'
      <3>1. TargetIsOwn(u) => cargo[b].lib \in {call[u].src, Missing}
        BY <1>3, <1>6 DEF TargetIsOwn
      <3>2. Missing \notin (Sources \ Bad) \cup {Torn}
        BY DEF Missing, Torn
      <3> QED
        BY <1>2, <1>3, <1>6, <3>1, <3>2 DEF TargetIsOwn, Holds
    <2> QED
      BY <1>3, <2>1, <2>2 DEF CallInv, Holds
  <1>9. ASSUME b \in Threads PROVE CallInv(b)'
    <2>1. CallInv(b) /\ call[b].pc = "wait"
      BY <1>3, <1>9 DEF CallsInv, CargoInv, At
    <2>2. call[b].src \in Sources /\ Holds(b, cargo[b].lib, call[b].src)
      BY <1>3, <2>1 DEF CallInv, NotCalling
    <2>3. st \in {"ok", "error"}
      BY <1>2, <1>9
    <2>4. st = "ok" => TargetIsOwn(b)'
      BY <1>2, <1>3, <1>6, <2>2 DEF TargetIsOwn, Holds, Missing, Torn
    <2>5. st = "error" => call[b].src \in Bad \/ call[b].disturbed
      BY <1>2, <2>2 DEF Holds, Missing, Torn
    <2> QED
      BY <1>3, <1>6, <2>1, <2>3, <2>4, <2>5 DEF CallInv, Holds, Inside, NotCalling
  <1> QED
    BY <1>5, <1>7, <1>8, <1>9 DEF CallsInv

\* A killed process takes its calls with it and may leave a build behind, but
\* none while a thread of another process holds the lock.
LEMMA CrashStep ==
    ASSUME CompilerInv, NEW p \in Procs, Crash(p)
    PROVE  CompilerInv'
  <1> USE CompilerAssumption DEF CompilerInv, Fault, files
  <1>1. cargo \in [Threads \cup {Orphan} -> CargoRecord] /\ NoCargo \in CargoRecord
    BY PartsOfType DEF CargoRecord, NoCargo, Content
  <1>2. PICK o \in {NoCargo} \cup {cargo[t] : t \in {u \in Threads : ProcOf[u] = p}} :
           cargo' = [b \in DOMAIN cargo |->
                      IF b = Orphan
                      THEN IF o.st \in {"queued", "building"} THEN o ELSE cargo[b]
                      ELSE IF ProcOf[b] = p THEN NoCargo ELSE cargo[b]]
    BY DEF Crash
  <1>3. /\ call' = [t \in Threads |-> IF ProcOf[t] = p THEN NoCall ELSE call[t]]
        /\ lock' = [lock EXCEPT ![p] = NoThread]
        /\ todo' # {} => todo # {}
        /\ UNCHANGED <<caching, lib, target, cache, tmp>>
    BY DEF Crash
  <1>4. o \in CargoRecord
    BY <1>1, <1>2
  <1>5. CompilerTypeOK'
    <2>1. NoCall \in CallRecord
      BY DEF NoCall, CallRecord, Resting
    <2>2. call' \in [Threads -> CallRecord]
      BY <1>3, <2>1, PartsOfType
    <2>3. cargo' \in [Threads \cup {Orphan} -> CargoRecord]
      BY <1>1, <1>2, <1>4
    <2>4. lock' \in [Procs -> Threads \cup {NoThread}]
      BY <1>3, PartsOfType
    <2> QED
      BY <1>3, <2>2, <2>3, <2>4, PartsOfType, TypeByParts
  <1>6. OneCaches' /\ FilesInv'
    BY <1>3 DEF OneCaches, FilesInv
  <1>7. /\ \A t \in Threads : ProcOf[t] = p => cargo'[t] = NoCargo /\ call'[t] = NoCall
        /\ \A t \in Threads : ProcOf[t] # p => cargo'[t] = cargo[t] /\ call'[t] = call[t]
        /\ cargo'[Orphan] = IF o.st \in {"queued", "building"} THEN o ELSE cargo[Orphan]
        /\ DOMAIN cargo = Threads \cup {Orphan} /\ DOMAIN cargo' = Threads \cup {Orphan}
    BY <1>1, <1>2, <1>3 DEF Orphan
  <1>8. o = NoCargo \/ \E t \in Threads : ProcOf[t] = p /\ o = cargo[t]
    BY <1>2
  <1>9. CargoInv'
    BY <1>7, <1>8 DEF CargoInv, At, NoCargo, NoCall
  <1>10. ASSUME NEW u \in Threads PROVE CallInv(u)'
    <2>1. CASE ProcOf[u] = p
      BY <1>7, <2>1 DEF CallInv, NoCall, NoCargo, Inside, NotCalling
    <2>2. CASE ProcOf[u] # p
      <3>1. lock[ProcOf[u]] = u => lock'[ProcOf[u]] = u
        BY <1>3, <2>2, PartsOfType DEF Procs
      <3>2. ASSUME call[u].pc \in Inside, NEW b \in DOMAIN cargo, cargo'[b].st = "building"
            PROVE  cargo'[b] = cargo[b]
        <4>1. p \notin caching
          BY <2>2, <3>2 DEF CallsInv, CallInv, OneCaches
        <4>2. \A t \in Threads : ProcOf[t] = p => cargo[t].st = "none"
          BY <4>1 DEF CallsInv, CallInv, CargoInv, At, Inside
        <4>3. o.st = "none"
          BY <1>8, <4>2 DEF NoCargo
        <4> QED
          BY <1>7, <3>2, <4>3 DEF NoCargo
      <3> QED
        BY <1>3, <1>7, <2>2, <3>1, <3>2, OtherKept
    <2> QED
      BY <2>1, <2>2
  <1> QED
    BY <1>5, <1>6, <1>9, <1>10 DEF CallsInv

\* No file is there and nothing runs; one process at most was started with
\* the cache.
LEMMA CompilerInitInv ==
    ASSUME CompilerInit, MaxCaching <= 1
    PROVE  CompilerInv
  <1> USE CompilerAssumption
  <1>1. CompilerTypeOK
    BY DEF CompilerInit, CompilerTypeOK, NoCall, NoCargo, Resting
  <1>2. IsFiniteSet(Procs)
    <2>1. [t \in Threads |-> ProcOf[t]] \in Surjection(Threads, Procs)
      BY DEF Procs, Surjection
    <2> QED
      BY <2>1, FS_Surjection
  <1>3. IsFiniteSet(caching) /\ Cardinality(caching) <= 1 /\ Cardinality(caching) \in Nat
    BY <1>2, FS_Subset, FS_CardinalityType DEF CompilerInit
  <1>4. OneCaches
    <2> SUFFICES ASSUME NEW p \in caching, NEW q \in caching, p # q PROVE FALSE
      BY DEF OneCaches
    <2>1. {p, q} \subseteq caching
      OBVIOUS
    <2>2. Cardinality({p, q}) <= Cardinality(caching)
      BY <1>3, <2>1, FS_Subset
    <2>3. Cardinality({p, q}) = 2
      <3>1. IsFiniteSet({q}) /\ Cardinality({q}) = 1
        BY FS_Singleton
      <3>2. Cardinality({q} \cup {p}) = Cardinality({q}) + 1
        BY <3>1, FS_AddElement
      <3>3. {q} \cup {p} = {p, q}
        OBVIOUS
      <3> QED
        BY <3>1, <3>2, <3>3
    <2> QED
      BY <1>3, <2>2, <2>3
  <1>5. CargoInv /\ FilesInv
    BY DEF CompilerInit, CargoInv, FilesInv, NoCargo
  <1>6. CallsInv
    BY DEF CompilerInit, CallsInv, CallInv, NoCall, NoCargo, NotCalling, Inside
  <1> QED
    BY <1>1, <1>4, <1>5, <1>6 DEF CompilerInv

\* Any step of the compiler.
LEMMA CompilerStepKept ==
    ASSUME CompilerInv, [CompilerNext]_compilerVars
    PROVE  CompilerInv'
  <1>1. CASE UNCHANGED compilerVars
    BY <1>1 DEF compilerVars, files, CompilerInv, CompilerTypeOK, OneCaches, CargoInv,
               FilesInv, CallsInv, CallInv, TargetIsOwn, Holds, At
  <1>2. CASE CompilerNext
    <2>1. ASSUME NEW t \in Threads, CompileStep(t) PROVE CompilerInv'
      BY <2>1, CompileStepKept, ClearFileStep
    <2> QED
      BY <1>2, <2>1, CallStep, ClearStep, DiskFullStep, CargoReadsStep, CargoEndsStep,
         CrashStep DEF CompilerNext, CargoStep
  <1> QED
    BY <1>1, <1>2

\* What the invariant says of a caller.
LEMMA CompilerInvGives ==
    ASSUME CompilerInv
    PROVE  OwnModule /\ CacheHonest /\ GoodSourceCompiles
  BY DEF CompilerInv, OwnModule, CacheHonest, GoodSourceCompiles, CallsInv, CallInv,
         FilesInv, At

-----------------------------------------------------------------------------
(* The session over the compiler.                                          *)

\* The compile that the session waits for is of the code it holds: the thread
\* of the session calls for nothing else.
SessionInv ==
    /\ workload \subseteq Threads
    /\ session \in {"compile", "compiling"} => code \in Sources
    /\ session = "compiling" => call[Cli].src \in {Missing, code}
    /\ session \in {"compile", "compiling", "fix"} => wasm = Missing
    /\ session = "check" /\ wasm # Missing => wasm = code /\ code \notin Bad

\* The results still to be read, and those the device still owes, are the
\* push's own or of requests that were not answered when it was made.
OwnAnswers ==
    /\ pushes \in Nat
    /\ outstanding \in Seq(Nat) /\ inbox \in Seq(Nat)
    /\ session = "await" =>
          /\ \A i \in 1..Len(outstanding) : outstanding[i] \in owed \cup {pushes}
          /\ \A i \in 1..Len(inbox) : inbox[i] \in owed \cup {pushes}

LoopInv == CompilerInv /\ SessionInv /\ OwnAnswers

\* To the compiler a step of the session is one of its own, or none.
LEMMA LoopStepIsCompilers ==
    ASSUME SessionInv, [Next]_vars
    PROVE  [CompilerNext]_compilerVars
  <1> USE IntentAssumption
  <1>1. CASE UNCHANGED vars
    BY <1>1 DEF vars
  <1>2. CASE StartCompile
    BY <1>2 DEF StartCompile, SessionInv, CompilerNext
  <1>3. CASE SessionStep /\ ~StartCompile
    BY <1>3 DEF SessionStep, AskDiscovery, ReadManifest, ManifestTimeout, Generate,
               CompileReturned, CompileFailed, Fix, CompileBroken, NothingToPush, Push,
               AwaitResult, AwaitTimeout
  <1>4. CASE Prompt \/ Quit \/ ConnectionLost \/ SessionRestart \/ DeviceAnswers
    BY <1>4 DEF Prompt, Quit, ConnectionLost, SessionRestart, DeviceAnswers
  <1>5. CASE SessionKilled
    BY <1>5 DEF SessionKilled, CompilerNext, Procs
  <1>6. CASE CompilerBeside
    BY <1>6 DEF CompilerBeside, SessionInv, CompilerNext, Procs
  <1> QED
    BY <1>1, <1>2, <1>3, <1>4, <1>5, <1>6 DEF Next

\* A thread's source changes only when it is given another, clears or dies.
LEMMA SourceKept ==
    ASSUME CompilerTypeOK, NEW t \in Threads, NEW u \in Threads,
           \/ CompileStep(u) \/ DiskFull(u)
           \/ u # t /\ (Clear(u) \/ \E s \in Sources : Call(u, s))
    PROVE  call'[t].src = call[t].src
  <1> USE DEF Go, Leave
  <1>1. call \in [Threads -> CallRecord] /\ call[t] \in CallRecord /\ call[u] \in CallRecord
    BY PartsOfType
  <1>2. CASE BuildIsolated(u) \/ Acquire(u) \/ CacheHit(u) \/ OpenLib(u) \/ WriteLib(u)
    BY <1>1, <1>2 DEF CallRecord, BuildIsolated, Acquire, CacheHit, OpenLib, WriteLib
  <1>3. CASE RunCargo(u) \/ CargoReturns(u) \/ ReadWasm(u) \/ OpenTmp(u)
    BY <1>1, <1>3 DEF CallRecord, RunCargo, CargoReturns, ReadWasm, OpenTmp
  <1>4. CASE WriteTmp(u) \/ Replace(u) \/ DirectoryGone(u) \/ DiskFull(u)
    <2>1. CASE WriteTmp(u) \/ DirectoryGone(u)
      BY <1>1, <2>1 DEF CallRecord, WriteTmp, DirectoryGone
    <2>2. CASE Replace(u)
      BY <1>1, <2>2 DEF CallRecord, Replace
    <2>3. CASE DiskFull(u)
      BY <1>1, <2>3 DEF CallRecord, DiskFull
    <2> QED
      BY <1>4, <2>1, <2>2, <2>3
  <1>5. CASE ClearFile(u)
    <2>1. /\ call'[u] = [call[u] EXCEPT !.disturbed = TRUE,
                                        !.pc = IF todo' = {} THEN "idle" ELSE "clearing"]
          /\ u # t => call'[t] = [call[t] EXCEPT !.disturbed = TRUE]
      BY <1>1, <1>5 DEF ClearFile, Disturb, CallRecord
    <2> QED
      BY <1>1, <2>1 DEF CallRecord
  <1>6. CASE u # t /\ (Clear(u) \/ \E s \in Sources : Call(u, s))
    <2>1. call'[t] = call[t] \/ call'[t] = [call[t] EXCEPT !.disturbed = TRUE]
      BY <1>1, <1>6 DEF Clear, Call, Disturb
    <2> QED
      BY <1>1, <2>1 DEF CallRecord
  <1> QED
    BY <1>2, <1>3, <1>4, <1>5, <1>6 DEF CompileStep

\* A session that compiles has its thread compile the code it holds.
LEMMA SessionInvStep ==
    ASSUME CompilerInv, SessionInv, [Next]_vars
    PROVE  SessionInv'
  <1> USE IntentAssumption DEF SessionInv, loopVars, fixed, CompilerInv
  <1>1. CASE UNCHANGED vars
    BY <1>1 DEF vars, compilerVars
  <1>2. CASE AskDiscovery \/ ReadManifest \/ ManifestTimeout
    BY <1>2 DEF AskDiscovery, ReadManifest, ManifestTimeout, NextDiscovery
  <1>3. CASE Generate \/ Fix \/ CompileFailed \/ CompileBroken
    BY <1>3 DEF Generate, Fix, CompileFailed, CompileBroken
  <1>4. CASE StartCompile
    BY <1>4 DEF StartCompile, Call, CompilerTypeOK, NoCall
  <1>r. CASE CompileReturned
    <2>1. call[Cli].pc = "returned" /\ call[Cli].src \in {Missing, code} /\ wasm' = call[Cli].out
          /\ session' = "check" /\ UNCHANGED <<workload, code>>
      BY <1>r DEF CompileReturned, At
    <2>2. call[Cli].out = call[Cli].src /\ call[Cli].src \notin Bad /\ call[Cli].src \in Sources
      BY <2>1 DEF CallsInv, CallInv, NotCalling
    <2>3. call[Cli].src # Missing
      BY <2>2, CompilerAssumption DEF Missing
    <2> QED
      BY <2>1, <2>2, <2>3
  <1>5. CASE NothingToPush \/ Push \/ AwaitResult \/ AwaitTimeout \/ Prompt \/ Quit \/ ConnectionLost
    BY <1>5 DEF NothingToPush, Push, AwaitResult, AwaitTimeout, Prompt, Quit, ConnectionLost
  <1>6. CASE SessionKilled \/ SessionRestart
    BY <1>6 DEF SessionKilled, SessionRestart
  <1>7. CASE DeviceAnswers
    BY <1>7 DEF DeviceAnswers, compilerVars
  <1>8. CASE CompilerBeside
    <2>1. UNCHANGED <<workload, session, code, wasm>>
      BY <1>8 DEF CompilerBeside
    <2>2. ASSUME NEW t \in workload, CompileStep(t) \/ DiskFull(t)
          PROVE  call'[Cli].src = call[Cli].src
      BY <2>2, SourceKept
    <2>3. ASSUME NEW t \in workload \ {Cli}, Clear(t) \/ \E s \in Sources : Call(t, s)
          PROVE  call'[Cli].src = call[Cli].src
      BY <2>3, SourceKept
    <2>4. ASSUME NEW b \in Threads \cup {Orphan}, CargoStep(b)
          PROVE  call' = call
      BY <2>4 DEF CargoStep, CargoReads, CargoEnds
    <2>5. ASSUME NEW p, Crash(p)
          PROVE  call'[Cli].src \in {Missing, call[Cli].src}
      BY <2>5 DEF Crash, NoCall
    <2> QED
      BY <1>8, <2>1, <2>2, <2>3, <2>4, <2>5 DEF CompilerBeside
  <1> QED
    BY <1>1, <1>2, <1>3, <1>4, <1>r, <1>5, <1>6, <1>7, <1>8 DEF Next, SessionStep

\* What is outstanding or unread was so when the module was pushed.
LEMMA OwnAnswersStep ==
    ASSUME OwnAnswers, [Next]_vars
    PROVE  OwnAnswers'
  <1> USE DEF OwnAnswers, loopVars, wire, sent, Manifest
  <1>e. <<>> \in Seq(Nat) /\ Len(<<>>) = 0 /\ inbox \in Seq(Nat) /\ outstanding \in Seq(Nat)
    OBVIOUS
  <1>t. ASSUME NEW q \in Seq(Nat), q # <<>> PROVE Tail(q) \in Seq(Nat)
    BY <1>t
  <1>a. ASSUME NEW q \in Seq(Nat), NEW n \in Nat
        PROVE  /\ Append(q, n) \in Seq(Nat) /\ Len(Append(q, n)) = Len(q) + 1
               /\ \A i \in 1..Len(q) : Append(q, n)[i] = q[i]
               /\ Append(q, n)[Len(q) + 1] = n
    OBVIOUS
  <1>1. CASE UNCHANGED vars
    BY <1>1 DEF vars
  <1>2. CASE AskDiscovery
    BY <1>2 DEF AskDiscovery
  <1>3. CASE ReadManifest \/ ManifestTimeout
    BY <1>3, <1>t DEF ReadManifest, ManifestTimeout, NextDiscovery
  <1>4. CASE Generate \/ StartCompile \/ CompileReturned \/ CompileFailed \/ Fix \/ CompileBroken
    BY <1>4 DEF Generate, StartCompile, CompileReturned, CompileFailed, Fix, CompileBroken
  <1>5. CASE Push
    <2>1. /\ pushes' \in Nat /\ inbox' \in Seq(Nat)
          /\ outstanding' = Append(outstanding, pushes') /\ outstanding' \in Seq(Nat)
          /\ inbox' = <<>> \/ (inbox' = inbox /\ ~resets)
          /\ owed' = StillOwed
      <3>1. pushes + 1 \in Nat
        OBVIOUS
      <3>2. Append(outstanding, pushes + 1) \in Seq(Nat)
        BY <1>e, <1>a, <3>1
      <3> QED
        BY <1>5, <1>e, <3>1, <3>2 DEF Push
    <2>2. \A i \in 1..Len(outstanding) : outstanding[i] \in owed'
      <3>1. DOMAIN outstanding = 1..Len(outstanding)
        BY <1>e
      <3> QED
        BY <2>1, <3>1 DEF StillOwed, Range
    <2>3. \A i \in 1..Len(inbox') : inbox'[i] \in owed'
      <3>1. CASE inbox' = <<>>
        BY <1>e, <3>1
      <3>2. CASE inbox' = inbox /\ ~resets
        <4>1. DOMAIN inbox = 1..Len(inbox)
          BY <1>e
        <4> QED
          BY <2>1, <3>2, <4>1 DEF StillOwed, Range
      <3> QED
        BY <2>1, <3>1, <3>2
    <2>4. \A i \in 1..Len(outstanding') : outstanding'[i] \in owed' \cup {pushes'}
      <3> SUFFICES ASSUME NEW i \in 1..Len(outstanding')
                   PROVE  outstanding'[i] \in owed' \cup {pushes'}
        OBVIOUS
      <3>1. i \in 1..Len(outstanding) \/ i = Len(outstanding) + 1
        BY <1>a, <1>e, <2>1
      <3>2. CASE i \in 1..Len(outstanding)
        <4>1. outstanding'[i] = outstanding[i]
          BY <1>a, <1>e, <2>1, <3>2
        <4> QED
          BY <2>2, <3>2, <4>1
      <3>3. CASE i = Len(outstanding) + 1
        BY <1>a, <1>e, <2>1, <3>3
      <3> QED
        BY <3>1, <3>2, <3>3
    <2> QED
      BY <2>1, <2>3, <2>4
  <1>6. CASE NothingToPush \/ AwaitResult \/ AwaitTimeout \/ Prompt \/ Quit \/ ConnectionLost
    BY <1>6, <1>t DEF NothingToPush, AwaitResult, AwaitTimeout, Prompt, Quit, ConnectionLost
  <1>7. CASE SessionKilled \/ SessionRestart
    BY <1>7, <1>e DEF SessionKilled, SessionRestart
  <1>8. CASE DeviceAnswers
    <2>1. /\ outstanding' = Tail(outstanding) /\ outstanding # <<>>
          /\ inbox' = <<>> \/ inbox' = Append(inbox, outstanding[1])
          /\ outstanding[1] \in Nat
          /\ UNCHANGED <<session, owed, pushes>>
      BY <1>8 DEF DeviceAnswers
    <2>2. /\ Len(outstanding') = Len(outstanding) - 1
          /\ \A i \in 1..Len(outstanding') : outstanding'[i] = outstanding[i + 1]
      BY <2>1
    <2>3. outstanding' \in Seq(Nat) /\ inbox' \in Seq(Nat)
      <3>1. Tail(outstanding) \in Seq(Nat)
        BY <1>e, <1>t, <2>1
      <3>2. Append(inbox, outstanding[1]) \in Seq(Nat)
        BY <1>e, <1>a, <2>1
      <3> QED
        BY <1>e, <2>1, <3>1, <3>2
    <2>4. 1 \in 1..Len(outstanding) /\ \A i \in 1..Len(outstanding') : i + 1 \in 1..Len(outstanding)
      BY <2>1, <2>2
    <2>5. \A i \in 1..Len(inbox') : inbox'[i] = outstanding[1] \/ (i \in 1..Len(inbox) /\ inbox'[i] = inbox[i])
      <3>1. CASE inbox' = <<>>
        BY <3>1
      <3>2. CASE inbox' = Append(inbox, outstanding[1])
        BY <1>a, <1>e, <2>1, <3>2
      <3> QED
        BY <2>1, <3>1, <3>2
    <2> QED
      BY <2>1, <2>2, <2>3, <2>4, <2>5
  <1>9. CASE CompilerBeside
    BY <1>9 DEF CompilerBeside
  <1> QED
    BY <1>1, <1>2, <1>3, <1>4, <1>5, <1>6, <1>7, <1>8, <1>9 DEF Next, SessionStep

\* Every step of the session or of the compiler keeps the whole invariant.
LEMMA LoopInvStep ==
    ASSUME LoopInv, [Next]_vars
    PROVE  LoopInv'
  BY LoopStepIsCompilers, CompilerStepKept, SessionInvStep, OwnAnswersStep DEF LoopInv

\* With at most one process that uses the cache, the invariant holds initially.
LEMMA LoopInitInv ==
    ASSUME Init, MaxCaching <= 1
    PROVE  LoopInv
  <1>1. CompilerInv
    BY CompilerInitInv DEF Init
  <1>2. SessionInv /\ OwnAnswers
    BY IntentAssumption DEF Init, SessionInv, OwnAnswers
  <1> QED
    BY <1>1, <1>2 DEF LoopInv

-----------------------------------------------------------------------------
(* Theorems.                                                               *)

\* The inductive invariant of the session and the compiler under it.
THEOREM LoopInvariant == MaxCaching <= 1 => (Spec => []LoopInv)
  <1> SUFFICES ASSUME MaxCaching <= 1 PROVE Spec => []LoopInv
    OBVIOUS
  <1>1. Init => LoopInv
    BY LoopInitInv
  <1>2. LoopInv /\ [Next]_vars => LoopInv'
    BY LoopInvStep
  <1> QED
    BY <1>1, <1>2, PTL DEF Spec

\* compile_rust_to_wasm returns the module of the source it was given,
\* whatever runs beside it, is killed or cleared, for every number of threads,
\* as long as one process uses the cache directory.
THEOREM CompileReturnsOwnModule == MaxCaching <= 1 => (Spec => []OwnModule)
  <1>1. LoopInv => OwnModule
    BY CompilerInvGives DEF LoopInv
  <1> QED
    BY <1>1, LoopInvariant, PTL

\* Nothing but the whole module of its key is ever in the content cache, at
\* whatever step the process that fills it dies.
THEOREM CacheStaysHonest == MaxCaching <= 1 => (Spec => []CacheHonest)
  <1>1. LoopInv => CacheHonest
    BY CompilerInvGives DEF LoopInv
  <1> QED
    BY <1>1, LoopInvariant, PTL

\* What an earlier compile left behind, a torn lib.rs or another source's
\* target, never makes a good source fail.
THEOREM GoodSourcesCompile == MaxCaching <= 1 => (Spec => []GoodSourceCompiles)
  <1>1. LoopInv => GoodSourceCompiles
    BY CompilerInvGives DEF LoopInv
  <1> QED
    BY <1>1, LoopInvariant, PTL

\* cmd_run pushes the module of the code the language model gave last.
THEOREM SessionPushesLatestCode == MaxCaching <= 1 => (Spec => PushesLatestCode)
  <1> USE CompilerAssumption, IntentAssumption
  <1>1. LoopInv /\ [Next]_vars => [pushes' # pushes => wasm = code /\ code \notin Bad]_vars
    <2> SUFFICES ASSUME LoopInv, Next, pushes' # pushes PROVE wasm = code /\ code \notin Bad
      OBVIOUS
    <2>1. Push
      <3> USE DEF sent, loopVars
      <3>1. ~(AskDiscovery \/ ReadManifest \/ ManifestTimeout \/ Generate \/ StartCompile)
        BY DEF AskDiscovery, ReadManifest, ManifestTimeout, Generate, StartCompile
      <3>2. ~(CompileReturned \/ CompileFailed \/ Fix \/ CompileBroken \/ NothingToPush)
        BY DEF CompileReturned, CompileFailed, Fix, CompileBroken, NothingToPush
      <3>4. ~(AwaitResult \/ AwaitTimeout \/ ConnectionLost)
        BY DEF AwaitResult, AwaitTimeout, ConnectionLost
      <3>3. ~(Prompt \/ Quit \/ SessionKilled \/ SessionRestart \/ DeviceAnswers \/ CompilerBeside)
        BY DEF Prompt, Quit, SessionKilled, SessionRestart, DeviceAnswers, CompilerBeside
      <3> QED
        BY <3>1, <3>2, <3>3, <3>4 DEF Next, SessionStep
    <2> QED
      BY <2>1 DEF Push, LoopInv, SessionInv
  <1> QED
    BY <1>1, LoopInvariant, PTL DEF Spec, PushesLatestCode

\* A result reported for a push is that push's, or of a request the device had
\* not answered by then: what had arrived before a reset_input is not reported.
THEOREM SessionReportsOwnResult == MaxCaching <= 1 => (Spec => ReportIsOwn)
  <1>1. LoopInv /\ [Next]_vars => [report' # report => report' = pushes \/ report' \in owed]_vars
    <2> SUFFICES ASSUME LoopInv, Next, report' # report PROVE report' = pushes \/ report' \in owed
      OBVIOUS
    <2>1. AwaitResult
      <3> USE DEF sent, loopVars
      <3>1. ~(AskDiscovery \/ ReadManifest \/ ManifestTimeout \/ Generate \/ StartCompile)
        BY DEF AskDiscovery, ReadManifest, ManifestTimeout, Generate, StartCompile
      <3>2. ~(CompileReturned \/ CompileFailed \/ Fix \/ CompileBroken \/ NothingToPush)
        BY DEF CompileReturned, CompileFailed, Fix, CompileBroken, NothingToPush
      <3>4. ~(Push \/ AwaitTimeout \/ ConnectionLost)
        BY DEF Push, AwaitTimeout, ConnectionLost
      <3>3. ~(Prompt \/ Quit \/ SessionKilled \/ SessionRestart \/ DeviceAnswers \/ CompilerBeside)
        BY DEF Prompt, Quit, SessionKilled, SessionRestart, DeviceAnswers, CompilerBeside
      <3> QED
        BY <3>1, <3>2, <3>3, <3>4 DEF Next, SessionStep
    <2>2. inbox # <<>> /\ inbox \in Seq(Nat) /\ session = "await"
      BY <2>1 DEF AwaitResult, LoopInv, OwnAnswers
    <2>3. 1 \in 1..Len(inbox) /\ inbox[1] \in owed \cup {pushes} /\ Head(inbox) = inbox[1]
      BY <2>2 DEF LoopInv, OwnAnswers
    <2> QED
      BY <2>1, <2>3 DEF AwaitResult
  <1> QED
    BY <1>1, LoopInvariant, PTL DEF Spec, ReportIsOwn

=============================================================================
