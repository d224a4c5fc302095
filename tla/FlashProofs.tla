----------------------------- MODULE FlashProofs -----------------------------
(***************************************************************************)
(* `milo init` and `milo download`, for any set of boards, ports, families *)
(* and releases, and boards re-plugged at any moment: what the cache holds *)
(* is whole, and what is written to a board is for its chip, but for the   *)
(* exceptions the properties name.                                         *)
(*                                                                         *)
(* The argument about the cache is about the .part file: it belongs to one *)
(* process as long as the downloads of a variant do not overlap.  The one  *)
(* about the boards carries what the probe saw to the moment of the write: *)
(* a backend on the bus has seen a board of the chip whose firmware it     *)
(* writes, though it may be gone and another in its place; the tools that  *)
(* are given the port are also given the chip.                             *)
(***************************************************************************)
EXTENDS Flash, TLAPS

Steps == {"idle", "scan", "next", "confirm", "probe", "manifest", "connect", "body", "rename",
          "flash", "verify", "done", "dry_run", "offline", "killed", "crashed"}
Flashes == [variant : Variants \cup {"none"}, file : Files]

TypeInv ==
    /\ flashed \in [Boards -> Flashes]
    /\ cache \in [Variants -> Files] /\ part \in [Variants -> Files]
    /\ at \in [Procs -> Steps]
    /\ variant \in [Procs -> Variants \cup {"none", "stm32"}]
    /\ fd \in [Procs -> {"part", "cache", "gone"}]
    /\ \A p \in Procs : at[p] \in {"connect", "body", "rename"} => variant[p] \in Variants

\* p has begun to download v, and not yet replaced the cached file.
Downloads(p, v) == at[p] \in {"body", "rename"} /\ variant[p] = v

\* Without an overlap the .part file is that of the one process: it is there
\* when the process has it open, and complete when it is renamed.
PartInv(v) ==
    /\ \A p, q \in Procs : Downloads(p, v) /\ Downloads(q, v) => p = q
    /\ \A p \in Procs : at[p] = "body" /\ variant[p] = v =>
          fd[p] = "part" \/ (fd[p] = "gone" /\ part[v] = "absent")
    /\ v \notin cut =>
          /\ cache[v] # "torn"
          /\ \A p \in Procs : at[p] = "rename" /\ variant[p] = v => part[v] # "torn"

FileInv == TypeInv /\ \A v \in Variants \ overlap : PartInv(v)

\* Where init has probed a port; has found the firmware for it.
Found == {"connect", "body", "rename", "flash"}
Probed == Found \cup {"manifest"}

\* A board of chip v on the bus of family f, seen since the probe.
SawOnBus(f, v) ==
    Backend[f] \in OnBus => v = "stm32" \/ \E c \in window : Family[c] = f /\ Variant[c] = v

BoardInv ==
    /\ at["init"] \in Probed => SawOnBus(family[target], variant["init"])
    /\ at["init"] \in Found => variant["init"] \in Released

-----------------------------------------------------------------------------
(* The cache.                                                              *)

\* All that is neither Connect, Body nor Rename.
QuietStep ==
    \/ StartInit \/ (\E port \in Ports : Scan(port) \/ NextTarget(port))
    \/ (\E b \in Boards : Replug(b))
    \/ Targets \/ InitDone \/ Confirm \/ Probe \/ FetchManifest \/ FindFirmware
    \/ FlashBoard \/ PicotoolHangs \/ StartDownload \/ Verify
    \/ (\E p \in Procs : Kill(p)) \/ UNCHANGED vars

\* What a probe may report, and what a backend on the bus has then seen.
LEMMA ProbeSees ==
    ASSUME NEW port, NEW f, NEW v \in ProbeFinds(port, f)
    PROVE  /\ v \in Variants \cup {"stm32"}
           /\ Backend[f] \in OnBus =>
                 v = "stm32" \/ \E c \in Attached : Family[c] = f /\ Variant[c] = v
  BY DEF ProbeFinds, Variants, InBoot, Peers, AtPort, On, Attached, Speaks, OnBus

\* The boards a flash may write: on a bus any of the family, at a port only one
\* of the chip that the firmware is for.
LEMMA ReachesWho ==
    ASSUME NEW port, NEW f, NEW v, NEW b \in Reaches(port, f, v)
    PROVE  b \in Boards /\ (Variant[b] = v \/ (Family[b] = f /\ Bus(b)))
  <1>1. CASE Backend[f] \in OnBus
    <2>1. b \in Boards /\ Speaks(b, f)
      BY <1>1 DEF Reaches, InBoot, Rebootable, Peers, AtPort, On, Attached, OnBus
    <2> QED
      BY <1>1, <2>1 DEF Speaks, Bus
  <1>2. CASE Backend[f] \notin OnBus
    BY <1>2 DEF Reaches, AtPort, On, OnBus
  <1> QED
    BY <1>1, <1>2

\* A quiet step leaves files alone and begins no download.
LEMMA QuietFiles ==
    ASSUME TypeInv, QuietStep
    PROVE  /\ UNCHANGED <<cache, part, fd, cut, overlap>>
           /\ at' \in [Procs -> Steps]
           /\ \A p \in Procs : at'[p] \in {"body", "rename"} =>
                 at'[p] = at[p] /\ variant'[p] = variant[p]
           /\ \A p \in Procs : at[p] = "connect" /\ at'[p] = "connect" => variant'[p] = variant[p]
  <1> USE DEF QuietStep, TypeInv, Procs, At, Go, Skip, Uncaught, fileVars, histVars, procVars, vars,
              Over
  <1>1. UNCHANGED <<cache, part, fd, cut, overlap>>
    BY DEF StartInit, Scan, NextTarget, Replug, Targets, InitDone, Confirm, Probe, FetchManifest,
           FindFirmware, FlashBoard, PicotoolHangs, StartDownload, Verify, Kill
  <1>2. at' \in [Procs -> Steps]
    BY DEF Steps, StartInit, Scan, NextTarget, Replug, Targets, InitDone, Confirm, Probe,
           FetchManifest, FindFirmware, FlashBoard, PicotoolHangs, StartDownload, Verify, Kill
  <1>3. \A p \in Procs : at'[p] \in {"body", "rename"} => at'[p] = at[p] /\ variant'[p] = variant[p]
    BY DEF StartInit, Scan, NextTarget, Replug, Targets, InitDone, Confirm, Probe, FetchManifest,
           FindFirmware, FlashBoard, PicotoolHangs, StartDownload, Verify, Kill
  <1>4. \A p \in Procs : at[p] = "connect" /\ at'[p] = "connect" => variant'[p] = variant[p]
    BY DEF StartInit, Scan, NextTarget, Replug, Targets, InitDone, Confirm, Probe, FetchManifest,
           FindFirmware, FlashBoard, PicotoolHangs, StartDownload, Verify, Kill
  <1> QED
    BY <1>1, <1>2, <1>3, <1>4

\* What a flash does to the boards: it writes one that it reaches, or none.
LEMMA FlashWrites ==
    ASSUME TypeInv, BoardInv, FlashBoard
    PROVE  /\ flashed' \in [Boards -> Flashes]
           /\ \A b \in Boards : Written(b) =>
                 /\ b \in Reaches(target, family[target], variant["init"])
                 /\ flashed'[b].variant = variant["init"]
  <1> DEFINE v == variant["init"]
             R == Reaches(target, family[target], v)
  <1>1. v \in Variants /\ {cache[v], "torn"} \subseteq Files
    BY FlashAssumption DEF FlashBoard, At, BoardInv, Found, TypeInv, Files
  <1>2. R \subseteq Boards
    BY ReachesWho
  <1>3. \/ flashed' = flashed
        \/ \E b \in R, file \in {cache[v], "torn"} :
              flashed' = [flashed EXCEPT ![b] = [variant |-> v, file |-> file]]
    BY DEF FlashBoard, boardVars
  <1> HIDE DEF v, R
  <1>4. CASE flashed' = flashed
    BY <1>4 DEF TypeInv, Written
  <1>5. CASE flashed' # flashed
    <2>1. PICK b \in R, file \in {cache[v], "torn"} :
             flashed' = [flashed EXCEPT ![b] = [variant |-> v, file |-> file]]
      BY <1>3, <1>5
    <2>2. [variant |-> v, file |-> file] \in Flashes /\ b \in Boards
      BY <1>1, <1>2 DEF Flashes
    <2>3. flashed' \in [Boards -> Flashes]
      BY <2>1, <2>2 DEF TypeInv
    <2>4. flashed'[b] = [variant |-> v, file |-> file] /\ \A c \in Boards \ {b} : flashed'[c] = flashed[c]
      BY <2>1, <2>2 DEF TypeInv
    <2>5. flashed'[b].variant = v
      BY <2>4
    <2> QED
      BY <2>3, <2>4, <2>5 DEF Written, R, v
  <1> QED
    BY <1>4, <1>5 DEF v, R

\* Only a flash writes a board.
LEMMA OthersWriteNone ==
    ASSUME QuietStep \/ (\E p \in Procs : ProcStep(p)), ~FlashBoard
    PROVE  flashed' = flashed
  BY DEF QuietStep, ProcStep, Connect, Body, Rename, StartInit, Scan, NextTarget, Replug, Targets,
         InitDone, Confirm, Probe, FetchManifest, FindFirmware, PicotoolHangs, StartDownload, Verify,
         Kill, vars, boardVars

\* The type invariant under a quiet step.
LEMMA QuietType ==
    ASSUME TypeInv, BoardInv, QuietStep
    PROVE  TypeInv'
  <1> USE FlashAssumption
  <1>0. /\ UNCHANGED <<cache, part, fd, cut, overlap>> /\ at' \in [Procs -> Steps]
        /\ \A p \in Procs : at'[p] \in {"body", "rename"} => at'[p] = at[p] /\ variant'[p] = variant[p]
        /\ \A p \in Procs : at[p] = "connect" /\ at'[p] = "connect" => variant'[p] = variant[p]
    BY QuietFiles
  <1>1. flashed' \in [Boards -> Flashes]
    BY FlashWrites, OthersWriteNone DEF TypeInv
  <1>2. /\ variant' \in [Procs -> Variants \cup {"none", "stm32"}]
        /\ \A p \in Procs : at[p] # "connect" /\ at'[p] = "connect" => variant'[p] \in Variants
    <2>1. CASE Probe
      <3>1. variant' = variant \/ \E v \in Variants \cup {"stm32"} : variant' = [variant EXCEPT !["init"] = v]
        BY <2>1, ProbeSees DEF Probe
      <3>2. at' \in {[at EXCEPT !["init"] = "next"], [at EXCEPT !["init"] = "manifest"]}
        BY <2>1 DEF Probe, Skip, Go
      <3> QED
        BY <3>1, <3>2, SMTT(20) DEF TypeInv, Procs
    <2>2. CASE StartDownload
      BY <2>2 DEF StartDownload, TypeInv, Procs, Go
    <2>3. CASE FindFirmware
      BY <2>3 DEF FindFirmware, TypeInv, Procs, Go, Skip, At
    <2>4. CASE ~Probe /\ ~StartDownload /\ ~FindFirmware
      BY <2>4 DEF QuietStep, TypeInv, Procs, StartInit, Scan, NextTarget, Replug, Targets, InitDone,
           Confirm, FetchManifest, FlashBoard, PicotoolHangs, Verify, Kill, vars, procVars, Go, Skip, Uncaught
    <2> QED
      BY <2>1, <2>2, <2>3, <2>4
  <1> QED
    BY <1>0, <1>1, <1>2 DEF TypeInv, Variants, Flashes, Procs, Steps, Files

\* A quiet step keeps what is known of the files.
LEMMA QuietFileInv ==
    ASSUME FileInv, BoardInv, QuietStep
    PROVE  FileInv'
  <1>1. TypeInv'
    BY QuietType DEF FileInv
  <1>2. /\ UNCHANGED <<cache, part, fd, cut, overlap>>
        /\ \A p \in Procs : at'[p] \in {"body", "rename"} => at'[p] = at[p] /\ variant'[p] = variant[p]
    BY QuietFiles DEF FileInv
  <1>3. \A v \in Variants \ overlap : PartInv(v)'
    BY <1>2 DEF FileInv, PartInv, Downloads, Procs
  <1> QED
    BY <1>1, <1>2, <1>3 DEF FileInv, Variants

\* urlopen and open(tmp, "wb"), or the URLError that removes the .part file.
LEMMA ConnectFileInv ==
    ASSUME FileInv, NEW p \in Procs, Connect(p)
    PROVE  FileInv'
  <1> DEFINE w == variant[p]
  <1> USE DEF FileInv
  <1>0. /\ at[p] = "connect" /\ w \in Variants /\ TypeInv
        /\ UNCHANGED <<flashed, cache, variant, cut>>
    BY DEF Connect, At, TypeInv, boardVars, initVars
  <1>1. CASE /\ part' = [part EXCEPT ![w] = "torn"]
             /\ fd' = [fd EXCEPT ![p] = "part"]
             /\ overlap' = IF \E q \in Procs \ {p} : at[q] \in {"body", "rename"} /\ variant[q] = w
                           THEN overlap \cup {w} ELSE overlap
             /\ at' = [at EXCEPT ![p] = "body"]
    <2> HIDE DEF w
    <2>1. TypeInv'
      BY <1>0, <1>1 DEF TypeInv, Files, Steps, Flashes, Variants, w
    <2>2. ASSUME NEW v \in Variants \ overlap' PROVE PartInv(v)'
      <3>0. PartInv(v)
        BY <1>1, <2>2
      <3>1. CASE v # w
        BY <1>0, <1>1, <3>0, <3>1 DEF PartInv, Downloads, TypeInv, w
      <3>2. CASE v = w
        <4>1. \A q \in Procs \ {p} : ~Downloads(q, v)
          BY <1>1, <2>2, <3>2 DEF Downloads
        <4>2. \A q \in Procs \ {p} : at'[q] = at[q] /\ variant'[q] = variant[q]
          BY <1>0, <1>1 DEF TypeInv
        <4> QED
          BY <1>0, <1>1, <3>0, <3>2, <4>1, <4>2 DEF PartInv, Downloads, TypeInv
      <3> QED
        BY <3>1, <3>2
    <2> QED
      BY <2>1, <2>2 DEF Variants
  <1>2. CASE /\ part' = [part EXCEPT ![w] = "absent"]
             /\ fd' = [q \in Procs |-> IF q \in Writers(w) THEN "gone" ELSE fd[q]]
             /\ at' = [at EXCEPT ![p] = IF p = "init" THEN "next" ELSE "idle"]
             /\ UNCHANGED overlap
    <2> HIDE DEF w
    <2>1. TypeInv'
      BY <1>0, <1>2 DEF TypeInv, Files, Steps, Flashes, Variants, w
    <2>2. ASSUME NEW v \in Variants \ overlap PROVE PartInv(v)'
      <3>0. PartInv(v)
        BY <2>2
      <3>1. \A q \in Procs : at'[q] \in {"body", "rename"} => at'[q] = at[q]
        BY <1>0, <1>2 DEF TypeInv
      <3> QED
        BY <1>0, <1>2, <3>0, <3>1 DEF PartInv, Downloads, TypeInv, Writers
    <2> QED
      BY <1>2, <2>1, <2>2 DEF Variants
  <1>3. CASE at' = [at EXCEPT ![p] = "crashed"] /\ UNCHANGED <<part, fd, overlap>>
    <2>1. TypeInv'
      BY <1>0, <1>3 DEF TypeInv, Files, Steps, Flashes, Variants
    <2>2. \A q \in Procs : at'[q] \in {"body", "rename"} => at'[q] = at[q]
      BY <1>0, <1>3 DEF TypeInv
    <2>3. \A v \in Variants \ overlap : PartInv(v)'
      BY <1>0, <1>3, <2>2 DEF PartInv, Downloads
    <2> QED
      BY <1>3, <2>1, <2>3 DEF Variants
  <1> QED
    BY <1>1, <1>2, <1>3 DEF Connect, Go, Raise, Uncaught

\* The body arrives, ends early or fails.
LEMMA BodyFileInv ==
    ASSUME FileInv, NEW p \in Procs, Body(p)
    PROVE  FileInv'
  <1> DEFINE w == variant[p]
  <1> USE DEF FileInv
  <1>0. /\ at[p] = "body" /\ w \in Variants /\ TypeInv
        /\ UNCHANGED <<flashed, variant, fd, overlap>>
    BY DEF Body, At, TypeInv, boardVars, initVars
  <1>1. ASSUME NEW file \in {"whole", "torn"},
               part' = [part EXCEPT ![w] = IF fd[p] = "part" THEN file ELSE @],
               cache' = [cache EXCEPT ![w] = IF fd[p] = "cache" THEN file ELSE @],
               at' = [at EXCEPT ![p] = "rename"],
               IF file = "torn" THEN cut' = cut \cup {w} ELSE cut' = cut
        PROVE  FileInv'
    <2> HIDE DEF w
    <2>1. TypeInv'
      <3>1. part' \in [Variants -> Files] /\ cache' \in [Variants -> Files]
        BY <1>0, <1>1 DEF TypeInv, Files
      <3> QED
        BY <1>0, <1>1, <3>1 DEF TypeInv, Steps, Flashes, Variants, w, Files
    <2>2. ASSUME NEW v \in Variants \ overlap PROVE PartInv(v)'
      <3>0. PartInv(v)
        BY <2>2
      <3>1. \A q \in Procs : Downloads(q, v)' = Downloads(q, v)
        BY <1>0, <1>1 DEF Downloads, TypeInv
      <3>2. CASE v # w
        <4>1. part'[v] = part[v] /\ cache'[v] = cache[v] /\ (v \in cut' => v \in cut)
          BY <1>0, <1>1, <3>2 DEF TypeInv
        <4>2. \A q \in Procs : variant[q] = v => at'[q] = at[q]
          BY <1>0, <1>1, <3>2 DEF TypeInv, w
        <4> QED
          BY <1>0, <1>1, <3>0, <3>1, <4>1, <4>2 DEF PartInv
      <3>3. CASE v = w
        <4>1. \A q \in Procs \ {p} : ~Downloads(q, v)
          BY <1>0, <3>0, <3>3 DEF PartInv, Downloads, w
        <4>2. \A q \in Procs : at'[q] # "body" \/ variant[q] # v
          BY <1>0, <1>1, <3>3, <4>1 DEF TypeInv, Downloads, w
        <4>3. fd[p] = "part" \/ (fd[p] = "gone" /\ part[v] = "absent")
          BY <1>0, <3>0, <3>3 DEF PartInv, w
        <4>4. v \notin cut' => cache'[v] # "torn" /\ part'[v] # "torn"
          BY <1>0, <1>1, <3>0, <3>3, <4>3 DEF PartInv, TypeInv
        <4> QED
          BY <1>0, <3>0, <3>1, <4>2, <4>4 DEF PartInv
      <3> QED
        BY <3>2, <3>3
    <2> QED
      BY <1>0, <2>1, <2>2 DEF Variants
  <1>2. CASE at' = [at EXCEPT ![p] = "crashed"] /\ UNCHANGED <<fileVars, cut>>
    <2>1. TypeInv'
      BY <1>0, <1>2 DEF TypeInv, Files, Steps, Flashes, Variants, fileVars
    <2>2. \A q \in Procs : at'[q] \in {"body", "rename"} => at'[q] = at[q]
      BY <1>0, <1>2 DEF TypeInv
    <2>3. \A v \in Variants \ overlap : PartInv(v)'
      BY <1>0, <1>2, <2>2 DEF PartInv, Downloads, fileVars
    <2> QED
      BY <1>0, <2>1, <2>3 DEF Variants
  <1> QED
    BY <1>1, <1>2 DEF Body, Go, Uncaught

\* os.replace(tmp, dest).
LEMMA RenameFileInv ==
    ASSUME FileInv, NEW p \in Procs, Rename(p)
    PROVE  FileInv'
  <1> DEFINE w == variant[p]
  <1> USE DEF FileInv
  <1>0. /\ at[p] = "rename" /\ w \in Variants /\ TypeInv
        /\ UNCHANGED <<flashed, variant, cut, overlap>>
    BY DEF Rename, At, TypeInv, boardVars, initVars, histVars
  <1>1. CASE at' = [at EXCEPT ![p] = "crashed"] /\ UNCHANGED <<fileVars, fd>>
    <2>1. TypeInv'
      BY <1>0, <1>1 DEF TypeInv, Files, Steps, Flashes, Variants, fileVars
    <2>2. \A q \in Procs : at'[q] \in {"body", "rename"} => at'[q] = at[q]
      BY <1>0, <1>1 DEF TypeInv
    <2>3. \A v \in Variants \ overlap : PartInv(v)'
      BY <1>0, <1>1, <2>2 DEF PartInv, Downloads, fileVars
    <2> QED
      BY <1>0, <2>1, <2>3 DEF Variants
  <1>2. CASE /\ cache' = [cache EXCEPT ![w] = part[w]]
             /\ part' = [part EXCEPT ![w] = "absent"]
             /\ fd' = [q \in Procs |-> IF q \in Writers(w) THEN "cache" ELSE fd[q]]
             /\ at' = [at EXCEPT ![p] = IF p = "init" THEN "flash" ELSE "verify"]
    <2> HIDE DEF w
    <2>1. TypeInv'
      <3>1. part' \in [Variants -> Files] /\ cache' \in [Variants -> Files]
        BY <1>0, <1>2 DEF TypeInv, Files
      <3> QED
        BY <1>0, <1>2, <3>1 DEF TypeInv, Steps, Flashes, Variants, Files, w
    <2>2. ASSUME NEW v \in Variants \ overlap PROVE PartInv(v)'
      <3>0. PartInv(v)
        BY <2>2
      <3>1. \A q \in Procs : at'[q] \in {"body", "rename"} => at'[q] = at[q]
        BY <1>0, <1>2 DEF TypeInv
      <3>2. CASE v # w
        <4>1. part'[v] = part[v] /\ cache'[v] = cache[v]
          BY <1>0, <1>2, <3>2 DEF TypeInv
        <4>2. \A q \in Procs : variant[q] = v => fd'[q] = fd[q]
          BY <1>2, <3>2 DEF Writers
        <4> QED
          BY <1>0, <3>0, <3>1, <4>1, <4>2 DEF PartInv, Downloads
      <3>3. CASE v = w
        <4>1. \A q \in Procs \ {p} : ~Downloads(q, v)
          BY <1>0, <3>0, <3>3 DEF PartInv, Downloads, w
        <4>2. \A q \in Procs : ~Downloads(q, v)'
          BY <1>0, <1>2, <3>1, <4>1 DEF Downloads, TypeInv
        <4>3. v \notin cut => cache'[v] # "torn"
          BY <1>0, <1>2, <3>0, <3>3 DEF PartInv, TypeInv, w
        <4> QED
          BY <1>0, <4>2, <4>3 DEF PartInv, Downloads
      <3> QED
        BY <3>2, <3>3
    <2> QED
      BY <1>0, <2>1, <2>2 DEF Variants
  <1> QED
    BY <1>1, <1>2 DEF Rename, Go, Uncaught

-----------------------------------------------------------------------------
(* The boards.                                                             *)

\* Steps that leave init's target and what was probed of it alone.
LEMMA BoardFrame ==
    ASSUME BoardInv, UNCHANGED <<family, target>>, window \subseteq window',
           variant'["init"] = variant["init"],
           at'["init"] \in Probed => at["init"] \in Probed,
           at'["init"] \in Found => at["init"] \in Found
    PROVE  BoardInv'
  BY DEF BoardInv, SawOnBus, OnBus

\* Nothing between the probe and the write forgets what the probe saw.
LEMMA BoardStep ==
    ASSUME TypeInv, BoardInv, QuietStep \/ (\E p \in Procs : ProcStep(p))
    PROVE  BoardInv'
  <1> USE DEF Procs, At, Go, Skip, Uncaught, Raise, Found, Probed
  <1>0. "init" \in Procs /\ at = [p \in Procs |-> at[p]] /\ variant = [p \in Procs |-> variant[p]]
    BY DEF TypeInv
  <1>1. CASE Probe
    <2>1. CASE variant' = variant /\ at' = [at EXCEPT !["init"] = "next"]
      BY <1>0, <2>1 DEF BoardInv
    <2>2. CASE ~(variant' = variant /\ at' = [at EXCEPT !["init"] = "next"])
      <3>1. PICK v \in ProbeFinds(target, family[target]) :
               variant' = [variant EXCEPT !["init"] = v] /\ at' = [at EXCEPT !["init"] = "manifest"]
        BY <1>1, <2>2 DEF Probe
      <3>2. UNCHANGED <<target, family>> /\ window' = Attached
        BY <1>1 DEF Probe, initVars
      <3>3. variant'["init"] = v /\ at'["init"] = "manifest"
        BY <1>0, <3>1
      <3>4. SawOnBus(family[target], variant["init"])'
        BY <3>2, <3>3, ProbeSees DEF SawOnBus, OnBus
      <3> QED
        BY <3>3, <3>4 DEF BoardInv
    <2> QED
      BY <2>1, <2>2
  <1>2. CASE FindFirmware
    <2>1. UNCHANGED <<family, target, window, variant>> /\ at["init"] = "manifest"
      BY <1>2 DEF FindFirmware, initVars, histVars
    <2>2. at'["init"] \in Found => variant["init"] \in Released
      BY <1>0, <1>2 DEF FindFirmware
    <2> QED
      BY <2>1, <2>2 DEF BoardInv, SawOnBus
  <1>3. CASE StartInit \/ Targets \/ (\E port \in Ports : Scan(port) \/ NextTarget(port))
    <2>1. at'["init"] \in {"scan", "next", "dry_run", "confirm", "crashed"}
      BY <1>0, <1>3 DEF StartInit, Targets, Scan, NextTarget
    <2> QED
      BY <2>1 DEF BoardInv
  <1>4. CASE \E b \in Boards : Replug(b)
    <2>1. UNCHANGED <<family, target, variant, at>> /\ window \subseteq window'
      BY <1>4 DEF Replug, initVars, procVars
    <2> QED
      BY <2>1, BoardFrame
  <1>5. CASE \/ InitDone \/ Confirm \/ FetchManifest \/ FlashBoard \/ PicotoolHangs
             \/ StartDownload \/ Verify \/ (\E p \in Procs : Kill(p)) \/ UNCHANGED vars
    <2>1. UNCHANGED <<family, target, window>>
      BY <1>5 DEF InitDone, Confirm, FetchManifest, FlashBoard, PicotoolHangs, StartDownload, Verify,
                  Kill, vars, initVars, histVars
    <2>2. /\ variant'["init"] = variant["init"]
          /\ at'["init"] \in Probed => at["init"] \in Probed
          /\ at'["init"] \in Found => at["init"] \in Found
      BY <1>0, <1>5 DEF InitDone, Confirm, FetchManifest, FlashBoard, PicotoolHangs, StartDownload,
                  Verify, Kill, vars, procVars
    <2> QED
      BY <2>1, <2>2, BoardFrame
  <1>6. CASE \E p \in Procs : ProcStep(p)
    <2>1. UNCHANGED <<family, target, window, variant>>
      BY <1>6 DEF ProcStep, Connect, Body, Rename, initVars, histVars
    <2>2. at'["init"] \in Found => at["init"] \in Found
      BY <1>0, <1>6 DEF ProcStep, Connect, Body, Rename
    <2>3. at'["init"] \in Probed => at["init"] \in Probed
      BY <1>0, <1>6 DEF ProcStep, Connect, Body, Rename
    <2> QED
      BY <2>1, <2>2, <2>3, BoardFrame
  <1> QED
    BY <1>1, <1>2, <1>3, <1>4, <1>5, <1>6 DEF QuietStep

-----------------------------------------------------------------------------
(* The results.                                                            *)

\* The two halves need each other: that a target's variant is one of the
\* release's keeps the files typed.
FlashInv == FileInv /\ BoardInv

\* Both hold at the start.
LEMMA InitFlashInv == Init => FlashInv
  <1> SUFFICES ASSUME Init PROVE FlashInv
    OBVIOUS
  <1>1. TypeInv
    <2>1. flashed \in [Boards -> Flashes]
      <3>1. Blank \in Flashes /\ \A v \in Variants : Firmware(v) \in Flashes
        BY DEF Blank, Firmware, Flashes, Files
      <3> QED
        BY <3>1 DEF Init
    <2> QED
      BY <2>1 DEF Init, TypeInv, Steps, Files, Procs
  <1>2. \A v \in Variants \ overlap : PartInv(v)
    BY DEF Init, PartInv, Downloads, Procs
  <1>3. BoardInv
    BY DEF Init, BoardInv, Probed, Found, Procs
  <1> QED
    BY <1>1, <1>2, <1>3 DEF FlashInv, FileInv

\* Every step of either process keeps them.
LEMMA NextFlashInv == FlashInv /\ [Next]_vars => FlashInv'
  <1> SUFFICES ASSUME FlashInv, [Next]_vars PROVE FlashInv'
    OBVIOUS
  <1> USE DEF FlashInv
  <1>t. TypeInv
    BY DEF FileInv
  <1>0. BoardInv' \/ ~(QuietStep \/ \E p \in Procs : ProcStep(p))
    BY <1>t, BoardStep
  <1>1. CASE \E p \in Procs : ProcStep(p)
    BY <1>0, <1>1, ConnectFileInv, BodyFileInv, RenameFileInv DEF ProcStep
  <1>2. CASE QuietStep
    BY <1>0, <1>2, QuietFileInv
  <1>3. QuietStep \/ \E p \in Procs : ProcStep(p)
    BY DEF Next, InitStep, DownloadStep, QuietStep, Procs
  <1> QED
    BY <1>1, <1>2, <1>3

\* The invariant of the two processes, the files and the boards.
THEOREM FlashInvariant == Spec => []FlashInv
  BY InitFlashInv, NextFlashInv, PTL DEF Spec

\* However the downloads interleave, fail, are killed or run again, the cached
\* file of a variant is whole, unless a short transfer was taken for complete
\* or two processes downloaded the variant at once.
THEOREM CacheStaysWhole == Spec => []CacheWhole
  <1>1. FlashInv => CacheWhole
    BY DEF FlashInv, FileInv, PartInv, CacheWhole
  <1> QED
    BY <1>1, FlashInvariant, PTL

\* For any boards, families and ports, and boards re-plugged at any moment: a
\* board is written with firmware for its own chip, or its backend looks at the
\* bus and has seen a board of the other chip there since the probe
\* (init_cmd.py:115-147, rp2040.py:54-64, stm32.py:72-83).
THEOREM WritesOnlyTheVariant == Spec => WritesOwnVariant
  <1> DEFINE Right == \A b \in Boards : Written(b) =>
                         flashed'[b].variant = Variant[b] \/ Mistakable(b, flashed'[b].variant)
  <1>1. ASSUME FlashInv, [Next]_vars, NEW b \in Boards, Written(b)
        PROVE  flashed'[b].variant = Variant[b] \/ Mistakable(b, flashed'[b].variant)
    <2> DEFINE v == variant["init"]
    <2>1. QuietStep \/ \E p \in Procs : ProcStep(p)
      BY <1>1 DEF Next, InitStep, DownloadStep, QuietStep, Procs
    <2>2. FlashBoard
      BY <1>1, <2>1, OthersWriteNone DEF Written
    <2>3. b \in Reaches(target, family[target], v) /\ flashed'[b].variant = v
      BY <1>1, <2>2, FlashWrites DEF FlashInv, FileInv
    <2>4. SawOnBus(family[target], v) /\ v # "stm32"
      BY <1>1, <2>2, FlashAssumption DEF FlashInv, BoardInv, FlashBoard, At, Found, Probed
    <2> HIDE DEF v
    <2>5. Variant[b] = v \/ (Family[b] = family[target] /\ Bus(b))
      BY <2>3, ReachesWho
    <2> QED
      BY <2>3, <2>4, <2>5 DEF SawOnBus, Mistakable, Bus
  <1>2. FlashInv /\ [Next]_vars => [Right]_vars
    BY <1>1
  <1> QED
    BY <1>2, FlashInvariant, PTL DEF Spec, WritesOwnVariant

=============================================================================
