-------------------------------- MODULE Flash --------------------------------
(***************************************************************************)
(* `milo init` (host/flash/init_cmd.py) and `milo download`                *)
(* (host/flash/download.py) beside each other, over one firmware cache and *)
(* the flash backends, while boards are plugged in, unplugged and moved to *)
(* other ports at any time.  init knows a device by its serial port.  A    *)
(* firmware file is named by its variant and is absent, torn or whole.     *)
(***************************************************************************)
EXTENDS Naturals, FiniteSets, Sequences, SequencesExt

CONSTANTS
    Boards,         \* what may be plugged in
    Ports,          \* the names serial ports get
    Variant,        \* the chip of each board
    Family,         \* the family it really is of
    Candidates,     \* candidate_families of its VID:PID, a sequence
    Backend,        \* flash_backend of each family
    Parts,          \* the variants avr.py knows, _VARIANT_TO_AVRDUDE
    Released,       \* variants the release manifest has
    Fetched,        \* those that `milo download` is run for
    MaxAttached,    \* bound: boards plugged in at once
    Workloads       \* bounds, of which a behaviour has one: the boards there are,
                    \* re-plugs, processes killed, runs of `milo download`

\* Backends that flash whatever board of theirs is in its boot loader on the
\* bus: rp2040.py looks for a volume, stm32.py for a DFU device.  esptool and
\* avrdude are given the port.  Nothing registers "bossac".
OnBus == {"uf2", "stm32loader"}
Backends == OnBus \cup {"esptool", "avrdude"}

Variants == {Variant[b] : b \in Boards} \cup Parts
Bus(b) == Family[b] \in DOMAIN Backend /\ Backend[Family[b]] \in OnBus
Procs == {"init", "download"}
Files == {"absent", "torn", "whole"}
Places == Ports \cup {"off", "boot"}
Blank == [variant |-> "none", file |-> "absent"]

\* Boards a family's tools can talk to.
Speaks(b, f) == Family[b] = f /\ f \in DOMAIN Backend /\ Backend[f] \in Backends

\* What stm32.py reports of a chip it cannot name is no variant (boards.py:92).
ASSUME FlashAssumption ==
    /\ Candidates \in [Boards -> Seq(DOMAIN Backend)]
    /\ {"off", "boot", "none"} \cap Ports = {}
    /\ "stm32" \notin Variants
    /\ Released \subseteq Variants /\ Fetched \subseteq Released
    /\ MaxAttached \in Nat
    /\ Workloads \subseteq [boards : SUBSET Boards, replugs : Nat, kills : Nat, downloads : Nat]

VARIABLES
    where,      \* each board: off, on a serial port, or boot: in its boot loader
    flashed,    \* what is in the flash of each board
    cache,      \* the firmware file of each variant
    part,       \* its .part file
    todo,       \* init: ports to look at, then ports to flash
    seen,       \* init: the board whose VID:PID was read at each port
    family,     \* init: the family picked for each port
    target,     \* init: the port being worked on
    at,         \* where each of the two processes is
    variant,    \* the variant each works on
    manifest,   \* init: the manifest has been fetched
    fd,         \* where the file is that each writes: part, cache or gone
    left,       \* what is left of the workload
    cut,        \* history: a transfer ended early and was taken for complete
    overlap,    \* history: variants both processes downloaded at once
    window      \* history: boards plugged in at any time since init's last probe

boardVars == <<where, flashed>>
fileVars == <<cache, part>>
initVars == <<todo, seen, family, target, manifest>>
procVars == <<at, variant, fd>>
histVars == <<cut, overlap, window>>
vars == <<boardVars, fileVars, initVars, procVars, left, histVars>>

Firmware(v) == [variant |-> v, file |-> "whole"]
Milo(b) == flashed[b] = Firmware(Variant[b])

Attached == {b \in Boards : where[b] # "off"}
On(port) == {b \in Boards : where[b] = port}
Free(port) == On(port) = {}

Init ==
    /\ where \in [Boards -> Places]
    /\ \A b, c \in Boards : where[b] = where[c] /\ where[b] \in Ports => b = c
    /\ \A b \in Boards : where[b] = "boot" => Bus(b)
    /\ left \in Workloads
    /\ Attached \subseteq left.boards
    /\ Cardinality(Attached) <= MaxAttached
    /\ flashed \in [Boards -> {Blank} \cup {Firmware(v) : v \in Variants}]
    /\ \A b \in Boards : flashed[b] = Blank \/ (Milo(b) /\ where[b] # "off")
    /\ cache = [v \in Variants |-> "absent"]
    /\ part = [v \in Variants |-> "absent"]
    /\ todo = {}
    /\ seen = [port \in Ports |-> "none"]
    /\ family = [port \in Ports |-> "none"]
    /\ target = "none"
    /\ at = [p \in Procs |-> "idle"]
    /\ variant = [p \in Procs |-> "none"]
    /\ manifest = FALSE
    /\ fd = [p \in Procs |-> "gone"]
    /\ cut = {}
    /\ overlap = {}
    /\ window = {}

At(p, pc) == at[p] = pc
Go(p, pc) == at' = [at EXCEPT ![p] = pc]

-----------------------------------------------------------------------------
(* What happens outside: a user plugs in, unplugs or moves a board, or     *)
(* re-plugs it with its boot button held; a process is killed.             *)

Replug(b) ==
    /\ b \in left.boards
    /\ left.replugs > 0
    /\ left' = [left EXCEPT !.replugs = @ - 1]
    /\ \E place \in Places \ {where[b]} :
          /\ place \in Ports => Free(place)
          /\ place = "boot" => Bus(b)
          /\ where[b] = "off" => Cardinality(Attached) < MaxAttached
          /\ where' = [where EXCEPT ![b] = place]
          /\ window' = IF place = "off" THEN window ELSE window \cup {b}
    /\ UNCHANGED <<flashed, fileVars, initVars, procVars, cut, overlap>>

Over == {"idle", "done", "dry_run", "offline", "killed", "crashed"}

Kill(p) ==
    /\ at[p] \notin Over
    /\ left.kills > 0
    /\ left' = [left EXCEPT !.kills = @ - 1]
    /\ Go(p, "killed")
    /\ UNCHANGED <<boardVars, fileVars, initVars, variant, fd, histVars>>

-----------------------------------------------------------------------------
(* download_firmware, by either process.                                   *)

\* An exception that nothing catches: a traceback ends the process.
Uncaught(p) == Go(p, "crashed")

\* DownloadError: init goes on to the next target, `milo download` returns 1.
Raise(p) == Go(p, IF p = "init" THEN "next" ELSE "idle")

\* The processes that have the .part file of v open.
Writers(v) == {q \in Procs : at[q] = "body" /\ variant[q] = v /\ fd[q] = "part"}

\* Mutant: no .part file: the download is opened at its final name.
ConnectInPlace(p) ==
    /\ At(p, "connect")
    /\ cache' = [cache EXCEPT ![variant[p]] = "torn"]
    /\ part' = [part EXCEPT ![variant[p]] = "torn"]
    /\ fd' = [fd EXCEPT ![p] = "part"]
    /\ Go(p, "body")
    /\ UNCHANGED <<boardVars, initVars, variant, histVars, left>>

\* urlopen, then open(tmp, "wb").  A URLError removes whatever .part there is;
\* a peer that hangs up before it answers raises none (download.py:117).
Connect(p) ==
    /\ At(p, "connect")
    /\ LET v == variant[p]
       IN  \/ /\ part' = [part EXCEPT ![v] = "torn"]
              /\ fd' = [fd EXCEPT ![p] = "part"]
              /\ overlap' = IF \E q \in Procs \ {p} : at[q] \in {"body", "rename"} /\ variant[q] = v
                            THEN overlap \cup {v} ELSE overlap
              /\ Go(p, "body")
           \/ /\ part' = [part EXCEPT ![v] = "absent"]
              /\ fd' = [q \in Procs |-> IF q \in Writers(v) THEN "gone" ELSE fd[q]]
              /\ Raise(p)
              /\ UNCHANGED overlap
           \/ Uncaught(p) /\ UNCHANGED <<part, fd, overlap>>
    /\ UNCHANGED <<boardVars, cache, initVars, variant, cut, window, left>>

\* The body: complete, ended early by the peer and taken for complete (resp.read
\* returns b"" either way), or an exception that is no URLError.
Body(p) ==
    /\ At(p, "body")
    /\ LET v == variant[p]
           Store(file) ==
              /\ part' = [part EXCEPT ![v] = IF fd[p] = "part" THEN file ELSE @]
              /\ cache' = [cache EXCEPT ![v] = IF fd[p] = "cache" THEN file ELSE @]
       IN  \/ Store("whole") /\ Go(p, "rename") /\ UNCHANGED cut
           \/ Store("torn") /\ Go(p, "rename") /\ cut' = cut \cup {v}
           \/ Uncaught(p) /\ UNCHANGED <<fileVars, cut>>
    /\ UNCHANGED <<boardVars, initVars, variant, fd, overlap, window, left>>

\* os.replace(tmp, dest); the .part may be gone.
Rename(p) ==
    /\ At(p, "rename")
    /\ LET v == variant[p]
       IN  IF part[v] = "absent"
           THEN Uncaught(p) /\ UNCHANGED <<fileVars, fd>>
           ELSE /\ cache' = [cache EXCEPT ![v] = part[v]]
                /\ part' = [part EXCEPT ![v] = "absent"]
                /\ fd' = [q \in Procs |-> IF q \in Writers(v) THEN "cache" ELSE fd[q]]
                /\ Go(p, IF p = "init" THEN "flash" ELSE "verify")
    /\ UNCHANGED <<boardVars, initVars, variant, histVars, left>>

-----------------------------------------------------------------------------
(* `milo download`.                                                        *)

StartDownload ==
    /\ at["download"] \in Over
    /\ left.downloads > 0
    /\ left' = [left EXCEPT !.downloads = @ - 1]
    /\ \E v \in Fetched : variant' = [variant EXCEPT !["download"] = v]
    /\ Go("download", "connect")
    /\ UNCHANGED <<boardVars, fileVars, initVars, fd, histVars>>

\* --verify reports a mismatch and leaves the file where it is.
Verify ==
    /\ At("download", "verify")
    /\ Go("download", "idle")
    /\ UNCHANGED <<boardVars, fileVars, initVars, variant, fd, histVars, left>>

-----------------------------------------------------------------------------
(* `milo init`: look at every device, then work through the targets.       *)

InUse == {port \in Ports : ~Free(port)}

\* All ports or the one of --port; `milo run` calls it (_maybe_autoflash) when
\* a recognised board does not answer a discovery.
StartInit ==
    /\ At("init", "idle")
    /\ InUse # {}
    /\ todo' \in {InUse} \cup {{port} : port \in InUse}
    /\ seen' = [port \in Ports |-> IF port \in InUse THEN CHOOSE b \in On(port) : TRUE ELSE "none"]
    /\ Go("init", "scan")
    /\ UNCHANGED <<boardVars, fileVars, family, target, manifest, variant, fd, histVars, left>>

\* backend.probe(port): the variants it may report; none when it may fail.
\* rp2040.py reports any board in BOOTSEL, or one picotool finds; stm32.py any
\* DFU device, or "stm32" for one it cannot name or over the UART.  avr.py
\* takes any signature for that of the part it asked for.
Peers(f) == {c \in Attached : Speaks(c, f)}
InBoot(f) == {c \in Boards : where[c] = "boot" /\ Speaks(c, f)}
AtPort(port, f) == {c \in On(port) : Speaks(c, f)}
ProbeFinds(port, f) ==
    CASE Backend[f] = "uf2" ->
            {Variant[c] : c \in IF InBoot(f) # {} THEN InBoot(f) ELSE Peers(f)}
      [] Backend[f] = "stm32loader" ->
            IF InBoot(f) \cup AtPort(port, f) = {} THEN {}
            ELSE {Variant[c] : c \in InBoot(f)} \cup {"stm32"}
      [] Backend[f] = "avrdude" -> IF AtPort(port, f) = {} THEN {} ELSE Parts
      [] OTHER -> {Variant[c] : c \in AtPort(port, f)}

\* _pick_family: the only candidate, or the first whose probe succeeds.
Picks(port) ==
    LET cs == Candidates[seen[port]]
    IN  IF Len(cs) = 1 THEN {cs[1]}
        ELSE {cs[i] : i \in {j \in DOMAIN cs :
                 Backend[cs[j]] \in Backends /\ ProbeFinds(port, cs[j]) # {}}} \cup {"none"}

\* One device: unknown, running MILO, ambiguous, or a target.  A board that
\* runs MILO may be too busy to answer within the three seconds.  The serial
\* line may fail after the port was opened, which nothing catches.
Scan(port) ==
    /\ At("init", "scan")
    /\ port \in todo
    /\ todo' = todo \ {port}
    /\ \/ /\ Candidates[seen[port]] = <<>> \/ \E b \in On(port) : Milo(b)
          /\ UNCHANGED <<family, at>>
       \/ /\ Candidates[seen[port]] # <<>>
          /\ \E f \in Picks(port) : family' = [family EXCEPT ![port] = f]
          /\ UNCHANGED at
       \/ /\ Candidates[seen[port]] # <<>>
          /\ Uncaught("init")
          /\ UNCHANGED family
    /\ UNCHANGED <<boardVars, fileVars, seen, target, manifest, variant, fd, histVars, left>>

\* Every device has been looked at: a dry run ends here.
Targets ==
    /\ At("init", "scan")
    /\ todo = {}
    /\ todo' = {port \in Ports : family[port] # "none"}
    /\ \/ Go("init", "next")
       \/ Go("init", "dry_run")
    /\ UNCHANGED <<boardVars, fileVars, seen, family, target, manifest, variant, fd, histVars, left>>

\* The end of an iteration and the choice of the next target.
NextTarget(port) ==
    /\ At("init", "next")
    /\ port \in todo
    /\ todo' = todo \ {port}
    /\ target' = port
    /\ Go("init", "confirm")
    /\ UNCHANGED <<boardVars, fileVars, seen, family, manifest, variant, fd, histVars, left>>

InitDone ==
    /\ At("init", "next")
    /\ todo = {}
    /\ Go("init", "done")
    /\ UNCHANGED <<boardVars, fileVars, initVars, variant, fd, histVars, left>>

Skip == Go("init", "next")

\* Declined, or no backend of that name.
Confirm ==
    /\ At("init", "confirm")
    /\ \/ Skip
       \/ Backend[family[target]] \in Backends /\ Go("init", "probe")
    /\ UNCHANGED <<boardVars, fileVars, initVars, variant, fd, histVars, left>>

\* Mutant: a failed probe ends `milo init`.
ProbeReturns ==
    /\ At("init", "probe")
    /\ \/ Go("init", "done") /\ UNCHANGED variant
       \/ \E v \in ProbeFinds(target, family[target]) :
             /\ variant' = [variant EXCEPT !["init"] = v]
             /\ Go("init", "manifest")
    /\ window' = Attached
    /\ UNCHANGED <<boardVars, fileVars, initVars, fd, cut, overlap, left>>

\* The probe fails, or reports a variant.
Probe ==
    /\ At("init", "probe")
    /\ \/ Skip /\ UNCHANGED variant
       \/ \E v \in ProbeFinds(target, family[target]) :
             /\ variant' = [variant EXCEPT !["init"] = v]
             /\ Go("init", "manifest")
    /\ window' = Attached
    /\ UNCHANGED <<boardVars, fileVars, initVars, fd, cut, overlap, left>>

\* fetch_manifest, once; when it fails init returns 1, targets or no targets,
\* or ends with a traceback (a read that times out is no URLError).
FetchManifest ==
    /\ At("init", "manifest")
    /\ ~manifest
    /\ \/ manifest' = TRUE /\ UNCHANGED at
       \/ Go("init", "offline") /\ UNCHANGED manifest
       \/ Uncaught("init") /\ UNCHANGED manifest
    /\ UNCHANGED <<boardVars, fileVars, todo, seen, family, target, variant, fd, histVars, left>>

\* The manifest has the variant or not; the cache has its file or not.
FindFirmware ==
    /\ At("init", "manifest")
    /\ manifest
    /\ LET v == variant["init"]
       IN  IF v \notin Released THEN Skip
           ELSE Go("init", IF cache[v] = "absent" THEN "connect" ELSE "flash")
    /\ UNCHANGED <<boardVars, fileVars, initVars, variant, fd, histVars, left>>

\* `picotool reboot -f -u` names no device: it needs that there is just one.
Rebootable(f) == {c \in Peers(f) : Peers(f) = {c}}

\* Mutant: the tools at a port are not told the chip (no --chip, a forced -p).
ReachesAnyChip(port, f, v) ==
    CASE Backend[f] = "uf2" -> IF InBoot(f) # {} THEN InBoot(f) ELSE Rebootable(f)
      [] Backend[f] = "stm32loader" -> InBoot(f) \cup AtPort(port, f)
      [] OTHER -> AtPort(port, f)

\* The boards backend.flash(port, file) may write with firmware of variant v: a
\* backend on the bus a board in its boot loader, or the one picotool reboots
\* into it, or (stm32loader) the one at the port.  esptool is told the chip and
\* avrdude the part, and they refuse any other.
Reaches(port, f, v) ==
    CASE Backend[f] = "uf2" -> IF InBoot(f) # {} THEN InBoot(f) ELSE Rebootable(f)
      [] Backend[f] = "stm32loader" -> InBoot(f) \cup AtPort(port, f)
      [] OTHER -> {b \in AtPort(port, f) : Variant[b] = v}

\* A board that was in its boot loader comes back on a serial port.
Restart(b) ==
    IF where[b] = "boot"
    THEN \E port \in Ports : Free(port) /\ where' = [where EXCEPT ![b] = port]
    ELSE UNCHANGED where

\* backend.flash: written, failed half way, or failed before the first byte.
FlashBoard ==
    /\ At("init", "flash")
    /\ LET v == variant["init"]
       IN  \/ \E b \in Reaches(target, family[target], v), file \in {cache[v], "torn"} :
                 /\ flashed' = [flashed EXCEPT ![b] = [variant |-> v, file |-> file]]
                 /\ Restart(b)
           \/ UNCHANGED boardVars
    /\ Skip
    /\ UNCHANGED <<fileVars, initVars, variant, fd, histVars, left>>

\* subprocess.run(["picotool", "reboot", ...], timeout=10) may raise
\* TimeoutExpired (rp2040.py:58), which neither flash nor init catches.
PicotoolHangs ==
    /\ At("init", "flash")
    /\ Backend[family[target]] = "uf2"
    /\ InBoot(family[target]) = {}
    /\ Uncaught("init")
    /\ UNCHANGED <<boardVars, fileVars, initVars, variant, fd, histVars, left>>

-----------------------------------------------------------------------------
ProcStep(p) == Connect(p) \/ Body(p) \/ Rename(p)
InitStep ==
    \/ \E port \in Ports : Scan(port) \/ NextTarget(port)
    \/ Targets \/ InitDone \/ Confirm \/ Probe \/ FetchManifest \/ FindFirmware
    \/ FlashBoard \/ PicotoolHangs \/ ProcStep("init")
DownloadStep == Verify \/ ProcStep("download")

Next ==
    \/ StartInit \/ InitStep
    \/ StartDownload \/ DownloadStep
    \/ \E b \in Boards : Replug(b)
    \/ \E p \in Procs : Kill(p)

Spec == Init /\ [][Next]_vars

\* `milo init` runs on: the tools it calls have time limits, the user answers.
FairSpec == Spec /\ WF_vars(InitStep)

-----------------------------------------------------------------------------
(* Properties.                                                             *)

\* The cached firmware of a variant is a whole file, also when a process is
\* killed or loses its connection, unless a transfer that ended early was
\* taken for complete or both processes downloaded that variant at once.
CacheWhole ==
    \A v \in Variants :
        v \notin cut \cup overlap => cache[v] # "torn"

Written(b) == flashed'[b] # flashed[b]

\* A board of the chip that v is for, on the bus of b's family, at any time
\* since the probe: what a backend on the bus may have taken b for.
Mistakable(b, v) == Bus(b) /\ \E c \in window : Family[c] = Family[b] /\ Variant[c] = v

\* Although boards come, go and change places between the probe, the download
\* and the write, and avr.py's probe may be wrong, a board is written with
\* firmware for its own chip; unless its backend is one on the bus, and a board
\* of the chip that the firmware is for was plugged in since the probe.
WritesOwnVariant ==
    [][\A b \in Boards : Written(b) =>
          LET v == flashed'[b].variant IN v = Variant[b] \/ Mistakable(b, v)]_vars

\* One board that is declined, fails its probe, has no firmware or fails to be
\* downloaded for or written does not keep the others from being tried: every
\* target gets its turn, unless there is no manifest (init returns 1), init is
\* killed, or an exception that init does not catch ends it: any but a URLError
\* in a download (download.py:110-119) or the manifest's (:98), or picotool's
\* TimeoutExpired (rp2040.py:58).
TargetsTried ==
    At("init", "next") ~>
        (At("init", "done") /\ todo = {}) \/ at["init"] \in {"killed", "crashed", "offline"}

=============================================================================
