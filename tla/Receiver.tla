------------------------------ MODULE Receiver ------------------------------
(***************************************************************************)
(* The simulated receiver (main.rs --listen): main_loop_with_policy        *)
(* (receiver/src/lib.rs) over a TcpServerTransport (transport/mod.rs) and  *)
(* a ThreadedExecutor.  The host sends whole frames; how bytes become      *)
(* frames is below this model.  The host holds one connection at a time,   *)
(* may close it at any moment and open the next one.                       *)
(*                                                                         *)
(* One action per opcode handler.  A handler that calls the executor more  *)
(* than once (hot swap: stop, submit, poll; push: submit, poll; query:     *)
(* status, is_running) is one action per call, since the worker runs in    *)
(* between.                                                                *)
(***************************************************************************)
EXTENDS ThreadedExecutor

CONSTANT
    Workloads    \* the security policy to start under, the frames the host
                 \* may send, and bounds: how many of them it ever sends, and
                 \* how many connections it ever opens; in a steady one, frames
                 \* that get no reply come beside these without end

VARIABLES
    workload,    \* the workload, fixed at start-up
    loop,        \* where the main loop is between two calls of the executor;
                 \* "dead" once it has panicked and the process is gone
    loading,     \* the module a hot swap has authorised and not yet submitted
    params,      \* PARAM_SLOTS
    seenStatus,  \* the status QUERY_STATUS read before it reads is_running
    client,      \* TcpServerTransport.client: a connection number, 0 for None
    accepted,    \* connections taken from the listener so far
    hostConn,    \* the connection the host holds open, 0 for none
    conns,       \* connections the host has opened so far
    inbox,       \* per connection: frames sent and not yet read
    outbox,      \* per connection: replies that reached the host
    sent,        \* history: frames the host has sent
    loaded       \* history: the frame that loaded each submitted module

loopVars == <<workload, loop, loading, seenStatus, loaded, params>>
hostVars == <<hostConn, conns, sent>>
recvVars == <<loopVars, hostVars, client, accepted, inbox, outbox>>
vars == <<execVars, recvVars>>

Conns == UNION {1..w.conns : w \in Workloads}
NoConn == 0

\* Payloads, by what the receiver can tell apart: raw wasm, a signature over
\* wasm by the trusted key, or a wrong or missing signature; and whether all
\* function imports are in the alphabet, or the module is cut off within them.
Payload == [wrap : {"raw", "signed", "forged"}, imports : {"allowed", "foreign", "cut"}]
LoadOps == {"push", "signed_push", "hot_swap", "signed_swap"}
ControlOps == {"discovery", "stop", "query", "other"}
NumSlots == 8
\* A SET_PARAM payload under 8 bytes is "short"; the slot is a u32 of the wire.
ParamFrame == [op : {"set_param"}, short : BOOLEAN, slot : Nat, value : Nat]
Frame == [op : LoadOps, payload : Payload] \cup [op : ControlOps] \cup ParamFrame

\* The policies main.rs can build from the environment.
AnyPolicy == {[key |-> FALSE, require |-> FALSE],
              [key |-> TRUE,  require |-> FALSE],
              [key |-> TRUE,  require |-> TRUE]}

ASSUME ReceiverAssumption ==
    \A w \in Workloads :
        /\ w.policy \in AnyPolicy
        /\ w.most \in 0..MaxJobs
        /\ w.conns \in Nat
        /\ w.steady \in BOOLEAN
        /\ \A f \in w.frames : f \in Frame

policy == workload.policy      \* SecurityPolicy
Frames == workload.frames

\* verify_signed (Ed25519, external to this model): only "signed" verifies.
VerifySigned(p) == p.wrap = "signed"

IsSigned(f) == f.op \in {"signed_push", "signed_swap"}

\* Mutant: require_signed is enforced for pushes and forgotten for swaps.
PolicyAdmitsSwaps(f) ==
    IF IsSigned(f) THEN policy.key /\ VerifySigned(f.payload)
                   ELSE policy.require => f.op = "hot_swap"

\* authorize_module up to the import whitelist: the signature when the opcode
\* says signed, else no module under require_signed.
PolicyAdmits(f) ==
    IF IsSigned(f) THEN policy.key /\ VerifySigned(f.payload) ELSE ~policy.require

\* The bytes that would run are scanned, but for a signed or forged payload
\* taken as raw wasm, which fails the magic number.
Scanned(f) == IsSigned(f) \/ f.payload.wrap = "raw"

\* authorize_module: the policy, then the whitelist of validate_wasm_imports.
AuthorizeModule(f) == PolicyAdmits(f) /\ Scanned(f) /\ f.payload.imports = "allowed"

\* The scan of a module that is cut off indexes past its end.
ScanOverruns(f) == PolicyAdmits(f) /\ Scanned(f) /\ f.payload.imports = "cut"

-----------------------------------------------------------------------------
Init ==
    /\ ExecInit
    /\ workload \in Workloads
    /\ loop = "read"
    /\ loading = <<>>
    /\ params = [s \in 0..NumSlots - 1 |-> 0]
    /\ seenStatus = "Idle"
    /\ client = NoConn
    /\ accepted = 0
    /\ hostConn = NoConn
    /\ conns = 0
    /\ inbox = [c \in Conns |-> <<>>]
    /\ outbox = [c \in Conns |-> <<>>]
    /\ sent = 0
    /\ loaded = <<>>

-----------------------------------------------------------------------------
(* The host's end of the connection.                                       *)

HostConnect ==
    /\ loop # "dead"
    /\ hostConn = NoConn
    /\ conns < workload.conns
    /\ conns' = conns + 1
    /\ hostConn' = conns + 1
    /\ UNCHANGED <<execVars, loopVars, client, accepted, inbox, outbox, sent>>

HostClose ==
    /\ hostConn # NoConn
    /\ hostConn' = NoConn
    /\ UNCHANGED <<execVars, loopVars, client, accepted, conns, inbox, outbox, sent>>

HostSend ==
    /\ hostConn # NoConn
    /\ sent < workload.most
    /\ sent' = sent + 1
    /\ \E f \in Frames : inbox' = [inbox EXCEPT ![hostConn] = Append(@, f)]
    /\ UNCHANGED <<execVars, loopVars, client, accepted, hostConn, conns, outbox>>

\* A steady stream of SET_PARAM frames, which has no end.  Bound: one at a
\* time is on its way.
HostStream ==
    /\ workload.steady
    /\ hostConn # NoConn
    /\ inbox[hostConn] = <<>>
    /\ \E f \in Frames :
          /\ f.op = "set_param"
          /\ inbox' = [inbox EXCEPT ![hostConn] = Append(@, f)]
    /\ UNCHANGED <<execVars, loopVars, hostVars, client, accepted, outbox>>

-----------------------------------------------------------------------------
(* The transport.                                                          *)

\* ensure_client: take the next connection from the listener.
Accept ==
    /\ loop = "read" /\ call = "none"
    /\ client = NoConn
    /\ accepted < conns
    /\ client' = accepted + 1
    /\ accepted' = accepted + 1
    /\ UNCHANGED <<execVars, loopVars, hostVars, inbox, outbox>>

\* write_frame, whose error the main loop ignores.  A write to a connection
\* the host has closed may still succeed, into nothing, or fail and drop it.
WriteFrame(reply) ==
    \/ /\ client # NoConn /\ client = hostConn
       /\ outbox' = [outbox EXCEPT ![client] = Append(@, reply)]
       /\ UNCHANGED client
    \/ /\ client # NoConn /\ client # hostConn
       /\ client' \in {client, NoConn}
       /\ UNCHANGED outbox
    \/ /\ client = NoConn
       /\ UNCHANGED <<client, outbox>>

\* read_frame found a complete frame f of one of the opcodes ops; it is consumed.
ReadFrame(ops, f) ==
    /\ loop = "read" /\ call = "none"
    /\ client # NoConn
    /\ inbox[client] # <<>>
    /\ f = Head(inbox[client])
    /\ f.op \in ops
    /\ inbox' = [inbox EXCEPT ![client] = Tail(@)]
    /\ UNCHANGED <<workload, accepted, hostVars>>

\* poll_result() answers None: a module runs, or all is answered.
NothingToPoll == IsRunning \/ submitted = Len(taken)

\* read_frame returned Err: no client, or nothing more to read for now.
IdleGap ==
    /\ loop = "read" /\ call = "none"
    /\ client = NoConn => accepted = conns
    /\ client # NoConn => inbox[client] = <<>>

\* read_frame read 0 bytes, or an error: the host closed.  The client is
\* dropped, and the poll_result of the same iteration loses what it pops.
ClientGone ==
    /\ loop = "read" /\ call = "none"
    /\ client # NoConn /\ client # hostConn
    /\ client' = NoConn
    /\ PollResult \/ (NothingToPoll /\ UNCHANGED execVars)
    /\ UNCHANGED <<loopVars, hostVars, accepted, inbox, outbox>>

-----------------------------------------------------------------------------
(* The opcode handlers of main_loop_with_policy.                           *)

ResultFrame(r) == [op |-> "result", job |-> r.job, outcome |-> r.outcome]

Discovery ==
    /\ \E f \in Frames : ReadFrame({"discovery"}, f)
    /\ WriteFrame([op |-> "discovery"])
    /\ UNCHANGED <<params, execVars, loop, loading, seenStatus, loaded>>

UnknownOpcode ==
    /\ \E f \in Frames : ReadFrame({"other"}, f)
    /\ WriteFrame([op |-> "result", job |-> NoJob, outcome |-> "error"])
    /\ UNCHANGED <<params, execVars, loop, loading, seenStatus, loaded>>

\* SET_PARAM never replies; a short payload and a slot out of range change
\* nothing.
SetParam ==
    /\ \E f \in Frames :
          /\ ReadFrame({"set_param"}, f)
          /\ params' = IF ~f.short /\ f.slot < NumSlots
                       THEN [params EXCEPT ![f.slot] = f.value] ELSE params
    /\ UNCHANGED <<execVars, loop, loading, seenStatus, loaded, client, outbox>>

HandleStop ==
    /\ \E f \in Frames : ReadFrame({"stop"}, f)
    /\ Stop
    /\ WriteFrame([op |-> "status", stopped |-> TRUE])
    /\ UNCHANGED <<params, loop, loading, seenStatus, loaded>>

\* QUERY_STATUS calls status() and then is_running().
QueryStatus ==
    /\ \E f \in Frames : ReadFrame({"query"}, f)
    /\ seenStatus' = StatusNow
    /\ loop' = "query"
    /\ UNCHANGED <<params, execVars, loading, loaded, client, outbox>>

QueryRunning ==
    /\ loop = "query"
    /\ loop' = "read"
    /\ WriteFrame([op |-> "status", status |-> seenStatus, running |-> IsRunning])
    /\ UNCHANGED <<params, execVars, workload, loading, seenStatus, loaded, hostVars, accepted, inbox>>

\* Mutant: the swap handler stops the running module before it authorises.
RejectModuleStops ==
    /\ \E f \in Frames : ReadFrame(LoadOps, f) /\ ~AuthorizeModule(f) /\ ~ScanOverruns(f)
    /\ Stop
    /\ WriteFrame([op |-> "result", job |-> NoJob, outcome |-> "error"])
    /\ UNCHANGED <<params, loop, loading, seenStatus, loaded>>

\* A push or a swap that authorize_module refuses.
RejectModule ==
    /\ \E f \in Frames : ReadFrame(LoadOps, f) /\ ~AuthorizeModule(f) /\ ~ScanOverruns(f)
    /\ WriteFrame([op |-> "result", job |-> NoJob, outcome |-> "error"])
    /\ UNCHANGED <<params, execVars, loop, loading, seenStatus, loaded>>

\* The scan runs on the main thread: its panic ends the process, and the worker
\* with it.
ScanPanics ==
    /\ \E f \in Frames : ReadFrame(LoadOps, f) /\ ScanOverruns(f)
    /\ loop' = "dead"
    /\ UNCHANGED <<params, execVars, loading, seenStatus, loaded, client, outbox>>

\* exec.submit, which may block joining the previous worker.
SubmitModule(f) ==
    /\ Submit \/ SubmitOverRunning
    /\ loaded' = Append(loaded, f)
    /\ loop' = "poll"

Push ==
    /\ \E f \in Frames :
          /\ ReadFrame({"push", "signed_push"}, f)
          /\ AuthorizeModule(f)
          /\ SubmitModule(f)
    /\ UNCHANGED <<params, loading, seenStatus, client, outbox>>

\* A hot swap stops the running module, then submits the new one.
HotSwapStop ==
    /\ \E f \in Frames :
          /\ ReadFrame({"hot_swap", "signed_swap"}, f)
          /\ AuthorizeModule(f)
          /\ loading' = <<f>>
    /\ Stop
    /\ loop' = "swap"
    /\ UNCHANGED <<params, seenStatus, loaded, client, outbox>>

HotSwapSubmit ==
    /\ loop = "swap"
    /\ SubmitModule(loading[1])
    /\ loading' = <<>>
    /\ UNCHANGED <<params, workload, seenStatus, hostVars, client, accepted, inbox, outbox>>

\* submit() still blocked in the join of the previous worker.
SubmitReturns ==
    /\ SubmitJoin
    /\ UNCHANGED recvVars

\* The poll_result that ends a push or a swap, and the idle gap's.
PollAndSend ==
    /\ PollResult
    /\ WriteFrame(ResultFrame(taken'[Len(taken')]))
    /\ UNCHANGED <<params, workload, loading, seenStatus, loaded, hostVars, accepted, inbox>>

PollAfterSubmit ==
    /\ loop = "poll" /\ call = "none"
    /\ loop' = "read"
    /\ \/ PollAndSend
       \/ /\ IsRunning
          /\ UNCHANGED <<execVars, params, workload, loading, seenStatus, loaded,
                         hostVars, client, accepted, inbox, outbox>>

IdlePoll ==
    /\ IdleGap
    /\ PollAndSend
    /\ UNCHANGED loop

\* An idle gap with nothing to report: the loop goes round.
IdleNothing ==
    /\ IdleGap
    /\ NothingToPoll
    /\ UNCHANGED vars

-----------------------------------------------------------------------------
HostNext == HostConnect \/ HostClose \/ HostSend \/ HostStream

MainLoopNext ==
    \/ Accept \/ ClientGone
    \/ Discovery \/ UnknownOpcode \/ SetParam \/ HandleStop
    \/ QueryStatus \/ QueryRunning
    \/ RejectModule \/ ScanPanics \/ Push \/ HotSwapStop \/ HotSwapSubmit \/ SubmitReturns
    \/ PollAfterSubmit \/ IdlePoll \/ IdleNothing

WorkerStep == loop # "dead" /\ WorkerNext /\ UNCHANGED recvVars

\* Nothing is left to run.
Gone == loop = "dead" /\ UNCHANGED vars

Next == HostNext \/ MainLoopNext \/ WorkerStep \/ Gone

Spec == Init /\ [][Next]_vars

\* Both threads of the receiver keep running; the host owes it nothing.
FairSpec == Spec /\ WF_vars(MainLoopNext) /\ WF_vars(WorkerStep)

-----------------------------------------------------------------------------
(* Properties.                                                             *)

Replies(c) == {outbox[c][i] : i \in DOMAIN outbox[c]}

\* Under a signed-only policy only modules carrying a valid signature ever
\* reach the executor, and no policy lets a module with a foreign import
\* through, whichever of the four load opcodes it came by.
OnlyTrustedModulesRun ==
    \A j \in DOMAIN loaded :
        /\ loaded[j].payload.imports = "allowed"
        /\ policy.require => loaded[j].payload.wrap = "signed"
        /\ loaded[j].payload.wrap # "forged"

\* A module is asked to stop only by a STOP frame or by an authorised load:
\* a rejected swap leaves the running module alone.
StopOnlyOnRequest ==
    [][~simStopped /\ simStopped' =>
         \/ loop = "swap"
         \/ /\ client # NoConn
            /\ LET f == Head(inbox[client])
               IN  f.op = "stop" \/ (f.op \in LoadOps /\ AuthorizeModule(f))]_vars

\* A status reply that says running also says status "running", though the
\* two are read at different times: status() is read first, and a module
\* running at the second read was running at the first.
StatusReplyCoherent ==
    \A c \in Conns : \A r \in Replies(c) :
        ("running" \in DOMAIN r /\ r.running) => r.status = "Running"

\* Over all connections, the results that reach the host do so in submission
\* order and none twice, whatever swaps, stops and reconnects happen.
WireOrder ==
    \A c, d \in Conns : \A i \in DOMAIN outbox[c], k \in DOMAIN outbox[d] :
        LET r == outbox[c][i]
            s == outbox[d][k]
        IN  (/\ r.op = "result" /\ s.op = "result" /\ r.job # NoJob /\ s.job # NoJob
             /\ (c < d \/ (c = d /\ i < k))) => r.job < s.job

\* A module that fails, however it fails, costs nothing but its own run: the
\* next one still finds the hardware ("The worst outcome is a failed episode",
\* SECURITY.md:50).
FailureStaysLocal == \A i \in DOMAIN taken : taken[i].outcome # "nohw"

\* The host does not stream for ever.
StreamEnds == <>[][~HostStream]_vars

\* A module once loaded is answered if the frames ever leave the loop an idle
\* gap, since it runs out of fuel at the latest and read_frame then fails and
\* the loop polls.  Frames that keep coming within the read timeout would put
\* the poll off for ever, so that the stream ends is a premise; a panic of the
\* import scan, which takes the process down, is the other exception.
EveryLoadAnswered ==
    StreamEnds =>
        \A j \in 1..MaxJobs : submitted >= j ~> (Len(taken) >= j \/ loop = "dead")

\* Frames of the connection being served are all read, even while a swap
\* blocks joining the old module, unless the connection is dropped or a frame
\* before them makes the scan panic.
FramesServed ==
    \A c \in Conns :
        (client = c /\ inbox[c] # <<>>) ~> (inbox[c] = <<>> \/ client # c \/ loop = "dead")

=============================================================================
