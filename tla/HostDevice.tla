----------------------------- MODULE HostDevice -----------------------------
(***************************************************************************)
(* The host's end of MILO-Link: MiloDevice (host/devices/device.py) over a *)
(* MiloTransport (host/core/transport.py), one thread that calls one       *)
(* method at a time.  The receiver is what Executor promises and Receiver  *)
(* does, seen from the wire: requests are handled in order, a status or    *)
(* discovery request is answered at once, a module is refused at once or   *)
(* answered later, accepted modules in order of submission.                *)
(***************************************************************************)
EXTENDS Naturals, Sequences, SequencesExt

CONSTANTS
    Settings,    \* the programs and receivers to check: a subset of Setting
    MaxCalls     \* bound: calls a program makes

Methods == {"push", "hot_swap", "push_async", "wait_result", "stop",
            "query_status", "set_param", "discover"}
SyncLoads == {"push", "hot_swap"}
Retries == 3     \* request_discovery's default

\* The methods the program calls, whether its reads may time out between
\* frames and inside one, and whether the receiver knows the control opcodes:
\* the Pico's loop knows only DISCOVERY and BYTECODE_PUSH.
Setting == [calls : SUBSET Methods, timeouts : BOOLEAN, cuts : BOOLEAN, extended : BOOLEAN]

ASSUME HostAssumption ==
    /\ Settings \subseteq Setting
    /\ MaxCalls \in Nat

VARIABLES
    setting,     \* the program and the receiver, fixed at the start
    toDev,       \* frames on their way to the receiver
    toHost,      \* frames on their way to the host, and the rests of cut ones
    modules,     \* receiver: modules accepted and not yet answered
    waiting,     \* the opcode the host's read waits for, "none" outside reads
    current,     \* the call being served: its number and method
    attempt,     \* request_discovery's attempt
    pending,     \* self._pending_results
    calls,       \* history: calls made
    emitted,     \* history: results the receiver has written
    returned     \* history: what each call returned

devVars == <<modules, emitted>>
hostVars == <<waiting, current, attempt, pending, calls, returned>>
vars == <<setting, toDev, toHost, devVars, hostVars>>

NoCall == [id |-> 0, method |-> "none"]
CutFrame == [kind |-> "cut", id |-> 0]

Extended == setting.extended

Init ==
    /\ setting \in Settings
    /\ toDev = <<>>
    /\ toHost = <<>>
    /\ modules = <<>>
    /\ waiting = "none"
    /\ current = NoCall
    /\ attempt = 0
    /\ pending = <<>>
    /\ calls = 0
    /\ emitted = <<>>
    /\ returned = <<>>

-----------------------------------------------------------------------------
(* The receiver.                                                           *)

\* Handle the oldest request; the Pico runs a module before it reads on.
DeviceHandle ==
    /\ toDev # <<>>
    /\ Extended \/ modules = <<>>
    /\ toDev' = Tail(toDev)
    /\ LET f == Head(toDev)
       IN  \/ /\ f.kind = "discovery" \/ (f.kind = "status" /\ Extended)
              /\ toHost' = Append(toHost, f)
              /\ UNCHANGED devVars
           \/ /\ f.kind = "set_param" /\ Extended
              /\ UNCHANGED <<toHost, devVars>>
           \/ /\ f.kind \in {"status", "set_param", "swap"} /\ ~Extended
              /\ toHost' = Append(toHost, [kind |-> "result", id |-> f.id])
              /\ emitted' = Append(emitted, f.id)
              /\ UNCHANGED modules
           \/ /\ f.kind = "module" \/ (f.kind = "swap" /\ Extended)
              /\ modules' = Append(modules, f.id)
              /\ UNCHANGED <<toHost, emitted>>
           \/ /\ f.kind \in {"module", "swap"}     \* authorize_module refuses it
              /\ toHost' = Append(toHost, [kind |-> "result", id |-> f.id])
              /\ emitted' = Append(emitted, f.id)
              /\ UNCHANGED modules
    /\ UNCHANGED <<setting, hostVars>>

\* The oldest accepted module is answered.
DeviceResult ==
    /\ modules # <<>>
    /\ modules' = Tail(modules)
    /\ toHost' = Append(toHost, [kind |-> "result", id |-> Head(modules)])
    /\ emitted' = Append(emitted, Head(modules))
    /\ UNCHANGED <<setting, toDev, hostVars>>

-----------------------------------------------------------------------------
(* The host's methods.                                                     *)

Begin(m) ==
    /\ waiting = "none"
    /\ m \in setting.calls
    /\ calls < MaxCalls
    /\ calls' = calls + 1

Send(kind) == toDev' = Append(toDev, [kind |-> kind, id |-> calls + 1])

Return(id) ==
    /\ returned' = Append(returned, [call |-> current, id |-> id])
    /\ waiting' = "none"
    /\ current' = NoCall

Await(kind, m) ==
    /\ waiting' = kind
    /\ current' = [id |-> calls + 1, method |-> m]

\* Mutant: hot_swap returns without waiting for its result.
SyncLoadNoWait ==
    /\ \/ Begin("push") /\ Await("result", "push") /\ Send("module")
       \/ Begin("hot_swap") /\ Send("swap") /\ UNCHANGED <<waiting, current>>
    /\ UNCHANGED <<toHost, setting, devVars, attempt, pending, returned>>

\* push, push_signed, hot_swap, hot_swap_signed: send, then wait_result().
SyncLoad ==
    /\ \E m \in SyncLoads :
          /\ Begin(m)
          /\ Await("result", m)
          /\ Send(IF m = "push" THEN "module" ELSE "swap")
    /\ UNCHANGED <<toHost, setting, devVars, attempt, pending, returned>>

PushAsync ==
    /\ Begin("push_async")
    /\ Send("module")
    /\ UNCHANGED <<toHost, setting, devVars, waiting, current, attempt, pending, returned>>

WaitResult ==
    /\ Begin("wait_result")
    /\ Await("result", "wait_result")
    /\ UNCHANGED <<toDev, toHost, setting, devVars, attempt, pending, returned>>

\* Mutant: stop and query wait for an EXEC_RESULT.
StatusCallWrongOpcode ==
    /\ \E m \in {"stop", "query_status"} : Begin(m) /\ Await("result", m)
    /\ Send("status")
    /\ UNCHANGED <<toHost, setting, devVars, attempt, pending, returned>>

\* stop() and query_status(): both are answered by a STATUS_RESPONSE.
StatusCall ==
    /\ \E m \in {"stop", "query_status"} : Begin(m) /\ Await("status", m)
    /\ Send("status")
    /\ UNCHANGED <<toHost, setting, devVars, attempt, pending, returned>>

SetParam ==
    /\ Begin("set_param")
    /\ Send("set_param")
    /\ UNCHANGED <<toHost, setting, devVars, waiting, current, attempt, pending, returned>>

Discover ==
    /\ Begin("discover")
    /\ Await("discovery", "discover")
    /\ Send("discovery")
    /\ attempt' = 1
    /\ UNCHANGED <<toHost, setting, devVars, pending, returned>>

-----------------------------------------------------------------------------
(* The reads.  A timeout inside a frame drops what was read of it, and the *)
(* next read_frame takes the rest for a header.  Payloads are JSON and far *)
(* shorter than 2^24: a cut in the payload, or after two bytes or more of  *)
(* the header, makes a length far beyond what will come, and the read      *)
(* swallows whatever arrives until it times out in turn; a cut after the   *)
(* opcode makes the opcode 0, which nobody waits for, and a length of some *)
(* 256 times the frame's.                                                  *)

Readable == toHost # <<>> /\ Head(toHost) # CutFrame

\* Mutant: the newest stashed result first.
PendingResultNewest ==
    /\ waiting = "result"
    /\ pending # <<>>
    /\ Return(Last(pending))
    /\ pending' = Front(pending)
    /\ UNCHANGED <<toDev, toHost, setting, devVars, attempt, calls>>

\* wait_result(): the pending queue first.
PendingResult ==
    /\ waiting = "result"
    /\ pending # <<>>
    /\ Return(Head(pending))
    /\ pending' = Tail(pending)
    /\ UNCHANGED <<toDev, toHost, setting, devVars, attempt, calls>>

\* Mutant: stop and query take whatever frame comes next as their reply.
ReadRoutedAny ==
    /\ waiting \in {"result", "status"}
    /\ waiting = "result" => pending = <<>>
    /\ Readable
    /\ toHost' = Tail(toHost)
    /\ Return(Head(toHost).id)
    /\ UNCHANGED <<toDev, setting, devVars, attempt, pending, calls>>

\* Mutant: a stray result is skipped like any other stray frame.
ReadRoutedDrops ==
    /\ waiting \in {"result", "status"}
    /\ waiting = "result" => pending = <<>>
    /\ Readable
    /\ toHost' = Tail(toHost)
    /\ LET f == Head(toHost)
       IN  \/ f.kind = waiting /\ Return(f.id)
           \/ f.kind # waiting /\ UNCHANGED <<waiting, current, returned>>
    /\ UNCHANGED <<toDev, setting, devVars, attempt, pending, calls>>

\* One iteration of _read_routed: the wanted frame is returned, a stray
\* result is stashed, any other stray frame is skipped.
ReadRouted ==
    /\ waiting \in {"result", "status"}
    /\ waiting = "result" => pending = <<>>
    /\ Readable
    /\ toHost' = Tail(toHost)
    /\ LET f == Head(toHost)
       IN  \/ /\ f.kind = waiting
              /\ Return(f.id)
              /\ UNCHANGED pending
           \/ /\ f.kind # waiting
              /\ pending' = IF f.kind = "result" THEN Append(pending, f.id) ELSE pending
              /\ UNCHANGED <<waiting, current, returned>>
    /\ UNCHANGED <<toDev, setting, devVars, attempt, calls>>

\* request_discovery asks again, or gives up and returns None.
RetryDiscovery ==
    \/ /\ attempt < Retries
       /\ attempt' = attempt + 1
       /\ toDev' = Append(toDev, [kind |-> "discovery", id |-> current.id])
       /\ UNCHANGED <<waiting, current, returned>>
    \/ /\ attempt = Retries
       /\ attempt' = 0
       /\ Return(0)
       /\ UNCHANGED toDev

\* request_discovery reads one frame per attempt and discards it unless it is
\* a DISCOVERY.
ReadDiscovery ==
    /\ waiting = "discovery"
    /\ Readable
    /\ toHost' = Tail(toHost)
    /\ LET f == Head(toHost)
       IN  \/ f.kind = "discovery" /\ Return(f.id) /\ attempt' = 0 /\ UNCHANGED toDev
           \/ f.kind # "discovery" /\ RetryDiscovery
    /\ UNCHANGED <<setting, devVars, pending, calls>>

\* The stream after a timeout: as it was, or in the middle of the next frame.
AfterTimeout ==
    IF toHost = <<>> THEN {toHost}
    ELSE IF Head(toHost) = CutFrame THEN {<<>>, <<CutFrame>>}
    ELSE {toHost} \cup (IF setting.cuts THEN {<<CutFrame>> \o Tail(toHost)} ELSE {})

\* A read times out: discovery tries again, the others raise TimeoutError.
Timeout ==
    /\ setting.timeouts
    /\ \/ /\ waiting \in {"result", "status"}
          /\ waiting = "result" => pending = <<>>
          /\ waiting' = "none"
          /\ current' = NoCall
          /\ UNCHANGED <<toDev, attempt, returned>>
       \/ /\ waiting = "discovery"
          /\ RetryDiscovery
    /\ toHost' \in AfterTimeout
    /\ UNCHANGED <<setting, devVars, pending, calls>>

\* The read behind a frame cut after its opcode: it swallows the frames that
\* follow, one by one, and returns a frame of opcode 0 once it has its length, in
\* the middle of another frame or between two.
SkipBogus ==
    LET rest == Tail(Tail(toHost))
    IN  /\ setting.timeouts
        /\ waiting # "none"
        /\ waiting = "result" => pending = <<>>
        /\ Len(toHost) > 1 /\ Head(toHost) = CutFrame
        /\ \/ /\ toHost' = <<CutFrame>> \o rest
              /\ UNCHANGED <<toDev, waiting, current, attempt, returned>>
           \/ /\ toHost' \in {rest, <<CutFrame>> \o rest}
              /\ \/ waiting = "discovery" /\ RetryDiscovery
                 \/ /\ waiting # "discovery"
                    /\ UNCHANGED <<toDev, waiting, current, attempt, returned>>
        /\ UNCHANGED <<setting, devVars, pending, calls>>

-----------------------------------------------------------------------------
DeviceNext == DeviceHandle \/ DeviceResult
ReadNext == PendingResult \/ ReadRouted \/ ReadDiscovery \/ Timeout \/ SkipBogus
CallNext ==
    SyncLoad \/ PushAsync \/ WaitResult \/ StatusCall \/ SetParam \/ Discover

Next == CallNext \/ ReadNext \/ DeviceNext

Spec == Init /\ [][Next]_vars

\* The receiver answers and the host's thread runs; nobody has to call.
FairSpec == Spec /\ WF_vars(DeviceNext) /\ WF_vars(ReadNext)

-----------------------------------------------------------------------------
(* Properties.                                                             *)

\* The ids of those elements of a sequence that are in K, in order.
Ids(s, K) ==
    LET ids[n \in 0..Len(s)] ==
            IF n = 0 THEN <<>>
            ELSE IF s[n] \in K THEN Append(ids[n - 1], s[n].id) ELSE ids[n - 1]
    IN  ids[Len(s)]

\* The results among the frames still on their way to the host.
ResultFrame == [kind : {"result"}, id : Nat]
InFlight == Ids(toHost, ResultFrame)

\* The results that calls have returned, oldest first.
Waits == SyncLoads \cup {"wait_result"}
ReturnedResult == [call : [id : Nat, method : Waits], id : Nat]
Collected == Ids(returned, ReturnedResult)

\* Each result the receiver writes is returned by one wait, is stashed, or is
\* still on the wire, and they stay in the order they were written, calls that
\* time out included: a result that interleaves with a stop or a query is not
\* lost (device.py:66-71).  Only discover() discards results, and a read that
\* times out inside a frame.
ResultsKept ==
    "discover" \notin setting.calls /\ ~setting.cuts
        => emitted = Collected \o pending \o InFlight

\* Results are never repeated or reordered, with late replies, timeouts and
\* retried discoveries too, and frames cut by a timeout: whatever the host has
\* of them is in the order the receiver wrote them.
ResultsNotReordered ==
    LET rs == Collected \o pending \o InFlight
        Written(id) == CHOOSE k \in DOMAIN emitted : emitted[k] = id
    IN  \A i, k \in DOMAIN rs : i < k => Written(rs[i]) < Written(rs[k])

\* stop() and query_status() return the reply to their own request, whatever
\* results arrive in between, unless an earlier one gave up on its reply.
StatusRepliesMatch ==
    ~setting.timeouts => \A i \in DOMAIN returned :
        returned[i].call.method \in {"stop", "query_status"}
            => returned[i].id = returned[i].call.id

\* push() and hot_swap() return the result of the module they sent ("Push
\* Wasm bytecode and wait for execution result", device.py:100).
LoadReturnsOwnResult ==
    \A i \in DOMAIN returned :
        returned[i].call.method \in SyncLoads
            => returned[i].id = returned[i].call.id

\* Programs that leave no result outstanding when they push: no push_async, no
\* read given up, no opcode that the receiver answers with a result.
Synchronous ==
    /\ setting.calls \cap {"push_async", "discover"} = {}
    /\ ~setting.timeouts
    /\ Extended

\* In such a program every push() and hot_swap() returns its own module's
\* result, refused modules and stops and queries in between included.
SyncLoadReturnsOwn == Synchronous => LoadReturnsOwnResult

\* A stop, a query or a load that has begun returns, or raises: stray results
\* never starve it, nor does the rest of a frame that an earlier read cut (a
\* wait_result with nothing outstanding may wait for ever).
CallsReturn ==
    (Extended /\ waiting # "none" /\ current.method # "wait_result")
        ~> (waiting = "none")

=============================================================================
