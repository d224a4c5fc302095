----------------------------- MODULE StreamLoop -----------------------------
(***************************************************************************)
(* Receivers that run a module inline, on a byte stream that has no        *)
(* connections: the Pico's USB loop (main.rs, pico_entry), the --stdin     *)
(* loop over StdioTransport (main.rs, link.rs), and the ESP32-C3's         *)
(* main_loop_with_policy over EmbeddedIoTransport (transport/mod.rs).      *)
(* They differ in what they do with a frame that is too long and with the  *)
(* opcodes they do not know.  Bytes have their values, since a stream that *)
(* loses its place reads payload bytes as headers.                         *)
(***************************************************************************)
EXTENDS Naturals, FiniteSets, Sequences, SequencesExt

CONSTANTS
    Readers,       \* the receivers to model, among "pico", "stdio", "embedded"
    MaxFrameLen,   \* MAX_FRAME_LEN, scaled down
    ChunkLen,      \* the most one USB read delivers, scaled down
    Frames,        \* the frames the host sends: an opcode and payload bytes
    MaxSent        \* bound: frames the host sends

OpDiscovery == 1
OpPush == 2
OpSetParam == 8
OpHotSwap == 9
OpSignedPush == 10
OpSignedSwap == 11
HeaderLen == 5
Byte == 0..255

\* A number of four bytes.
IsU32(n) == ((n \div 256) \div 256) \div 256 < 256

ASSUME StreamAssumption ==
    /\ Readers \subseteq {"pico", "stdio", "embedded"}
    /\ MaxFrameLen \in Nat /\ MaxSent \in Nat
    /\ ChunkLen \in Nat \ {0}
    /\ Frames \subseteq [op : Byte, payload : Seq(Byte)]
    /\ \A f \in Frames : IsU32(Len(f.payload))

VARIABLES
    reader,    \* which receiver this is
    wire,      \* bytes sent and not yet read
    frameBuf,  \* frame_buf, or what the reader has of the next frame
    pc,        \* "read", "parse", "running" (inside runtime.execute), or "dead"
               \* once the loop's only thread has panicked
    replies,   \* the replies written: "discovery", "result" or "other"
    handled,   \* history: the frames the loop has dispatched
    sent       \* history: the frames the host has sent

vars == <<reader, wire, frameBuf, pc, replies, handled, sent>>

\* Frame::serialize; the length is big-endian.
Header(op, len) ==
    <<op, ((len \div 256) \div 256) \div 256, ((len \div 256) \div 256) % 256,
      (len \div 256) % 256, len % 256>>
Serialize(f) == Header(f.op, Len(f.payload)) \o f.payload

Init ==
    /\ reader \in Readers
    /\ wire = <<>>
    /\ frameBuf = <<>>
    /\ pc = "read"
    /\ replies = <<>>
    /\ handled = <<>>
    /\ sent = <<>>

HostSend ==
    /\ Len(sent) < MaxSent
    /\ \E f \in Frames : sent' = Append(sent, f) /\ wire' = wire \o Serialize(f)
    /\ UNCHANGED <<reader, frameBuf, pc, replies, handled>>

-----------------------------------------------------------------------------
(* Cutting frames out of the stream.                                       *)

\* u32::from_be_bytes of the header.
DeclaredLen(b) == ((b[2] * 256 + b[3]) * 256 + b[4]) * 256 + b[5]

HasHeader(b) == Len(b) >= HeaderLen

\* EmbeddedIoTransport reads whatever length the header declares.
TooLong(b) == reader # "embedded" /\ HasHeader(b) /\ DeclaredLen(b) > MaxFrameLen
Complete(b) == HasHeader(b) /\ ~TooLong(b) /\ Len(b) >= HeaderLen + DeclaredLen(b)

FirstFrame(b) ==
    [op |-> b[1], payload |-> SubSeq(b, HeaderLen + 1, HeaderLen + DeclaredLen(b))]

\* Mutant: the drain takes a byte too many.
RestTooFar(b) == SubSeq(b, HeaderLen + DeclaredLen(b) + 2, Len(b))
Rest(b) == SubSeq(b, HeaderLen + DeclaredLen(b) + 1, Len(b))

\* One read delivers what has arrived, at most a chunk.
ReadBytes ==
    /\ pc = "read"
    /\ \E n \in 1..ChunkLen :
          /\ n <= Len(wire)
          /\ frameBuf' = frameBuf \o SubSeq(wire, 1, n)
          /\ wire' = SubSeq(wire, n + 1, Len(wire))
    /\ pc' = "parse"
    /\ UNCHANGED <<reader, replies, handled, sent>>

\* No complete frame yet: read on.
NeedMore ==
    /\ pc = "parse"
    /\ ~Complete(frameBuf) /\ ~TooLong(frameBuf)
    /\ pc' = "read"
    /\ UNCHANGED <<reader, wire, frameBuf, replies, handled, sent>>

\* The Pico clears its buffer; the stdin loop answers with an error, having
\* consumed the header.
DropTooLong ==
    /\ pc = "parse"
    /\ TooLong(frameBuf)
    /\ \/ /\ reader = "pico"
          /\ frameBuf' = <<>>
          /\ pc' = "read"
          /\ UNCHANGED replies
       \/ /\ reader = "stdio"
          /\ frameBuf' = SubSeq(frameBuf, HeaderLen + 1, Len(frameBuf))
          /\ replies' = Append(replies, "result")
          /\ UNCHANGED pc
    /\ UNCHANGED <<reader, wire, handled, sent>>

-----------------------------------------------------------------------------
(* Dispatch.                                                               *)

\* The opcodes that load a module.
LoadOps == IF reader = "embedded" THEN {OpPush, OpHotSwap, OpSignedPush, OpSignedSwap}
                                  ELSE {OpPush}

TakeFrame ==
    /\ pc = "parse"
    /\ Complete(frameBuf)
    /\ handled' = Append(handled, FirstFrame(frameBuf))
    /\ frameBuf' = Rest(frameBuf)

HandleDiscovery ==
    /\ TakeFrame
    /\ FirstFrame(frameBuf).op = OpDiscovery
    /\ replies' = Append(replies, "discovery")
    /\ UNCHANGED <<reader, wire, pc, sent>>

\* Mutant: one frame per read; what else the read brought waits for more.
HandleOtherOnce ==
    /\ TakeFrame
    /\ FirstFrame(frameBuf).op \notin {OpDiscovery} \cup LoadOps
    /\ replies' = IF reader = "embedded" /\ FirstFrame(frameBuf).op = OpSetParam
                  THEN replies ELSE Append(replies, "other")
    /\ pc' = "read"
    /\ UNCHANGED <<reader, wire, sent>>

\* Every other opcode: the Pico and the stdin loop answer that it is
\* unexpected; of main_loop_with_policy's, only SET_PARAM has no reply.
HandleOther ==
    /\ TakeFrame
    /\ FirstFrame(frameBuf).op \notin {OpDiscovery} \cup LoadOps
    /\ replies' = IF reader = "embedded" /\ FirstFrame(frameBuf).op = OpSetParam
                  THEN replies ELSE Append(replies, "other")
    /\ UNCHANGED <<reader, wire, pc, sent>>

\* A load whose imports (or whose signature, on the ESP32) are refused.
RejectModule ==
    /\ TakeFrame
    /\ FirstFrame(frameBuf).op \in LoadOps
    /\ replies' = Append(replies, "result")
    /\ UNCHANGED <<reader, wire, pc, sent>>

StartModule ==
    /\ TakeFrame
    /\ FirstFrame(frameBuf).op \in LoadOps
    /\ pc' = "running"
    /\ UNCHANGED <<reader, wire, replies, sent>>

\* The import scan slices past the end of a module that is cut off, and
\* panics: a process that is gone, or a board that halts in its panic handler.
ScanPanics ==
    /\ TakeFrame
    /\ FirstFrame(frameBuf).op \in LoadOps
    /\ pc' = "dead"
    /\ UNCHANGED <<reader, wire, replies, sent>>

\* A syscall of the module slices the guest's memory at a wrapped range, or
\* allocates more than there is, and the panic ends the loop.
ModulePanics ==
    /\ pc = "running"
    /\ pc' = "dead"
    /\ UNCHANGED <<reader, wire, frameBuf, replies, handled, sent>>

\* execute() returns, out of fuel at the latest.
FinishModule ==
    /\ pc = "running"
    /\ pc' = "parse"
    /\ replies' = Append(replies, "result")
    /\ UNCHANGED <<reader, wire, frameBuf, handled, sent>>

-----------------------------------------------------------------------------
DeviceNext ==
    \/ ReadBytes \/ NeedMore \/ DropTooLong
    \/ HandleDiscovery \/ HandleOther \/ RejectModule \/ StartModule \/ FinishModule
    \/ ScanPanics \/ ModulePanics

Next == HostSend \/ DeviceNext

Spec == Init /\ [][Next]_vars

\* The loop never returns, and every module runs on fuel.
FairSpec == Spec /\ WF_vars(DeviceNext)

-----------------------------------------------------------------------------
(* Properties.                                                             *)

Fits(f) == reader = "embedded" \/ Len(f.payload) <= MaxFrameLen
HasReply(f) == ~(reader = "embedded" /\ f.op = OpSetParam)

\* None of the first k frames sent is too long.
InStep(k) == k <= Len(sent) /\ \A j \in 1..k : Fits(sent[j])

\* Until a frame is too long, the loop dispatches exactly the frames the host
\* sent, whole and in order, however reads cut the stream and however many
\* frames pile up behind a running module.
DispatchesAsSent ==
    \A i \in DOMAIN handled :
        (\A j \in 1..i : j \in DOMAIN sent => Fits(sent[j]))
            => i <= Len(sent) /\ handled[i] = sent[i]

\* The replies the first k frames are owed.
Owed(k) == Cardinality({j \in DOMAIN sent : j <= k /\ HasReply(sent[j])})

\* Each of these frames that has a reply gets it, and frames that arrived in
\* the same read as an earlier one do not wait for more bytes.  The exception
\* is a panic of the scan or of a module, which no loop recovers from: it costs
\* the reply of the frame that caused it and of those behind it, and no other.
EveryFrameAnswered ==
    \A k \in 1..MaxSent :
        InStep(k) ~>
            \/ Len(replies) >= Owed(k)
            \/ /\ pc = "dead"
               /\ Len(handled) <= k
               /\ Len(replies) >= Owed(Len(handled) - 1)

=============================================================================
