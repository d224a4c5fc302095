----------------------------- MODULE TcpFraming -----------------------------
(***************************************************************************)
(* How TcpServerTransport (receiver/src/transport/mod.rs) turns the bytes  *)
(* of its connections into frames: one client at a time, take_frame over   *)
(* an internal buffer, reads of at most a chunk that cut frames anywhere,  *)
(* frames that are too long, connections that close.                       *)
(* A byte is its connection, its frame's number there and its offset in    *)
(* it.  Payload lengths are scaled down, the 5-byte header is not.         *)
(***************************************************************************)
EXTENDS Naturals, Sequences

CONSTANTS
    MaxFrameLen,  \* MAX_FRAME_LEN, scaled down
    ChunkLen,     \* the 4096-byte chunk of read_frame, scaled down
    FrameLens,    \* payload lengths the hosts send
    MaxFrames,    \* bound: frames on one connection
    MaxConns      \* bound: connections

ASSUME FramingAssumption ==
    /\ MaxFrameLen \in Nat /\ MaxFrames \in Nat /\ MaxConns \in Nat
    /\ ChunkLen \in Nat \ {0}
    /\ FrameLens \subseteq Nat

Conns == 1..MaxConns

VARIABLES
    client,    \* self.client: 0 or the connection
    buf,       \* self.buf
    crashed,   \* the receiver died of the expect in read_frame
    accepted,  \* connections taken from the listener's backlog
    opened,    \* connections hosts have opened
    open,      \* connections neither end has closed
    sent,      \* per connection, payload lengths of the frames sent
    wire,      \* per connection, bytes sent and not yet read
    got        \* history: per connection, the frames read_frame returned

device == <<client, buf, crashed, accepted>>
hosts == <<opened, open, sent, wire>>
vars == <<device, hosts, got>>

HeaderLen == 5

\* Frame::serialize: the k-th frame of connection c, of payload length len.
Serialize(c, k, len) ==
    [i \in 1..(HeaderLen + len) |-> [conn |-> c, frame |-> k, at |-> i]]

\* TcpServerTransport::bind.
Init ==
    /\ client = 0
    /\ buf = <<>>
    /\ crashed = FALSE
    /\ accepted = 0
    /\ opened = 0
    /\ open = {}
    /\ sent = [c \in Conns |-> <<>>]
    /\ wire = [c \in Conns |-> <<>>]
    /\ got = [c \in Conns |-> <<>>]

-----------------------------------------------------------------------------
(* take_frame.                                                             *)

\* The length field of the header at the front of the buffer.
DeclaredLen(b) == sent[b[1].conn][b[1].frame]

\* Mutant: no check against MAX_FRAME_LEN.
OversizedNever(b) == FALSE
Oversized(b) == Len(b) >= HeaderLen /\ DeclaredLen(b) > MaxFrameLen

Complete(b) ==
    Len(b) >= HeaderLen /\ ~Oversized(b) /\ Len(b) >= HeaderLen + DeclaredLen(b)

FirstFrame(b) == SubSeq(b, 1, HeaderLen + DeclaredLen(b))

\* Mutant: drain(..len), the header is not counted.
RestPayload(b) == SubSeq(b, DeclaredLen(b) + 1, Len(b))
Rest(b) == SubSeq(b, HeaderLen + DeclaredLen(b) + 1, Len(b))

\* take_frame on the buffer b: a frame, a dropped client, or nothing yet.
TakeFrame(b) ==
    \/ /\ Complete(b)
       /\ got' = [got EXCEPT ![client] = Append(@, FirstFrame(b))]
       /\ buf' = Rest(b)
       /\ UNCHANGED <<client, open>>
    \/ /\ Oversized(b)
       /\ client' = 0
       /\ buf' = <<>>
       /\ open' = open \ {client}
       /\ UNCHANGED got
    \/ /\ ~Complete(b) /\ ~Oversized(b)
       /\ buf' = b
       /\ UNCHANGED <<client, open, got>>

-----------------------------------------------------------------------------
(* The hosts.  A connection waits in the listener's backlog, and bytes may *)
(* be sent on it, before it is accepted.                                   *)

HostConnect ==
    /\ opened < MaxConns
    /\ opened' = opened + 1
    /\ open' = open \union {opened + 1}
    /\ UNCHANGED <<device, sent, wire, got>>

HostSend ==
    \E c \in open, len \in FrameLens :
        /\ Len(sent[c]) < MaxFrames
        /\ sent' = [sent EXCEPT ![c] = Append(@, len)]
        /\ wire' = [wire EXCEPT ![c] = @ \o Serialize(c, Len(sent[c]) + 1, len)]
        /\ UNCHANGED <<device, opened, open, got>>

HostClose ==
    \E c \in open :
        /\ open' = open \ {c}
        /\ UNCHANGED <<device, opened, sent, wire, got>>

-----------------------------------------------------------------------------
(* read_frame and write_frame.                                             *)

\* ensure_client.
Accept ==
    /\ ~crashed /\ client = 0
    /\ accepted < opened
    /\ accepted' = accepted + 1
    /\ client' = accepted + 1
    /\ buf' = <<>>
    /\ UNCHANGED <<crashed, hosts, got>>

\* Mutant: the buffer is looked at only after a read.
TakeBufferedNever == FALSE /\ UNCHANGED vars

\* A complete frame is already in the buffer.
TakeBuffered ==
    /\ ~crashed /\ client # 0
    /\ Complete(buf)
    /\ TakeFrame(buf)
    /\ UNCHANGED <<crashed, accepted, opened, sent, wire>>

\* The buffered header announces too long a frame: take_frame drops the
\* client, and read_frame goes on to expect one.
TakeBufferedOversized ==
    /\ ~crashed /\ client # 0
    /\ Oversized(buf)
    /\ TakeFrame(buf)
    /\ crashed' = TRUE
    /\ UNCHANGED <<accepted, opened, sent, wire>>

\* The buffer holds no complete frame: read up to a chunk and try again.
ReadBytes ==
    /\ ~crashed /\ client # 0
    /\ ~Complete(buf) /\ ~Oversized(buf)
    /\ \E n \in 1..ChunkLen :
          /\ n <= Len(wire[client])
          /\ wire' = [wire EXCEPT ![client] = SubSeq(@, n + 1, Len(@))]
          /\ TakeFrame(buf \o SubSeq(wire[client], 1, n))
    /\ UNCHANGED <<crashed, accepted, opened, sent>>

\* Read 0 bytes, a read error, or a failed write: the host has closed.  A
\* reset or a failed write loses bytes that were not yet read.
DropClient ==
    /\ ~crashed /\ client # 0
    /\ client \notin open
    /\ client' = 0
    /\ buf' = <<>>
    /\ UNCHANGED <<crashed, accepted, hosts, got>>

-----------------------------------------------------------------------------
HostNext == HostConnect \/ HostSend \/ HostClose
DeviceNext ==
    Accept \/ TakeBuffered \/ TakeBufferedOversized \/ ReadBytes \/ DropClient

Next == HostNext \/ DeviceNext

Spec == Init /\ [][Next]_vars

\* The main loop calls read_frame again and again.
FairSpec == Spec /\ WF_vars(DeviceNext)

-----------------------------------------------------------------------------
(* Properties.                                                             *)

\* However the reads cut the streams, the frames read_frame returns from a
\* connection are the frames sent on it: whole, in order, none skipped, and
\* nothing of an earlier client whose bytes were still in the buffer.
FramesIntact ==
    \A c \in Conns : \A k \in DOMAIN got[c] :
        k <= Len(sent[c]) /\ got[c][k] = Serialize(c, k, sent[c][k])

\* The buffer holds less than one frame of maximal length and a chunk,
\* whatever lengths the headers of take_frame declare.
BufferBounded == Len(buf) < HeaderLen + MaxFrameLen + ChunkLen

\* read_frame has a client when it reads ("client checked above",
\* transport/mod.rs:176): a frame that is too long costs its connection and
\* the receiver goes on.
ClientChecked == ~crashed

\* Every frame sent on the client's connection is returned by read_frame,
\* frames that arrived in one read with an earlier one included, unless the
\* connection goes away.
FramesDelivered ==
    \A c \in Conns : \A k \in 1..MaxFrames :
        (client = c /\ Len(sent[c]) >= k) ~> (Len(got[c]) >= k \/ client # c)

=============================================================================
