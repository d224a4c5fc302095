-------------------------- MODULE TcpFramingProofs --------------------------
(***************************************************************************)
(* TcpServerTransport's framing, for frames of any lengths, reads of any   *)
(* size and any number of connections: the frames returned are the frames  *)
(* sent, and the buffer stays bounded.                                     *)
(*                                                                         *)
(* The invariant says that the buffer followed by what is still on the     *)
(* wire is the client's stream after the frames already returned.  Where a *)
(* frame starts in the stream is a sum over the frames before it; to do    *)
(* without an induction over sequences the invariant says that there is a  *)
(* table of these starts, which a send extends by one row.                 *)
(***************************************************************************)
EXTENDS TcpFraming, SequenceTheorems, TLAPS

Byte == [conn : Nat, frame : Nat, at : Nat]

\* st is where frames of payload lengths ls start in a stream, and where the
\* next one will.
Starts(ls, st) ==
    /\ st \in [1..(Len(ls) + 1) -> Nat]
    /\ \A k \in 1..Len(ls) : st[k + 1] = st[k] + HeaderLen + ls[k]
    /\ \A j, k \in 1..(Len(ls) + 1) : j <= k => st[j] <= st[k]

\* s is what is left of the stream of connection c, frames of lengths ls,
\* after the first g frames.
LeftAt(s, c, ls, g, st) ==
    /\ g \in 0..Len(ls)
    /\ Len(s) = st[Len(ls) + 1] - st[g + 1]
    /\ \A k \in (g + 1)..Len(ls) : \A i \in 1..(HeaderLen + ls[k]) :
          s[st[k] - st[g + 1] + i] = [conn |-> c, frame |-> k, at |-> i]

IsLeft(s, c, ls, g) == \E st : Starts(ls, st) /\ LeftAt(s, c, ls, g, st)

TypeInv ==
    /\ opened \in 0..MaxConns /\ accepted \in 0..opened /\ client \in 0..accepted
    /\ open \subseteq 1..opened
    /\ sent \in [Conns -> Seq(Nat)] /\ wire \in [Conns -> Seq(Byte)]
    /\ buf \in Seq(Byte) /\ got \in [Conns -> Seq(Seq(Byte))]

StreamInv ==
    /\ client # 0 => IsLeft(buf \o wire[client], client, sent[client], Len(got[client]))
    /\ \A c \in Conns : c > accepted => got[c] = <<>> /\ IsLeft(wire[c], c, sent[c], 0)

FramingInv == TypeInv /\ StreamInv /\ FramesIntact /\ BufferBounded

-----------------------------------------------------------------------------
(* Streams.                                                                *)

\* Nothing has been sent.
LEMMA LeftEmpty ==
    ASSUME NEW c
    PROVE  IsLeft(<<>>, c, <<>>, 0)
  <1> DEFINE st == [k \in 1..1 |-> 0]
  <1>1. Len(<<>>) = 0
    OBVIOUS
  <1>2. Starts(<<>>, st)
    BY <1>1 DEF Starts
  <1>3. LeftAt(<<>>, c, <<>>, 0, st)
    BY <1>1 DEF LeftAt
  <1> QED
    BY <1>2, <1>3 DEF IsLeft

\* Offsets within what is left of a stream are those of its bytes.
LEMMA Offsets ==
    ASSUME NEW ls \in Seq(Nat), NEW st, Starts(ls, st), NEW g \in 0..Len(ls),
           NEW k \in (g + 1)..Len(ls), NEW i \in 1..(HeaderLen + ls[k])
    PROVE  /\ st[k] - st[g + 1] + i \in 1..(st[Len(ls) + 1] - st[g + 1])
           /\ st[g + 1] \in Nat /\ st[k] \in Nat /\ st[Len(ls) + 1] \in Nat /\ ls[k] \in Nat
           /\ st[g + 1] <= st[k]
  <1>1. /\ Len(ls) \in Nat /\ k \in 1..Len(ls) /\ ls[k] \in Nat
        /\ {g + 1, k, k + 1, Len(ls) + 1} \subseteq 1..(Len(ls) + 1)
        /\ g + 1 <= k /\ k + 1 <= Len(ls) + 1
    BY LenProperties, ElementOfSeq
  <1>2. /\ st[g + 1] \in Nat /\ st[k] \in Nat /\ st[k + 1] \in Nat /\ st[Len(ls) + 1] \in Nat
        /\ st[g + 1] <= st[k] /\ st[k + 1] <= st[Len(ls) + 1]
        /\ st[k + 1] = st[k] + HeaderLen + ls[k]
    BY <1>1 DEF Starts
  <1>3. \A a, b, d, e, l \in Nat : \A x \in 1..(5 + l) :
           a <= b /\ d <= e /\ d = b + 5 + l => b - a + x \in 1..(e - a)
    OBVIOUS
  <1>4. st[k] - st[g + 1] + i \in 1..(st[Len(ls) + 1] - st[g + 1])
    BY <1>1, <1>2, <1>3 DEF HeaderLen
  <1> QED
    BY <1>1, <1>2, <1>4

\* A host sends one more frame.
LEMMA LeftSend ==
    ASSUME NEW c \in Nat, NEW ls \in Seq(Nat), NEW g, NEW s \in Seq(Byte), IsLeft(s, c, ls, g),
           NEW len \in Nat
    PROVE  LET f == [i \in 1..(HeaderLen + len) |-> [conn |-> c, frame |-> Len(ls) + 1, at |-> i]]
           IN  f \in Seq(Byte) /\ IsLeft(s \o f, c, Append(ls, len), g)
  <1> DEFINE f == [i \in 1..(HeaderLen + len) |-> [conn |-> c, frame |-> Len(ls) + 1, at |-> i]]
             n == Len(ls)
             ms == Append(ls, len)
  <1>0. n \in Nat /\ HeaderLen + len \in Nat
    BY LenProperties DEF HeaderLen
  <1>1. /\ f \in Seq(Byte) /\ Len(f) = HeaderLen + len
    <2> DEFINE m == HeaderLen + len
    <2>1. f \in [1..m -> Byte] /\ m \in Nat
      BY <1>0 DEF Byte
    <2> HIDE DEF f, m
    <2>2. f \in Seq(Byte) /\ Len(f) = m
      BY <2>1
    <2> QED
      BY <2>2 DEF m
  <1>2. PICK st : Starts(ls, st) /\ LeftAt(s, c, ls, g, st)
    BY DEF IsLeft
  <1>3. ms \in Seq(Nat) /\ Len(ms) = n + 1 /\ (\A k \in 1..n : ms[k] = ls[k]) /\ ms[n + 1] = len
    BY AppendProperties
  <1> DEFINE tt == [k \in 1..(n + 2) |-> IF k = n + 2 THEN st[n + 1] + HeaderLen + len ELSE st[k]]
  <1>4. (\A k \in 1..(n + 1) : tt[k] = st[k] /\ st[k] \in Nat) /\ tt[n + 2] = st[n + 1] + HeaderLen + len
    BY <1>0, <1>2 DEF Starts
  <1>5. Starts(ms, tt)
    <2>1. tt \in [1..(n + 2) -> Nat]
      <3>0. n + 1 \in 1..(n + 1)
        BY <1>0
      <3>1. st[n + 1] + HeaderLen + len \in Nat
        <4>1. st[n + 1] \in Nat
          BY <1>4, <3>0
        <4>2. \A a \in Nat : a + 5 + len \in Nat
          OBVIOUS
        <4> QED
          BY <4>1, <4>2 DEF HeaderLen
      <3>2. \A k \in 1..(n + 2) : k = n + 2 \/ k \in 1..(n + 1)
        BY <1>0
      <3>3. \A k \in 1..(n + 2) : tt[k] \in Nat
        BY <1>4, <3>1, <3>2
      <3> QED
        BY <3>3
    <2>2. \A k \in 1..(n + 1) : tt[k + 1] = tt[k] + HeaderLen + ms[k]
      <3>1. ASSUME NEW k \in 1..(n + 1) PROVE tt[k + 1] = tt[k] + HeaderLen + ms[k]
        <4> HIDE DEF tt, ms
        <4>1. CASE k = n + 1
          BY <1>0, <1>3, <1>4, <4>1
        <4>2. CASE k # n + 1
          <5>1. k \in 1..n /\ k + 1 \in 1..(n + 1) /\ k \in 1..(n + 1)
            BY <1>0, <4>2
          <5>2. st[k + 1] = st[k] + HeaderLen + ls[k]
            BY <1>2, <5>1 DEF Starts
          <5> QED
            BY <1>3, <1>4, <5>1, <5>2
        <4> QED
          BY <4>1, <4>2
      <3> QED
        BY <3>1
    <2>3. \A j, k \in 1..(n + 2) : j <= k => tt[j] <= tt[k]
      <3>1. \A j, k \in 1..(n + 1) : j <= k => st[j] <= st[k]
        BY <1>2 DEF Starts
      <3> HIDE DEF tt
      <3>2. ASSUME NEW j \in 1..(n + 2), NEW k \in 1..(n + 2), j <= k PROVE tt[j] <= tt[k]
        <4>1. CASE k \in 1..(n + 1)
          BY <1>0, <1>4, <3>1, <3>2, <4>1
        <4>2. CASE k = n + 2 /\ j \in 1..(n + 1)
          <5>1. st[j] <= st[n + 1] /\ st[j] \in Nat /\ st[n + 1] \in Nat
            BY <1>0, <1>4, <3>1, <4>2
          <5> QED
            BY <1>4, <4>2, <5>1 DEF HeaderLen
        <4>3. CASE k = n + 2 /\ j = n + 2
          <5>1. tt[n + 2] \in Nat
            BY <2>1, <1>0
          <5> QED
            BY <4>3, <5>1
        <4> QED
          BY <1>0, <4>1, <4>2, <4>3
      <3> QED
        BY <3>2
    <2> HIDE DEF tt, ms
    <2> QED
      BY <1>0, <1>3, <2>1, <2>2, <2>3 DEF Starts
  <1> HIDE DEF f, tt, ms
  <1>6. /\ s \o f \in Seq(Byte) /\ Len(s \o f) = Len(s) + HeaderLen + len /\ Len(s) \in Nat
        /\ \A x \in 1..Len(s) : (s \o f)[x] = s[x]
        /\ \A i \in 1..(HeaderLen + len) : (s \o f)[Len(s) + i] = f[i]
    <2>1. Len(s) \in Nat
      BY LenProperties
    <2>2. /\ s \o f \in Seq(Byte) /\ Len(s \o f) = Len(s) + Len(f)
          /\ \A i \in 1..(Len(s) + Len(f)) : (s \o f)[i] = IF i <= Len(s) THEN s[i] ELSE f[i - Len(s)]
      BY <1>1, ConcatProperties
    <2>3. ASSUME NEW i \in 1..(HeaderLen + len) PROVE (s \o f)[Len(s) + i] = f[i]
      <3>1. /\ Len(s) + i \in 1..(Len(s) + Len(f)) /\ ~(Len(s) + i <= Len(s))
            /\ (Len(s) + i) - Len(s) = i
        BY <1>0, <1>1, <2>1
      <3> QED
        BY <2>2, <3>1
    <2>4. \A x \in 1..Len(s) : x \in 1..(Len(s) + Len(f)) /\ x <= Len(s)
      BY <1>0, <1>1, <2>1
    <2>5. Len(s) + Len(f) = Len(s) + HeaderLen + len
      BY <1>0, <1>1, <2>1 DEF HeaderLen
    <2> QED
      BY <2>1, <2>2, <2>3, <2>4, <2>5
  <1>7. g \in 0..n /\ Len(s) = st[n + 1] - st[g + 1] /\ g + 1 \in 1..(n + 1)
    BY <1>0, <1>2 DEF LeftAt
  <1>8. ASSUME NEW k \in (g + 1)..(n + 1), NEW i \in 1..(HeaderLen + ms[k])
        PROVE  (s \o f)[tt[k] - tt[g + 1] + i] = [conn |-> c, frame |-> k, at |-> i]
    <2>1. CASE k = n + 1
      <3>1. i \in 1..(HeaderLen + len) /\ tt[k] = st[n + 1] /\ tt[g + 1] = st[g + 1]
        BY <1>0, <1>3, <1>4, <1>7, <2>1
      <3>2. f[i] = [conn |-> c, frame |-> k, at |-> i]
        BY <2>1, <3>1 DEF f
      <3> QED
        BY <1>6, <1>7, <3>1, <3>2
    <2>2. CASE k # n + 1
      <3>1. k \in (g + 1)..n /\ k \in 1..n /\ k \in 1..(n + 1)
        BY <1>0, <1>7, <2>2
      <3>2. i \in 1..(HeaderLen + ls[k]) /\ tt[k] = st[k] /\ tt[g + 1] = st[g + 1]
        BY <1>3, <1>4, <1>7, <3>1
      <3>3. st[k] - st[g + 1] + i \in 1..Len(s)
        BY <1>2, <1>7, <3>1, <3>2, Offsets
      <3>4. s[st[k] - st[g + 1] + i] = [conn |-> c, frame |-> k, at |-> i]
        BY <1>2, <3>1, <3>2 DEF LeftAt
      <3> QED
        BY <1>6, <3>2, <3>3, <3>4
    <2> QED
      BY <2>1, <2>2
  <1>9. Len(s \o f) = tt[n + 2] - tt[g + 1]
    <2>1. tt[n + 2] = st[n + 1] + HeaderLen + len /\ tt[g + 1] = st[g + 1]
      BY <1>4, <1>7
    <2>2. st[n + 1] \in Nat /\ st[g + 1] \in Nat
      BY <1>0, <1>4, <1>7
    <2>3. \A a, b \in Nat : (a - b) + 5 + len = (a + 5 + len) - b
      OBVIOUS
    <2>4. Len(s \o f) = (st[n + 1] - st[g + 1]) + HeaderLen + len
      BY <1>6, <1>7, Zenon
    <2>5. (st[n + 1] - st[g + 1]) + HeaderLen + len = (st[n + 1] + HeaderLen + len) - st[g + 1]
      BY <2>2, <2>3 DEF HeaderLen
    <2> QED
      BY <2>1, <2>4, <2>5, Zenon
  <1>10. LeftAt(s \o f, c, ms, g, tt)
    <2>1. g \in 0..(n + 1) /\ Len(ms) + 1 = n + 2
      BY <1>0, <1>3, <1>7
    <2> QED
      BY <1>3, <1>8, <1>9, <2>1 DEF LeftAt
  <1> QED
    BY <1>1, <1>5, <1>10 DEF IsLeft, f, ms

\* The byte at the front of what is left is the first of the next frame.
LEMMA LeftFront ==
    ASSUME NEW c, NEW ls \in Seq(Nat), NEW g, NEW b \in Seq(Byte), NEW w \in Seq(Byte),
           IsLeft(b \o w, c, ls, g), Len(b) > 0
    PROVE  /\ g \in Nat /\ g + 1 \in 1..Len(ls) /\ ls[g + 1] \in Nat
           /\ b[1] = [conn |-> c, frame |-> g + 1, at |-> 1]
  <1> DEFINE s == b \o w
             n == Len(ls)
  <1>0. n \in Nat /\ Len(b) \in Nat /\ Len(w) \in Nat
    BY LenProperties
  <1>1. Len(s) = Len(b) + Len(w) /\ s[1] = b[1]
    <2>1. 1 \in 1..(Len(b) + Len(w)) /\ 1 <= Len(b)
      BY <1>0
    <2> QED
      BY <2>1, ConcatProperties
  <1> HIDE DEF s
  <1>2. PICK st : Starts(ls, st) /\ LeftAt(s, c, ls, g, st)
    BY DEF IsLeft, s
  <1>3. g \in 0..n /\ Len(s) = st[n + 1] - st[g + 1] /\ Len(s) > 0
    <2>1. Len(s) > 0
      BY <1>0, <1>1
    <2> QED
      BY <1>2, <2>1 DEF LeftAt
  <1>4. g # n
    <2>1. st[n + 1] \in Nat
      <3>1. n + 1 \in 1..(n + 1)
        BY <1>0
      <3> QED
        BY <1>2, <3>1 DEF Starts
    <2>2. \A a \in Nat : ~(a - a > 0)
      OBVIOUS
    <2> QED
      BY <1>3, <2>1, <2>2
  <1>5. g + 1 \in 1..n /\ g + 1 \in (g + 1)..n /\ g \in Nat /\ g + 1 \in 1..(n + 1)
    BY <1>0, <1>3, <1>4
  <1>6. ls[g + 1] \in Nat /\ st[g + 1] \in Nat
    BY <1>2, <1>5, ElementOfSeq DEF Starts
  <1>7. 1 \in 1..(HeaderLen + ls[g + 1]) /\ st[g + 1] - st[g + 1] + 1 = 1
    BY <1>6 DEF HeaderLen
  <1>8. s[st[g + 1] - st[g + 1] + 1] = [conn |-> c, frame |-> g + 1, at |-> 1]
    BY <1>2, <1>5, <1>7 DEF LeftAt
  <1> QED
    BY <1>1, <1>5, <1>6, <1>7, <1>8

\* The bytes after the first m.
LEMMA Suffix ==
    ASSUME NEW b \in Seq(Byte), NEW m \in Nat, Len(b) \in Nat,
           \A i \in (m + 1)..Len(b) : b[i] \in Byte
    PROVE  /\ SubSeq(b, m + 1, Len(b)) \in Seq(Byte)
           /\ Len(SubSeq(b, m + 1, Len(b))) = IF m + 1 <= Len(b) THEN Len(b) - (m + 1) + 1 ELSE 0
           /\ \A i \in 1..(Len(b) - (m + 1) + 1) : SubSeq(b, m + 1, Len(b))[i] = b[(m + 1) + i - 1]
  <1>1. m + 1 \in Int /\ Len(b) \in Int
    OBVIOUS
  <1> QED
    BY <1>1, SubSeqProperties

\* The frame that is complete in front is the next one that was sent, and what
\* is left without it is what is left after it.
LEMMA LeftTake ==
    ASSUME NEW c, NEW ls \in Seq(Nat), NEW g, NEW b \in Seq(Byte), NEW w \in Seq(Byte),
           IsLeft(b \o w, c, ls, g), Len(b) >= HeaderLen + ls[g + 1],
           g \in Nat, g + 1 \in 1..Len(ls), ls[g + 1] \in Nat
    PROVE  LET m == HeaderLen + ls[g + 1]
           IN  /\ SubSeq(b, 1, m) \in Seq(Byte)
               /\ SubSeq(b, 1, m) = [i \in 1..m |-> [conn |-> c, frame |-> g + 1, at |-> i]]
               /\ SubSeq(b, m + 1, Len(b)) \in Seq(Byte)
               /\ Len(SubSeq(b, m + 1, Len(b))) <= Len(b)
               /\ IsLeft(SubSeq(b, m + 1, Len(b)) \o w, c, ls, g + 1)
  <1> DEFINE s == b \o w
             n == Len(ls)
             m == HeaderLen + ls[g + 1]
             r == SubSeq(b, m + 1, Len(b))
  <1>0. /\ n \in Nat /\ Len(b) \in Nat /\ Len(w) \in Nat /\ m \in Nat /\ m <= Len(b)
        /\ \A i \in 1..Len(b) : b[i] \in Byte
    BY LenProperties, ElementOfSeq DEF HeaderLen
  <1>1. /\ Len(s) = Len(b) + Len(w)
        /\ \A x \in 1..(Len(b) + Len(w)) : s[x] = IF x <= Len(b) THEN b[x] ELSE w[x - Len(b)]
    BY ConcatProperties
  <1> HIDE DEF s, m
  <1>2. /\ SubSeq(b, 1, m) \in Seq(Byte) /\ Len(SubSeq(b, 1, m)) = m
        /\ \A i \in 1..m : SubSeq(b, 1, m)[i] = b[i]
    <2>1. \A i \in 1..m : b[i] \in Byte /\ 1 + i - 1 = i
      BY <1>0
    <2>2. m - 1 + 1 = m /\ (IF 1 <= m THEN m - 1 + 1 ELSE 0) = m /\ 1 \in Int /\ m \in Int
      BY <1>0
    <2> QED
      BY <2>1, <2>2, SubSeqProperties
  <1>3. /\ r \in Seq(Byte) /\ Len(r) = Len(b) - m
        /\ \A i \in 1..(Len(b) - m) : r[i] = b[m + i]
    <2>1. /\ \A i \in (m + 1)..Len(b) : b[i] \in Byte
          /\ \A i \in 1..(Len(b) - m) : (m + 1) + i - 1 = m + i
      BY <1>0
    <2>2. /\ Len(b) - (m + 1) + 1 = Len(b) - m /\ m + 1 \in Int /\ Len(b) \in Int
          /\ (IF m + 1 <= Len(b) THEN Len(b) - (m + 1) + 1 ELSE 0) = Len(b) - m
      BY <1>0
    <2>3. /\ r \in Seq(Byte) /\ Len(r) = IF m + 1 <= Len(b) THEN Len(b) - (m + 1) + 1 ELSE 0
          /\ \A i \in 1..(Len(b) - (m + 1) + 1) : r[i] = b[(m + 1) + i - 1]
      BY <1>0, <2>1, Suffix
    <2> HIDE DEF r
    <2>4. \A i \in 1..(Len(b) - m) : r[i] = b[m + i]
      BY <2>1, <2>2, <2>3
    <2> QED
      BY <2>2, <2>3, <2>4
  <1> HIDE DEF r
  <1>4. /\ Len(r \o w) = Len(s) - m
        /\ \A x \in 1..(Len(s) - m) : (r \o w)[x] = s[x + m]
    <2>1. /\ Len(r \o w) = Len(r) + Len(w)
          /\ \A x \in 1..(Len(r) + Len(w)) : (r \o w)[x] = IF x <= Len(r) THEN r[x] ELSE w[x - Len(r)]
      BY <1>3, ConcatProperties
    <2>2. Len(r) + Len(w) = Len(s) - m
      BY <1>0, <1>1, <1>3
    <2>3. ASSUME NEW x \in 1..(Len(s) - m) PROVE (r \o w)[x] = s[x + m]
      <3>1. x \in 1..(Len(r) + Len(w)) /\ x + m \in 1..(Len(b) + Len(w)) /\ x + m = m + x
            /\ (x <= Len(r) <=> x + m <= Len(b)) /\ x - Len(r) = (x + m) - Len(b)
            /\ (x <= Len(r) => x \in 1..(Len(b) - m))
        BY <1>0, <1>1, <1>3
      <3>2. CASE x <= Len(r)
        BY <1>1, <1>3, <2>1, <3>1, <3>2
      <3>3. CASE ~(x <= Len(r))
        BY <1>1, <2>1, <3>1, <3>3
      <3> QED
        BY <3>2, <3>3
    <2> QED
      BY <2>1, <2>2, <2>3
  <1>5. PICK st : Starts(ls, st) /\ LeftAt(s, c, ls, g, st)
    BY DEF IsLeft, s
  <1>6. /\ Len(s) = st[n + 1] - st[g + 1] /\ st[g + 2] = st[g + 1] + m
        /\ st[g + 1] \in Nat /\ st[n + 1] \in Nat /\ st[g + 2] \in Nat
    <2>1. {g + 1, g + 2, n + 1} \subseteq 1..(n + 1) /\ g + 1 + 1 = g + 2
      BY <1>0
    <2>2. st[g + 1 + 1] = st[g + 1] + HeaderLen + ls[g + 1]
      BY <1>5 DEF Starts
    <2>3. st[g + 1] \in Nat /\ st[n + 1] \in Nat /\ st[g + 2] \in Nat
      BY <1>5, <2>1 DEF Starts
    <2>4. \A a, l \in Nat : a + 5 + l = a + (5 + l)
      OBVIOUS
    <2> QED
      BY <1>5, <2>1, <2>2, <2>3, <2>4 DEF LeftAt, m, HeaderLen
  <1>7. \A i \in 1..m : b[i] = [conn |-> c, frame |-> g + 1, at |-> i]
    <2>1. ASSUME NEW i \in 1..m PROVE b[i] = [conn |-> c, frame |-> g + 1, at |-> i]
      <3>1. /\ st[g + 1] - st[g + 1] + i = i /\ i \in 1..(Len(b) + Len(w)) /\ i <= Len(b)
            /\ g + 1 \in (g + 1)..n
        <4>1. \A a \in Nat : a - a + i = i
          OBVIOUS
        <4>2. i \in 1..(Len(b) + Len(w)) /\ i <= Len(b) /\ g + 1 \in (g + 1)..n
          BY <1>0
        <4> QED
          BY <1>6, <4>1, <4>2
      <3>2. s[st[g + 1] - st[g + 1] + i] = [conn |-> c, frame |-> g + 1, at |-> i]
        BY <1>5, <3>1 DEF LeftAt, m
      <3> QED
        BY <1>1, <3>1, <3>2
    <2> QED
      BY <2>1
  <1>8. SubSeq(b, 1, m) = [i \in 1..m |-> [conn |-> c, frame |-> g + 1, at |-> i]]
    <2>1. DOMAIN SubSeq(b, 1, m) = 1..m /\ SubSeq(b, 1, m) \in [1..m -> Byte]
      BY <1>2, LenProperties
    <2> QED
      BY <1>2, <1>7, <2>1
  <1>9. LeftAt(r \o w, c, ls, g + 1, st)
    <2>1. Len(r \o w) = st[n + 1] - st[g + 1 + 1] /\ g + 1 + 1 = g + 2 /\ g + 1 \in 0..n
      <3>1. \A a, e \in Nat : (e - a) - m = e - (a + m)
        BY <1>0
      <3>2. g + 1 + 1 = g + 2 /\ g + 1 \in 0..n
        BY <1>0
      <3>3. Len(r \o w) = (st[n + 1] - st[g + 1]) - m
        BY <1>4, <1>6, Zenon
      <3> QED
        BY <1>6, <3>1, <3>2, <3>3
    <2>2. ASSUME NEW k \in (g + 2)..n, NEW i \in 1..(HeaderLen + ls[k])
          PROVE  (r \o w)[st[k] - st[g + 2] + i] = [conn |-> c, frame |-> k, at |-> i]
      <3>1. k \in (g + 1)..n
        BY <1>0
      <3>2. s[st[k] - st[g + 1] + i] = [conn |-> c, frame |-> k, at |-> i]
        BY <1>5, <3>1 DEF LeftAt
      <3>3. st[k] - st[g + 1 + 1] + i \in 1..(st[n + 1] - st[g + 1 + 1]) /\ st[k] \in Nat /\ i \in Nat
        <4>1. k \in (g + 1 + 1)..n /\ g + 1 \in 0..n
          BY <2>1
        <4>2. ls[k] \in Nat
          BY <1>5, <2>1, <4>1, Offsets
        <4> QED
          BY <1>5, <4>1, <4>2, Offsets DEF HeaderLen
      <3>4. \A a, d, e \in Nat : d = a + m => (e - d + i) + m = e - a + i
        BY <1>0, <3>3
      <3>5. (st[k] - st[g + 2] + i) + m = st[k] - st[g + 1] + i
        BY <1>6, <3>3, <3>4, ZenonT(40)
      <3>6. st[k] - st[g + 2] + i \in 1..(Len(s) - m)
        BY <1>4, <2>1, <3>3
      <3> QED
        BY <1>4, <3>2, <3>5, <3>6
    <2> QED
      BY <2>1, <2>2 DEF LeftAt
  <1>10. IsLeft(r \o w, c, ls, g + 1) /\ Len(r) <= Len(b)
    BY <1>0, <1>3, <1>5, <1>9 DEF IsLeft
  <1> QED
    BY <1>2, <1>3, <1>8, <1>10 DEF m, r

\* Concatenation is associative.
LEMMA Regroup ==
    ASSUME NEW b \in Seq(Byte), NEW x \in Seq(Byte), NEW y \in Seq(Byte)
    PROVE  \A w : x \o y = w => (b \o x) \o y = b \o w
  <1>1. (b \o x) \o y = b \o (x \o y)
    BY ConcatAssociative
  <1> QED
    BY <1>1, Zenon

\* A read moves bytes from the wire to the buffer.
LEMMA LeftRead ==
    ASSUME NEW b \in Seq(Byte), NEW w \in Seq(Byte), NEW n \in 1..Len(w)
    PROVE  /\ SubSeq(w, 1, n) \in Seq(Byte) /\ Len(SubSeq(w, 1, n)) = n
           /\ SubSeq(w, n + 1, Len(w)) \in Seq(Byte)
           /\ b \o SubSeq(w, 1, n) \in Seq(Byte)
           /\ Len(b \o SubSeq(w, 1, n)) = Len(b) + n
           /\ (b \o SubSeq(w, 1, n)) \o SubSeq(w, n + 1, Len(w)) = b \o w
  <1>0. /\ Len(w) \in Nat /\ Len(b) \in Nat
        /\ \A i \in 1..Len(w) : w[i] \in Byte
    BY LenProperties, ElementOfSeq
  <1>1. SubSeq(w, 1, n) \in Seq(Byte) /\ Len(SubSeq(w, 1, n)) = n
    <2>1. \A i \in 1..n : w[i] \in Byte
      BY <1>0
    <2>2. n \in Int /\ 1 \in Int /\ (IF 1 <= n THEN n - 1 + 1 ELSE 0) = n
      BY <1>0
    <2> QED
      BY <2>1, <2>2, SubSeqProperties
  <1>2. SubSeq(w, n + 1, Len(w)) \in Seq(Byte)
    <2>1. n + 1 \in Int /\ Len(w) \in Int /\ \A i \in (n + 1)..Len(w) : w[i] \in Byte
      BY <1>0
    <2> QED
      BY <2>1, SubSeqProperties
  <1>3. SubSeq(w, 1, n) \o SubSeq(w, n + 1, Len(w)) = w
    <2>1. 1 \in 1..(Len(w) + 1) /\ n \in (1 - 1)..Len(w) /\ Len(w) \in n..Len(w)
      BY <1>0
    <2>2. SubSeq(w, 1, n) \o SubSeq(w, n + 1, Len(w)) = SubSeq(w, 1, Len(w))
      BY <2>1, ConcatAdjacentSubSeq
    <2> QED
      BY <2>2, SubSeqFull
  <1>4. (b \o SubSeq(w, 1, n)) \o SubSeq(w, n + 1, Len(w)) = b \o w
    <2> DEFINE x == SubSeq(w, 1, n)
               y == SubSeq(w, n + 1, Len(w))
    <2>1. x \in Seq(Byte) /\ y \in Seq(Byte) /\ x \o y = w
      BY <1>1, <1>2, <1>3
    <2> HIDE DEF x, y
    <2>2. \A z : x \o y = z => (b \o x) \o y = b \o z
      BY <2>1, Regroup, ZenonT(40)
    <2>3. (b \o x) \o y = b \o w
      BY <2>1, <2>2, Zenon
    <2> QED
      BY <2>3 DEF x, y
  <1>5. b \o SubSeq(w, 1, n) \in Seq(Byte) /\ Len(b \o SubSeq(w, 1, n)) = Len(b) + n
    BY <1>1, ConcatProperties
  <1> QED
    BY <1>1, <1>2, <1>4, <1>5

-----------------------------------------------------------------------------
(* The invariant is inductive.                                             *)

\* What is left of the client's stream, and of the streams of connections not
\* yet accepted, in the next state.
LEMMA LeftNext ==
    ASSUME NEW s, NEW c, NEW ls, NEW g, IsLeft(s, c, ls, g)
    PROVE  /\ (/\ (buf \o wire[client])' = s /\ client' = c
               /\ sent[client]' = ls /\ Len(got[client])' = g)
                 => IsLeft(buf \o wire[client], client, sent[client], Len(got[client]))'
           /\ (wire'[c] = s /\ sent'[c] = ls /\ g = 0) => IsLeft(wire[c], c, sent[c], 0)'
  <1>1. PICK st : Starts(ls, st) /\ LeftAt(s, c, ls, g, st)
    BY DEF IsLeft
  <1>2. ASSUME (buf \o wire[client])' = s, client' = c, sent[client]' = ls, Len(got[client])' = g
        PROVE  IsLeft(buf \o wire[client], client, sent[client], Len(got[client]))'
    <2>1. Starts(sent[client], st)'
      BY <1>1, <1>2 DEF Starts, HeaderLen
    <2>2. LeftAt(buf \o wire[client], client, sent[client], Len(got[client]), st)'
      BY <1>1, <1>2 DEF LeftAt, HeaderLen
    <2> QED
      BY <2>1, <2>2 DEF IsLeft
  <1>3. ASSUME wire'[c] = s, sent'[c] = ls, g = 0
        PROVE  IsLeft(wire[c], c, sent[c], 0)'
    <2>1. Starts(sent[c], st)'
      BY <1>1, <1>3 DEF Starts, HeaderLen
    <2>2. LeftAt(wire[c], c, sent[c], 0, st)'
      BY <1>1, <1>3 DEF LeftAt, HeaderLen
    <2> QED
      BY <2>1, <2>2 DEF IsLeft
  <1> QED
    BY <1>2, <1>3

\* take_frame, on a buffer b with w still on the wire.
LEMMA TakeFrameKeeps ==
    ASSUME FramingInv, client # 0, NEW b \in Seq(Byte), NEW w \in Seq(Byte),
           IsLeft(b \o w, client, sent[client], Len(got[client])),
           Len(b) < HeaderLen + MaxFrameLen + ChunkLen, TakeFrame(b),
           wire' = [wire EXCEPT ![client] = w], UNCHANGED <<accepted, opened, sent>>
    PROVE  FramingInv'
  <1> USE FramingAssumption DEF FramingInv
  <1> DEFINE c == client
             g == Len(got[c])
             ls == sent[c]
  <1>0. /\ c \in Conns /\ c <= accepted /\ ls \in Seq(Nat) /\ g \in Nat /\ Len(ls) \in Nat
        /\ got[c] \in Seq(Seq(Byte)) /\ Len(b) \in Nat
    BY LenProperties DEF TypeInv, Conns
  <1>1. /\ wire' \in [Conns -> Seq(Byte)] /\ wire'[c] = w
        /\ \A d \in Conns : d > accepted => wire'[d] = wire[d] /\ d # c
    BY <1>0, SMTT(20) DEF TypeInv, Conns
  <1>b. Conns' = Conns /\ Byte' = Byte
    BY DEF Conns, Byte
  <1>2. CASE Complete(b)
    <2>1. Len(b) >= HeaderLen /\ ~Oversized(b) /\ Len(b) >= HeaderLen + DeclaredLen(b)
      BY <1>2 DEF Complete
    <2>2. /\ got' = [got EXCEPT ![c] = Append(got[c], FirstFrame(b))]
          /\ buf' = Rest(b) /\ UNCHANGED <<client, open>>
      BY <1>2, <2>1 DEF TakeFrame
    <2>3. /\ g + 1 \in 1..Len(ls) /\ ls[g + 1] \in Nat
          /\ b[1] = [conn |-> c, frame |-> g + 1, at |-> 1]
      <3>1. Len(b) > 0
        BY <1>0, <2>1 DEF HeaderLen
      <3> QED
        BY <1>0, <3>1, LeftFront, SMTT(20)
    <2>4. DeclaredLen(b) = ls[g + 1]
      BY <2>3 DEF DeclaredLen
    <2> DEFINE m == HeaderLen + ls[g + 1]
    <2>5. /\ SubSeq(b, 1, m) \in Seq(Byte)
          /\ SubSeq(b, 1, m) = [i \in 1..m |-> [conn |-> c, frame |-> g + 1, at |-> i]]
          /\ SubSeq(b, m + 1, Len(b)) \in Seq(Byte)
          /\ Len(SubSeq(b, m + 1, Len(b))) <= Len(b)
          /\ IsLeft(SubSeq(b, m + 1, Len(b)) \o w, c, ls, g + 1)
      BY <1>0, <2>1, <2>3, <2>4, LeftTake
    <2>6. /\ FirstFrame(b) \in Seq(Byte) /\ FirstFrame(b) = Serialize(c, g + 1, ls[g + 1])
          /\ Rest(b) \in Seq(Byte) /\ Len(Rest(b)) <= Len(b) /\ IsLeft(Rest(b) \o w, c, ls, g + 1)
      BY <2>4, <2>5, Zenon DEF FirstFrame, Rest, Serialize
    <2> HIDE DEF c, g, ls
    <2>7. /\ got' \in [Conns -> Seq(Seq(Byte))] /\ Len(got'[c]) = g + 1
          /\ got'[c][g + 1] = FirstFrame(b) /\ \A k \in 1..g : got'[c][k] = got[c][k]
          /\ \A d \in Conns : d # c => got'[d] = got[d]
      <3>1. /\ Append(got[c], FirstFrame(b)) \in Seq(Seq(Byte))
            /\ Len(Append(got[c], FirstFrame(b))) = g + 1
            /\ Append(got[c], FirstFrame(b))[g + 1] = FirstFrame(b)
            /\ \A k \in 1..g : Append(got[c], FirstFrame(b))[k] = got[c][k]
        BY <1>0, <2>6, AppendProperties DEF g
      <3>2. /\ got'[c] = Append(got[c], FirstFrame(b)) /\ DOMAIN got' = Conns
            /\ \A d \in Conns : d # c => got'[d] = got[d]
        BY <1>0, <2>2 DEF TypeInv
      <3>3. got' \in [Conns -> Seq(Seq(Byte))]
        BY <1>0, <2>2, <3>1 DEF TypeInv
      <3> QED
        BY <3>1, <3>2, <3>3
    <2>8. TypeInv'
      BY <1>0, <1>1, <1>b, <2>2, <2>6, <2>7 DEF TypeInv
    <2>9. StreamInv'
      <3>1. IsLeft(buf \o wire[client], client, sent[client], Len(got[client]))'
        <4>1. (buf \o wire[client])' = Rest(b) \o w /\ client' = c /\ sent[client]' = ls
              /\ Len(got[client])' = g + 1
          BY <1>1, <2>2, <2>7 DEF c, ls
        <4> QED
          BY <2>6, <4>1, LeftNext
      <3>2. \A d \in Conns : d > accepted => got'[d] = <<>> /\ IsLeft(wire'[d], d, sent'[d], 0)
        BY <1>1, <2>7 DEF StreamInv
      <3> QED
        BY <1>b, <3>1, <3>2 DEF StreamInv, IsLeft, LeftAt, Starts
    <2>10. FramesIntact'
      <3>1. ASSUME NEW d \in Conns, NEW k \in DOMAIN got'[d]
            PROVE  k <= Len(sent[d]) /\ got'[d][k] = Serialize(d, k, sent[d][k])
        <4>1. CASE d # c
          BY <2>7, <4>1 DEF FramesIntact
        <4>2. CASE d = c
          <5>1. DOMAIN got'[c] = 1..(g + 1) /\ DOMAIN got[c] = 1..g
            BY <1>0, <2>7, LenProperties DEF g
          <5>2. CASE k = g + 1
            BY <2>3, <2>6, <2>7, <4>2, <5>2 DEF ls
          <5>3. CASE k # g + 1
            <6>1. k \in 1..g
              BY <1>0, <3>1, <4>2, <5>1, <5>3
            <6> QED
              BY <2>7, <4>2, <5>1, <6>1 DEF FramesIntact
          <5> QED
            BY <5>2, <5>3
        <4> QED
          BY <4>1, <4>2
      <3> QED
        BY <1>b, <3>1 DEF FramesIntact, Serialize
    <2>11. BufferBounded'
      <3>1. Len(Rest(b)) \in Nat
        BY <2>6, LenProperties
      <3> QED
        BY <1>0, <2>2, <2>6, <3>1 DEF BufferBounded, HeaderLen
    <2> QED
      BY <2>8, <2>9, <2>10, <2>11
  <1>3. CASE Oversized(b)
    <2>1. client' = 0 /\ buf' = <<>> /\ open' \subseteq open /\ UNCHANGED got
      BY <1>3 DEF TakeFrame, Complete
    <2>2. TypeInv'
      BY <1>1, <1>b, <2>1, EmptySeq DEF TypeInv
    <2>3. FramesIntact'
      BY <1>b, <2>1 DEF FramesIntact, Serialize
    <2>5. StreamInv'
      BY <1>1, <1>b, <2>1, LeftNext DEF StreamInv
    <2>4. BufferBounded'
      BY <2>1, EmptySeq DEF BufferBounded, HeaderLen
    <2> QED
      BY <2>2, <2>3, <2>4, <2>5
  <1>4. CASE ~Complete(b) /\ ~Oversized(b)
    <2>1. buf' = b /\ UNCHANGED <<client, open, got>>
      BY <1>4 DEF TakeFrame
    <2>2. TypeInv'
      BY <1>1, <1>b, <2>1 DEF TypeInv
    <2>3. FramesIntact'
      BY <1>b, <2>1 DEF FramesIntact, Serialize
    <2>5. StreamInv'
      <3>1. /\ (buf \o wire[client])' = b \o w /\ client' = c /\ sent[client]' = ls
            /\ Len(got[client])' = g
        BY <1>1, <2>1
      <3>2. IsLeft(buf \o wire[client], client, sent[client], Len(got[client]))'
        BY <3>1, LeftNext
      <3> QED
        BY <1>1, <1>b, <2>1, <3>2, LeftNext DEF StreamInv
    <2>4. BufferBounded'
      BY <2>1 DEF BufferBounded, HeaderLen
    <2> QED
      BY <2>2, <2>3, <2>4, <2>5
  <1> QED
    BY <1>2, <1>3, <1>4

\* A buffer without a complete frame is shorter than a frame of maximal length.
LEMMA Incomplete ==
    ASSUME FramingInv, client # 0, ~Complete(buf), ~Oversized(buf)
    PROVE  Len(buf) < HeaderLen + MaxFrameLen
  <1> USE FramingAssumption DEF FramingInv, HeaderLen
  <1>0. /\ client \in Conns /\ buf \in Seq(Byte) /\ wire[client] \in Seq(Byte)
        /\ sent[client] \in Seq(Nat) /\ Len(buf) \in Nat
    BY LenProperties DEF TypeInv, Conns
  <1>1. CASE Len(buf) >= 5
    <2>1. /\ Len(got[client]) + 1 \in 1..Len(sent[client])
          /\ sent[client][Len(got[client]) + 1] \in Nat
          /\ buf[1] = [conn |-> client, frame |-> Len(got[client]) + 1, at |-> 1]
      <3>1. Len(buf) > 0 /\ IsLeft(buf \o wire[client], client, sent[client], Len(got[client]))
        BY <1>0, <1>1 DEF StreamInv
      <3> QED
        BY <1>0, <3>1, LeftFront
    <2>2. DeclaredLen(buf) \in Nat
      BY <2>1 DEF DeclaredLen
    <2>3. DeclaredLen(buf) <= MaxFrameLen /\ Len(buf) < 5 + DeclaredLen(buf)
      BY <1>0, <1>1, <2>2 DEF Complete, Oversized
    <2> QED
      BY <1>0, <2>2, <2>3
  <1>2. CASE ~(Len(buf) >= 5)
    BY <1>0, <1>2
  <1> QED
    BY <1>1, <1>2

\* The steps of the receiver.
LEMMA DeviceStep ==
    ASSUME FramingInv, DeviceNext
    PROVE  FramingInv'
  <1> USE FramingAssumption DEF FramingInv
  <1>b. Conns' = Conns /\ Byte' = Byte
    BY DEF Conns, Byte
  <1>1. CASE Accept
    <2>1. /\ accepted < opened /\ accepted' = accepted + 1 /\ client' = accepted + 1
          /\ buf' = <<>> /\ UNCHANGED <<opened, open, sent, wire, got>>
      BY <1>1 DEF Accept, hosts
    <2>2. accepted + 1 \in Conns /\ accepted + 1 > accepted /\ wire[accepted + 1] \in Seq(Byte)
      BY <2>1 DEF TypeInv, Conns
    <2>3. TypeInv'
      BY <1>b, <2>1, EmptySeq DEF TypeInv
    <2>4. got[accepted + 1] = <<>> /\ IsLeft(wire[accepted + 1], accepted + 1, sent[accepted + 1], 0)
      BY <2>2 DEF StreamInv
    <2>5. /\ (buf \o wire[client])' = wire[accepted + 1] /\ client' = accepted + 1
          /\ sent[client]' = sent[accepted + 1] /\ Len(got[client])' = 0
      <3>1. <<>> \o wire[accepted + 1] = wire[accepted + 1]
        BY <2>2, ConcatEmptySeq
      <3>2. Len(got[accepted + 1]) = 0
        BY <2>4
      <3> QED
        BY <2>1, <3>1, <3>2
    <2>6. IsLeft(buf \o wire[client], client, sent[client], Len(got[client]))'
      BY <2>4, <2>5, LeftNext
    <2>7. \A c \in Conns : c > accepted' => c > accepted
      BY <2>1 DEF TypeInv, Conns
    <2>8. StreamInv'
      BY <1>b, <2>1, <2>6, <2>7, LeftNext DEF StreamInv
    <2>9. FramesIntact' /\ BufferBounded'
      BY <1>b, <2>1, EmptySeq, SMTT(20) DEF FramesIntact, Serialize, BufferBounded, HeaderLen
    <2> QED
      BY <2>3, <2>8, <2>9
  <1>2. CASE TakeBuffered \/ TakeBufferedOversized
    <2>1. client # 0 /\ TakeFrame(buf) /\ UNCHANGED <<accepted, opened, sent, wire>>
      BY <1>2 DEF TakeBuffered, TakeBufferedOversized
    <2>2. PICK b \in Seq(Byte), w \in Seq(Byte) : b = buf /\ w = wire[client]
      BY <2>1 DEF TypeInv, Conns
    <2>3. wire' = [wire EXCEPT ![client] = w]
      BY <2>1, <2>2 DEF TypeInv
    <2>4. IsLeft(b \o w, client, sent[client], Len(got[client])) /\ TakeFrame(b)
          /\ Len(b) < HeaderLen + MaxFrameLen + ChunkLen
      BY <2>1, <2>2 DEF StreamInv, BufferBounded
    <2> QED
      BY <2>1, <2>3, <2>4, TakeFrameKeeps
  <1>3. CASE ReadBytes
    <2>0. client # 0 /\ ~Complete(buf) /\ ~Oversized(buf) /\ UNCHANGED <<accepted, opened, sent>>
      BY <1>3 DEF ReadBytes
    <2>1. PICK n \in 1..ChunkLen :
             /\ n <= Len(wire[client])
             /\ wire' = [wire EXCEPT ![client] = SubSeq(@, n + 1, Len(@))]
             /\ TakeFrame(buf \o SubSeq(wire[client], 1, n))
      BY <1>3 DEF ReadBytes
    <2>2. /\ client \in Conns /\ buf \in Seq(Byte) /\ wire[client] \in Seq(Byte) /\ Len(buf) \in Nat
          /\ n \in 1..Len(wire[client])
      <3>1. client \in Conns /\ buf \in Seq(Byte) /\ wire[client] \in Seq(Byte)
        BY <2>0 DEF TypeInv, Conns
      <3> QED
        BY <2>1, <3>1, LenProperties
    <2>3. PICK b, w : b = buf \o SubSeq(wire[client], 1, n) /\ w = SubSeq(wire[client], n + 1, Len(wire[client]))
      OBVIOUS
    <2>4. /\ b \in Seq(Byte) /\ w \in Seq(Byte) /\ Len(b) = Len(buf) + n /\ b \o w = buf \o wire[client]
      BY <2>2, <2>3, LeftRead
    <2>5. wire' = [wire EXCEPT ![client] = w] /\ TakeFrame(b)
      BY <2>1, <2>3
    <2>6. Len(b) < HeaderLen + MaxFrameLen + ChunkLen
      <3>1. Len(buf) < HeaderLen + MaxFrameLen
        BY <2>0, Incomplete
      <3> QED
        BY <2>2, <2>4, <3>1 DEF HeaderLen
    <2>7. IsLeft(b \o w, client, sent[client], Len(got[client]))
      BY <2>0, <2>4 DEF StreamInv
    <2> QED
      BY <2>0, <2>4, <2>5, <2>6, <2>7, TakeFrameKeeps
  <1>4. CASE DropClient
    <2>1. client' = 0 /\ buf' = <<>> /\ UNCHANGED <<accepted, opened, open, sent, wire, got>>
      BY <1>4 DEF DropClient, hosts
    <2>2. TypeInv'
      BY <1>b, <2>1, EmptySeq DEF TypeInv
    <2>3. StreamInv'
      BY <1>b, <2>1, LeftNext DEF StreamInv
    <2>4. FramesIntact' /\ BufferBounded'
      BY <1>b, <2>1, EmptySeq DEF FramesIntact, Serialize, BufferBounded, HeaderLen
    <2> QED
      BY <2>2, <2>3, <2>4
  <1> QED
    BY <1>1, <1>2, <1>3, <1>4 DEF DeviceNext

\* The steps of the hosts.
LEMMA HostStep ==
    ASSUME FramingInv, HostNext
    PROVE  FramingInv'
  <1> USE FramingAssumption DEF FramingInv
  <1>b. Conns' = Conns /\ Byte' = Byte
    BY DEF Conns, Byte
  <1>1. CASE HostConnect \/ HostClose
    <2>1. /\ UNCHANGED <<client, buf, accepted, sent, wire, got>>
          /\ opened' \in {opened, opened + 1} /\ opened' \in 0..MaxConns /\ open' \subseteq 1..opened'
      <3>1. CASE HostConnect
        <4>1. UNCHANGED <<client, buf, accepted, sent, wire, got>>
          BY <3>1 DEF HostConnect, device
        <4>2. opened < MaxConns /\ opened' = opened + 1 /\ open' = open \cup {opened + 1}
          BY <3>1 DEF HostConnect
        <4>3. opened + 1 \in 0..MaxConns /\ open \cup {opened + 1} \subseteq 1..(opened + 1)
          BY <4>2 DEF TypeInv
        <4> QED
          BY <4>1, <4>2, <4>3
      <3>2. CASE HostClose
        BY <3>2 DEF HostClose, device, TypeInv
      <3> QED
        BY <1>1, <3>1, <3>2
    <2>2. TypeInv'
      BY <1>b, <2>1 DEF TypeInv
    <2>3. StreamInv'
      BY <1>b, <2>1, LeftNext DEF StreamInv
    <2>4. FramesIntact' /\ BufferBounded'
      BY <1>b, <2>1 DEF FramesIntact, Serialize, BufferBounded, HeaderLen
    <2> QED
      BY <2>2, <2>3, <2>4
  <1>2. CASE HostSend
    <2>0. UNCHANGED <<client, buf, accepted, opened, open, got>>
      BY <1>2 DEF HostSend, device
    <2>1. PICK c \in open, len \in FrameLens :
             /\ sent' = [sent EXCEPT ![c] = Append(@, len)]
             /\ wire' = [wire EXCEPT ![c] = @ \o Serialize(c, Len(sent[c]) + 1, len)]
      BY <1>2 DEF HostSend
    <2>2. PICK ls, s, f : ls = sent[c] /\ s = wire[c] /\ f = Serialize(c, Len(sent[c]) + 1, len)
      OBVIOUS
    <2>3. c \in Conns /\ c \in Nat /\ len \in Nat /\ ls \in Seq(Nat) /\ s \in Seq(Byte) /\ Len(ls) \in Nat
      <3>1. c \in Conns /\ c \in Nat /\ len \in Nat
        BY DEF TypeInv, Conns
      <3> QED
        BY <2>2, <3>1, LenProperties DEF TypeInv
    <2>f. f = [i \in 1..(HeaderLen + len) |-> [conn |-> c, frame |-> Len(ls) + 1, at |-> i]]
      BY <2>2 DEF Serialize
    <2>4. /\ Append(ls, len) \in Seq(Nat) /\ Len(Append(ls, len)) = Len(ls) + 1
          /\ \A k \in 1..Len(ls) : Append(ls, len)[k] = ls[k]
      BY <2>3, AppendProperties
    <2>5. f \in Seq(Byte) /\ s \o f \in Seq(Byte)
      <3>1. HeaderLen + len \in Nat /\ \A i \in 1..(HeaderLen + len) : f[i] \in Byte
        BY <2>3, <2>f DEF HeaderLen, Byte
      <3>2. f \in Seq(Byte)
        BY <2>f, <3>1, IsASeq
      <3> QED
        BY <2>3, <3>2, ConcatProperties
    <2>6. /\ sent' \in [Conns -> Seq(Nat)] /\ sent'[c] = Append(ls, len)
          /\ wire' \in [Conns -> Seq(Byte)] /\ wire'[c] = s \o f
          /\ \A d \in Conns : d # c => sent'[d] = sent[d] /\ wire'[d] = wire[d]
      BY <2>1, <2>2, <2>3, <2>4, <2>5 DEF TypeInv
    <2>7. TypeInv'
      BY <1>b, <2>0, <2>6 DEF TypeInv
    <2>8. client # 0 => IsLeft(buf \o wire[client], client, sent[client], Len(got[client]))'
      <3>1. CASE client = 0
        BY <3>1
      <3>2. CASE client # 0 /\ client # c
        <4>1. client \in Conns
          BY <3>2 DEF TypeInv, Conns
        <4>2. /\ (buf \o wire[client])' = buf \o wire[client] /\ client' = client
              /\ sent[client]' = sent[client] /\ Len(got[client])' = Len(got[client])
          BY <2>0, <2>6, <3>2, <4>1
        <4> QED
          BY <3>2, <4>2, LeftNext DEF StreamInv
      <3>3. CASE client # 0 /\ client = c
        <4>1. PICK b, g : b = buf /\ g = Len(got[c])
          OBVIOUS
        <4>2. b \in Seq(Byte) /\ b \o s \in Seq(Byte) /\ IsLeft(b \o s, c, ls, g)
          BY <2>2, <2>3, <3>3, <4>1, ConcatProperties DEF TypeInv, StreamInv
        <4>3. IsLeft((b \o s) \o f, c, Append(ls, len), g)
          BY <2>3, <2>f, <4>2, LeftSend
        <4>4. (b \o s) \o f = b \o (s \o f)
          BY <2>3, <2>5, <4>2, Regroup, SMTT(20)
        <4>5. /\ (buf \o wire[client])' = b \o (s \o f) /\ client' = c
              /\ sent[client]' = Append(ls, len) /\ Len(got[client])' = g
          BY <2>0, <2>6, <3>3, <4>1
        <4> QED
          BY <4>3, <4>4, <4>5, LeftNext
      <3> QED
        BY <3>1, <3>2, <3>3
    <2>9. ASSUME NEW d \in Conns, d > accepted
          PROVE  got'[d] = <<>> /\ IsLeft(wire[d], d, sent[d], 0)'
      <3>0. got'[d] = <<>> /\ IsLeft(wire[d], d, sent[d], 0)
        BY <2>0, <2>9 DEF StreamInv
      <3>1. CASE d # c
        BY <2>6, <3>0, <3>1, LeftNext
      <3>2. CASE d = c
        <4>1. IsLeft(s \o f, c, Append(ls, len), 0)
          BY <2>2, <2>3, <2>f, <3>0, <3>2, LeftSend
        <4> QED
          BY <2>6, <3>0, <3>2, <4>1, LeftNext
      <3> QED
        BY <3>1, <3>2
    <2>10. StreamInv'
      BY <1>b, <2>0, <2>8, <2>9 DEF StreamInv
    <2>11. FramesIntact'
      <3>1. ASSUME NEW d \in Conns, NEW k \in DOMAIN got[d]
            PROVE  k <= Len(sent'[d]) /\ got[d][k] = Serialize(d, k, sent'[d][k])
        <4>0. k <= Len(sent[d]) /\ got[d][k] = Serialize(d, k, sent[d][k]) /\ k \in Nat /\ k > 0
          <5>1. got[d] \in Seq(Seq(Byte))
            BY DEF TypeInv
          <5>2. k \in 1..Len(got[d]) /\ Len(got[d]) \in Nat
            BY <5>1, LenProperties
          <5> QED
            BY <5>2 DEF FramesIntact
        <4>1. CASE d # c
          BY <2>6, <4>0, <4>1
        <4>2. CASE d = c
          <5>1. k \in 1..Len(ls)
            BY <2>2, <2>3, <4>0, <4>2
          <5>2. sent'[d][k] = sent[d][k] /\ Len(sent'[d]) = Len(sent[d]) + 1
            BY <2>2, <2>4, <2>6, <4>2, <5>1
          <5>3. k <= Len(ls) + 1
            BY <2>3, <5>1
          <5> QED
            BY <2>2, <4>0, <4>2, <5>2, <5>3, Zenon
        <4> QED
          BY <4>1, <4>2
      <3> QED
        BY <1>b, <2>0, <3>1 DEF FramesIntact, Serialize
    <2>12. BufferBounded'
      BY <2>0 DEF BufferBounded, HeaderLen
    <2> QED
      BY <2>7, <2>10, <2>11, <2>12
  <1> QED
    BY <1>1, <1>2 DEF HostNext

-----------------------------------------------------------------------------
\* What is buffered and on the wire is what was sent and not returned.
THEOREM FramingInvariant == Spec => []FramingInv
  <1>1. Init => FramingInv
    <2> SUFFICES ASSUME Init PROVE FramingInv
      OBVIOUS
    <2>1. TypeInv
      BY FramingAssumption, EmptySeq DEF Init, TypeInv
    <2>2. StreamInv
      BY LeftEmpty DEF Init, StreamInv
    <2>3. FramesIntact
      BY DEF Init, FramesIntact
    <2>4. BufferBounded
      <3>1. Len(buf) = 0
        BY DEF Init
      <3> QED
        BY <3>1, FramingAssumption DEF BufferBounded, HeaderLen
    <2> QED
      BY <2>1, <2>2, <2>3, <2>4 DEF FramingInv
  <1>2. FramingInv /\ [Next]_vars => FramingInv'
    <2> SUFFICES ASSUME FramingInv, [Next]_vars PROVE FramingInv'
      OBVIOUS
    <2>1. CASE UNCHANGED vars
      <3>1. UNCHANGED <<client, buf, accepted, opened, open, sent, wire, got>>
        BY <2>1 DEF vars, device, hosts
      <3>2. Conns' = Conns /\ Byte' = Byte
        BY DEF Conns, Byte
      <3>3. TypeInv'
        BY <3>1, <3>2 DEF FramingInv, TypeInv
      <3>4. StreamInv'
        <4>1. client # 0 => IsLeft(buf \o wire[client], client, sent[client], Len(got[client]))'
          <5>1. /\ (buf \o wire[client])' = buf \o wire[client] /\ client' = client
                /\ sent[client]' = sent[client] /\ Len(got[client])' = Len(got[client])
            BY <3>1
          <5> QED
            BY <5>1, LeftNext DEF FramingInv, StreamInv
        <4> QED
          BY <3>1, <3>2, <4>1, LeftNext DEF FramingInv, StreamInv
      <3>5. FramesIntact' /\ BufferBounded'
        BY <3>1, <3>2 DEF FramingInv, FramesIntact, Serialize, BufferBounded, HeaderLen
      <3> QED
        BY <3>3, <3>4, <3>5 DEF FramingInv
    <2> QED
      BY <2>1, HostStep, DeviceStep DEF Next
  <1> QED
    BY <1>1, <1>2, PTL DEF Spec

\* However the reads cut the streams, whatever the lengths of the frames and
\* whenever clients come and go, read_frame returns of each connection the
\* frames that were sent on it, whole and in order.
THEOREM FramesArriveIntact == Spec => []FramesIntact
  <1>1. FramingInv => FramesIntact
    BY DEF FramingInv
  <1> QED
    BY <1>1, FramingInvariant, PTL

\* MAX_FRAME_LEN bounds the buffer for every length a header can declare.
THEOREM BufferStaysBounded == Spec => []BufferBounded
  <1>1. FramingInv => BufferBounded
    BY DEF FramingInv
  <1> QED
    BY <1>1, FramingInvariant, PTL

=============================================================================
