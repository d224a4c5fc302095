-------------------------- MODULE StreamLoopProofs --------------------------
(***************************************************************************)
(* The receivers on a byte stream, for every reader, any frames and reads  *)
(* of any size: up to the first frame that is too long, the frames         *)
(* dispatched are the frames sent.                                         *)
(*                                                                         *)
(* The invariant says that the loop is in step or lost.  In step, what it  *)
(* has buffered followed by what is still on the wire is the host's stream *)
(* after the frames dispatched.  Lost, it had been in step up to a frame   *)
(* that is too long, and nothing is claimed of what it reads from then on. *)
(***************************************************************************)
EXTENDS StreamLoop, SequenceTheorems, TLAPS

Frame == [op : Byte, payload : Seq(Byte)]

\* The frames whose length is a u32.
Sendable == {f \in Frame : IsU32(Len(f.payload))}

\* tab holds what is left of the stream of the frames fs before each of them,
\* and after the last.
Tails(fs, tab) ==
    /\ tab \in [1..(Len(fs) + 1) -> Seq(Byte)]
    /\ tab[Len(fs) + 1] = <<>>
    /\ \A k \in 1..Len(fs) : tab[k] = Serialize(fs[k]) \o tab[k + 1]

\* s is what is left of the stream of fs after its first g frames.
IsLeft(s, fs, g) ==
    /\ g \in 0..Len(fs)
    /\ \E tab : Tails(fs, tab) /\ tab[g + 1] = s

StreamTypeInv ==
    /\ reader \in Readers
    /\ wire \in Seq(Byte) /\ frameBuf \in Seq(Byte)
    /\ handled \in Seq(Frame)
    /\ sent \in Seq(Sendable)

\* The first n frames dispatched are the first n sent.
Agree(n) == \A i \in 1..n : i <= Len(handled) /\ i <= Len(sent) /\ handled[i] = sent[i]

InStepInv == Agree(Len(handled)) /\ IsLeft(frameBuf \o wire, sent, Len(handled))

Lost == \E j \in 1..Len(sent) : ~Fits(sent[j]) /\ Agree(j - 1)

StreamInv == StreamTypeInv /\ (InStepInv \/ Lost)

-----------------------------------------------------------------------------
(* Streams.                                                                *)

\* What from_be_bytes reads is what to_be_bytes wrote.
LEMMA BigEndian ==
    ASSUME NEW n \in Nat, IsU32(n), NEW a, NEW b, NEW c,
           a = n \div 256, b = a \div 256, c = b \div 256
    PROVE  /\ c \in Byte /\ b % 256 \in Byte /\ a % 256 \in Byte /\ n % 256 \in Byte
           /\ ((c * 256 + (b % 256)) * 256 + (a % 256)) * 256 + (n % 256) = n
  <1>1. a \in Nat /\ b \in Nat /\ c \in Nat /\ c < 256
    BY DEF IsU32
  <1>2. a * 256 + (n % 256) = n /\ b * 256 + (a % 256) = a /\ c * 256 + (b % 256) = b
    BY <1>1
  <1> QED
    BY <1>1, <1>2 DEF Byte

\* What the parts of a serialized frame are, and the length its header declares.
LEMMA SerializeBytes ==
    ASSUME NEW f \in Sendable
    PROVE  /\ Serialize(f) \in Seq(Byte) /\ Len(f.payload) \in Nat
           /\ Len(Serialize(f)) = HeaderLen + Len(f.payload)
           /\ Serialize(f)[1] = f.op
           /\ DeclaredLen(Serialize(f)) = Len(f.payload)
           /\ \A i \in 1..Len(f.payload) : Serialize(f)[HeaderLen + i] = f.payload[i]
  <1>1. PICK p, n : p = f.payload /\ n = Len(p)
    OBVIOUS
  <1>2. p \in Seq(Byte) /\ n \in Nat /\ IsU32(n) /\ f.op \in Byte
    <2>1. f.payload \in Seq(Byte) /\ f.op \in Byte /\ IsU32(Len(p))
      BY <1>1 DEF Sendable, Frame
    <2>2. p \in Seq(Byte)
      BY <1>1, <2>1
    <2>3. Len(p) \in Nat
      BY <2>2, LenProperties
    <2> QED
      BY <1>1, <2>1, <2>2, <2>3
  <1>a. PICK a, b, c : a = n \div 256 /\ b = a \div 256 /\ c = b \div 256
    OBVIOUS
  <1>3. PICK d1, d2, d3, d4 : d1 = c /\ d2 = b % 256 /\ d3 = a % 256 /\ d4 = n % 256
    OBVIOUS
  <1>b. /\ d1 \in Byte /\ d2 \in Byte /\ d3 \in Byte /\ d4 \in Byte
        /\ ((d1 * 256 + d2) * 256 + d3) * 256 + d4 = n
    BY <1>2, <1>3, <1>a, BigEndian
  <1>h. PICK h : h = <<f.op, d1, d2, d3, d4>>
    OBVIOUS
  <1>4. /\ h \in Seq(Byte) /\ Len(h) = 5
        /\ h[1] = f.op /\ h[2] = d1 /\ h[3] = d2 /\ h[4] = d3 /\ h[5] = d4
    BY <1>2, <1>b, <1>h
  <1>5. /\ h \o p \in Seq(Byte) /\ Len(h \o p) = 5 + n
        /\ \A i \in 1..(5 + n) : (h \o p)[i] = IF i <= 5 THEN h[i] ELSE p[i - 5]
    <2>1. /\ h \o p \in Seq(Byte) /\ Len(h \o p) = Len(h) + Len(p)
          /\ \A i \in 1..(Len(h) + Len(p)) : (h \o p)[i] = IF i <= Len(h) THEN h[i] ELSE p[i - Len(h)]
      BY <1>2, <1>4, ConcatProperties
    <2> QED
      BY <1>1, <1>4, <2>1
  <1>6. Serialize(f) = h \o p
    <2>1. Header(f.op, n) = h
      BY <1>3, <1>a, <1>h DEF Header
    <2> QED
      BY <1>1, <2>1 DEF Serialize
  <1>7. \A i \in 1..n : 5 + i \in 1..(5 + n) /\ ~(5 + i <= 5) /\ (5 + i) - 5 = i
    BY <1>2
  <1>8. \A i \in 1..5 : (h \o p)[i] = h[i]
    BY <1>2, <1>5
  <1>9. \A i \in 1..n : (h \o p)[5 + i] = p[i]
    BY <1>5, <1>7
  <1>10. PICK z : z = Serialize(f)
    OBVIOUS
  <1>11. /\ z \in Seq(Byte) /\ Len(z) = 5 + n
         /\ \A i \in 1..n : z[5 + i] = p[i]
    BY <1>5, <1>6, <1>9, <1>10, Zenon
  <1>12. z[1] = f.op /\ z[2] = d1 /\ z[3] = d2 /\ z[4] = d3 /\ z[5] = d4
    <2>1. \A i \in 1..5 : z[i] = h[i]
      BY <1>6, <1>8, <1>10, Zenon
    <2> QED
      BY <1>4, <2>1
  <1>13. DeclaredLen(z) = n
    BY <1>12, <1>b DEF DeclaredLen
  <1> QED
    BY <1>1, <1>2, <1>10, <1>11, <1>12, <1>13, Zenon DEF HeaderLen

\* Concatenation is associative.
LEMMA Regroup ==
    ASSUME NEW x \in Seq(Byte), NEW y \in Seq(Byte), NEW z \in Seq(Byte)
    PROVE  (x \o y) \o z = x \o (y \o z)
  BY ConcatAssociative

\* Nothing has been sent.
LEMMA LeftEmpty == IsLeft(<<>>, <<>>, 0)
  <1> DEFINE tab == [k \in 1..1 |-> <<>>]
  <1>1. Len(<<>>) = 0 /\ <<>> \in Seq(Byte)
    BY EmptySeq
  <1>2. Tails(<<>>, tab) /\ tab[0 + 1] = <<>>
    BY <1>1 DEF Tails
  <1> QED
    BY <1>1, <1>2 DEF IsLeft

\* The host sends one more frame.
LEMMA LeftSend ==
    ASSUME NEW fs \in Seq(Sendable), NEW g, NEW s, IsLeft(s, fs, g), NEW f \in Sendable
    PROVE  IsLeft(s \o Serialize(f), Append(fs, f), g)
  <1> DEFINE n == Len(fs)
             gs == Append(fs, f)
  <1>1. PICK tab : Tails(fs, tab) /\ tab[g + 1] = s
    BY DEF IsLeft
  <1>2. PICK z : z = Serialize(f)
    OBVIOUS
  <1>3. z \in Seq(Byte) /\ n \in Nat /\ g \in 0..n /\ <<>> \in Seq(Byte)
    BY <1>2, SerializeBytes, LenProperties, EmptySeq DEF IsLeft
  <1>4. gs \in Seq(Sendable) /\ Len(gs) = n + 1 /\ (\A k \in 1..n : gs[k] = fs[k]) /\ gs[n + 1] = f
    BY AppendProperties
  <1> HIDE DEF gs
  <1> DEFINE tt == [k \in 1..(n + 2) |-> IF k = n + 2 THEN <<>> ELSE tab[k] \o z]
  <1>5. \A k \in 1..(n + 1) : k # n + 2 /\ k \in 1..(n + 2) /\ tab[k] \in Seq(Byte)
    BY <1>1, <1>3 DEF Tails
  <1>6. \A k \in 1..(n + 1) : tt[k] = tab[k] \o z
    BY <1>5
  <1>7. tt[n + 2] = <<>>
    BY <1>3
  <1>8. tt \in [1..(n + 2) -> Seq(Byte)]
    <2>1. \A k \in 1..(n + 2) : k = n + 2 \/ k \in 1..(n + 1)
      BY <1>3
    <2>2. \A k \in 1..(n + 1) : tab[k] \o z \in Seq(Byte)
      BY <1>3, <1>5, ConcatProperties
    <2>3. \A k \in 1..(n + 2) : (IF k = n + 2 THEN <<>> ELSE tab[k] \o z) \in Seq(Byte)
      BY <1>3, <2>1, <2>2
    <2> QED
      BY <2>3
  <1> HIDE DEF tt
  <1>9. ASSUME NEW k \in 1..(n + 1) PROVE tt[k] = Serialize(gs[k]) \o tt[k + 1]
    <2>1. CASE k = n + 1
      <3>1. tab[n + 1] = <<>> /\ n + 1 \in 1..(n + 1) /\ (n + 1) + 1 = n + 2
        BY <1>1, <1>3 DEF Tails
      <3>2. tt[k] = <<>> \o z /\ tt[k + 1] = <<>>
        BY <1>6, <1>7, <2>1, <3>1
      <3>3. <<>> \o z = z /\ z \o <<>> = z
        BY <1>3, ConcatEmptySeq
      <3> QED
        BY <1>2, <1>4, <2>1, <3>2, <3>3
    <2>2. CASE k # n + 1
      <3>1. k \in 1..n /\ k + 1 \in 1..(n + 1)
        BY <1>3, <2>2
      <3>2. PICK x, y : x = Serialize(fs[k]) /\ y = tab[k + 1]
        OBVIOUS
      <3>3. x \in Seq(Byte) /\ y \in Seq(Byte)
        <4>1. fs[k] \in Sendable
          BY <3>1, ElementOfSeq
        <4> QED
          BY <1>5, <3>1, <3>2, <4>1, SerializeBytes
      <3>4. tab[k] = x \o y
        BY <1>1, <3>1, <3>2 DEF Tails
      <3>5. tt[k] = (x \o y) \o z /\ tt[k + 1] = y \o z
        BY <1>6, <3>1, <3>2, <3>4
      <3>6. (x \o y) \o z = x \o (y \o z)
        BY <1>3, <3>3, Regroup
      <3> QED
        BY <1>4, <3>1, <3>2, <3>5, <3>6
    <2> QED
      BY <2>1, <2>2
  <1>10. Tails(gs, tt)
    <2>1. (n + 1) + 1 = n + 2
      BY <1>3
    <2> QED
      BY <1>4, <1>7, <1>8, <1>9, <2>1 DEF Tails
  <1>11. tt[g + 1] = s \o z /\ g \in 0..(n + 1)
    <2>1. g + 1 \in 1..(n + 1) /\ g \in 0..(n + 1)
      BY <1>3
    <2> QED
      BY <1>1, <1>6, <2>1
  <1> QED
    BY <1>2, <1>4, <1>10, <1>11 DEF IsLeft, gs

\* While bytes are left, they begin with the next frame.
LEMMA LeftFront ==
    ASSUME NEW fs \in Seq(Sendable), NEW g, NEW s, IsLeft(s, fs, g), s # <<>>
    PROVE  /\ g + 1 \in 1..Len(fs) /\ fs[g + 1] \in Sendable /\ g \in Nat
           /\ \E t \in Seq(Byte) : s = Serialize(fs[g + 1]) \o t /\ IsLeft(t, fs, g + 1)
  <1> DEFINE n == Len(fs)
  <1>1. PICK tab : Tails(fs, tab) /\ tab[g + 1] = s
    BY DEF IsLeft
  <1>2. n \in Nat /\ g \in 0..n
    BY LenProperties DEF IsLeft
  <1>3. g # n
    BY <1>1 DEF Tails
  <1>4. g + 1 \in 1..n /\ g \in Nat /\ g + 1 \in 0..n /\ (g + 1) + 1 \in 1..(n + 1)
    BY <1>2, <1>3
  <1>5. s = Serialize(fs[g + 1]) \o tab[(g + 1) + 1] /\ tab[(g + 1) + 1] \in Seq(Byte)
    BY <1>1, <1>4 DEF Tails
  <1>6. IsLeft(tab[(g + 1) + 1], fs, g + 1)
    BY <1>1, <1>4 DEF IsLeft
  <1>7. fs[g + 1] \in Sendable
    BY <1>4, ElementOfSeq
  <1> QED
    BY <1>4, <1>5, <1>6, <1>7

\* A byte of a concatenation is one of the first or of the second sequence.
LEMMA ConcatAt ==
    ASSUME NEW x \in Seq(Byte), NEW y \in Seq(Byte)
    PROVE  /\ x \o y \in Seq(Byte) /\ Len(x \o y) = Len(x) + Len(y)
           /\ \A i \in 1..Len(x) : (x \o y)[i] = x[i]
           /\ \A i \in 1..Len(y) : (x \o y)[Len(x) + i] = y[i]
  <1>1. Len(x) \in Nat /\ Len(y) \in Nat
    BY LenProperties
  <1>2. /\ x \o y \in Seq(Byte) /\ Len(x \o y) = Len(x) + Len(y)
        /\ \A i \in 1..(Len(x) + Len(y)) : (x \o y)[i] = IF i <= Len(x) THEN x[i] ELSE y[i - Len(x)]
    BY ConcatProperties
  <1>3. \A i \in 1..Len(x) : i \in 1..(Len(x) + Len(y)) /\ i <= Len(x)
    BY <1>1
  <1>4. \A i \in 1..Len(y) :
           Len(x) + i \in 1..(Len(x) + Len(y)) /\ ~(Len(x) + i <= Len(x)) /\ (Len(x) + i) - Len(x) = i
    BY <1>1
  <1> QED
    BY <1>2, <1>3, <1>4

\* Two ways to cut a sequence: what the longer first part has beyond the
\* shorter one begins the other rest.
LEMMA CutTwice ==
    ASSUME NEW b \in Seq(Byte), NEW w \in Seq(Byte), NEW z \in Seq(Byte), NEW t \in Seq(Byte),
           b \o w = z \o t
    PROVE  /\ \A i \in 1..Len(z) : i <= Len(b) => b[i] = z[i]
           /\ Len(z) <= Len(b) =>
                 /\ SubSeq(b, Len(z) + 1, Len(b)) \in Seq(Byte)
                 /\ SubSeq(b, Len(z) + 1, Len(b)) \o w = t
  <1>1. /\ Len(b) \in Nat /\ Len(w) \in Nat /\ Len(z) \in Nat /\ Len(t) \in Nat
        /\ \A i \in 1..Len(b) : b[i] \in Byte
    BY LenProperties, ElementOfSeq
  <1>2. PICK s : s = b \o w
    OBVIOUS
  <1>v. s = z \o t
    BY <1>2
  <1>3. /\ Len(s) = Len(b) + Len(w)
        /\ \A i \in 1..Len(b) : s[i] = b[i]
        /\ \A i \in 1..Len(w) : s[Len(b) + i] = w[i]
    <2>1. /\ Len(b \o w) = Len(b) + Len(w)
          /\ \A i \in 1..Len(b) : (b \o w)[i] = b[i]
          /\ \A i \in 1..Len(w) : (b \o w)[Len(b) + i] = w[i]
      BY ConcatAt
    <2> QED
      BY <1>2, <2>1, Zenon
  <1>4. /\ Len(s) = Len(z) + Len(t)
        /\ \A i \in 1..Len(z) : s[i] = z[i]
        /\ \A i \in 1..Len(t) : s[Len(z) + i] = t[i]
    BY <1>v, ConcatAt
  <1>5. ASSUME NEW i \in 1..Len(z), i <= Len(b) PROVE b[i] = z[i]
    <2>1. i \in 1..Len(b)
      BY <1>1, <1>5
    <2> QED
      BY <1>3, <1>4, <2>1
  <1>6. ASSUME Len(z) <= Len(b)
        PROVE  /\ SubSeq(b, Len(z) + 1, Len(b)) \in Seq(Byte)
               /\ SubSeq(b, Len(z) + 1, Len(b)) \o w = t
    <2>1. PICK r, m, n : r = SubSeq(b, m + 1, n) /\ m = Len(z) /\ n = Len(b)
      OBVIOUS
    <2>2. /\ m \in Nat /\ n \in Nat /\ m <= n /\ m + 1 \in Int /\ n \in Int
          /\ \A i \in (m + 1)..n : b[i] \in Byte
      BY <1>1, <1>6, <2>1
    <2>3. /\ r \in Seq(Byte) /\ Len(r) = IF m + 1 <= n THEN n - (m + 1) + 1 ELSE 0
          /\ \A i \in 1..(n - (m + 1) + 1) : r[i] = b[(m + 1) + i - 1]
      BY <2>1, <2>2, SubSeqProperties
    <2>4. /\ Len(r) = n - m
          /\ \A i \in 1..(n - m) : r[i] = b[m + i]
      <3>1. n - (m + 1) + 1 = n - m /\ (IF m + 1 <= n THEN n - (m + 1) + 1 ELSE 0) = n - m
        BY <2>2
      <3>2. \A i \in 1..(n - m) : (m + 1) + i - 1 = m + i
        BY <2>2
      <3> QED
        BY <2>3, <3>1, <3>2
    <2>5. /\ r \o w \in Seq(Byte) /\ Len(r \o w) = Len(r) + Len(w)
          /\ \A i \in 1..Len(r) : (r \o w)[i] = r[i]
          /\ \A i \in 1..Len(w) : (r \o w)[Len(r) + i] = w[i]
      BY <2>3, ConcatAt
    <2>6. Len(r \o w) = Len(t)
      BY <1>1, <1>3, <1>4, <2>1, <2>2, <2>4, <2>5
    <2>7. ASSUME NEW i \in 1..Len(t) PROVE (r \o w)[i] = t[i]
      <3>1. s[m + i] = t[i]
        BY <1>4, <2>1
      <3>2. CASE i <= n - m
        <4>1. i \in 1..(n - m) /\ m + i \in 1..Len(b) /\ i \in 1..Len(r)
          BY <1>1, <2>1, <2>2, <2>4, <3>2
        <4> QED
          BY <1>3, <2>4, <2>5, <3>1, <4>1
      <3>3. CASE ~(i <= n - m)
        <4>1. PICK k \in 1..Len(w) : i = (n - m) + k
          <5>1. i - (n - m) \in 1..Len(w) /\ i = (n - m) + (i - (n - m))
            BY <1>1, <1>3, <1>4, <2>1, <2>2, <3>3
          <5> QED
            BY <5>1
        <4>2. m + i = Len(b) + k /\ i = Len(r) + k
          <5>1. \A x, y, u \in Nat : x + ((y - x) + u) = y + u
            OBVIOUS
          <5>2. k \in Nat
            BY <1>1, <4>1
          <5> QED
            BY <2>1, <2>2, <2>4, <4>1, <5>1, <5>2
        <4> QED
          BY <1>3, <2>5, <3>1, <4>2
      <3> QED
        BY <3>2, <3>3
    <2>8. r \o w = t
      <3>1. \A i \in 1..Len(r \o w) : (r \o w)[i] = t[i]
        BY <2>6, <2>7
      <3> QED
        BY <2>5, <2>6, <3>1, SeqEqual
    <2> QED
      BY <2>1, <2>3, <2>8
  <1> QED
    BY <1>5, <1>6

\* The header in front is that of the next frame sent; if the frame is
\* complete it is that frame, and what is left without it is what is left
\* after it.
LEMMA LeftTake ==
    ASSUME NEW fs \in Seq(Sendable), NEW g, NEW b \in Seq(Byte), NEW w \in Seq(Byte),
           IsLeft(b \o w, fs, g), HasHeader(b)
    PROVE  /\ g \in Nat /\ g + 1 \in 1..Len(fs) /\ fs[g + 1] \in Sendable
           /\ DeclaredLen(b) = Len(fs[g + 1].payload)
           /\ Len(b) >= HeaderLen + DeclaredLen(b) =>
                 /\ FirstFrame(b) = fs[g + 1]
                 /\ Rest(b) \in Seq(Byte)
                 /\ IsLeft(Rest(b) \o w, fs, g + 1)
  <1>1. Len(b) \in Nat /\ Len(b) >= 5
    BY LenProperties DEF HasHeader, HeaderLen
  <1>2. b \o w # <<>>
    <2>1. Len(b \o w) = Len(b) + Len(w) /\ Len(w) \in Nat
      BY ConcatAt, LenProperties
    <2> QED
      BY <1>1, <2>1, EmptySeq
  <1>3. g \in Nat /\ g + 1 \in 1..Len(fs) /\ fs[g + 1] \in Sendable
    BY <1>2, LeftFront
  <1>4. PICK t \in Seq(Byte) : b \o w = Serialize(fs[g + 1]) \o t /\ IsLeft(t, fs, g + 1)
    BY <1>2, LeftFront
  <1>5. PICK f \in Sendable : f = fs[g + 1]
    BY <1>3
  <1>6. PICK z, p : z = Serialize(f) /\ p = f.payload
    OBVIOUS
  <1>7. z \in Seq(Byte) /\ z[1] = f.op /\ DeclaredLen(z) = Len(p)
    BY <1>6, SerializeBytes
  <1>l. Len(p) \in Nat /\ Len(z) = 5 + Len(p)
    BY <1>6, SerializeBytes DEF HeaderLen
  <1>p. \A i \in 1..Len(p) : z[5 + i] = p[i]
    BY <1>6, SerializeBytes DEF HeaderLen
  <1>8. b \o w = z \o t
    BY <1>4, <1>5, <1>6
  <1>9. /\ \A i \in 1..Len(z) : i <= Len(b) => b[i] = z[i]
        /\ Len(z) <= Len(b) =>
              /\ SubSeq(b, Len(z) + 1, Len(b)) \in Seq(Byte)
              /\ SubSeq(b, Len(z) + 1, Len(b)) \o w = t
    <2>1. z \in Seq(Byte) /\ t \in Seq(Byte)
      BY <1>4, <1>7
    <2> QED
      BY <1>8, <2>1, CutTwice, Zenon
  <1>10. b[1] = z[1] /\ b[2] = z[2] /\ b[3] = z[3] /\ b[4] = z[4] /\ b[5] = z[5]
    <2>1. \A i \in 1..5 : i \in 1..Len(z) /\ i <= Len(b)
      BY <1>1, <1>l
    <2>2. 1 \in 1..5 /\ 2 \in 1..5 /\ 3 \in 1..5 /\ 4 \in 1..5 /\ 5 \in 1..5
      OBVIOUS
    <2> QED
      BY <1>9, <2>1, <2>2
  <1>11. DeclaredLen(b) = Len(p)
    <2>1. DeclaredLen(b) = DeclaredLen(z)
      BY <1>10 DEF DeclaredLen
    <2> QED
      BY <1>7, <2>1
  <1>12. ASSUME Len(b) >= HeaderLen + DeclaredLen(b)
         PROVE  /\ FirstFrame(b) = f /\ Rest(b) \in Seq(Byte)
                /\ IsLeft(Rest(b) \o w, fs, g + 1)
    <2>1. Len(z) <= Len(b) /\ HeaderLen + DeclaredLen(b) = Len(z) /\ Len(p) \in Nat
      <3>1. 5 + DeclaredLen(b) = Len(z) /\ Len(b) >= 5 + DeclaredLen(b)
        BY <1>11, <1>12, <1>l DEF HeaderLen
      <3> QED
        BY <1>1, <1>l, <3>1 DEF HeaderLen
    <2>2. Rest(b) \in Seq(Byte) /\ Rest(b) \o w = t
      BY <1>9, <2>1 DEF Rest
    <2>3. PICK q, m : q = SubSeq(b, 5 + 1, m) /\ m = 5 + Len(p)
      OBVIOUS
    <2>4. /\ m \in Int /\ 5 + 1 \in Int /\ m <= Len(b)
          /\ \A i \in (5 + 1)..m : b[i] \in Byte
      <3>1. m \in Int /\ m <= Len(b)
        <4>1. m = Len(z)
          BY <1>l, <2>3
        <4> QED
          BY <2>1, <2>3, <4>1
      <3>2. \A i \in (5 + 1)..m : i \in 1..Len(b)
        BY <1>1, <3>1
      <3> QED
        BY <3>1, <3>2, ElementOfSeq
    <2>5. /\ q \in Seq(Byte) /\ Len(q) = IF 5 + 1 <= m THEN m - (5 + 1) + 1 ELSE 0
          /\ \A i \in 1..(m - (5 + 1) + 1) : q[i] = b[(5 + 1) + i - 1]
      BY <2>3, <2>4, SubSeqProperties
    <2>6. Len(q) = Len(p) /\ m - (5 + 1) + 1 = Len(p)
      BY <2>1, <2>3, <2>5
    <2>7. ASSUME NEW i \in 1..Len(p) PROVE q[i] = p[i]
      <3>1. q[i] = b[5 + i]
        <4>1. (5 + 1) + i - 1 = 5 + i
          BY <2>1
        <4> QED
          BY <2>5, <2>6, <4>1
      <3>2. 5 + i \in 1..Len(z) /\ 5 + i <= Len(b)
        BY <1>1, <1>l, <2>1
      <3> QED
        BY <1>p, <1>9, <3>1, <3>2
    <2>8. f \in Frame /\ p \in Seq(Byte)
      BY <1>6 DEF Sendable, Frame
    <2>9. q = p
      <3>1. \A i \in 1..Len(q) : q[i] = p[i]
        BY <2>6, <2>7
      <3> QED
        BY <2>5, <2>6, <2>8, <3>1, SeqEqual
    <2>10. FirstFrame(b) = [op |-> b[1], payload |-> q]
      BY <1>11, <2>3 DEF FirstFrame, HeaderLen
    <2>11. f = [op |-> f.op, payload |-> f.payload]
      BY <2>8 DEF Frame
    <2> QED
      BY <1>4, <1>6, <1>7, <1>10, <2>2, <2>9, <2>10, <2>11
  <1> QED
    BY <1>3, <1>5, <1>6, <1>11, <1>12

\* A read moves bytes from the wire to the end of the buffer.
LEMMA LeftRead ==
    ASSUME NEW b \in Seq(Byte), NEW w \in Seq(Byte), NEW n \in 1..Len(w)
    PROVE  /\ b \o SubSeq(w, 1, n) \in Seq(Byte) /\ SubSeq(w, n + 1, Len(w)) \in Seq(Byte)
           /\ (b \o SubSeq(w, 1, n)) \o SubSeq(w, n + 1, Len(w)) = b \o w
  <1>1. PICK x, y : x = SubSeq(w, 1, n) /\ y = SubSeq(w, n + 1, Len(w))
    OBVIOUS
  <1>2. Len(w) \in Nat /\ \A i \in 1..Len(w) : w[i] \in Byte
    BY LenProperties, ElementOfSeq
  <1>3. x \in Seq(Byte)
    <2>1. 1 \in Int /\ n \in Int /\ \A i \in 1..n : w[i] \in Byte
      BY <1>2
    <2> QED
      BY <1>1, <2>1, SubSeqProperties
  <1>4. y \in Seq(Byte)
    <2>1. n + 1 \in Int /\ Len(w) \in Int /\ \A i \in (n + 1)..Len(w) : w[i] \in Byte
      BY <1>2
    <2> QED
      BY <1>1, <2>1, SubSeqProperties
  <1>5. x \o y = w
    <2>1. 1 \in 1..(Len(w) + 1) /\ n \in (1 - 1)..Len(w) /\ Len(w) \in n..Len(w)
      BY <1>2
    <2>2. SubSeq(w, 1, n) \o SubSeq(w, n + 1, Len(w)) = SubSeq(w, 1, Len(w))
      BY <2>1, ConcatAdjacentSubSeq
    <2> QED
      BY <1>1, <2>2, SubSeqFull
  <1>6. b \o x \in Seq(Byte) /\ (b \o x) \o y = b \o w
    <2>1. b \o x \in Seq(Byte)
      BY <1>3, ConcatProperties
    <2>2. (b \o x) \o y = b \o (x \o y)
      BY <1>3, <1>4, Regroup, SMTT(40)
    <2> QED
      BY <1>5, <2>1, <2>2
  <1> QED
    BY <1>1, <1>4, <1>6

-----------------------------------------------------------------------------
(* The steps.                                                              *)

\* IsLeft in the next state.
LEMMA LeftNext ==
    ASSUME NEW s, NEW fs, NEW g, IsLeft(s, fs, g),
           frameBuf' \o wire' = s, sent' = fs, Len(handled') = g
    PROVE  IsLeft(frameBuf \o wire, sent, Len(handled))'
  <1>1. PICK tab : Tails(fs, tab) /\ tab[g + 1] = s
    BY DEF IsLeft
  <1>2. Tails(sent, tab)'
    <2>1. Byte' = Byte /\ \A k \in 1..Len(fs) : Serialize(sent[k])' = Serialize(fs[k])
      BY DEF Byte, Serialize, Header
    <2> QED
      BY <1>1, <2>1 DEF Tails
  <1> QED
    BY <1>1, <1>2 DEF IsLeft

\* What was dispatched and sent stays.
LEMMA AgreeStays ==
    ASSUME StreamTypeInv, NEW n \in Nat, Agree(n),
           handled' = handled \/ \E f \in Frame : handled' = Append(handled, f),
           sent' = sent \/ \E f \in Sendable : sent' = Append(sent, f)
    PROVE  \A i \in 1..n : i <= Len(handled') /\ i <= Len(sent') /\ handled'[i] = sent'[i]
  <1>1. /\ Len(handled) \in Nat /\ Len(handled') \in Nat /\ Len(handled) <= Len(handled')
        /\ \A i \in 1..Len(handled) : handled'[i] = handled[i]
    <2>0. handled \in Seq(Frame) /\ Len(handled) \in Nat
      BY LenProperties DEF StreamTypeInv
    <2>1. CASE handled' = handled
      BY <2>0, <2>1
    <2>2. ASSUME NEW f \in Frame, handled' = Append(handled, f)
          PROVE  /\ Len(handled') \in Nat /\ Len(handled) <= Len(handled')
                 /\ \A i \in 1..Len(handled) : handled'[i] = handled[i]
      BY <2>0, <2>2, AppendProperties
    <2> QED
      BY <2>0, <2>1, <2>2
  <1>2. /\ Len(sent) \in Nat /\ Len(sent') \in Nat /\ Len(sent) <= Len(sent')
        /\ \A i \in 1..Len(sent) : sent'[i] = sent[i]
    <2>0. sent \in Seq(Sendable) /\ Len(sent) \in Nat
      BY LenProperties DEF StreamTypeInv, Sendable
    <2>1. CASE sent' = sent
      BY <2>0, <2>1
    <2>2. ASSUME NEW f \in Sendable, sent' = Append(sent, f)
          PROVE  /\ Len(sent') \in Nat /\ Len(sent) <= Len(sent')
                 /\ \A i \in 1..Len(sent) : sent'[i] = sent[i]
      BY <2>0, <2>2, AppendProperties
    <2> QED
      BY <2>0, <2>1, <2>2
  <1>3. ASSUME NEW i \in 1..n
        PROVE  i <= Len(handled') /\ i <= Len(sent') /\ handled'[i] = sent'[i]
    <2>1. i <= Len(handled) /\ i <= Len(sent) /\ handled[i] = sent[i] /\ i \in Nat /\ i >= 1
      BY DEF Agree
    <2>2. i \in 1..Len(handled) /\ i \in 1..Len(sent)
      BY <1>1, <1>2, <2>1
    <2> QED
      BY <1>1, <1>2, <2>1, <2>2
  <1> QED
    BY <1>3

\* A loop that is lost stays so, whatever it dispatches.
LEMMA LostStays ==
    ASSUME StreamTypeInv, Lost, reader' = reader,
           handled' = handled \/ \E f \in Frame : handled' = Append(handled, f),
           sent' = sent \/ \E f \in Sendable : sent' = Append(sent, f)
    PROVE  Lost'
  <1>1. PICK j \in 1..Len(sent) : ~Fits(sent[j]) /\ Agree(j - 1)
    BY DEF Lost
  <1>2. sent \in Seq(Sendable) /\ Len(sent) \in Nat /\ j - 1 \in Nat
    <2>1. sent \in Seq(Sendable)
      BY DEF StreamTypeInv, Sendable
    <2>2. Len(sent) \in Nat
      BY <2>1, LenProperties
    <2> QED
      BY <2>1, <2>2
  <1>3. Agree(j - 1)'
    BY <1>1, <1>2, AgreeStays DEF Agree
  <1>4. j \in 1..Len(sent') /\ sent'[j] = sent[j]
    <2>1. CASE sent' = sent
      BY <2>1
    <2>2. ASSUME NEW f \in Sendable, sent' = Append(sent, f)
          PROVE  j \in 1..Len(sent') /\ sent'[j] = sent[j]
      BY <1>2, <2>2, AppendProperties
    <2> QED
      BY <2>1, <2>2
  <1>5. ~Fits(sent[j])'
    BY <1>1, <1>4 DEF Fits
  <1> QED
    BY <1>3, <1>4, <1>5 DEF Lost

\* Taking a frame: in step it is the next one sent.
LEMMA TakeKeeps ==
    ASSUME StreamInv, TakeFrame, UNCHANGED <<reader, wire, sent>>
    PROVE  StreamInv'
  <1> DEFINE b == frameBuf
  <1>0. Byte' = Byte /\ Frame' = Frame
    BY DEF Byte, Frame
  <1>1. /\ b \in Seq(Byte) /\ wire \in Seq(Byte) /\ handled \in Seq(Frame) /\ sent \in Seq(Sendable)
        /\ Len(b) \in Nat /\ Len(handled) \in Nat /\ Len(sent) \in Nat
    BY LenProperties DEF StreamInv, StreamTypeInv, Sendable
  <1>2. /\ HasHeader(b) /\ Len(b) >= HeaderLen + DeclaredLen(b)
        /\ handled' = Append(handled, FirstFrame(b)) /\ frameBuf' = Rest(b)
    BY DEF TakeFrame, Complete
  <1>3. DeclaredLen(b) \in Nat /\ \A i \in 1..Len(b) : b[i] \in Byte
    <2>1. \A i \in 1..Len(b) : b[i] \in Byte
      BY <1>1, ElementOfSeq
    <2>2. {1, 2, 3, 4, 5} \subseteq 1..Len(b)
      BY <1>1, <1>2 DEF HasHeader, HeaderLen
    <2>3. b[2] \in Nat /\ b[3] \in Nat /\ b[4] \in Nat /\ b[5] \in Nat
      <3>1. \A x \in Byte : x \in Nat
        BY DEF Byte
      <3>2. \A i \in {1, 2, 3, 4, 5} : b[i] \in Nat
        BY <2>1, <2>2, <3>1
      <3> HIDE DEF b
      <3> QED
        BY <3>2
    <2>4. \A x, y, z, u \in Nat : ((x * 256 + y) * 256 + z) * 256 + u \in Nat
      OBVIOUS
    <2>5. PICK x, y, z, u \in Nat : x = b[2] /\ y = b[3] /\ z = b[4] /\ u = b[5]
      BY <2>3
    <2>6. DeclaredLen(b) = ((x * 256 + y) * 256 + z) * 256 + u
      BY <2>5 DEF DeclaredLen
    <2> HIDE DEF b
    <2> QED
      BY <2>1, <2>4, <2>6
  <1>4. FirstFrame(b) \in Frame /\ Rest(b) \in Seq(Byte)
    <2>1. PICK d \in Nat : d = DeclaredLen(b)
      BY <1>3
    <2>2. 5 + d <= Len(b) /\ 5 + 1 \in Int /\ 5 + d \in Int /\ 5 + d + 1 \in Int /\ Len(b) \in Int
          /\ 1 \in 1..Len(b)
      BY <1>1, <1>2, <2>1 DEF HeaderLen
    <2>3. /\ \A i \in (5 + 1)..(5 + d) : b[i] \in Byte
          /\ \A i \in (5 + d + 1)..Len(b) : b[i] \in Byte
      <3>1. /\ \A i \in (5 + 1)..(5 + d) : i \in 1..Len(b)
            /\ \A i \in (5 + d + 1)..Len(b) : i \in 1..Len(b)
        BY <1>1, <2>2
      <3> QED
        BY <1>3, <3>1
    <2>4. SubSeq(b, 5 + 1, 5 + d) \in Seq(Byte)
      BY <2>2, <2>3, SubSeqProperties
    <2>5. SubSeq(b, 5 + d + 1, Len(b)) \in Seq(Byte)
      BY <2>2, <2>3, SubSeqProperties
    <2> QED
      BY <1>3, <2>1, <2>2, <2>4, <2>5 DEF FirstFrame, Rest, Frame, HeaderLen
  <1>5. StreamTypeInv'
    <2>1. Append(handled, FirstFrame(b)) \in Seq(Frame)
      BY <1>1, <1>4, AppendProperties
    <2> QED
      BY <1>0, <1>2, <1>4, <2>1 DEF StreamInv, StreamTypeInv
  <1>6. CASE Lost
    <2>1. Lost'
      BY <1>2, <1>4, <1>6, LostStays DEF StreamInv
    <2> QED
      BY <1>5, <2>1 DEF StreamInv
  <1>7. CASE InStepInv
    <2> DEFINE g == Len(handled)
    <2>1. IsLeft(b \o wire, sent, g)
      BY <1>7 DEF InStepInv
    <2>2. /\ g + 1 \in 1..Len(sent) /\ FirstFrame(b) = sent[g + 1]
          /\ IsLeft(Rest(b) \o wire, sent, g + 1)
      BY <1>1, <1>2, <2>1, LeftTake
    <2>3. Len(handled') = g + 1 /\ handled'[g + 1] = sent[g + 1]
      BY <1>1, <1>2, <1>4, <2>2, AppendProperties
    <2>4. IsLeft(frameBuf \o wire, sent, Len(handled))'
      BY <1>2, <2>2, <2>3, LeftNext
    <2>5. \A i \in 1..g : i <= Len(handled') /\ i <= Len(sent') /\ handled'[i] = sent'[i]
      BY <1>1, <1>2, <1>4, <1>7, AgreeStays DEF StreamInv, InStepInv
    <2>6. \A i \in 1..(g + 1) : i \in 1..g \/ i = g + 1
      BY <1>1
    <2>7. g + 1 <= Len(sent)
      BY <1>1, <2>2
    <2>8. \A i \in 1..(g + 1) : i <= Len(handled') /\ i <= Len(sent') /\ handled'[i] = sent'[i]
      BY <1>1, <2>3, <2>5, <2>6, <2>7
    <2>9. Agree(Len(handled))'
      BY <2>3, <2>8 DEF Agree
    <2> QED
      BY <1>5, <2>4, <2>9 DEF StreamInv, InStepInv
  <1> QED
    BY <1>6, <1>7 DEF StreamInv

\* A frame that is too long loses the place, and only such a frame does.
LEMMA DropKeeps ==
    ASSUME StreamInv, DropTooLong
    PROVE  StreamInv'
  <1> DEFINE b == frameBuf
             g == Len(handled)
  <1>0. Byte' = Byte /\ Frame' = Frame
    BY DEF Byte, Frame
  <1>1. /\ b \in Seq(Byte) /\ wire \in Seq(Byte) /\ handled \in Seq(Frame) /\ sent \in Seq(Sendable)
        /\ Len(b) \in Nat /\ g \in Nat
    BY LenProperties DEF StreamInv, StreamTypeInv, Sendable
  <1>2. /\ UNCHANGED <<reader, wire, handled, sent>>
        /\ reader # "embedded" /\ HasHeader(b) /\ DeclaredLen(b) > MaxFrameLen
        /\ frameBuf' \in {<<>>, SubSeq(b, HeaderLen + 1, Len(b))}
    BY DEF DropTooLong, TooLong
  <1>3. StreamTypeInv'
    <2>1. SubSeq(b, HeaderLen + 1, Len(b)) \in Seq(Byte)
      <3>1. 5 + 1 \in Int /\ Len(b) \in Int /\ \A i \in (5 + 1)..Len(b) : i \in 1..Len(b)
        BY <1>1
      <3>2. \A i \in (5 + 1)..Len(b) : b[i] \in Byte
        BY <1>1, <3>1, ElementOfSeq
      <3> QED
        BY <3>1, <3>2, SubSeqProperties DEF HeaderLen
    <2>2. frameBuf' \in Seq(Byte)
      BY <1>2, <2>1, EmptySeq
    <2> QED
      BY <1>0, <1>2, <2>2 DEF StreamInv, StreamTypeInv
  <1>4. Lost
    <2>1. CASE InStepInv
      <3>1. IsLeft(b \o wire, sent, g) /\ Agree(g)
        BY <2>1 DEF InStepInv
      <3>2. /\ g + 1 \in 1..Len(sent) /\ DeclaredLen(b) = Len(sent[g + 1].payload)
            /\ sent[g + 1] \in Sendable
        BY <1>1, <1>2, <3>1, LeftTake
      <3>3. ~Fits(sent[g + 1])
        <4>1. Len(sent[g + 1].payload) \in Nat
          BY <3>2, SerializeBytes
        <4>2. \A x \in Nat : x > MaxFrameLen => ~(x <= MaxFrameLen)
          BY StreamAssumption
        <4>3. ~(Len(sent[g + 1].payload) <= MaxFrameLen)
          BY <1>2, <3>2, <4>1, <4>2
        <4> QED
          BY <1>2, <4>3 DEF Fits
      <3>4. (g + 1) - 1 = g
        BY <1>1
      <3> QED
        BY <3>1, <3>2, <3>3, <3>4 DEF Lost
    <2> QED
      BY <2>1 DEF StreamInv
  <1>5. Lost'
    BY <1>2, <1>4, LostStays DEF StreamInv
  <1> QED
    BY <1>3, <1>5 DEF StreamInv

\* Steps that only move bytes towards the parser, or that touch neither the
\* stream nor what was dispatched.
LEMMA StreamKeeps ==
    ASSUME StreamInv, UNCHANGED <<reader, handled, sent>>,
           wire' \in Seq(Byte), frameBuf' \in Seq(Byte), frameBuf' \o wire' = frameBuf \o wire
    PROVE  StreamInv'
  <1>0. Byte' = Byte /\ Frame' = Frame
    BY DEF Byte, Frame
  <1>1. StreamTypeInv'
    BY <1>0 DEF StreamInv, StreamTypeInv
  <1>2. CASE Lost
    <2>1. Lost'
      BY <1>2, LostStays DEF StreamInv
    <2> QED
      BY <1>1, <2>1 DEF StreamInv
  <1>3. CASE InStepInv
    <2>1. Agree(Len(handled))'
      BY <1>3 DEF InStepInv, Agree
    <2>2. IsLeft(frameBuf \o wire, sent, Len(handled))'
      BY <1>3, LeftNext DEF InStepInv
    <2> QED
      BY <1>1, <2>1, <2>2 DEF StreamInv, InStepInv
  <1> QED
    BY <1>2, <1>3 DEF StreamInv

\* The host's step.
LEMMA SendKeeps ==
    ASSUME StreamInv, HostSend
    PROVE  StreamInv'
  <1>0. Byte' = Byte /\ Frame' = Frame
    BY DEF Byte, Frame
  <1>1. PICK f \in Frames : sent' = Append(sent, f) /\ wire' = wire \o Serialize(f)
    BY DEF HostSend
  <1>2. f \in Sendable /\ UNCHANGED <<reader, frameBuf, handled>>
    BY StreamAssumption DEF HostSend, Sendable, Frame
  <1>3. /\ frameBuf \in Seq(Byte) /\ wire \in Seq(Byte) /\ sent \in Seq(Sendable)
        /\ Serialize(f) \in Seq(Byte)
    BY <1>2, SerializeBytes DEF StreamInv, StreamTypeInv, Sendable
  <1>4. StreamTypeInv'
    <2>1. wire \o Serialize(f) \in Seq(Byte)
      BY <1>3, ConcatProperties
    <2>2. Append(sent, f) \in Seq(Sendable)
      BY <1>2, <1>3, AppendProperties
    <2> QED
      BY <1>0, <1>1, <1>2, <2>1, <2>2 DEF StreamInv, StreamTypeInv, Sendable
  <1>5. CASE Lost
    <2>1. Lost'
      BY <1>1, <1>2, <1>5, LostStays DEF StreamInv
    <2> QED
      BY <1>4, <2>1 DEF StreamInv
  <1>6. CASE InStepInv
    <2> DEFINE g == Len(handled)
    <2>1. IsLeft((frameBuf \o wire) \o Serialize(f), Append(sent, f), g)
      BY <1>2, <1>3, <1>6, LeftSend DEF InStepInv
    <2>2. (frameBuf \o wire) \o Serialize(f) = frameBuf' \o wire'
      <3>1. (frameBuf \o wire) \o Serialize(f) = frameBuf \o (wire \o Serialize(f))
        BY <1>3, Regroup
      <3> QED
        BY <1>1, <1>2, <3>1
    <2>3. IsLeft(frameBuf \o wire, sent, Len(handled))'
      BY <1>1, <1>2, <2>1, <2>2, LeftNext
    <2>4. g \in Nat
      BY LenProperties DEF StreamInv, StreamTypeInv
    <2>5. \A i \in 1..g : i <= Len(handled') /\ i <= Len(sent') /\ handled'[i] = sent'[i]
      BY <1>1, <1>2, <1>6, <2>4, AgreeStays DEF StreamInv, InStepInv
    <2>6. Agree(Len(handled))'
      BY <1>2, <2>5 DEF Agree
    <2> QED
      BY <1>4, <2>3, <2>6 DEF StreamInv, InStepInv
  <1> QED
    BY <1>5, <1>6 DEF StreamInv

-----------------------------------------------------------------------------
\* The loop is in step with the host's stream, or was until a frame too long.
THEOREM StreamInvariant == Spec => []StreamInv
  <1>1. Init => StreamInv
    <2> SUFFICES ASSUME Init PROVE StreamInv
      OBVIOUS
    <2>1. StreamTypeInv
      BY EmptySeq DEF Init, StreamTypeInv
    <2>2. frameBuf \o wire = <<>> /\ sent = <<>> /\ Len(handled) = 0
      <3>1. <<>> \o <<>> = <<>>
        BY EmptySeq, ConcatEmptySeq
      <3> QED
        BY <3>1 DEF Init
    <2>3. InStepInv
      BY <2>2, LeftEmpty DEF InStepInv, Agree
    <2> QED
      BY <2>1, <2>3 DEF StreamInv
  <1>2. StreamInv /\ [Next]_vars => StreamInv'
    <2> SUFFICES ASSUME StreamInv, [Next]_vars PROVE StreamInv'
      OBVIOUS
    <2>0. frameBuf \in Seq(Byte) /\ wire \in Seq(Byte)
      BY DEF StreamInv, StreamTypeInv
    <2>1. CASE HostSend
      BY <2>1, SendKeeps
    <2>2. CASE ReadBytes
      <3>1. PICK n \in 1..ChunkLen :
               /\ n <= Len(wire)
               /\ frameBuf' = frameBuf \o SubSeq(wire, 1, n)
               /\ wire' = SubSeq(wire, n + 1, Len(wire))
        BY <2>2 DEF ReadBytes
      <3>2. n \in 1..Len(wire)
        BY <2>0, <3>1, LenProperties
      <3>3. /\ frameBuf \o SubSeq(wire, 1, n) \in Seq(Byte)
            /\ SubSeq(wire, n + 1, Len(wire)) \in Seq(Byte)
            /\ (frameBuf \o SubSeq(wire, 1, n)) \o SubSeq(wire, n + 1, Len(wire)) = frameBuf \o wire
        BY <2>0, <3>2, LeftRead
      <3>4. UNCHANGED <<reader, handled, sent>>
        BY <2>2 DEF ReadBytes
      <3> QED
        BY <3>1, <3>3, <3>4, StreamKeeps
    <2>3. CASE NeedMore \/ FinishModule \/ ModulePanics \/ UNCHANGED vars
      <3>1. UNCHANGED <<reader, wire, frameBuf, handled, sent>>
        BY <2>3 DEF NeedMore, FinishModule, ModulePanics, vars
      <3> QED
        BY <2>0, <3>1, StreamKeeps
    <2>4. CASE DropTooLong
      BY <2>4, DropKeeps
    <2>5. CASE HandleDiscovery \/ HandleOther \/ RejectModule \/ StartModule \/ ScanPanics
      <3>1. TakeFrame /\ UNCHANGED <<reader, wire, sent>>
        BY <2>5 DEF HandleDiscovery, HandleOther, RejectModule, StartModule, ScanPanics
      <3> QED
        BY <3>1, TakeKeeps
    <2> QED
      BY <2>1, <2>2, <2>3, <2>4, <2>5 DEF Next, DeviceNext
  <1> QED
    BY <1>1, <1>2, PTL DEF Spec

\* For every receiver on a stream, whatever frames the host sends and however
\* reads cut them: until a frame longer than MAX_FRAME_LEN, the loop
\* dispatches exactly the frames sent, whole and in order.
THEOREM StreamDispatchesAsSent == Spec => []DispatchesAsSent
  <1>1. StreamInv => DispatchesAsSent
    <2> SUFFICES ASSUME StreamInv, NEW i \in DOMAIN handled,
                        \A j \in 1..i : j \in DOMAIN sent => Fits(sent[j])
                 PROVE  i <= Len(sent) /\ handled[i] = sent[i]
      BY DEF DispatchesAsSent
    <2>1. /\ Len(handled) \in Nat /\ i \in 1..Len(handled)
          /\ Len(sent) \in Nat /\ DOMAIN sent = 1..Len(sent)
      <3>1. handled \in Seq(Frame) /\ sent \in Seq(Sendable)
        BY DEF StreamInv, StreamTypeInv, Sendable
      <3> QED
        BY <3>1, LenProperties
    <2>2. CASE InStepInv
      BY <2>1, <2>2 DEF InStepInv, Agree
    <2>3. CASE Lost
      <3>1. PICK j \in 1..Len(sent) : ~Fits(sent[j]) /\ Agree(j - 1)
        BY <2>3 DEF Lost
      <3>2. j \notin 1..i
        BY <2>1, <3>1
      <3>3. i \in 1..(j - 1)
        BY <2>1, <3>2
      <3> QED
        BY <3>1, <3>3 DEF Agree
    <2> QED
      BY <2>2, <2>3 DEF StreamInv
  <1> QED
    BY <1>1, StreamInvariant, PTL

=============================================================================
