--------------------------- MODULE WasmValidation ---------------------------
(***************************************************************************)
(* validate_wasm_imports and read_leb128_u32                               *)
(* (receiver/src/engine/validation.rs): the scan of a module's bytes for   *)
(* its function imports.  The 8 bytes of header are one of a few cases; a  *)
(* body is a sequence of bytes, whose values and the values of a u32 are   *)
(* scaled down: a byte's top bit is More (0x80 in the code), the rest of   *)
(* it a digit to the base More, and a number has at most MaxGroups digits. *)
(*                                                                         *)
(* The operators below say what is at a position of the body; the steps of *)
(* the scan are actions of Firmware.  Positions count from 0, as in the    *)
(* code, and from the end of the header.                                   *)
(***************************************************************************)
EXTENDS Naturals, Sequences, SequencesExt, FiniteSetsExt

CONSTANTS
    More,          \* the bit that says another byte follows: 0x80, scaled down
    MaxGroups,     \* the most bytes a number takes: 5, for a shift below 35
    U32,           \* how many u32 there are: 2^32, scaled down
    Alphabet       \* ALLOWED_IMPORTS, each name a sequence of bytes

Byte == 0..2 * More - 1

\* What is left of n without its last i groups of bits.
Remaining(n) ==
    LET rest[i \in 0..MaxGroups] == IF i = 0 THEN n ELSE rest[i - 1] \div More
    IN  rest

\* The limit on a number's bytes leaves room for every u32.
ASSUME ValidationAssumption ==
    /\ More \in Nat /\ More > 1
    /\ MaxGroups \in Nat \ {0}
    /\ U32 \in Nat /\ U32 > 2
    /\ \A n \in 0..U32 - 1 : Remaining(n)[MaxGroups] = 0
    /\ \A name \in Alphabet : name \in Seq(Byte)

ImportSection == 2
Function == 0
Table == 1
Memory == 2
Global == 3
ExternKinds == {Function, Table, Memory, Global}

\* A position that stands for a panic: past any the scan moves to by itself.
Fault(b) == Len(b) + 3

\* Mutant: a number is taken to be one byte.
LebLenOne(b, p) == IF p < Len(b) THEN 1 ELSE 0

\* read_leb128_u32(&b[p..]).1: up to the last byte of the number, the end of
\* the data, or the shift's limit.
LebLen(b, p) ==
    Min({n \in 0..MaxGroups :
            \/ p + n >= Len(b) \/ n = MaxGroups
            \/ n > 0 /\ b[p + n] < More})

\* The number with the digits d to the base More, the highest first.
Number(d) ==
    LET value[i \in 0..Len(d)] == IF i = 0 THEN 0 ELSE value[i - 1] * More + d[i]
    IN  value[Len(d)]

\* read_leb128_u32(&b[p..]).0: the lowest digit comes first; bits shifted out
\* of the u32 are lost.
Leb(b, p) ==
    LET n == LebLen(b, p)
    IN  Number([i \in 1..n |-> b[p + n + 1 - i] % More]) % U32

\* The position after a number; slicing past the end of the bytes panics.
AfterLeb(b, p) == IF p <= Len(b) THEN p + LebLen(b, p) ELSE Fault(b)

\* A length and as many bytes: the position after them, and the bytes.
AfterName(b, p) ==
    IF p <= Len(b) /\ AfterLeb(b, p) + Leb(b, p) <= Len(b)
    THEN AfterLeb(b, p) + Leb(b, p)
    ELSE Fault(b)
Name(b, p) == SubSeq(b, AfterLeb(b, p) + 1, AfterName(b, p))

\* The import descriptor at p: a kind byte and what follows it.  The maximum
\* of a table is not read, that of a memory is.
AfterKind(b, p) ==
    LET kind == b[p + 1]
        min == AfterLeb(b, AfterLeb(b, p + 1))
    IN  CASE kind = Function -> AfterLeb(b, p + 1)
          [] kind = Table -> AfterLeb(b, AfterLeb(b, p + 2))
          [] kind = Memory -> IF p + 1 <= Len(b) /\ Leb(b, p + 1) % 2 = 1
                              THEN AfterLeb(b, min) ELSE min
          [] kind = Global -> p + 3
          [] OTHER -> p + 1

-----------------------------------------------------------------------------
(* The format, as a compiler writes it (external to this repository): what *)
(* the scan is compared with.                                              *)

\* n in exactly k bytes; a compiler may pad the numbers a linker patches.
EncodeLeb(n, k) ==
    [i \in 1..k |-> (Remaining(n)[i - 1] % More) + (IF i < k THEN More ELSE 0)]

\* The fewest bytes n takes.
LebSize(n) == Min({k \in 1..MaxGroups : Remaining(n)[k] = 0})

Minimal(n) == EncodeLeb(n, LebSize(n))

EncodeName(name) == Minimal(Len(name)) \o name

\* An import: a module's name, a field's name, and a kind with its limits.
EncodeImport(i) ==
    EncodeName(i.module) \o EncodeName(i.field) \o <<i.kind>> \o
    (CASE i.kind = Function -> Minimal(i.min)
       [] i.kind = Table ->
            <<0>> \o (IF i.max THEN <<1>> \o Minimal(i.min) \o Minimal(i.min)
                      ELSE <<0>> \o Minimal(i.min))
       [] i.kind = Memory ->
            (IF i.max THEN <<1>> \o Minimal(i.min) \o Minimal(i.min)
             ELSE <<0>> \o Minimal(i.min))
       [] i.kind = Global -> <<0, 0>>)

EncodeSection(id, content, padded) ==
    <<id>> \o EncodeLeb(Len(content), IF padded THEN MaxGroups ELSE LebSize(Len(content)))
    \o content

\* The first i imports, one after the other.
Joined(imports) ==
    LET joined[i \in 0..Len(imports)] ==
            IF i = 0 THEN <<>> ELSE joined[i - 1] \o EncodeImport(imports[i])
    IN  joined

ImportList(imports) == Minimal(Len(imports)) \o Joined(imports)[Len(imports)]

\* A module: sections before its import section, its imports, sections after.
Before(m) == IF m.before THEN EncodeSection(1, <<0, 2>>, FALSE) ELSE <<>>
Imported(m) ==
    IF m.imports = <<>> THEN <<>> ELSE EncodeSection(ImportSection, ImportList(m.imports), m.padded)
After(m) == IF m.after THEN EncodeSection(3, <<2>>, FALSE) ELSE <<>>

Encode(m) == Before(m) \o Imported(m) \o After(m)

\* What there is to a module that has an encoding: its numbers are u32.
Names == {name \in Seq(Byte) : Len(name) < U32}
Import == [module : Names, field : Names, kind : ExternKinds, min : 0..U32 - 1, max : BOOLEAN]
WellFormed(m) ==
    /\ \A f \in {"before", "after", "padded"} : m[f] \in BOOLEAN
    /\ m.imports \in Seq(Import)
    /\ Len(m.imports) < U32
    /\ Len(ImportList(m.imports)) < U32

\* Among the first i imports, the functions outside the alphabet, in order.
ForeignUpTo(imports) ==
    LET outside[i \in 0..Len(imports)] ==
            IF i = 0 THEN <<>>
            ELSE IF imports[i].kind = Function /\ imports[i].field \notin Alphabet
                 THEN Append(outside[i - 1], imports[i].field)
                 ELSE outside[i - 1]
    IN  outside

Foreign(m) == ForeignUpTo(m.imports)[Len(m.imports)]

=============================================================================
