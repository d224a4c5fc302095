----------------------------- MODULE MCFirmware -----------------------------
(* A board with one of everything under id 0 but no PWM there, and PWM      *)
(* under id 1.  Modules of up to two imports, of every kind, whole, padded  *)
(* and cut off at any byte, that make no syscalls; and one module by either *)
(* opcode that makes any.                                                   *)
EXTENDS Firmware

MCBoard == {<<"gpio", 0>>, <<"adc", 0>>, <<"i2c", 0>>, <<"spi", 0>>, <<"pwm", 1>>}

\* One allowed name; a foreign one that begins with it, and one that does not.
MCAlphabet == {<<1>>}
Fields == {<<1>>, <<1, 1>>, <<5>>}

Imports ==
    [module : {<<0>>}, field : Fields, kind : {Function}, min : {6}, max : {FALSE}] \cup
    [module : {<<0>>}, field : {<<5>>}, kind : {Table, Memory}, min : {1}, max : BOOLEAN] \cup
    [module : {<<0>>}, field : {<<5>>}, kind : {Global}, min : {0}, max : {FALSE}]

Modules ==
    [before : BOOLEAN, after : BOOLEAN, padded : BOOLEAN,
     imports : {<<>>} \cup {<<i>> : i \in Imports} \cup (Imports \X Imports)]

Upload(op, m, n) ==
    [op |-> op, head |-> "ok", bytes |-> SubSeq(Encode(m), 1, n), module |-> m,
     whole |-> n = Len(Encode(m))]

Whole(op, m) == Upload(op, m, Len(Encode(m)))

\* Cut off anywhere: the modules with all the sections.
CutOff ==
    UNION {{Upload("push", m, n) : n \in 0..Len(Encode(m)) - 1} :
              m \in {m \in Modules : m.before /\ m.after}}

Empty == [before |-> FALSE, after |-> FALSE, padded |-> FALSE, imports |-> <<>>]
BadHead(h) == [Whole("push", Empty) EXCEPT !.head = h]

MCUploads ==
    {Whole("push", m) : m \in Modules} \cup CutOff \cup {BadHead("short"), BadHead("magic")}
MCRunnable == {Whole("push", Empty), Whole("swap", Empty)}

=============================================================================
