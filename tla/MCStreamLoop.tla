---------------------------- MODULE MCStreamLoop ----------------------------
(* Frames for TLC: the payload bytes of the long one look like a header.    *)
EXTENDS StreamLoop

SomeFrames ==
    {[op |-> OpDiscovery, payload |-> <<>>],
     [op |-> OpPush, payload |-> <<0, 0>>],
     [op |-> OpPush, payload |-> <<0, 0, 0, 0, 0, 0>>],
     [op |-> OpSetParam, payload |-> <<>>],
     [op |-> OpHotSwap, payload |-> <<>>]}

=============================================================================
