----------------------------- MODULE MCReceiver -----------------------------
(* The workloads for TLC: pushes, swaps, stops and queries with a module    *)
(* that the open policy accepts and one that it refuses; and every opcode,  *)
(* with every payload of the loads, under every policy.                     *)
EXTENDS Receiver

Good == [wrap |-> "raw", imports |-> "allowed"]
Foreign == [wrap |-> "raw", imports |-> "foreign"]

OpenPolicy == [key |-> FALSE, require |-> FALSE]

SwapFrames ==
    {[op |-> "stop"], [op |-> "query"],
     [op |-> "push", payload |-> Good],
     [op |-> "hot_swap", payload |-> Good],
     [op |-> "hot_swap", payload |-> Foreign]}

OtherFrames ==
    [op : ControlOps] \cup
    [op : {"set_param"}, short : BOOLEAN, slot : {NumSlots - 1, NumSlots}, value : {1}] \cup
    {[op |-> "push", payload |-> Good]}

\* A forged payload is refused before its imports matter.
LoadFrames ==
    [op : LoadOps, payload : {p \in Payload : p.wrap = "forged" => p.imports = "allowed"}]

StreamFrames ==
    {[op |-> "query"], [op |-> "push", payload |-> Good],
     [op |-> "set_param", short |-> FALSE, slot |-> 0, value |-> 1]}

\* Two connections for the swaps, which need a reconnection in the middle;
\* one for the others, which are about what a single frame may do.
Swaps(n, c) ==
    [policy |-> OpenPolicy, frames |-> SwapFrames, most |-> n, conns |-> c, steady |-> FALSE]
Loads(p) ==
    [policy |-> p, frames |-> OtherFrames \cup LoadFrames, most |-> 2, conns |-> 1,
     steady |-> FALSE]
Stream ==
    [policy |-> OpenPolicy, frames |-> StreamFrames, most |-> 2, conns |-> 1, steady |-> TRUE]

MCWorkloads == {Swaps(3, 2), Stream} \cup {Loads(p) : p \in AnyPolicy}
TwoSwaps == {Swaps(2, 1)}

=============================================================================
