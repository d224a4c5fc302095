---------------------------- MODULE MCHostDevice ----------------------------
(* The programs and receivers TLC explores.                                *)
EXTENDS HostDevice

Late == [calls |-> Methods, timeouts |-> TRUE, cuts |-> FALSE, extended |-> TRUE]

\* All methods but discover, which discards what it reads.
Control == [calls |-> Methods \ {"discover"}, timeouts |-> FALSE, cuts |-> FALSE, extended |-> TRUE]

\* A program that never leaves a result uncollected.
Blocking == [calls |-> {"push", "hot_swap", "stop", "query_status", "set_param"},
             timeouts |-> FALSE, cuts |-> FALSE, extended |-> TRUE]

\* On a Pico, whose answer to a stop or a query is not a STATUS_RESPONSE.
Pico == [calls |-> {"push_async", "hot_swap", "wait_result", "stop", "set_param"},
         timeouts |-> TRUE, cuts |-> FALSE, extended |-> FALSE]

\* Reads that time out in the middle of a frame.
Cut == [calls |-> {"push", "push_async", "wait_result", "query_status", "discover"},
        timeouts |-> TRUE, cuts |-> TRUE, extended |-> TRUE]

AllSettings == {Late, Control, Blocking, Pico, Cut}

=============================================================================
