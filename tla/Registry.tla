------------------------------ MODULE Registry ------------------------------
(***************************************************************************)
(* DeviceRegistry (host/devices/registry.py): devices by name, in the      *)
(* order of a Python dict, over TCP connections to receivers that may die  *)
(* at any time.  A receiver serves one connection at a time; the others    *)
(* wait in its listener's backlog.  A fleet operation visits the devices   *)
(* one by one (or in parallel threads), and what it does when a device     *)
(* fails decides whether the rest of the fleet is reached.                 *)
(***************************************************************************)
EXTENDS Naturals, Sequences, SequencesExt, FiniteSets

CONSTANTS
    Names,        \* names of devices
    Receivers     \* receiver processes

VARIABLES
    life,      \* per receiver: "none", "starting", "listening" or "dead"
    backlog,   \* per receiver: names whose connections it has, served first
    entries,   \* self._devices: name, receiver and _connected, in order
    op,        \* the operation under way, "none" between operations
    todo,      \* names it has yet to visit
    reached,   \* the receivers it has reached
    raised     \* it ends with an exception, not with a result

regVars == <<backlog, entries, op, todo, reached, raised>>

\* Threads, one per device, or a loop over the devices.
Parallel == {"push_to_all", "wait_all_results"}
\* A loop that writes and does not read a reply.
WriteOnly == {"broadcast_param", "push_async_to_all"}
FleetOps == Parallel \cup WriteOnly \cup {"stop_all", "query_all"}
\* One device's method: push, hot_swap, set_param, stop, query_status.
DeviceOp == "tool"

RegInit ==
    /\ backlog = [r \in Receivers |-> <<>>]
    /\ entries = <<>>
    /\ op = "none"
    /\ todo = {}
    /\ reached = {}
    /\ raised = FALSE

Registered(n) == \E i \in DOMAIN entries : entries[i].name = n
Index(n) == CHOOSE i \in DOMAIN entries : entries[i].name = n
Entry(n) == entries[Index(n)]

Closed(n) == [r \in Receivers |-> SelectSeq(backlog[r], LAMBDA m : m # n)]

\* register(): connect, discover, then store the entry.  A name that exists
\* keeps its place in the dict, and its old connection is closed.
Register(n, r) ==
    LET entry == [name |-> n, recv |-> r, connected |-> TRUE]
    IN  /\ life[r] = "listening"
        /\ backlog' = [Closed(n) EXCEPT ![r] = Append(@, n)]
        /\ entries' = IF Registered(n)
                      THEN [i \in DOMAIN entries |->
                               IF entries[i].name = n THEN entry ELSE entries[i]]
                      ELSE Append(entries, entry)
        /\ UNCHANGED <<op, todo, reached, raised>>

\* unregister(): close the connection, delete the entry.
Unregister(n) ==
    /\ backlog' = Closed(n)
    /\ entries' = RemoveAt(entries, Index(n))
    /\ UNCHANGED <<op, todo, reached, raised>>

\* close_all(); an operation under way has been interrupted.
CloseAll ==
    /\ backlog' = [r \in Receivers |-> <<>>]
    /\ entries' = <<>>
    /\ op' = "none"
    /\ todo' = {}
    /\ reached' = {}
    /\ raised' = FALSE

-----------------------------------------------------------------------------
(* Operations over the devices.                                            *)

AllNames == {entries[i].name : i \in DOMAIN entries}

\* The threaded operations look at is_connected when they start, the loops
\* when they come to the device.
BeginFleetOp ==
    /\ op = "none"
    /\ \E o \in FleetOps :
          /\ op' = o
          /\ todo' = {n \in AllNames : o \in Parallel => Entry(n).connected}
    /\ UNCHANGED <<backlog, entries, reached, raised>>

BeginDeviceOp ==
    /\ op = "none"
    /\ \E n \in Names : Registered(n) /\ todo' = {n}
    /\ op' = DeviceOp
    /\ UNCHANGED <<backlog, entries, reached, raised>>

Served(e) == life[e.recv] = "listening" /\ backlog[e.recv][1] = e.name

\* Whether the device's method can raise: a write to a dead receiver may
\* still succeed, a read from it cannot; any read may time out, and one from
\* a receiver that serves another connection does.
MayRaise(e) == life[e.recv] = "dead" \/ op \notin WriteOnly
MayReturn(e) == Served(e) \/ op \in WriteOnly \cup {DeviceOp}

\* Mutant: no operation catches what a device raises.
AbortsAlways(o) == TRUE

\* broadcast_param and push_async_to_all let the exception end the loop.
Aborts(o) == o \in WriteOnly

\* Which of the devices still to visit comes next: any thread's, or the first
\* in the order of the dict.
NextNames ==
    IF op \in Parallel THEN todo ELSE {n \in todo : \A m \in todo : Index(n) <= Index(m)}

\* The loop skips a device that is not connected.
Skip ==
    /\ op \in FleetOps \ Parallel
    /\ \E n \in NextNames : ~Entry(n).connected /\ todo' = todo \ {n}
    /\ UNCHANGED <<backlog, entries, op, reached, raised>>

Visit(n) == op \in Parallel \cup {DeviceOp} \/ Entry(n).connected

VisitReturns ==
    \E n \in NextNames :
        LET e == Entry(n)
        IN  /\ Visit(n)
            /\ MayReturn(e)
            /\ todo' = todo \ {n}
            /\ reached' = IF Served(e) THEN reached \cup {e.recv} ELSE reached
            /\ UNCHANGED <<backlog, entries, op, raised>>

\* A read that finds the connection closed clears _connected; a reset or a
\* failed write does not.
VisitRaises ==
    \E n \in NextNames :
        LET e == Entry(n)
        IN  /\ Visit(n)
            /\ MayRaise(e)
            /\ todo' = IF Aborts(op) THEN {} ELSE todo \ {n}
            /\ raised' = (op \in WriteOnly \cup {DeviceOp})
            /\ \/ UNCHANGED entries
               \/ /\ life[e.recv] = "dead" /\ op \notin WriteOnly
                  /\ entries' = [k \in DOMAIN entries |->
                                    IF entries[k] = e THEN [e EXCEPT !.connected = FALSE]
                                                      ELSE entries[k]]
            /\ reached' = IF Served(e) THEN reached \cup {e.recv} ELSE reached
            /\ UNCHANGED <<backlog, op>>

EndOp ==
    /\ op # "none"
    /\ todo = {}
    /\ op' = "none"
    /\ reached' = {}
    /\ raised' = FALSE
    /\ UNCHANGED <<backlog, entries, todo>>

-----------------------------------------------------------------------------
(* Properties.                                                             *)

\* A fleet operation that returns has reached every live device whose
\* connection is good and served, and only broadcast_param and
\* push_async_to_all may raise instead: "a slow or dead device must not stall
\* the rest of the fleet" (registry.py:98).
FleetOpReachesAll ==
    (op \in FleetOps /\ todo = {}) =>
        \/ raised /\ op \in WriteOnly
        \/ \A i \in DOMAIN entries :
              (entries[i].connected /\ Served(entries[i])) => entries[i].recv \in reached

=============================================================================
