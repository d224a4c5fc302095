----------------------------- MODULE McpServer -----------------------------
(***************************************************************************)
(* MiloMcpServer (host/mcp/server.py): it serves one request at a time,    *)
(* launches receivers (main.rs --listen) on ports of its own choosing,     *)
(* registers them in a DeviceRegistry under a name, and must terminate     *)
(* them.  A launched receiver binds its port some time later, or dies      *)
(* because the port is taken; any receiver may die at any time.  Outsiders *)
(* are receivers that someone else started.                                *)
(***************************************************************************)
EXTENDS Registry

CONSTANTS
    NoName,         \* no device's name
    MaxSpawns,      \* bound: receivers the server launches, 1..MaxSpawns
    OutsiderPort    \* the port, counted from 1, that outsiders listen on

ASSUME ServerAssumption ==
    /\ NoName \notin Names
    /\ MaxSpawns \in Nat
    /\ 1..MaxSpawns \subseteq Receivers
    /\ Receivers \subseteq Nat \ {0}
    /\ OutsiderPort \in Nat \ {0}

\* The server's receivers in the order of their launch, and the outsiders.
Own == 1..MaxSpawns
Outsiders == Receivers \ Own
NoReceiver == 0

VARIABLES
    up,         \* the server runs
    port,       \* per receiver: the port it was started with, 0 before
    asked,      \* receivers the server has sent a SIGTERM
    procs,      \* self._procs: per name, the receiver
    nextPort,   \* self._next_port, counted from 1
    launched,   \* receivers launched so far
    pc,         \* "serve", or a step of tool_milo_spawn_sim
    spawning    \* the name being spawned, NoName outside a spawn

srvVars == <<up, procs, nextPort, launched, pc, spawning>>
procVars == <<life, port, asked>>
vars == <<srvVars, procVars, regVars>>

Init ==
    /\ RegInit
    /\ life = [r \in Receivers |-> "none"]
    /\ up = TRUE
    /\ port = [r \in Receivers |-> IF r \in Outsiders THEN OutsiderPort ELSE 0]
    /\ asked = {}
    /\ procs = [n \in Names |-> NoReceiver]
    /\ nextPort = 1
    /\ launched = 0
    /\ pc = "serve"
    /\ spawning = NoName

-----------------------------------------------------------------------------
(* The receivers.                                                          *)

Listening(p) == {r \in Receivers : life[r] = "listening" /\ port[r] = p}

OutsiderStarts ==
    /\ \E r \in Outsiders :
          /\ life[r] = "none"
          /\ life' = [life EXCEPT ![r] = "starting"]
    /\ UNCHANGED <<port, asked, srvVars, regVars>>

\* TcpServerTransport::bind, or the exit when the port is taken.
Bind ==
    /\ \E r \in Receivers :
          /\ life[r] = "starting"
          /\ life' = [life EXCEPT ![r] = IF Listening(port[r]) = {} THEN "listening" ELSE "dead"]
    /\ UNCHANGED <<port, asked, srvVars, regVars>>

Alive(r) == life[r] \in {"starting", "listening"}

Crash ==
    /\ \E r \in Receivers : Alive(r) /\ life' = [life EXCEPT ![r] = "dead"]
    /\ UNCHANGED <<port, asked, srvVars, regVars>>

\* The SIGTERM takes effect.
Dies(r) ==
    /\ r \in asked /\ Alive(r)
    /\ life' = [life EXCEPT ![r] = "dead"]
    /\ UNCHANGED <<port, asked, srvVars, regVars>>

-----------------------------------------------------------------------------
(* The tools.                                                              *)

Idle == up /\ pc = "serve" /\ op = "none"

\* tool_milo_spawn_sim up to Popen.
Spawn ==
    /\ Idle /\ launched < MaxSpawns
    /\ \E n \in Names : ~Registered(n) /\ spawning' = n
    /\ launched' = launched + 1
    /\ nextPort' = nextPort + 1
    /\ LET r == launched + 1
       IN  /\ life' = [life EXCEPT ![r] = "starting"]
           /\ port' = [port EXCEPT ![r] = nextPort]
    /\ pc' = "wait"
    /\ UNCHANGED <<up, asked, procs, regVars>>

Newest == launched

\* _wait_port: some receiver accepts connections on the port.
PortUp ==
    /\ up /\ pc = "wait"
    /\ Listening(port[Newest]) # {}
    /\ procs' = [procs EXCEPT ![spawning] = Newest]
    /\ pc' = "register"
    /\ UNCHANGED <<up, nextPort, launched, spawning, procVars, regVars>>

\* Mutant: a receiver that is late is not terminated.
PortTimeoutLeaves ==
    /\ up /\ pc = "wait"
    /\ Listening(port[Newest]) = {}
    /\ pc' = "serve"
    /\ spawning' = NoName
    /\ UNCHANGED <<life, port, asked, up, procs, nextPort, launched, regVars>>

PortTimeout ==
    /\ up /\ pc = "wait"
    /\ Listening(port[Newest]) = {}
    /\ asked' = asked \cup {Newest}
    /\ pc' = "serve"
    /\ spawning' = NoName
    /\ UNCHANGED <<life, port, up, procs, nextPort, launched, regVars>>

\* register_tcp ends the spawn, or raises, which call_tool reports.
SpawnRegisters ==
    /\ up /\ pc = "register"
    /\ \/ \E r \in Listening(port[Newest]) : Register(spawning, r)
       \/ Listening(port[Newest]) = {} /\ UNCHANGED regVars
    /\ pc' = "serve"
    /\ spawning' = NoName
    /\ UNCHANGED <<up, procs, nextPort, launched, procVars>>

\* milo_connect_tcp: any name, any port.
ConnectTcp ==
    /\ Idle
    /\ \E n \in Names, r \in Receivers : Register(n, r)
    /\ UNCHANGED <<srvVars, procVars>>

\* milo_disconnect: unregister, pop the process, terminate it and wait, or
\* kill it.
Disconnect ==
    /\ Idle
    /\ \E n \in Names :
          /\ Registered(n)
          /\ Unregister(n)
          /\ procs' = [procs EXCEPT ![n] = NoReceiver]
          /\ life' = [r \in Receivers |-> IF r = procs[n] THEN "dead" ELSE life[r]]
    /\ UNCHANGED <<up, nextPort, launched, pc, spawning, port, asked>>

\* A tool that drives a device, milo_query of all of them, or an operation of
\* the registry by the program that embeds the server.
BeginOp ==
    /\ Idle
    /\ BeginFleetOp \/ BeginDeviceOp
    /\ UNCHANGED <<srvVars, procVars>>

OpStep ==
    /\ Skip \/ VisitReturns \/ VisitRaises \/ EndOp
    /\ UNCHANGED <<srvVars, procVars>>

\* Mutant: _procs is cleared before it is gone through.
ShutdownForgets ==
    /\ up
    /\ CloseAll
    /\ procs' = [n \in Names |-> NoReceiver]
    /\ up' = FALSE
    /\ UNCHANGED <<nextPort, launched, pc, spawning, procVars>>

\* shutdown(), in the finally of serve_stdio: at the end of stdin, or when a
\* KeyboardInterrupt, which call_tool does not catch, ends the tool under way
\* wherever it is.
Shutdown ==
    /\ up
    /\ CloseAll
    /\ asked' = asked \cup ({procs[n] : n \in Names} \cap Own)
    /\ procs' = [n \in Names |-> NoReceiver]
    /\ up' = FALSE
    /\ UNCHANGED <<nextPort, launched, pc, spawning, life, port>>

-----------------------------------------------------------------------------
ServerNext ==
    \/ Spawn \/ PortUp \/ PortTimeout \/ SpawnRegisters \/ ConnectTcp
    \/ Disconnect \/ BeginOp \/ OpStep \/ Shutdown

Next ==
    \/ ServerNext
    \/ OutsiderStarts \/ Bind \/ Crash
    \/ \E r \in Own : Dies(r)

Spec == Init /\ [][Next]_vars

\* A SIGTERM is delivered.
FairSpec == Spec /\ \A r \in Own : WF_vars(Dies(r))

-----------------------------------------------------------------------------
(* Properties.                                                             *)

\* While the server serves, every receiver the server launched is dead, told to die,
\* or still in _procs, where disconnect and shutdown find it: no failed spawn,
\* re-registered name or crash makes the server forget a process. It holds while
\* outsiders listen on other ports than the server picks: a stranger on the port
\* of a spawn that then fails leaves the process under a name still free.
NoOrphans ==
    (up /\ pc = "serve") =>
        \A r \in Own : Alive(r) => r \in asked \/ \E n \in Names : procs[n] = r

\* After the server has shut down all it launched dies, also when the shutdown
\* interrupts a tool.  Excepted is the receiver of a spawn interrupted between
\* Popen and _procs[name] = proc (server.py:90-98): nothing refers to it.
FleetTornDown ==
    ~up ~> \A r \in Own : ~Alive(r) \/ (pc = "wait" /\ r = Newest)

=============================================================================
