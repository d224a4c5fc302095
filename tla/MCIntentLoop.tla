---------------------------- MODULE MCIntentLoop ----------------------------
(* A session alone, and an MCP server's threads side by side.               *)
EXTENDS IntentLoop

CONSTANTS cli, m1, m2

\* A `milo run` and an MCP server with two tool threads.
OneProcessEach == [t \in Threads |-> IF t = cli THEN "run" ELSE "mcp"]

\* Four compiles allow a prompt that uses every retry and a second session.
Calls == [t \in Threads |-> IF t = cli THEN 4 ELSE IF t = m1 THEN 2 ELSE 1]

\* The session alone, or the server's two threads side by side.
Alternatives == {{cli}, {m1, m2}}
====
