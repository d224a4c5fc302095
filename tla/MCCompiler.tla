----------------------------- MODULE MCCompiler -----------------------------
EXTENDS Compiler

\* Two processes of one thread each, both with the cache.
OwnProcess == [t \in Threads |-> t]
Calls == [t \in Threads |-> 2]
=============================================================================
