------------------------- MODULE MCThreadedExecutor -------------------------
(* ThreadedExecutor under an arbitrary caller, for TLC.                    *)
EXTENDS ThreadedExecutor

=============================================================================
