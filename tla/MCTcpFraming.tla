---------------------------- MODULE MCTcpFraming ----------------------------
(* TcpFraming for TLC: payloads of length 0, in between, maximal, too long. *)
EXTENDS TcpFraming

=============================================================================
