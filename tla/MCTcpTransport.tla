--------------------------- MODULE MCTcpTransport ---------------------------
(* TcpTransport for TLC.                                                    *)
EXTENDS TcpTransport
=============================================================================
