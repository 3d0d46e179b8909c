---------------------------- MODULE MCServerApp ----------------------------
(* ServerApp for TLC: "p" is a letter and the short form of PUT. *)
EXTENDS ServerApp
=============================================================================
