--------------------------- MODULE MCSmartClient ---------------------------
(* SmartClient for TLC: three servers on the ports of the README.           *)
EXTENDS SmartClient
MCRaftPort == [s \in Servers |-> 6000 + s]
=============================================================================
