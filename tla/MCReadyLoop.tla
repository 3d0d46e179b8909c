---------------------------- MODULE MCReadyLoop ----------------------------
(* ReadyLoop for TLC.                                                       *)
EXTENDS ReadyLoop
MCPayload == Command \cup {Empty}
MCConfs == {Voters}
MCSnapData == {NoData} \cup [Keys -> Ids \cup OtherIds \cup {NoValue}]
=============================================================================
