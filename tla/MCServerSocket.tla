---------------------------- MODULE MCServerSocket ----------------------------
(* Instances of ServerSocket for TLC. *)
EXTENDS ServerSocket

CONSTANTS c1, c2, c3, get

MCListenSocket == 3
MCTwoFds == {5, 6}
MCThreeConns == {c1, c2, c3}
MCMsgs == {get}
===============================================================================
