------------------------------- MODULE MCPeibol -------------------------------
(* Instances of Peibol for TLC. *)
EXTENDS Peibol

CONSTANTS c1, c2

MCListenSocket == 3
MCTwoFds == {5, 6}
MCAllMsgs == {"GET", "START", "STOP", "OTHER"}
\* OTHER may be taken for any command, START and STOP among them.
MCFewMsgs == {"GET", "OTHER"}
\* Lines that say what they mean.
MCPlainMsgs == {"GET", "START", "STOP"}
MCTwoConns == {c1, c2}
MCAllFaults == {"port", "select", "eintr", "store"}
===============================================================================
