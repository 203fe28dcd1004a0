------------------------------- MODULE LiveFeed -------------------------------
(***************************************************************************)
(* What the daemon does for its clients, without sockets: every connected  *)
(* client is a stream of commands, and at most one client is fed with live *)
(* readings, the last one that asked.  A feed is only ever given to the    *)
(* client whose command is being read.                                     *)
(*                                                                         *)
(* The daemon promises to feed a client until a new order                  *)
(* (peibol.cpp:269): that is Promised.  What it keeps is less, since any   *)
(* client that leaves, fed or not, ends the feed (LeaveEndsFeed).          *)
(***************************************************************************)
EXTENDS Sequences, Integers

CONSTANTS Conns, NoConn, Msgs

VARIABLES connected, \* clients with an accepted connection
          pending,   \* commands of each client not yet read
          feed       \* the client that receives the live readings, or NoConn

vars == <<connected, pending, feed>>

Init ==
  /\ connected = {} /\ feed = NoConn
  /\ pending = [c \in Conns |-> <<>>]

Submit(c, msg) ==
  /\ pending' = [pending EXCEPT ![c] = Append(@, msg)]
  /\ UNCHANGED <<connected, feed>>

Accept(c) ==
  /\ c \notin connected /\ connected' = connected \union {c}
  /\ UNCHANGED <<pending, feed>>

Refuse(c) ==
  /\ c \notin connected /\ pending' = [pending EXCEPT ![c] = <<>>]
  /\ UNCHANGED <<connected, feed>>

\* The first command read decides; those read with it are lost.
Read(c) ==
  /\ c \in connected
  /\ \E n \in 1..Len(pending[c]) :
        pending' = [pending EXCEPT ![c] = SubSeq(@, n + 1, Len(@))]
  /\ feed' \in CASE Head(pending[c]) = "GET"   -> {feed}
                 [] Head(pending[c]) = "START" -> {c}
                 [] Head(pending[c]) = "STOP"  -> {NoConn}
                 [] OTHER                      -> {feed, c, NoConn}
  /\ UNCHANGED connected

Left(c) ==
  /\ c \in connected /\ connected' = connected \ {c}
  /\ pending' = [pending EXCEPT ![c] = <<>>]

\* A client leaves and takes its own feed along only.
Leave(c) == Left(c) /\ feed' = IF feed = c THEN NoConn ELSE feed

\* Short of the promise: onConnectionClose() does not look at which client left.
LeaveEndsFeed(c) == Left(c) /\ feed' = NoConn

\* The daemon ends: every stream is lost, queued or connected.
End ==
  /\ connected' = {} /\ feed' = NoConn
  /\ pending' = [c \in Conns |-> <<>>]

Promised ==
  \/ \E c \in Conns : Accept(c) \/ Refuse(c) \/ Read(c) \/ Leave(c)
  \/ \E c \in Conns, msg \in Msgs : Submit(c, msg)
  \/ End

Next == Promised \/ \E c \in Conns : LeaveEndsFeed(c)

PromisedSpec == Init /\ [][Promised]_vars
Spec == Init /\ [][Next]_vars
===============================================================================
