----------------------------- MODULE ClientSocket ------------------------------
(***************************************************************************)
(* CClientSocket: client ends of connections, several of them in one       *)
(* process with its table of descriptors.  clientSocket = 0 stands for no  *)
(* connection, and 0 is a descriptor like any other: standard input, or,   *)
(* in a process started without one, the first socket.                     *)
(*                                                                         *)
(* The process has one thread; a callback of one object may call any       *)
(* other, and create objects, before it returns.  During its own object's  *)
(* onConnectionClose() it may call that object's closeConnection() and     *)
(* sendBytes(), on a number that may be another's by then; that it neither *)
(* deletes it nor calls its manage() there, inside the manage() that made  *)
(* the call, is assumed: the code does not forbid it.                      *)
(***************************************************************************)
EXTENDS Integers, FiniteSetsExt, SequencesExt

CONSTANTS Objects,
          MaxFd,    \* bound: descriptors
          MaxMsgs   \* bound: blocks of the server not read yet

ASSUME ClientAssumption ==
  /\ MaxFd \in Nat \ {0} /\ MaxMsgs \in Nat \ {0}
  /\ Objects \intersect {"free", "application", "lost"} = {}

Fds == 0..MaxFd
Holders == Objects \union {"free", "application", "lost"}

VARIABLES table,        \* descriptor -> the object that opened it, or another holder
          alive,        \* objects constructed and not deleted
          clientSocket,
          link,         \* the connection: none, connecting, open, ended
          err,          \* it ended with an error that no call was told yet
          inbox,        \* blocks that arrived and were not read
          noticing,     \* objects inside onConnectionClose(), the innermost last
          strayed       \* history: closeConnection() inside the object's own
                        \* onConnectionClose() closed another's socket

connVars == <<link, err, inbox>>
vars == <<table, alive, clientSocket, connVars, noticing, strayed>>

Free == {d \in Fds : table[d] = "free"}
NotNoticing(o) == ~Contains(noticing, o)

\* close(): what the descriptor belongs to does not matter.
Close(d) == table' = [table EXCEPT ![d] = "free"]

Init ==
  /\ table \in [Fds -> {"free", "application"}] /\ \A d \in Fds \ {0} : table[d] = "free"
  /\ alive = {} /\ clientSocket = [o \in Objects |-> 0]
  /\ link = [o \in Objects |-> "none"] /\ err = [o \in Objects |-> FALSE]
  /\ inbox = [o \in Objects |-> 0]
  /\ noticing = <<>> /\ strayed = FALSE

-----------------------------------------------------------------------------
(* The calls of the application.                                            *)

\* The constructor; connect() is under way or done already.
New(o) ==
  /\ o \notin alive /\ Free # {}
  /\ alive' = alive \union {o}
  /\ clientSocket' = [clientSocket EXCEPT ![o] = Min(Free)]
  /\ table' = [table EXCEPT ![Min(Free)] = o]
  /\ \E s \in {"connecting", "open"} : link' = [link EXCEPT ![o] = s]
  /\ err' = [err EXCEPT ![o] = FALSE] /\ inbox' = [inbox EXCEPT ![o] = 0]
  /\ UNCHANGED <<noticing, strayed>>

\* Host not found, or connect() fails at once: the exception leaves the socket open.
\* Without a free descriptor the constructor throws and changes nothing.
NewFails(o) ==
  /\ o \notin alive /\ Free # {}
  /\ table' = [table EXCEPT ![Min(Free)] = "lost"]
  /\ UNCHANGED <<alive, clientSocket, connVars, noticing, strayed>>

Delete(o) ==
  /\ o \in alive /\ NotNoticing(o)
  /\ alive' = alive \ {o}
  /\ Close(clientSocket[o])
  /\ UNCHANGED <<clientSocket, connVars, noticing, strayed>>

\* The number is still the one that manage() closed, and an object took it since.
Strays(o) == ~NotNoticing(o) /\ clientSocket[o] # 0 /\ table[clientSocket[o]] \in Objects

CloseConnection(o) ==
  /\ o \in alive
  /\ Close(clientSocket[o])
  /\ clientSocket' = [clientSocket EXCEPT ![o] = 0]
  /\ strayed' = (strayed \/ Strays(o))
  /\ UNCHANGED <<alive, connVars, noticing>>

\* Mutant: the socket is forgotten, not closed.
SendFailsForgets(o) ==
  /\ o \in alive /\ clientSocket[o] # 0
  /\ LET h == table[clientSocket[o]] IN
       h \in Objects /\ link[h] = "ended" /\ err[h] /\ err' = [err EXCEPT ![h] = FALSE]
  /\ clientSocket' = [clientSocket EXCEPT ![o] = 0]
  /\ UNCHANGED <<table, alive, link, inbox, noticing, strayed>>

\* sendBytes() on a connection that ended: throws, and the two lines after the throw never
\* run, so the object still has its socket; the pending error is spent.  A send that
\* succeeds, that finds the buffer full (throws too) or that has no socket changes nothing.
SendFails(o) ==
  /\ o \in alive /\ clientSocket[o] # 0
  /\ LET h == table[clientSocket[o]] IN
       h \in Objects /\ link[h] = "ended" /\ err[h] /\ err' = [err EXCEPT ![h] = FALSE]
  /\ UNCHANGED <<table, alive, clientSocket, link, inbox, noticing, strayed>>

-----------------------------------------------------------------------------
(* manage(): select() and recv() on the number in clientSocket.  Nothing to *)
(* read, a descriptor that is no socket, and a closed one, for which it     *)
(* throws, change nothing.                                                  *)

Manageable(o) == o \in alive /\ NotNoticing(o) /\ table[clientSocket[o]] \in Objects

\* recv() gives a block, the rest is for the next call: onMessageReceived().
ReadData(o) ==
  LET h == table[clientSocket[o]] IN
  /\ Manageable(o) /\ inbox[h] > 0
  /\ inbox' = [inbox EXCEPT ![h] = @ - 1]
  /\ UNCHANGED <<table, alive, clientSocket, link, err, noticing, strayed>>

\* recv() answers -1 and spends the error; readData() returns it and nobody looks.
ReadFails(o) ==
  LET h == table[clientSocket[o]] IN
  /\ Manageable(o) /\ inbox[h] = 0 /\ err[h]
  /\ err' = [err EXCEPT ![h] = FALSE]
  /\ UNCHANGED <<table, alive, clientSocket, link, inbox, noticing, strayed>>

\* Mutant: the test of readData() is for an error.
NoticeError(o) ==
  LET h == table[clientSocket[o]] IN
  /\ Manageable(o) /\ inbox[h] = 0 /\ err[h] /\ link[h] = "ended"
  /\ Close(clientSocket[o])
  /\ noticing' = Append(noticing, o)
  /\ UNCHANGED <<alive, clientSocket, connVars, strayed>>

\* recv() answers 0: close(), then onConnectionClose() begins.
NoticeClose(o) ==
  LET h == table[clientSocket[o]] IN
  /\ Manageable(o) /\ inbox[h] = 0 /\ ~err[h] /\ link[h] = "ended"
  /\ Close(clientSocket[o])
  /\ noticing' = Append(noticing, o)
  /\ UNCHANGED <<alive, clientSocket, connVars, strayed>>

\* Mutant: clientSocket keeps its number.
NoticeEndsKeeps ==
  /\ noticing # <<>> /\ noticing' = Front(noticing)
  /\ UNCHANGED <<table, alive, clientSocket, connVars, strayed>>

\* It returns, and clientSocket = 0.
NoticeEnds ==
  /\ noticing # <<>> /\ noticing' = Front(noticing)
  /\ clientSocket' = [clientSocket EXCEPT ![Last(noticing)] = 0]
  /\ UNCHANGED <<table, alive, connVars, strayed>>

Manage(o) == ReadData(o) \/ ReadFails(o) \/ NoticeClose(o)

-----------------------------------------------------------------------------
(* The server and the network.                                              *)

Held(o) == \E d \in Fds : table[d] = o

Connects(o) ==
  /\ Held(o) /\ link[o] = "connecting" /\ link' = [link EXCEPT ![o] = "open"]
  /\ UNCHANGED <<table, alive, clientSocket, err, inbox, noticing, strayed>>

ServerSends(o) ==
  /\ Held(o) /\ link[o] = "open" /\ inbox[o] < MaxMsgs
  /\ inbox' = [inbox EXCEPT ![o] = @ + 1]
  /\ UNCHANGED <<table, alive, clientSocket, link, err, noticing, strayed>>

\* The server closes; or it refuses, resets or is lost, which is an error first and then
\* an end like the other.
LinkEnds(o) ==
  /\ Held(o) /\ link[o] \in {"connecting", "open"} /\ link' = [link EXCEPT ![o] = "ended"]
  /\ \E e \in BOOLEAN : (link[o] = "connecting" => e) /\ err' = [err EXCEPT ![o] = e]
  /\ UNCHANGED <<table, alive, clientSocket, inbox, noticing, strayed>>

Next ==
  \/ \E o \in Objects : \/ New(o) \/ NewFails(o) \/ Delete(o) \/ CloseConnection(o)
                        \/ SendFails(o) \/ Manage(o)
                        \/ Connects(o) \/ ServerSends(o) \/ LinkEnds(o)
  \/ NoticeEnds

\* The application calls manage() of every object again and again, and its callbacks return.
FairSpec ==
  /\ Init /\ [][Next]_vars
  /\ \A o \in Objects : WF_vars(Manage(o))
  /\ WF_vars(NoticeEnds)

-----------------------------------------------------------------------------
(* Properties.                                                              *)

\* The variables keep their types.
TypeOK ==
  /\ table \in [Fds -> Holders]
  /\ alive \subseteq Objects
  /\ clientSocket \in [Objects -> Fds]
  /\ link \in [Objects -> {"none", "connecting", "open", "ended"}]
  /\ err \in [Objects -> BOOLEAN]
  /\ inbox \in [Objects -> 0..MaxMsgs]
  /\ noticing \in Seq(alive) /\ IsInjective(noticing)
  /\ strayed \in BOOLEAN

\* A number that is not 0 is the object's own open descriptor, whatever the others opened
\* and closed in between, except inside the object's own onConnectionClose(), where the
\* number may belong to another already, and after a closeConnection() there that closed
\* that other's (CClientSocket.cpp:123-127).
HeldOpen ==
  ~strayed =>
    \A o \in alive : clientSocket[o] # 0 /\ NotNoticing(o) => table[clientSocket[o]] = o

\* Apart from what failed constructors leave, an open socket belongs to an object that
\* exists and knows its number: deleting the object closes it (CClientSocket.cpp:57-60).
NoLeak ==
  \A d \in Fds, o \in Objects : table[d] = o => o \in alive /\ clientSocket[o] = d

\* A connection that ended, cleanly or with an error, and whatever call is told the error,
\* is closed some time: an error alone is ignored, and the end comes after it
\* (CClientSocket.cpp:118-127, 142-151).
CloseNoticed ==
  \A o \in Objects :
    (o \in alive /\ table[clientSocket[o]] = o /\ link[o] = "ended")
      ~> ~Held(o)
===============================================================================
