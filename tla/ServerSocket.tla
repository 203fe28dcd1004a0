----------------------------- MODULE ServerSocket -----------------------------
(***************************************************************************)
(* CServerSocket: one listening socket, a deque of accepted descriptors    *)
(* and manage(), which polls all of them with a zero-timeout select() and  *)
(* serves what is ready.  The class runs on one thread; the clients and    *)
(* the kernel act between any two of its system calls, so manage() is cut  *)
(* into steps at its loop heads and at each descriptor it serves.          *)
(*                                                                         *)
(* The kernel's side is external: the accept queue, the descriptor table   *)
(* and, for each client, the commands not yet received and the state of    *)
(* the TCP link as the server's end sees it:                               *)
(*   up    established            fin   the client closed                  *)
(*   rst   reset, error pending   dead  reset, error already reported      *)
(*   none  no connection: the client is free to connect (again)            *)
(* The application is arbitrary here: any callback may answer its client   *)
(* or not, and between two calls of manage() the connections may be        *)
(* removed, sent to and accepted or not.  It uses the class as applicVFD   *)
(* does in that a callback sends to the client being read only, and that   *)
(* readData() and openedSocket(), public though they are, are called by    *)
(* the class itself only.                                                  *)
(***************************************************************************)
EXTENDS Integers, SequencesExt

CONSTANTS Conns,        \* clients
          NoConn,       \* owner of a free descriptor
          ListenSocket, \* descriptor of the listening socket
          ClientFds,    \* descriptors the process has left for clients
          Msgs,         \* commands a client can send
          MaxInbox,     \* bound: commands a client has in flight
          MaxInFlight,  \* bound: commands all clients have in flight
          MaxBacklog    \* length of the accept queue (10 in the code)

ASSUME ConnsAssumption == NoConn \notin Conns
ASSUME FdsAssumption ==
  /\ ListenSocket \in Nat
  /\ ClientFds \subseteq Nat
  /\ IsFiniteSet(ClientFds)
  /\ \A fd \in ClientFds : fd > ListenSocket
ASSUME BoundsAssumption ==
  MaxInbox \in Nat /\ MaxInFlight \in Nat /\ MaxBacklog \in Nat

VARIABLES connectedSockets, \* the deque of accepted descriptors
          acceptActive,
          at,       \* where the thread is: app, round, scan or deleted
          fdset,    \* manage(): set, the bits still to be served
          rc,       \* manage(): rounds left
          dequeit,  \* manage(): position of the iterator
          backlog,  \* kernel: accept queue
          peer,     \* kernel: owner of each descriptor
          inbox,    \* kernel: commands received from each client, unread
          link      \* kernel: state of each client's link

kernelVars == <<backlog, peer, inbox, link>>
manageVars == <<at, fdset, rc, dequeit>>
vars == <<connectedSockets, acceptActive, at, fdset, rc, dequeit,
          backlog, peer, inbox, link>>

LinkStates == {"none", "up", "fin", "rst", "dead"}

Init ==
  /\ connectedSockets = <<>>
  /\ acceptActive = FALSE
  /\ at = "app" /\ fdset = {} /\ rc = 0 /\ dequeit = 0
  /\ backlog = <<>>
  /\ peer = [fd \in ClientFds |-> NoConn]
  /\ inbox = [c \in Conns |-> <<>>]
  /\ link = [c \in Conns |-> "none"]

-----------------------------------------------------------------------------
(* The descriptor table.                                                   *)

OpenFds == {fd \in ClientFds : peer[fd] # NoConn}
FreeFds == ClientFds \ OpenFds

\* accept() takes the lowest free descriptor.
LowestFree(fd) == fd \in FreeFds /\ \A g \in FreeFds : fd <= g

\* select() marks a descriptor readable when recv() or accept() would not block.
Ready(fd) ==
  \/ fd = ListenSocket /\ backlog # <<>>
  \/ fd \in OpenFds /\ (inbox[peer[fd]] # <<>> \/ link[peer[fd]] # "up")

\* send() fails once the client has reset the link.  (To a client that does not read it
\* may also fail by a signal, with nothing taken: so every send below may fail.)
Deliverable(fd) == link[peer[fd]] \in {"up", "fin"}

\* close() of a set of descriptors: unread commands are lost, the client sees it.
CloseFds(fds) ==
  LET owners == {peer[fd] : fd \in fds \intersect OpenFds} IN
  /\ peer' = [fd \in ClientFds |-> IF fd \in fds THEN NoConn ELSE peer[fd]]
  /\ link' = [c \in Conns |-> IF c \in owners THEN "none" ELSE link[c]]
  /\ inbox' = [c \in Conns |-> IF c \in owners THEN <<>> ELSE inbox[c]]

-----------------------------------------------------------------------------
(* manage().                                                               *)

\* The first argument of select() less one: the last assignment wins.
MaxSock == FoldLeft(LAMBDA m, fd : IF fd > ListenSocket THEN fd ELSE m,
                    ListenSocket, connectedSockets)

\* Mutant: maxsock passed to select() without the + 1 its clients need.
SelectedBelowMax ==
  {fd \in {ListenSocket} \union ToSet(connectedSockets) :
      (fd = ListenSocket \/ fd < MaxSock) /\ Ready(fd)}

\* Mutant: the listening socket polled only while no client is connected.
SelectedClientsFirst ==
  {fd \in IF connectedSockets = <<>> THEN {ListenSocket} ELSE ToSet(connectedSockets) :
      fd <= MaxSock /\ Ready(fd)}

Selected == {fd \in {ListenSocket} \union ToSet(connectedSockets) :
                fd <= MaxSock /\ Ready(fd)}

\* select() reports something.  With nothing to report manage() just returns.
ManageSelect ==
  /\ at = "app"
  /\ Selected # {}
  /\ at' = "round"
  /\ fdset' = Selected
  /\ rc' = Cardinality(Selected)
  /\ UNCHANGED <<connectedSockets, acceptActive, dequeit, kernelVars>>

Return == at' = "app" /\ fdset' = {} /\ rc' = 0 /\ dequeit' = 0

EndManage ==
  /\ at = "round" /\ rc = 0
  /\ Return
  /\ UNCHANGED <<connectedSockets, acceptActive, kernelVars>>

\* Head of a round: rc--, accept if asked to, iterator to begin().
StartScan ==
  /\ at = "round" /\ rc > 0
  /\ at' = "scan" /\ rc' = rc - 1 /\ dequeit' = 1
  /\ fdset' = fdset \ {ListenSocket}

\* accept() needs a request (the listening socket does not block) and a descriptor.
CanAccept == backlog # <<>> /\ FreeFds # {}

RoundWithoutAccept ==
  /\ ListenSocket \notin fdset
  /\ StartScan
  /\ UNCHANGED <<connectedSockets, acceptActive, kernelVars>>

AcceptConnection ==
  /\ ListenSocket \in fdset /\ CanAccept /\ acceptActive
  /\ StartScan
  /\ \E fd \in ClientFds :
        /\ LowestFree(fd)
        /\ connectedSockets' = Append(connectedSockets, fd)
        /\ peer' = [peer EXCEPT ![fd] = Head(backlog)]
  /\ backlog' = Tail(backlog)
  /\ UNCHANGED <<acceptActive, inbox, link>>

\* Accept inactive: the new socket is closed at once.
RejectConnection ==
  /\ ListenSocket \in fdset /\ CanAccept /\ ~acceptActive
  /\ StartScan
  /\ backlog' = Tail(backlog)
  /\ link' = [link EXCEPT ![Head(backlog)] = "none"]
  /\ inbox' = [inbox EXCEPT ![Head(backlog)] = <<>>]
  /\ UNCHANGED <<connectedSockets, acceptActive, peer>>

\* accept() fails: the exception breaks the loop and manage() returns without
\* serving the clients that select() reported.
AcceptFails ==
  /\ at = "round" /\ rc > 0 /\ ListenSocket \in fdset /\ ~CanAccept
  /\ Return
  /\ UNCHANGED <<connectedSockets, acceptActive, kernelVars>>

-----------------------------------------------------------------------------
(* The scan of the deque.  The iterator may sit one before begin() (0): see *)
(* IteratorAfterErase.                                                      *)

OnMarked ==
  /\ at = "scan"
  /\ dequeit \in 1..Len(connectedSockets)
  /\ connectedSockets[dequeit] \in fdset

Current == connectedSockets[dequeit]
CurrentConn == peer[Current]

ScanEnd ==
  /\ at = "scan" /\ dequeit = Len(connectedSockets) + 1
  /\ at' = "round" /\ dequeit' = 0
  /\ UNCHANGED <<connectedSockets, acceptActive, fdset, rc, kernelVars>>

\* The slot before begin() still holds the descriptor just removed, whose bit is clear.
ScanSkip ==
  /\ at = "scan" /\ dequeit <= Len(connectedSockets)
  /\ dequeit > 0 => Current \notin fdset
  /\ dequeit' = dequeit + 1
  /\ UNCHANGED <<connectedSockets, acceptActive, at, fdset, rc, kernelVars>>

\* Mutant: the bit is not cleared before the descriptor is read.
ReadDataKeepsBit(n) ==
  /\ OnMarked
  /\ n \in 1..Len(inbox[CurrentConn])
  /\ inbox' = [inbox EXCEPT ![CurrentConn] = SubSeq(@, n + 1, Len(@))]
  /\ UNCHANGED <<connectedSockets, acceptActive, at, fdset, rc, dequeit,
                 backlog, peer, link>>

\* recv() takes n of the commands waiting and onMessageReceived is called; an
\* answer that can be sent leaves nothing on this side.  The iterator stays: the
\* same descriptor is tested again, its bit clear.
ReadData(n) ==
  /\ OnMarked
  /\ n \in 1..Len(inbox[CurrentConn])
  /\ fdset' = fdset \ {Current}
  /\ inbox' = [inbox EXCEPT ![CurrentConn] = SubSeq(@, n + 1, Len(@))]
  /\ UNCHANGED <<connectedSockets, acceptActive, at, rc, dequeit, backlog, peer, link>>

\* Mutant: the iterator moves on although the next element came to its place.
IteratorMovesOn ==
  IF dequeit < Len(connectedSockets) THEN dequeit + 1 ELSE dequeit

\* deque::erase() inside the callback moves the shorter side of the deque (as
\* libstdc++ does), under manage()'s own iterator at the erased position.  The
\* deque is taken to lie in one of its nodes (128 descriptors): an erasure at the end
\* of a node frees it under the iterator, which is left out.
IteratorAfterErase ==
  IF dequeit - 1 < Len(connectedSockets) \div 2 THEN dequeit - 1 ELSE dequeit

\* As ReadData, but the answer's send fails: removeConnection within the scan.
ReadDataSendFails ==
  /\ OnMarked
  /\ inbox[CurrentConn] # <<>>
  /\ fdset' = fdset \ {Current}
  /\ CloseFds({Current})
  /\ connectedSockets' = RemoveAt(connectedSockets, dequeit)
  /\ dequeit' = IteratorAfterErase
  /\ UNCHANGED <<acceptActive, at, rc, backlog>>

\* recv() reports the reset (-1): nothing is removed.
ReadError ==
  /\ OnMarked
  /\ inbox[CurrentConn] = <<>> /\ link[CurrentConn] = "rst"
  /\ fdset' = fdset \ {Current}
  /\ link' = [link EXCEPT ![CurrentConn] = "dead"]
  /\ UNCHANGED <<connectedSockets, acceptActive, at, rc, dequeit, backlog, peer, inbox>>

\* Mutant: the closed descriptor stays in the deque.
ReadClosedNotErased ==
  /\ OnMarked
  /\ inbox[CurrentConn] = <<>> /\ link[CurrentConn] \in {"fin", "dead"}
  /\ fdset' = fdset \ {Current}
  /\ CloseFds({Current})
  /\ UNCHANGED <<connectedSockets, acceptActive, at, rc, dequeit, backlog>>

\* Mutant: the iterator is advanced past the position erase() returned.
ReadClosedPastNext ==
  /\ OnMarked
  /\ inbox[CurrentConn] = <<>> /\ link[CurrentConn] \in {"fin", "dead"}
  /\ fdset' = fdset \ {Current}
  /\ CloseFds({Current})
  /\ connectedSockets' = RemoveAt(connectedSockets, dequeit)
  /\ dequeit' = dequeit + 1
  /\ UNCHANGED <<acceptActive, at, rc, backlog>>

\* recv() returns 0: close, notify, erase; erase() returns the next position.
ReadClosed ==
  /\ OnMarked
  /\ inbox[CurrentConn] = <<>> /\ link[CurrentConn] \in {"fin", "dead"}
  /\ fdset' = fdset \ {Current}
  /\ CloseFds({Current})
  /\ connectedSockets' = RemoveAt(connectedSockets, dequeit)
  /\ UNCHANGED <<acceptActive, at, rc, dequeit, backlog>>

-----------------------------------------------------------------------------
(* The public methods, called by the application between two manage()s.    *)

RemoveConnection(sockno) ==
  /\ at = "app"
  /\ \E i \in 1..Len(connectedSockets) :
        /\ connectedSockets[i] = sockno
        /\ connectedSockets' = RemoveAt(connectedSockets, i)
  /\ CloseFds({sockno})
  /\ UNCHANGED <<acceptActive, manageVars, backlog>>

\* sendBytes(): only a failed send changes anything on this side.
SendBytesFails(sockno) == RemoveConnection(sockno)

RemoveAllConnections ==
  /\ at = "app" /\ connectedSockets # <<>>
  /\ CloseFds(ToSet(connectedSockets))
  /\ connectedSockets' = <<>>
  /\ UNCHANGED <<acceptActive, manageVars, backlog>>

SetAccept(active) ==
  /\ at = "app" /\ acceptActive # active
  /\ acceptActive' = active
  /\ UNCHANGED <<connectedSockets, manageVars, kernelVars>>

ActivateAccept == SetAccept(TRUE)
DeactivateAccept == SetAccept(FALSE)

\* Destructor: closing the listening socket resets the queued connections.
Delete ==
  /\ at = "app" /\ at' = "deleted"
  /\ connectedSockets' = <<>> /\ backlog' = <<>>
  /\ peer' = [fd \in ClientFds |->
                IF fd \in ToSet(connectedSockets) THEN NoConn ELSE peer[fd]]
  /\ link' = [c \in Conns |-> "none"]
  /\ inbox' = [c \in Conns |-> <<>>]
  /\ UNCHANGED <<acceptActive, fdset, rc, dequeit>>

-----------------------------------------------------------------------------
(* The clients and the network (external).                                 *)

Connect(c) ==
  /\ at # "deleted" /\ link[c] = "none" /\ Len(backlog) < MaxBacklog
  /\ link' = [link EXCEPT ![c] = "up"]
  /\ backlog' = Append(backlog, c)
  /\ UNCHANGED <<connectedSockets, acceptActive, manageVars, peer, inbox>>

InFlight == UNION {{c} \X (1..Len(inbox[c])) : c \in Conns}

Submit(c, m) ==
  /\ link[c] = "up" /\ Len(inbox[c]) < MaxInbox /\ Cardinality(InFlight) < MaxInFlight
  /\ inbox' = [inbox EXCEPT ![c] = Append(@, m)]
  /\ UNCHANGED <<connectedSockets, acceptActive, manageVars, backlog, peer, link>>

Finish(c) ==
  /\ link[c] = "up"
  /\ link' = [link EXCEPT ![c] = "fin"]
  /\ UNCHANGED <<connectedSockets, acceptActive, manageVars, backlog, peer, inbox>>

\* A reset after an orderly close reads as the end of the stream.
Reset(c) ==
  /\ link[c] \in {"up", "fin"}
  /\ link' = [link EXCEPT ![c] = IF link[c] = "up" THEN "rst" ELSE "dead"]
  /\ UNCHANGED <<connectedSockets, acceptActive, manageVars, backlog, peer, inbox>>

-----------------------------------------------------------------------------
ReadStep ==
  \/ \E n \in 1..MaxInbox : ReadData(n)
  \/ ReadDataSendFails
  \/ ReadError
  \/ ReadClosed

AcceptStep == AcceptConnection \/ RejectConnection

ManageStep ==
  \/ ManageSelect \/ EndManage
  \/ RoundWithoutAccept \/ AcceptStep \/ AcceptFails
  \/ ScanEnd \/ ScanSkip \/ ReadStep

AppStep ==
  \/ \E fd \in ClientFds : RemoveConnection(fd) \/ SendBytesFails(fd)
  \/ RemoveAllConnections
  \/ ActivateAccept \/ DeactivateAccept
  \/ Delete

ClientStep ==
  \E c \in Conns :
     \/ Connect(c) \/ Finish(c) \/ Reset(c)
     \/ \E m \in Msgs : Submit(c, m)

Deleted == at = "deleted" /\ UNCHANGED vars

Next == ManageStep \/ AppStep \/ ClientStep \/ Deleted

Spec == Init /\ [][Next]_vars

\* The application keeps calling manage() and the thread keeps running in it.
FairSpec == Spec /\ WF_vars(ManageStep)

-----------------------------------------------------------------------------
TypeOK ==
  /\ connectedSockets \in Seq(ClientFds)
  /\ acceptActive \in BOOLEAN
  /\ at \in {"app", "round", "scan", "deleted"}
  /\ fdset \subseteq ClientFds \union {ListenSocket}
  /\ rc \in Nat
  /\ dequeit \in IF at = "scan" THEN 0..Len(connectedSockets) + 1 ELSE {0}
  /\ backlog \in Seq(Conns)
  /\ peer \in [ClientFds -> Conns \union {NoConn}]
  /\ inbox \in [Conns -> Seq(Msgs)]
  /\ link \in [Conns -> LinkStates]

\* The deque lists every open client descriptor, each once: no descriptor leaks,
\* none stays listed after its close(), across removals under the scan's iterator
\* (readData, removeConnection, removeAllConnections, __accept_internal).
Registered ==
  /\ ToSet(connectedSockets) = OpenFds
  /\ \A i, j \in 1..Len(connectedSockets) :
        connectedSockets[i] = connectedSockets[j] => i = j

\* The client sockets are blocking, so manage() may call recv() only while there
\* is something to receive: a bit of the set stays true until it is served.
RecvNeverBlocks == \A fd \in fdset : Ready(fd)

\* The scan never moves its iterator past a marked descriptor, whatever was erased
\* under it, so that none is left when it reaches end().
NothingSkipped ==
  at = "scan" => \A i \in 1..dequeit - 1 : connectedSockets[i] \notin fdset

\* A descriptor select() can see (at most MaxSock) and that stays ready is read,
\* unless the process is out of descriptors with a connection request pending.
ReadyServed ==
  \A fd \in ClientFds :
     <>[](Ready(fd) /\ fd <= MaxSock /\ (backlog # <<>> => FreeFds # {}))
       => []<><<ReadStep /\ fd \in fdset /\ fd \notin fdset'>>_vars

\* A pending connection request is accepted or rejected while descriptors last.
BacklogServed ==
  <>[](backlog # <<>> /\ FreeFds # {}) => []<><<AcceptStep>>_vars

\* "Include the client connections to the set" (CServerSocket.cpp:77): select() is
\* told about every connected socket.
AllPolled == \A fd \in ToSet(connectedSockets) : fd <= MaxSock
===============================================================================
