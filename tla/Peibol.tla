-------------------------------- MODULE Peibol --------------------------------
(***************************************************************************)
(* The daemon: applicVFD::run() waits for the meter's serial line, decodes *)
(* and publishes its readings and, whenever the wait ends without serial   *)
(* data, calls manage() of the server socket, whose callbacks handle the   *)
(* client commands and the live feed.  One thread runs all of it; SIGTERM, *)
(* the serial line and the clients act at any time.                        *)
(*                                                                         *)
(* The decoder object m does not exist before the first complete serial    *)
(* message; its members are read through the pointer without a test.       *)
(*                                                                         *)
(* The client sockets are blocking: send() to a client that does not read  *)
(* holds the thread until the client reads or resets the link, or until a  *)
(* signal whose handler does not restart the call ends the wait.  It then  *)
(* counts as sent if anything was taken and fails if nothing was.          *)
(***************************************************************************)
EXTENDS Integers, SequencesExt

CONSTANTS Conns, NoConn, ListenSocket, ClientFds,
          Msgs,        \* what a client line asks for
          MaxInbox, MaxInFlight, MaxBacklog,
          MaxReadings, \* bound: readings in one batch of serial messages
          Faults       \* system calls that may fail: port, select, eintr, store

\* OTHER is any line that CMessage leaves without a type or without an answer.
ASSUME MsgsAssumption == Msgs \subseteq {"GET", "START", "STOP", "OTHER"}
ASSUME FaultsAssumption == Faults \subseteq {"port", "select", "eintr", "store"}
ASSUME ReadingsAssumption == MaxReadings \in Nat
\* Those of ServerSocket, which INSTANCE does not bring along.
ASSUME SocketAssumption ==
  /\ NoConn \notin Conns
  /\ ListenSocket \in Nat
  /\ ClientFds \subseteq Nat /\ IsFiniteSet(ClientFds)
  /\ \A fd \in ClientFds : fd > ListenSocket
  /\ MaxInbox \in Nat /\ MaxInFlight \in Nat /\ MaxBacklog \in Nat

VARIABLES connectedSockets, acceptActive, at, fdset, rc, dequeit,
          backlog, peer, inbox, link

VARIABLES proc,       \* where run() is
          got,        \* commands the latest recv() took, while their answer is sent
          m,          \* the decoder exists (the pointer is not NULL)
          liveData, liveDataFd, \* the decoder's live feed
          todo,       \* readings of the batch still to be published
          term,       \* set by the SIGTERM handler
          line        \* the serial line: up, or hung up (the USB cable was pulled)

sockVars == <<connectedSockets, acceptActive, at, fdset, rc, dequeit,
              backlog, peer, inbox, link>>
feedVars == <<m, liveData, liveDataFd>>
vars == <<sockVars, proc, got, feedVars, todo, term, line>>

Sock == INSTANCE ServerSocket

Init ==
  /\ Sock!Init
  /\ proc = "setup" /\ got = 0
  /\ m = FALSE /\ liveData = FALSE /\ liveDataFd = -1
  /\ todo = 0 /\ term = FALSE /\ line = "up"

\* The process dies: a NULL pointer is dereferenced or an exception is not caught.
Crash == proc' = "crashed" /\ UNCHANGED <<sockVars, got, feedVars, todo, term, line>>

-----------------------------------------------------------------------------
(* run(): set-up and the main loop.                                        *)

PortOpens ==
  /\ proc = "setup" /\ proc' = "select"
  /\ Sock!ActivateAccept
  /\ UNCHANGED <<got, feedVars, todo, term, line>>

\* The port cannot be opened, or not configured: the loop is not entered.
PortFails ==
  /\ proc = "setup" /\ "port" \in Faults /\ proc' = "exit"
  /\ acceptActive' \in BOOLEAN
  /\ UNCHANGED <<connectedSockets, at, fdset, rc, dequeit, backlog, peer, inbox, link,
                 got, feedVars, todo, term, line>>

LoopEnds ==
  /\ proc = "select" /\ proc' = "exit"
  /\ term \/ "select" \in Faults
  /\ UNCHANGED <<sockVars, got, feedVars, todo, term, line>>

\* Mutant: the signal is noticed only after a wait that ends idle.
SerialReadyUntested ==
  /\ proc = "select" /\ proc' = "serial"
  /\ UNCHANGED <<sockVars, got, feedVars, todo, term, line>>

\* The serial line is readable, as it always is once it hung up.
SerialReady ==
  /\ proc = "select" /\ ~term /\ proc' = "serial"
  /\ UNCHANGED <<sockVars, got, feedVars, todo, term, line>>

\* Mutant: no manage() while readings are being sent to a client.
SelectIdleUnlessFeeding ==
  /\ proc = "select" /\ ~term /\ line = "up" /\ ~liveData /\ proc' = "manage"
  /\ UNCHANGED <<sockVars, got, feedVars, todo, term, line>>

\* Timeout, or a signal (the 250 ms display tick): the only way to manage().
SelectIdle ==
  /\ proc = "select" /\ ~term /\ line = "up" /\ proc' = "manage"
  /\ UNCHANGED <<sockVars, got, feedVars, todo, term, line>>

\* read() fails, returns nothing, or the buffer holds no complete message yet.
ReadNothing ==
  /\ proc = "serial" /\ proc' = "select"
  /\ UNCHANGED <<sockVars, got, feedVars, todo, term, line>>

\* A complete buffer: the decoder is created the first time; n readings to publish.
ReadMessages(n) ==
  /\ proc = "serial" /\ line = "up" /\ proc' = "readings"
  /\ m' = TRUE /\ todo' = n
  /\ UNCHANGED <<sockVars, got, liveData, liveDataFd, term, line>>

BatchDone ==
  /\ proc = "readings" /\ todo = 0 /\ proc' = "select"
  /\ UNCHANGED <<sockVars, got, feedVars, todo, term, line>>

\* sqlite answers BUSY or FULL: the exception is not caught.
StoreThrows ==
  /\ proc = "readings" /\ "store" \in Faults
  /\ Crash

-----------------------------------------------------------------------------
(* Callbacks of the server socket, within manage().                        *)

InManage == proc = "manage" /\ UNCHANGED <<proc, got, m, todo, term, line>>
KeepFeed == UNCHANGED <<liveData, liveDataFd>>

\* Mutant: the feed is left on when a client leaves.
CloseKeepsFeed == KeepFeed

OnConnectionClose == liveData' = FALSE /\ liveDataFd' = -1

\* The command of the bytes received: only their first line is looked at.
Command == Head(inbox[Sock!CurrentConn])

\* CMessage::getType(): control runs off its end for an unrecognised line, so any
\* value may come out.
MsgType(cmd) ==
  CASE cmd = "GET"   -> {"REQ"}
    [] cmd = "START" -> {"CMD_LIVEDATA"}
    [] cmd = "STOP"  -> {"CMD_ENDLIVEDATA"}
    [] OTHER         -> {"REQ", "CMD_LIVEDATA", "CMD_ENDLIVEDATA", "none"}

Received(n, type) == InManage /\ Sock!ReadData(n) /\ type \in MsgType(Command)

\* Mutant: the case of a request falls through to that of the live data.
RequestFallsThrough(n) ==
  /\ Received(n, "REQ") /\ m
  /\ Sock!Deliverable(Sock!Current)
  /\ liveData' = TRUE /\ liveDataFd' = Sock!Current

\* A request: without decoder the answer is empty and nothing is sent.
OnRequest(n) ==
  /\ Received(n, "REQ")
  /\ m => Sock!Deliverable(Sock!Current)
  /\ KeepFeed

OnRequestSendFails ==
  /\ InManage /\ Sock!ReadDataSendFails
  /\ "REQ" \in MsgType(Command) /\ m
  /\ ~Sock!Deliverable(Sock!Current)
  /\ OnConnectionClose

\* The client does not read: send() does not return.  The n commands that recv() took
\* leave inbox when it does; nobody else looks there meanwhile.
OnRequestBlocks(n) ==
  /\ proc = "manage" /\ proc' = "answering" /\ got' = n
  /\ Sock!OnMarked /\ n \in 1..Len(inbox[Sock!CurrentConn])
  /\ "REQ" \in MsgType(Command) /\ m
  /\ Sock!Deliverable(Sock!Current)
  /\ UNCHANGED <<sockVars, feedVars, todo, term, line>>

OnLiveData(n) ==
  /\ Received(n, "CMD_LIVEDATA") /\ m
  /\ liveData' = TRUE /\ liveDataFd' = Sock!Current

OnEndLiveData(n) ==
  /\ Received(n, "CMD_ENDLIVEDATA") /\ m
  /\ liveData' = FALSE /\ liveDataFd' = -1

OnUnknown(n) == Received(n, "none") /\ KeepFeed

\* START, STOP (or what is taken for them) without decoder.
CommandCrashes ==
  /\ proc = "manage" /\ ~m
  /\ Sock!OnMarked /\ inbox[Sock!CurrentConn] # <<>>
  /\ MsgType(Command) \intersect {"CMD_LIVEDATA", "CMD_ENDLIVEDATA"} # {}
  /\ Crash

ClientCloses == InManage /\ Sock!ReadClosed /\ m /\ OnConnectionClose

\* onConnectionClose() without decoder.
CloseCrashes ==
  /\ proc = "manage" /\ ~m
  /\ Sock!OnMarked /\ inbox[Sock!CurrentConn] = <<>>
  /\ link[Sock!CurrentConn] \in {"fin", "dead"}
  /\ Crash

-----------------------------------------------------------------------------
(* manage() as run() calls it.                                             *)

ManageWork ==
  /\ InManage /\ KeepFeed
  /\ \/ Sock!ManageSelect \/ Sock!RoundWithoutAccept \/ Sock!AcceptStep
     \/ Sock!ScanEnd \/ Sock!ScanSkip \/ Sock!ReadError

ManageReturns ==
  /\ proc = "manage" /\ proc' = "select"
  /\ Sock!EndManage \/ Sock!AcceptFails
  /\ UNCHANGED <<got, feedVars, todo, term, line>>

ManageIdle ==
  /\ proc = "manage" /\ at = "app" /\ Sock!Selected = {} /\ proc' = "select"
  /\ UNCHANGED <<sockVars, got, feedVars, todo, term, line>>

\* A signal is pending when nothing is ready: select() fails with EINTR even with a
\* zero timeout, and run() does not catch what manage() throws.
ManageThrows ==
  /\ proc = "manage" /\ at = "app" /\ Sock!Selected = {}
  /\ "eintr" \in Faults
  /\ Crash

-----------------------------------------------------------------------------
(* Publishing a reading: sent to liveDataFd if the feed is on, then stored. *)

PublishUnsent == ~liveData /\ UNCHANGED <<sockVars, feedVars>>

PublishSent ==
  /\ liveData /\ Sock!Deliverable(liveDataFd)
  /\ UNCHANGED <<sockVars, feedVars>>

\* removeConnection() and its callback, out of manage().
PublishFails == liveData /\ Sock!SendBytesFails(liveDataFd) /\ OnConnectionClose /\ UNCHANGED m

Publish ==
  /\ proc = "readings" /\ todo > 0 /\ todo' = todo - 1
  /\ \/ PublishUnsent \/ PublishSent
     \/ PublishFails /\ ~Sock!Deliverable(liveDataFd)
  /\ UNCHANGED <<proc, got, term, line>>

PublishBlocks ==
  /\ proc = "readings" /\ todo > 0 /\ proc' = "feeding"
  /\ liveData /\ Sock!Deliverable(liveDataFd)
  /\ UNCHANGED <<sockVars, got, feedVars, todo, term, line>>

-----------------------------------------------------------------------------
(* A send that did not return at once.                                     *)

Blocked ==
  \/ proc = "answering" /\ Sock!Deliverable(Sock!Current)
  \/ proc = "feeding" /\ Sock!Deliverable(liveDataFd)

\* send() took something, and the callback or procesa_msgs() goes on.
AnswerTaken ==
  /\ proc = "answering" /\ proc' = "manage" /\ got' = 0
  /\ Sock!ReadData(got)
  /\ KeepFeed /\ UNCHANGED <<m, todo>>

FeedTaken ==
  /\ proc = "feeding" /\ proc' = "readings" /\ todo' = todo - 1
  /\ UNCHANGED <<sockVars, got, feedVars>>

\* It took nothing: removeConnection() and its callback.
AnswerLost ==
  /\ proc = "answering" /\ proc' = "manage" /\ got' = 0
  /\ Sock!ReadDataSendFails
  /\ OnConnectionClose /\ UNCHANGED <<m, todo>>

FeedLost ==
  /\ proc = "feeding" /\ proc' = "readings" /\ todo' = todo - 1
  /\ PublishFails /\ UNCHANGED got

SendTaken == AnswerTaken \/ FeedTaken
SendLost == AnswerLost \/ FeedLost

\* The client has reset the link.
SendFails == ~Blocked /\ SendLost /\ UNCHANGED <<term, line>>

-----------------------------------------------------------------------------
(* The end of run(): delete sSock notifies of every connection still open.  *)

Exit ==
  /\ proc = "exit" /\ proc' = "stopped"
  /\ m \/ connectedSockets = <<>>
  /\ Sock!Delete
  /\ IF connectedSockets = <<>> THEN KeepFeed ELSE OnConnectionClose
  /\ UNCHANGED <<got, m, todo, term, line>>

ExitCrashes ==
  /\ proc = "exit" /\ ~m /\ connectedSockets # <<>>
  /\ Crash

-----------------------------------------------------------------------------
(* The environment.                                                        *)

Running == proc \notin {"stopped", "crashed"}

\* Its handler does not ask for a restart: a send that waits ends.  One that begins
\* afterwards is not disturbed.
Sigterm ==
  /\ Running /\ proc # "setup" /\ ~term
  /\ term' = TRUE
  /\ IF Blocked THEN SendTaken \/ SendLost
                ELSE UNCHANGED <<sockVars, proc, got, feedVars, todo>>
  /\ UNCHANGED line

\* The client reads, or the display's tick ends a send of which a part was taken.
ClientReads == Blocked /\ SendTaken /\ UNCHANGED <<term, line>>

\* The tick ends a send of which nothing was taken, unless its handler, in a library
\* outside the repository, asks for a restart.
Tick == Blocked /\ SendLost /\ UNCHANGED <<term, line>>

HangUp ==
  /\ Running /\ line = "up"
  /\ line' = "hup"
  /\ UNCHANGED <<sockVars, proc, got, feedVars, todo, term>>

Clients == Running /\ Sock!ClientStep /\ UNCHANGED <<proc, got, feedVars, todo, term, line>>

Ended == ~Running /\ UNCHANGED vars

-----------------------------------------------------------------------------
Setup == PortOpens \/ PortFails

Serial == \/ SerialReady \/ ReadNothing \/ \E n \in 0..MaxReadings : ReadMessages(n)
          \/ Publish \/ PublishBlocks \/ StoreThrows \/ BatchDone

Receive ==
  \/ \E n \in 1..MaxInbox :
        \/ OnRequest(n) \/ OnRequestBlocks(n)
        \/ OnLiveData(n) \/ OnEndLiveData(n) \/ OnUnknown(n)
  \/ OnRequestSendFails \/ CommandCrashes
  \/ ClientCloses \/ CloseCrashes

Manage == ManageWork \/ Receive \/ ManageReturns \/ ManageIdle \/ ManageThrows

Thread ==
  \/ Setup \/ LoopEnds \/ SelectIdle \/ Serial \/ Manage \/ SendFails
  \/ Exit \/ ExitCrashes

Next == Thread \/ Sigterm \/ ClientReads \/ Tick \/ HangUp \/ Clients \/ Ended

Spec == Init /\ [][Next]_vars

\* The thread runs unless it waits in send(); the meter pauses between its messages, so
\* that the wait for it ends idle again and again while the line is up.
FairSpec == Spec /\ WF_vars(Thread) /\ SF_vars(SelectIdle)

-----------------------------------------------------------------------------
TypeOK ==
  /\ Sock!TypeOK
  /\ proc \in {"setup", "select", "serial", "readings", "feeding", "manage", "answering",
               "exit", "stopped", "crashed"}
  /\ got \in 0..MaxInbox
  /\ m \in BOOLEAN /\ liveData \in BOOLEAN
  /\ liveDataFd \in ClientFds \union {-1}
  /\ todo \in 0..MaxReadings
  /\ term \in BOOLEAN /\ line \in {"up", "hup"}

\* The live feed always names a descriptor that is connected, never one closed and
\* perhaps given to another client; without feed there is none.
LiveFdConnected ==
  IF liveData THEN m /\ liveDataFd \in ToSet(connectedSockets) ELSE liveDataFd = -1

\* The daemon implements the live feed as its clients see it.
Feed == INSTANCE LiveFeed WITH
          connected <- {peer[fd] : fd \in ToSet(connectedSockets)},
          pending <- inbox,
          feed <- IF liveData THEN peer[liveDataFd] ELSE NoConn
FeedSpec == Feed!Spec

\* "Enviar datos a cliente hasta nueva orden" (peibol.cpp:269): a client is fed until a
\* command or its own departure ends it.
FedUntilNewOrder == Feed!PromisedSpec

\* Whatever send() waits for comes in the end: the client reads or leaves, or the tick
\* ends the wait.
SendsReturn == []<>~Blocked

\* SIGTERM ends the process, whatever the meter and the clients do, also if it comes
\* within a batch or a scan that may block again and again.
TermStops == SendsReturn => (term ~> ~Running)

\* A client descriptor select() can see and that stays ready is read as long as the
\* serial line is up, the daemon runs, sends return and descriptors last.
ClientsServed ==
  SendsReturn =>
    \A fd \in ClientFds :
       <>[](/\ Running /\ ~term /\ line = "up"
            /\ Sock!Ready(fd) /\ fd <= Sock!MaxSock
            /\ backlog # <<>> => Sock!FreeFds # {})
         => []<><<Sock!ReadStep /\ fd \in fdset /\ fd \notin fdset'>>_vars

\* "Leer forever (salvo fin de prog)" (peibol.cpp:158): once in its loop the daemon
\* reads until it is told to end.
ReadsForever == proc \in {"exit", "stopped", "crashed"} => term
===============================================================================
