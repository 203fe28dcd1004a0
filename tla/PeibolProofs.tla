----------------------------- MODULE PeibolProofs -----------------------------
(***************************************************************************)
(* Theorems about Peibol for any number of clients, descriptors, commands  *)
(* and readings, and with any fault: the live feed always names a          *)
(* connected descriptor, the daemon uses its server socket only as         *)
(* ServerSocket allows, and it implements LiveFeed.                        *)
(***************************************************************************)
EXTENDS Peibol, SequenceTheorems, FiniteSetTheorems, TLAPS

Deque == connectedSockets \in Seq(ClientFds)

\* What every step that removes no connection leaves.
DequeKept ==
  /\ connectedSockets' \in Seq(ClientFds)
  /\ \A fd \in ToSet(connectedSockets) : fd \in ToSet(connectedSockets')

\* The steps of the server socket that remove no connection: they leave the deque
\* alone or append to it.
LEMMA KeepingSteps ==
  ASSUME Deque,
         \/ UNCHANGED sockVars
         \/ Sock!ManageSelect \/ Sock!EndManage
         \/ Sock!RoundWithoutAccept \/ Sock!AcceptStep \/ Sock!AcceptFails
         \/ Sock!ScanEnd \/ Sock!ScanSkip \/ Sock!ReadError
         \/ \E n : Sock!ReadData(n)
         \/ Sock!ActivateAccept \/ Sock!ClientStep
  PROVE  DequeKept
<1>1. CASE Sock!AcceptConnection
  <2>1. PICK fd \in ClientFds : connectedSockets' = Append(connectedSockets, fd)
    BY <1>1 DEF Sock!AcceptConnection
  <2>2. /\ connectedSockets' \in Seq(ClientFds)
        /\ Len(connectedSockets') = Len(connectedSockets) + 1
        /\ \A i \in 1..Len(connectedSockets) : connectedSockets'[i] = connectedSockets[i]
    BY <2>1, AppendProperties DEF Deque
  <2>3. Len(connectedSockets) \in Nat
    BY LenProperties DEF Deque
  <2>4. /\ DOMAIN connectedSockets = 1..Len(connectedSockets)
        /\ DOMAIN connectedSockets' = 1..Len(connectedSockets')
    BY <2>2, LenProperties DEF Deque
  <2> QED BY <2>2, <2>3, <2>4 DEF DequeKept, ToSet
<1>2. CASE connectedSockets' = connectedSockets
  BY <1>2 DEF DequeKept, Deque
<1>3. Sock!AcceptConnection \/ connectedSockets' = connectedSockets
  BY DEF sockVars, Sock!ManageSelect, Sock!EndManage, Sock!RoundWithoutAccept,
         Sock!AcceptStep, Sock!RejectConnection, Sock!AcceptFails, Sock!ScanEnd,
         Sock!ScanSkip, Sock!ReadError, Sock!ReadData, Sock!ActivateAccept,
         Sock!SetAccept, Sock!ClientStep, Sock!Connect, Sock!Submit, Sock!Finish,
         Sock!Reset
<1> QED BY <1>1, <1>2, <1>3

\* erase() leaves a deque of descriptors.
LEMMA RemoveAtType ==
  ASSUME Deque, NEW i \in 1..Len(connectedSockets)
  PROVE  SubSeq(connectedSockets, 1, i - 1)
           \o SubSeq(connectedSockets, i + 1, Len(connectedSockets)) \in Seq(ClientFds)
<1>1. /\ Len(connectedSockets) \in Nat
      /\ \A j \in 1..Len(connectedSockets) : connectedSockets[j] \in ClientFds
  BY LenProperties, ElementOfSeq DEF Deque
<1>2. SubSeq(connectedSockets, 1, i - 1) \in Seq(ClientFds)
  <2>1. 1 \in Int /\ i - 1 \in Int /\ \A j \in 1..i - 1 : connectedSockets[j] \in ClientFds
    BY <1>1
  <2> QED BY <2>1, SubSeqProperties
<1>3. SubSeq(connectedSockets, i + 1, Len(connectedSockets)) \in Seq(ClientFds)
  <2>1. /\ i + 1 \in Int /\ Len(connectedSockets) \in Int
        /\ \A j \in i + 1..Len(connectedSockets) : connectedSockets[j] \in ClientFds
    BY <1>1
  <2> QED BY <2>1, SubSeqProperties
<1> QED BY <1>2, <1>3, ConcatProperties

\* So do the steps that remove a connection.
LEMMA RemovingSteps ==
  ASSUME Deque,
         \/ Sock!ReadDataSendFails \/ Sock!ReadClosed \/ Sock!Delete
         \/ Sock!SendBytesFails(liveDataFd)
  PROVE  Deque'
<1>1. CASE Sock!ReadDataSendFails
  BY <1>1, RemoveAtType DEF Deque, Sock!ReadDataSendFails, Sock!OnMarked, Sock!RemoveAt
<1>2. CASE Sock!ReadClosed
  BY <1>2, RemoveAtType DEF Deque, Sock!ReadClosed, Sock!OnMarked, Sock!RemoveAt
<1>3. CASE Sock!Delete
  BY <1>3, EmptySeq DEF Deque, Sock!Delete
<1>4. CASE Sock!SendBytesFails(liveDataFd)
  <2>1. PICK i \in 1..Len(connectedSockets) :
           connectedSockets' = SubSeq(connectedSockets, 1, i - 1)
             \o SubSeq(connectedSockets, i + 1, Len(connectedSockets))
    BY <1>4 DEF Sock!SendBytesFails, Sock!RemoveConnection, Sock!RemoveAt
  <2> QED BY <2>1, RemoveAtType DEF Deque
<1> QED BY <1>1, <1>2, <1>3, <1>4

(***************************************************************************)
(* The live feed.                                                          *)
(***************************************************************************)

\* The inductive invariant: only the deque's type has to be added.
FInv == Deque /\ LiveFdConnected

FeedOff == liveData' = FALSE /\ liveDataFd' = -1

\* A step that leaves the feed as it was and no connection out.
LEMMA FeedKept ==
  ASSUME FInv, DequeKept, KeepFeed, m => m', m' \in BOOLEAN
  PROVE  FInv'
  BY DEF FInv, Deque, DequeKept, KeepFeed, LiveFdConnected

\* A step that turns the feed off: STOP, or the callback of a closed connection.
LEMMA FeedEnded ==
  ASSUME Deque', FeedOff
  PROVE  FInv'
  BY DEF FInv, FeedOff, LiveFdConnected

\* START: the feed goes to the client being read, which is connected.
LEMMA FeedGiven ==
  ASSUME FInv, DequeKept, m, m' = m,
         liveData' = TRUE, liveDataFd' = Sock!Current, Sock!OnMarked
  PROVE  FInv'
<1>1. DOMAIN connectedSockets = 1..Len(connectedSockets)
  BY LenProperties DEF FInv, Deque
<1>2. Sock!Current \in ToSet(connectedSockets)
  BY <1>1 DEF Sock!OnMarked, Sock!Current, ToSet
<1> QED BY <1>2 DEF FInv, Deque, DequeKept, LiveFdConnected

\* A step that touches neither the socket nor the feed.
LEMMA NothingKeepsFeed ==
  ASSUME FInv, m \in BOOLEAN, UNCHANGED <<sockVars, feedVars>>
  PROVE  FInv'
<1>1. DequeKept
  BY KeepingSteps DEF FInv
<1>2. KeepFeed /\ m' = m
  BY DEF KeepFeed, feedVars
<1>3. (m => m') /\ m' \in BOOLEAN
  BY <1>2
<1> QED BY <1>1, <1>2, <1>3, FeedKept

\* A send that did not return at once ends.
SendReturns == SendTaken \/ SendLost

\* Whoever ends a wait in send(), the step does what the end of the send does; the
\* other steps from outside touch nothing of run().
LEMMA OutsideSteps ==
  ASSUME SendFails \/ Sigterm \/ ClientReads \/ Tick \/ HangUp \/ Ended \/ UNCHANGED vars
  PROVE  SendReturns \/ UNCHANGED <<sockVars, proc, got, feedVars, todo>>
  BY DEF SendFails, Sigterm, ClientReads, Tick, HangUp, Ended, vars, SendReturns

LEMMA SendKeepsFeed ==
  ASSUME FInv, m \in BOOLEAN, SendReturns
  PROVE  FInv' /\ m' = m
<1>1. CASE AnswerTaken
  <2>1. DequeKept /\ m' = m
    BY <1>1, KeepingSteps DEF AnswerTaken, FInv
  <2> QED BY <1>1, <2>1, FeedKept DEF AnswerTaken
<1>2. CASE FeedTaken
  BY <1>2, NothingKeepsFeed DEF FeedTaken, feedVars
<1>3. CASE AnswerLost \/ FeedLost
  <2>1. Deque' /\ FeedOff /\ m' = m
    BY <1>3, RemovingSteps
       DEF AnswerLost, FeedLost, PublishFails, OnConnectionClose, FeedOff, FInv
  <2> QED BY <2>1, FeedEnded
<1> QED BY <1>1, <1>2, <1>3 DEF SendReturns, SendTaken, SendLost

\* run() outside manage(): set-up, the wait, the serial line, publishing, the end.
LEMMA RunKeepsFeed ==
  ASSUME FInv, m \in BOOLEAN,
         Setup \/ LoopEnds \/ SelectIdle \/ Serial \/ Exit \/ ExitCrashes
  PROVE  FInv'
<1>1. CASE Publish /\ PublishFails
  <2>1. Deque'
    BY <1>1, RemovingSteps DEF PublishFails, FInv
  <2> QED BY <1>1, <2>1, FeedEnded DEF PublishFails, OnConnectionClose, FeedOff
<1>2. CASE Exit
  <2>1. Deque'
    BY <1>2, RemovingSteps DEF Exit, FInv
  <2>2. CASE connectedSockets = <<>>
    <3>1. ToSet(connectedSockets) = {}
      BY <2>2 DEF ToSet
    <3>2. FeedOff
      BY <1>2, <2>2, <3>1 DEF Exit, KeepFeed, FeedOff, FInv, LiveFdConnected
    <3> QED BY <2>1, <3>2, FeedEnded
  <2>3. CASE connectedSockets # <<>>
    <3>1. FeedOff
      BY <1>2, <2>3 DEF Exit, OnConnectionClose, FeedOff
    <3> QED BY <2>1, <3>1, FeedEnded
  <2> QED BY <2>2, <2>3
<1>3. CASE PortOpens
  <2>1. DequeKept
    BY <1>3, KeepingSteps DEF PortOpens, FInv
  <2> QED BY <1>3, <2>1, FeedKept DEF PortOpens, KeepFeed, feedVars
<1>4. CASE PortFails
  <2>1. DequeKept
    BY <1>4 DEF PortFails, DequeKept, FInv, Deque
  <2> QED BY <1>4, <2>1, FeedKept DEF PortFails, KeepFeed, feedVars
<1>5. CASE \E n \in 0..MaxReadings : ReadMessages(n)
  <2>1. DequeKept
    BY <1>5, KeepingSteps DEF ReadMessages, FInv
  <2> QED BY <1>5, <2>1, FeedKept DEF ReadMessages, KeepFeed
<1>6. CASE Publish /\ (PublishUnsent \/ PublishSent)
  <2>1. UNCHANGED <<sockVars, feedVars>>
    BY <1>6 DEF PublishUnsent, PublishSent
  <2> QED BY <2>1, NothingKeepsFeed
<1>7. CASE Publish
  BY <1>7, <1>1, <1>6 DEF Publish
<1>8. CASE SerialReady \/ ReadNothing \/ PublishBlocks \/ BatchDone \/ StoreThrows
  <2>1. UNCHANGED <<sockVars, feedVars>>
    BY <1>8 DEF SerialReady, ReadNothing, PublishBlocks, BatchDone, StoreThrows, Crash
  <2> QED BY <2>1, NothingKeepsFeed
<1>9. CASE Serial
  BY <1>9, <1>5, <1>7, <1>8 DEF Serial
<1>10. CASE LoopEnds \/ SelectIdle \/ ExitCrashes
  <2>1. UNCHANGED <<sockVars, feedVars>>
    BY <1>10 DEF LoopEnds, SelectIdle, ExitCrashes, Crash
  <2> QED BY <2>1, NothingKeepsFeed
<1>11. CASE Setup
  BY <1>11, <1>3, <1>4 DEF Setup
<1> QED BY <1>2, <1>9, <1>10, <1>11

\* manage() and the callbacks.
LEMMA ManageKeepsFeed ==
  ASSUME FInv, m \in BOOLEAN, Manage
  PROVE  FInv'
<1>1. ASSUME NEW n \in 1..MaxInbox, OnRequest(n) \/ OnUnknown(n)
      PROVE  FInv'
  <2>1. DequeKept
    BY <1>1, KeepingSteps DEF OnRequest, OnUnknown, Received, FInv
  <2> QED BY <1>1, <2>1, FeedKept DEF OnRequest, OnUnknown, Received, InManage
<1>2. ASSUME NEW n \in 1..MaxInbox, OnLiveData(n)
      PROVE  FInv'
  <2>1. DequeKept
    BY <1>2, KeepingSteps DEF OnLiveData, Received, FInv
  <2>2. Sock!OnMarked
    BY <1>2 DEF OnLiveData, Received, Sock!ReadData
  <2> QED BY <1>2, <2>1, <2>2, FeedGiven DEF OnLiveData, Received, InManage
<1>3. ASSUME NEW n \in 1..MaxInbox, OnEndLiveData(n)
      PROVE  FInv'
  <2>1. DequeKept
    BY <1>3, KeepingSteps DEF OnEndLiveData, Received, FInv
  <2> QED BY <1>3, <2>1, FeedEnded DEF OnEndLiveData, FeedOff, DequeKept, Deque
<1>4. CASE OnRequestSendFails \/ ClientCloses
  <2>1. Deque' /\ FeedOff
    BY <1>4, RemovingSteps
       DEF OnRequestSendFails, ClientCloses, OnConnectionClose, FeedOff, FInv
  <2> QED BY <2>1, FeedEnded
<1>5. CASE \/ CommandCrashes \/ CloseCrashes \/ ManageIdle \/ ManageThrows
           \/ \E n \in 1..MaxInbox : OnRequestBlocks(n)
  <2>1. UNCHANGED <<sockVars, feedVars>>
    BY <1>5 DEF CommandCrashes, CloseCrashes, ManageIdle, ManageThrows, OnRequestBlocks,
                Crash
  <2>2. DequeKept
    BY <2>1, KeepingSteps DEF FInv
  <2> QED BY <2>1, <2>2, FeedKept DEF KeepFeed, feedVars
<1>6. CASE ManageWork
  <2>1. DequeKept
    BY <1>6, KeepingSteps DEF ManageWork, FInv
  <2> QED BY <1>6, <2>1, FeedKept DEF ManageWork, InManage
<1>7. CASE ManageReturns
  <2>1. DequeKept
    BY <1>7, KeepingSteps DEF ManageReturns, FInv
  <2> QED BY <1>7, <2>1, FeedKept DEF ManageReturns, KeepFeed, feedVars
<1> QED BY <1>1, <1>2, <1>3, <1>4, <1>5, <1>6, <1>7 DEF Manage, Receive

\* The invariant holds at every moment.
LEMMA FeedInvariant == Spec => [](FInv /\ m \in BOOLEAN)
<1>1. Init => FInv /\ m \in BOOLEAN
  BY EmptySeq DEF Init, Sock!Init, FInv, Deque, LiveFdConnected
<1>2. FInv /\ m \in BOOLEAN /\ [Next]_vars => (FInv /\ m \in BOOLEAN)'
  <2> SUFFICES ASSUME FInv, m \in BOOLEAN, [Next]_vars PROVE FInv' /\ m' \in BOOLEAN
    OBVIOUS
  <2>1. ASSUME Thread, ~SendFails PROVE FInv' /\ m' \in BOOLEAN
    <3>1. m' = m \/ m' = TRUE
      BY <2>1 DEF feedVars, Thread, Setup, PortOpens, PortFails, LoopEnds,
             SelectIdle, Serial, SerialReady, ReadNothing, ReadMessages, Publish,
             PublishUnsent, PublishSent, PublishFails, PublishBlocks, StoreThrows, BatchDone,
             Manage, ManageWork, Receive, Received, OnRequest, OnRequestBlocks, OnLiveData,
             OnEndLiveData, OnUnknown, OnRequestSendFails, CommandCrashes, ClientCloses,
             CloseCrashes, ManageReturns, ManageIdle, ManageThrows, InManage, Crash, Exit,
             ExitCrashes
    <3>2. CASE Manage
      BY <3>1, <3>2, ManageKeepsFeed
    <3>3. CASE Setup \/ LoopEnds \/ SelectIdle \/ Serial \/ Exit \/ ExitCrashes
      BY <3>1, <3>3, RunKeepsFeed
    <3> QED BY <2>1, <3>2, <3>3 DEF Thread
  <2>2. CASE SendFails \/ Sigterm \/ ClientReads \/ Tick \/ HangUp \/ Ended \/ UNCHANGED vars
    <3>1. CASE UNCHANGED <<sockVars, proc, got, feedVars, todo>>
      BY <3>1, NothingKeepsFeed DEF feedVars
    <3> QED BY <2>2, <3>1, OutsideSteps, SendKeepsFeed
  <2>3. CASE Clients
    <3>1. DequeKept /\ UNCHANGED feedVars
      BY <2>3, KeepingSteps DEF Clients, FInv
    <3> QED BY <3>1, FeedKept DEF KeepFeed, feedVars
  <2> QED BY <2>1, <2>2, <2>3 DEF Next
<1> QED BY <1>1, <1>2, PTL DEF Spec

\* liveDataFd, which the decoder keeps from one message to the next, is at every
\* moment a connected descriptor or -1: no reading goes to a closed descriptor, nor
\* to a client that got the number of one.
THEOREM FeedConnected == Spec => []LiveFdConnected
<1>1. FInv => LiveFdConnected
  BY DEF FInv
<1> QED BY <1>1, FeedInvariant, PTL

(***************************************************************************)
(* The daemon and its server socket.                                       *)
(***************************************************************************)

\* Until the serial port was tried nobody called manage(): the set-up may still turn
\* accepting on or off.
SInv ==
  /\ acceptActive \in BOOLEAN
  /\ proc = "setup" => at = "app"
  /\ proc = "answering" => got \in 1..MaxInbox

SockNext == [Sock!Next]_(Sock!vars)

\* A step that leaves the socket alone is a stutter of it.
LEMMA SockStutters ==
  ASSUME UNCHANGED sockVars
  PROVE  SockNext
  BY DEF sockVars, SockNext, Sock!vars

\* A reading that cannot be sent removes a connection out of manage().
LEMMA PublishUsesSocket ==
  ASSUME FInv, PublishFails
  PROVE  SockNext
<1>1. Sock!SendBytesFails(liveDataFd) /\ liveData
  BY DEF PublishFails
<1>2. liveDataFd \in ToSet(connectedSockets)
  BY <1>1 DEF FInv, LiveFdConnected
<1>3. liveDataFd \in ClientFds
  BY <1>2, LenProperties, ElementOfSeq DEF FInv, Deque, ToSet
<1> QED BY <1>1, <1>3 DEF SockNext, Sock!Next, Sock!AppStep

\* So is the end of a send that had to wait.
LEMMA SendUsesSocket ==
  ASSUME FInv, SInv, SendReturns
  PROVE  SockNext
<1>1. CASE AnswerTaken
  <2>1. Sock!ReadData(got) /\ got \in 1..MaxInbox
    BY <1>1 DEF AnswerTaken, SInv
  <2> QED BY <2>1 DEF SockNext, Sock!Next, Sock!ManageStep, Sock!ReadStep
<1>2. CASE FeedTaken
  BY <1>2, SockStutters DEF FeedTaken
<1>3. CASE AnswerLost
  BY <1>3 DEF AnswerLost, SockNext, Sock!Next, Sock!ManageStep, Sock!ReadStep
<1>4. CASE FeedLost
  BY <1>4, PublishUsesSocket DEF FeedLost
<1> QED BY <1>1, <1>2, <1>3, <1>4 DEF SendReturns, SendTaken, SendLost

\* Set-up, the wait, the serial line and the end of run() are steps of the socket.
LEMMA RunUsesSocket ==
  ASSUME FInv, SInv,
         Setup \/ LoopEnds \/ SelectIdle \/ Serial \/ Exit \/ ExitCrashes
  PROVE  SockNext
<1>1. CASE PortOpens
  BY <1>1 DEF PortOpens, SockNext, Sock!Next, Sock!AppStep
<1>2. CASE PortFails
  <2>1. CASE acceptActive' = acceptActive
    BY <1>2, <2>1, SockStutters DEF PortFails, sockVars
  <2>2. CASE acceptActive' # acceptActive
    <3>1. at = "app" /\ acceptActive' \in BOOLEAN
      BY <1>2 DEF PortFails, SInv
    <3>2. acceptActive' = TRUE \/ acceptActive' = FALSE
      BY <3>1
    <3>3. Sock!SetAccept(acceptActive')
      BY <1>2, <2>2, <3>1
         DEF PortFails, Sock!SetAccept, Sock!manageVars, Sock!kernelVars
    <3>4. Sock!ActivateAccept \/ Sock!DeactivateAccept
      BY <3>2, <3>3 DEF Sock!ActivateAccept, Sock!DeactivateAccept
    <3> QED BY <3>4 DEF SockNext, Sock!Next, Sock!AppStep
  <2> QED BY <2>1, <2>2
<1>3. CASE Setup
  BY <1>1, <1>2, <1>3 DEF Setup
<1>4. CASE LoopEnds \/ SelectIdle \/ ExitCrashes
  BY <1>4, SockStutters DEF LoopEnds, SelectIdle, ExitCrashes, Crash
<1>5. CASE Exit
  BY <1>5 DEF Exit, SockNext, Sock!Next, Sock!AppStep
<1>6. CASE \/ SerialReady \/ ReadNothing \/ PublishBlocks \/ BatchDone \/ StoreThrows
           \/ \E n \in 0..MaxReadings : ReadMessages(n)
  BY <1>6, SockStutters
     DEF SerialReady, ReadNothing, PublishBlocks, BatchDone, StoreThrows, ReadMessages, Crash
<1>7. CASE Publish
  <2>1. CASE PublishUnsent \/ PublishSent
    BY <2>1, SockStutters DEF PublishUnsent, PublishSent
  <2> QED BY <1>7, <2>1, PublishUsesSocket DEF Publish
<1>8. CASE Serial
  BY <1>8, <1>6, <1>7 DEF Serial
<1> QED BY <1>3, <1>4, <1>5, <1>8

\* So are the steps of manage() and of its callbacks.
LEMMA ManageUsesSocket ==
  ASSUME Manage
  PROVE  SockNext
<1>1. CASE ManageWork
  BY <1>1 DEF ManageWork, SockNext, Sock!Next, Sock!ManageStep, Sock!ReadStep
<1>2. CASE ManageReturns
  BY <1>2 DEF ManageReturns, SockNext, Sock!Next, Sock!ManageStep
<1>3. CASE \/ ManageIdle \/ ManageThrows \/ CommandCrashes \/ CloseCrashes
           \/ \E n \in 1..MaxInbox : OnRequestBlocks(n)
  BY <1>3, SockStutters DEF ManageIdle, ManageThrows, CommandCrashes, CloseCrashes,
                            OnRequestBlocks, Crash
<1>4. CASE OnRequestSendFails \/ ClientCloses
  BY <1>4 DEF OnRequestSendFails, ClientCloses, SockNext, Sock!Next, Sock!ManageStep,
              Sock!ReadStep
<1>5. ASSUME NEW n \in 1..MaxInbox,
             OnRequest(n) \/ OnLiveData(n) \/ OnEndLiveData(n) \/ OnUnknown(n)
      PROVE  SockNext
  <2>1. Sock!ReadData(n)
    BY <1>5 DEF OnRequest, OnLiveData, OnEndLiveData, OnUnknown, Received
  <2> QED BY <2>1 DEF SockNext, Sock!Next, Sock!ManageStep, Sock!ReadStep
<1> QED BY <1>1, <1>2, <1>3, <1>4, <1>5 DEF Manage, Receive

\* The socket's steps within the daemon keep acceptActive a Boolean.
LEMMA AcceptTyped ==
  ASSUME acceptActive \in BOOLEAN, SockNext
  PROVE  acceptActive' \in BOOLEAN
  BY DEF SockNext, Sock!Next, Sock!vars, Sock!ManageStep, Sock!ManageSelect, Sock!EndManage,
         Sock!RoundWithoutAccept, Sock!AcceptStep, Sock!AcceptConnection,
         Sock!RejectConnection, Sock!AcceptFails, Sock!ScanEnd, Sock!ScanSkip,
         Sock!ReadStep, Sock!ReadData, Sock!ReadDataSendFails, Sock!ReadError,
         Sock!ReadClosed, Sock!AppStep, Sock!RemoveConnection, Sock!SendBytesFails,
         Sock!RemoveAllConnections, Sock!ActivateAccept, Sock!DeactivateAccept,
         Sock!SetAccept, Sock!Delete, Sock!ClientStep, Sock!Connect, Sock!Submit,
         Sock!Finish, Sock!Reset, Sock!Deleted

\* The end of a send that had to wait leads back to where it was called.
LEMMA SendLeads ==
  ASSUME SendReturns
  PROVE  \/ proc = "answering" /\ proc' = "manage"
         \/ proc = "feeding" /\ proc' = "readings"
  BY DEF SendReturns, SendTaken, SendLost, AnswerTaken, AnswerLost, FeedTaken, FeedLost

\* Where a step of the thread leads.
LEMMA ThreadLeads ==
  ASSUME Thread, ~SendFails
  PROVE  /\ proc # "answering" /\ proc' # "setup"
         /\ proc' = "answering" => \E n \in 1..MaxInbox : OnRequestBlocks(n)
<1>1. CASE Setup \/ LoopEnds \/ SelectIdle \/ Exit \/ ExitCrashes
  BY <1>1, Zenon
     DEF Setup, PortOpens, PortFails, LoopEnds, SelectIdle, Exit, ExitCrashes, Crash
<1>2. CASE Serial
  BY <1>2 DEF Serial, SerialReady, ReadNothing, ReadMessages, Publish, PublishBlocks,
              StoreThrows, BatchDone, Crash
<1>3. CASE Manage
  BY <1>3 DEF Manage, ManageWork, Receive, Received, OnRequest, OnRequestBlocks, OnLiveData,
              OnEndLiveData, OnUnknown, OnRequestSendFails, CommandCrashes,
              ClientCloses, CloseCrashes, ManageReturns, ManageIdle, ManageThrows,
              InManage, Crash
<1> QED BY <1>1, <1>2, <1>3 DEF Thread

\* During set-up nothing but the clients and the line moves, and got is a number of
\* commands from the moment their answer is sent.
LEMMA OutsideManage ==
  ASSUME SInv, [Next]_vars
  PROVE  /\ proc' = "setup" => at' = "app"
         /\ proc' = "answering" => got' \in 1..MaxInbox
<1>1. CASE Thread /\ ~SendFails
  BY <1>1, ThreadLeads DEF OnRequestBlocks
<1>2. CASE Clients
  BY <1>2 DEF SInv, Clients, Sock!ClientStep, Sock!Connect, Sock!Submit, Sock!Finish,
              Sock!Reset, Sock!manageVars
<1>3. CASE SendFails \/ Sigterm \/ ClientReads \/ Tick \/ HangUp \/ Ended \/ UNCHANGED vars
  <2>1. CASE SendReturns
    BY <2>1, SendLeads
  <2>2. CASE UNCHANGED <<sockVars, proc, got, feedVars, todo>>
    BY <2>2 DEF SInv, sockVars
  <2> QED BY <1>3, <2>1, <2>2, OutsideSteps
<1> QED BY <1>1, <1>2, <1>3 DEF Next

\* Every step of the daemon is one of its socket's, or none.
LEMMA SocketSteps ==
  ASSUME FInv, SInv, [Next]_vars
  PROVE  SockNext
<1>1. CASE Manage
  BY <1>1, ManageUsesSocket
<1>2. CASE Setup \/ LoopEnds \/ SelectIdle \/ Serial \/ Exit \/ ExitCrashes
  BY <1>2, RunUsesSocket
<1>3. CASE Clients
  BY <1>3 DEF Clients, SockNext, Sock!Next
<1>4. CASE SendFails \/ Sigterm \/ ClientReads \/ Tick \/ HangUp \/ Ended \/ UNCHANGED vars
  BY <1>4, OutsideSteps, SendUsesSocket, SockStutters
<1> QED BY <1>1, <1>2, <1>3, <1>4 DEF Next, Thread

LEMMA SetUpInvariant == Spec => []SInv
<1>1. Init => SInv
  BY DEF Init, Sock!Init, SInv
<1>2. FInv /\ SInv /\ [Next]_vars => SInv'
  BY SocketSteps, AcceptTyped, OutsideManage DEF SInv
<1>3. Spec => []FInv
  BY FeedInvariant, PTL
<1> QED BY <1>1, <1>2, <1>3, PTL DEF Spec

\* The daemon implements the server socket's specification: all it does to the
\* descriptors, in its callbacks, its publishing and its end, is one of the steps that
\* ServerSocket allows an application, so what holds of that module holds within it.
THEOREM UsesSocket == Spec => Sock!Spec
<1>1. Init => Sock!Init
  BY DEF Init
<1>2. FInv /\ SInv /\ [Next]_vars => SockNext
  BY SocketSteps
<1>3. Spec => []FInv
  BY FeedInvariant, PTL
<1> QED BY <1>1, <1>2, <1>3, SetUpInvariant, PTL DEF Spec, Sock!Spec, SockNext

-----------------------------------------------------------------------------
(* The socket's own invariant, in the daemon: SP!IInv is what              *)
(* ServerSocketProofs proves of the socket alone.                          *)

SP == INSTANCE ServerSocketProofs

\* The assumptions under which ServerSocket's theorems hold.
LEMMA Assumptions == SP!ConnsAssumption /\ SP!FdsAssumption /\ SP!BoundsAssumption
  BY SocketAssumption
     DEF SP!ConnsAssumption, SP!FdsAssumption, SP!BoundsAssumption, SP!IsFiniteSet, IsFiniteSet

-----------------------------------------------------------------------------
(* The socket in the daemon: SP's definitions are Sock's.                   *)

LEMMA SameDefinitions ==
  /\ Sock!OpenFds = SP!OpenFds /\ Sock!FreeFds = SP!FreeFds
  /\ \A fd : Sock!Ready(fd) <=> SP!Ready(fd)
  /\ \A fds : Sock!CloseFds(fds) <=> SP!CloseFds(fds)
  /\ Sock!OnMarked <=> SP!OnMarked
  /\ Sock!Current = SP!Current /\ Sock!CurrentConn = SP!CurrentConn
  /\ Sock!StartScan <=> SP!StartScan
  /\ Sock!CanAccept <=> SP!CanAccept
  /\ Sock!Return <=> SP!Return
BY DEF Sock!OpenFds, SP!OpenFds, Sock!FreeFds, SP!FreeFds, Sock!Ready, SP!Ready,
       Sock!CloseFds, SP!CloseFds, Sock!OnMarked, SP!OnMarked, Sock!Current, SP!Current,
       Sock!CurrentConn, SP!CurrentConn, Sock!StartScan, SP!StartScan, Sock!CanAccept,
       SP!CanAccept, Sock!Return, SP!Return

\* The steps of manage() after its select().
LEMMA SameManage ==
  /\ Sock!EndManage => SP!EndManage
  /\ Sock!RoundWithoutAccept => SP!RoundWithoutAccept
  /\ Sock!AcceptStep => SP!AcceptStep
  /\ Sock!AcceptFails => SP!AcceptFails
  /\ Sock!ScanEnd => SP!ScanEnd
  /\ Sock!ScanSkip => SP!ScanSkip
  /\ Sock!ReadStep => SP!ReadStep
<1>1. Sock!EndManage => SP!EndManage
  BY DEF Sock!EndManage, SP!EndManage, Sock!Return, SP!Return, Sock!kernelVars, SP!kernelVars
<1>2. Sock!RoundWithoutAccept => SP!RoundWithoutAccept
  BY DEF Sock!RoundWithoutAccept, SP!RoundWithoutAccept, Sock!StartScan, SP!StartScan,
         Sock!kernelVars, SP!kernelVars
<1>3. Sock!AcceptConnection => SP!AcceptConnection
  BY DEF Sock!AcceptConnection, SP!AcceptConnection, Sock!StartScan, SP!StartScan,
         Sock!CanAccept, SP!CanAccept, Sock!FreeFds, SP!FreeFds, Sock!OpenFds, SP!OpenFds,
         Sock!LowestFree, SP!LowestFree
<1>4. Sock!RejectConnection => SP!RejectConnection
  BY DEF Sock!RejectConnection, SP!RejectConnection, Sock!StartScan, SP!StartScan,
         Sock!CanAccept, SP!CanAccept, Sock!FreeFds, SP!FreeFds, Sock!OpenFds, SP!OpenFds
<1>5. Sock!AcceptFails => SP!AcceptFails
  BY DEF Sock!AcceptFails, SP!AcceptFails, Sock!Return, SP!Return, Sock!CanAccept,
         SP!CanAccept, Sock!FreeFds, SP!FreeFds, Sock!OpenFds, SP!OpenFds, Sock!kernelVars,
         SP!kernelVars
<1>6. (Sock!ScanEnd => SP!ScanEnd) /\ (Sock!ScanSkip => SP!ScanSkip)
  BY DEF Sock!ScanEnd, SP!ScanEnd, Sock!ScanSkip, SP!ScanSkip, Sock!Current, SP!Current,
         Sock!kernelVars, SP!kernelVars
<1>7. \A n : Sock!ReadData(n) => SP!ReadData(n)
  BY DEF Sock!ReadData, SP!ReadData, Sock!OnMarked, SP!OnMarked, Sock!Current, SP!Current,
         Sock!CurrentConn, SP!CurrentConn
<1>8. Sock!ReadDataSendFails => SP!ReadDataSendFails
  BY DEF Sock!ReadDataSendFails, SP!ReadDataSendFails, Sock!OnMarked, SP!OnMarked,
         Sock!Current, SP!Current, Sock!CurrentConn, SP!CurrentConn, Sock!CloseFds,
         SP!CloseFds, Sock!OpenFds, SP!OpenFds,
         Sock!IteratorAfterErase, SP!IteratorAfterErase, Sock!RemoveAt, SP!RemoveAt
<1>9. Sock!ReadError => SP!ReadError
  BY DEF Sock!ReadError, SP!ReadError, Sock!OnMarked, SP!OnMarked, Sock!Current, SP!Current,
         Sock!CurrentConn, SP!CurrentConn
<1>10. Sock!ReadClosed => SP!ReadClosed
  BY DEF Sock!ReadClosed, SP!ReadClosed, Sock!OnMarked, SP!OnMarked, Sock!Current,
         SP!Current, Sock!CurrentConn, SP!CurrentConn, Sock!CloseFds, SP!CloseFds,
         Sock!OpenFds, SP!OpenFds, Sock!RemoveAt, SP!RemoveAt
<1> QED BY <1>1, <1>2, <1>3, <1>4, <1>5, <1>6, <1>7, <1>8, <1>9, <1>10
        DEF Sock!AcceptStep, SP!AcceptStep, Sock!ReadStep, SP!ReadStep

\* The other methods, and the clients.
LEMMA SameOthers ==
  /\ Sock!AppStep => SP!AppStep
  /\ Sock!ClientStep => SP!ClientStep
  /\ Sock!Deleted => SP!Deleted
<1> USE DEF Sock!manageVars, SP!manageVars, Sock!kernelVars, SP!kernelVars
<1>1. \A fd : Sock!RemoveConnection(fd) => SP!RemoveConnection(fd)
  BY DEF Sock!RemoveConnection, SP!RemoveConnection, Sock!CloseFds, SP!CloseFds,
         Sock!OpenFds, SP!OpenFds, Sock!RemoveAt, SP!RemoveAt
<1>2. \A fd : Sock!SendBytesFails(fd) => SP!SendBytesFails(fd)
  BY <1>1 DEF Sock!SendBytesFails, SP!SendBytesFails
<1>3. Sock!RemoveAllConnections => SP!RemoveAllConnections
  BY DEF Sock!RemoveAllConnections, SP!RemoveAllConnections, Sock!CloseFds, SP!CloseFds,
         Sock!OpenFds, SP!OpenFds, Sock!ToSet, SP!ToSet
<1>4. /\ Sock!ActivateAccept => SP!ActivateAccept
      /\ Sock!DeactivateAccept => SP!DeactivateAccept
  BY DEF Sock!ActivateAccept, SP!ActivateAccept, Sock!DeactivateAccept, SP!DeactivateAccept,
         Sock!SetAccept, SP!SetAccept
<1>5. Sock!Delete => SP!Delete
  BY DEF Sock!Delete, SP!Delete, Sock!ToSet, SP!ToSet
<1>6. Sock!ClientStep => SP!ClientStep
  BY DEF Sock!ClientStep, SP!ClientStep, Sock!Connect, SP!Connect, Sock!Finish, SP!Finish,
         Sock!Reset, SP!Reset, Sock!Submit, SP!Submit, Sock!InFlight, SP!InFlight,
         Sock!Cardinality, SP!Cardinality
<1>7. Sock!Deleted => SP!Deleted
  BY DEF Sock!Deleted, SP!Deleted, Sock!vars, SP!vars
<1> QED BY <1>1, <1>2, <1>3, <1>4, <1>5, <1>6, <1>7 DEF Sock!AppStep, SP!AppStep

\* select() within the daemon reports finitely many descriptors, all of them ready.
LEMMA SelectedInDaemon ==
  ASSUME SP!TypeOK, SP!Registered
  PROVE  /\ Sock!Selected \subseteq SP!OpenFds \union {ListenSocket}
         /\ SP!OpenFds \subseteq ClientFds
         /\ \A fd \in Sock!Selected : SP!Ready(fd)
         /\ Sock!Cardinality(Sock!Selected) \in Nat
<1>1. SP!ToSet(connectedSockets) = SP!OpenFds /\ SP!OpenFds \subseteq ClientFds
  BY DEF SP!Registered, SP!OpenFds
<1>2. Sock!ToSet(connectedSockets) = SP!ToSet(connectedSockets)
  BY DEF Sock!ToSet, SP!ToSet
<1>3. /\ Sock!Selected \subseteq SP!OpenFds \union {ListenSocket}
      /\ \A fd \in Sock!Selected : SP!Ready(fd)
  BY <1>1, <1>2, SameDefinitions DEF Sock!Selected
<1>4. IsFiniteSet(SP!OpenFds \union {ListenSocket})
  <2>1. IsFiniteSet(SP!OpenFds)
    BY <1>1, SocketAssumption, FS_Subset
  <2> QED BY <2>1, FS_AddElement
<1>5. Cardinality(Sock!Selected) \in Nat
  BY <1>3, <1>4, FS_Subset, FS_CardinalityType
<1>6. Sock!Cardinality(Sock!Selected) = Cardinality(Sock!Selected)
  BY DEF Sock!Cardinality, Cardinality
<1> QED BY <1>1, <1>3, <1>5, <1>6

\* A step of the socket in the daemon keeps the socket's invariant.
LEMMA SocketStep == SP!IInv /\ SockNext => SP!IInv'
<1> SUFFICES ASSUME SP!IInv, SockNext PROVE SP!IInv'
  OBVIOUS
<1> USE DEF SP!IInv
<1>1. CASE Sock!ManageSelect
  <2>1. /\ at = "app" /\ at' = "round" /\ fdset' = Sock!Selected
        /\ rc' = Sock!Cardinality(Sock!Selected)
        /\ UNCHANGED <<connectedSockets, acceptActive, dequeit, backlog, peer, inbox, link>>
    BY <1>1 DEF Sock!ManageSelect, Sock!kernelVars
  <2>2. /\ fdset' \subseteq SP!OpenFds \union {ListenSocket}
        /\ SP!OpenFds \subseteq ClientFds
        /\ \A fd \in fdset' : SP!Ready(fd)
        /\ rc' \in Nat
    BY <2>1, SelectedInDaemon
  <2>3. SP!TypeOK'
    BY <2>1, <2>2 DEF SP!TypeOK
  <2>4. SP!OpenFds' = SP!OpenFds /\ \A fd : SP!Ready(fd)' <=> SP!Ready(fd)
    BY <2>1 DEF SP!OpenFds, SP!Ready
  <2>5. SP!Registered' /\ SP!Owned'
    BY <2>1, <2>4 DEF SP!Registered, SP!Owned
  <2>6. SP!Marked'
    BY <2>1, <2>2, <2>4
       DEF SP!Marked, SP!RecvNeverBlocks, SP!NothingSkipped, SP!Registered
  <2> QED BY <2>3, <2>5, <2>6
<1>2. CASE ~Sock!ManageSelect
  <2>1. SP!Next \/ UNCHANGED SP!vars
    <3>1. UNCHANGED Sock!vars => UNCHANGED SP!vars
      BY DEF Sock!vars, SP!vars
    <3> QED BY <1>2, <3>1, SameManage, SameOthers
            DEF SockNext, Sock!Next, SP!Next, Sock!ManageStep, SP!ManageStep
  <2>2. SP!TypeOK'
    BY <2>1, Assumptions, SP!TypeOKStep
  <2>3. SP!Registered'
    BY <2>1, Assumptions, SP!RegisteredStep
  <2>4. SP!Owned'
    BY <2>1, Assumptions, SP!OwnedStep
  <2>5. SP!Marked'
    BY <2>1, Assumptions, SP!MarkedStep
  <2> QED BY <2>2, <2>3, <2>4, <2>5
<1> QED BY <1>1, <1>2

\* What ServerSocketProofs proves of the socket holds of the daemon's: within run(),
\* its callbacks and its publishing, deque and descriptor table agree, recv() never
\* blocks and the scan passes no marked descriptor.
THEOREM SocketInvariant == Spec => []SP!IInv
<1>1. Sock!Init => SP!IInv
  <2>1. Sock!Init => SP!Init
    BY DEF Sock!Init, SP!Init
  <2>2. SP!Init => SP!IInv
    <3> SUFFICES ASSUME SP!Init PROVE SP!IInv
      OBVIOUS
    <3>1. SP!TypeOK
      BY Assumptions, SP!TypeOKInit
    <3>2. SP!OpenFds = {} /\ SP!ToSet(<<>>) = {}
      BY DEF SP!Init, SP!OpenFds, SP!ToSet
    <3> QED BY <3>1, <3>2 DEF SP!IInv, SP!Init, SP!Registered, SP!Owned, SP!Marked,
                              SP!RecvNeverBlocks, SP!NothingSkipped
  <2> QED BY <2>1, <2>2
<1>2. SP!IInv /\ [Sock!Next]_(Sock!vars) => SP!IInv'
  BY SocketStep DEF SockNext
<1> QED BY <1>1, <1>2, UsesSocket, PTL DEF Sock!Spec

(***************************************************************************)
(* The refinement: a client is connected when it owns a descriptor.        *)
(***************************************************************************)

Connected == {peer[fd] : fd \in ToSet(connectedSockets)}
FedClient == IF liveData THEN peer[liveDataFd] ELSE NoConn

FeedNext == [Feed!Next]_(Feed!vars)

\* The deque lists the open descriptors, so their owners are the connected clients.
LEMMA Owners ==
  /\ SP!Registered => Connected = {peer[fd] : fd \in SP!OpenFds}
  /\ SP!Registered' => Connected' = {peer'[fd] : fd \in SP!OpenFds'}
  BY DEF SP!Registered, SP!ToSet, Connected, ToSet

\* The fed client owns an open descriptor.
LEMMA FedOwner ==
  ASSUME SP!IInv, FInv, liveData
  PROVE  liveDataFd \in SP!OpenFds
  BY DEF SP!IInv, SP!Registered, SP!ToSet, ToSet, FInv, LiveFdConnected

\* The descriptor being read is open, and its owner a connected client.
LEMMA CurrentOpen ==
  ASSUME SP!IInv, Sock!OnMarked
  PROVE  /\ Sock!Current \in SP!OpenFds /\ Sock!Current \in ClientFds
         /\ Sock!CurrentConn = peer[Sock!Current]
         /\ Sock!CurrentConn \in Conns /\ Sock!CurrentConn \in Connected
<1>1. /\ DOMAIN connectedSockets = 1..Len(connectedSockets)
      /\ dequeit \in 1..Len(connectedSockets)
  BY LenProperties DEF SP!IInv, SP!TypeOK, Sock!OnMarked
<1>2. Sock!Current \in SP!OpenFds
  BY <1>1 DEF Sock!Current, SP!IInv, SP!Registered, SP!ToSet
<1>3. peer[Sock!Current] \in Conns /\ Sock!Current \in ClientFds
  BY <1>2 DEF SP!IInv, SP!TypeOK, SP!OpenFds
<1>4. peer[Sock!Current] \in Connected
  BY <1>2, Owners DEF SP!IInv
<1> QED BY <1>2, <1>3, <1>4 DEF Sock!CurrentConn

\* A step that moves none of what the clients see.
LEMMA UnseenStep ==
  ASSUME UNCHANGED <<connectedSockets, peer, inbox, liveData, liveDataFd>>
  PROVE  FeedNext
  BY DEF FeedNext, Feed!vars

\* The connection request that accept() takes.
LEMMA FirstRequest ==
  ASSUME SP!IInv, backlog # <<>>
  PROVE  Head(backlog) \in Conns /\ Head(backlog) \in SP!ToSet(backlog)
<1>1. /\ backlog \in Seq(Conns) /\ Len(backlog) \in Nat \ {0}
      /\ DOMAIN backlog = 1..Len(backlog)
  BY EmptySeq, LenProperties DEF SP!IInv, SP!TypeOK
<1>2. Head(backlog) = backlog[1] /\ 1 \in DOMAIN backlog /\ backlog[1] \in Conns
  BY <1>1, ElementOfSeq
<1> QED BY <1>2 DEF SP!ToSet

\* A new connection: its client had none.
LEMMA AcceptedStep ==
  ASSUME SP!IInv, SP!IInv', FInv, KeepFeed, Sock!AcceptConnection
  PROVE  FeedNext
<1> DEFINE c == Head(backlog)
<1>1. PICK fd \in SP!FreeFds : peer' = [peer EXCEPT ![fd] = c]
  BY SameDefinitions DEF Sock!AcceptConnection, Sock!LowestFree
<1>2. backlog # <<>> /\ inbox' = inbox
  BY DEF Sock!AcceptConnection, Sock!CanAccept
<1>3. c \in Conns /\ c \in SP!ToSet(backlog)
  BY <1>2, FirstRequest
<1>4. /\ SP!OpenFds' = SP!OpenFds \union {fd} /\ fd \notin SP!OpenFds
      /\ peer'[fd] = c /\ \A f \in SP!OpenFds : peer'[f] = peer[f]
  BY <1>1, <1>3, SocketAssumption DEF SP!FreeFds, SP!OpenFds, SP!IInv, SP!TypeOK
<1>5. c \notin Connected
  BY <1>3, Owners DEF SP!IInv, SP!Owned
<1>6. Connected' = Connected \union {c}
  BY <1>4, Owners DEF SP!IInv
<1>7. FedClient' = FedClient
  BY <1>4, FedOwner DEF FedClient, KeepFeed
<1> QED BY <1>2, <1>3, <1>5, <1>6, <1>7
        DEF FeedNext, Feed!Next, Feed!Promised, Feed!Accept, Connected, FedClient

\* A connection closed at once: its client was not connected.
LEMMA RejectedStep ==
  ASSUME SP!IInv, KeepFeed, Sock!RejectConnection
  PROVE  FeedNext
<1> DEFINE c == Head(backlog)
<1>1. /\ backlog # <<>> /\ inbox' = [inbox EXCEPT ![c] = <<>>]
      /\ UNCHANGED <<connectedSockets, peer>>
  BY DEF Sock!RejectConnection, Sock!CanAccept
<1>2. c \in Conns /\ c \in SP!ToSet(backlog)
  BY <1>1, FirstRequest
<1>3. c \notin Connected
  BY <1>2, Owners DEF SP!IInv, SP!Owned
<1>4. Connected' = Connected /\ FedClient' = FedClient
  BY <1>1 DEF Connected, FedClient, KeepFeed
<1> QED BY <1>1, <1>2, <1>3, <1>4
        DEF FeedNext, Feed!Next, Feed!Promised, Feed!Refuse, Connected, FedClient

\* Where a command may send the feed.
FeedAfter(cmd) ==
  CASE cmd = "GET"   -> {FedClient}
    [] cmd = "START" -> {Sock!CurrentConn}
    [] cmd = "STOP"  -> {NoConn}
    [] OTHER         -> {FedClient, Sock!CurrentConn, NoConn}

\* A command read: the feed goes where the first one sends it.
LEMMA CommandStep ==
  ASSUME SP!IInv, NEW n, Sock!ReadData(n), FedClient' \in FeedAfter(Command)
  PROVE  FeedNext
<1> DEFINE c == Sock!CurrentConn
<1>1. /\ Sock!OnMarked /\ n \in 1..Len(inbox[c])
      /\ inbox' = [inbox EXCEPT ![c] = SubSeq(@, n + 1, Len(@))]
      /\ UNCHANGED <<connectedSockets, peer>>
  BY DEF Sock!ReadData
<1>2. c \in Conns /\ c \in Connected
  BY <1>1, CurrentOpen
<1>3. Connected' = Connected
  BY <1>1 DEF Connected
<1>4. FedClient' \in CASE Head(inbox[c]) = "GET"   -> {FedClient}
                       [] Head(inbox[c]) = "START" -> {c}
                       [] Head(inbox[c]) = "STOP"  -> {NoConn}
                       [] OTHER                    -> {FedClient, c, NoConn}
  BY DEF FeedAfter, Command
<1>5. Feed!Read(c)
  BY <1>1, <1>2, <1>3, <1>4 DEF Feed!Read, Connected, FedClient
<1> QED BY <1>2, <1>5 DEF FeedNext, Feed!Next, Feed!Promised

\* The callback's part in it.
LEMMA ReceivedStep ==
  ASSUME SP!IInv, NEW n \in 1..MaxInbox,
         OnRequest(n) \/ OnLiveData(n) \/ OnEndLiveData(n) \/ OnUnknown(n)
  PROVE  FeedNext
<1>1. Sock!ReadData(n)
  BY DEF OnRequest, OnLiveData, OnEndLiveData, OnUnknown, Received
<1>2. peer' = peer /\ Sock!CurrentConn = peer[Sock!Current]
  BY <1>1 DEF Sock!ReadData, Sock!CurrentConn
<1>3. FedClient' \in FeedAfter(Command)
  <2>1. CASE OnRequest(n)
    BY <2>1, <1>2 DEF OnRequest, Received, MsgType, KeepFeed, FedClient, FeedAfter
  <2>2. CASE OnLiveData(n)
    <3>1. FedClient' = Sock!CurrentConn
      BY <2>2, <1>2 DEF OnLiveData, FedClient
    <3> QED BY <2>2, <3>1 DEF OnLiveData, Received, MsgType, FeedAfter
  <2>3. CASE OnEndLiveData(n)
    BY <2>3 DEF OnEndLiveData, Received, MsgType, FedClient, FeedAfter
  <2>4. CASE OnUnknown(n)
    BY <2>4, <1>2 DEF OnUnknown, Received, MsgType, KeepFeed, FedClient, FeedAfter
  <2> QED BY <2>1, <2>2, <2>3, <2>4
<1> QED BY <1>1, <1>3, CommandStep

\* A descriptor closed: its owner leaves, and takes the feed along, its own or not.
LEMMA LeavingStep ==
  ASSUME SP!IInv, SP!IInv', NEW fd \in SP!OpenFds, Sock!CloseFds({fd}),
         backlog' = backlog, OnConnectionClose
  PROVE  FeedNext
<1>0. PICK c : c = peer[fd]
  OBVIOUS
<1>1. SP!CloseFds({fd})
  BY SameDefinitions
<1>2. /\ SP!OpenFds' = SP!OpenFds \ {fd}
      /\ \A f \in SP!OpenFds \ {fd} : peer'[f] = peer[f]
  BY <1>1, Assumptions, SP!CloseFdsOthers DEF SP!IInv
<1>3. \A f \in SP!OpenFds : peer[f] = c => f = fd
  BY <1>0 DEF SP!IInv, SP!Owned
<1>4. Connected' = Connected \ {c} /\ c \in Connected
  BY <1>0, <1>2, <1>3, Owners DEF SP!IInv
<1>5. inbox' = [d \in Conns |-> IF d \in {c} THEN <<>> ELSE inbox[d]]
  <2>1. {peer[f] : f \in {fd} \intersect SP!OpenFds} = {c}
    BY <1>0
  <2> QED BY <1>1, <2>1 DEF SP!CloseFds
<1>6. FedClient' = NoConn
  BY DEF OnConnectionClose, FedClient
<1>7. c \in Conns
  BY <1>0 DEF SP!IInv, SP!TypeOK, SP!OpenFds
<1>8. Feed!LeaveEndsFeed(c)
  <2>1. inbox' = [inbox EXCEPT ![c] = <<>>]
    BY <1>5, <1>7 DEF SP!IInv, SP!TypeOK
  <2> QED BY <1>4, <1>6, <2>1 DEF Feed!LeaveEndsFeed, Feed!Left, Connected, FedClient
<1> QED BY <1>7, <1>8 DEF FeedNext, Feed!Next

\* The end of run(): every client is gone, and the feed with them.
LEMMA EndingStep ==
  ASSUME FInv, Exit
  PROVE  FeedNext
<1>1. connectedSockets' = <<>> /\ inbox' = [c \in Conns |-> <<>>]
  BY DEF Exit, Sock!Delete
<1>2. Connected' = {}
  BY <1>1 DEF Connected, ToSet
<1>3. ~liveData'
  <2>1. connectedSockets = <<>> => ~liveData
    BY DEF ToSet, FInv, LiveFdConnected
  <2> QED BY <2>1 DEF Exit, KeepFeed, OnConnectionClose
<1>4. FedClient' = NoConn
  BY <1>3 DEF FedClient
<1> QED BY <1>1, <1>2, <1>4 DEF FeedNext, Feed!Next, Feed!Promised, Feed!End, Connected, FedClient

\* Publishing fails: the client leaves.
LEMMA PublishFailsStep ==
  ASSUME SP!IInv, SP!IInv', FInv, PublishFails
  PROVE  FeedNext
<1>1. liveDataFd \in SP!OpenFds
  BY FedOwner DEF PublishFails
<1>2. Sock!CloseFds({liveDataFd}) /\ backlog' = backlog /\ OnConnectionClose
  BY DEF PublishFails, Sock!SendBytesFails, Sock!RemoveConnection
<1> QED BY <1>1, <1>2, LeavingStep

\* run() outside manage().
LEMMA RunFeeds ==
  ASSUME SP!IInv, SP!IInv', FInv,
         Setup \/ LoopEnds \/ SelectIdle \/ Serial \/ Exit \/ ExitCrashes
  PROVE  FeedNext
<1> USE DEF sockVars, feedVars
<1>1. CASE Setup
  BY <1>1, UnseenStep DEF Setup, PortOpens, PortFails, Sock!ActivateAccept,
                          Sock!SetAccept, Sock!kernelVars
<1>2. CASE LoopEnds \/ SelectIdle \/ ExitCrashes
  BY <1>2, UnseenStep DEF LoopEnds, SelectIdle, ExitCrashes, Crash
<1>3. CASE Publish
  <2>1. CASE PublishFails
    BY <2>1, PublishFailsStep
  <2>2. CASE PublishUnsent \/ PublishSent
    BY <2>2, UnseenStep DEF PublishUnsent, PublishSent
  <2> QED BY <1>3, <2>1, <2>2 DEF Publish
<1>4. CASE \/ SerialReady \/ ReadNothing \/ PublishBlocks \/ BatchDone \/ StoreThrows
           \/ \E n \in 0..MaxReadings : ReadMessages(n)
  BY <1>4, UnseenStep DEF SerialReady, ReadNothing, PublishBlocks, BatchDone, StoreThrows,
                          ReadMessages, Crash
<1> QED BY <1>1, <1>2, <1>3, <1>4, EndingStep DEF Serial

\* manage() and the callbacks.
LEMMA ManageFeeds ==
  ASSUME SP!IInv, SP!IInv', FInv, Manage
  PROVE  FeedNext
<1> USE DEF InManage
<1>1. CASE ManageWork
  <2>1. CASE Sock!AcceptStep
    BY <1>1, <2>1, AcceptedStep, RejectedStep DEF ManageWork, Sock!AcceptStep
  <2>2. CASE ~Sock!AcceptStep
    BY <1>1, <2>2, UnseenStep
       DEF ManageWork, KeepFeed, Sock!ManageSelect, Sock!RoundWithoutAccept,
           Sock!ScanEnd, Sock!ScanSkip, Sock!ReadError, Sock!kernelVars
  <2> QED BY <2>1, <2>2
<1>2. CASE ManageReturns
  BY <1>2, UnseenStep DEF ManageReturns, Sock!EndManage, Sock!AcceptFails,
                          Sock!kernelVars, feedVars
<1>3. CASE \/ ManageIdle \/ ManageThrows \/ CommandCrashes \/ CloseCrashes
           \/ \E n \in 1..MaxInbox : OnRequestBlocks(n)
  BY <1>3, UnseenStep DEF ManageIdle, ManageThrows, CommandCrashes, CloseCrashes,
                          OnRequestBlocks, Crash, sockVars, feedVars
<1>4. CASE OnRequestSendFails \/ ClientCloses
  <2>1. /\ Sock!OnMarked /\ Sock!CloseFds({Sock!Current})
        /\ backlog' = backlog /\ OnConnectionClose
    BY <1>4 DEF OnRequestSendFails, ClientCloses, Sock!ReadDataSendFails, Sock!ReadClosed
  <2> QED BY <2>1, CurrentOpen, LeavingStep
<1>5. CASE \E n \in 1..MaxInbox :
             OnRequest(n) \/ OnLiveData(n) \/ OnEndLiveData(n) \/ OnUnknown(n)
  BY <1>5, ReceivedStep
<1> QED BY <1>1, <1>2, <1>3, <1>4, <1>5 DEF Manage, Receive

\* While an answer waits to be sent, the command it answers is where recv() found it.
Asked ==
  proc = "answering" =>
    /\ Sock!OnMarked
    /\ inbox[Sock!CurrentConn] # <<>> /\ "REQ" \in MsgType(Command)

\* The clients only append to their commands.
LEMMA AskedByClients ==
  ASSUME SP!IInv, Asked, Clients
  PROVE  Asked'
<1> SUFFICES ASSUME proc' = "answering" PROVE Asked'
  BY DEF Asked
<1>1. /\ Sock!OnMarked /\ inbox[Sock!CurrentConn] # <<>>
      /\ "REQ" \in MsgType(Command)
  BY DEF Clients, Asked
<1>2. UNCHANGED <<connectedSockets, at, fdset, dequeit, peer>>
  BY DEF Clients, Sock!ClientStep, Sock!Connect, Sock!Submit, Sock!Finish, Sock!Reset,
         Sock!manageVars
<1>3. Sock!OnMarked' /\ Sock!CurrentConn' = Sock!CurrentConn
  BY <1>1, <1>2 DEF Sock!OnMarked, Sock!CurrentConn, Sock!Current
<1>4. inbox \in [Conns -> Seq(Msgs)] /\ Sock!CurrentConn \in Conns
  BY <1>1, CurrentOpen DEF SP!IInv, SP!TypeOK
<1>5. \/ inbox' = inbox
      \/ \E d \in Conns, msg \in Msgs : inbox' = [inbox EXCEPT ![d] = Append(@, msg)]
  BY DEF Clients, Sock!ClientStep, Sock!Connect, Sock!Submit, Sock!Finish, Sock!Reset
<1>6. /\ inbox'[Sock!CurrentConn] # <<>>
      /\ Head(inbox'[Sock!CurrentConn]) = Head(inbox[Sock!CurrentConn])
  <2>1. \A s \in Seq(Msgs), msg \in Msgs :
           s # <<>> => Append(s, msg) # <<>> /\ Head(Append(s, msg)) = Head(s)
    OBVIOUS
  <2> QED BY <1>1, <1>4, <1>5, <2>1
<1> QED BY <1>1, <1>3, <1>6 DEF Asked, Command

LEMMA AskedInvariant == Spec => []Asked
<1>1. Init => Asked
  BY DEF Init, Asked
<1>2. SP!IInv /\ Asked /\ [Next]_vars => Asked'
  <2> SUFFICES ASSUME SP!IInv, Asked, [Next]_vars PROVE Asked'
    OBVIOUS
  <2>1. CASE Thread /\ ~SendFails
    <3> SUFFICES ASSUME proc' = "answering" PROVE Asked'
      BY DEF Asked
    <3>1. PICK n \in 1..MaxInbox : OnRequestBlocks(n)
      BY <2>1, ThreadLeads
    <3>2. /\ Sock!OnMarked /\ "REQ" \in MsgType(Command)
          /\ n \in 1..Len(inbox[Sock!CurrentConn])
          /\ UNCHANGED <<connectedSockets, at, fdset, dequeit, peer, inbox>>
      BY <3>1 DEF OnRequestBlocks, sockVars
    <3>3. inbox[Sock!CurrentConn] # <<>>
      BY <3>2
    <3> QED BY <3>2, <3>3 DEF Asked, Sock!OnMarked, Sock!CurrentConn, Sock!Current, Command
  <2>2. CASE Clients
    BY <2>2, AskedByClients
  <2>3. CASE SendReturns
    BY <2>3, SendLeads DEF Asked
  <2>4. CASE UNCHANGED <<sockVars, proc, got, feedVars, todo>>
    BY <2>4 DEF Asked, sockVars, Sock!OnMarked, Sock!CurrentConn, Sock!Current, Command
  <2> QED BY <2>1, <2>2, <2>3, <2>4, OutsideSteps DEF Next
<1> QED BY <1>1, <1>2, SocketInvariant, PTL DEF Spec

\* A send that had to wait: its client goes on being connected, or leaves.
LEMMA SendFeeds ==
  ASSUME SP!IInv, SP!IInv', FInv, Asked, SendReturns
  PROVE  FeedNext
<1>1. CASE AnswerTaken
  <2>1. Sock!ReadData(got) /\ "REQ" \in MsgType(Command)
    BY <1>1 DEF AnswerTaken, Asked
  <2>2. FedClient' = FedClient
    BY <1>1, <2>1 DEF AnswerTaken, KeepFeed, FedClient, Sock!ReadData
  <2>3. FedClient' \in FeedAfter(Command)
    BY <2>1, <2>2 DEF MsgType, FeedAfter
  <2> QED BY <2>1, <2>3, CommandStep
<1>2. CASE FeedTaken
  BY <1>2, UnseenStep DEF FeedTaken, sockVars, feedVars
<1>3. CASE AnswerLost
  <2>1. /\ Sock!OnMarked /\ Sock!CloseFds({Sock!Current})
        /\ backlog' = backlog /\ OnConnectionClose
    BY <1>3 DEF AnswerLost, Sock!ReadDataSendFails
  <2> QED BY <2>1, CurrentOpen, LeavingStep
<1>4. CASE FeedLost
  BY <1>4, PublishFailsStep DEF FeedLost
<1> QED BY <1>1, <1>2, <1>3, <1>4 DEF SendReturns, SendTaken, SendLost

\* The clients: only a command they send is seen.
LEMMA ClientsFeed ==
  ASSUME SP!IInv, Clients
  PROVE  FeedNext
<1>1. PICK c \in Conns : \/ Sock!Connect(c) \/ Sock!Finish(c) \/ Sock!Reset(c)
                         \/ \E msg \in Msgs : Sock!Submit(c, msg)
  BY DEF Clients, Sock!ClientStep
<1>2. CASE Sock!Connect(c) \/ Sock!Finish(c) \/ Sock!Reset(c)
  BY <1>2, UnseenStep DEF Clients, feedVars, Sock!Connect, Sock!Finish, Sock!Reset
<1>3. ASSUME NEW msg \in Msgs, Sock!Submit(c, msg) PROVE FeedNext
  <2>1. inbox' = [inbox EXCEPT ![c] = Append(@, msg)]
    BY <1>3 DEF Sock!Submit
  <2>2. Connected' = Connected /\ FedClient' = FedClient
    BY <1>3 DEF Clients, feedVars, Sock!Submit, Connected, FedClient
  <2>3. Feed!Submit(c, msg)
    BY <2>1, <2>2 DEF Feed!Submit, Connected, FedClient
  <2> QED BY <2>3 DEF FeedNext, Feed!Next, Feed!Promised
<1> QED BY <1>1, <1>2, <1>3

\* The daemon implements the live feed as its clients see it, whatever the order of
\* commands, disconnections, readings and failed sends and whatever fails: no step of
\* applicVFD::run(), of manage() or of a callback gives, moves or takes away the feed,
\* connects a client or loses its commands but as LiveFeed has it, which lets any client
\* that leaves end the feed (peibol.cpp:237-292).
THEOREM ImplementsFeed == Spec => FeedSpec
<1>1. Init => Feed!Init
  <2> SUFFICES ASSUME Init PROVE Feed!Init
    OBVIOUS
  <2>1. Connected = {} /\ FedClient = NoConn
    BY DEF Init, Sock!Init, Connected, FedClient, ToSet
  <2>2. inbox = [c \in Conns |-> <<>>]
    BY DEF Init, Sock!Init
  <2> QED BY <2>1, <2>2 DEF Feed!Init, Connected, FedClient
<1>2. SP!IInv /\ SP!IInv' /\ FInv /\ Asked /\ [Next]_vars => FeedNext
  <2> SUFFICES ASSUME SP!IInv, SP!IInv', FInv, Asked, [Next]_vars PROVE FeedNext
    OBVIOUS
  <2>1. CASE Thread /\ ~SendFails
    BY <2>1, ManageFeeds, RunFeeds DEF Thread
  <2>2. CASE Clients
    BY <2>2, ClientsFeed
  <2>3. CASE SendReturns
    BY <2>3, SendFeeds
  <2>4. CASE UNCHANGED <<sockVars, proc, got, feedVars, todo>>
    BY <2>4, UnseenStep DEF sockVars, feedVars
  <2> QED BY <2>1, <2>2, <2>3, <2>4, OutsideSteps DEF Next
<1>3. Spec => []FInv
  BY FeedInvariant, PTL
<1> QED BY <1>1, <1>2, <1>3, AskedInvariant, SocketInvariant, PTL
        DEF Spec, FeedSpec, Feed!Spec, FeedNext

(***************************************************************************)
(* The types, and what the socket guarantees in the daemon.                *)
(***************************************************************************)

RunTypes ==
  /\ proc \in {"setup", "select", "serial", "readings", "feeding", "manage", "answering",
               "exit", "stopped", "crashed"}
  /\ got \in 0..MaxInbox
  /\ todo \in 0..MaxReadings /\ line \in {"up", "hup"}
  /\ proc = "feeding" => todo > 0

FlagTypes == liveData \in BOOLEAN /\ term \in BOOLEAN

\* run() counts a batch down, one reading at a time.
LEMMA RunTypesStep == ASSUME RunTypes, [Next]_vars PROVE RunTypes'
<1> USE DEF RunTypes
<1>1. MaxReadings \in Nat /\ MaxInbox \in Nat
  BY ReadingsAssumption, SocketAssumption
<1>2. CASE Setup \/ LoopEnds \/ SelectIdle \/ Exit \/ ExitCrashes
  BY <1>2 DEF Setup, PortOpens, PortFails, LoopEnds, SelectIdle, Exit, ExitCrashes, Crash
<1>3. CASE Publish
  BY <1>1, <1>3 DEF Publish
<1>4. CASE SerialReady \/ ReadNothing \/ (\E n \in 0..MaxReadings : ReadMessages(n))
           \/ PublishBlocks \/ StoreThrows \/ BatchDone
  BY <1>4 DEF SerialReady, ReadNothing, ReadMessages, PublishBlocks, StoreThrows, BatchDone,
              Crash
<1>5. CASE Manage
  <2>1. CASE \E n \in 1..MaxInbox : OnRequestBlocks(n)
    BY <1>1, <2>1 DEF OnRequestBlocks
  <2>2. CASE ~\E n \in 1..MaxInbox : OnRequestBlocks(n)
    <3>1. /\ todo' = todo /\ line' = line /\ got' = got /\ proc = "manage"
          /\ proc' = proc \/ proc' \in {"select", "crashed"}
      BY <1>5, <2>2
         DEF Manage, ManageWork, Receive, Received, OnRequest, OnLiveData, OnEndLiveData,
             OnUnknown, OnRequestSendFails, CommandCrashes, ClientCloses, CloseCrashes,
             ManageReturns, ManageIdle, ManageThrows, InManage, Crash
    <3> QED BY <3>1
  <2> QED BY <2>1, <2>2
<1>6. CASE SendFails \/ Sigterm \/ ClientReads \/ Tick \/ HangUp \/ Ended \/ UNCHANGED vars
  <2>1. line' \in {"up", "hup"}
    BY <1>6 DEF SendFails, Sigterm, ClientReads, Tick, HangUp, Ended, vars
  <2>2. CASE SendReturns
    <3>1. \/ proc = "answering" /\ proc' = "manage" /\ got' = 0 /\ todo' = todo
          \/ proc = "feeding" /\ proc' = "readings" /\ got' = got /\ todo' = todo - 1
      BY <2>2 DEF SendReturns, SendTaken, SendLost, AnswerTaken, AnswerLost, FeedTaken,
                  FeedLost
    <3> QED BY <1>1, <2>1, <3>1
  <2>3. CASE UNCHANGED <<sockVars, proc, got, feedVars, todo>>
    BY <2>1, <2>3
  <2> QED BY <1>6, <2>2, <2>3, OutsideSteps
<1>7. CASE Clients
  BY <1>7 DEF Clients
<1> QED BY <1>2, <1>3, <1>4, <1>5, <1>6, <1>7 DEF Next, Thread, Serial

\* Every assignment to a flag gives it TRUE or FALSE.
LEMMA FlagTypesStep == ASSUME FlagTypes, [Next]_vars PROVE FlagTypes'
<1>1. CASE Manage
  <2>1. /\ term' = term
        /\ liveData' = liveData \/ liveData' = TRUE \/ liveData' = FALSE
    BY <1>1 DEF Manage, ManageWork, Receive, Received, OnRequest, OnLiveData, OnEndLiveData,
                OnUnknown, OnRequestSendFails, OnRequestBlocks, CommandCrashes, ClientCloses,
                CloseCrashes, ManageReturns, ManageIdle, ManageThrows, InManage, Crash,
                KeepFeed, OnConnectionClose, feedVars
  <2> QED BY <2>1, Zenon DEF FlagTypes
<1>2. CASE Publish \/ Exit
  <2>1. term' = term /\ (liveData' = liveData \/ liveData' = FALSE)
    BY <1>2 DEF Publish, PublishUnsent, PublishSent, PublishFails, Exit, KeepFeed,
                OnConnectionClose, feedVars
  <2> QED BY <2>1, Zenon DEF FlagTypes
<1>3. CASE SendFails \/ Sigterm \/ ClientReads \/ Tick \/ HangUp \/ Ended \/ UNCHANGED vars
  <2>1. term' = term \/ term' = TRUE
    BY <1>3 DEF SendFails, Sigterm, ClientReads, Tick, HangUp, Ended, vars
  <2>2. liveData' = liveData \/ liveData' = FALSE
    <3>1. CASE SendReturns
      BY <3>1 DEF SendReturns, SendTaken, SendLost, AnswerTaken, AnswerLost, FeedTaken,
                  FeedLost, PublishFails, OnConnectionClose, KeepFeed, feedVars
    <3>2. CASE UNCHANGED <<sockVars, proc, got, feedVars, todo>>
      BY <3>2 DEF feedVars
    <3> QED BY <1>3, <3>1, <3>2, OutsideSteps
  <2> QED BY <2>1, <2>2, Zenon DEF FlagTypes
<1>4. CASE \/ Setup \/ LoopEnds \/ SelectIdle \/ ExitCrashes
           \/ SerialReady \/ ReadNothing \/ (\E n \in 0..MaxReadings : ReadMessages(n))
           \/ PublishBlocks \/ StoreThrows \/ BatchDone \/ Clients
  <2>1. term' = term /\ liveData' = liveData
    BY <1>4 DEF Setup, PortOpens, PortFails, LoopEnds, SelectIdle, ExitCrashes, SerialReady,
                ReadNothing, ReadMessages, PublishBlocks, StoreThrows, BatchDone, Clients,
                Crash, feedVars
  <2> QED BY <2>1 DEF FlagTypes
<1> QED BY <1>1, <1>2, <1>3, <1>4 DEF Next, Thread, Serial

LEMMA RunInvariant == Spec => [](RunTypes /\ FlagTypes)
<1>1. Init => RunTypes /\ FlagTypes
  <2> SUFFICES ASSUME Init PROVE RunTypes /\ FlagTypes
    OBVIOUS
  <2>1. RunTypes
    BY ReadingsAssumption, SocketAssumption DEF Init, RunTypes
  <2>2. FlagTypes
    BY Zenon DEF Init, FlagTypes
  <2> QED BY <2>1, <2>2
<1>2. RunTypes /\ FlagTypes /\ [Next]_vars => (RunTypes /\ FlagTypes)'
  BY RunTypesStep, FlagTypesStep
<1> QED BY <1>1, <1>2, PTL DEF Spec

\* The daemon's state keeps its types; above all liveDataFd is a client's descriptor or -1,
\* and manage()'s iterator is in reach of its deque whatever the callbacks erase
\* (peibol.cpp:237-292, CServerSocket.cpp:111-169).
THEOREM TypeCorrect == Spec => []TypeOK
<1>1. SP!IInv /\ FInv /\ m \in BOOLEAN /\ RunTypes /\ FlagTypes => TypeOK
  <2> SUFFICES ASSUME SP!IInv, FInv, m \in BOOLEAN, RunTypes, FlagTypes PROVE TypeOK
    OBVIOUS
  <2>1. Sock!TypeOK
    BY DEF SP!IInv, SP!TypeOK, Sock!TypeOK, SP!LinkStates, Sock!LinkStates
  <2>2. liveDataFd \in ClientFds \union {-1}
    <3>1. ToSet(connectedSockets) \subseteq ClientFds
      BY ElementOfSeq, LenProperties DEF FInv, Deque, ToSet
    <3> QED BY <3>1 DEF FInv, LiveFdConnected
  <2> QED BY <2>1, <2>2 DEF TypeOK, RunTypes, FlagTypes
<1> QED BY <1>1, SocketInvariant, FeedInvariant, RunInvariant, PTL

\* With the callbacks that applicVFD has, which answer, remove connections and move the
\* feed from inside the scan, the socket keeps what it promises: the deque lists the open
\* descriptors, each once, recv() never blocks the only thread, and no client that select()
\* reported is stepped over (peibol.cpp:237-292, CServerSocket.cpp:111-169).
THEOREM SocketGuarantees ==
  Spec => [](Sock!Registered /\ Sock!RecvNeverBlocks /\ Sock!NothingSkipped)
<1>1. SP!IInv => Sock!Registered /\ Sock!RecvNeverBlocks /\ Sock!NothingSkipped
  BY SameDefinitions
     DEF SP!IInv, SP!Marked, SP!Registered, Sock!Registered, SP!RecvNeverBlocks,
         Sock!RecvNeverBlocks, SP!NothingSkipped, Sock!NothingSkipped, SP!ToSet, Sock!ToSet
<1> QED BY <1>1, SocketInvariant, PTL

(***************************************************************************)
(* SIGTERM.                                                                *)
(***************************************************************************)

\* The stages of run() that are still ahead once SIGTERM came.
Stage(p) ==
  IF p = "setup" THEN 5 ELSE IF p = "serial" THEN 4
  ELSE IF p \in {"readings", "feeding", "manage", "answering"} THEN 3
  ELSE IF p = "select" THEN 2 ELSE IF p = "exit" THEN 1 ELSE 0

\* A step of the thread brings run() nearer to its end: to the next stage, or within a
\* batch, or within manage(), or into a send after which it will be nearer.
Nearer ==
  \/ Stage(proc') < Stage(proc)
  \/ proc = "readings" /\ proc' = "feeding" /\ todo' = todo
  \/ proc \in {"readings", "feeding"} /\ proc' = "readings" /\ todo' < todo
  \/ /\ proc = "manage" /\ proc' = "answering"
     /\ UNCHANGED <<connectedSockets, at, fdset, rc, dequeit>>
  \/ /\ proc \in {"manage", "answering"} /\ proc' = "manage"
     /\ \/ at = "app" /\ at' = "round"
        \/ at # "app" /\ at' # "app" /\ SP!Shorter

\* After SIGTERM the thread's steps, and whatever ends its wait in send(), bring it nearer
\* to the end and nothing else takes it back.
Stopping ==
  term => /\ Thread \/ SendReturns => Nearer
          /\ ~(Thread \/ SendReturns) =>
               UNCHANGED <<proc, todo, connectedSockets, at, fdset, rc, dequeit>>

StopsSoon == [][Stopping]_vars

LEMMA Stages ==
  /\ Stage("setup") = 5 /\ Stage("serial") = 4 /\ Stage("readings") = 3
  /\ Stage("feeding") = 3 /\ Stage("manage") = 3 /\ Stage("answering") = 3
  /\ Stage("select") = 2 /\ Stage("exit") = 1 /\ Stage("stopped") = 0 /\ Stage("crashed") = 0
BY DEF Stage

\* The turns of manage(), as the daemon makes them.
LEMMA ManageNearer == ASSUME SP!IInv, Manage PROVE Nearer
<1>1. proc = "manage"
  BY DEF Manage, ManageWork, Receive, Received, OnRequest, OnRequestBlocks, OnLiveData,
         OnEndLiveData, OnUnknown, OnRequestSendFails, CommandCrashes, ClientCloses,
         CloseCrashes, ManageReturns, ManageIdle, ManageThrows, InManage
<1>2. CASE proc' \in {"select", "crashed"}
  BY <1>1, <1>2, Stages DEF Nearer
<1>3. CASE Sock!ManageSelect /\ InManage
  BY <1>1, <1>3 DEF InManage, Sock!ManageSelect, Nearer
<1>4. ASSUME SP!ManageStep, at # "app", at' # "app", InManage PROVE Nearer
  <2>1. SP!Shorter
    BY <1>4, Assumptions, SP!ManageShortens DEF SP!IInv
  <2> QED BY <1>1, <1>4, <2>1 DEF InManage, Nearer
<1>5. CASE InManage /\ (Sock!RoundWithoutAccept \/ Sock!AcceptStep \/ Sock!ScanEnd
                        \/ Sock!ScanSkip \/ Sock!ReadStep)
  <2>1. SP!ManageStep
    BY <1>5, SameManage DEF SP!ManageStep
  <2>2. at # "app" /\ at' # "app"
    BY <1>5 DEF Sock!RoundWithoutAccept, Sock!AcceptStep, Sock!AcceptConnection,
                Sock!RejectConnection, Sock!StartScan, Sock!ScanEnd, Sock!ScanSkip,
                Sock!ReadStep, Sock!ReadData, Sock!ReadDataSendFails, Sock!ReadError,
                Sock!ReadClosed, Sock!OnMarked
  <2> QED BY <1>4, <1>5, <2>1, <2>2
<1>6. CASE ManageWork
  BY <1>3, <1>5, <1>6 DEF ManageWork, Sock!ReadStep
<1>7. CASE Receive
  <2>1. CASE CommandCrashes \/ CloseCrashes
    BY <2>1, <1>2 DEF CommandCrashes, CloseCrashes, Crash
  <2>2. CASE OnRequestSendFails \/ ClientCloses
    BY <2>2, <1>5 DEF OnRequestSendFails, ClientCloses, Sock!ReadStep
  <2>3. CASE \E n \in 1..MaxInbox :
               OnRequest(n) \/ OnLiveData(n) \/ OnEndLiveData(n) \/ OnUnknown(n)
    <3>1. InManage /\ \E n \in 1..MaxInbox : Sock!ReadData(n)
      BY <2>3 DEF OnRequest, OnLiveData, OnEndLiveData, OnUnknown, Received
    <3> QED BY <3>1, <1>5 DEF Sock!ReadStep
  <2>4. CASE \E n \in 1..MaxInbox : OnRequestBlocks(n)
    BY <2>4 DEF OnRequestBlocks, sockVars, Nearer
  <2> QED BY <1>7, <2>1, <2>2, <2>3, <2>4 DEF Receive
<1>8. CASE ManageReturns \/ ManageIdle \/ ManageThrows
  BY <1>2, <1>8 DEF ManageReturns, ManageIdle, ManageThrows, Crash
<1> QED BY <1>6, <1>7, <1>8 DEF Manage

\* So does the end of a send that had to wait: the client's bit is cleared, or the reading
\* is done with.
LEMMA SendNearer == ASSUME SP!IInv, SInv, RunTypes, SendReturns PROVE Nearer
<1>1. CASE FeedTaken \/ FeedLost
  <2>1. /\ proc = "feeding" /\ proc' = "readings" /\ todo' = todo - 1 /\ todo \in Nat
    BY <1>1, ReadingsAssumption DEF FeedTaken, FeedLost, RunTypes
  <2> QED BY <2>1 DEF Nearer
<1>2. CASE AnswerTaken \/ AnswerLost
  <2>1. /\ proc = "answering" /\ proc' = "manage"
        /\ Sock!ReadDataSendFails \/ \E n \in 1..MaxInbox : Sock!ReadData(n)
    BY <1>2 DEF AnswerTaken, AnswerLost, SInv
  <2>2. SP!ManageStep
    BY <2>1, SameManage DEF SP!ManageStep, Sock!ReadStep
  <2>3. at # "app" /\ at' # "app"
    BY <2>1 DEF Sock!ReadData, Sock!ReadDataSendFails, Sock!OnMarked
  <2>4. SP!Shorter
    BY <2>2, <2>3, Assumptions, SP!ManageShortens DEF SP!IInv
  <2> QED BY <2>1, <2>3, <2>4 DEF Nearer
<1> QED BY <1>1, <1>2 DEF SendReturns, SendTaken, SendLost

\* The two steps that would go back test term.
LEMMA NoWayBack == ASSUME term PROVE ~SelectIdle /\ ~SerialReady
  BY Zenon DEF SelectIdle, SerialReady

\* The stages and the batches.
LEMMA RunNearer ==
  ASSUME RunTypes, ~SerialReady, Setup \/ LoopEnds \/ Serial \/ Exit \/ ExitCrashes
  PROVE  Nearer
<1> USE Stages DEF Nearer
<1>1. CASE Setup \/ LoopEnds
  <2>1. \/ proc = "setup" /\ proc' \in {"select", "exit"}
        \/ proc = "select" /\ proc' = "exit"
    BY <1>1, Zenon DEF Setup, PortOpens, PortFails, LoopEnds
  <2> QED BY <2>1
<1>2. CASE Exit \/ ExitCrashes
  <2>1. proc = "exit" /\ proc' \in {"stopped", "crashed"}
    BY <1>2, Zenon DEF Exit, ExitCrashes, Crash
  <2> QED BY <2>1
<1>3. CASE Publish
  <2>1. proc = "readings" /\ proc' = "readings" /\ todo' = todo - 1 /\ todo \in Nat
    BY <1>3, ReadingsAssumption DEF Publish, RunTypes
  <2> QED BY <2>1
<1>4. CASE PublishBlocks
  BY <1>4 DEF PublishBlocks
<1>5. CASE ReadNothing \/ (\E n \in 0..MaxReadings : ReadMessages(n)) \/ StoreThrows
           \/ BatchDone
  <2>1. \/ proc = "serial" /\ proc' \in {"select", "readings"}
        \/ proc = "readings" /\ proc' \in {"select", "crashed"}
    BY <1>5, Zenon DEF ReadNothing, ReadMessages, StoreThrows, BatchDone, Crash
  <2> QED BY <2>1
<1> QED BY <1>1, <1>2, <1>3, <1>4, <1>5 DEF Serial

\* After SIGTERM run() has a bounded way to its end, whatever its clients and the serial
\* line do: each step of the only thread passes to a later stage, publishes a reading of the
\* batch, shortens manage() or begins one send; the end of that send shortens the way again.
\* What TermStops, which TLC checks, adds is that the thread is scheduled and that every
\* send returns (peibol.cpp:162-247, CServerSocket.cpp:253).
THEOREM SigtermEnds == Spec => StopsSoon
<1>1. SP!IInv /\ SInv /\ RunTypes /\ [Next]_vars => [Stopping]_vars
  <2> SUFFICES ASSUME SP!IInv, SInv, RunTypes, term, Next PROVE
                 /\ Thread \/ SendReturns => Nearer
                 /\ ~(Thread \/ SendReturns) =>
                      UNCHANGED <<proc, todo, connectedSockets, at, fdset, rc, dequeit>>
    BY DEF Stopping
  <2>1. ASSUME Thread, ~SendReturns PROVE Nearer
    <3>1. ~SendFails
      BY <2>1 DEF SendFails, SendReturns
    <3> QED BY <2>1, <3>1, NoWayBack, ManageNearer, RunNearer DEF Thread
  <2>2. ASSUME ~Thread, ~SendReturns
        PROVE  UNCHANGED <<proc, todo, connectedSockets, at, fdset, rc, dequeit>>
    <3>1. CASE Sigterm \/ ClientReads \/ Tick \/ HangUp \/ Ended
      BY <2>2, <3>1, OutsideSteps DEF sockVars
    <3>2. CASE Clients
      BY <3>2 DEF Clients, Sock!ClientStep, Sock!Connect, Sock!Submit, Sock!Finish,
                  Sock!Reset, Sock!manageVars
    <3> QED BY <2>2, <3>1, <3>2 DEF Next
  <2> QED BY <2>1, <2>2, SendNearer
<1> QED BY <1>1, SocketInvariant, RunInvariant, SetUpInvariant, PTL DEF Spec, StopsSoon
===============================================================================
