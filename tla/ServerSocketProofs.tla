-------------------------- MODULE ServerSocketProofs --------------------------
(***************************************************************************)
(* Theorems about ServerSocket for any number of clients and descriptors.  *)
(***************************************************************************)
EXTENDS ServerSocket, SequenceTheorems, FiniteSetTheorems, TLAPS

(***************************************************************************)
(* RemoveAt, the deque's erase().                                          *)
(***************************************************************************)

\* What erase() of position i leaves: one element less, those before i in place,
\* those behind i one position to the front.
LEMMA RemoveAtProperties ==
  ASSUME NEW S, NEW s \in Seq(S), NEW i \in 1..Len(s)
  PROVE  /\ RemoveAt(s, i) \in Seq(S)
         /\ Len(RemoveAt(s, i)) = Len(s) - 1
         /\ \A j \in 1..Len(s) - 1 :
              RemoveAt(s, i)[j] = IF j < i THEN s[j] ELSE s[j + 1]
<1> DEFINE a == SubSeq(s, 1, i - 1)
           b == SubSeq(s, i + 1, Len(s))
<1>1. Len(s) \in Nat /\ \A j \in 1..Len(s) : s[j] \in S
  BY LenProperties, ElementOfSeq
<1>2. /\ a \in Seq(S) /\ Len(a) = i - 1
      /\ \A j \in 1..i - 1 : a[j] = s[j]
  <2>1. \A j \in 1..i - 1 : s[j] \in S
    BY <1>1
  <2>2. 1 \in Int /\ i - 1 \in Int
    BY <1>1
  <2>3. /\ a \in Seq(S) /\ Len(a) = IF 1 <= i - 1 THEN i - 1 - 1 + 1 ELSE 0
        /\ \A j \in 1..i - 1 - 1 + 1 : a[j] = s[1 + j - 1]
    BY <2>1, <2>2, SubSeqProperties
  <2> QED BY <2>3, <1>1
<1>3. /\ b \in Seq(S) /\ Len(b) = Len(s) - i
      /\ \A j \in 1..Len(s) - i : b[j] = s[i + j]
  <2>1. \A j \in i + 1..Len(s) : s[j] \in S
    BY <1>1
  <2>2. i + 1 \in Int /\ Len(s) \in Int
    BY <1>1
  <2>3. /\ b \in Seq(S)
        /\ Len(b) = IF i + 1 <= Len(s) THEN Len(s) - (i + 1) + 1 ELSE 0
        /\ \A j \in 1..Len(s) - (i + 1) + 1 : b[j] = s[i + 1 + j - 1]
    BY <2>1, <2>2, SubSeqProperties
  <2>4. Len(b) = Len(s) - i
    BY <2>3, <1>1
  <2>5. ASSUME NEW j \in 1..Len(s) - i PROVE b[j] = s[i + j]
    <3>1. j \in 1..Len(s) - (i + 1) + 1 /\ i + 1 + j - 1 = i + j
      BY <1>1
    <3> QED BY <3>1, <2>3
  <2> QED BY <2>3, <2>4, <2>5
<1> HIDE DEF a, b
<1>4. /\ a \o b \in Seq(S)
      /\ Len(a \o b) = Len(a) + Len(b)
      /\ \A j \in 1..Len(a) + Len(b) :
           (a \o b)[j] = IF j <= Len(a) THEN a[j] ELSE b[j - Len(a)]
  BY <1>2, <1>3, ConcatProperties
<1>5. ASSUME NEW j \in 1..Len(s) - 1
      PROVE  (a \o b)[j] = IF j < i THEN s[j] ELSE s[j + 1]
  <2>1. j \in 1..Len(a) + Len(b) /\ (j <= Len(a) <=> j < i)
    BY <1>1, <1>2, <1>3
  <2>2. CASE j < i
    BY <2>1, <2>2, <1>2, <1>4, <1>1
  <2>3. CASE ~(j < i)
    <3>1. j - Len(a) \in 1..Len(s) - i /\ i + (j - Len(a)) = j + 1
      BY <2>3, <1>1, <1>2
    <3> QED BY <2>1, <2>3, <3>1, <1>3, <1>4
  <2> QED BY <2>2, <2>3
<1>6. Len(a \o b) = Len(s) - 1
  BY <1>2, <1>3, <1>4, <1>1
<1> QED BY <1>4, <1>5, <1>6 DEF RemoveAt, a, b

\* erase() of an element of a deque without repetitions removes that element only.
LEMMA RemoveAtOfDistinct ==
  ASSUME NEW S, NEW s \in Seq(S), NEW i \in 1..Len(s),
         \A j, k \in 1..Len(s) : s[j] = s[k] => j = k
  PROVE  /\ ToSet(RemoveAt(s, i)) = ToSet(s) \ {s[i]}
         /\ \A j, k \in 1..Len(RemoveAt(s, i)) :
              RemoveAt(s, i)[j] = RemoveAt(s, i)[k] => j = k
<1> DEFINE r == RemoveAt(s, i)
<1>1. /\ Len(s) \in Nat /\ DOMAIN s = 1..Len(s)
      /\ r \in Seq(S) /\ Len(r) = Len(s) - 1
      /\ \A j \in 1..Len(s) - 1 : r[j] = IF j < i THEN s[j] ELSE s[j + 1]
  BY RemoveAtProperties, LenProperties
<1>2. DOMAIN r = 1..Len(s) - 1
  BY <1>1, LenProperties
<1> HIDE DEF r
<1>3. ASSUME NEW x \in ToSet(r) PROVE x \in ToSet(s) \ {s[i]}
  <2>1. PICK j \in 1..Len(s) - 1 : x = r[j]
    BY <1>2, <1>3 DEF ToSet
  <2>2. PICK k \in 1..Len(s) : k # i /\ x = s[k]
    <3>1. CASE j < i
      BY <3>1, <2>1, <1>1
    <3>2. CASE ~(j < i)
      <4>1. j + 1 \in 1..Len(s) /\ j + 1 # i /\ x = s[j + 1]
        BY <3>2, <2>1, <1>1
      <4> QED BY <4>1
    <3> QED BY <3>1, <3>2
  <2> QED BY <2>2, <1>1 DEF ToSet
<1>4. ASSUME NEW x \in ToSet(s) \ {s[i]} PROVE x \in ToSet(r)
  <2>1. PICK k \in 1..Len(s) : x = s[k] /\ k # i
    BY <1>1, <1>4 DEF ToSet
  <2>2. PICK j \in 1..Len(s) - 1 : x = r[j]
    <3>1. CASE k < i
      <4>1. k \in 1..Len(s) - 1 /\ r[k] = x
        BY <3>1, <2>1, <1>1
      <4> QED BY <4>1
    <3>2. CASE ~(k < i)
      <4>1. k - 1 \in 1..Len(s) - 1 /\ ~(k - 1 < i) /\ (k - 1) + 1 = k
        BY <3>2, <2>1, <1>1
      <4>2. r[k - 1] = x
        BY <4>1, <2>1, <1>1
      <4> QED BY <4>1, <4>2
    <3> QED BY <3>1, <3>2
  <2> QED BY <2>2, <1>2 DEF ToSet
<1>5. ASSUME NEW j \in 1..Len(r), NEW k \in 1..Len(r), r[j] = r[k]
      PROVE  j = k
  <2> DEFINE p(n) == IF n < i THEN n ELSE n + 1
  <2>1. p(j) \in 1..Len(s) /\ p(k) \in 1..Len(s)
    BY <1>1
  <2>2. r[j] = s[p(j)] /\ r[k] = s[p(k)]
    BY <1>1
  <2>3. p(j) = p(k)
    BY <2>1, <2>2, <1>5
  <2> QED BY <2>3, <1>1
<1>6. ToSet(r) = ToSet(s) \ {s[i]}
  BY <1>3, <1>4
<1> QED BY <1>5, <1>6 DEF r

(***************************************************************************)
(* Type correctness.                                                       *)
(***************************************************************************)

\* select() reports finitely many of the descriptors it was given.
LEMMA SelectedType ==
  ASSUME TypeOK
  PROVE  /\ Selected \subseteq ClientFds \union {ListenSocket}
         /\ Cardinality(Selected) \in Nat
<1>1. ToSet(connectedSockets) \subseteq ClientFds
  BY ElementOfSeq, LenProperties DEF TypeOK, ToSet
<1>2. Selected \subseteq ClientFds \union {ListenSocket}
  BY <1>1 DEF Selected
<1>3. IsFiniteSet(ClientFds \union {ListenSocket})
  BY FdsAssumption, FS_AddElement
<1>4. IsFiniteSet(Selected)
  BY <1>2, <1>3, FS_Subset
<1> QED BY <1>2, <1>4, FS_CardinalityType

\* close() keeps the kernel's tables well typed.
LEMMA CloseFdsType ==
  ASSUME TypeOK, NEW fds, CloseFds(fds)
  PROVE  /\ peer' \in [ClientFds -> Conns \union {NoConn}]
         /\ inbox' \in [Conns -> Seq(Msgs)]
         /\ link' \in [Conns -> LinkStates]
<1> DEFINE owners == {peer[fd] : fd \in fds \intersect OpenFds}
<1>1. /\ peer' = [fd \in ClientFds |-> IF fd \in fds THEN NoConn ELSE peer[fd]]
      /\ link' = [c \in Conns |-> IF c \in owners THEN "none" ELSE link[c]]
      /\ inbox' = [c \in Conns |-> IF c \in owners THEN <<>> ELSE inbox[c]]
  BY DEF CloseFds
<1> HIDE DEF owners
<1>2. <<>> \in Seq(Msgs)
  BY EmptySeq
<1> QED BY <1>1, <1>2 DEF TypeOK, LinkStates

\* A marked position of the deque holds the descriptor of a client.
LEMMA OnMarkedType ==
  ASSUME TypeOK, OnMarked
  PROVE  /\ dequeit \in 1..Len(connectedSockets)
         /\ Current \in ClientFds
         /\ Current \in fdset
         /\ Len(connectedSockets) \in Nat
  BY ElementOfSeq, LenProperties DEF TypeOK, OnMarked, Current

\* The constructor leaves everything well typed.
LEMMA TypeOKInit == Init => TypeOK
<1> SUFFICES ASSUME Init PROVE TypeOK
  OBVIOUS
<1>1. /\ <<>> \in Seq(ClientFds) /\ <<>> \in Seq(Conns) /\ <<>> \in Seq(Msgs)
      /\ Len(<<>>) = 0
  BY EmptySeq
<1>2. inbox \in [Conns -> Seq(Msgs)] /\ peer \in [ClientFds -> Conns \union {NoConn}]
  BY <1>1 DEF Init
<1>3. link \in [Conns -> LinkStates]
  BY DEF Init, LinkStates
<1>4. /\ connectedSockets \in Seq(ClientFds) /\ backlog \in Seq(Conns)
      /\ acceptActive \in BOOLEAN /\ at = "app" /\ fdset = {} /\ rc = 0 /\ dequeit = 0
  BY <1>1 DEF Init
<1> QED BY <1>2, <1>3, <1>4 DEF TypeOK

\* Every step of manage(), of the public methods, of the clients and of the network
\* keeps the types.
LEMMA TypeOKStep == TypeOK /\ [Next]_vars => TypeOK'
<1> SUFFICES ASSUME TypeOK, [Next]_vars PROVE TypeOK'
  OBVIOUS
<1> USE DEF kernelVars, manageVars
<1>0. /\ Len(connectedSockets) \in Nat
      /\ <<>> \in Seq(ClientFds) /\ <<>> \in Seq(Conns) /\ <<>> \in Seq(Msgs)
      /\ Len(<<>>) = 0
  BY LenProperties, EmptySeq DEF TypeOK
<1>1. CASE ManageSelect
  BY <1>1, SelectedType DEF TypeOK, ManageSelect
<1>2. CASE EndManage
  BY <1>2, <1>0 DEF TypeOK, EndManage, Return
<1>3. CASE RoundWithoutAccept
  BY <1>3, <1>0 DEF TypeOK, RoundWithoutAccept, StartScan
<1>4. CASE AcceptConnection
  <2>1. PICK fd \in ClientFds :
           /\ connectedSockets' = Append(connectedSockets, fd)
           /\ peer' = [peer EXCEPT ![fd] = Head(backlog)]
    BY <1>4 DEF AcceptConnection
  <2>2. Tail(backlog) \in Seq(Conns) /\ Head(backlog) \in Conns
    BY <1>4, HeadTailProperties DEF TypeOK, AcceptConnection, CanAccept
  <2>3. /\ connectedSockets' \in Seq(ClientFds)
        /\ Len(connectedSockets') = Len(connectedSockets) + 1
    BY <2>1, AppendProperties DEF TypeOK
  <2>4. peer' \in [ClientFds -> Conns \union {NoConn}]
    BY <2>1, <2>2 DEF TypeOK
  <2> QED BY <1>4, <1>0, <2>2, <2>3, <2>4 DEF TypeOK, AcceptConnection, StartScan
<1>5. CASE RejectConnection
  <2>1. Tail(backlog) \in Seq(Conns) /\ Head(backlog) \in Conns
    BY <1>5, HeadTailProperties DEF TypeOK, RejectConnection, CanAccept
  <2> QED BY <1>5, <1>0, <2>1 DEF TypeOK, RejectConnection, StartScan, LinkStates
<1>6. CASE AcceptFails
  BY <1>6, <1>0 DEF TypeOK, AcceptFails, Return
<1>7. CASE ScanEnd
  BY <1>7, <1>0 DEF TypeOK, ScanEnd
<1>8. CASE ScanSkip
  BY <1>8, <1>0 DEF TypeOK, ScanSkip
<1>9. ASSUME NEW n \in 1..MaxInbox, ReadData(n) PROVE TypeOK'
  <2> DEFINE q == inbox[CurrentConn]
  <2>1. ASSUME CurrentConn \in Conns
        PROVE  SubSeq(q, n + 1, Len(q)) \in Seq(Msgs)
    <3>1. q \in Seq(Msgs) /\ Len(q) \in Int /\ n + 1 \in 1..Len(q) + 1
      BY <1>9, <2>1, LenProperties DEF TypeOK, ReadData
    <3>2. \A i \in n + 1..Len(q) : q[i] \in Msgs
      BY <3>1, ElementOfSeq
    <3> QED BY <3>1, <3>2, SubSeqProperties
  <2>2. inbox' = [inbox EXCEPT ![CurrentConn] = SubSeq(q, n + 1, Len(q))]
    BY <1>9 DEF ReadData
  <2>3. inbox' \in [Conns -> Seq(Msgs)]
    BY <2>1, <2>2 DEF TypeOK
  <2> QED BY <1>9, <2>3 DEF TypeOK, ReadData
<1>10. CASE ReadDataSendFails
  <2>1. OnMarked /\ CloseFds({Current})
    BY <1>10 DEF ReadDataSendFails
  <2>2. dequeit \in 1..Len(connectedSockets)
    BY <2>1, OnMarkedType
  <2>3. /\ connectedSockets' \in Seq(ClientFds)
        /\ Len(connectedSockets') = Len(connectedSockets) - 1
    BY <1>10, <2>2, RemoveAtProperties DEF TypeOK, ReadDataSendFails
  <2>4. dequeit' \in 0..Len(connectedSockets') + 1
    BY <1>10, <1>0, <2>2, <2>3 DEF ReadDataSendFails, IteratorAfterErase
  <2>5. /\ peer' \in [ClientFds -> Conns \union {NoConn}]
        /\ inbox' \in [Conns -> Seq(Msgs)]
        /\ link' \in [Conns -> LinkStates]
    BY <2>1, CloseFdsType
  <2> QED BY <1>10, <2>3, <2>4, <2>5 DEF TypeOK, ReadDataSendFails, OnMarked
<1>11. CASE ReadError
  BY <1>11, OnMarkedType DEF TypeOK, ReadError, LinkStates
<1>12. CASE ReadClosed
  <2>1. OnMarked /\ CloseFds({Current})
    BY <1>12 DEF ReadClosed
  <2>2. dequeit \in 1..Len(connectedSockets)
    BY <2>1, OnMarkedType
  <2>3. /\ connectedSockets' \in Seq(ClientFds)
        /\ Len(connectedSockets') = Len(connectedSockets) - 1
    BY <1>12, <2>2, RemoveAtProperties DEF TypeOK, ReadClosed
  <2>4. dequeit' \in 0..Len(connectedSockets') + 1
    BY <1>12, <1>0, <2>2, <2>3 DEF ReadClosed
  <2>5. /\ peer' \in [ClientFds -> Conns \union {NoConn}]
        /\ inbox' \in [Conns -> Seq(Msgs)]
        /\ link' \in [Conns -> LinkStates]
    BY <2>1, CloseFdsType
  <2> QED BY <1>12, <2>3, <2>4, <2>5 DEF TypeOK, ReadClosed
<1>13. ASSUME NEW fd \in ClientFds, RemoveConnection(fd) PROVE TypeOK'
  <2>1. CloseFds({fd}) /\ connectedSockets' \in Seq(ClientFds)
    BY <1>13, <1>0, RemoveAtProperties DEF TypeOK, RemoveConnection
  <2> QED BY <1>13, <1>0, <2>1, CloseFdsType DEF TypeOK, RemoveConnection
<1>14. CASE RemoveAllConnections
  BY <1>14, <1>0, CloseFdsType DEF TypeOK, RemoveAllConnections
<1>15. CASE ActivateAccept \/ DeactivateAccept
  BY <1>15 DEF TypeOK, ActivateAccept, DeactivateAccept, SetAccept
<1>16. CASE Delete
  BY <1>16, <1>0 DEF TypeOK, Delete, LinkStates
<1>17. ASSUME NEW c \in Conns, Connect(c) PROVE TypeOK'
  BY <1>17, AppendProperties DEF TypeOK, Connect, LinkStates
<1>18. ASSUME NEW c \in Conns, NEW m \in Msgs, Submit(c, m) PROVE TypeOK'
  BY <1>18, AppendProperties DEF TypeOK, Submit
<1>19. ASSUME NEW c \in Conns, Finish(c) \/ Reset(c) PROVE TypeOK'
  BY <1>19 DEF TypeOK, Finish, Reset, LinkStates
<1>20. CASE UNCHANGED vars
  BY <1>20 DEF TypeOK, vars
<1> QED BY <1>1, <1>2, <1>3, <1>4, <1>5, <1>6, <1>7, <1>8, <1>9, <1>10, <1>11,
           <1>12, <1>13, <1>14, <1>15, <1>16, <1>17, <1>18, <1>19, <1>20
        DEF Next, ManageStep, AcceptStep, ReadStep, AppStep, ClientStep, Deleted,
            SendBytesFails

\* The deque, the iterator (never beyond end() nor more than one slot before
\* begin()) and the kernel's tables keep their types, for any number of clients.
THEOREM TypeCorrect == Spec => []TypeOK
<1>1. Init => TypeOK
  BY TypeOKInit
<1>2. TypeOK /\ [Next]_vars => TypeOK'
  BY TypeOKStep
<1> QED BY <1>1, <1>2, PTL DEF Spec

(***************************************************************************)
(* The inductive invariant.  Registered is not inductive alone: that an    *)
(* erased descriptor is the only one of its owner needs Owned, and that    *)
(* the accept queue is not empty where manage() accepts needs Marked.      *)
(***************************************************************************)

\* A client owns at most one descriptor, is not in the accept queue while it owns
\* one nor twice in it, and is connected in both cases.
Owned ==
  /\ \A f, g \in OpenFds : peer[f] = peer[g] => f = g
  /\ \A f \in OpenFds : link[peer[f]] # "none" /\ peer[f] \notin ToSet(backlog)
  /\ \A i, j \in 1..Len(backlog) : backlog[i] = backlog[j] => i = j
  /\ \A c \in ToSet(backlog) : link[c] # "none"

\* The bits of the set are those of listed descriptors still to be served.
Marked ==
  /\ fdset \subseteq ToSet(connectedSockets) \union {ListenSocket}
  /\ at \notin {"round", "scan"} => fdset = {}
  /\ at = "scan" => ListenSocket \notin fdset
  /\ RecvNeverBlocks
  /\ NothingSkipped

\* The inductive invariant.
IInv == TypeOK /\ Registered /\ Owned /\ Marked

\* close() ends the ownership of the descriptors given and leaves the others, their
\* owners and what those can still read as they are.
LEMMA CloseFdsOthers ==
  ASSUME TypeOK, Owned, NEW fds, CloseFds(fds), backlog' = backlog
  PROVE  /\ OpenFds' = OpenFds \ fds
         /\ \A f \in OpenFds \ fds : /\ peer'[f] = peer[f]
                                    /\ link'[peer[f]] = link[peer[f]]
                                    /\ inbox'[peer[f]] = inbox[peer[f]]
         /\ \A c \in ToSet(backlog) : link'[c] = link[c]
<1> DEFINE owners == {peer[f] : f \in fds \intersect OpenFds}
<1>1. /\ peer' = [f \in ClientFds |-> IF f \in fds THEN NoConn ELSE peer[f]]
      /\ link' = [c \in Conns |-> IF c \in owners THEN "none" ELSE link[c]]
      /\ inbox' = [c \in Conns |-> IF c \in owners THEN <<>> ELSE inbox[c]]
  BY DEF CloseFds
<1>2. OpenFds' = OpenFds \ fds
  BY <1>1 DEF OpenFds
<1>3. ASSUME NEW f \in OpenFds \ fds PROVE peer[f] \in Conns /\ peer[f] \notin owners
  BY <1>3 DEF Owned, OpenFds, TypeOK
<1>4. ASSUME NEW c \in ToSet(backlog) PROVE c \in Conns /\ c \notin owners
  <2>1. c \in Conns
    BY <1>4, ElementOfSeq, LenProperties DEF ToSet, TypeOK
  <2> QED BY <2>1, <1>4 DEF Owned
<1> HIDE DEF owners
<1>5. \A f \in OpenFds \ fds : /\ peer'[f] = peer[f]
                              /\ link'[peer[f]] = link[peer[f]]
                              /\ inbox'[peer[f]] = inbox[peer[f]]
  BY <1>1, <1>3 DEF OpenFds
<1>6. \A c \in ToSet(backlog) : link'[c] = link[c]
  BY <1>1, <1>4
<1> QED BY <1>2, <1>5, <1>6

\* Closing descriptors keeps the ownership part, and what was readable elsewhere.
LEMMA CloseFdsOwned ==
  ASSUME TypeOK, Owned, NEW fds, CloseFds(fds), backlog' = backlog
  PROVE  /\ Owned'
         /\ \A f \in ClientFds \ fds : Ready(f) => Ready(f)'
<1>1. /\ OpenFds' = OpenFds \ fds
      /\ \A f \in OpenFds \ fds : /\ peer'[f] = peer[f]
                                 /\ link'[peer[f]] = link[peer[f]]
                                 /\ inbox'[peer[f]] = inbox[peer[f]]
      /\ \A c \in ToSet(backlog) : link'[c] = link[c]
  BY CloseFdsOthers
<1>2. Owned'
  BY <1>1 DEF Owned
<1>3. ASSUME NEW f \in ClientFds \ fds, Ready(f) PROVE Ready(f)'
  <2>1. f # ListenSocket
    BY FdsAssumption
  <2>2. f \in OpenFds \ fds
    BY <1>3, <2>1 DEF Ready
  <2> QED BY <1>1, <1>3, <2>1, <2>2 DEF Ready
<1> QED BY <1>2, <1>3

\* Erasing a listed descriptor and closing it keeps the deque in step with the
\* descriptor table.
LEMMA EraseRegistered ==
  ASSUME TypeOK, Registered, Owned, NEW i \in 1..Len(connectedSockets),
         CloseFds({connectedSockets[i]}), backlog' = backlog,
         connectedSockets' = RemoveAt(connectedSockets, i)
  PROVE  /\ Registered'
         /\ ToSet(connectedSockets') = ToSet(connectedSockets) \ {connectedSockets[i]}
<1>1. OpenFds' = OpenFds \ {connectedSockets[i]}
  BY CloseFdsOthers
<1>2. /\ ToSet(connectedSockets') = ToSet(connectedSockets) \ {connectedSockets[i]}
      /\ \A j, k \in 1..Len(connectedSockets') :
            connectedSockets'[j] = connectedSockets'[k] => j = k
  BY RemoveAtOfDistinct DEF TypeOK, Registered
<1> QED BY <1>1, <1>2 DEF Registered

\* The two erasures of the scan happen at the iterator.
LEMMA ScanErase ==
  ASSUME TypeOK, ReadDataSendFails \/ ReadClosed
  PROVE  /\ dequeit \in 1..Len(connectedSockets) /\ Current \in fdset
         /\ CloseFds({Current}) /\ backlog' = backlog /\ at' = at /\ at = "scan"
         /\ connectedSockets' = RemoveAt(connectedSockets, dequeit)
         /\ fdset' = fdset \ {Current}
         /\ dequeit' \in {dequeit - 1, dequeit}
<1>1. OnMarked
  BY DEF ReadDataSendFails, ReadClosed
<1> QED BY <1>1, OnMarkedType
        DEF ReadDataSendFails, ReadClosed, IteratorAfterErase, OnMarked, Current

\* Every accept, close and erasure keeps deque and descriptor table in step.
LEMMA RegisteredStep == IInv /\ [Next]_vars => Registered'
<1> SUFFICES ASSUME IInv, [Next]_vars PROVE Registered'
  OBVIOUS
<1> USE DEF IInv, kernelVars, manageVars
<1>1. CASE UNCHANGED <<connectedSockets, peer>>
  BY <1>1 DEF Registered, OpenFds
<1>2. CASE AcceptConnection
  <2>1. PICK fd \in FreeFds :
           /\ connectedSockets' = Append(connectedSockets, fd)
           /\ peer' = [peer EXCEPT ![fd] = Head(backlog)]
    BY <1>2 DEF AcceptConnection, LowestFree
  <2>2. Head(backlog) \in Conns
    BY <1>2, HeadTailProperties DEF TypeOK, AcceptConnection, CanAccept
  <2>3. OpenFds' = OpenFds \union {fd} /\ fd \notin OpenFds /\ fd \in ClientFds
    BY <2>1, <2>2, ConnsAssumption DEF FreeFds, OpenFds, TypeOK
  <2>4. /\ Len(connectedSockets) \in Nat
        /\ connectedSockets' \in Seq(ClientFds)
        /\ Len(connectedSockets') = Len(connectedSockets) + 1
        /\ connectedSockets'[Len(connectedSockets) + 1] = fd
        /\ \A i \in 1..Len(connectedSockets) :
              connectedSockets'[i] = connectedSockets[i]
    BY <2>1, <2>3, AppendProperties, LenProperties DEF TypeOK
  <2>5. /\ DOMAIN connectedSockets = 1..Len(connectedSockets)
        /\ DOMAIN connectedSockets' = 1..Len(connectedSockets) + 1
    BY <2>4, LenProperties DEF TypeOK
  <2>6. ToSet(connectedSockets') = ToSet(connectedSockets) \union {fd}
    BY <2>4, <2>5 DEF ToSet
  <2>7. \A i \in 1..Len(connectedSockets) : connectedSockets[i] # fd
    BY <2>3, <2>5 DEF Registered, ToSet
  <2>8. \A i, j \in 1..Len(connectedSockets') :
           connectedSockets'[i] = connectedSockets'[j] => i = j
    BY <2>4, <2>7 DEF Registered
  <2> QED BY <2>3, <2>6, <2>8 DEF Registered
<1>3. CASE ReadDataSendFails \/ ReadClosed
  BY <1>3, ScanErase, EraseRegistered DEF Current
<1>4. ASSUME NEW fd \in ClientFds, RemoveConnection(fd) PROVE Registered'
  BY <1>4, EraseRegistered DEF RemoveConnection
<1>5. CASE RemoveAllConnections
  <2>1. CloseFds(ToSet(connectedSockets)) /\ backlog' = backlog /\ connectedSockets' = <<>>
    BY <1>5 DEF RemoveAllConnections
  <2>2. OpenFds' = {}
    BY <2>1, CloseFdsOthers DEF Registered
  <2> QED BY <2>1, <2>2 DEF Registered, ToSet
<1>6. CASE Delete
  <2>1. OpenFds' = {}
    BY <1>6 DEF Delete, OpenFds, Registered
  <2> QED BY <1>6, <2>1 DEF Delete, Registered, ToSet
<1>7. CASE ManageSelect \/ EndManage \/ RoundWithoutAccept \/ RejectConnection
           \/ AcceptFails \/ ScanEnd \/ ScanSkip
  BY <1>1, <1>7 DEF ManageSelect, EndManage, RoundWithoutAccept, RejectConnection,
                    AcceptFails, ScanEnd, ScanSkip
<1>8. CASE ReadError \/ \E n \in 1..MaxInbox : ReadData(n)
  BY <1>1, <1>8 DEF ReadData, ReadError
<1>9. CASE ActivateAccept \/ DeactivateAccept
  BY <1>1, <1>9 DEF ActivateAccept, DeactivateAccept, SetAccept
<1>10. CASE ClientStep
  BY <1>1, <1>10 DEF ClientStep, Connect, Submit, Finish, Reset
<1>11. CASE UNCHANGED vars
  BY <1>1, <1>11 DEF vars
<1> QED BY <1>2, <1>3, <1>4, <1>5, <1>6, <1>7, <1>8, <1>9, <1>10, <1>11
        DEF Next, ManageStep, AcceptStep, ReadStep, AppStep, Deleted, SendBytesFails

\* Taking the first of a queue without repetitions.
LEMMA TailOfDistinct ==
  ASSUME NEW S, NEW s \in Seq(S), s # <<>>,
         \A i, j \in 1..Len(s) : s[i] = s[j] => i = j
  PROVE  /\ Head(s) \in ToSet(s)
         /\ ToSet(Tail(s)) = ToSet(s) \ {Head(s)}
         /\ \A i, j \in 1..Len(Tail(s)) : Tail(s)[i] = Tail(s)[j] => i = j
<1>1. /\ Len(s) \in Nat \ {0} /\ DOMAIN s = 1..Len(s)
      /\ Tail(s) \in Seq(S) /\ Len(Tail(s)) = Len(s) - 1
      /\ \A i \in 1..Len(s) - 1 : Tail(s)[i] = s[i + 1]
  BY HeadTailProperties, LenProperties, EmptySeq
<1>2. Head(s) = s[1]
  BY <1>1
<1>3. DOMAIN Tail(s) = 1..Len(s) - 1
  BY <1>1, LenProperties
<1>4. \A i \in 1..Len(s) - 1 : i + 1 \in 1..Len(s) /\ i + 1 # 1
  BY <1>1
<1>5. \A k \in 1..Len(s) : k # 1 => k - 1 \in 1..Len(s) - 1 /\ (k - 1) + 1 = k
  BY <1>1
<1>6. ToSet(Tail(s)) \subseteq ToSet(s) \ {Head(s)}
  <2> SUFFICES ASSUME NEW i \in 1..Len(s) - 1
               PROVE  Tail(s)[i] \in ToSet(s) \ {Head(s)}
    BY <1>3 DEF ToSet
  <2>1. s[i + 1] # s[1] /\ i + 1 \in DOMAIN s
    BY <1>1, <1>4
  <2> QED BY <2>1, <1>1, <1>2 DEF ToSet
<1>7. ToSet(s) \ {Head(s)} \subseteq ToSet(Tail(s))
  <2> SUFFICES ASSUME NEW k \in 1..Len(s), k # 1
               PROVE  s[k] \in ToSet(Tail(s))
    BY <1>1, <1>2 DEF ToSet
  <2>1. k - 1 \in DOMAIN Tail(s) /\ Tail(s)[k - 1] = s[k]
    BY <1>1, <1>3, <1>5
  <2> QED BY <2>1 DEF ToSet
<1>8. Head(s) \in ToSet(s)
  BY <1>1, <1>2 DEF ToSet
<1>9. ASSUME NEW i \in 1..Len(Tail(s)), NEW j \in 1..Len(Tail(s)), Tail(s)[i] = Tail(s)[j]
      PROVE  i = j
  <2>1. s[i + 1] = s[j + 1] /\ i + 1 \in 1..Len(s) /\ j + 1 \in 1..Len(s)
    BY <1>1, <1>4, <1>9
  <2> QED BY <2>1, <1>1
<1> QED BY <1>6, <1>7, <1>8, <1>9

\* Adding a new last element to a queue without repetitions.
LEMMA AppendToDistinct ==
  ASSUME NEW S, NEW s \in Seq(S), NEW x \in S, x \notin ToSet(s),
         \A i, j \in 1..Len(s) : s[i] = s[j] => i = j
  PROVE  /\ ToSet(Append(s, x)) = ToSet(s) \union {x}
         /\ Append(s, x) # <<>>
         /\ \A i, j \in 1..Len(Append(s, x)) : Append(s, x)[i] = Append(s, x)[j] => i = j
<1>1. /\ Len(s) \in Nat /\ DOMAIN s = 1..Len(s)
      /\ Append(s, x) \in Seq(S) /\ Len(Append(s, x)) = Len(s) + 1
      /\ Append(s, x)[Len(s) + 1] = x
      /\ \A i \in 1..Len(s) : Append(s, x)[i] = s[i]
  BY AppendProperties, LenProperties
<1>2. DOMAIN Append(s, x) = 1..Len(s) + 1
  BY <1>1, LenProperties
<1>3. \A i \in 1..Len(s) : s[i] # x
  BY <1>1 DEF ToSet
<1> QED BY <1>1, <1>2, <1>3, EmptySeq DEF ToSet

\* No step gives a client a second descriptor or a second place in the accept queue.
LEMMA OwnedStep == IInv /\ [Next]_vars => Owned'
<1> SUFFICES ASSUME IInv, [Next]_vars PROVE Owned'
  OBVIOUS
<1> USE DEF IInv, kernelVars, manageVars
<1>0. /\ backlog \in Seq(Conns)
      /\ \A i, j \in 1..Len(backlog) : backlog[i] = backlog[j] => i = j
  BY DEF TypeOK, Owned
<1>1. CASE UNCHANGED <<peer, link, backlog>>
  BY <1>1 DEF Owned, OpenFds
<1>2. CASE AcceptConnection
  <2>1. PICK fd \in FreeFds : peer' = [peer EXCEPT ![fd] = Head(backlog)]
    BY <1>2 DEF AcceptConnection, LowestFree
  <2>2. /\ backlog # <<>> /\ backlog' = Tail(backlog) /\ link' = link
        /\ Head(backlog) \in Conns
    BY <1>2, HeadTailProperties DEF TypeOK, AcceptConnection, CanAccept
  <2>3. /\ Head(backlog) \in ToSet(backlog)
        /\ ToSet(backlog') = ToSet(backlog) \ {Head(backlog)}
        /\ \A i, j \in 1..Len(backlog') : backlog'[i] = backlog'[j] => i = j
    BY <1>0, <2>2, TailOfDistinct
  <2>4. /\ OpenFds' = OpenFds \union {fd}
        /\ peer'[fd] = Head(backlog)
        /\ \A f \in OpenFds : peer'[f] = peer[f]
    BY <2>1, <2>2, ConnsAssumption DEF FreeFds, OpenFds, TypeOK
  <2> QED BY <2>2, <2>3, <2>4 DEF Owned
<1>3. CASE RejectConnection
  <2>1. /\ backlog # <<>> /\ backlog' = Tail(backlog) /\ peer' = peer
        /\ Head(backlog) \in Conns
        /\ link' = [link EXCEPT ![Head(backlog)] = "none"]
    BY <1>3, HeadTailProperties DEF TypeOK, RejectConnection, CanAccept
  <2>2. /\ Head(backlog) \in ToSet(backlog)
        /\ ToSet(backlog') = ToSet(backlog) \ {Head(backlog)}
        /\ \A i, j \in 1..Len(backlog') : backlog'[i] = backlog'[j] => i = j
    BY <1>0, <2>1, TailOfDistinct
  <2>3. \A c \in Conns : c # Head(backlog) => link'[c] = link[c]
    BY <2>1 DEF TypeOK
  <2>4. OpenFds' = OpenFds /\ \A f \in OpenFds : peer[f] \in Conns
    BY <2>1 DEF OpenFds, TypeOK
  <2>5. ToSet(backlog) \subseteq Conns
    BY ElementOfSeq, LenProperties DEF ToSet, TypeOK
  <2> QED BY <2>1, <2>2, <2>3, <2>4, <2>5 DEF Owned
<1>4. CASE ReadDataSendFails \/ ReadClosed
  BY <1>4, ScanErase, CloseFdsOwned
<1>5. ASSUME NEW fd \in ClientFds, RemoveConnection(fd) PROVE Owned'
  BY <1>5, CloseFdsOwned DEF RemoveConnection
<1>6. CASE RemoveAllConnections
  BY <1>6, CloseFdsOwned DEF RemoveAllConnections
<1>7. CASE Delete
  <2>1. OpenFds' = {} /\ backlog' = <<>>
    BY <1>7 DEF Delete, OpenFds, Registered
  <2> QED BY <2>1 DEF Owned, ToSet
<1>8. ASSUME NEW c \in Conns, Connect(c) PROVE Owned'
  <2>1. /\ link[c] = "none" /\ peer' = peer /\ backlog' = Append(backlog, c)
        /\ link' = [link EXCEPT ![c] = "up"]
    BY <1>8 DEF Connect
  <2>2. c \notin ToSet(backlog) /\ \A f \in OpenFds : peer[f] # c
    BY <2>1 DEF Owned
  <2>3. /\ ToSet(backlog') = ToSet(backlog) \union {c}
        /\ \A i, j \in 1..Len(backlog') : backlog'[i] = backlog'[j] => i = j
    BY <1>0, <2>1, <2>2, AppendToDistinct
  <2>4. link'[c] = "up" /\ \A d \in Conns : d # c => link'[d] = link[d]
    BY <2>1 DEF TypeOK
  <2>5. ToSet(backlog) \subseteq Conns
    BY ElementOfSeq, LenProperties DEF ToSet, TypeOK
  <2>6. OpenFds' = OpenFds /\ \A f \in OpenFds : peer[f] \in Conns
    BY <2>1 DEF OpenFds, TypeOK
  <2> QED BY <2>1, <2>2, <2>3, <2>4, <2>5, <2>6 DEF Owned
<1>9. CASE ReadError \/ \E c \in Conns : Finish(c) \/ Reset(c)
  <2>1. peer' = peer /\ backlog' = backlog
    BY <1>9 DEF ReadError, Finish, Reset
  <2>2. \A c \in Conns : link[c] # "none" => link'[c] # "none"
    BY <1>9 DEF ReadError, Finish, Reset, TypeOK
  <2>3. ToSet(backlog) \subseteq Conns
    BY ElementOfSeq, LenProperties DEF ToSet, TypeOK
  <2>4. OpenFds' = OpenFds /\ \A f \in OpenFds : peer[f] \in Conns
    BY <2>1 DEF OpenFds, TypeOK
  <2> QED BY <2>1, <2>2, <2>3, <2>4 DEF Owned
<1>10. CASE ManageSelect \/ EndManage \/ RoundWithoutAccept \/ AcceptFails
            \/ ScanEnd \/ ScanSkip \/ \E n \in 1..MaxInbox : ReadData(n)
  BY <1>1, <1>10 DEF ManageSelect, EndManage, RoundWithoutAccept, AcceptFails,
                     ScanEnd, ScanSkip, ReadData
<1>11. CASE ActivateAccept \/ DeactivateAccept
  BY <1>1, <1>11 DEF ActivateAccept, DeactivateAccept, SetAccept
<1>12. CASE \E c \in Conns, m \in Msgs : Submit(c, m)
  BY <1>1, <1>12 DEF Submit
<1>13. CASE UNCHANGED vars
  BY <1>1, <1>13 DEF vars
<1> QED BY <1>2, <1>3, <1>4, <1>5, <1>6, <1>7, <1>8, <1>9, <1>10, <1>11, <1>12, <1>13
        DEF Next, ManageStep, AcceptStep, ReadStep, AppStep, ClientStep, Deleted,
            SendBytesFails

\* Between two calls of manage() nothing is marked, so what the application and a
\* return from manage() do cannot disturb the marks.
LEMMA MarkedOutsideManage ==
  ASSUME at' \in {"app", "deleted"}, fdset' = {}
  PROVE  Marked'
  BY DEF Marked, RecvNeverBlocks, NothingSkipped

\* Within manage(), a step that leaves the manage variables and the deque alone
\* keeps the marks if what was readable stays so.
LEMMA MarkedSameScan ==
  ASSUME Marked, UNCHANGED <<connectedSockets, at, fdset, dequeit>>,
         \A f \in fdset : Ready(f) => Ready(f)'
  PROVE  Marked'
  BY DEF Marked, RecvNeverBlocks, NothingSkipped

\* Every step leaves the bits still to be served readable and in reach of the scan.
LEMMA MarkedStep == IInv /\ [Next]_vars => Marked'
<1> SUFFICES ASSUME IInv, [Next]_vars PROVE Marked'
  OBVIOUS
<1> USE DEF IInv, kernelVars, manageVars
<1>0. /\ \A f \in fdset : f \in OpenFds \union {ListenSocket}
      /\ \A f \in OpenFds : f \in ClientFds /\ f # ListenSocket /\ peer[f] \in Conns
      /\ \A f \in fdset : f # ListenSocket => Ready(f) /\ f \in OpenFds
  BY FdsAssumption DEF Marked, Registered, RecvNeverBlocks, OpenFds, TypeOK
<1>1. CASE ManageSelect
  <2>1. /\ fdset' = Selected /\ at' = "round" /\ connectedSockets' = connectedSockets
        /\ UNCHANGED <<backlog, peer, inbox, link>>
    BY <1>1 DEF ManageSelect
  <2>2. \A f \in Selected : Ready(f)' /\ f \in ToSet(connectedSockets) \union {ListenSocket}
    BY <2>1 DEF Selected, Ready, OpenFds
  <2> QED BY <2>1, <2>2 DEF Marked, RecvNeverBlocks, NothingSkipped
<1>2. CASE EndManage \/ AcceptFails
  BY <1>2, MarkedOutsideManage DEF EndManage, AcceptFails, Return
<1>3. CASE RoundWithoutAccept
  <2>1. /\ fdset' = fdset /\ at' = "scan" /\ dequeit' = 1 /\ ListenSocket \notin fdset
        /\ UNCHANGED <<connectedSockets, backlog, peer, inbox, link>>
    BY <1>3 DEF RoundWithoutAccept, StartScan
  <2>2. \A f \in fdset : Ready(f)'
    BY <2>1, <1>0 DEF Ready, OpenFds
  <2> QED BY <2>1, <2>2 DEF Marked, RecvNeverBlocks, NothingSkipped
<1>4. CASE AcceptConnection
  <2>1. PICK fd \in FreeFds :
           /\ connectedSockets' = Append(connectedSockets, fd)
           /\ peer' = [peer EXCEPT ![fd] = Head(backlog)]
    BY <1>4 DEF AcceptConnection, LowestFree
  <2>2. /\ at' = "scan" /\ dequeit' = 1 /\ fdset' = fdset \ {ListenSocket}
        /\ inbox' = inbox /\ link' = link
    BY <1>4 DEF AcceptConnection, StartScan
  <2>3. fd \in ClientFds /\ fd \notin OpenFds
    BY DEF FreeFds
  <2>4. ToSet(connectedSockets') = ToSet(connectedSockets) \union {fd}
    <3>1. /\ connectedSockets \in Seq(ClientFds) /\ fd \notin ToSet(connectedSockets)
          /\ \A i, j \in 1..Len(connectedSockets) :
                connectedSockets[i] = connectedSockets[j] => i = j
      BY <2>3 DEF TypeOK, Registered
    <3> QED BY <2>1, <2>3, <3>1, AppendToDistinct
  <2>5. ASSUME NEW f \in fdset' PROVE Ready(f)' /\ f \in ToSet(connectedSockets)
    <3>1. f \in OpenFds /\ f # fd /\ f # ListenSocket /\ Ready(f)
      BY <1>0, <2>2, <2>3, <2>5
    <3>2. peer'[f] = peer[f] /\ f \in OpenFds'
      BY <3>1, <2>1 DEF OpenFds, TypeOK
    <3> QED BY <3>1, <3>2, <2>2 DEF Ready, Registered
  <2> QED BY <2>2, <2>4, <2>5 DEF Marked, RecvNeverBlocks, NothingSkipped
<1>5. CASE RejectConnection
  <2>1. /\ backlog # <<>>
        /\ link' = [link EXCEPT ![Head(backlog)] = "none"]
        /\ inbox' = [inbox EXCEPT ![Head(backlog)] = <<>>]
        /\ peer' = peer /\ connectedSockets' = connectedSockets
        /\ at' = "scan" /\ dequeit' = 1 /\ fdset' = fdset \ {ListenSocket}
    BY <1>5 DEF RejectConnection, CanAccept, StartScan
  <2>2. Head(backlog) \in ToSet(backlog)
    BY <2>1, TailOfDistinct DEF TypeOK, Owned
  <2>3. ASSUME NEW f \in fdset' PROVE Ready(f)' /\ f \in ToSet(connectedSockets)
    <3>1. f \in OpenFds /\ f # ListenSocket /\ Ready(f)
      BY <1>0, <2>1, <2>3
    <3>2. peer[f] # Head(backlog) /\ peer[f] \in Conns
      BY <3>1, <2>2, <1>0 DEF Owned
    <3>3. link'[peer[f]] = link[peer[f]] /\ inbox'[peer[f]] = inbox[peer[f]]
      BY <3>2, <2>1 DEF TypeOK
    <3> QED BY <3>1, <3>3, <2>1 DEF Ready, Registered, OpenFds
  <2> QED BY <2>1, <2>3 DEF Marked, RecvNeverBlocks, NothingSkipped
<1>6. CASE ScanEnd
  <2>1. /\ at = "scan" /\ at' = "round"
        /\ UNCHANGED <<connectedSockets, fdset, backlog, peer, inbox, link>>
    BY <1>6 DEF ScanEnd
  <2>2. \A f \in fdset : Ready(f)'
    BY <2>1 DEF Marked, RecvNeverBlocks, Ready, OpenFds
  <2> QED BY <2>1, <2>2 DEF Marked, RecvNeverBlocks, NothingSkipped
<1>7. CASE ScanSkip
  <2>1. /\ at = "scan" /\ (dequeit > 0 => Current \notin fdset) /\ dequeit' = dequeit + 1
        /\ UNCHANGED <<connectedSockets, at, fdset, backlog, peer, inbox, link>>
    BY <1>7 DEF ScanSkip
  <2>2. \A f \in fdset : Ready(f)'
    BY <2>1 DEF Marked, RecvNeverBlocks, Ready, OpenFds
  <2>3. dequeit \in Nat
    BY LenProperties DEF TypeOK
  <2>4. \A i \in 1..dequeit' - 1 : connectedSockets[i] \notin fdset
    BY <2>1, <2>3 DEF Marked, NothingSkipped, Current
  <2> QED BY <2>1, <2>2, <2>4 DEF Marked, RecvNeverBlocks, NothingSkipped
<1>8. ASSUME NEW n \in 1..MaxInbox, ReadData(n) PROVE Marked'
  <2>1. /\ OnMarked /\ fdset' = fdset \ {Current}
        /\ inbox' = [inbox EXCEPT ![CurrentConn] = SubSeq(@, n + 1, Len(@))]
        /\ UNCHANGED <<connectedSockets, at, dequeit, backlog, peer, link>>
    BY <1>8 DEF ReadData
  <2>2. ASSUME NEW f \in fdset' PROVE Ready(f)'
    <3>1. f \in OpenFds /\ f # ListenSocket /\ Ready(f) /\ f # Current
      BY <1>0, <2>1, <2>2 DEF Marked, OnMarked
    <3>2. peer[f] # CurrentConn /\ peer[f] \in Conns
      BY <3>1, <2>1, <1>0, OnMarkedType DEF Owned, CurrentConn, OnMarked, Marked
    <3>3. inbox'[peer[f]] = inbox[peer[f]]
      BY <3>2, <2>1 DEF TypeOK
    <3> QED BY <3>1, <3>3, <2>1 DEF Ready, OpenFds
  <2> QED BY <2>1, <2>2 DEF Marked, RecvNeverBlocks, NothingSkipped
<1>9. CASE ReadError
  <2>1. /\ OnMarked /\ fdset' = fdset \ {Current} /\ link[CurrentConn] = "rst"
        /\ link' = [link EXCEPT ![CurrentConn] = "dead"]
        /\ UNCHANGED <<connectedSockets, at, dequeit, backlog, peer, inbox>>
    BY <1>9 DEF ReadError
  <2>2. ASSUME NEW f \in fdset' PROVE Ready(f)'
    <3>1. f \in OpenFds /\ f # ListenSocket /\ Ready(f)
      BY <1>0, <2>1, <2>2 DEF Marked, OnMarked
    <3>2. link[peer[f]] # "up" => link'[peer[f]] # "up"
      BY <2>1, <3>1, <1>0 DEF TypeOK
    <3> QED BY <3>1, <3>2, <2>1 DEF Ready, OpenFds
  <2> QED BY <2>1, <2>2 DEF Marked, RecvNeverBlocks, NothingSkipped
<1>10. CASE ReadDataSendFails \/ ReadClosed
  <2>1. /\ dequeit \in 1..Len(connectedSockets) /\ Current \in fdset
        /\ CloseFds({Current}) /\ backlog' = backlog /\ at' = at /\ at = "scan"
        /\ connectedSockets' = RemoveAt(connectedSockets, dequeit)
        /\ fdset' = fdset \ {Current}
        /\ dequeit' \in {dequeit - 1, dequeit}
    BY <1>10, ScanErase
  <2>2. ToSet(connectedSockets') = ToSet(connectedSockets) \ {Current}
    BY <2>1, EraseRegistered DEF Current
  <2>3. \A f \in ClientFds \ {Current} : Ready(f) => Ready(f)'
    BY <2>1, CloseFdsOwned
  <2>4. \A f \in fdset' : Ready(f)' /\ f \in ToSet(connectedSockets')
    BY <1>0, <2>1, <2>2, <2>3 DEF Marked, Registered
  <2>5. ASSUME NEW i \in 1..dequeit' - 1 PROVE connectedSockets'[i] \notin fdset'
    <3> DEFINE len == Len(connectedSockets)
    <3>1. len \in Nat
      BY LenProperties DEF TypeOK
    <3>2. i \in 1..len - 1 /\ i < dequeit /\ i \in 1..dequeit - 1
      <4>1. dequeit \in 1..len /\ (dequeit' = dequeit - 1 \/ dequeit' = dequeit)
        BY <2>1
      <4> HIDE DEF len
      <4>2. CASE dequeit' = dequeit - 1
        BY <3>1, <4>1, <4>2
      <4>3. CASE dequeit' = dequeit
        BY <3>1, <4>1, <4>3
      <4> QED BY <4>1, <4>2, <4>3
    <3>3. connectedSockets'[i] = connectedSockets[i]
      BY <2>1, <3>2, RemoveAtProperties DEF TypeOK
    <3> QED BY <2>1, <3>2, <3>3 DEF Marked, NothingSkipped
  <2> QED BY <2>1, <2>4, <2>5 DEF Marked, RecvNeverBlocks, NothingSkipped
<1>11. CASE AppStep
  <2>1. at = "app" /\ at' \in {"app", "deleted"} /\ fdset' = fdset
    BY <1>11 DEF AppStep, RemoveConnection, SendBytesFails, RemoveAllConnections,
                 ActivateAccept, DeactivateAccept, SetAccept, Delete
  <2> QED BY <2>1, MarkedOutsideManage DEF Marked
<1>12. ASSUME NEW c \in Conns, Connect(c) PROVE Marked'
  <2>1. /\ link[c] = "none" /\ backlog' = Append(backlog, c)
        /\ link' = [link EXCEPT ![c] = "up"]
        /\ UNCHANGED <<connectedSockets, at, fdset, dequeit, peer, inbox>>
    BY <1>12 DEF Connect
  <2>2. backlog' # <<>>
    BY <2>1, AppendProperties, EmptySeq DEF TypeOK
  <2>3. \A f \in OpenFds : link'[peer[f]] = link[peer[f]]
    BY <2>1, <1>0 DEF Owned, TypeOK
  <2>4. \A f \in fdset : Ready(f) => Ready(f)'
    BY <2>1, <2>2, <2>3, <1>0 DEF Ready, OpenFds
  <2> QED BY <2>1, <2>4, MarkedSameScan
<1>13. ASSUME NEW c \in Conns, NEW m \in Msgs, Submit(c, m) PROVE Marked'
  <2>1. /\ inbox' = [inbox EXCEPT ![c] = Append(inbox[c], m)]
        /\ UNCHANGED <<connectedSockets, at, fdset, dequeit, peer, link, backlog>>
    BY <1>13 DEF Submit
  <2>2. Append(inbox[c], m) # <<>>
    <3>1. inbox[c] \in Seq(Msgs)
      BY DEF TypeOK
    <3>2. Len(Append(inbox[c], m)) = Len(inbox[c]) + 1 /\ Len(inbox[c]) \in Nat
      BY <3>1, AppendProperties, LenProperties
    <3>3. Len(<<>>) = 0
      BY EmptySeq
    <3>4. Len(Append(inbox[c], m)) # 0
      BY <3>2
    <3> QED BY <3>3, <3>4, Zenon
  <2>3. \A d \in Conns : inbox[d] # <<>> => inbox'[d] # <<>>
    BY <2>1, <2>2 DEF TypeOK
  <2>4. \A f \in fdset : Ready(f) => Ready(f)'
    BY <2>1, <2>3, <1>0 DEF Ready, OpenFds
  <2> QED BY <2>1, <2>4, MarkedSameScan
<1>14. ASSUME NEW c \in Conns, Finish(c) \/ Reset(c) PROVE Marked'
  <2>1. UNCHANGED <<connectedSockets, at, fdset, dequeit, peer, inbox, backlog>>
    BY <1>14 DEF Finish, Reset
  <2>2. \A d \in Conns : link[d] # "up" => link'[d] # "up"
    BY <1>14 DEF Finish, Reset, TypeOK
  <2>3. \A f \in fdset : Ready(f) => Ready(f)'
    BY <2>1, <2>2, <1>0 DEF Ready, OpenFds
  <2> QED BY <2>1, <2>3, MarkedSameScan
<1>15. CASE UNCHANGED vars
  <2>1. UNCHANGED <<connectedSockets, at, fdset, dequeit, peer, inbox, link, backlog>>
    BY <1>15 DEF vars
  <2>2. \A f \in fdset : Ready(f) => Ready(f)'
    BY <2>1 DEF Ready, OpenFds
  <2> QED BY <2>1, <2>2, MarkedSameScan
<1> QED BY <1>1, <1>2, <1>3, <1>4, <1>5, <1>6, <1>7, <1>8, <1>9, <1>10, <1>11,
           <1>12, <1>13, <1>14, <1>15
        DEF Next, ManageStep, AcceptStep, ReadStep, ClientStep, Deleted

\* The constructor establishes the invariant.
LEMMA IInvInit == Init => IInv
<1> SUFFICES ASSUME Init PROVE IInv
  OBVIOUS
<1>1. OpenFds = {} /\ ToSet(connectedSockets) = {} /\ ToSet(backlog) = {}
  BY DEF Init, OpenFds, ToSet
<1>2. Registered /\ Owned
  BY <1>1 DEF Init, Registered, Owned
<1>3. Marked
  BY DEF Init, Marked, RecvNeverBlocks, NothingSkipped
<1> QED BY <1>2, <1>3, TypeOKInit DEF IInv

\* Every step preserves it.
LEMMA IInvStep == IInv /\ [Next]_vars => IInv'
  BY TypeOKStep, RegisteredStep, OwnedStep, MarkedStep DEF IInv

\* The invariant every step of the server and of its environment preserves.
THEOREM Inductive == Spec => []IInv
  BY IInvInit, IInvStep, PTL DEF Spec

\* CServerSocket never loses track of a descriptor: whatever clients and callbacks
\* do, the deque lists exactly the open client descriptors, each once.
THEOREM NoDescriptorLost == Spec => []Registered
<1>1. IInv => Registered
  BY DEF IInv
<1> QED BY <1>1, Inductive, PTL

\* manage() never blocks in recv() or accept(): what select() reported stays
\* readable until it is served.
THEOREM ManageNeverBlocks == Spec => []RecvNeverBlocks
<1>1. IInv => RecvNeverBlocks
  BY DEF IInv, Marked
<1> QED BY <1>1, Inductive, PTL

\* The scan serves every descriptor select() reported, although callbacks erase
\* elements of the deque under its iterator.
THEOREM ScanComplete == Spec => []NothingSkipped
<1>1. IInv => NothingSkipped
  BY DEF IInv, Marked
<1> QED BY <1>1, Inductive, PTL
(***************************************************************************)
(* A call to manage() ends, and serves what select() reported.             *)
(***************************************************************************)

\* What a scan has before it: positions of the deque and bits of the set.
Left == Len(connectedSockets) + 1 - dequeit + Cardinality(fdset)

\* A turn of either loop that brings manage() nearer to its end.
Shorter ==
  \/ rc' < rc
  \/ rc' = rc /\ at = "scan" /\ at' = "round"
  \/ rc' = rc /\ at = "scan" /\ at' = "scan" /\ Left' < Left

\* Inside manage() its own steps shorten what is left or return; those of the clients and
\* of the network leave the two loops as they are.
Turn ==
  at \in {"round", "scan"} =>
    /\ ManageStep => at' = "app" \/ Shorter
    /\ ~ManageStep => UNCHANGED <<manageVars, connectedSockets>>

TurnsShorten == [][Turn]_vars

\* The set is finite, so that its bits can be counted.
LEMMA BitsCounted ==
  ASSUME TypeOK
  PROVE  IsFiniteSet(fdset) /\ Cardinality(fdset) \in Nat
<1>1. IsFiniteSet(ClientFds \union {ListenSocket})
  BY FdsAssumption, FS_AddElement
<1>2. IsFiniteSet(fdset)
  BY <1>1, FS_Subset DEF TypeOK
<1> QED BY <1>2, FS_CardinalityType

\* Rounds, turns of the scan and bits are natural numbers, so none of them can be
\* lowered for ever.
LEMMA TurnsWellFounded == TypeOK => rc \in Nat /\ (at = "scan" => Left \in Nat)
<1> SUFFICES ASSUME TypeOK, at = "scan" PROVE Left \in Nat
  BY DEF TypeOK
<1>1. Cardinality(fdset) \in Nat /\ Len(connectedSockets) \in Nat
  BY BitsCounted, LenProperties DEF TypeOK
<1>2. dequeit \in 0..Len(connectedSockets) + 1
  BY DEF TypeOK
<1>3. \A c, n \in Nat : \A d \in 0..n + 1 : n + 1 - d + c \in Nat
  OBVIOUS
<1> QED BY <1>1, <1>2, <1>3 DEF Left

\* A turn of the scan moves the iterator, or clears a bit and at most keeps the distance
\* of the iterator to end(), also when it erases an element and steps back.
LEMMA ScanShortens ==
  ASSUME TypeOK, ScanSkip \/ ReadStep
  PROVE  rc' = rc /\ at = "scan" /\ at' = "scan" /\ Left' < Left
<1> DEFINE n == Len(connectedSockets)
           c == Cardinality(fdset)
<1>1. n \in Nat /\ c \in Nat
  BY BitsCounted, LenProperties DEF TypeOK
<1>2. at = "scan" /\ at' = at /\ rc' = rc
  BY DEF ScanSkip, ReadStep, ReadData, ReadDataSendFails, ReadError, ReadClosed, OnMarked
<1>3. dequeit \in 0..n + 1
  BY <1>2 DEF TypeOK
<1>4. Left' = Len(connectedSockets') + 1 - dequeit' + Cardinality(fdset')
  BY DEF Left
<1>5. ASSUME ScanSkip PROVE Left' < Left
  <2>1. dequeit' = dequeit + 1 /\ Len(connectedSockets') = n /\ Cardinality(fdset') = c
    BY <1>5 DEF ScanSkip
  <2>2. \A a, b \in Nat : \A d \in 0..a + 1 : a + 1 - (d + 1) + b < a + 1 - d + b
    OBVIOUS
  <2> HIDE DEF n, c
  <2>3. n + 1 - (dequeit + 1) + c < n + 1 - dequeit + c
    BY <1>1, <1>3, <2>2
  <2> QED BY <1>4, <2>1, <2>3 DEF Left, n, c
<1>6. ASSUME ReadStep PROVE Left' < Left
  <2>1. OnMarked /\ fdset' = fdset \ {Current}
    BY <1>6 DEF ReadStep, ReadData, ReadDataSendFails, ReadError, ReadClosed
  <2>2. Cardinality(fdset') = c - 1
    BY <2>1, OnMarkedType, BitsCounted, FS_RemoveElement
  <2>3. \/ Len(connectedSockets') = n /\ dequeit' = dequeit
        \/ Len(connectedSockets') = n - 1 /\ dequeit' \in {dequeit - 1, dequeit}
    <3>1. CASE (\E k \in 1..MaxInbox : ReadData(k)) \/ ReadError
      BY <3>1 DEF ReadData, ReadError
    <3>2. CASE ReadDataSendFails \/ ReadClosed
      <4>1. /\ dequeit \in 1..n /\ connectedSockets' = RemoveAt(connectedSockets, dequeit)
            /\ dequeit' \in {dequeit - 1, dequeit}
        BY <3>2, ScanErase
      <4> QED BY <4>1, RemoveAtProperties DEF TypeOK
    <3> QED BY <1>6, <3>1, <3>2 DEF ReadStep
  <2>4. \A a, b \in Nat : \A d \in 0..a + 1 :
           /\ a + 1 - d + (b - 1) < a + 1 - d + b
           /\ a - 1 + 1 - d + (b - 1) < a + 1 - d + b
           /\ a - 1 + 1 - (d - 1) + (b - 1) < a + 1 - d + b
    OBVIOUS
  <2> HIDE DEF n, c
  <2>5. /\ n + 1 - dequeit + (c - 1) < n + 1 - dequeit + c
        /\ n - 1 + 1 - dequeit + (c - 1) < n + 1 - dequeit + c
        /\ n - 1 + 1 - (dequeit - 1) + (c - 1) < n + 1 - dequeit + c
    BY <1>1, <1>3, <2>4
  <2>6. Left' < n + 1 - dequeit + c
    BY <1>4, <2>2, <2>3, <2>5
  <2> QED BY <2>6 DEF Left, n, c
<1> QED BY <1>2, <1>5, <1>6

\* Every step of manage() but the first, select(), leaves it or shortens it.
LEMMA ManageShortens ==
  ASSUME TypeOK, at # "app", ManageStep
  PROVE  at \in {"round", "scan"} /\ (at' = "app" \/ Shorter)
<1>1. CASE EndManage \/ AcceptFails
  BY <1>1 DEF EndManage, AcceptFails, Return
<1>2. CASE RoundWithoutAccept \/ AcceptStep
  <2>1. at = "round" /\ rc' = rc - 1 /\ rc \in Nat
    BY <1>2 DEF RoundWithoutAccept, AcceptStep, AcceptConnection, RejectConnection, StartScan,
                TypeOK
  <2> QED BY <2>1 DEF Shorter
<1>3. CASE ScanEnd
  BY <1>3 DEF ScanEnd, Shorter
<1>4. CASE ScanSkip \/ ReadStep
  BY <1>4, ScanShortens DEF Shorter
<1> QED BY <1>1, <1>2, <1>3, <1>4 DEF ManageStep, ManageSelect

\* Nobody but manage() touches its loops: the application waits for it to return.
LEMMA OthersWait ==
  ASSUME [Next]_vars, at \in {"round", "scan"}, ~ManageStep
  PROVE  UNCHANGED <<manageVars, connectedSockets>>
<1>1. ASSUME AppStep PROVE FALSE
  BY <1>1 DEF AppStep, RemoveConnection, SendBytesFails, RemoveAllConnections, ActivateAccept,
              DeactivateAccept, SetAccept, Delete
<1>2. CASE ClientStep
  BY <1>2 DEF ClientStep, Connect, Submit, Finish, Reset
<1> QED BY <1>1, <1>2 DEF Next, Deleted, vars, manageVars

\* A call to manage() ends: each of its steps lowers the number of rounds, ends a scan or
\* shortens it, and nothing that clients do in between lengthens any of them.  All three are
\* natural numbers (TurnsWellFounded), so what TLC checks under fairness, that manage()
\* goes on serving, is not an endless loop over its own deque (CServerSocket.cpp:111-169).
THEOREM LoopsShorten == Spec => TurnsShorten
<1>1. TypeOK /\ [Next]_vars => [Turn]_vars
  BY ManageShortens, OthersWait DEF Turn
<1> QED BY <1>1, TypeCorrect, PTL DEF Spec, TurnsShorten

\* While bits are left before a scan there is a round to serve them in.
Rounds == at = "round" /\ fdset # {} => rc > 0

\* A bit of the set is cleared by serving its client, unless accept() failed.
Served ==
  \A fd \in fdset \ {ListenSocket} :
     fd \notin fdset' => AcceptFails \/ (ReadStep /\ fd = Current)

ReportedServed == [][Served]_vars

\* A scan that reaches end() left no bit.
LEMMA ScanServesAll == ASSUME IInv, ScanEnd PROVE fdset = {}
<1>1. /\ at = "scan" /\ dequeit = Len(connectedSockets) + 1 /\ Len(connectedSockets) \in Nat
  BY LenProperties DEF ScanEnd, IInv, TypeOK
<1>2. \A i \in 1..Len(connectedSockets) : connectedSockets[i] \notin fdset
  BY <1>1 DEF IInv, Marked, NothingSkipped
<1>3. DOMAIN connectedSockets = 1..Len(connectedSockets)
  BY LenProperties DEF IInv, TypeOK
<1>4. \A fd \in ToSet(connectedSockets) : fd \notin fdset
  BY <1>2, <1>3 DEF ToSet
<1> QED BY <1>1, <1>4 DEF IInv, Marked

\* select() reported at least one descriptor, and one scan serves them all.
LEMMA RoundsStep == IInv /\ Rounds /\ [Next]_vars => Rounds'
<1> SUFFICES ASSUME IInv, Rounds, [Next]_vars PROVE Rounds'
  OBVIOUS
<1>1. CASE UNCHANGED <<at, fdset, rc>>
  BY <1>1 DEF Rounds
<1>2. CASE at' # "round"
  BY <1>2 DEF Rounds
<1>3. CASE ManageSelect
  <2>1. rc' = Cardinality(Selected) /\ Selected # {} /\ IsFiniteSet(Selected)
    <3>1. IsFiniteSet(ClientFds \union {ListenSocket})
      BY FdsAssumption, FS_AddElement
    <3> QED BY <1>3, <3>1, SelectedType, FS_Subset DEF ManageSelect, IInv
  <2>2. rc' \in Nat /\ rc' # 0
    BY <2>1, FS_CardinalityType, FS_EmptySet
  <2> QED BY <2>2 DEF Rounds
<1>4. CASE ScanEnd
  BY <1>4, ScanServesAll DEF ScanEnd, Rounds
<1> QED BY <1>1, <1>2, <1>3, <1>4
        DEF Next, vars, ManageStep, EndManage, Return, RoundWithoutAccept, AcceptStep,
            AcceptConnection, RejectConnection, StartScan, AcceptFails, ScanSkip, ReadStep,
            ReadData, ReadDataSendFails, ReadError, ReadClosed, OnMarked, AppStep,
            RemoveConnection, SendBytesFails, RemoveAllConnections, ActivateAccept,
            DeactivateAccept, SetAccept, Delete, ClientStep, Connect, Submit, Finish, Reset,
            Deleted, manageVars

\* A bit goes where its descriptor is read, or with all the others when accept() fails.
LEMMA ServedStep == IInv /\ Rounds /\ [Next]_vars => Served
<1> SUFFICES ASSUME IInv, Rounds, [Next]_vars, NEW fd \in fdset \ {ListenSocket},
                    fd \notin fdset'
             PROVE  AcceptFails \/ (ReadStep /\ fd = Current)
  BY DEF Served
<1>1. at \in {"round", "scan"}
  BY DEF IInv, Marked
<1>2. ManageStep
  BY <1>1, OthersWait DEF manageVars
<1>3. ~ManageSelect
  BY <1>1 DEF ManageSelect
<1>4. ~EndManage
  BY <1>1 DEF EndManage, Rounds, IInv, TypeOK
<1>5. ASSUME ReadStep PROVE fd = Current
  BY <1>5 DEF ReadStep, ReadData, ReadDataSendFails, ReadError, ReadClosed
<1> QED BY <1>2, <1>3, <1>4, <1>5
        DEF ManageStep, RoundWithoutAccept, AcceptStep, AcceptConnection, RejectConnection,
            StartScan, ScanEnd, ScanSkip

\* Every client that select() reported is read in the same call of manage(), whatever is
\* erased meanwhile; only a failing accept() abandons them (CServerSocket.cpp:111-169).
\* With ReadyServed, which TLC checks, only what select() does not see can starve.
THEOREM ReportedAreServed == Spec => ReportedServed
<1>1. Init => Rounds
  BY DEF Init, Rounds
<1>2. IInv /\ Rounds /\ [Next]_vars => Rounds'
  BY RoundsStep
<1>3. IInv /\ Rounds /\ [Next]_vars => [Served]_vars
  BY ServedStep
<1> QED BY <1>1, <1>2, <1>3, Inductive, PTL DEF Spec, ReportedServed
===============================================================================
