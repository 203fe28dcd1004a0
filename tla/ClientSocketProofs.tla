-------------------------- MODULE ClientSocketProofs ---------------------------
(***************************************************************************)
(* Theorems about ClientSocket for any number of objects and descriptors.  *)
(***************************************************************************)
EXTENDS ClientSocket, SequenceTheorems, WellFoundedInduction, TLAPS

\* The conjuncts of TypeOK.
Sockets ==
  /\ table \in [Fds -> Holders] /\ alive \subseteq Objects /\ clientSocket \in [Objects -> Fds]
Callbacks == noticing \in Seq(alive) /\ IsInjective(noticing)

\* An object in its callback has no open socket: it was closed before.
InsideClosed == \A o \in Objects : ~NotNoticing(o) => ~Held(o)

\* The inductive invariant.
IInv == Sockets /\ Callbacks /\ HeldOpen /\ NoLeak /\ InsideClosed

\* socket() returns a free descriptor.
LEMMA LowestIsFree == Free # {} => Min(Free) \in Free
<1> SUFFICES ASSUME Free # {} PROVE Min(Free) \in Free
  OBVIOUS
<1>1. Free \subseteq Nat
  BY DEF Free, Fds
<1>2. PICK x \in Free : \A y \in Free : ~(<<y, x>> \in OpToRel(<, Nat))
  BY <1>1, NatLessThanWellFounded, WFMin
<1>3. \A y \in Free : x <= y
  <2> SUFFICES ASSUME NEW y \in Free PROVE x <= y
    OBVIOUS
  <2>1. x \in Nat /\ y \in Nat
    BY <1>1
  <2>2. ~(y < x)
    BY <1>2, <2>1 DEF OpToRel
  <2> QED BY <2>1, <2>2
<1> QED BY <1>3 DEF Min

-----------------------------------------------------------------------------
(* The stack of callbacks.                                                  *)

\* A callback begins: the object joins those inside one.
LEMMA CallbackBegins ==
  ASSUME Callbacks, NEW o \in alive, NotNoticing(o), noticing' = Append(noticing, o),
         alive' = alive
  PROVE  Callbacks' /\ \A p \in Objects : NotNoticing(p)' <=> NotNoticing(p) /\ p # o
<1>1. /\ noticing' \in Seq(alive) /\ Len(noticing) \in Nat
      /\ Len(noticing') = Len(noticing) + 1
      /\ \A i \in 1..Len(noticing) : noticing'[i] = noticing[i]
      /\ noticing'[Len(noticing) + 1] = o
      /\ DOMAIN noticing = 1..Len(noticing) /\ DOMAIN noticing' = 1..Len(noticing')
  BY AppendProperties, LenProperties DEF Callbacks
<1>2. \A i \in 1..Len(noticing) : noticing[i] # o
  BY DEF NotNoticing, Contains
<1>3. IsInjective(noticing')
  BY <1>1, <1>2 DEF IsInjective, Callbacks
<1>4. ASSUME NEW p \in Objects PROVE NotNoticing(p)' <=> NotNoticing(p) /\ p # o
  BY <1>1 DEF NotNoticing, Contains
<1> QED BY <1>1, <1>3, <1>4 DEF Callbacks

\* The innermost callback returns: its object is no longer inside one.
LEMMA CallbackEnds ==
  ASSUME Callbacks, noticing # <<>>, noticing' = Front(noticing), alive' = alive
  PROVE  /\ Callbacks' /\ Last(noticing) \in alive /\ ~NotNoticing(Last(noticing))
         /\ \A p \in Objects : NotNoticing(p)' <=> NotNoticing(p) \/ p = Last(noticing)
<1> DEFINE n == Len(noticing)
<1>1. n \in Nat \ {0} /\ DOMAIN noticing = 1..n /\ \A i \in 1..n : noticing[i] \in alive
  BY LenProperties, EmptySeq, ElementOfSeq DEF Callbacks
<1>2. /\ noticing' \in Seq(alive) /\ Len(noticing') = n - 1
      /\ \A i \in 1..n - 1 : noticing'[i] = noticing[i]
  <2>1. 1 \in Int /\ n - 1 \in Int /\ \A i \in 1..n - 1 : noticing[i] \in alive
    BY <1>1
  <2>2. /\ noticing' \in Seq(alive)
        /\ Len(noticing') = IF 1 <= n - 1 THEN n - 1 - 1 + 1 ELSE 0
        /\ \A i \in 1..n - 1 - 1 + 1 : noticing'[i] = noticing[1 + i - 1]
    BY <2>1, SubSeqProperties DEF Front
  <2> HIDE DEF n
  <2>3. Len(noticing') = n - 1
    BY <2>2, <1>1
  <2>4. ASSUME NEW i \in 1..n - 1 PROVE noticing'[i] = noticing[i]
    <3>1. i \in 1..n - 1 - 1 + 1 /\ 1 + i - 1 = i
      BY <1>1
    <3> QED BY <3>1, <2>2
  <2> QED BY <2>2, <2>3, <2>4
<1>3. DOMAIN noticing' = 1..n - 1
  BY <1>2, LenProperties
<1>4. IsInjective(noticing')
  BY <1>1, <1>2, <1>3 DEF IsInjective, Callbacks
<1>5. \A i \in 1..n - 1 : noticing[i] # noticing[n]
  BY <1>1 DEF IsInjective, Callbacks
<1>6. ASSUME NEW p \in Objects PROVE NotNoticing(p)' <=> NotNoticing(p) \/ p = Last(noticing)
  BY <1>1, <1>2, <1>5 DEF NotNoticing, Contains, Last
<1> QED BY <1>1, <1>2, <1>4, <1>6 DEF Callbacks, Last, NotNoticing, Contains

\* Nobody in a callback is deleted, and who is made is in none.
LEMMA CallbacksKept ==
  ASSUME Callbacks, noticing' = noticing,
         \A o \in alive : ~NotNoticing(o) => o \in alive'
  PROVE  Callbacks' /\ \A p \in Objects : NotNoticing(p)' <=> NotNoticing(p)
<1>1. /\ Len(noticing) \in Nat /\ noticing \in [1..Len(noticing) -> alive]
  BY LenProperties DEF Callbacks
<1>2. \A i \in 1..Len(noticing) : noticing[i] \in alive'
  BY <1>1 DEF NotNoticing, Contains
<1>3. noticing \in [1..Len(noticing) -> alive']
  BY <1>1, <1>2
<1>4. noticing' \in Seq(alive')
  BY <1>1, <1>3, SeqDef
<1> QED BY <1>4 DEF Callbacks, NotNoticing, Contains

-----------------------------------------------------------------------------
(* The steps.                                                               *)

\* Steps of the connections alone, and the calls that only spend an error.
LEMMA QuietStep ==
  ASSUME IInv, UNCHANGED <<table, alive, clientSocket, noticing, strayed>>
  PROVE  IInv'
BY DEF IInv, Sockets, Callbacks, HeldOpen, NoLeak, InsideClosed, NotNoticing, Contains,
       Held

\* socket() gives a descriptor that no object has.
LEMMA NewStep == ASSUME IInv, NEW o \in Objects, New(o) PROVE IInv'
<1> DEFINE d == Min(Free)
<1>1. d \in Fds /\ table[d] = "free"
  BY LowestIsFree DEF New, Free
<1>2. Callbacks' /\ \A p \in Objects : NotNoticing(p)' <=> NotNoticing(p)
  BY CallbacksKept DEF IInv, New
<1>3. /\ o \notin alive /\ alive' = alive \union {o}
      /\ clientSocket' = [clientSocket EXCEPT ![o] = d] /\ table' = [table EXCEPT ![d] = o]
      /\ strayed' = strayed
  BY DEF New
<1> HIDE DEF d
<1>4. Sockets'
  BY <1>1, <1>3 DEF IInv, Sockets, Holders
<1>5. HeldOpen'
  BY <1>1, <1>2, <1>3, ClientAssumption DEF IInv, Sockets, HeldOpen
<1>6. NoLeak'
  BY <1>1, <1>3 DEF IInv, Sockets, NoLeak
<1>7. NotNoticing(o)
  <2>1. \A i \in 1..Len(noticing) : noticing[i] \in alive
    BY ElementOfSeq DEF IInv, Callbacks
  <2> QED BY <2>1, <1>3 DEF NotNoticing, Contains
<1>8. InsideClosed'
  BY <1>1, <1>2, <1>3, <1>7 DEF IInv, Sockets, InsideClosed, Held
<1> QED BY <1>2, <1>3, <1>4, <1>5, <1>6, <1>8 DEF IInv

\* What a failed constructor leaves is nobody's.
LEMMA NewFailsStep == ASSUME IInv, NEW o \in Objects, NewFails(o) PROVE IInv'
<1> DEFINE d == Min(Free)
<1>1. d \in Fds /\ table[d] = "free"
  BY LowestIsFree DEF NewFails, Free
<1>2. Callbacks' /\ \A p \in Objects : NotNoticing(p)' <=> NotNoticing(p)
  BY CallbacksKept DEF IInv, NewFails
<1>3. table' = [table EXCEPT ![d] = "lost"] /\ UNCHANGED <<alive, clientSocket, strayed>>
  BY DEF NewFails
<1> HIDE DEF d
<1>4. Sockets'
  BY <1>1, <1>3 DEF IInv, Sockets, Holders
<1>5. HeldOpen'
  BY <1>1, <1>2, <1>3, ClientAssumption DEF IInv, Sockets, HeldOpen
<1>6. NoLeak' /\ InsideClosed'
  BY <1>1, <1>2, <1>3, ClientAssumption DEF IInv, Sockets, NoLeak, InsideClosed, Held
<1> QED BY <1>2, <1>3, <1>4, <1>5, <1>6 DEF IInv

\* close(clientSocket) that does not stray: the number is 0, the descriptor is the object's
\* own or it is no object's, so no other object loses anything.
LEMMA CloseHarmless ==
  ASSUME IInv, NEW o \in alive, Close(clientSocket[o])
  PROVE  /\ table' \in [Fds -> Holders] /\ table'[clientSocket[o]] = "free"
         /\ \A d \in Fds : table'[d] \in Objects => d # clientSocket[o] /\ table'[d] = table[d]
         /\ ~strayed /\ ~Strays(o) =>
              \A p \in alive \ {o} :
                clientSocket[p] # 0 /\ NotNoticing(p) => table'[clientSocket[p]] = p
<1>1. clientSocket[o] \in Fds /\ table \in [Fds -> Holders]
  BY DEF IInv, Sockets
<1>2. /\ table' \in [Fds -> Holders] /\ table'[clientSocket[o]] = "free"
      /\ \A d \in Fds : d # clientSocket[o] => table'[d] = table[d]
  BY <1>1 DEF Close, Holders
<1>3. ASSUME ~strayed, ~Strays(o), NEW p \in alive \ {o}, clientSocket[p] # 0, NotNoticing(p)
      PROVE  table'[clientSocket[p]] = p
  <2>1. table[clientSocket[p]] = p /\ clientSocket[p] \in Fds /\ p \in Objects
    BY <1>3 DEF IInv, Sockets, HeldOpen
  <2>2. clientSocket[p] # clientSocket[o]
    BY <1>3, <2>1 DEF IInv, HeldOpen, Strays
  <2> QED BY <1>2, <2>1, <2>2
<1> QED BY <1>2, <1>3, ClientAssumption

\* The destructor.
LEMMA DeleteStep == ASSUME IInv, NEW o \in Objects, Delete(o) PROVE IInv'
<1>1. /\ o \in alive /\ NotNoticing(o) /\ Close(clientSocket[o]) /\ alive' = alive \ {o}
      /\ UNCHANGED <<clientSocket, noticing, strayed>>
  BY DEF Delete
<1>2. Callbacks' /\ \A p \in Objects : NotNoticing(p)' <=> NotNoticing(p)
  BY <1>1, CallbacksKept DEF IInv
<1>3. Sockets' /\ NoLeak' /\ InsideClosed'
  BY <1>1, <1>2, CloseHarmless DEF IInv, Sockets, NoLeak, InsideClosed, Held
<1>4. HeldOpen'
  <2>1. ~strayed' => ~strayed /\ ~Strays(o)
    BY <1>1, Zenon DEF Strays
  <2> QED BY <1>1, <1>2, <2>1, CloseHarmless DEF IInv, Sockets, HeldOpen
<1> QED BY <1>1, <1>2, <1>3, <1>4 DEF IInv

\* closeConnection().
LEMMA CloseConnectionStep == ASSUME IInv, NEW o \in Objects, CloseConnection(o) PROVE IInv'
<1>1. /\ o \in alive /\ Close(clientSocket[o])
      /\ clientSocket' = [clientSocket EXCEPT ![o] = 0]
      /\ UNCHANGED <<alive, noticing>>
  BY DEF CloseConnection
<1>2. Callbacks' /\ \A p \in Objects : NotNoticing(p)' <=> NotNoticing(p)
  BY <1>1, CallbacksKept DEF IInv
<1>3. Sockets'
  BY <1>1, CloseHarmless, ClientAssumption DEF IInv, Sockets, Fds
<1>4. HeldOpen'
  <2>1. ~strayed' => ~strayed /\ ~Strays(o)
    BY Zenon DEF CloseConnection
  <2> QED BY <1>1, <1>2, <2>1, CloseHarmless DEF IInv, Sockets, HeldOpen
<1>5. NoLeak' /\ InsideClosed'
  BY <1>1, <1>2, CloseHarmless DEF IInv, Sockets, NoLeak, InsideClosed, Held
<1> QED BY <1>1, <1>2, <1>3, <1>4, <1>5 DEF IInv

\* readData() with the end of the connection: the socket is closed and the callback begins.
LEMMA NoticeCloseStep == ASSUME IInv, NEW o \in Objects, NoticeClose(o) PROVE IInv'
<1>1. /\ o \in alive /\ NotNoticing(o) /\ Close(clientSocket[o])
      /\ noticing' = Append(noticing, o)
      /\ UNCHANGED <<alive, clientSocket, strayed>>
  BY DEF NoticeClose, Manageable
<1>2. Callbacks' /\ \A p \in Objects : NotNoticing(p)' <=> NotNoticing(p) /\ p # o
  BY <1>1, CallbackBegins DEF IInv
<1>3. Sockets' /\ NoLeak'
  BY <1>1, CloseHarmless DEF IInv, Sockets, NoLeak
<1>4. HeldOpen'
  <2>1. ~strayed' => ~strayed /\ ~Strays(o)
    BY <1>1, Zenon DEF Strays
  <2> QED BY <1>1, <1>2, <2>1, CloseHarmless DEF IInv, Sockets, HeldOpen
<1>5. InsideClosed'
  BY <1>1, <1>2, CloseHarmless DEF IInv, Sockets, NoLeak, InsideClosed, Held
<1> QED BY <1>1, <1>2, <1>3, <1>4, <1>5 DEF IInv

\* The callback returns: its object has no socket that clientSocket = 0 would forget.
LEMMA NoticeEndsStep == ASSUME IInv, NoticeEnds PROVE IInv'
<1> DEFINE q == Last(noticing)
<1>1. /\ noticing # <<>> /\ noticing' = Front(noticing)
      /\ clientSocket' = [clientSocket EXCEPT ![q] = 0]
      /\ UNCHANGED <<table, alive, strayed>>
  BY DEF NoticeEnds
<1>2. /\ Callbacks' /\ q \in alive /\ ~NotNoticing(q)
      /\ \A p \in Objects : NotNoticing(p)' <=> NotNoticing(p) \/ p = q
  BY <1>1, CallbackEnds DEF IInv
<1> HIDE DEF q
<1>3. Sockets'
  <2>1. 0 \in Fds
    BY ClientAssumption DEF Fds
  <2>2. clientSocket' \in [Objects -> Fds]
    BY <1>1, <2>1 DEF IInv, Sockets
  <2> QED BY <1>1, <2>2 DEF IInv, Sockets
<1>4. HeldOpen'
  BY <1>1, <1>2 DEF IInv, Sockets, HeldOpen
<1>5. ~Held(q)
  BY <1>2 DEF IInv, Sockets, InsideClosed
<1>6. NoLeak' /\ InsideClosed'
  BY <1>1, <1>2, <1>5 DEF IInv, Sockets, NoLeak, InsideClosed, Held
<1> QED BY <1>1, <1>2, <1>3, <1>4, <1>6 DEF IInv

-----------------------------------------------------------------------------
(* The theorems.                                                            *)

\* FairSpec without its fairness.
Spec == Init /\ [][Next]_vars

\* No object exists at first.
LEMMA InitInvariant == ASSUME Init PROVE IInv
<1>1. table \in [Fds -> {"free", "application"}] /\ alive = {}
      /\ clientSocket = [o \in Objects |-> 0] /\ noticing = <<>>
  BY DEF Init
<1>2. Sockets
  BY <1>1, ClientAssumption DEF Sockets, Fds, Holders
<1>3. Callbacks /\ \A o \in Objects : NotNoticing(o)
  BY <1>1, EmptySeq DEF Callbacks, IsInjective, NotNoticing, Contains
<1>4. HeldOpen /\ NoLeak /\ InsideClosed
  BY <1>1, <1>3, ClientAssumption, Zenon DEF HeldOpen, NoLeak, InsideClosed
<1> QED BY <1>2, <1>3, <1>4 DEF IInv

\* Every step keeps the invariant.
LEMMA NextInvariant == ASSUME IInv, [Next]_vars PROVE IInv'
<1>1. CASE UNCHANGED vars
  BY <1>1, QuietStep DEF vars
<1>2. CASE Next
  <2>1. CASE \E o \in Objects : New(o)
    BY <2>1, NewStep
  <2>2. CASE \E o \in Objects : NewFails(o)
    BY <2>2, NewFailsStep
  <2>3. CASE \E o \in Objects : Delete(o)
    BY <2>3, DeleteStep
  <2>4. CASE \E o \in Objects : CloseConnection(o)
    BY <2>4, CloseConnectionStep
  <2>5. CASE \E o \in Objects : SendFails(o)
    BY <2>5, QuietStep DEF SendFails
  <2>6. CASE \E o \in Objects : ReadData(o)
    BY <2>6, QuietStep DEF ReadData
  <2>7. CASE \E o \in Objects : ReadFails(o)
    BY <2>7, QuietStep DEF ReadFails
  <2>8. CASE \E o \in Objects : NoticeClose(o)
    BY <2>8, NoticeCloseStep
  <2>9. CASE NoticeEnds
    BY <2>9, NoticeEndsStep
  <2>10. CASE \E o \in Objects : Connects(o) \/ ServerSends(o) \/ LinkEnds(o)
    BY <2>10, QuietStep DEF Connects, ServerSends, LinkEnds
  <2> QED BY <1>2, <2>1, <2>2, <2>3, <2>4, <2>5, <2>6, <2>7, <2>8, <2>9, <2>10
          DEF Next, Manage
<1> QED BY <1>1, <1>2

\* The inductive invariant holds in every behaviour of CClientSocket's objects.
THEOREM Inductive == Spec => []IInv
  BY InitInvariant, NextInvariant, PTL DEF Spec

\* Outside its own onConnectionClose() an object's number, if it is not 0, is its own open
\* descriptor, until a closeConnection() in there closes another's (CClientSocket.cpp:57-60,
\* 123-127).
THEOREM NumberIsOwn == Spec => []HeldOpen
<1>1. IInv => HeldOpen
  BY DEF IInv
<1> QED BY Inductive, <1>1, PTL

\* No object that is deleted, closed or told of the end leaves an open socket behind
\* (CClientSocket.cpp:57-60, 123-127, 170).
THEOREM NothingLeaks == Spec => []NoLeak
<1>1. IInv => NoLeak
  BY DEF IInv
<1> QED BY Inductive, <1>1, PTL

-----------------------------------------------------------------------------
(* Types.                                                                   *)

\* The conjuncts of TypeOK that IInv does not have.
Connections ==
  /\ link \in [Objects -> {"none", "connecting", "open", "ended"}]
  /\ err \in [Objects -> BOOLEAN]
  /\ inbox \in [Objects -> 0..MaxMsgs]
  /\ strayed \in BOOLEAN

\* No step reads what is not there or keeps more blocks than the bound.
LEMMA ConnectionsStep == ASSUME IInv, Connections, [Next]_vars PROVE Connections'
<1> USE DEF Connections
<1>1. CASE UNCHANGED vars
  BY <1>1 DEF vars, connVars
<1>2. CASE NoticeEnds \/ \E o \in Objects : NewFails(o) \/ Delete(o) \/ NoticeClose(o)
  BY <1>2 DEF NoticeEnds, NewFails, Delete, NoticeClose, connVars
<1>3. ASSUME NEW o \in Objects, New(o) PROVE Connections'
  BY <1>3, ClientAssumption DEF New
<1>4. ASSUME NEW o \in Objects, SendFails(o) \/ ReadFails(o) PROVE Connections'
  BY <1>4 DEF SendFails, ReadFails
<1>5. ASSUME NEW o \in Objects, ReadData(o) PROVE Connections'
  <2>1. PICK h \in Objects : inbox[h] > 0 /\ inbox' = [inbox EXCEPT ![h] = @ - 1]
    BY <1>5 DEF ReadData, Manageable
  <2>2. inbox' \in [Objects -> 0..MaxMsgs]
    BY <2>1, ClientAssumption
  <2> QED BY <1>5, <2>2 DEF ReadData
<1>6. ASSUME NEW o \in Objects, Connects(o) \/ ServerSends(o) \/ LinkEnds(o) PROVE Connections'
  BY <1>6, ClientAssumption DEF Connects, ServerSends, LinkEnds
<1>7. ASSUME NEW o \in Objects, CloseConnection(o) PROVE Connections'
  <2>1. strayed' \in BOOLEAN
    BY <1>7, Zenon DEF CloseConnection
  <2>2. UNCHANGED connVars
    BY <1>7 DEF CloseConnection
  <2> QED BY <2>1, <2>2 DEF connVars
<1> QED BY <1>1, <1>2, <1>3, <1>4, <1>5, <1>6, <1>7 DEF Next, Manage

\* The state keeps its types; above all, the objects inside a callback exist and are
\* different ones, however the callbacks are nested (CClientSocket.cpp:118-127).
THEOREM TypeCorrect == Spec => []TypeOK
<1>1. Init => Connections
  <2> SUFFICES ASSUME Init PROVE Connections
    OBVIOUS
  <2>1. /\ link = [o \in Objects |-> "none"] /\ err = [o \in Objects |-> FALSE]
        /\ inbox = [o \in Objects |-> 0] /\ strayed = FALSE
    BY DEF Init
  <2>2. link \in [Objects -> {"none", "connecting", "open", "ended"}] /\ strayed \in BOOLEAN
    BY <2>1, Zenon
  <2>3. err \in [Objects -> BOOLEAN] /\ inbox \in [Objects -> 0..MaxMsgs]
    BY <2>1, ClientAssumption
  <2> QED BY <2>2, <2>3 DEF Connections
<1>2. IInv /\ Connections /\ [Next]_vars => Connections'
  BY ConnectionsStep
<1>3. IInv /\ Connections => TypeOK
  BY DEF IInv, Sockets, Callbacks, Connections, TypeOK
<1> QED BY <1>1, <1>2, <1>3, Inductive, PTL DEF Spec
===============================================================================
