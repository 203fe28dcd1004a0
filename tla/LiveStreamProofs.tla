---------------------------- MODULE LiveStreamProofs ----------------------------
(***************************************************************************)
(* Theorems about LiveStream for lines, windows, messages and numbers of   *)
(* sends of any size.                                                      *)
(***************************************************************************)
EXTENDS LiveStream, FiniteSetTheorems, SequenceTheorems, TLAPS

\* The types of what the sends are made of.
SendTypes ==
  /\ stream \in Seq(Nat \X Nat)
  /\ send \in [no : Nat, len : Nat, taken : Nat, back : {"wait", "store"}]

\* The client's stream ends with the latest part of the send going on.
Newest ==
  /\ \A k \in 1..Len(stream) : stream[k][1] <= send.no
  /\ at = "sending" =>
       /\ send.no > 0
       /\ send.taken = 0 => \A k \in 1..Len(stream) : stream[k][1] < send.no
       /\ send.taken > 0 /\ conn = "open" =>
            Len(stream) > 0 /\ stream[Len(stream)] = <<send.no, send.taken>>

SendInv == SendTypes /\ Newest /\ Ordered

\* The readings still in a text.
Remaining(g) ==
  Cardinality({k \in DOMAIN g : g[k] # "malformed" /\ \A j \in 1..k - 1 : g[j] = "whole"})

\* Every reading is offered, consumed and on its way to be offered, or in the text.
ReadInv ==
  /\ text \in Seq(Groups) /\ lastmsg \in Nat /\ offered \in Nat
  /\ \/ /\ at \in {"wait", "manage", "ended"} \/ (at = "sending" /\ send.back = "wait")
        /\ lastmsg = due /\ offered = due
     \/ at = "crashed" /\ due \in Nat /\ lastmsg <= due /\ offered <= lastmsg
     \/ at = "decode" /\ due = lastmsg + Remaining(text) /\ offered = lastmsg
     \/ /\ at \in {"publish", "store"} \/ (at = "sending" /\ send.back = "store")
        /\ due = lastmsg + Remaining(text) /\ offered + 1 = lastmsg

-----------------------------------------------------------------------------
(* The client's stream.                                                     *)

\* A step that neither sends nor begins to send.
LEMMA SameSends ==
  ASSUME SendInv, UNCHANGED <<send, stream>>,
         at' = "sending" => at = "sending" /\ (conn' = "open" => conn = "open")
  PROVE  SendTypes' /\ Newest' /\ Ordered'
BY DEF SendInv, SendTypes, Newest, Ordered

\* send() is called.
LEMMA SendBegins ==
  ASSUME SendInv, NEW len \in Nat, NEW back \in {"wait", "store"}, SendBytes(len, back),
         stream' = stream
  PROVE  SendInv'
<1>1. /\ send' = [no |-> send.no + 1, len |-> len, taken |-> 0, back |-> back]
      /\ at' = "sending" /\ send.no \in Nat
  BY DEF SendBytes, SendInv, SendTypes
<1>2. SendTypes'
  BY <1>1 DEF SendInv, SendTypes
<1>3. \A k \in 1..Len(stream) : stream[k][1] <= send.no /\ stream[k][1] \in Nat
  <2>1. \A k \in 1..Len(stream) : stream[k] \in Nat \X Nat
    BY ElementOfSeq DEF SendInv, SendTypes
  <2> QED BY <2>1 DEF SendInv, Newest
<1>4. Newest'
  BY <1>1, <1>3 DEF Newest
<1> QED BY <1>1, <1>2, <1>4 DEF SendInv, Ordered

\* send() takes a part.
LEMMA PartTaken == ASSUME SendInv, SendTakes PROVE SendInv'
<1> DEFINE n == Len(stream)
           t == send.taken + 1
<1>1. /\ stream \in Seq(Nat \X Nat) /\ send.no \in Nat /\ send.taken \in Nat /\ n \in Nat
      /\ DOMAIN stream = 1..n
  BY LenProperties DEF SendInv, SendTypes
<1>2. /\ at = "sending" /\ at' = at /\ conn = "open" /\ conn' = conn
      /\ send' = [send EXCEPT !.taken = t]
      /\ send'.taken = t /\ send'.no = send.no
      /\ stream' = Append(stream, <<send.no, t>>)
  BY DEF SendTakes, SendInv, SendTypes
<1>3. /\ stream' \in Seq(Nat \X Nat) /\ Len(stream') = n + 1 /\ DOMAIN stream' = 1..n + 1
      /\ \A k \in 1..n : stream'[k] = stream[k]
      /\ stream'[n + 1] = <<send.no, t>>
  BY <1>1, <1>2, AppendProperties, LenProperties
<1>4. SendTypes'
  <2>1. t \in Nat
    BY <1>1
  <2> HIDE DEF t
  <2>2. send' \in [no : Nat, len : Nat, taken : Nat, back : {"wait", "store"}]
    BY <2>1, <1>2 DEF SendInv, SendTypes
  <2> QED BY <2>2, <1>3 DEF SendTypes
<1>5. /\ send.no > 0 /\ \A k \in 1..n : stream[k][1] <= send.no
      /\ send.taken = 0 => \A k \in 1..n : stream[k][1] < send.no
      /\ send.taken > 0 => n > 0 /\ stream[n] = <<send.no, send.taken>>
  BY <1>2 DEF SendInv, Newest
<1> HIDE DEF n, t
<1>6. t \in Nat /\ t = send.taken + 1
  BY <1>1 DEF t
<1>7. Newest'
  <2>1. \A k \in 1..n + 1 : k \in 1..n \/ k = n + 1
    BY <1>1
  <2>2. \A k \in 1..n : stream'[k][1] <= send.no
    BY <1>3, <1>5
  <2>3. stream'[n + 1][1] = send.no
    BY <1>3
  <2>4. \A k \in 1..n + 1 : stream'[k][1] <= send.no
    BY <2>1, <2>2, <2>3, <1>1
  <2> QED BY <2>4, <1>1, <1>2, <1>3, <1>5, <1>6 DEF Newest
<1>8. Ordered'
  <2> DEFINE before(k) == IF k = 1 THEN <<0, 0>> ELSE stream[k - 1]
             After(b, p) == (p[2] = 1 /\ p[1] > b[1]) \/ p = <<b[1], b[2] + 1>>
  <2>1. \A k \in 1..n : After(before(k), stream[k])
    BY <1>1 DEF SendInv, Ordered
  <2>2. After(before(n + 1), <<send.no, t>>)
    <3>1. CASE send.taken = 0
      <4>1. before(n + 1)[1] < send.no
        BY <3>1, <1>1, <1>5
      <4> QED BY <4>1, <3>1, <1>1, <1>6
    <3>2. CASE send.taken > 0
      <4>1. before(n + 1) = <<send.no, send.taken>>
        BY <3>2, <1>1, <1>5
      <4> QED BY <4>1, <1>6
    <3> QED BY <3>1, <3>2, <1>1
  <2>3. ASSUME NEW k \in DOMAIN stream'
        PROVE  After(IF k = 1 THEN <<0, 0>> ELSE stream'[k - 1], stream'[k])
    <3>1. k \in 1..n \/ k = n + 1
      BY <2>3, <1>1, <1>3
    <3>2. (IF k = 1 THEN <<0, 0>> ELSE stream'[k - 1]) = before(k)
      BY <2>3, <1>1, <1>3
    <3>3. After(before(k), stream'[k])
      <4>1. CASE k \in 1..n
        BY <4>1, <2>1, <1>3
      <4>2. CASE k = n + 1
        BY <4>2, <2>2, <1>3
      <4> QED BY <3>1, <4>1, <4>2
    <3> HIDE DEF After, before
    <3> QED BY <3>2, <3>3
  <2> QED BY <2>3 DEF Ordered
<1> QED BY <1>4, <1>7, <1>8 DEF SendInv

\* A signal or the client's end cuts a send.
LEMMA SendCut == ASSUME SendInv, ShortSend PROVE SendInv'
<1>1. at' # "sending" /\ UNCHANGED <<send, stream>>
  BY DEF ShortSend, SendInv, SendTypes
<1> QED BY <1>1, SameSends DEF SendInv

\* Every step.
LEMMA SendStep == ASSUME SendInv, [Next]_vars PROVE SendInv'
<1>1. CASE UNCHANGED <<at, conn, sendVars>>
  BY <1>1, SameSends DEF SendInv, sendVars
<1>2. CASE (\E msg \in Messages : ReadMessage(msg)) \/ Consume \/ DecodeEnds \/ Store \/ StoreThrows
           \/ SelectIdle \/ ManageReturns \/ OnLiveData \/ OnEndLiveData \/ ClientClosed
           \/ LoopEnds
  <2>1. at # "sending" /\ at' # "sending" /\ UNCHANGED <<send, stream>>
    BY <1>2 DEF ReadMessage, Consume, DecodeEnds, Store, StoreThrows, SelectIdle,
                ManageReturns, OnLiveData, OnEndLiveData, ClientClosed, LoopEnds, sendVars
  <2> QED BY <2>1, SameSends DEF SendInv
<1>3. CASE Publish
  <2>1. CASE at' = "store" /\ UNCHANGED send
    <3>1. at # "sending" /\ at' # "sending" /\ UNCHANGED <<send, stream>>
      BY <1>3, <2>1 DEF Publish
    <3> QED BY <3>1, SameSends DEF SendInv
  <2>2. CASE \E len \in 1..MaxLen : SendBytes(len, "store")
    <3>1. PICK len \in 1..MaxLen : SendBytes(len, "store")
      BY <2>2
    <3>2. len \in Nat /\ stream' = stream
      BY <1>3, LineAssumption DEF Publish
    <3> QED BY <3>1, <3>2, SendBegins
  <2> QED BY <1>3, <2>1, <2>2 DEF Publish
<1>4. CASE OnRequest
  <2>1. SendBytes(LineLen, "wait") /\ stream' = stream /\ LineLen \in Nat
    BY <1>4, LineAssumption DEF OnRequest
  <2> QED BY <2>1, SendBegins
<1>5. CASE SendTakes
  BY <1>5, PartTaken
<1>6. CASE SendReturns
  <2>1. /\ at' # "sending" /\ UNCHANGED <<send, stream>> /\ send.taken = send.len
    BY <1>6 DEF SendReturns, sendVars, SendInv, SendTypes
  <2> QED BY <2>1, SameSends DEF SendInv
<1>7. CASE ShortSend
  BY <1>7, SendCut
<1>8. CASE OnNewConnection
  <2>1. at # "sending" /\ at' # "sending" /\ stream' = <<>> /\ UNCHANGED send
    BY <1>8 DEF OnNewConnection
  <2>2. SendTypes' /\ Newest' /\ Ordered'
    BY <2>1, EmptySeq DEF SendInv, SendTypes, Newest, Ordered
  <2> QED BY <2>1, <2>2 DEF SendInv
<1>9. CASE ClientLeaves
  <2>1. at' = at /\ conn' = "dead" /\ UNCHANGED <<send, stream>>
    BY <1>9 DEF ClientLeaves
  <2> QED BY <2>1, SameSends DEF SendInv
<1>10. CASE ClientReads
  <2>1. UNCHANGED <<at, conn, send, stream>>
    BY <1>10 DEF ClientReads
  <2> QED BY <2>1, SameSends DEF SendInv
<1> QED BY <1>1, <1>2, <1>3, <1>4, <1>5, <1>6, <1>7, <1>8, <1>9, <1>10
        DEF Next, Thread, Sigterm, Tick, SendFails, Over, vars
-----------------------------------------------------------------------------
(* The readings.                                                            *)

Whole(g, k) == g[k] # "malformed" /\ \A j \in 1..k - 1 : g[j] = "whole"

\* The groups that are readings, in an empty text and before and after the first group.
LEMMA RemainingOfText ==
  ASSUME NEW g \in Seq(Groups)
  PROVE  /\ g = <<>> => Remaining(g) = 0
         /\ g # <<>> /\ Head(g) = "malformed" => Remaining(g) = 0
         /\ g # <<>> /\ Head(g) = "crossed" => Remaining(g) = 1
         /\ g # <<>> /\ Head(g) = "whole" => Remaining(g) = Remaining(Tail(g)) + 1
         /\ g # <<>> => Tail(g) \in Seq(Groups)
         /\ Remaining(g) \in Nat
<1> DEFINE S(h) == {k \in DOMAIN h : Whole(h, k)}
           n == Len(g)
<1>1. n \in Nat /\ DOMAIN g = 1..n /\ (g # <<>> => n > 0 /\ Head(g) = g[1])
  BY LenProperties, EmptySeq, HeadTailProperties
<1>2. \A h : Remaining(h) = Cardinality(S(h))
  BY DEF Remaining, Whole
<1>3. \A h \in Seq(Groups) : IsFiniteSet(S(h)) /\ Cardinality(S(h)) \in Nat
  <2> SUFFICES ASSUME NEW h \in Seq(Groups)
               PROVE  IsFiniteSet(S(h)) /\ Cardinality(S(h)) \in Nat
    OBVIOUS
  <2>1. DOMAIN h = 1..Len(h) /\ Len(h) \in Nat
    BY LenProperties
  <2>2. IsFiniteSet(1..Len(h)) /\ S(h) \in SUBSET (1..Len(h))
    BY <2>1, FS_Interval
  <2> HIDE DEF S
  <2> QED BY <2>2, FS_Subset, FS_CardinalityType
<1>4. ASSUME g = <<>> PROVE S(g) = {}
  BY <1>4
<1>5. ASSUME g # <<>>, Head(g) = "malformed" PROVE S(g) = {}
  <2> SUFFICES ASSUME NEW k \in 1..n, Whole(g, k) PROVE FALSE
    BY <1>1
  <2>1. CASE k = 1
    BY <1>1, <1>5, <2>1 DEF Whole
  <2>2. CASE k # 1
    <3>1. 1 \in 1..k - 1
      BY <1>1, <2>2
    <3> QED BY <3>1, <1>1, <1>5 DEF Whole
  <2> QED BY <2>1, <2>2
<1>6. ASSUME g # <<>>, Head(g) = "crossed" PROVE S(g) = {1}
  <2>1. 1 \in S(g)
    BY <1>1, <1>6 DEF Whole
  <2>2. ASSUME NEW k \in 1..n, Whole(g, k) PROVE k = 1
    <3> SUFFICES ASSUME k # 1 PROVE FALSE
      OBVIOUS
    <3>1. 1 \in 1..k - 1
      BY <1>1
    <3> QED BY <3>1, <1>1, <1>6, <2>2 DEF Whole
  <2> QED BY <2>1, <2>2, <1>1
<1>7. ASSUME g # <<>>
      PROVE  /\ Tail(g) \in Seq(Groups) /\ DOMAIN Tail(g) = 1..n - 1
             /\ \A k \in 1..n - 1 : Tail(g)[k] = g[k + 1]
  BY <1>1, <1>7, HeadTailProperties, LenProperties
<1>8. ASSUME g # <<>>, Head(g) = "whole"
      PROVE  Cardinality(S(g)) = Cardinality(S(Tail(g))) + 1
  <2> DEFINE T == Tail(g)
             f == [k \in S(T) |-> k + 1]
             R == S(g) \ {1}
  <2>1. 1 \in S(g) /\ g[1] = "whole"
    BY <1>1, <1>8 DEF Whole
  <2>2. ASSUME NEW k \in 1..n - 1 PROVE Whole(T, k) <=> Whole(g, k + 1)
    <3>1. T[k] = g[k + 1]
      BY <1>7, <1>8
    <3>2. ASSUME \A j \in 1..k - 1 : T[j] = "whole", NEW j \in 1..k PROVE g[j] = "whole"
      <4>1. CASE j = 1
        BY <4>1, <2>1
      <4>2. CASE j # 1
        <5>1. j - 1 \in 1..k - 1 /\ j - 1 \in 1..n - 1 /\ j - 1 + 1 = j
          BY <4>2, <1>1
        <5> QED BY <5>1, <3>2, <1>7, <1>8
      <4> QED BY <4>1, <4>2
    <3>3. ASSUME \A j \in 1..k : g[j] = "whole", NEW j \in 1..k - 1 PROVE T[j] = "whole"
      <4>1. j + 1 \in 1..k /\ j \in 1..n - 1
        BY <1>1
      <4> QED BY <4>1, <3>3, <1>7, <1>8
    <3>4. k + 1 - 1 = k
      BY <1>1
    <3> HIDE DEF T
    <3> QED BY <3>1, <3>2, <3>3, <3>4 DEF Whole
  <2>3. \A k \in S(T) : k \in 1..n - 1 /\ Whole(T, k)
    BY <1>7, <1>8
  <2>4. f \in Bijection(S(T), R)
    <3>1. \A k \in S(T) : k + 1 \in R
      BY <2>2, <2>3, <1>1
    <3>2. \A a, b \in S(T) : a + 1 = b + 1 => a = b
      BY <2>3, <1>1
    <3>3. ASSUME NEW m \in R PROVE \E k \in S(T) : k + 1 = m
      <4>1. m \in 1..n /\ m # 1 /\ Whole(g, m)
        BY <1>1
      <4>2. m - 1 \in 1..n - 1 /\ m - 1 + 1 = m
        BY <4>1, <1>1
      <4>3. m - 1 \in S(T)
        BY <4>1, <4>2, <2>2, <1>7, <1>8
      <4> QED BY <4>2, <4>3
    <3> HIDE DEF S, T, R
    <3>4. f \in [S(T) -> R] /\ \A k \in S(T) : f[k] = k + 1
      BY <3>1
    <3> HIDE DEF f
    <3> QED BY <3>1, <3>2, <3>3, <3>4, Zenon DEF Bijection, Injection, Surjection, IsInjective
  <2>5. IsFiniteSet(S(g)) /\ IsFiniteSet(S(T))
    BY <1>3, <1>7, <1>8
  <2> HIDE DEF S, T, f
  <2>6. Cardinality(R) = Cardinality(S(T))
    BY <2>4, <2>5, FS_Bijection DEF ExistsBijection
  <2>7. Cardinality(R) = Cardinality(S(g)) - 1
    BY <2>1, <2>5, FS_RemoveElement
  <2>8. Cardinality(S(g)) \in Nat
    BY <1>3
  <2> QED BY <2>6, <2>7, <2>8 DEF T
<1> HIDE DEF S
<1>9. Cardinality({}) = 0 /\ Cardinality({1}) = 1
  BY FS_EmptySet, FS_Singleton
<1> QED BY <1>2, <1>3, <1>4, <1>5, <1>6, <1>7, <1>8, <1>9

\* What is left of a message for the decoder's loop is a text.
LEMMA PayloadIsText == \A msg \in Messages : Payload(msg) \in Seq(Groups)
<1> SUFFICES ASSUME NEW msg \in Messages PROVE Payload(msg) \in Seq(Groups)
  OBVIOUS
<1>1. <<>> \in Seq(Groups)
  BY EmptySeq
<1>2. msg.groups \in Seq(Groups)
  BY SeqDef, BoundsAssumption DEF Messages, SeqOf
<1> QED BY <1>1, <1>2 DEF Payload, DecoHistMsg, DecoLiveMsg

\* The connections and the client leave the readings alone.
LEMMA SameReadings ==
  ASSUME ReadInv, SendInv, UNCHANGED readVars,
         \/ at' = at /\ (at = "sending" => send'.back = send.back)
         \/ at = "sending" /\ at' = send.back
         \/ at \in {"wait", "manage", "ended"} /\ at' \in {"wait", "manage", "ended"}
         \/ at \in {"wait", "manage", "ended"} /\ at' = "sending" /\ send'.back = "wait"
         \/ at = "publish" /\ at' = "store"
         \/ at = "publish" /\ at' = "sending" /\ send'.back = "store"
  PROVE  ReadInv'
<1>1. send.back \in {"wait", "store"}
  BY DEF SendInv, SendTypes
<1>2. UNCHANGED <<text, due, lastmsg, offered>> /\ Remaining(text)' = Remaining(text)
  BY DEF readVars, Remaining
<1> QED BY <1>1, <1>2 DEF ReadInv

\* Every step.
LEMMA ReadStep == ASSUME ReadInv, SendInv, [Next]_vars PROVE ReadInv'
<1>1. CASE UNCHANGED vars
  BY <1>1, SameReadings DEF vars, sendVars
<1>2. CASE \E msg \in Messages : ReadMessage(msg)
  <2>1. PICK msg \in Messages : ReadMessage(msg)
    BY <1>2
  <2>2. /\ at = "wait" /\ at' = "decode" /\ UNCHANGED <<lastmsg, offered>>
        /\ text' = Payload(msg) /\ due' = lastmsg + Remaining(text')
    BY <2>1 DEF ReadMessage, ReadingsOf, Remaining
  <2>3. Remaining(text)' = Remaining(text')
    BY DEF Remaining
  <2> QED BY <2>2, <2>3, PayloadIsText DEF ReadInv
<1>3. CASE Consume
  <2>1. /\ at = "decode" /\ at' = "publish" /\ text # <<>> /\ Head(text) # "malformed"
        /\ lastmsg' = lastmsg + 1 /\ UNCHANGED <<due, offered>>
        /\ text' = IF Head(text) = "crossed" THEN <<>> ELSE Tail(text)
    BY <1>3 DEF Consume
  <2>2. text \in Seq(Groups) /\ lastmsg \in Nat /\ offered = lastmsg
        /\ due = lastmsg + Remaining(text)
    BY <2>1 DEF ReadInv
  <2>3. Head(text) \in Groups /\ <<>> \in Seq(Groups)
    BY <2>1, <2>2, HeadTailProperties, EmptySeq
  <2>4. /\ text' \in Seq(Groups) /\ Remaining(text') \in Nat
        /\ Remaining(text) = Remaining(text') + 1
    <3>1. CASE Head(text) = "crossed"
      <4>1. text' = <<>> /\ Remaining(text) = 1
        BY <3>1, <2>1, <2>2, RemainingOfText
      <4>2. Remaining(<<>>) = 0
        BY <2>3, RemainingOfText
      <4> QED BY <4>1, <4>2, <2>3
    <3>2. CASE Head(text) = "whole"
      <4>1. text' = Tail(text) /\ Tail(text) \in Seq(Groups)
            /\ Remaining(text) = Remaining(Tail(text)) + 1
        BY <3>2, <2>1, <2>2, RemainingOfText
      <4> QED BY <4>1, RemainingOfText
    <3> QED BY <3>1, <3>2, <2>1, <2>3 DEF Groups
  <2>5. Remaining(text)' = Remaining(text')
    BY DEF Remaining
  <2>6. due = lastmsg + 1 + Remaining(text') /\ offered + 1 = lastmsg + 1
    BY <2>2, <2>4
  <2> QED BY <2>1, <2>2, <2>4, <2>5, <2>6 DEF ReadInv
<1>4. CASE DecodeEnds
  <2>1. /\ at = "decode" /\ at' = "wait" /\ (text # <<>> => Head(text) = "malformed")
        /\ text' = <<>> /\ UNCHANGED <<due, lastmsg, offered>>
    BY <1>4 DEF DecodeEnds
  <2>2. text \in Seq(Groups) /\ Remaining(text) = 0
    BY <2>1, RemainingOfText DEF ReadInv
  <2>3. <<>> \in Seq(Groups)
    BY EmptySeq
  <2>4. lastmsg \in Nat /\ due = lastmsg /\ offered = lastmsg
    BY <2>1, <2>2 DEF ReadInv
  <2> QED BY <2>1, <2>3, <2>4 DEF ReadInv
<1>5. CASE Store
  <2>1. at = "store" /\ at' = "decode" /\ offered' = offered + 1 /\ UNCHANGED <<text, due, lastmsg>>
    BY <1>5 DEF Store
  <2>2. Remaining(text)' = Remaining(text)
    BY <2>1 DEF Remaining
  <2> QED BY <2>1, <2>2 DEF ReadInv
<1>6. CASE StoreThrows
  <2>1. /\ at \in {"decode", "store"} /\ at' = "crashed"
        /\ UNCHANGED <<text, due, lastmsg, offered>>
    BY <1>6 DEF StoreThrows, readVars
  <2>2. /\ text \in Seq(Groups) /\ lastmsg \in Nat /\ offered \in Nat
        /\ due = lastmsg + Remaining(text)
        /\ offered = lastmsg \/ offered + 1 = lastmsg
    BY <2>1 DEF ReadInv
  <2>3. due \in Nat /\ lastmsg <= due /\ offered <= lastmsg
    <3>1. PICK r \in Nat : r = Remaining(text)
      BY <2>2, RemainingOfText
    <3> QED BY <2>2, <3>1
  <2> QED BY <2>1, <2>2, <2>3 DEF ReadInv
<1>7. CASE Publish
  <2>1. /\ at = "publish" /\ UNCHANGED readVars
        /\ at' = "store" \/ (at' = "sending" /\ send'.back = "store")
    BY <1>7 DEF Publish, SendBytes
  <2> QED BY <2>1, SameReadings
<1>8. CASE SendTakes
  <2>1. at' = at /\ UNCHANGED readVars /\ send'.back = send.back
    BY <1>8 DEF SendTakes, SendInv, SendTypes
  <2> QED BY <2>1, SameReadings
<1>9. CASE SendReturns \/ SendFails
  <2>1. at = "sending" /\ at' = send.back /\ UNCHANGED readVars
    BY <1>9 DEF SendReturns, SendFails, ShortSend
  <2> QED BY <2>1, SameReadings
<1>10. CASE OnRequest
  <2>1. at = "manage" /\ at' = "sending" /\ send'.back = "wait" /\ UNCHANGED readVars
    BY <1>10 DEF OnRequest, SendBytes
  <2> QED BY <2>1, SameReadings
<1>11. CASE SelectIdle \/ ManageReturns \/ OnNewConnection \/ OnLiveData \/ OnEndLiveData
            \/ ClientClosed \/ LoopEnds
  <2>1. /\ at \in {"wait", "manage", "ended"} /\ at' \in {"wait", "manage", "ended"}
        /\ UNCHANGED readVars
    BY <1>11 DEF SelectIdle, ManageReturns, OnNewConnection, OnLiveData, OnEndLiveData,
                 ClientClosed, LoopEnds
  <2> QED BY <2>1, SameReadings
<1>12. CASE Sigterm \/ Tick
  <2>1. CASE Blocked /\ ShortSend
    <3>1. at = "sending" /\ at' = send.back /\ UNCHANGED readVars
      BY <2>1 DEF Blocked, ShortSend
    <3> QED BY <3>1, SameReadings
  <2>2. CASE UNCHANGED <<at, readVars, conn, feed, sendVars, restarts>>
    <3>1. at' = at /\ UNCHANGED readVars /\ send' = send
      BY <2>2 DEF sendVars
    <3> QED BY <3>1, SameReadings
  <2> QED BY <1>12, <2>1, <2>2 DEF Sigterm, Tick
<1>13. CASE ClientReads \/ ClientLeaves
  <2>1. at' = at /\ UNCHANGED readVars /\ send' = send
    BY <1>13 DEF ClientReads, ClientLeaves
  <2> QED BY <2>1, SameReadings
<1> QED BY <1>1, <1>2, <1>3, <1>4, <1>5, <1>7, <1>8, <1>9, <1>10, <1>11, <1>12, <1>13,
             <1>6 DEF Next, Thread, Over

-----------------------------------------------------------------------------
(* The theorems.                                                            *)

\* Nothing was sent, read or offered at first.
LEMMA InitInvariant == ASSUME Init PROVE SendInv /\ ReadInv
<1>1. /\ at = "wait" /\ text = <<>> /\ due = 0 /\ lastmsg = 0 /\ offered = 0
      /\ send = [no |-> 0, len |-> 0, taken |-> 0, back |-> "wait"] /\ stream = <<>>
  BY DEF Init, NoSend
<1>2. SendInv
  BY <1>1, EmptySeq DEF SendInv, SendTypes, Newest, Ordered
<1>3. ReadInv
  BY <1>1, EmptySeq DEF ReadInv
<1> QED BY <1>2, <1>3

\* The two inductive invariants hold in every behaviour of the daemon and the client.
THEOREM Inductive == Spec => [](SendInv /\ ReadInv)
<1>1. SendInv /\ ReadInv /\ [Next]_vars => (SendInv /\ ReadInv)'
  BY SendStep, ReadStep
<1> QED BY InitInvariant, <1>1, PTL DEF Spec

\* No send is repeated, overtakes another or has a hole, however the client reads, leaves and
\* comes back and whenever signals come (CServerSocket.cpp:244-271).
THEOREM SendsInOrder == Spec => []Ordered
<1>1. SendInv => Ordered
  BY DEF SendInv
<1> QED BY Inductive, <1>1, PTL

\* Whatever the client does, every reading of a message is handed to the database, once,
\* unless the process died; what the database keeps of it is another matter
\* (envi_raw_msg.cpp:127-187).
THEOREM AllOffered == Spec => []AllReadings
<1>1. ReadInv => AllReadings
  BY DEF ReadInv, AllReadings
<1> QED BY Inductive, <1>1, PTL
-----------------------------------------------------------------------------
(* Types.                                                                   *)

Places ==
  /\ at \in {"wait", "decode", "publish", "sending", "store", "manage", "ended",
             "crashed"}
  /\ conn \in {"none", "open", "dead"} /\ offered \in Nat

Flags == term \in BOOLEAN /\ feed \in BOOLEAN /\ restarts \in BOOLEAN

\* There is a feed for a client only.
FeedOfClient == feed => conn # "none"

LineSend == [no : Nat, len : 0..MaxLen, taken : 0..MaxLen, back : {"wait", "store"}]

\* A send within its line, and what the client has of it.
Sends ==
  /\ send \in LineSend /\ send.taken <= send.len
  /\ stream \in Seq(Nat \X (1..MaxLen)) /\ unread \in 0..Window

\* A send that ends early.
LEMMA ShortSendTypes ==
  ASSUME Sends, ShortSend
  PROVE  /\ Sends' /\ at' \in {"wait", "store"} /\ offered' = offered
         /\ \/ conn' = "none" /\ feed' = FALSE
            \/ conn' = conn /\ feed' = feed
<1>1. /\ at' = send.back /\ send' = send /\ stream' = stream
      /\ offered' = offered
  BY DEF ShortSend, readVars
<1>2. \/ conn' = "none" /\ feed' = FALSE /\ unread' = 0
      \/ conn' = conn /\ feed' = feed /\ unread' = unread
  BY DEF ShortSend, RemoveConnection
<1>3. send.back \in {"wait", "store"} /\ send.no \in Nat
  BY DEF Sends, LineSend
<1>4. unread' \in 0..Window
  BY <1>2, LineAssumption DEF Sends
<1>5. Sends'
  BY <1>1, <1>3, <1>4 DEF Sends
<1> QED BY <1>1, <1>2, <1>3, <1>5

\* Nothing was sent at first.
LEMMA SendsInitial == Init => Sends
<1> SUFFICES ASSUME Init PROVE Sends
  OBVIOUS
<1>1. send = [no |-> 0, len |-> 0, taken |-> 0, back |-> "wait"] /\ send \in LineSend
  BY LineAssumption DEF Init, NoSend, LineSend
<1> QED BY <1>1, LineAssumption, EmptySeq DEF Init, Sends

\* A send takes no more than the line has and the window holds.
LEMMA SendsStep == ASSUME Sends, [Next]_vars PROVE Sends'
<1>1. MaxLen \in Nat \ {0} /\ LineLen \in 1..MaxLen /\ Window \in Nat \ {0}
  BY LineAssumption
<1>2. CASE UNCHANGED <<send, stream, unread>>
  BY <1>2 DEF Sends
<1>3. ASSUME NEW len \in 0..MaxLen, NEW back \in {"wait", "store"}, SendBytes(len, back),
             UNCHANGED <<stream, unread>>
      PROVE  Sends'
  <2>1. send' = [no |-> send.no + 1, len |-> len, taken |-> 0, back |-> back] /\ send.no \in Nat
    BY <1>3 DEF SendBytes, Sends, LineSend
  <2>2. send' \in LineSend /\ send'.taken = 0 /\ send'.len = len
    BY <2>1, <1>1 DEF LineSend
  <2> QED BY <1>3, <2>2 DEF Sends
<1>4. CASE SendTakes
  <2>1. /\ send' = [send EXCEPT !.taken = send.taken + 1]
        /\ send.taken < send.len /\ unread < Window
        /\ stream' = Append(stream, <<send.no, send'.taken>>) /\ unread' = unread + 1
    BY <1>4 DEF SendTakes
  <2>2. send.taken + 1 \in 1..MaxLen /\ send.no \in Nat
    BY <1>1, <2>1 DEF Sends, LineSend
  <2>3. send' \in LineSend /\ send'.taken = send.taken + 1 /\ send'.len = send.len
    <3>1. send \in LineSend
      BY DEF Sends
    <3>2. send' = [no |-> send.no, len |-> send.len, taken |-> send.taken + 1,
                   back |-> send.back]
      BY <2>1, <3>1 DEF LineSend
    <3>3. send.taken + 1 \in 0..MaxLen
      BY <1>1, <2>2
    <3>4. send.no \in Nat /\ send.len \in 0..MaxLen /\ send.back \in {"wait", "store"}
      BY <3>1 DEF LineSend
    <3> QED BY <3>2, <3>3, <3>4 DEF LineSend
  <2>4. send'.taken <= send'.len
    BY <1>1, <2>1, <2>3 DEF Sends, LineSend
  <2>5. stream' \in Seq(Nat \X (1..MaxLen))
    BY <2>1, <2>2, <2>3, AppendProperties DEF Sends
  <2>6. unread' \in 0..Window
    BY <1>1, <2>1 DEF Sends
  <2> QED BY <2>1, <2>3, <2>4, <2>5, <2>6 DEF Sends
<1>5. CASE OnNewConnection
  BY <1>5, EmptySeq DEF OnNewConnection, Sends
<1>6. CASE StoreThrows \/ ClientClosed \/ LoopEnds \/ ClientReads \/ ClientLeaves
  <2>1. (unread' = 0 \/ (unread > 0 /\ unread' = unread - 1)) /\ UNCHANGED <<send, stream>>
    BY <1>6 DEF StoreThrows, ClientClosed, LoopEnds, ClientReads, ClientLeaves,
                RemoveConnection
  <2>2. unread' \in 0..Window
    BY <1>1, <2>1 DEF Sends
  <2> QED BY <2>1, <2>2 DEF Sends
<1>7. CASE Publish \/ OnRequest
  BY <1>1, <1>2, <1>3, <1>7 DEF Publish, OnRequest
<1>8. CASE SendFails \/ Sigterm \/ Tick
  BY <1>2, <1>8, ShortSendTypes DEF SendFails, Sigterm, Tick, sendVars
<1>9. CASE \/ \E msg \in Messages : ReadMessage(msg)
           \/ Consume \/ DecodeEnds \/ Store \/ SendReturns \/ SelectIdle \/ ManageReturns
           \/ OnLiveData \/ OnEndLiveData \/ Over
  BY <1>2, <1>9 DEF ReadMessage, Consume, DecodeEnds, Store, SendReturns, SelectIdle,
                    ManageReturns, OnLiveData, OnEndLiveData, Over, vars, sendVars
<1> QED BY <1>2, <1>4, <1>5, <1>6, <1>7, <1>8, <1>9 DEF Next, Thread, vars, sendVars

\* Where the thread is, and that a reading stored stays counted.
LEMMA PlacesStep == ASSUME Sends, Places, [Next]_vars PROVE Places'
<1> USE DEF Places
<1>1. send.back \in {"wait", "store"}
  BY DEF Sends, LineSend
<1>2. CASE UNCHANGED vars
  BY <1>2 DEF vars, readVars
<1>3. CASE SendFails \/ Sigterm \/ Tick
  BY <1>3, ShortSendTypes DEF SendFails, Sigterm, Tick, readVars
<1>4. CASE \/ \E msg \in Messages : ReadMessage(msg)
           \/ Consume \/ DecodeEnds \/ Store \/ StoreThrows
  BY <1>4 DEF ReadMessage, Consume, DecodeEnds, Store, StoreThrows, RemoveConnection,
              readVars
<1>5. CASE Publish \/ SendTakes \/ SendReturns \/ SelectIdle \/ ManageReturns
  BY <1>1, <1>5 DEF Publish, SendBytes, SendTakes, SendReturns, SelectIdle, ManageReturns,
                    readVars
<1>6. CASE \/ OnNewConnection \/ OnLiveData \/ OnEndLiveData \/ OnRequest \/ ClientClosed
           \/ LoopEnds \/ ClientReads \/ ClientLeaves \/ Over
  BY <1>6 DEF OnNewConnection, OnLiveData, OnEndLiveData, OnRequest, SendBytes, ClientClosed,
              LoopEnds, RemoveConnection, ClientReads, ClientLeaves, Over, vars, readVars
<1> QED BY <1>2, <1>3, <1>4, <1>5, <1>6 DEF Next, Thread

\* The feed is turned on for a client and off when it is removed, by whatever call.
LEMMA FeedStep == ASSUME Sends, FeedOfClient, [Next]_vars PROVE FeedOfClient'
<1>1. CASE UNCHANGED <<conn, feed>>
  BY <1>1 DEF FeedOfClient
<1>2. CASE conn' # "none" \/ feed' = FALSE
  BY <1>2 DEF FeedOfClient
<1>3. CASE SendFails \/ Sigterm \/ Tick
  BY <1>1, <1>2, <1>3, ShortSendTypes DEF SendFails, Sigterm, Tick
<1> QED BY <1>1, <1>2, <1>3
        DEF Next, Thread, ReadMessage, Consume, DecodeEnds, Store, StoreThrows, Publish, SendTakes,
            SendReturns, SelectIdle, ManageReturns, OnNewConnection, OnLiveData, OnEndLiveData,
            OnRequest, ClientClosed, LoopEnds, RemoveConnection, ClientReads, ClientLeaves,
            Over, vars

\* The flags are set and reset.
LEMMA FlagsStep == ASSUME Sends, Flags, [Next]_vars PROVE Flags'
<1>1. restarts' = restarts
  BY DEF Next, Thread, ReadMessage, Consume, DecodeEnds, Store, StoreThrows, Publish, SendTakes,
         SendReturns, SendFails, ShortSend, SelectIdle, ManageReturns, OnNewConnection,
         OnLiveData, OnEndLiveData, OnRequest, ClientClosed, LoopEnds, Sigterm, Tick,
         ClientReads, ClientLeaves, Over, vars
<1>2. term' = term \/ term' = TRUE
  BY DEF Next, Thread, ReadMessage, Consume, DecodeEnds, Store, StoreThrows, Publish, SendTakes,
         SendReturns, SendFails, SelectIdle, ManageReturns, OnNewConnection,
         OnLiveData, OnEndLiveData, OnRequest, ClientClosed, LoopEnds, Sigterm, Tick,
         ClientReads, ClientLeaves, Over, vars
<1>3. feed' = feed \/ feed' = TRUE \/ feed' = FALSE
  <2>1. CASE SendFails \/ Sigterm \/ Tick
    BY <2>1, ShortSendTypes DEF SendFails, Sigterm, Tick
  <2> QED BY <2>1
          DEF Next, Thread, ReadMessage, Consume, DecodeEnds, Store, StoreThrows, Publish,
              SendTakes, SendReturns, SelectIdle, ManageReturns, OnNewConnection, OnLiveData,
              OnEndLiveData, OnRequest, ClientClosed, LoopEnds, RemoveConnection, ClientReads,
              ClientLeaves, Over, vars
<1> QED BY <1>1, <1>2, <1>3, Zenon DEF Flags

\* A reading is due before it is consumed and consumed before it is offered.
LEMMA Counted ==
  ASSUME ReadInv, Places
  PROVE  due \in Nat /\ lastmsg \in 0..due /\ offered \in 0..lastmsg
<1>1. lastmsg \in Nat /\ offered \in Nat /\ text \in Seq(Groups)
  BY DEF ReadInv, Places
<1>2. Remaining(text) \in Nat
  BY <1>1, RemainingOfText
<1> QED BY <1>1, <1>2 DEF ReadInv

\* The state keeps its types: a send never passes the end of its line, the kernel never
\* holds more than the window, the feed never outlives its client, and no more readings are
\* stored than consumed or consumed than due (CServerSocket.cpp:253-268,
\* envi_raw_msg.cpp:146-212, peibol.cpp:287-292).
THEOREM TypeCorrect == Spec => []TypeOK
<1> DEFINE TypeInv == Sends /\ Places /\ FeedOfClient /\ Flags
<1>1. Init => TypeInv
  <2> SUFFICES ASSUME Init PROVE TypeInv
    OBVIOUS
  <2>1. Places /\ FeedOfClient
    BY DEF Init, Places, FeedOfClient
  <2>2. Flags
    BY Zenon DEF Init, Flags
  <2> QED BY <2>1, <2>2, SendsInitial
<1>2. TypeInv /\ [Next]_vars => TypeInv'
  BY SendsStep, PlacesStep, FeedStep, FlagsStep
<1>3. ReadInv /\ TypeInv => TypeOK
  <2> SUFFICES ASSUME ReadInv, TypeInv PROVE TypeOK
    OBVIOUS
  <2>1. text \in Seq(Groups)
    BY DEF ReadInv
  <2> QED BY <2>1, Counted, Zenon DEF Sends, LineSend, Places, FeedOfClient, Flags, TypeOK
<1> QED BY <1>1, <1>2, <1>3, Inductive, PTL DEF Spec

-----------------------------------------------------------------------------
(* The thread's way back to the serial line.                                *)

\* What is left of a reading, of a command or of a message before the next wait.
Stage(a) ==
  IF a \in {"publish", "manage"} THEN 4 ELSE IF a = "sending" THEN 3
  ELSE IF a = "store" THEN 2 ELSE IF a = "decode" THEN 1 ELSE 0

\* The message gets shorter, or the thread passes to a later stage, or the send has less to
\* send.
Nearer ==
  \/ Len(text') < Len(text)
  \/ Len(text') = Len(text) /\ Stage(at') < Stage(at)
  \/ /\ text' = text /\ at = "sending" /\ at' = "sending"
     /\ send'.len - send'.taken < send.len - send.taken

\* Between two waits the thread's steps bring it nearer to the next wait, and a signal or
\* the client at most end a send.
Turn ==
  at \notin {"wait", "ended", "crashed"} =>
    /\ Thread => Nearer
    /\ ~Thread => Nearer \/ UNCHANGED <<at, text, send>>

TurnsShorten == [][Turn]_vars

LEMMA Stages ==
  /\ Stage("publish") = 4 /\ Stage("manage") = 4 /\ Stage("sending") = 3 /\ Stage("store") = 2
  /\ Stage("decode") = 1 /\ Stage("wait") = 0 /\ Stage("crashed") = 0
BY DEF Stage

\* A send that ends early is over.
LEMMA ShortSendNearer ==
  ASSUME Sends, text \in Seq(Groups), at = "sending", ShortSend PROVE Nearer
<1>1. text' = text /\ at' \in {"wait", "store"}
  BY ShortSendTypes DEF ShortSend, readVars
<1>2. Len(text') = Len(text)
  BY <1>1
<1> QED BY <1>1, <1>2, Stages DEF Nearer

\* The thread's steps.
LEMMA ThreadNearer ==
  ASSUME Sends, text \in Seq(Groups), at \notin {"wait", "ended", "crashed"}, Thread PROVE Nearer
<1>1. /\ Len(text) \in Nat /\ (text # <<>> => Len(Tail(text)) = Len(text) - 1)
      /\ (text # <<>> => Len(text) > 0) /\ Len(<<>>) = 0
  BY LenProperties, HeadTailProperties, EmptySeq
<1>2. CASE Consume
  <2>1. text # <<>> /\ (text' = <<>> \/ text' = Tail(text))
    BY <1>2 DEF Consume
  <2> QED BY <1>1, <2>1 DEF Nearer
<1>3. CASE DecodeEnds
  <2>1. text' = <<>> /\ at = "decode" /\ at' = "wait"
    BY <1>3 DEF DecodeEnds
  <2>2. Len(text') < Len(text) \/ Len(text') = Len(text)
    BY <1>1, <2>1
  <2> QED BY <2>1, <2>2, Stages DEF Nearer
<1>4. CASE SendTakes
  <2>1. /\ text' = text /\ at = "sending" /\ at' = "sending"
        /\ send' = [send EXCEPT !.taken = @ + 1]
    BY <1>4 DEF SendTakes, readVars
  <2>2. send.len \in Nat /\ send.taken \in Nat
    BY LineAssumption DEF Sends, LineSend
  <2>3. send'.taken = send.taken + 1 /\ send'.len = send.len
    BY <2>1 DEF Sends, LineSend
  <2> QED BY <2>1, <2>2, <2>3 DEF Nearer
<1>5. CASE SendFails
  BY <1>5, ShortSendNearer DEF SendFails
<1>6. CASE Publish \/ Store \/ StoreThrows \/ SendReturns \/ ManageReturns
           \/ OnNewConnection \/ OnLiveData \/ OnEndLiveData \/ OnRequest \/ ClientClosed
  <2>1. text' = text
    BY <1>6 DEF Publish, Store, StoreThrows, SendReturns, ManageReturns, OnNewConnection,
                OnLiveData,
                OnEndLiveData, OnRequest, ClientClosed, readVars
  <2>2. \/ at \in {"publish", "manage"} /\ at' \in {"sending", "store", "wait"}
        \/ at = "store" /\ at' = "decode"
        \/ at \in {"decode", "store"} /\ at' = "crashed"
        \/ at = "sending" /\ at' \in {"wait", "store"}
    BY <1>6 DEF Publish, SendBytes, Store, StoreThrows, SendReturns, Sends, LineSend, ManageReturns,
                OnNewConnection, OnLiveData, OnEndLiveData, OnRequest, ClientClosed
  <2>3. Len(text') = Len(text)
    BY <2>1
  <2> QED BY <2>2, <2>3, Stages DEF Nearer
<1> QED BY <1>2, <1>3, <1>4, <1>5, <1>6 DEF Thread, ReadMessage, SelectIdle, LoopEnds

\* The thread's way from one wait to the next is bounded: a message has as many turns as
\* groups, a reading one send, a send as many parts as its line, and neither the client nor
\* a signal lengthens it.  What SerialServed, which TLC checks, adds is that no send waits
\* for ever (envi_raw_msg.cpp:120-212, CServerSocket.cpp:253-268).
THEOREM ReturnsToSerial == Spec => TurnsShorten
<1> DEFINE TypeInv == Sends /\ text \in Seq(Groups)
<1>1. TypeInv /\ [Next]_vars => [Turn]_vars
  <2> SUFFICES ASSUME TypeInv, Next, at \notin {"wait", "ended", "crashed"}
               PROVE  /\ Thread => Nearer
                      /\ ~Thread => Nearer \/ UNCHANGED <<at, text, send>>
    BY DEF Turn
  <2>1. Thread => Nearer
    BY ThreadNearer
  <2>2. ASSUME ~Thread PROVE Nearer \/ UNCHANGED <<at, text, send>>
    <3>1. CASE Sigterm \/ Tick
      <4>1. (at = "sending" /\ ShortSend) \/ UNCHANGED <<at, text, send>>
        BY <3>1, Zenon DEF Sigterm, Tick, Blocked, readVars, sendVars
      <4> QED BY <4>1, ShortSendNearer
    <3>2. CASE ClientReads \/ ClientLeaves \/ Over
      BY <3>2, Zenon DEF ClientReads, ClientLeaves, Over, vars, readVars, sendVars
    <3> QED BY <2>2, <3>1, <3>2 DEF Next
  <2> QED BY <2>1, <2>2
<1>2. ReadInv /\ Sends => TypeInv
  BY DEF ReadInv
<1>3. Spec => []Sends
  BY SendsInitial, SendsStep, PTL DEF Spec
<1> QED BY <1>1, <1>2, <1>3, Inductive, PTL DEF Spec, TurnsShorten
===============================================================================
