--------------------------- MODULE MeterStoreProofs ---------------------------
(***************************************************************************)
(* Theorems about MeterStore for any sensors, channels and messages.       *)
(***************************************************************************)
EXTENDS MeterStore, SequenceTheorems, TLAPS

(***************************************************************************)
(* The inductive invariant: what holds of the tables and, within a         *)
(* message, what the statements already executed have left.                *)
(***************************************************************************)

\* The statement in turn: the message's sensor has its row, and between the two rows
\* of a channel the first one is there, with this sensor if the second is to come.
InTurn ==
  /\ at \in {"channel", "canal"} => msg.sensor \in DOMAIN sensores
  /\ at = "canal" =>
       /\ i \in 1..Len(msg.chs)
       /\ ts \in DOMAIN log
       /\ ts \in DOMAIN log_canal \union torn \/ log[ts] = msg.sensor

\* The inductive invariant.
IInv == TypeOK /\ References /\ SameSensor /\ NoOrphan /\ InTurn

\* A message holds the channels given.
LEMMA SeqOfType ==
  ASSUME NEW S, NEW n \in Nat, NEW s \in SeqOf(S, n)
  PROVE  s \in Seq(S)
<1>1. PICK k \in 0..n : s \in [1..k -> S]
  BY DEF SeqOf
<1> QED BY <1>1, SeqDef

\* The program starts with empty tables and no message.
LEMMA IInvInit == Init => IInv
<1> SUFFICES ASSUME Init PROVE IInv
  OBVIOUS
<1>1. DOMAIN sensores = {} /\ DOMAIN log = {} /\ DOMAIN log_canal = {}
  BY DEF Init, Empty
<1>2. Idle \in [sensor : Sensors, chs : Seq(Channels)] /\ Len(Idle.chs) = 0
  BY SensorsAssumption, EmptySeq DEF Idle
<1>3. TypeOK
  BY <1>1, <1>2 DEF Init, TypeOK, IsTable
<1> QED BY <1>1, <1>3 DEF Init, IInv, References, SameSensor, NoOrphan, InTurn

\* Every statement, the clock, a death and a restart keep the types.
LEMMA TypeOKStep == IInv /\ [Next]_vars => TypeOK'
<1> SUFFICES ASSUME IInv, [Next]_vars PROVE TypeOK'
  OBVIOUS
<1> USE DEF IInv, TypeOK, IsTable, tables
<1>0. Len(msg.chs) \in Nat
  BY LenProperties
<1>1. ASSUME NEW s \in Sensors, NEW chs \in SeqOf(Channels, MaxChannels), Message(s, chs)
      PROVE  TypeOK'
  <2>1. chs \in Seq(Channels) /\ Len(chs) \in Nat
    BY SeqOfType, ChannelsAssumption, LenProperties
  <2>2. msg' \in [sensor : Sensors, chs : Seq(Channels)] /\ msg'.chs = chs
    BY <1>1, <2>1 DEF Message
  <2> QED BY <1>1, <2>1, <2>2 DEF Message
<1>2. CASE InsertSensor
  <2>1. IsTable(sensores, Sensors, Channels \union {0})'
    BY <1>2 DEF InsertSensor, InsertOrIgnore
  <2> QED BY <1>2, <2>1 DEF InsertSensor
<1>3. CASE InsertLog
  <2>1. IsTable(log, Nat, Sensors)'
    BY <1>3 DEF InsertLog, InsertOrIgnore
  <2> QED BY <1>3, <2>1 DEF InsertLog
<1>4. CASE InsertCanal
  <2>1. i \in 1..Len(msg.chs) /\ msg.chs[i] \in Channels
    BY <1>4, ElementOfSeq DEF InTurn, InsertCanal
  <2>2. [sensor |-> msg.sensor, ch |-> msg.chs[i]] \in Rows
    BY <2>1 DEF Rows
  <2>3. IsTable(log_canal, Nat, Rows)'
    BY <1>4, <2>2 DEF InsertCanal, InsertOrIgnore
  <2>4. max_ch' \in Channels \union {-1} /\ i' \in 1..Len(msg.chs) + 1
    BY <1>4, <1>0, <2>1 DEF InsertCanal
  <2> QED BY <1>4, <2>3, <2>4 DEF InsertCanal
<1>5. CASE UpdateSensor
  <2>1. IsTable(sensores, Sensors, Channels \union {0})'
    BY <1>5 DEF UpdateSensor
  <2> QED BY <1>5, <2>1 DEF UpdateSensor
<1>6. CASE Tick
  BY <1>6, ChannelsAssumption DEF Tick
<1>7. CASE Die
  <2>1. Idle \in [sensor : Sensors, chs : Seq(Channels)] /\ Len(Idle.chs) = 0
    BY SensorsAssumption, EmptySeq DEF Idle
  <2> QED BY <1>7, <2>1 DEF Die
<1>8. CASE Restart
  BY <1>8 DEF Restart
<1>9. CASE UNCHANGED vars
  BY <1>9 DEF vars
<1> QED BY <1>1, <1>2, <1>3, <1>4, <1>5, <1>6, <1>7, <1>8, <1>9 DEF Next

\* No statement leaves a reference dangling, mixes the rows of a second or forgets
\* one that was to come.
LEMMA RowsStep ==
  IInv /\ [Next]_vars => (References /\ SameSensor /\ NoOrphan /\ InTurn)'
<1> SUFFICES ASSUME IInv, [Next]_vars
             PROVE  (References /\ SameSensor /\ NoOrphan /\ InTurn)'
  OBVIOUS
<1> USE DEF IInv, References, SameSensor, NoOrphan, InTurn, tables
<1>1. ASSUME NEW s \in Sensors, NEW chs \in SeqOf(Channels, MaxChannels), Message(s, chs)
      PROVE  (References /\ SameSensor /\ NoOrphan /\ InTurn)'
  BY <1>1 DEF Message
<1>2. CASE InsertSensor
  <2>1. /\ DOMAIN sensores \subseteq DOMAIN sensores'
        /\ msg.sensor \in DOMAIN sensores'
    BY <1>2 DEF InsertSensor, InsertOrIgnore
  <2> QED BY <1>2, <2>1 DEF InsertSensor
<1>3. CASE InsertLog
  <2>1. /\ DOMAIN log' = DOMAIN log \union {clock}
        /\ \A t \in DOMAIN log : log'[t] = log[t]
        /\ clock \notin DOMAIN log => log'[clock] = msg.sensor
    BY <1>3 DEF InsertLog, InsertOrIgnore
  <2>2. References'
    BY <1>3, <2>1 DEF InsertLog
  <2>3. SameSensor'
    BY <1>3, <2>1 DEF InsertLog
  <2>4. NoOrphan'
    BY <1>3, <2>1 DEF InsertLog
  <2>5. i \in 1..Len(msg.chs)
    BY <1>3, LenProperties DEF InsertLog, TypeOK
  <2>6. clock \in DOMAIN log => clock \in DOMAIN log_canal \union torn
    BY <1>3 DEF InsertLog
  <2>7. InTurn'
    BY <1>3, <2>1, <2>5, <2>6 DEF InsertLog
  <2> QED BY <2>2, <2>3, <2>4, <2>7
<1>4. CASE InsertCanal
  <2> DEFINE row == [sensor |-> msg.sensor, ch |-> msg.chs[i]]
  <2>1. /\ DOMAIN log_canal' = DOMAIN log_canal \union {ts}
        /\ \A t \in DOMAIN log_canal : log_canal'[t] = log_canal[t]
        /\ ts \notin DOMAIN log_canal => log_canal'[ts] = row
    BY <1>4 DEF InsertCanal, InsertOrIgnore
  <2>2. row.sensor = msg.sensor
    OBVIOUS
  <2>3. /\ ts \in DOMAIN log /\ msg.sensor \in DOMAIN sensores
        /\ ts \in DOMAIN log_canal \union torn \/ log[ts] = msg.sensor
    BY <1>4 DEF InsertCanal
  <2>4. References' /\ SameSensor'
    BY <1>4, <2>1, <2>2, <2>3 DEF InsertCanal
  <2>5. NoOrphan' /\ InTurn'
    BY <1>4, <2>1, <2>3 DEF InsertCanal
  <2> QED BY <2>4, <2>5
<1>5. CASE UpdateSensor
  <2>1. DOMAIN sensores' = DOMAIN sensores
    BY <1>5 DEF UpdateSensor
  <2> QED BY <1>5, <2>1 DEF UpdateSensor
<1>6. CASE Tick
  BY <1>6 DEF Tick
<1>7. CASE Die
  BY <1>7 DEF Die
<1>8. CASE Restart
  BY <1>8 DEF Restart
<1>9. CASE UNCHANGED vars
  BY <1>9 DEF vars
<1> QED BY <1>1, <1>2, <1>3, <1>4, <1>5, <1>6, <1>7, <1>8, <1>9 DEF Next

\* The invariant every statement, death and restart preserves.
THEOREM Inductive == Spec => []IInv
<1>1. IInv /\ [Next]_vars => IInv'
  BY TypeOKStep, RowsStep DEF IInv
<1> QED BY IInvInit, <1>1, PTL DEF Spec

\* The tables, the message being stored and the timestamps keep their types.
THEOREM TypeCorrect == Spec => []TypeOK
<1>1. IInv => TypeOK
  BY DEF IInv
<1> QED BY <1>1, Inductive, PTL

\* deco_live_msg() never leaves a row that refers to a missing one, whatever the
\* sensors, the channels and the moments at which the process dies.
THEOREM ReferencesHold == Spec => []References
<1>1. IInv => References
  BY DEF IInv
<1> QED BY <1>1, Inductive, PTL

\* Only a death between two statements lets the rows of one second come from two
\* sensors, also when the clock is set back.
THEOREM SensorsAgree == Spec => []SameSensor
<1>1. IInv => SameSensor
  BY DEF IInv
<1> QED BY <1>1, Inductive, PTL

\* Only a death between the two statements of a channel leaves a log row alone.
THEOREM NoRowAlone == Spec => []NoOrphan
<1>1. IInv => NoOrphan
  BY DEF IInv
<1> QED BY <1>1, Inductive, PTL

\* No statement changes or removes a row of log or log_canal, nor forgets a sensor.
THEOREM RowsStay == Spec => RowsKept
<1>1. ASSUME [Next]_vars
      PROVE  [/\ KeptIn(log, log') /\ KeptIn(log_canal, log_canal')
              /\ DOMAIN sensores \subseteq DOMAIN sensores']_vars
  <2> USE DEF KeptIn, tables
  <2>1. CASE InsertSensor
    BY <2>1 DEF InsertSensor, InsertOrIgnore
  <2>2. CASE InsertLog
    BY <2>2 DEF InsertLog, InsertOrIgnore
  <2>3. CASE InsertCanal
    BY <2>3 DEF InsertCanal, InsertOrIgnore
  <2>4. CASE UpdateSensor
    BY <2>4 DEF UpdateSensor
  <2>5. ASSUME NEW s, NEW chs, Message(s, chs)
        PROVE  KeptIn(log, log') /\ KeptIn(log_canal, log_canal') /\ sensores' = sensores
    BY <2>5 DEF Message
  <2>6. CASE Tick \/ Die \/ Restart
    BY <2>6 DEF Tick, Die, Restart
  <2> QED BY <1>1, <2>1, <2>2, <2>3, <2>4, <2>5, <2>6 DEF Next
<1> QED BY <1>1, PTL DEF Spec, RowsKept
===============================================================================
