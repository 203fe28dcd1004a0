------------------------------ MODULE MeterStore ------------------------------
(***************************************************************************)
(* The database: deco_live_msg() stores each live message with four kinds  *)
(* of statements, each a transaction of its own, and the process may die   *)
(* between any two of them (a signal, or sqlite answering BUSY, whose      *)
(* exception nobody catches).  A table is a function from its primary key; *)
(* the times are seconds, the primary key of log and log_canal.  Only this *)
(* process writes.  Temperatures and watts are left out.                   *)
(***************************************************************************)
EXTENDS Integers, SequencesExt

CONSTANTS Sensors,     \* sensors, each an (id, type) pair
          CtSensors,   \* those of type 1 (current transformer)
          Channels,    \* channel numbers
          MaxChannels, \* bound: channels in one message
          MaxTime      \* bound of the clock

ASSUME SensorsAssumption == Sensors # {} /\ CtSensors \subseteq Sensors
ASSUME ChannelsAssumption ==
  Channels \subseteq Nat /\ MaxChannels \in Nat /\ MaxTime \in Nat

VARIABLES sensores,  \* table: sensor -> n_ch
          log,       \* table: timestamp -> sensor
          log_canal, \* table: timestamp -> sensor and channel
          clock,
          at,        \* next statement: idle, sensor, channel, canal, or down
          msg,       \* the message being stored: sensor and channels
          i,         \* channel of the message in turn
          ts,        \* el_log.v1, the timestamp of both rows of a channel
          max_ch,
          torn       \* history: timestamps whose second row the process did not write

tables == <<sensores, log, log_canal>>
vars == <<tables, clock, at, msg, i, ts, max_ch, torn>>

Idle == [sensor |-> CHOOSE s \in Sensors : TRUE, chs |-> <<>>]
Empty == [k \in {} |-> 0]

Init ==
  /\ sensores = Empty /\ log = Empty /\ log_canal = Empty
  /\ clock = 0 /\ at = "idle" /\ msg = Idle /\ i = 1 /\ ts = 0 /\ max_ch = -1
  /\ torn = {}

\* Mutant: INSERT OR REPLACE.
InsertOrReplace(table, key, row) ==
  [k \in DOMAIN table \union {key} |-> IF k = key THEN row ELSE table[k]]

\* INSERT OR IGNORE: a row whose primary key is taken is dropped in silence.
InsertOrIgnore(table, key, row) ==
  [k \in DOMAIN table \union {key} |-> IF k \in DOMAIN table THEN table[k] ELSE row]

Message(s, chs) ==
  /\ at = "idle" /\ at' = "sensor"
  /\ msg' = [sensor |-> s, chs |-> chs] /\ i' = 1 /\ max_ch' = -1
  /\ UNCHANGED <<tables, clock, ts, torn>>

\* Impulse meters (types 2 to 4) and unknown types store nothing else.
InsertSensor ==
  /\ at = "sensor"
  /\ sensores' = InsertOrIgnore(sensores, msg.sensor, 0)
  /\ at' = IF msg.sensor \in CtSensors THEN "channel" ELSE "idle"
  /\ UNCHANGED <<log, log_canal, clock, msg, i, ts, max_ch, torn>>

\* Mutant: the log row is written for the first channel only.
InsertLogOnce ==
  /\ at = "channel" /\ i <= Len(msg.chs) /\ at' = "canal"
  /\ ts' = clock
  /\ log' = IF i = 1 THEN InsertOrIgnore(log, clock, msg.sensor) ELSE log
  /\ UNCHANGED <<sensores, log_canal, clock, msg, i, max_ch, torn>>

InsertLog ==
  /\ at = "channel" /\ i <= Len(msg.chs) /\ at' = "canal"
  /\ ts' = clock
  /\ log' = InsertOrIgnore(log, clock, msg.sensor)
  /\ UNCHANGED <<sensores, log_canal, clock, msg, i, max_ch, torn>>

\* Mutant: the channel's row takes the time anew.
InsertCanalNow ==
  /\ at = "canal" /\ at' = "channel"
  /\ log_canal' = InsertOrIgnore(log_canal, clock, [sensor |-> msg.sensor, ch |-> msg.chs[i]])
  /\ max_ch' = IF msg.chs[i] > max_ch THEN msg.chs[i] ELSE max_ch
  /\ i' = i + 1
  /\ UNCHANGED <<sensores, log, clock, msg, ts, torn>>

\* Mutant: INSERT OR REPLACE for the channel's row.
InsertCanalReplaces ==
  /\ at = "canal" /\ at' = "channel"
  /\ log_canal' = InsertOrReplace(log_canal, ts, [sensor |-> msg.sensor, ch |-> msg.chs[i]])
  /\ max_ch' = IF msg.chs[i] > max_ch THEN msg.chs[i] ELSE max_ch
  /\ i' = i + 1
  /\ UNCHANGED <<sensores, log, clock, msg, ts, torn>>

InsertCanal ==
  /\ at = "canal" /\ at' = "channel"
  /\ log_canal' = InsertOrIgnore(log_canal, ts, [sensor |-> msg.sensor, ch |-> msg.chs[i]])
  /\ max_ch' = IF msg.chs[i] > max_ch THEN msg.chs[i] ELSE max_ch
  /\ i' = i + 1
  /\ UNCHANGED <<sensores, log, clock, msg, ts, torn>>

\* Mutant: the count is written although no channel was read.
UpdateSensorAlways ==
  /\ at = "channel" /\ i > Len(msg.chs) /\ at' = "idle"
  /\ sensores' = [sensores EXCEPT ![msg.sensor] = max_ch]
  /\ UNCHANGED <<log, log_canal, clock, msg, i, ts, max_ch, torn>>

UpdateSensor ==
  /\ at = "channel" /\ i > Len(msg.chs) /\ at' = "idle"
  /\ sensores' = IF max_ch = -1 THEN sensores
                 ELSE [sensores EXCEPT ![msg.sensor] = max_ch]
  /\ UNCHANGED <<log, log_canal, clock, msg, i, ts, max_ch, torn>>

\* The system's clock: it may also be set back, to seconds that already have rows.
Tick ==
  /\ clock' \in 0..MaxTime \ {clock}
  /\ UNCHANGED <<tables, at, msg, i, ts, max_ch, torn>>

Die ==
  /\ at # "down" /\ at' = "down"
  /\ torn' = IF at = "canal" THEN torn \union {ts} ELSE torn
  /\ msg' = Idle /\ i' = 1 /\ ts' = 0 /\ max_ch' = -1
  /\ UNCHANGED <<tables, clock>>

\* CREATE TABLE IF NOT EXISTS finds the tables as they were left.
Restart ==
  /\ at = "down" /\ at' = "idle"
  /\ UNCHANGED <<tables, clock, msg, i, ts, max_ch, torn>>

Next ==
  \/ \E s \in Sensors, chs \in SeqOf(Channels, MaxChannels) : Message(s, chs)
  \/ InsertSensor \/ InsertLog \/ InsertCanal \/ UpdateSensor
  \/ Tick \/ Die \/ Restart

Spec == Init /\ [][Next]_vars

-----------------------------------------------------------------------------
Rows == [sensor : Sensors, ch : Channels]
IsTable(t, keys, rows) == DOMAIN t \subseteq keys /\ \A k \in DOMAIN t : t[k] \in rows

TypeOK ==
  /\ IsTable(sensores, Sensors, Channels \union {0})
  /\ IsTable(log, Nat, Sensors) /\ IsTable(log_canal, Nat, Rows)
  /\ clock \in Nat /\ ts \in Nat
  /\ at \in {"idle", "sensor", "channel", "canal", "down"}
  /\ msg \in [sensor : Sensors, chs : Seq(Channels)]
  /\ i \in 1..Len(msg.chs) + 1
  /\ max_ch \in Channels \union {-1}
  /\ torn \subseteq Nat

\* The FOREIGN KEYs of the schema hold although sqlite does not enforce them here:
\* the statements' order keeps them, whenever the process dies.
References ==
  /\ \A t \in DOMAIN log : log[t] \in DOMAIN sensores
  /\ \A t \in DOMAIN log_canal : /\ t \in DOMAIN log
                                 /\ log_canal[t].sensor \in DOMAIN sensores

\* The two rows of a second come from the same sensor, unless the process died
\* between them and a reading of the same second, after a restart, took the place.
SameSensor ==
  \A t \in DOMAIN log \intersect DOMAIN log_canal :
     t \notin torn => log_canal[t].sensor = log[t]

\* Every log row gets its log_canal row, unless the process dies between the two.
NoOrphan ==
  \A t \in DOMAIN log : \/ t \in DOMAIN log_canal
                        \/ t \in torn
                        \/ at = "canal" /\ ts = t

\* What was stored stays: no row is changed or removed, no sensor forgotten.
KeptIn(t, u) == \A k \in DOMAIN t : k \in DOMAIN u /\ u[k] = t[k]
RowsKept ==
  [][/\ KeptIn(log, log') /\ KeptIn(log_canal, log_canal')
     /\ DOMAIN sensores \subseteq DOMAIN sensores']_vars

\* "Tabla log_canal con watts para cada canal" (envi_raw_msg.cpp:169): once a message
\* is through, each of its channels has a row.
EveryChannelStored ==
  at = "channel" /\ i > Len(msg.chs) =>
     \A k \in 1..Len(msg.chs) :
        \E t \in DOMAIN log_canal :
           log_canal[t] = [sensor |-> msg.sensor, ch |-> msg.chs[k]]
===============================================================================
