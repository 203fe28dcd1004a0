------------------------------ MODULE LiveStream -------------------------------
(***************************************************************************)
(* What one client receives: the sends of the live feed and the answers to *)
(* GET LAST, made by blocking calls from the daemon's only thread while it *)
(* decodes the meter's messages.  The decoder exists from the beginning    *)
(* (Peibol models the time before).                                        *)
(*                                                                         *)
(* A send is cut into parts.  It takes parts while the client's window has *)
(* room, then waits; a signal ends the wait.  send() then answers with the *)
(* parts taken, or, if none was, fails with EINTR, unless the handler      *)
(* asked for a restart: that of SIGTERM does not, that of the display's    *)
(* tick is in another library and may.                                     *)
(*                                                                         *)
(* A send of the feed passes a pointer into a string already freed: how    *)
(* many bytes it sends, and which, is whatever that memory holds.  So a    *)
(* part is known by its place in its send, and nothing here says what a    *)
(* part of the feed contains.                                              *)
(***************************************************************************)
EXTENDS Integers, SequencesExt, FiniteSetsExt

CONSTANTS LineLen,     \* parts of an answer to GET LAST
          MaxLen,      \* bound: parts of a send
          Window,      \* parts the kernel holds for a client that does not read
          MaxGroups,   \* bound: channel groups in a message
          MaxReadings, \* bound: readings decoded
          MaxSends     \* bound: calls of send()

ASSUME LineAssumption ==
  MaxLen \in Nat \ {0} /\ LineLen \in 1..MaxLen /\ Window \in Nat \ {0}
ASSUME BoundsAssumption == MaxGroups \in Nat /\ MaxReadings \in Nat /\ MaxSends \in Nat

VARIABLES at,       \* the thread: wait, decode, publish, sending, store, manage, ended,
                    \* or crashed
          text,     \* groups of the message not yet consumed
          due,      \* history: readings there will be once the message is through
          lastmsg,  \* number of the newest reading; 0: never written
          offered,  \* readings handed to the database
          term,
          conn,     \* none, open, or dead (closed by the client, not yet noticed)
          feed,     \* liveData, for this client
          send,     \* the send going on: its number, length and parts taken
          stream,   \* history: parts taken for this connection, <<send, part>>
          unread,   \* parts the client has not read yet
          restarts  \* the tick's handler restarts a send that it interrupts

sendVars == <<send, stream, unread>>
readVars == <<text, due, lastmsg, offered>>
vars == <<at, readVars, term, conn, feed, sendVars, restarts>>

NoSend == [no |-> 0, len |-> 0, taken |-> 0, back |-> "wait"]

Init ==
  /\ at = "wait" /\ text = <<>> /\ due = 0 /\ lastmsg = 0 /\ offered = 0
  /\ term = FALSE /\ conn = "none" /\ feed = FALSE
  /\ send = NoSend /\ stream = <<>> /\ unread = 0
  /\ restarts \in BOOLEAN

-----------------------------------------------------------------------------
(* The meter's messages.  A group "<chN><watts>W</watts></chN>" is whole    *)
(* (also without its closing tag), crossed (it closes another channel), or  *)
(* malformed: no channel, or W does not fit an int.                         *)

Groups == {"whole", "crossed", "malformed"}

\* Live messages of a current transformer or an impulse meter, histories, and those
\* whose header, type or common fields are not found.
Kinds == {"ct", "impulse", "hist", "unreadable"}
Messages == [kind : Kinds, groups : SeqOf(Groups, MaxGroups)]

\* deco_hist_msg() walks the history and keeps nothing of it.
DecoHistMsg == <<>>

\* deco_live_msg(): what is left for the loop; nothing, for an impulse meter.
DecoLiveMsg(msg) == IF msg.kind = "ct" THEN msg.groups ELSE <<>>

Payload(msg) == IF msg.kind = "hist" THEN DecoHistMsg ELSE DecoLiveMsg(msg)

\* Reference: the readings of a message are its first groups up to one that is
\* malformed, or up to and with one that is crossed.
ReadingsOf(msg) ==
  LET g == Payload(msg)
  IN  Cardinality({k \in DOMAIN g : g[k] # "malformed" /\ \A j \in 1..k - 1 : g[j] = "whole"})

ReadMessage(msg) ==
  /\ at = "wait" /\ ~term /\ at' = "decode"
  /\ text' = Payload(msg) /\ due' = lastmsg + ReadingsOf(msg)
  /\ due' <= MaxReadings
  /\ UNCHANGED <<lastmsg, offered, term, conn, feed, sendVars, restarts>>

\* A turn of Consume()'s loop, which matches at the beginning of the text only: the
\* closing tag of another channel stops the next turn.
Consume ==
  /\ at = "decode" /\ text # <<>> /\ Head(text) # "malformed"
  /\ lastmsg' = lastmsg + 1
  /\ text' = IF Head(text) = "crossed" THEN <<>> ELSE Tail(text)
  /\ at' = "publish"
  /\ UNCHANGED <<due, offered, term, conn, feed, sendVars, restarts>>

DecodeEnds ==
  /\ at = "decode"
  /\ text # <<>> => Head(text) = "malformed"
  /\ at' = "wait" /\ text' = <<>>
  /\ UNCHANGED <<due, lastmsg, offered, term, conn, feed, sendVars, restarts>>

\* removeConnection() and its callback onConnectionClose(), or the kernel's close.
RemoveConnection == conn' = "none" /\ feed' = FALSE /\ unread' = 0

\* The rows of a reading are inserted, or ignored if their keys are there already
\* (MeterStore).
Store ==
  /\ at = "store" /\ at' = "decode" /\ offered' = offered + 1
  /\ UNCHANGED <<text, due, lastmsg, term, conn, feed, sendVars, restarts>>

\* A statement fails, that of a reading or one before or after them all (the sensor's
\* row): nobody catches the exception.
StoreThrows ==
  /\ at \in {"decode", "store"} /\ at' = "crashed"
  /\ RemoveConnection
  /\ UNCHANGED <<readVars, term, send, stream, restarts>>

-----------------------------------------------------------------------------
(* sendBytes().                                                             *)

SendBytes(len, back) ==
  /\ send.no < MaxSends
  /\ send' = [no |-> send.no + 1, len |-> len, taken |-> 0, back |-> back]
  /\ at' = "sending"

\* The bytes sent are those of freed memory up to a NUL.  For none there is no send, as
\* without feed.
Publish ==
  /\ at = "publish"
  /\ \/ at' = "store" /\ UNCHANGED send
     \/ feed /\ \E len \in 1..MaxLen : SendBytes(len, "store")
  /\ UNCHANGED <<readVars, term, conn, feed, stream, unread, restarts>>

SendTakes ==
  /\ at = "sending" /\ conn = "open"
  /\ send.taken < send.len /\ unread < Window
  /\ send' = [send EXCEPT !.taken = @ + 1]
  /\ stream' = Append(stream, <<send.no, send'.taken>>) /\ unread' = unread + 1
  /\ UNCHANGED <<at, readVars, term, conn, feed, restarts>>

SendReturns ==
  /\ at = "sending" /\ send.taken = send.len
  /\ at' = send.back
  /\ UNCHANGED <<readVars, term, conn, feed, sendVars, restarts>>

\* Mutant: a client that cannot be reached ends the message.
ShortSendAbandons ==
  /\ at' = send.back
  /\ IF send.taken = 0 THEN RemoveConnection /\ text' = <<>>
                       ELSE UNCHANGED <<conn, feed, unread, text>>
  /\ UNCHANGED <<due, lastmsg, offered, send, stream, restarts>>

\* The wait ends early.  The rest is dropped; a client that took nothing is
\* removed.
ShortSend ==
  /\ at' = send.back
  /\ IF send.taken = 0 THEN RemoveConnection ELSE UNCHANGED <<conn, feed, unread>>
  /\ UNCHANGED <<readVars, send, stream, restarts>>

SendFails ==
  /\ at = "sending" /\ conn = "dead" /\ send.taken < send.len
  /\ ShortSend /\ UNCHANGED term

Blocked == at = "sending" /\ conn = "open" /\ send.taken < send.len /\ unread = Window

-----------------------------------------------------------------------------
(* manage(): at most one command of the client in a call.                   *)

SelectIdle ==
  /\ at = "wait" /\ ~term /\ at' = "manage"
  /\ UNCHANGED <<readVars, term, conn, feed, sendVars, restarts>>

ManageReturns ==
  /\ at = "manage" /\ at' = "wait"
  /\ UNCHANGED <<readVars, term, conn, feed, sendVars, restarts>>

OnNewConnection ==
  /\ at = "manage" /\ conn = "none" /\ at' = "wait"
  /\ conn' = "open" /\ stream' = <<>>
  /\ UNCHANGED <<readVars, term, feed, send, unread, restarts>>

OnLiveData ==
  /\ at = "manage" /\ conn = "open" /\ at' = "wait"
  /\ feed' = TRUE
  /\ UNCHANGED <<readVars, term, conn, sendVars, restarts>>

OnEndLiveData ==
  /\ at = "manage" /\ conn = "open" /\ at' = "wait"
  /\ feed' = FALSE
  /\ UNCHANGED <<readVars, term, conn, sendVars, restarts>>

\* GET LAST: getLastRead() formats lastmsg, written or not.
OnRequest ==
  /\ at = "manage" /\ conn = "open" /\ SendBytes(LineLen, "wait")
  /\ UNCHANGED <<readVars, term, conn, feed, stream, unread, restarts>>

ClientClosed ==
  /\ at = "manage" /\ conn = "dead" /\ at' = "wait"
  /\ RemoveConnection
  /\ UNCHANGED <<readVars, term, send, stream, restarts>>

\* SIGTERM was seen by the loop: the destructor closes the connections.
LoopEnds ==
  /\ at = "wait" /\ term /\ at' = "ended"
  /\ RemoveConnection
  /\ UNCHANGED <<readVars, term, send, stream, restarts>>

-----------------------------------------------------------------------------
(* Signals and the client.                                                  *)

\* Mutant: a send that a signal interrupts is called again with the whole line.
SigtermRetries ==
  /\ at \notin {"ended", "crashed"} /\ ~term /\ term' = TRUE
  /\ send' = [send EXCEPT !.taken = 0]
  /\ UNCHANGED <<at, readVars, conn, feed, stream, unread, restarts>>

Sigterm ==
  /\ at \notin {"ended", "crashed"} /\ ~term /\ term' = TRUE
  /\ IF Blocked THEN ShortSend ELSE UNCHANGED <<at, readVars, conn, feed, sendVars, restarts>>

\* Mutant: the tick's handler always asks for a restart.
TickRestarts == Blocked /\ send.taken > 0 /\ ShortSend /\ UNCHANGED term

\* A send that has taken something answers also if the handler asked for a restart.
Tick == Blocked /\ (send.taken > 0 \/ ~restarts) /\ ShortSend /\ UNCHANGED term

ClientReads ==
  /\ conn = "open" /\ unread > 0 /\ unread' = unread - 1
  /\ UNCHANGED <<at, readVars, term, conn, feed, send, stream, restarts>>

ClientLeaves ==
  /\ conn = "open" /\ conn' = "dead" /\ unread' = 0
  /\ UNCHANGED <<at, readVars, term, feed, send, stream, restarts>>

Over == at \in {"ended", "crashed"} /\ UNCHANGED vars

-----------------------------------------------------------------------------
Thread ==
  \/ \E msg \in Messages : ReadMessage(msg)
  \/ Consume \/ DecodeEnds \/ Store \/ StoreThrows
  \/ Publish \/ SendTakes \/ SendReturns \/ SendFails
  \/ SelectIdle \/ ManageReturns \/ OnNewConnection \/ OnLiveData \/ OnEndLiveData
  \/ OnRequest \/ ClientClosed \/ LoopEnds

Next == Thread \/ Sigterm \/ Tick \/ ClientReads \/ ClientLeaves \/ Over

Spec == Init /\ [][Next]_vars

\* The thread runs unless it waits in send(), and the display ticks for ever.
FairSpec == Spec /\ WF_vars(Thread) /\ WF_vars(Tick)

-----------------------------------------------------------------------------
TypeOK ==
  /\ at \in {"wait", "decode", "publish", "sending", "store", "manage", "ended",
             "crashed"}
  /\ text \in Seq(Groups) /\ due \in Nat /\ lastmsg \in 0..due /\ offered \in 0..lastmsg
  /\ term \in BOOLEAN /\ feed \in BOOLEAN /\ restarts \in BOOLEAN
  /\ conn \in {"none", "open", "dead"} /\ (feed => conn # "none")
  /\ send \in [no : Nat, len : 0..MaxLen, taken : 0..MaxLen, back : {"wait", "store"}]
  /\ send.taken <= send.len
  /\ stream \in Seq(Nat \X (1..MaxLen)) /\ unread \in 0..Window

\* What a client reads is made of beginnings of the sends to it, in their order: no part
\* of a send comes again, before one of an earlier send, or without those before it.
Ordered ==
  \A k \in DOMAIN stream :
     LET before == IF k = 1 THEN <<0, 0>> ELSE stream[k - 1]
     IN  \/ stream[k][2] = 1 /\ stream[k][1] > before[1]
         \/ stream[k] = <<before[1], before[2] + 1>>

\* A client that is slow, leaves or is removed costs no reading: once a message is
\* through, each of its readings was handed to the database, once, and lastmsg is the
\* newest.  (What the database keeps of them is MeterStore's.)
AllReadings == at \in {"wait", "manage", "ended"} => lastmsg = due /\ offered = due

\* If the tick restarts a send, only the client's reading ends the wait.
Drains == restarts => []<>(conn # "open" \/ unread = 0)

\* The daemon comes back to the meter's line and to manage(): one client that does not
\* read does not stop it for ever.
SerialServed == Drains => []<>(at \in {"wait", "ended", "crashed"})
===============================================================================
