----------------------------- MODULE SerialFraming -----------------------------
(***************************************************************************)
(* From bytes to messages: run() appends what each read() returns to buf   *)
(* and, once buf holds both tags, hands all of it to envi_raw_msg, which   *)
(* cuts <msg>...</msg> blocks out of its copy; then buf is cleared.        *)
(*                                                                         *)
(* The meter's stream is a sequence of pieces.  Message k is five of them: *)
(* the two halves of its opening tag, its body and the two halves of its   *)
(* closing tag, so that a read can end anywhere, also within a tag.        *)
(***************************************************************************)
EXTENDS Integers, SequencesExt

CONSTANT MaxMessages \* bound: messages the meter sends

ASSUME MessagesAssumption == MaxMessages \in Nat

VARIABLES sent,    \* pieces of the stream read so far
          buf,     \* run(): bytes not handed over yet
          theMsg,  \* the decoder's copy
          at,      \* reading or cutting
          blocks,  \* history: the blocks handed to msg(), in order
          cutShort \* history: messages of which clear() dropped a part only

framingVars == <<sent, buf, theMsg, at, blocks, cutShort>>

Parts == <<"<m", "sg>", "body", "</m", "sg/>">>
Piece(n) == [part |-> Parts[(n % 5) + 1], msg |-> n \div 5]
Stream(m, n) == [j \in 1..n |-> Piece(m + j - 1)]

\* string::find of a tag, from a position on: the first position, or 0 for npos.
FindTag(s, from, first, second) ==
  LET found == {j \in from..Len(s) - 1 : s[j].part = first /\ s[j + 1].part = second}
  IN  IF found = {} THEN 0 ELSE Min(found)

Opening(s, from) == FindTag(s, from, "<m", "sg>")
Closing(s, from) == FindTag(s, from, "</m", "sg/>")

\* envi_msg_completo(): both tags occur, in any order.
Completo(s) == Opening(s, 1) # 0 /\ Closing(s, 1) # 0

FramingInit ==
  /\ sent = 0 /\ buf = <<>> /\ theMsg = <<>> /\ at = "reading"
  /\ blocks = <<>> /\ cutShort = {}

\* Mutant: the decoder gets the text as it was before the last read().
HandOverBeforeAppend(n) ==
  LET all == buf \o Stream(sent, n) IN
  /\ buf' = all
  /\ IF Completo(all) THEN theMsg' = buf /\ at' = "cutting" ELSE UNCHANGED <<theMsg, at>>

\* buf.append(); a complete buf goes to the constructor or to update_msg().
HandOver(n) ==
  LET all == buf \o Stream(sent, n) IN
  /\ buf' = all
  /\ IF Completo(all) THEN theMsg' = all /\ at' = "cutting" ELSE UNCHANGED <<theMsg, at>>

\* read() returns n pieces.
Read(n) ==
  /\ at = "reading" /\ sent + n <= 5 * MaxMessages
  /\ sent' = sent + n
  /\ HandOver(n)
  /\ UNCHANGED <<blocks, cutShort>>

\* Mutant: the longest match, <msg>(.*)</msg>.
BlockEndGreedy(s) == Max({Closing(s, j) : j \in 1..Len(s)})

\* The shortest match of <msg>(.*?)</msg> from the first opening tag.
BlockEnd(s) == Closing(s, Opening(s, 1) + 2)

Matches(s) == Opening(s, 1) # 0 /\ BlockEnd(s) # 0

\* Mutant: the block is not found again in the text, and stays.
CutBlockNotFound == at = "cutting" /\ Matches(theMsg) /\ UNCHANGED framingVars

\* One turn of procesa_msgs(): the block is cut out, tags included, and decoded.
CutBlock ==
  /\ at = "cutting" /\ Matches(theMsg)
  /\ blocks' = Append(blocks, SubSeq(theMsg, Opening(theMsg, 1) + 2, BlockEnd(theMsg) - 1))
  /\ theMsg' = SubSeq(theMsg, 1, Opening(theMsg, 1) - 1)
                 \o SubSeq(theMsg, BlockEnd(theMsg) + 2, Len(theMsg))
  /\ UNCHANGED <<sent, buf, at, cutShort>>

PartsOf(s, k) == {p.part : p \in {q \in ToSet(s) : q.msg = k}}

\* No match left: buf is cleared, with the part of a message that was in it.
Clear ==
  /\ at = "cutting" /\ ~Matches(theMsg)
  /\ buf' = <<>> /\ at' = "reading"
  /\ cutShort' = cutShort \union
       {k \in 0..MaxMessages - 1 : PartsOf(buf, k) \notin {{}, ToSet(Parts)}}
  /\ UNCHANGED <<sent, theMsg, blocks>>

StreamEnds == at = "reading" /\ sent = 5 * MaxMessages /\ UNCHANGED framingVars

FramingNext ==
  \/ \E n \in 1..5 * MaxMessages : Read(n)
  \/ CutBlock \/ Clear \/ StreamEnds

FramingSpec == FramingInit /\ [][FramingNext]_framingVars
FairFraming == FramingSpec /\ WF_framingVars(CutBlock \/ Clear)

-----------------------------------------------------------------------------
IsText(s) == \A p \in ToSet(s) : p.part \in ToSet(Parts) /\ p.msg \in 0..MaxMessages - 1

TextOK ==
  /\ sent \in 0..5 * MaxMessages
  /\ IsText(buf) /\ IsText(theMsg) /\ \A b \in ToSet(blocks) : IsText(b)
  /\ at \in {"reading", "cutting"}
  /\ cutShort \subseteq 0..MaxMessages - 1

\* Every block decoded is the body of one message, and the messages are decoded in
\* the order the meter sent them, none twice, wherever the reads end.
BlocksWhole ==
  /\ \A b \in ToSet(blocks) : Len(b) = 1 /\ b[1].part = "body"
  /\ \A j, k \in 1..Len(blocks) : j < k => blocks[j][1].msg < blocks[k][1].msg

Decoded == {b[1].msg : b \in ToSet(blocks)}

\* A message read to its end is decoded before the next read() unless buf.clear()
\* dropped a part of it: procesa_msgs() finds every whole block of what it is given.
LostOnlyByClear ==
  at = "reading" => \A k \in 0..MaxMessages - 1 :
     5 * (k + 1) <= sent => k \in Decoded \union cutShort

\* Cutting ends: procesa_msgs() returns and the daemon reads again.
CuttingEnds == at = "cutting" ~> at = "reading"
===============================================================================
