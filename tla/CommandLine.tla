------------------------------ MODULE CommandLine ------------------------------
(***************************************************************************)
(* A client's bytes on their way to a command: readData() receives what    *)
(* has arrived, onMessageReceived() makes a string of it and CMessage      *)
(* parses its first line.                                                  *)
(*                                                                         *)
(* The buffer of readData() is not terminated: the string goes on with     *)
(* what the stack holds behind the received bytes, up to the first NUL     *)
(* there, for instance the rest of an earlier message.                     *)
(*                                                                         *)
(* Text is a sequence of symbols: words, the space, and EOL for either of  *)
(* \r and \n.  "other" is any other word.                                  *)
(***************************************************************************)
EXTENDS Integers, SequencesExt, FiniteSetsExt

CONSTANTS Texts,    \* what a client may send
          Leftover, \* what may be behind the received bytes
          BufLen    \* bound: symbols in a read (256 bytes in the code)

Words == {"GET", "LAST", "CAPTURE", "DATA", "START", "STOP", "other"}
Symbols == Words \union {"SP", "EOL"}

ASSUME TextsAssumption == Texts \subseteq Seq(Symbols) /\ Leftover \subseteq Seq(Symbols)
ASSUME BufLenAssumption == BufLen \in Nat \ {0}

VARIABLES wire,     \* sent and not yet read
          got,      \* received by the latest recv()
          behind,   \* what was behind it
          message,  \* the CMessage made of it
          type,     \* what its getType() returned
          answer,   \* what was sent back: none, reading, NOK
          liveData,
          m         \* the decoder exists

vars == <<wire, got, behind, message, type, answer, liveData, m>>

-----------------------------------------------------------------------------
(* CMessage.  Position 0 stands for npos.                                   *)

Find(s, symbol, from) ==
  LET at == {k \in from..Len(s) : s[k] = symbol}
  IN  IF at = {} THEN 0 ELSE Min(at)

Nothing == [lastcmd |-> "unknown", args |-> <<>>]

\* The command, given its words.
Lastcmd(cmd, obj, args) ==
  IF cmd = <<"GET">> /\ obj = <<"LAST">> THEN "GETLAST"
  ELSE IF cmd = <<"CAPTURE">> /\ obj = <<"DATA">> /\ args = <<"START">> THEN "CAPTURE_START"
  ELSE IF cmd = <<"CAPTURE">> /\ obj = <<"DATA">> /\ args = <<"STOP">> THEN "CAPTURE_STOP"
  ELSE "unknown"

\* The words of a text: cmd up to the first space, obj up to the second, args the rest;
\* a command has at least two words.
Parse(msg) ==
  LET spc  == Find(msg, "SP", 1)
      spc2 == Find(msg, "SP", spc + 1)
      obj  == SubSeq(msg, spc + 1, IF spc2 = 0 THEN Len(msg) ELSE spc2 - 1)
      args == IF spc2 = 0 THEN <<>> ELSE SubSeq(msg, spc2 + 1, Len(msg))
  IN  IF spc = 0 THEN Nothing
      ELSE [lastcmd |-> Lastcmd(SubSeq(msg, 1, spc - 1), obj, args), args |-> args]

\* Mutant: the words are looked for in all of the text.
CMessageAll(data) == IF Find(data, "EOL", 1) = 0 THEN Nothing ELSE Parse(data)

\* The constructor: the first line is parsed; nothing, if it has no end.
CMessage(data) ==
  LET eol == Find(data, "EOL", 1)
  IN  IF eol = 0 THEN Nothing ELSE Parse(SubSeq(data, 1, eol - 1))

\* Mutant: the two answers of the feed are exchanged.
GetTypeExchanged(lastcmd) ==
  CASE lastcmd = "GETLAST"       -> {"REQ"}
    [] lastcmd = "CAPTURE_START" -> {"CMD_ENDLIVEDATA"}
    [] lastcmd = "CAPTURE_STOP"  -> {"CMD_LIVEDATA"}
    [] OTHER                     -> {"REQ", "CMD_LIVEDATA", "CMD_ENDLIVEDATA", "none"}

\* getType() runs off its end for an unknown command: any value may come out.
GetType(lastcmd) ==
  CASE lastcmd = "GETLAST"       -> {"REQ"}
    [] lastcmd = "CAPTURE_START" -> {"CMD_LIVEDATA"}
    [] lastcmd = "CAPTURE_STOP"  -> {"CMD_ENDLIVEDATA"}
    [] OTHER                     -> {"REQ", "CMD_LIVEDATA", "CMD_ENDLIVEDATA", "none"}

\* Mutant: the arguments are not looked at.
GetResponseAlways(msg) ==
  IF ~m THEN "none" ELSE IF msg.lastcmd = "GETLAST" THEN "reading" ELSE "NOK"

\* getResponse(), for a request.  A reading asked for with arguments is answered with
\* an empty string, of which nothing is sent.
GetResponse(msg) ==
  IF ~m \/ (msg.lastcmd = "GETLAST" /\ msg.args # <<>>) THEN "none"
  ELSE IF msg.lastcmd = "GETLAST" THEN "reading"
  ELSE "NOK"

-----------------------------------------------------------------------------
Init ==
  /\ wire = <<>> /\ got = <<>> /\ behind = <<>>
  /\ message = Nothing /\ type = "none" /\ answer = "none"
  /\ liveData = FALSE /\ m \in BOOLEAN

\* Mutant: START does not need the decoder.
ApplyWithoutDecoder(msg, t) ==
  CASE t = "REQ"             -> answer' = GetResponse(msg) /\ UNCHANGED liveData
    [] t = "CMD_LIVEDATA"    -> answer' = "none" /\ liveData' = TRUE
    [] t = "CMD_ENDLIVEDATA" -> answer' = "none" /\ liveData' = FALSE
    [] OTHER                 -> answer' = "none" /\ UNCHANGED liveData

\* Without decoder START and STOP end the process (Peibol): not followed here.
Apply(msg, t) ==
  CASE t = "REQ"             -> answer' = GetResponse(msg) /\ UNCHANGED liveData
    [] t = "CMD_LIVEDATA"    -> m /\ answer' = "none" /\ liveData' = TRUE
    [] t = "CMD_ENDLIVEDATA" -> m /\ answer' = "none" /\ liveData' = FALSE
    [] OTHER                 -> answer' = "none" /\ UNCHANGED liveData

\* The string is built from the received bytes and those behind them.
OnMessageReceived(data, rest) ==
  LET msg == CMessage(data \o rest)
  IN  /\ message' = msg
      /\ type' \in GetType(msg.lastcmd)
      /\ Apply(msg, type')

\* recv() ends anywhere in what was sent.
ReadData(n, rest) ==
  /\ wire # <<>> /\ n <= Len(wire)
  /\ got' = SubSeq(wire, 1, n) /\ wire' = SubSeq(wire, n + 1, Len(wire))
  /\ behind' = rest
  /\ OnMessageReceived(got', rest)
  /\ UNCHANGED m

\* The first complete meter message.
DecoderAppears ==
  /\ ~m /\ m' = TRUE
  /\ UNCHANGED <<wire, got, behind, message, type, answer, liveData>>

\* The client sends again once all it sent was read (external); the latest read is
\* forgotten.
Send(text) ==
  /\ wire = <<>> /\ wire' = text
  /\ got' = <<>> /\ behind' = <<>>
  /\ message' = Nothing /\ type' = "none" /\ answer' = "none"
  /\ UNCHANGED <<liveData, m>>

Next ==
  \/ \E text \in Texts : Send(text)
  \/ \E n \in 1..BufLen, rest \in Leftover : ReadData(n, rest)
  \/ DecoderAppears

Spec == Init /\ [][Next]_vars

-----------------------------------------------------------------------------
(* Reference: the grammar "<CMD> <OBJ> <ARGS>" of CMessage's commands, as     *)
(* sets of lines.                                                            *)

Meaning(line) ==
  IF line = <<"GET", "SP", "LAST">> \/ IsPrefix(<<"GET", "SP", "LAST", "SP">>, line)
    THEN "GETLAST"
  ELSE IF line = <<"CAPTURE", "SP", "DATA", "SP", "START">> THEN "CAPTURE_START"
  ELSE IF line = <<"CAPTURE", "SP", "DATA", "SP", "STOP">> THEN "CAPTURE_STOP"
  ELSE "unknown"

\* GET LAST without arguments.
Bare == {<<"GET", "SP", "LAST">>, <<"GET", "SP", "LAST", "SP">>}

Complete(s) == "EOL" \in ToSet(s)
FirstLine(s) == SubSeq(s, 1, Find(s, "EOL", 1) - 1)
Meant(s) == IF Complete(s) THEN Meaning(FirstLine(s)) ELSE "unknown"

TypeOK ==
  /\ wire \in Seq(Symbols) /\ got \in Seq(Symbols) /\ behind \in Seq(Symbols)
  /\ message.lastcmd \in {"unknown", "GETLAST", "CAPTURE_START", "CAPTURE_STOP"}
  /\ message.args \in Seq(Symbols \ {"EOL"})
  /\ type \in {"REQ", "CMD_LIVEDATA", "CMD_ENDLIVEDATA", "none"}
  /\ answer \in {"none", "reading", "NOK"}
  /\ liveData \in BOOLEAN /\ m \in BOOLEAN /\ (liveData => m)

\* What a read is taken to say: its own text or, if that has no complete line, the text
\* together with what is behind it.
Said == IF Complete(got) THEN got ELSE got \o behind

\* A client that sends whole lines is understood by its first one, whatever follows it
\* and whatever the stack holds behind the read; only a part of a line can be completed
\* by what is behind it, and then means what the two make together (peibol.cpp:259,
\* CMessage.cpp:7-73).
FirstLineDecides == message.lastcmd = Meant(Said)

Reads == wire # <<>> /\ wire' # wire

\* What is sent back to a text: without decoder nothing; a reading to GET LAST without
\* arguments, nothing to one with arguments, to START or STOP; NOK or nothing to no command.
AnswersTo(text) ==
  IF ~m THEN {"none"}
  ELSE CASE Meant(text) = "GETLAST" -> {IF FirstLine(text) \in Bare THEN "reading" ELSE "none"}
         [] Meant(text) = "unknown" -> {"none", "NOK"}
         [] OTHER -> {"none"}

\* Every read is answered as what it says demands (CMessage.cpp:75-112, peibol.cpp:259-266).
AnswerFits == [][Reads => answer' \in AnswersTo(Said')]_vars

\* The feed after a text: only what is no command, for which getType() may answer anything,
\* leaves it open.
FeedsAfter(text) ==
  CASE Meant(text) = "CAPTURE_START" -> {TRUE}
    [] Meant(text) = "CAPTURE_STOP" -> {FALSE}
    [] Meant(text) = "GETLAST" -> {liveData}
    [] OTHER -> BOOLEAN

\* Every START that is read starts the feed and every STOP stops it, no request changes it,
\* and neither does anything but a read (CMessage.cpp:107-112, peibol.cpp:268-277).
FeedObeys ==
  [][IF Reads THEN liveData' \in FeedsAfter(Said') ELSE liveData' = liveData]_vars
===============================================================================
