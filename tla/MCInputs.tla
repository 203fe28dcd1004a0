------------------------------- MODULE MCInputs -------------------------------
(***************************************************************************)
(* The two texts the daemon reads, of which a behaviour follows one: the   *)
(* meter's stream (SerialFraming), or a client's lines (CommandLine), of   *)
(* up to three words with none, one or (after the first) two spaces        *)
(* between them, ended or not, and followed by another line or not.        *)
(***************************************************************************)
EXTENDS SerialFraming, CommandLine

VARIABLE channel \* the text followed: meter or client

MCCmds == {"GET", "CAPTURE", "other"}
MCObjs == {"LAST", "DATA"}
MCArgs == {"START", "STOP", "other"}
MCOptional(words) == {<<>>} \union {<<w>> : w \in words}
MCGaps == {<<>>, <<"SP">>}
MCFirstGaps == MCGaps \union {<<"SP", "SP">>}
MCLines == {a \o g \o b \o h \o c :
              a \in MCOptional(MCCmds), b \in MCOptional(MCObjs), c \in MCOptional(MCArgs),
              g \in MCFirstGaps, h \in MCGaps}
MCTexts == {l \o <<"EOL">> : l \in MCLines} \union
           {<<"CAPTURE", "SP", "DATA", "SP", "STOP", "EOL", "GET", "SP", "LAST", "EOL">>}
MCLeftover == {<<>>, <<"EOL">>, <<"START", "EOL">>, <<"SP", "LAST", "EOL">>}

-----------------------------------------------------------------------------
InputsInit == FramingInit /\ Init /\ channel \in {"meter", "client"}

InputsNext ==
  \/ channel = "meter" /\ FramingNext /\ UNCHANGED <<vars, channel>>
  \/ channel = "client" /\ Next /\ UNCHANGED <<framingVars, channel>>

InputsSpec ==
  /\ InputsInit /\ [][InputsNext]_<<framingVars, vars, channel>>
  /\ WF_framingVars(CutBlock \/ Clear)
===============================================================================
