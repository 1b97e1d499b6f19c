---------------------------- MODULE MCMediaAnswer ----------------------------
(* The streams TLC tries: a provisional response with or without a body, the  *)
(* answer, with up to two sections, and a request after it, which may be      *)
(* malformed.                                                                 *)
EXTENDS MediaAnswer

Media(kind, open, savp, payloads) ==
  [is |-> "media", kind |-> kind, open |-> open, savp |-> savp, payloads |-> payloads]
Connection == [is |-> "connection"]
Way(direction) == [is |-> "direction", direction |-> direction]
Map(payload, codec) == [is |-> "rtpmap", payload |-> payload, codec |-> codec]
Crypto(verdict) == [is |-> "crypto", crypto |-> verdict]
Bad == [is |-> "bad"]
BadAttribute == [is |-> "unreadable"]
Header(name, value) == [is |-> name, value |-> value]

Preambles == {<< >>, <<Connection>>, <<Way("recvonly"), BadAttribute, Connection>>}

VideoSections ==
  {<<Media("video", TRUE, TRUE, <<97, 96>>)>> \o attributes :
     attributes \in
       {<<Map(96, "h264"), Crypto("good")>>,
        <<Map(97, "vp8"), Map(96, "h264"), Way("sendonly"), Crypto("good"), Connection>>,
        <<Crypto("good"), Map(96, "h264"), Way("sendonly"), Way("inactive")>>,
        <<Map(96, "h264"), Crypto("good"), Crypto("bad")>>,
        <<Map(96, "vp8"), Crypto("good")>>}}
  \cup {<<Media("video", open, ~open, <<96>>), Map(96, "h264"), Crypto("good"), Connection>> :
          open \in BOOLEAN}

AudioSections ==
  {<<Media("audio", TRUE, TRUE, payloads)>> \o attributes :
     payloads \in {<<8>>, <<101, 0>>},
     attributes \in
       {<<Crypto("good")>>,
        <<Map(8, "opus"), Way("sendonly"), Crypto("good")>>,
        <<Way("recvonly"), BadAttribute, Crypto("good")>>,
        <<Way("recvonly"), Crypto("bad"), Crypto("good"), Blank>>}}
  \cup {<<Media("audio", FALSE, FALSE, <<101>>), BadAttribute>>,
        <<Media("audio", FALSE, TRUE, <<101>>)>>}

Sections == VideoSections \cup AudioSections

Bodies ==
  {<< >>, <<Connection, Bad>>}
  \cup {p \o s : p \in Preambles, s \in Sections}
  \cup {<<Connection>> \o s \o t : s \in Sections, t \in Sections}

Start(line) == [is |-> "start", line |-> line]

Message(line, headers, lines) ==
  [start |-> Start(line), body |-> lines,
   headers |-> headers \o <<Header("content-length", Len(lines))>>]

Provisional ==
  {[start |-> Start("100 INVITE"), headers |-> << >>, body |-> << >>],
   Message("183 INVITE", <<>>, <<Connection, Blank, Media("audio", TRUE, FALSE, <<8>>)>>)}

Answer(lines) ==
  Message("200 INVITE", <<Header("record-route", 1), Header("record-route", 2)>>, lines)

Request ==
  {[start |-> Start("BYE"), headers |-> << >>, body |-> << >>],
   [start |-> Start("OPTIONS"), headers |-> <<Header("content-length", None)>>, body |-> << >>]}

MCTurns == <<Provisional, {Answer(b) : b \in Bodies}, Request>>

MCUnits == UNION {{Wire(m)[i] : i \in DOMAIN Wire(m)} : m \in MCTurns[1] \cup MCTurns[2] \cup MCTurns[3]}

=============================================================================
