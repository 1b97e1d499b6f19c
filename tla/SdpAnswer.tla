------------------------------- MODULE SdpAnswer -------------------------------
(***************************************************************************)
(* What parse_answer (sdp.py) makes of the answer to a monitoring offer, an  *)
(* action for each turn of its loop over the lines.  A line is a record of   *)
(* the kind of thing it says and of the part of it that matters:             *)
(*   "media"       kind, whether the port is open, RTP/SAVP or not, payloads *)
(*   "connection", "direction", "rtpmap", "crypto"   (c= and a= lines)       *)
(*   "bad", "unreadable"       a line, an attribute that is malformed         *)
(*   "other"       anything that is skipped, an empty line included          *)
(* Below it Promised says the same from the positions of the lines alone.    *)
(***************************************************************************)
EXTENDS Naturals, Sequences

CONSTANTS
  None,
  Rejected   \* an answer that is not accepted

VARIABLES
  parser,      \* "waiting" for the answer, "parsing" it, "done"
  body,        \* the lines of the answer
  at,          \* how many of them have been read
  connected,   \* the session has a connection of its own
  sections,    \* the last of them is the current one
  negotiated   \* Rejected, or the audio leg of the call

readVars == <<body, at, connected, sections>>
parserVars == <<parser, body, at, connected, sections, negotiated>>

ParserInit ==
  /\ parser = "waiting" /\ body = << >> /\ at = 0
  /\ connected = FALSE /\ sections = << >> /\ negotiated = None

Transmits == {"sendonly", "sendrecv"}
Hears == {"recvonly", "sendrecv"}

\* the first and the last of some positions
Earliest(positions) == CHOOSE i \in positions : \A j \in positions : i <= j
Latest(positions) == CHOOSE i \in positions : \A j \in positions : j <= i

-----------------------------------------------------------------------------
(* Reading the lines *)

ParseBegins(lines) ==
  /\ parser = "waiting"
  /\ parser' = "parsing" /\ body' = lines
  /\ UNCHANGED <<at, connected, sections, negotiated>>

\* the next line says what
Line(what) == parser = "parsing" /\ at < Len(body) /\ body[at + 1].is = what

LineRead == at' = at + 1 /\ UNCHANGED <<parser, body, negotiated>>

\* where the section begins is not kept by the code
NewSection(line, begins) ==
  [kind |-> line.kind, open |-> line.open, savp |-> line.savp,
   payloads |-> line.payloads, connected |-> connected, line |-> begins,
   direction |-> "sendrecv", rtpmap |-> << >>, crypto |-> "none"]

ReadsMedia ==
  /\ Line("media")
  /\ sections' = Append(sections, NewSection(body[at + 1], at + 1))
  /\ UNCHANGED connected
  /\ LineRead

Current == sections[Len(sections)]

\* the section that is being read is changed
Amends(section) ==
  /\ sections' = [sections EXCEPT ![Len(sections)] = section]
  /\ UNCHANGED connected
  /\ LineRead

ReadsSessionConnection ==
  /\ Line("connection") /\ sections = << >>
  /\ connected' = TRUE
  /\ UNCHANGED sections
  /\ LineRead

ReadsConnection ==
  /\ Line("connection") /\ sections # << >>
  /\ Amends([Current EXCEPT !.connected = TRUE])

\* an attribute of the current section; those of the session are skipped
Attribute(what) == Line(what) /\ sections # << >>

ReadsDirection ==
  /\ Attribute("direction")
  /\ Amends([Current EXCEPT !.direction = body[at + 1].direction])

ReadsRtpmap ==
  /\ Attribute("rtpmap")
  /\ LET line == body[at + 1]
         mapped == DOMAIN Current.rtpmap \cup {line.payload}
     IN Amends([Current EXCEPT !.rtpmap =
          [p \in mapped |-> IF p = line.payload THEN line.codec ELSE @[p]]])

ReadsCrypto ==
  /\ Attribute("crypto")
  /\ Amends([Current EXCEPT !.crypto = body[at + 1].crypto])

SkipsLine ==
  /\ \/ Line("other")
     \/ /\ sections = << >>
        /\ \E what \in {"direction", "rtpmap", "crypto", "unreadable"} : Line(what)
  /\ UNCHANGED <<connected, sections>>
  /\ LineRead

LineFails ==
  /\ Line("bad") \/ Attribute("unreadable")
  /\ parser' = "done" /\ negotiated' = Rejected
  /\ UNCHANGED readVars

-----------------------------------------------------------------------------
(* Judging the sections *)

\* payloads 0 and 8 have a codec without an rtpmap line
CodecOf(rtpmap, p) ==
  IF p \in DOMAIN rtpmap THEN rtpmap[p]
  ELSE IF p = 0 THEN "pcmu" ELSE IF p = 8 THEN "pcma" ELSE None

\* MediaDescription.codec goes by the order of the answer
Named(section, codecs) ==
  {k \in DOMAIN section.payloads : CodecOf(section.rtpmap, section.payloads[k]) \in codecs}

Wanted(section) == section.kind \in {"audio", "video"} /\ section.open

\* mutant: the key is not looked at
SecuredByName(section) == section.savp /\ section.connected

Secured(section) == section.savp /\ section.crypto = "good" /\ section.connected

OfKind(kind) == {i \in DOMAIN sections : sections[i].kind = kind /\ sections[i].open}

AudioLeg(section) ==
  LET first == Earliest(Named(section, {"pcma", "pcmu"}))
  IN [codec |-> CodecOf(section.rtpmap, section.payloads[first]),
      direction |-> section.direction]

\* the last section of its kind is the one that counts
Judgement ==
  LET audio == sections[Latest(OfKind("audio"))]
      video == sections[Latest(OfKind("video"))]
  IN IF /\ \A i \in DOMAIN sections : Wanted(sections[i]) => Secured(sections[i])
        /\ OfKind("video") # {} /\ Named(video, {"h264"}) # {}
        /\ video.direction \in Transmits
        /\ OfKind("audio") # {} => Named(audio, {"pcma", "pcmu"}) # {}
     THEN IF OfKind("audio") = {} THEN [codec |-> None, direction |-> None]
          ELSE AudioLeg(audio)
     ELSE Rejected

Judges ==
  /\ parser = "parsing" /\ at = Len(body)
  /\ parser' = "done" /\ negotiated' = Judgement
  /\ UNCHANGED readVars

ParserStep ==
  \/ ReadsMedia \/ ReadsSessionConnection \/ ReadsConnection
  \/ ReadsDirection \/ ReadsRtpmap \/ ReadsCrypto \/ SkipsLine
  \/ LineFails \/ Judges

-----------------------------------------------------------------------------
(* The same, said of the positions of the lines *)

Said(lines, what) == {i \in DOMAIN lines : lines[i].is = what}

\* those of the section whose media line is at m
Lines(lines, m) ==
  {i \in DOMAIN lines : i > m /\ \A n \in Said(lines, "media") : n <= m \/ i < n}

Preamble(lines) == {i \in DOMAIN lines : \A n \in Said(lines, "media") : i < n}

Direction(lines, m) ==
  LET said == Lines(lines, m) \cap Said(lines, "direction")
  IN IF said = {} THEN "sendrecv" ELSE lines[Latest(said)].direction

PayloadCodec(lines, m, p) ==
  LET said == {i \in Lines(lines, m) \cap Said(lines, "rtpmap") : lines[i].payload = p}
  IN IF said # {} THEN lines[Latest(said)].codec
     ELSE IF p = 0 THEN "pcmu" ELSE IF p = 8 THEN "pcma" ELSE None

Offers(lines, m, codecs) ==
  {k \in DOMAIN lines[m].payloads : PayloadCodec(lines, m, lines[m].payloads[k]) \in codecs}

Protected(lines, m) ==
  LET keys == Lines(lines, m) \cap Said(lines, "crypto")
  IN /\ lines[m].savp
     /\ keys # {} /\ lines[Latest(keys)].crypto = "good"
     /\ (Lines(lines, m) \cup Preamble(lines)) \cap Said(lines, "connection") # {}

Open(lines, kind) == {m \in Said(lines, "media") : lines[m].kind = kind /\ lines[m].open}

\* no line is malformed; before the first section attributes are not looked at
Readable(lines) ==
  Said(lines, "bad") = {} /\ Said(lines, "unreadable") \subseteq Preamble(lines)

\* the audio leg, or Rejected; video has no more to it than that it is there
Promised(lines) ==
  LET audio == Open(lines, "audio")
      video == Open(lines, "video")
      a == Latest(audio)
      v == Latest(video)
      g711 == Offers(lines, a, {"pcma", "pcmu"})
  IN IF /\ Readable(lines)
        /\ \A m \in audio \cup video : Protected(lines, m)
        /\ video # {} /\ Offers(lines, v, {"h264"}) # {} /\ Direction(lines, v) \in Transmits
        /\ audio # {} => g711 # {}
     THEN IF audio = {} THEN [codec |-> None, direction |-> None]
          ELSE [codec |-> PayloadCodec(lines, a, lines[a].payloads[Earliest(g711)]),
                direction |-> Direction(lines, a)]
     ELSE Rejected

=============================================================================
