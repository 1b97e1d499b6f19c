------------------------------ MODULE MediaAnswer ------------------------------
(***************************************************************************)
(* The way of the answer to an INVITE from the TLS stream to the microphone: *)
(* the read loop and SipFramer (sip.py) cut the stream into messages however *)
(* it arrives, start_monitoring hands the body of the final response to      *)
(* parse_answer, and set_microphone (media_runtime.py) goes by the outcome.  *)
(*                                                                          *)
(* A message is a record of its start line, its headers and its body; on the *)
(* wire it is one unit for each line.  A read that ends inside a line is the *)
(* same to the framer as one that ends before it, and Content-Length counts  *)
(* units.  Neither feed nor parse_answer suspends, so that nothing but the   *)
(* server runs between the turns of their loops.                             *)
(***************************************************************************)
EXTENDS SdpAnswer

CONSTANTS
  Units,   \* the lines of messages
  Turns    \* the messages that the server may send after the INVITE, by turn

Blank == [is |-> "other"]

VARIABLES
  sent,      \* the messages of the server
  stream,    \* their units
  ends,      \* where in the stream each ends (the code does not know)
  arrived,   \* how many units have been read from the connection
  taken,     \* how many the framer has deleted; its buffer is what is between
  framed,    \* the messages that feed has collected, until they are handled
  handled,   \* the messages that the read loop has handled
  reader,    \* "framing" while feed runs, else "looping" or "failed"
  microphone

readerVars == <<arrived, taken, framed, handled, reader>>
serverVars == <<sent, stream, ends>>
vars == <<parserVars, serverVars, readerVars, microphone>>

-----------------------------------------------------------------------------
(* The server *)

Wire(message) ==
  <<message.start>> \o message.headers \o <<Blank>> \o message.body

ServerSends ==
  /\ Len(sent) < Len(Turns)
  /\ \E message \in Turns[Len(sent) + 1] :
       /\ sent' = Append(sent, message)
       /\ stream' = stream \o Wire(message)
  /\ ends' = Append(ends, Len(stream'))
  /\ UNCHANGED <<parserVars, readerVars, microphone>>

-----------------------------------------------------------------------------
(* SipFramer.feed and the read loop *)

\* record-route headers are joined
Routes(headers) ==
  LET routes == SelectSeq(headers, LAMBDA h : h.is = "record-route")
  IN [i \in DOMAIN routes |-> routes[i].value]

\* Content-Length, the last one if there are several, nothing if there is none
BodyLength(headers) ==
  LET lengths == {i \in DOMAIN headers : headers[i].is = "content-length"}
  IN IF lengths = {} THEN 0 ELSE headers[Latest(lengths)].value

\* what the read loop is given of a message
Read(start, headers, lines) == [start |-> start, routes |-> Routes(headers), body |-> lines]

\* the peer keeps to the format: what it calls the length is it, or no number
WellFormed(message) ==
  /\ message.start \in Units \ {Blank}
  /\ message.headers \in Seq(Units \ {Blank})
  /\ message.body \in Seq(Units)
  /\ BodyLength(message.headers) \in {None, Len(message.body)}

ASSUME StreamAssumption ==
  /\ Blank \in Units /\ None \notin Nat
  /\ Turns \in Seq(SUBSET UNION {Turns[k] : k \in DOMAIN Turns})
  /\ \A k \in DOMAIN Turns : \A message \in Turns[k] : WellFormed(message)

Init ==
  /\ ParserInit
  /\ sent = << >> /\ stream = << >> /\ ends = << >>
  /\ arrived = 0 /\ taken = 0 /\ framed = << >> /\ handled = << >>
  /\ reader = "looping" /\ microphone = FALSE

\* one read, however much it brings
Receives(n) ==
  /\ reader = "looping" /\ framed = << >> /\ parser # "parsing"
  /\ arrived' = arrived + n /\ reader' = "framing"
  /\ UNCHANGED <<parserVars, serverVars, taken, framed, handled, microphone>>

Blanks == {i \in taken + 1 .. arrived : stream[i] = Blank}

\* of the first message in the buffer, if its headers have arrived
HeaderEnd == Earliest(Blanks)
Headers == SubSeq(stream, taken + 2, HeaderEnd - 1)
MessageEnd == HeaderEnd + BodyLength(Headers)

\* mutant: a body is delivered as far as it has arrived
FramesMessageEarly ==
  /\ reader = "framing" /\ Blanks # {} /\ BodyLength(Headers) # None
  /\ LET end == IF MessageEnd < arrived THEN MessageEnd ELSE arrived
     IN /\ framed' = Append(framed, Read(stream[taken + 1], Headers,
                                         SubSeq(stream, HeaderEnd + 1, end)))
        /\ taken' = end
  /\ UNCHANGED <<parserVars, serverVars, arrived, handled, reader, microphone>>

FramesMessage ==
  /\ reader = "framing" /\ Blanks # {} /\ BodyLength(Headers) # None
  /\ MessageEnd <= arrived
  /\ framed' = Append(framed, Read(stream[taken + 1], Headers,
                                   SubSeq(stream, HeaderEnd + 1, MessageEnd)))
  /\ taken' = MessageEnd
  /\ UNCHANGED <<parserVars, serverVars, arrived, handled, reader, microphone>>

FeedReturns ==
  /\ reader = "framing"
  /\ Blanks # {} => BodyLength(Headers) # None /\ MessageEnd > arrived
  /\ reader' = "looping"
  /\ UNCHANGED <<parserVars, serverVars, arrived, taken, framed, handled, microphone>>

\* the loop over what feed returned; the handler of a request may suspend
HandlesMessage ==
  /\ reader = "looping" /\ framed # << >> /\ parser # "parsing"
  /\ handled' = Append(handled, Head(framed)) /\ framed' = Tail(framed)
  /\ UNCHANGED <<parserVars, serverVars, arrived, taken, reader, microphone>>

\* a Content-Length that is no number; what was framed in this read is lost
FeedRaises ==
  /\ reader = "framing" /\ Blanks # {} /\ BodyLength(Headers) = None
  /\ framed' = << >> /\ reader' = "failed"
  /\ UNCHANGED <<parserVars, serverVars, arrived, taken, handled, microphone>>

-----------------------------------------------------------------------------
(* start_monitoring and set_microphone *)

FinalAnswers(messages) == {i \in DOMAIN messages : messages[i].start.line = "200 INVITE"}

FinalAnswer(messages) == messages[Earliest(FinalAnswers(messages))]

\* the first one is taken from the future, when the INVITE's task runs
AnswerTaken ==
  /\ reader # "framing" /\ FinalAnswers(handled) # {}
  /\ ParseBegins(FinalAnswer(handled).body)
  /\ UNCHANGED <<serverVars, readerVars, microphone>>

Parses == ParserStep /\ UNCHANGED <<serverVars, readerVars, microphone>>

SetMicrophone ==
  /\ parser = "done" /\ reader # "framing" /\ negotiated # Rejected
  /\ negotiated.codec # None /\ negotiated.direction \in Hears
  /\ microphone' = TRUE
  /\ UNCHANGED <<parserVars, serverVars, readerVars>>

Next ==
  \/ ServerSends
  \/ \E n \in 1 .. Len(stream) - arrived : Receives(n)
  \/ FramesMessage \/ FeedReturns \/ FeedRaises \/ HandlesMessage
  \/ AnswerTaken \/ Parses \/ SetMicrophone

Spec == Init /\ [][Next]_vars

-----------------------------------------------------------------------------
AsRead(message) == Read(message.start, message.headers, message.body)

\* tests/test_sip.py checks single messages: however the stream is cut into
\* reads, the read loop handles the messages that were sent, in their order and
\* with their bodies; and while it reads on it has handled every one whose last
\* line has arrived.
FramedAsSent ==
  /\ Len(handled) <= Len(sent)
  /\ \A k \in DOMAIN handled : handled[k] = AsRead(sent[k])
  /\ reader = "looping" /\ framed = << >> =>
       \A k \in DOMAIN sent : ends[k] <= arrived => k <= Len(handled)

\* tests/test_sdp.py checks single answers: the call that is set up is the one
\* which the first final answer allows as a whole, wherever in it a line stands,
\* and the microphone is opened only towards a unit that said that it listens.
AnswerHonoured ==
  LET lines == FinalAnswer(sent).body
  IN /\ parser = "done" => negotiated = Promised(lines)
     /\ microphone => Direction(lines, Latest(Open(lines, "audio"))) \in Hears

=============================================================================
