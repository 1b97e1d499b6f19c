-------------------------- MODULE MediaAnswer_proofs --------------------------
(***************************************************************************)
(* Theorems about MediaAnswer, for every stream of well-formed messages,    *)
(* every way of cutting it into reads and every body of an answer.          *)
(***************************************************************************)
EXTENDS MediaAnswer, SequenceTheorems, WellFoundedInduction, TLAPS

-----------------------------------------------------------------------------
(* The first and the last of some positions *)

LEMMA HasEarliest ==
  ASSUME NEW S \in SUBSET Nat, S # {}
  PROVE  Earliest(S) \in S /\ \A j \in S : Earliest(S) <= j
<1>1. PICK i \in S : \A j \in S : ~ (<<j, i>> \in OpToRel(<, Nat))
  BY NatLessThanWellFounded, WFMin
<1>2. \A j \in S : i <= j
  <2> SUFFICES ASSUME NEW j \in S
               PROVE  i <= j
    OBVIOUS
  <2>1. ~ (j < i)
    BY <1>1 DEF OpToRel
  <2>2. QED
    BY <2>1
<1>3. QED
  BY <1>2 DEF Earliest

LEMMA EarliestIs ==
  ASSUME NEW S \in SUBSET Nat, NEW i \in S, \A j \in S : i <= j
  PROVE  Earliest(S) = i
<1>1. Earliest(S) \in S /\ \A j \in S : Earliest(S) <= j
  BY HasEarliest
<1>2. i \in Nat /\ Earliest(S) \in Nat /\ i <= Earliest(S) /\ Earliest(S) <= i
  BY <1>1
<1>3. QED
  BY <1>2

LEMMA HasLatest ==
  ASSUME NEW n \in Nat, NEW S \in SUBSET (0 .. n), S # {}
  PROVE  Latest(S) \in S /\ \A j \in S : j <= Latest(S)
<1> DEFINE T == {k \in 0 .. n : n - k \in S}
<1>1. T \in SUBSET Nat /\ T # {}
  <2>1. PICK j \in S : TRUE
    OBVIOUS
  <2>2. n - j \in 0 .. n /\ n - (n - j) = j
    OBVIOUS
  <2>3. n - j \in T
    BY <2>2
  <2>4. \A k \in T : k \in Nat
    OBVIOUS
  <2> HIDE DEF T
  <2>5. QED
    BY <2>3, <2>4
<1>2. Earliest(T) \in T /\ \A k \in T : Earliest(T) <= k
  BY <1>1, HasEarliest
<1>3. n - Earliest(T) \in S
  BY <1>2
<1>4. \A j \in S : j <= n - Earliest(T)
  <2> SUFFICES ASSUME NEW j \in S
               PROVE  j <= n - Earliest(T)
    OBVIOUS
  <2>1. n - j \in T
    OBVIOUS
  <2>2. Earliest(T) \in 0 .. n /\ Earliest(T) <= n - j
    BY <1>2, <2>1
  <2>3. QED
    BY <2>2
<1>5. QED
  BY <1>3, <1>4 DEF Latest

LEMMA LatestIs ==
  ASSUME NEW n \in Nat, NEW S \in SUBSET (0 .. n), NEW i \in S, \A j \in S : j <= i
  PROVE  Latest(S) = i
<1>1. Latest(S) \in S /\ \A j \in S : j <= Latest(S)
  BY HasLatest
<1>2. i \in 0 .. n /\ Latest(S) \in 0 .. n /\ i <= Latest(S) /\ Latest(S) <= i
  BY <1>1
<1>3. QED
  BY <1>2

-----------------------------------------------------------------------------
(* Messages, their units and the stream *)

Messages == UNION {Turns[k] : k \in DOMAIN Turns}

(* Where in the stream message k begins: behind the one before.              *)
Before(k) == IF k = 1 THEN 0 ELSE ends[k - 1]

(* Message k stands in the stream where ends says.                           *)
StandsAt(k) ==
  /\ ends[k] = Before(k) + Len(Wire(sent[k]))
  /\ \A i \in 1 .. Len(Wire(sent[k])) : stream[Before(k) + i] = Wire(sent[k])[i]

(* The stream is the messages, one behind the other.                         *)
StreamInv ==
  /\ sent \in Seq(Messages) /\ stream \in Seq(Units) /\ ends \in Seq(Nat)
  /\ Len(ends) = Len(sent)
  /\ Len(stream) = Before(Len(sent) + 1)
  /\ \A k \in 1 .. Len(sent) : ends[k] <= Len(stream) /\ StandsAt(k)
  /\ \A j, k \in 1 .. Len(sent) : j <= k => ends[j] <= ends[k]

LEMMA WellFormedMessages ==
  ASSUME NEW m \in Messages
  PROVE  /\ m.start \in Units /\ m.start # Blank
         /\ m.headers \in Seq(Units)
         /\ \A i \in 1 .. Len(m.headers) : m.headers[i] # Blank
         /\ m.body \in Seq(Units)
         /\ BodyLength(m.headers) \in {None, Len(m.body)}
         /\ Len(m.headers) \in Nat /\ Len(m.body) \in Nat
<1>1. WellFormed(m)
  BY StreamAssumption DEF Messages
<1>2. m.headers \in Seq(Units \ {Blank}) /\ m.headers \in Seq(Units)
  BY <1>1, SeqMonotonic DEF WellFormed
<1>3. \A i \in 1 .. Len(m.headers) : m.headers[i] # Blank
  BY <1>2, ElementOfSeq
<1>4. QED
  BY <1>1, <1>2, <1>3 DEF WellFormed

(* What of a message stands where on the wire.                               *)
LEMMA OnTheWire ==
  ASSUME NEW m \in Messages
  PROVE  LET h == Len(m.headers)
         IN /\ Wire(m) \in Seq(Units)
            /\ Len(Wire(m)) = h + 2 + Len(m.body)
            /\ Wire(m)[1] = m.start
            /\ \A i \in 1 .. h : Wire(m)[1 + i] = m.headers[i]
            /\ Wire(m)[h + 2] = Blank
            /\ \A i \in 1 .. Len(m.body) : Wire(m)[h + 2 + i] = m.body[i]
<1> DEFINE h == Len(m.headers)
           b == Len(m.body)
           one == <<m.start>>
           two == one \o m.headers
           three == two \o <<Blank>>
<1>1. /\ m.start \in Units /\ Blank \in Units
      /\ m.headers \in Seq(Units) /\ m.body \in Seq(Units) /\ h \in Nat /\ b \in Nat
  BY WellFormedMessages, StreamAssumption
<1> HIDE DEF h, b
<1>2. one \in Seq(Units) /\ Len(one) = 1 /\ one[1] = m.start
  BY <1>1
<1>3. <<Blank>> \in Seq(Units) /\ Len(<<Blank>>) = 1 /\ <<Blank>>[1] = Blank
  BY <1>1
<1>4. /\ two \in Seq(Units) /\ Len(two) = 1 + h
      /\ \A i \in 1 .. 1 + h : two[i] = IF i <= 1 THEN one[i] ELSE m.headers[i - 1]
  <2> HIDE DEF one
  <2>1. /\ two \in Seq(Units) /\ Len(two) = Len(one) + Len(m.headers)
        /\ \A i \in 1 .. Len(one) + Len(m.headers) :
             two[i] = IF i <= Len(one) THEN one[i] ELSE m.headers[i - Len(one)]
    BY <1>1, <1>2, ConcatProperties
  <2>h. Len(m.headers) = h
    BY DEF h
  <2> HIDE DEF two
  <2>2. QED
    BY <2>1, <2>h, <1>1, <1>2
<1>5. /\ three \in Seq(Units) /\ Len(three) = h + 2
      /\ \A i \in 1 .. h + 2 : three[i] = IF i <= 1 + h THEN two[i] ELSE Blank
  <2> DEFINE last == <<Blank>>
  <2> HIDE DEF two, last
  <2>1. /\ three \in Seq(Units) /\ Len(three) = Len(two) + Len(last)
        /\ \A i \in 1 .. Len(two) + Len(last) :
             three[i] = IF i <= Len(two) THEN two[i] ELSE last[i - Len(two)]
    BY <1>3, <1>4, ConcatProperties DEF last
  <2>2. Len(last) = 1 /\ last[1] = Blank
    BY <1>3 DEF last
  <2> HIDE DEF three
  <2>3. Len(three) = h + 2
    BY <2>1, <2>2, <1>1, <1>4
  <2>4. ASSUME NEW i \in 1 .. h + 2
        PROVE  three[i] = IF i <= 1 + h THEN two[i] ELSE Blank
    <3>1. i \in 1 .. Len(two) + Len(last) /\ (~(i <= 1 + h) => i - (1 + h) = 1)
      BY <2>2, <1>1, <1>4
    <3>2. QED
      BY <3>1, <2>1, <2>2, <1>4
  <2>5. QED
    BY <2>1, <2>3, <2>4
<1>6. /\ Wire(m) \in Seq(Units) /\ Len(Wire(m)) = h + 2 + b
      /\ \A i \in 1 .. h + 2 + b : Wire(m)[i] = IF i <= h + 2 THEN three[i] ELSE m.body[i - (h + 2)]
  <2>1. Wire(m) = three \o m.body
    BY DEF Wire
  <2> HIDE DEF three
  <2>2. Len(m.body) = b
    BY DEF b
  <2>3. /\ three \o m.body \in Seq(Units) /\ Len(three \o m.body) = Len(three) + Len(m.body)
        /\ \A i \in 1 .. Len(three) + Len(m.body) :
             (three \o m.body)[i] = IF i <= Len(three) THEN three[i] ELSE m.body[i - Len(three)]
    BY <1>1, <1>5, ConcatProperties
  <2>4. QED
    BY <2>1, <2>2, <2>3, <1>5
<1> HIDE DEF one, two, three
<1>7. Wire(m)[1] = m.start
  <2>1. 1 \in 1 .. h + 2 + b /\ 1 \in 1 .. h + 2 /\ 1 \in 1 .. 1 + h
    BY <1>1
  <2>2. Wire(m)[1] = three[1]
    BY <2>1, <1>1, <1>6
  <2>3. three[1] = two[1] /\ two[1] = one[1]
    BY <2>1, <1>1, <1>4, <1>5
  <2>4. QED
    BY <2>2, <2>3, <1>2
<1>8. ASSUME NEW i \in 1 .. h
      PROVE  Wire(m)[1 + i] = m.headers[i]
  <2>1. 1 + i \in 1 .. h + 2 + b /\ 1 + i \in 1 .. h + 2 /\ 1 + i \in 1 .. 1 + h /\ (1 + i) - 1 = i
    BY <1>1
  <2>2. QED
    BY <2>1, <1>1, <1>4, <1>5, <1>6
<1>9. Wire(m)[h + 2] = Blank
  <2>1. h + 2 \in 1 .. h + 2 + b /\ h + 2 \in 1 .. h + 2 /\ ~(h + 2 <= 1 + h) /\ (h + 2) - (1 + h) = 1
    BY <1>1
  <2>2. QED
    BY <2>1, <1>1, <1>5, <1>6
<1>10. ASSUME NEW i \in 1 .. b
       PROVE  Wire(m)[h + 2 + i] = m.body[i]
  <2>1. h + 2 + i \in 1 .. h + 2 + b /\ ~(h + 2 + i <= h + 2) /\ (h + 2 + i) - (h + 2) = i
    BY <1>1
  <2>2. QED
    BY <2>1, <1>1, <1>6
<1>11. QED
  BY <1>6, <1>7, <1>8, <1>9, <1>10 DEF h, b

(* The messages stand in their order.                                        *)
LEMMA Ordered ==
  ASSUME StreamInv
  PROVE  /\ Len(sent) \in Nat /\ Len(stream) \in Nat
         /\ \A k \in 1 .. Len(sent) : ends[k] \in Nat
         /\ \A k \in 1 .. Len(sent) + 1 : Before(k) \in Nat
         /\ \A k \in 1 .. Len(sent) : Before(k + 1) = ends[k] /\ Before(k) + 2 <= ends[k]
<1>1. Len(sent) \in Nat /\ Len(stream) \in Nat
  BY DEF StreamInv
<1>2. \A k \in 1 .. Len(sent) : ends[k] \in Nat /\ sent[k] \in Messages
  BY DEF StreamInv
<1>3. \A k \in 1 .. Len(sent) + 1 : Before(k) \in Nat
  BY <1>1, <1>2 DEF Before
<1>4. ASSUME NEW k \in 1 .. Len(sent)
      PROVE  Before(k + 1) = ends[k] /\ Before(k) + 2 <= ends[k]
  <2>1. Before(k + 1) = ends[k]
    BY <1>1 DEF Before
  <2>2. ends[k] = Before(k) + Len(Wire(sent[k]))
    BY DEF StreamInv, StandsAt
  <2>3. sent[k] \in Messages
    BY <1>2
  <2>4. Len(Wire(sent[k])) = Len(sent[k].headers) + 2 + Len(sent[k].body)
        /\ Len(sent[k].headers) \in Nat /\ Len(sent[k].body) \in Nat
    BY <2>3, OnTheWire, WellFormedMessages
  <2>5. k \in 1 .. Len(sent) + 1 /\ Before(k) \in Nat
    BY <1>1, <1>3
  <2> DEFINE h == Len(sent[k].headers)
             b == Len(sent[k].body)
  <2>6. ends[k] = Before(k) + (h + 2 + b) /\ h \in Nat /\ b \in Nat
    BY <2>2, <2>4
  <2> HIDE DEF h, b
  <2>7. QED
    BY <2>1, <2>5, <2>6
<1>5. QED
  BY <1>1, <1>2, <1>3, <1>4

(* What the server sends stands behind what it has sent.                     *)
LEMMA ServerKeepsStream ==
  ASSUME StreamInv, ServerSends
  PROVE  /\ StreamInv'
         /\ Len(sent') = Len(sent) + 1
         /\ \A k \in 1 .. Len(sent) : sent'[k] = sent[k] /\ ends'[k] = ends[k]
         /\ \A k \in 1 .. Len(sent) + 1 : Before(k)' = Before(k)
         /\ Len(stream) < ends'[Len(sent) + 1]
         /\ Len(stream) <= Len(stream')
<1> DEFINE l == Len(sent)
           n == Len(stream)
<1>1. PICK m \in Messages : sent' = Append(sent, m) /\ stream' = stream \o Wire(m)
  <2>1. Len(sent) + 1 \in DOMAIN Turns
    <3>1. Len(sent) \in Nat /\ Len(sent) < Len(Turns)
      BY Ordered DEF ServerSends
    <3>2. Len(Turns) \in Nat /\ DOMAIN Turns = 1 .. Len(Turns)
      BY StreamAssumption
    <3>3. QED
      BY <3>1, <3>2
  <2>2. PICK m \in Turns[Len(sent) + 1] : sent' = Append(sent, m) /\ stream' = stream \o Wire(m)
    BY DEF ServerSends
  <2>3. m \in Messages
    BY <2>1 DEF Messages
  <2>4. QED
    BY <2>2, <2>3
<1>2. ends' = Append(ends, Len(stream'))
  BY DEF ServerSends
<1> DEFINE w == Len(Wire(m))
<1>3. /\ l \in Nat /\ n \in Nat /\ w \in Nat /\ w >= 2
      /\ Wire(m) \in Seq(Units)
  <2> DEFINE h == Len(m.headers)
             b == Len(m.body)
  <2>1. h \in Nat /\ b \in Nat /\ w = h + 2 + b /\ Wire(m) \in Seq(Units)
    BY WellFormedMessages, OnTheWire
  <2>2. l \in Nat /\ n \in Nat
    BY Ordered
  <2> HIDE DEF h, b, w
  <2>3. QED
    BY <2>1, <2>2
<1>4. /\ stream' \in Seq(Units) /\ Len(stream') = n + w
      /\ \A i \in 1 .. n + w : stream'[i] = IF i <= n THEN stream[i] ELSE Wire(m)[i - n]
  <2>1. stream \in Seq(Units)
    BY DEF StreamInv
  <2>2. /\ stream \o Wire(m) \in Seq(Units) /\ Len(stream \o Wire(m)) = Len(stream) + Len(Wire(m))
        /\ \A i \in 1 .. Len(stream) + Len(Wire(m)) :
             (stream \o Wire(m))[i] = IF i <= Len(stream) THEN stream[i] ELSE Wire(m)[i - Len(stream)]
    BY <2>1, <1>3, ConcatProperties
  <2>3. QED
    BY <2>2, <1>1
<1>5. /\ sent' \in Seq(Messages) /\ Len(sent') = l + 1 /\ sent'[l + 1] = m
      /\ \A k \in 1 .. l : sent'[k] = sent[k]
  BY <1>1, AppendProperties DEF StreamInv
<1>6. /\ ends' \in Seq(Nat) /\ Len(ends') = l + 1 /\ ends'[l + 1] = Len(stream')
      /\ \A k \in 1 .. l : ends'[k] = ends[k]
  <2>1. Len(stream') \in Nat /\ ends \in Seq(Nat) /\ Len(ends) = l
    BY <1>3, <1>4 DEF StreamInv
  <2>2. QED
    BY <2>1, <1>2, AppendProperties
<1> HIDE DEF l, n, w
<1>7. \A k \in 1 .. l + 1 : Before(k)' = Before(k)
  BY <1>3, <1>6 DEF Before
<1>8. Before(l + 1) = n
  BY DEF StreamInv, l, n
<1>9. \A k \in 1 .. l : ends[k] \in Nat /\ ends[k] <= n /\ Before(k) \in Nat
  BY Ordered, <1>3 DEF StreamInv, l, n
<1>10. ASSUME NEW k \in 1 .. l + 1
       PROVE  ends'[k] <= Len(stream') /\ StandsAt(k)'
  <2>1. CASE k \in 1 .. l
    <3> DEFINE x == Len(Wire(sent[k]))
    <3>1. ends[k] = Before(k) + x /\ \A i \in 1 .. x : stream[Before(k) + i] = Wire(sent[k])[i]
      BY <2>1 DEF StreamInv, StandsAt, l
    <3>2. /\ ends'[k] = ends[k] /\ sent'[k] = sent[k] /\ Before(k)' = Before(k)
          /\ ends[k] \in Nat /\ Before(k) \in Nat /\ ends[k] <= n
      BY <2>1, <1>5, <1>6, <1>7, <1>9
    <3>3. x \in Nat
      <4>1. sent[k] \in Messages
        BY <2>1 DEF StreamInv, l
      <4>2. QED
        BY <4>1, OnTheWire
    <3> HIDE DEF x
    <3>4. ASSUME NEW i \in 1 .. x
          PROVE  stream'[Before(k) + i] = stream[Before(k) + i]
      <4>1. Before(k) + i \in 1 .. n + w /\ Before(k) + i <= n
        BY <3>1, <3>2, <3>3, <1>3
      <4>2. QED
        BY <4>1, <1>4
    <3>5. ends'[k] = Before(k)' + x /\ \A i \in 1 .. x : stream'[Before(k)' + i] = Wire(sent'[k])[i]
      BY <3>1, <3>2, <3>4
    <3>6. Len(Wire(sent'[k])) = x
      BY <3>2 DEF x
    <3>7. ends'[k] <= Len(stream')
      BY <3>2, <1>3, <1>4
    <3>8. QED
      BY <3>5, <3>6, <3>7 DEF StandsAt
  <2>2. CASE k = l + 1
    <3>1. ends'[k] = n + w /\ Before(k)' = n /\ sent'[k] = m
      BY <2>2, <1>3, <1>4, <1>5, <1>6, <1>7, <1>8
    <3>2. ASSUME NEW i \in 1 .. w
          PROVE  stream'[n + i] = Wire(m)[i]
      <4>1. n + i \in 1 .. n + w /\ ~(n + i <= n) /\ (n + i) - n = i
        BY <1>3
      <4>2. QED
        BY <4>1, <1>4
    <3>3. Len(Wire(sent'[k])) = w
      BY <3>1 DEF w
    <3>4. ends'[k] <= Len(stream')
      BY <3>1, <1>3, <1>4
    <3>5. QED
      BY <3>1, <3>2, <3>3, <3>4 DEF StandsAt
  <2>3. QED
    BY <2>1, <2>2, <1>3
<1>11. Len(stream') = Before(Len(sent) + 1)'
  <2>1. Len(sent') + 1 # 1 /\ (Len(sent') + 1) - 1 = l + 1
    BY <1>3, <1>5
  <2>2. Before(Len(sent) + 1)' = ends'[l + 1]
    BY <2>1 DEF Before
  <2>3. QED
    BY <2>1, <2>2, <1>6
<1>12. StreamInv'
  <2>1. Len(ends') = Len(sent')
    BY <1>5, <1>6
  <2>2. \A k \in 1 .. Len(sent') : ends'[k] <= Len(stream') /\ StandsAt(k)'
    BY <1>5, <1>10
  <2>3. sent' \in Seq(Messages) /\ stream' \in Seq(Units) /\ ends' \in Seq(Nat)
    BY <1>4, <1>5, <1>6
  <2>4. \A j, k \in 1 .. Len(sent') : j <= k => ends'[j] <= ends'[k]
    <3>1. \A j, k \in 1 .. l : j <= k => ends[j] <= ends[k]
      BY DEF StreamInv, l
    <3>2. SUFFICES ASSUME NEW j \in 1 .. l + 1, NEW k \in 1 .. l + 1, j <= k
                   PROVE  ends'[j] <= ends'[k]
      BY <1>5
    <3>3. CASE k \in 1 .. l
      <4>1. j \in 1 .. l
        BY <3>2, <3>3, <1>3
      <4>2. QED
        BY <4>1, <3>1, <3>2, <3>3, <1>6
    <3>4. CASE k = l + 1 /\ j \in 1 .. l
      <4>1. ends'[k] = n + w /\ ends'[j] \in Nat /\ ends'[j] <= n
        BY <3>4, <1>4, <1>6, <1>9
      <4>2. QED
        BY <4>1, <1>3
    <3>5. CASE k = l + 1 /\ j = l + 1
      <4>1. ends'[l + 1] = n + w
        BY <1>4, <1>6
      <4>2. QED
        BY <4>1, <3>5, <1>3
    <3>6. QED
      BY <3>2, <3>3, <3>4, <3>5, <1>3
  <2>5. QED
    BY <2>1, <2>2, <2>3, <2>4, <1>11 DEF StreamInv
<1>13. n < ends'[l + 1] /\ n <= Len(stream')
  BY <1>3, <1>4, <1>6
<1>14. QED
  BY <1>5, <1>6, <1>7, <1>12, <1>13 DEF l, n

-----------------------------------------------------------------------------
(* The framer *)

ReadMessages == {AsRead(m) : m \in Messages}

(* How many messages the reader has got out of the stream.                   *)
Got == Len(handled) + Len(framed)

(* Unless it has failed the reader stands between two messages; what it has  *)
(* got are the messages before, and once it reads on it has got all of them  *)
(* that have arrived.                                                       *)
ReaderInv ==
  /\ handled \in Seq(ReadMessages) /\ framed \in Seq(ReadMessages)
  /\ arrived \in Nat /\ arrived <= Len(stream)
  /\ reader \in {"looping", "framing", "failed"}
  /\ Len(handled) <= Len(sent)
  /\ \A k \in 1 .. Len(handled) : handled[k] = AsRead(sent[k])
  /\ reader # "failed" =>
       /\ Got <= Len(sent)
       /\ taken = Before(Got + 1) /\ taken <= arrived
       /\ \A k \in 1 .. Len(framed) : framed[k] = AsRead(sent[Len(handled) + k])
  /\ reader = "looping" /\ Got < Len(sent) => arrived < ends[Got + 1]

(* The message that the buffer begins with, as far as it has arrived.        *)
LEMMA Buffer ==
  ASSUME StreamInv, NEW k \in 1 .. Len(sent), taken = Before(k),
         arrived \in Nat, arrived <= Len(stream)
  PROVE  /\ taken \in Nat
         /\ ends[k] <= arrived => Blanks # {}
         /\ Blanks # {} =>
              /\ Headers = sent[k].headers
              /\ stream[taken + 1] = sent[k].start
              /\ HeaderEnd \in Nat
              /\ HeaderEnd + Len(sent[k].body) = ends[k]
              /\ SubSeq(stream, HeaderEnd + 1, ends[k]) = sent[k].body
<1> DEFINE m == sent[k]
           h == Len(m.headers)
           b == Len(m.body)
           p == taken + h + 2
<1>1. /\ m \in Messages /\ stream \in Seq(Units)
      /\ ends[k] = taken + Len(Wire(m)) /\ ends[k] <= Len(stream)
      /\ \A i \in 1 .. Len(Wire(m)) : stream[taken + i] = Wire(m)[i]
  BY DEF StreamInv, StandsAt
<1>2. /\ taken \in Nat /\ Len(stream) \in Nat
  <2>1. Len(sent) \in Nat
    BY Ordered
  <2>2. k \in 1 .. Len(sent) + 1
    BY <2>1
  <2>3. QED
    BY <2>2, Ordered
<1> HIDE DEF m
<1>3. /\ h \in Nat /\ b \in Nat
      /\ m.headers \in Seq(Units) /\ m.body \in Seq(Units)
      /\ m.start # Blank /\ \A i \in 1 .. h : m.headers[i] # Blank
  BY <1>1, WellFormedMessages
<1>4. /\ Len(Wire(m)) = h + 2 + b
      /\ Wire(m)[1] = m.start
      /\ \A i \in 1 .. h : Wire(m)[1 + i] = m.headers[i]
      /\ Wire(m)[h + 2] = Blank
      /\ \A i \in 1 .. b : Wire(m)[h + 2 + i] = m.body[i]
  BY <1>1, OnTheWire
<1>l. Len(m.headers) = h /\ Len(m.body) = b
  OBVIOUS
<1> HIDE DEF h, b
<1>n. h \in Nat /\ b \in Nat /\ taken \in Nat
  BY <1>2, <1>3
<1>w. Len(Wire(m)) = h + 2 + b
  BY <1>4
<1>5. ends[k] = p + b /\ p + b <= Len(stream) /\ p \in Nat /\ taken + 2 <= p
  BY <1>1, <1>2, <1>3, <1>4
<1>6. stream[taken + 1] = m.start
  <2>1. 1 \in 1 .. Len(Wire(m))
    BY <1>3, <1>4
  <2>2. QED
    BY <2>1, <1>1, <1>4
<1>7. ASSUME NEW i \in 1 .. h
      PROVE  stream[taken + 1 + i] = m.headers[i]
  <2>1. 1 + i \in 1 .. Len(Wire(m)) /\ taken + (1 + i) = taken + 1 + i
    BY <1>n, <1>w
  <2>2. QED
    BY <2>1, <1>1, <1>4
<1>8. stream[p] = Blank
  <2>1. h + 2 \in 1 .. Len(Wire(m)) /\ taken + (h + 2) = p
    BY <1>2, <1>3, <1>4
  <2>2. QED
    BY <2>1, <1>1, <1>4
<1>9. ASSUME NEW i \in 1 .. b
      PROVE  stream[p + i] = m.body[i]
  <2>1. h + 2 + i \in 1 .. Len(Wire(m)) /\ taken + (h + 2 + i) = p + i
    BY <1>n, <1>w
  <2>2. QED
    BY <2>1, <1>1, <1>4
<1>10. ASSUME NEW i \in Blanks
       PROVE  i \in Nat /\ p <= i /\ i <= arrived
  <2>1. i \in taken + 1 .. arrived /\ stream[i] = Blank
    BY DEF Blanks
  <2>2. i # taken + 1
    BY <2>1, <1>3, <1>6
  <2>3. ASSUME i < p
        PROVE  FALSE
    <3> DEFINE j == i - (taken + 1)
    <3>1. j \in 1 .. h /\ taken + 1 + j = i
      BY <2>1, <2>2, <2>3, <1>2, <1>3
    <3> HIDE DEF j
    <3>2. stream[i] = m.headers[j]
      BY <3>1, <1>7
    <3>3. QED
      BY <3>1, <3>2, <2>1, <1>3
  <2>4. QED
    BY <2>1, <2>3, <1>2, <1>5
<1>11. ASSUME p <= arrived
       PROVE  p \in Blanks
  <2>1. p \in taken + 1 .. arrived
    BY <1>2, <1>5, <1>11
  <2>2. QED
    BY <2>1, <1>8 DEF Blanks
<1>12. ends[k] <= arrived => Blanks # {}
  <2>1. ends[k] <= arrived => p <= arrived
    BY <1>3, <1>5
  <2>2. QED
    BY <2>1, <1>11
<1>13. ASSUME Blanks # {}
       PROVE  HeaderEnd = p
  <2>1. p \in Blanks
    <3>1. PICK i \in Blanks : TRUE
      BY <1>13
    <3>2. p <= arrived
      BY <3>1, <1>10, <1>5
    <3>3. QED
      BY <3>2, <1>11
  <2>2. Blanks \in SUBSET Nat /\ \A i \in Blanks : p <= i
    BY <1>10
  <2>3. QED
    BY <2>1, <2>2, EarliestIs DEF HeaderEnd
<1>14. SubSeq(stream, taken + 2, p - 1) = m.headers
  <2> DEFINE s == SubSeq(stream, taken + 2, p - 1)
  <2>1. \A i \in taken + 2 .. p - 1 : stream[i] \in Units
    <3>1. \A i \in taken + 2 .. p - 1 : i \in 1 .. Len(stream)
      BY <1>2, <1>3, <1>5
    <3>2. QED
      BY <3>1, <1>1
  <2>2. taken + 2 \in Int /\ p - 1 \in Int
    BY <1>2, <1>5
  <2>3. /\ s \in Seq(Units)
        /\ Len(s) = IF taken + 2 <= p - 1 THEN (p - 1) - (taken + 2) + 1 ELSE 0
        /\ \A i \in 1 .. (p - 1) - (taken + 2) + 1 : s[i] = stream[(taken + 2) + i - 1]
    BY <2>1, <2>2, SubSeqProperties
  <2> HIDE DEF s
  <2>4. Len(s) = h /\ (p - 1) - (taken + 2) + 1 = h
    BY <2>3, <1>2, <1>3
  <2>5. ASSUME NEW i \in 1 .. h
        PROVE  s[i] = m.headers[i]
    <3>1. (taken + 2) + i - 1 = taken + 1 + i
      BY <1>2, <1>3
    <3>2. s[i] = stream[taken + 1 + i]
      BY <3>1, <2>3, <2>4
    <3>3. QED
      BY <3>2, <1>7
  <2>6. s = m.headers
    BY <2>3, <2>4, <2>5, <1>3, <1>l, SeqEqual
  <2>7. QED
    BY <2>6 DEF s
<1>15. SubSeq(stream, p + 1, p + b) = m.body
  <2> DEFINE s == SubSeq(stream, p + 1, p + b)
  <2>1. \A i \in p + 1 .. p + b : stream[i] \in Units
    <3>1. \A i \in p + 1 .. p + b : i \in 1 .. Len(stream)
      BY <1>2, <1>3, <1>5
    <3>2. QED
      BY <3>1, <1>1
  <2>2. p + 1 \in Int /\ p + b \in Int
    BY <1>3, <1>5
  <2>3. /\ s \in Seq(Units)
        /\ Len(s) = IF p + 1 <= p + b THEN (p + b) - (p + 1) + 1 ELSE 0
        /\ \A i \in 1 .. (p + b) - (p + 1) + 1 : s[i] = stream[(p + 1) + i - 1]
    BY <2>1, <2>2, SubSeqProperties
  <2> HIDE DEF s
  <2>4. Len(s) = b /\ (p + b) - (p + 1) + 1 = b
    BY <2>3, <1>3, <1>5
  <2>5. ASSUME NEW i \in 1 .. b
        PROVE  s[i] = m.body[i]
    <3>1. (p + 1) + i - 1 = p + i
      BY <1>3, <1>5
    <3>2. s[i] = stream[p + i]
      BY <3>1, <2>3, <2>4
    <3>3. QED
      BY <3>2, <1>9
  <2>6. s = m.body
    BY <2>3, <2>4, <2>5, <1>3, <1>l, SeqEqual
  <2>7. QED
    BY <2>6 DEF s
<1> HIDE DEF p
<1>16. ASSUME Blanks # {}
       PROVE  /\ Headers = m.headers
              /\ stream[taken + 1] = m.start
              /\ HeaderEnd \in Nat
              /\ HeaderEnd + Len(m.body) = ends[k]
              /\ SubSeq(stream, HeaderEnd + 1, ends[k]) = m.body
  <2>1. HeaderEnd = p
    BY <1>13, <1>16
  <2>2. Headers = m.headers
    BY <2>1, <1>14 DEF Headers
  <2>3. HeaderEnd \in Nat /\ HeaderEnd + Len(m.body) = ends[k]
    BY <2>1, <1>l, <1>5
  <2>4. SubSeq(stream, HeaderEnd + 1, ends[k]) = m.body
    BY <2>1, <1>5, <1>15
  <2>5. QED
    BY <2>2, <2>3, <2>4, <1>6
<1>17. QED
  BY <1>2, <1>12, <1>16 DEF m

LEMMA ServerAtRest ==
  ASSUME StreamInv, UNCHANGED serverVars
  PROVE  StreamInv' /\ \A k \in Nat : Before(k)' = Before(k)
<1>1. UNCHANGED <<sent, stream, ends>>
  BY DEF serverVars
<1>2. QED
  BY <1>1 DEF StreamInv, StandsAt, Before

(* What has been counted.                                                    *)
LEMMA Counted ==
  ASSUME ReaderInv
  PROVE  /\ Len(handled) \in Nat /\ Len(framed) \in Nat /\ Got \in Nat
         /\ Got = Len(handled) + Len(framed)
<1>1. Len(handled) \in Nat /\ Len(framed) \in Nat
  BY DEF ReaderInv
<1>2. QED
  BY <1>1 DEF Got

(* When the reader has not failed it stands before the next message, if      *)
(* there is one.                                                             *)
LEMMA NextMessage ==
  ASSUME StreamInv, ReaderInv, reader # "failed", Got < Len(sent)
  PROVE  LET m == sent[Got + 1]
         IN /\ m \in Messages
            /\ ends[Got + 1] <= arrived => Blanks # {}
            /\ Blanks # {} =>
                 /\ Headers = m.headers
                 /\ stream[taken + 1] = m.start
                 /\ HeaderEnd \in Nat
                 /\ HeaderEnd + Len(m.body) = ends[Got + 1]
                 /\ SubSeq(stream, HeaderEnd + 1, ends[Got + 1]) = m.body
                 /\ BodyLength(Headers) # None => MessageEnd = ends[Got + 1]
<1> DEFINE k == Got + 1
<1>1. Len(sent) \in Nat /\ Got \in Nat
  BY Ordered, Counted
<1>2. k \in 1 .. Len(sent)
  BY <1>1
<1>3. taken = Before(k) /\ arrived \in Nat /\ arrived <= Len(stream)
  BY DEF ReaderInv
<1> HIDE DEF k
<1>4. /\ ends[k] <= arrived => Blanks # {}
      /\ Blanks # {} =>
           /\ Headers = sent[k].headers
           /\ stream[taken + 1] = sent[k].start
           /\ HeaderEnd \in Nat
           /\ HeaderEnd + Len(sent[k].body) = ends[k]
           /\ SubSeq(stream, HeaderEnd + 1, ends[k]) = sent[k].body
  BY <1>2, <1>3, Buffer
<1>5. sent[k] \in Messages
  BY <1>2 DEF StreamInv
<1>6. BodyLength(sent[k].headers) \in {None, Len(sent[k].body)}
  BY <1>5, WellFormedMessages
<1>7. Blanks # {} /\ BodyLength(Headers) # None => MessageEnd = ends[k]
  BY <1>4, <1>6 DEF MessageEnd
<1>8. QED
  BY <1>4, <1>5, <1>7 DEF k

(* There is nothing blank behind the last message.                           *)
LEMMA NothingBehind ==
  ASSUME StreamInv, ReaderInv, reader # "failed", Blanks # {}
  PROVE  Got < Len(sent)
<1>1. PICK i \in taken + 1 .. arrived : TRUE
  BY DEF Blanks
<1>2. /\ Got \in Nat /\ Len(sent) \in Nat /\ Got <= Len(sent)
      /\ taken = Before(Got + 1) /\ arrived <= Len(stream) /\ arrived \in Nat
  BY Ordered, Counted DEF ReaderInv
<1>3. Len(stream) = Before(Len(sent) + 1) /\ Len(stream) \in Nat
  BY Ordered DEF StreamInv
<1>4. Got # Len(sent)
  <2> SUFFICES ASSUME Got = Len(sent)
               PROVE  FALSE
    OBVIOUS
  <2>1. taken = Len(stream)
    BY <1>2, <1>3
  <2>2. QED
    BY <2>1, <1>1, <1>2, <1>3
<1>5. QED
  BY <1>2, <1>4

LEMMA ServerKeepsReader ==
  ASSUME StreamInv, ReaderInv, ServerSends
  PROVE  ReaderInv'
<1>1. UNCHANGED <<arrived, taken, framed, handled, reader>>
  BY DEF ServerSends, readerVars
<1>2. /\ Len(sent') = Len(sent) + 1
      /\ \A k \in 1 .. Len(sent) : sent'[k] = sent[k] /\ ends'[k] = ends[k]
      /\ \A k \in 1 .. Len(sent) + 1 : Before(k)' = Before(k)
      /\ Len(stream) < ends'[Len(sent) + 1]
      /\ Len(stream) <= Len(stream')
      /\ StreamInv'
  BY ServerKeepsStream
<1>3. Len(sent) \in Nat /\ Len(stream) \in Nat /\ Len(stream') \in Nat
  BY <1>2, Ordered DEF StreamInv
<1>4. /\ Len(handled) \in Nat /\ Len(framed) \in Nat /\ Got \in Nat
      /\ Got = Len(handled) + Len(framed) /\ Got' = Got
  BY <1>1, Counted DEF Got
<1>5. /\ handled' \in Seq(ReadMessages) /\ framed' \in Seq(ReadMessages)
      /\ arrived' \in Nat /\ arrived' <= Len(stream')
      /\ reader' \in {"looping", "framing", "failed"}
      /\ Len(handled') <= Len(sent')
  <2>1. arrived <= Len(stream) /\ arrived \in Nat /\ Len(handled) <= Len(sent)
    BY DEF ReaderInv
  <2>2. arrived <= Len(stream') /\ Len(handled) <= Len(sent')
    BY <2>1, <1>2, <1>3, <1>4
  <2>3. QED
    BY <2>1, <2>2, <1>1 DEF ReaderInv
<1>6. \A k \in 1 .. Len(handled') : handled'[k] = AsRead(sent'[k])
  <2>1. \A k \in 1 .. Len(handled) : handled[k] = AsRead(sent[k])
    BY DEF ReaderInv
  <2>2. \A k \in 1 .. Len(handled) : k \in 1 .. Len(sent)
    BY <1>3, <1>4 DEF ReaderInv
  <2>3. QED
    BY <2>1, <2>2, <1>1, <1>2
<1>7. ASSUME reader' # "failed"
      PROVE  /\ Got' <= Len(sent')
             /\ taken' = Before(Got + 1)' /\ taken' <= arrived'
             /\ \A k \in 1 .. Len(framed') : framed'[k] = AsRead(sent'[Len(handled') + k])
  <2>1. /\ Got <= Len(sent) /\ taken = Before(Got + 1) /\ taken <= arrived
        /\ \A k \in 1 .. Len(framed) : framed[k] = AsRead(sent[Len(handled) + k])
    BY <1>1, <1>7 DEF ReaderInv
  <2>2. Got + 1 \in 1 .. Len(sent) + 1 /\ Got <= Len(sent')
    BY <2>1, <1>2, <1>3, <1>4
  <2>3. Before(Got + 1)' = Before(Got + 1)
    <3>1. \A k \in 1 .. Len(sent) + 1 : k = Got + 1 => Before(Got + 1)' = Before(k)
      <4>1. (Got + 1)' = Got + 1
        BY <1>4
      <4>2. QED
        BY <4>1, <1>2 DEF Before
    <3>2. QED
      BY <3>1, <2>2
  <2>4. ASSUME NEW k \in 1 .. Len(framed)
        PROVE  framed[k] = AsRead(sent'[Len(handled) + k])
    <3>1. Len(handled) + k \in 1 .. Len(sent)
      BY <2>1, <1>3, <1>4
    <3>2. QED
      BY <3>1, <2>1, <1>2
  <2>5. QED
    BY <2>1, <2>2, <2>3, <2>4, <1>1, <1>4
<1>8. ASSUME reader' = "looping"
      PROVE  Got' < Len(sent') => arrived' < ends'[Got' + 1]
  <2>1. Got < Len(sent) => arrived < ends[Got + 1]
    BY <1>1, <1>8 DEF ReaderInv
  <2>2. ASSUME Got < Len(sent')
        PROVE  arrived < ends'[Got + 1]
    <3>1. CASE Got < Len(sent)
      <4>1. Got + 1 \in 1 .. Len(sent)
        BY <3>1, <1>3, <1>4
      <4>2. QED
        BY <4>1, <3>1, <2>1, <1>2
    <3>2. CASE Got = Len(sent)
      <4>1. arrived <= Len(stream) /\ arrived \in Nat /\ ends'[Len(sent) + 1] \in Nat
        <5>1. ends' \in Seq(Nat) /\ Len(ends') = Len(sent) + 1
          BY <1>2 DEF StreamInv
        <5>2. QED
          BY <5>1, <1>3 DEF ReaderInv
      <4>2. QED
        BY <4>1, <3>2, <1>2, <1>3
    <3>3. QED
      BY <3>1, <3>2, <2>2, <1>2, <1>3, <1>4
  <2>3. QED
    BY <2>1, <2>2, <1>1, <1>4
<1>9. QED
  BY <1>5, <1>6, <1>7, <1>8 DEF ReaderInv

LEMMA ReceivesKeepsReader ==
  ASSUME StreamInv, ReaderInv, NEW n \in 1 .. Len(stream) - arrived, Receives(n)
  PROVE  ReaderInv'
<1>1. /\ UNCHANGED <<sent, stream, ends, taken, framed, handled>>
      /\ arrived' = arrived + n /\ reader' = "framing" /\ reader = "looping"
  BY DEF Receives, serverVars
<1>2. Len(stream) \in Nat /\ arrived \in Nat
  BY Ordered DEF ReaderInv
<1>3. arrived' \in Nat /\ arrived' <= Len(stream') /\ arrived <= arrived'
  BY <1>1, <1>2
<1>4. Got' = Got /\ Before(Got + 1)' = Before(Got + 1)
  BY <1>1 DEF Got, Before
<1>5. /\ Got \in Nat
      /\ Got <= Len(sent)
      /\ taken = Before(Got + 1) /\ taken <= arrived
      /\ \A k \in 1 .. Len(framed) : framed[k] = AsRead(sent[Len(handled) + k])
  BY <1>1, Counted DEF ReaderInv
<1>6. taken \in Nat
  <2>1. Len(sent) \in Nat
    BY Ordered
  <2>2. Got + 1 \in 1 .. Len(sent) + 1
    BY <2>1, <1>5
  <2>3. QED
    BY <2>2, <1>5, Ordered
<1>7. taken' <= arrived'
  BY <1>1, <1>2, <1>3, <1>5, <1>6
<1>8. QED
  BY <1>1, <1>3, <1>4, <1>5, <1>7 DEF ReaderInv

LEMMA FramesMessageKeepsReader ==
  ASSUME StreamInv, ReaderInv, FramesMessage
  PROVE  ReaderInv'
<1> DEFINE m == sent[Got + 1]
           n == Len(framed)
           l == Len(handled)
<1>1. /\ UNCHANGED <<sent, stream, ends, arrived, handled, reader>>
      /\ reader = "framing" /\ Blanks # {} /\ BodyLength(Headers) # None
      /\ MessageEnd <= arrived /\ taken' = MessageEnd
      /\ framed' = Append(framed, Read(stream[taken + 1], Headers,
                                       SubSeq(stream, HeaderEnd + 1, MessageEnd)))
  BY DEF FramesMessage, serverVars
<1>2. Got < Len(sent)
  BY <1>1, NothingBehind
<1>3. /\ m \in Messages /\ Headers = m.headers /\ stream[taken + 1] = m.start
      /\ SubSeq(stream, HeaderEnd + 1, ends[Got + 1]) = m.body
      /\ MessageEnd = ends[Got + 1]
  BY <1>1, <1>2, NextMessage
<1>4. framed' = Append(framed, AsRead(m))
  BY <1>1, <1>3 DEF AsRead
<1>5. AsRead(m) \in ReadMessages /\ framed \in Seq(ReadMessages)
  BY <1>3 DEF ReadMessages, ReaderInv
<1>6. /\ framed' \in Seq(ReadMessages) /\ Len(framed') = n + 1
      /\ \A k \in 1 .. n : framed'[k] = framed[k]
      /\ framed'[n + 1] = AsRead(m)
  <2> DEFINE r == AsRead(m)
  <2> HIDE DEF r
  <2>1. r \in ReadMessages /\ framed' = Append(framed, r)
    BY <1>4, <1>5 DEF r
  <2>2. /\ framed' \in Seq(ReadMessages) /\ Len(framed') = n + 1
        /\ \A k \in 1 .. n : framed'[k] = framed[k]
        /\ framed'[n + 1] = r
    BY <2>1, <1>5, AppendProperties
  <2>3. QED
    BY <2>2 DEF r
<1> HIDE DEF m, n, l
<1>7. l \in Nat /\ n \in Nat /\ Len(sent) \in Nat /\ Got = l + n /\ Got \in Nat
  BY Ordered, Counted DEF l, n
<1>8. Got' = Got + 1
  <2>1. Got' = l + Len(framed')
    BY <1>1 DEF Got, l
  <2>2. QED
    BY <2>1, <1>6, <1>7
<1>9. taken' = Before(Got + 1)' /\ Got' <= Len(sent') /\ taken' <= arrived'
  <2>1. Before(Got + 1)' = ends'[Got']
    BY <1>7, <1>8 DEF Before
  <2>2. QED
    BY <2>1, <1>1, <1>2, <1>3, <1>7, <1>8
<1>10. ASSUME NEW k \in 1 .. n + 1
       PROVE  framed'[k] = AsRead(sent[l + k])
  <2>1. CASE k \in 1 .. n
    <3>1. framed[k] = AsRead(sent[l + k])
      BY <2>1, <1>1 DEF ReaderInv, l, n
    <3>2. QED
      BY <3>1, <2>1, <1>6
  <2>2. CASE k = n + 1
    <3>1. l + k = Got + 1
      BY <2>2, <1>7
    <3>2. QED
      BY <3>1, <2>2, <1>6 DEF m
  <2>3. QED
    BY <2>1, <2>2, <1>7
<1>11. \A k \in 1 .. Len(framed') : framed'[k] = AsRead(sent'[Len(handled') + k])
  BY <1>1, <1>6, <1>10 DEF l
<1>12. QED
  BY <1>1, <1>6, <1>9, <1>11 DEF ReaderInv

LEMMA FeedReturnsKeepsReader ==
  ASSUME StreamInv, ReaderInv, FeedReturns
  PROVE  ReaderInv'
<1>1. /\ UNCHANGED <<sent, stream, ends, arrived, taken, framed, handled>>
      /\ reader = "framing" /\ reader' = "looping"
      /\ Blanks # {} => BodyLength(Headers) # None /\ MessageEnd > arrived
  BY DEF FeedReturns, serverVars
<1>2. Got' = Got /\ Before(Got + 1)' = Before(Got + 1)
  BY <1>1 DEF Got, Before
<1>3. Got \in Nat /\ Len(sent) \in Nat /\ arrived \in Nat
  BY Ordered, Counted DEF ReaderInv
<1>4. ASSUME Got < Len(sent)
      PROVE  arrived < ends[Got + 1]
  <2>1. ends[Got + 1] \in Nat
    <3>1. Got + 1 \in 1 .. Len(sent)
      BY <1>3, <1>4
    <3>2. QED
      BY <3>1, Ordered
  <2>2. ASSUME ends[Got + 1] <= arrived
        PROVE  FALSE
    <3>1. Blanks # {}
      BY <1>1, <1>4, <2>2, NextMessage
    <3>2. MessageEnd = ends[Got + 1]
      BY <1>1, <1>4, <3>1, NextMessage
    <3>3. QED
      BY <3>1, <3>2, <2>1, <2>2, <1>1, <1>3
  <2>3. QED
    BY <2>1, <2>2, <1>3
<1>5. QED
  BY <1>1, <1>2, <1>4 DEF ReaderInv

LEMMA HandlesMessageKeepsReader ==
  ASSUME StreamInv, ReaderInv, HandlesMessage
  PROVE  ReaderInv'
<1> DEFINE n == Len(framed)
           l == Len(handled)
<1>1. /\ UNCHANGED <<sent, stream, ends, arrived, taken, reader>>
      /\ reader = "looping" /\ framed # << >>
      /\ handled' = Append(handled, Head(framed)) /\ framed' = Tail(framed)
  BY DEF HandlesMessage, serverVars
<1>2. /\ l \in Nat /\ n \in Nat /\ Len(sent) \in Nat /\ Got = l + n /\ Got \in Nat
  BY Ordered, Counted
<1>3. /\ framed \in Seq(ReadMessages) /\ handled \in Seq(ReadMessages) /\ n # 0
      /\ Head(framed) = framed[1] /\ framed[1] \in ReadMessages
  BY <1>1 DEF ReaderInv
<1>4. /\ framed' \in Seq(ReadMessages) /\ Len(framed') = n - 1
      /\ \A k \in 1 .. Len(framed') : framed'[k] = framed[k + 1]
  BY <1>1, <1>3, HeadTailProperties
<1>5. /\ handled' \in Seq(ReadMessages) /\ Len(handled') = l + 1
      /\ \A k \in 1 .. l : handled'[k] = handled[k]
      /\ handled'[l + 1] = framed[1]
  <2> DEFINE r == framed[1]
  <2> HIDE DEF r
  <2>1. r \in ReadMessages /\ handled' = Append(handled, r)
    BY <1>1, <1>3 DEF r
  <2>2. /\ handled' \in Seq(ReadMessages) /\ Len(handled') = l + 1
        /\ \A k \in 1 .. l : handled'[k] = handled[k]
        /\ handled'[l + 1] = r
    BY <2>1, <1>3, AppendProperties
  <2>3. QED
    BY <2>2 DEF r
<1>6. /\ Got <= Len(sent) /\ taken = Before(Got + 1) /\ taken <= arrived
      /\ \A k \in 1 .. l : handled[k] = AsRead(sent[k])
      /\ \A k \in 1 .. n : framed[k] = AsRead(sent[l + k])
      /\ Got < Len(sent) => arrived < ends[Got + 1]
      /\ arrived \in Nat /\ arrived <= Len(stream)
  BY <1>1 DEF ReaderInv
<1> HIDE DEF n, l
<1>7. Got' = Got
  <2>1. Got' = (l + 1) + (n - 1)
    BY <1>4, <1>5 DEF Got
  <2>2. QED
    BY <2>1, <1>2
<1>8. Before(Got + 1)' = Before(Got + 1)
  BY <1>1, <1>7 DEF Before
<1>9. ASSUME NEW k \in 1 .. l + 1
      PROVE  handled'[k] = AsRead(sent[k])
  <2>1. CASE k \in 1 .. l
    BY <2>1, <1>5, <1>6
  <2>2. CASE k = l + 1
    <3>1. 1 \in 1 .. n
      BY <1>2, <1>3
    <3>2. QED
      BY <3>1, <2>2, <1>5, <1>6
  <2>3. QED
    BY <2>1, <2>2, <1>2
<1>10. ASSUME NEW k \in 1 .. n - 1
       PROVE  framed'[k] = AsRead(sent[(l + 1) + k])
  <2>1. k + 1 \in 1 .. n /\ l + (k + 1) = (l + 1) + k
    BY <1>2
  <2>2. QED
    BY <2>1, <1>4, <1>6
<1>11. Len(handled') <= Len(sent')
  BY <1>1, <1>2, <1>3, <1>5, <1>6
<1>12. /\ \A k \in 1 .. Len(handled') : handled'[k] = AsRead(sent'[k])
       /\ \A k \in 1 .. Len(framed') : framed'[k] = AsRead(sent'[Len(handled') + k])
  BY <1>1, <1>4, <1>5, <1>9, <1>10
<1>13. QED
  BY <1>1, <1>4, <1>5, <1>6, <1>7, <1>8, <1>11, <1>12 DEF ReaderInv

LEMMA FeedRaisesKeepsReader ==
  ASSUME StreamInv, ReaderInv, FeedRaises
  PROVE  ReaderInv'
<1>1. /\ UNCHANGED <<sent, stream, ends, arrived, handled>>
      /\ reader' = "failed" /\ framed' = << >>
  BY DEF FeedRaises, serverVars
<1>2. << >> \in Seq(ReadMessages)
  BY EmptySeq
<1>3. QED
  BY <1>1, <1>2 DEF ReaderInv

LEMMA ReaderAtRest ==
  ASSUME StreamInv, ReaderInv, UNCHANGED serverVars, UNCHANGED readerVars
  PROVE  ReaderInv'
<1>1. UNCHANGED <<sent, stream, ends, arrived, taken, framed, handled, reader>>
  BY DEF serverVars, readerVars
<1>2. Got' = Got /\ Before(Got + 1)' = Before(Got + 1)
  BY <1>1 DEF Got, Before
<1>3. QED
  BY <1>1, <1>2 DEF ReaderInv

LEMMA StreamInit ==
  ASSUME Init
  PROVE  StreamInv /\ ReaderInv
<1>1. /\ sent = << >> /\ stream = << >> /\ ends = << >>
      /\ arrived = 0 /\ taken = 0 /\ framed = << >> /\ handled = << >>
      /\ reader = "looping"
  BY DEF Init
<1>2. /\ sent \in Seq(Messages) /\ stream \in Seq(Units) /\ ends \in Seq(Nat)
      /\ handled \in Seq(ReadMessages) /\ framed \in Seq(ReadMessages)
      /\ Len(sent) = 0 /\ Len(stream) = 0 /\ Len(ends) = 0
      /\ Len(handled) = 0 /\ Len(framed) = 0
  BY <1>1, EmptySeq
<1>3. Got = 0 /\ Before(1) = 0
  BY <1>2 DEF Got, Before
<1>4. StreamInv
  BY <1>2, <1>3 DEF StreamInv
<1>5. ReaderInv
  BY <1>1, <1>2, <1>3 DEF ReaderInv
<1>6. QED
  BY <1>4, <1>5

LEMMA StreamStep ==
  ASSUME StreamInv, ReaderInv, [Next]_vars
  PROVE  StreamInv' /\ ReaderInv'
<1>1. CASE ServerSends
  BY <1>1, ServerKeepsStream, ServerKeepsReader
<1>2. ASSUME NEW n \in 1 .. Len(stream) - arrived, Receives(n)
      PROVE  StreamInv' /\ ReaderInv'
  BY <1>2, ReceivesKeepsReader, ServerAtRest DEF Receives
<1>3. CASE FramesMessage
  BY <1>3, FramesMessageKeepsReader, ServerAtRest DEF FramesMessage
<1>4. CASE FeedReturns
  BY <1>4, FeedReturnsKeepsReader, ServerAtRest DEF FeedReturns
<1>5. CASE FeedRaises
  BY <1>5, FeedRaisesKeepsReader, ServerAtRest DEF FeedRaises
<1>h. CASE HandlesMessage
  BY <1>h, HandlesMessageKeepsReader, ServerAtRest DEF HandlesMessage
<1>6. CASE AnswerTaken \/ Parses \/ SetMicrophone
  <2>1. UNCHANGED serverVars /\ UNCHANGED readerVars
    BY <1>6 DEF AnswerTaken, Parses, SetMicrophone
  <2>2. QED
    BY <2>1, ServerAtRest, ReaderAtRest
<1>7. CASE UNCHANGED vars
  <2>1. UNCHANGED serverVars /\ UNCHANGED readerVars
    BY <1>7 DEF vars
  <2>2. QED
    BY <2>1, ServerAtRest, ReaderAtRest
<1>8. QED
  BY <1>1, <1>2, <1>3, <1>4, <1>5, <1>h, <1>6, <1>7 DEF Next

LEMMA Framed ==
  ASSUME StreamInv, ReaderInv
  PROVE  FramedAsSent
<1>1. /\ Len(handled) \in Nat /\ Len(sent) \in Nat /\ Got = Len(handled) + Len(framed)
      /\ Len(handled) <= Len(sent) /\ DOMAIN handled = 1 .. Len(handled)
      /\ DOMAIN sent = 1 .. Len(sent)
      /\ \A k \in 1 .. Len(handled) : handled[k] = AsRead(sent[k])
  BY Ordered, Counted DEF ReaderInv, StreamInv
<1>2. ASSUME reader = "looping", framed = << >>, NEW k \in 1 .. Len(sent), ends[k] <= arrived, k > Len(handled)
      PROVE  FALSE
  <2>1. Got = Len(handled)
    BY <1>1, <1>2
  <2>2. Got + 1 \in 1 .. Len(sent) /\ Got < Len(sent) /\ Got + 1 <= k
    BY <2>1, <1>1, <1>2
  <2>3. arrived < ends[Got + 1] /\ arrived \in Nat
    BY <2>2, <1>2 DEF ReaderInv
  <2>4. ends[Got + 1] <= ends[k]
    BY <2>2 DEF StreamInv
  <2>5. ends[Got + 1] \in Nat /\ ends[k] \in Nat
    BY <2>2, Ordered
  <2>6. QED
    BY <2>3, <2>4, <2>5, <1>2
<1>3. QED
  BY <1>1, <1>2 DEF FramedAsSent

-----------------------------------------------------------------------------
(* The parser *)

MediaLines == Said(body, "media")

(* Where the first n lines say something of the section at m.                *)
SaidOf(m, n, what) == {i \in Lines(body, m) \cap Said(body, what) : i <= n}

MapsOf(m, n, p) == {i \in SaidOf(m, n, "rtpmap") : body[i].payload = p}

ConnectionOf(m, n) ==
  SaidOf(m, n, "connection") \cup (Preamble(body) \cap Said(body, "connection")) # {}

DirectionOf(m, n) ==
  LET said == SaidOf(m, n, "direction")
  IN IF said = {} THEN "sendrecv" ELSE body[Latest(said)].direction

RtpmapOf(m, n) ==
  [p \in {body[i].payload : i \in SaidOf(m, n, "rtpmap")} |-> body[Latest(MapsOf(m, n, p))].codec]

CryptoOf(m, n) ==
  LET said == SaidOf(m, n, "crypto")
  IN IF said = {} THEN "none" ELSE body[Latest(said)].crypto

(* The section at m as the first n lines describe it.                        *)
SectionOf(m, n) ==
  [kind |-> body[m].kind, open |-> body[m].open, savp |-> body[m].savp,
   payloads |-> body[m].payloads, connected |-> ConnectionOf(m, n), line |-> m,
   direction |-> DirectionOf(m, n), rtpmap |-> RtpmapOf(m, n), crypto |-> CryptoOf(m, n)]

(* There is a section for every media line read, in their order, and it is   *)
(* what the lines read so far make of it.                                    *)
SectionsInv ==
  /\ body \in Seq(Units) /\ at \in 0 .. Len(body)
  /\ \E S : sections \in Seq(S)
  /\ \A s \in 1 .. Len(sections) :
       /\ sections[s].line \in MediaLines /\ sections[s].line <= at
       /\ sections[s] = SectionOf(sections[s].line, at)
  /\ \A s, t \in 1 .. Len(sections) : s < t => sections[s].line < sections[t].line
  /\ \A m \in MediaLines : m <= at => \E s \in 1 .. Len(sections) : sections[s].line = m

ReadableInv ==
  \A i \in 1 .. at : body[i].is # "bad" /\ (body[i].is = "unreadable" => i \in Preamble(body))

ConnectedInv ==
  connected = ({i \in Preamble(body) \cap Said(body, "connection") : i <= at} # {})

ParserInv ==
  /\ parser \in {"waiting", "parsing", "done"}
  /\ parser = "waiting" =>
       body = << >> /\ at = 0 /\ connected = FALSE /\ sections = << >>
  /\ parser = "parsing" => SectionsInv /\ ReadableInv /\ ConnectedInv
  /\ parser = "done" => negotiated = Promised(body)

(* Where the lines of a section stand.                                       *)
LEMMA Positions ==
  ASSUME body \in Seq(Units)
  PROVE  /\ Len(body) \in Nat /\ DOMAIN body = 1 .. Len(body)
         /\ MediaLines \in SUBSET (1 .. Len(body))
         /\ \A m : Lines(body, m) \in SUBSET (1 .. Len(body))
         /\ Preamble(body) \in SUBSET (1 .. Len(body))
         /\ \A m, n, what : SaidOf(m, n, what) \in SUBSET (0 .. Len(body))
         /\ \A m, n, p : MapsOf(m, n, p) \in SUBSET (0 .. Len(body))
<1>1. Len(body) \in Nat /\ DOMAIN body = 1 .. Len(body)
  OBVIOUS
<1>2. \A m : Lines(body, m) \in SUBSET (1 .. Len(body))
  BY <1>1 DEF Lines
<1>3. \A m, n, what : SaidOf(m, n, what) \in SUBSET (0 .. Len(body))
  BY <1>1, <1>2 DEF SaidOf
<1>4. \A m, n, p : MapsOf(m, n, p) \in SUBSET (0 .. Len(body))
  BY <1>3 DEF MapsOf
<1>5. QED
  BY <1>1, <1>2, <1>3, <1>4 DEF MediaLines, Said, Preamble

(* A section is what is said of it.                                          *)
LEMMA SameSection ==
  ASSUME NEW m, NEW n, NEW k, \A what : SaidOf(m, n, what) = SaidOf(m, k, what)
  PROVE  SectionOf(m, n) = SectionOf(m, k)
<1>1. \A p : MapsOf(m, n, p) = MapsOf(m, k, p)
  BY DEF MapsOf
<1>2. RtpmapOf(m, n) = RtpmapOf(m, k)
  BY <1>1 DEF RtpmapOf
<1>3. QED
  BY <1>2 DEF SectionOf, ConnectionOf, DirectionOf, CryptoOf

(* A media line says nothing of the sections before it.                      *)
LEMMA MediaSaysNothing ==
  ASSUME SectionsInv, at < Len(body), body[at + 1].is = "media",
         NEW m \in MediaLines, m <= at
  PROVE  SectionOf(m, at + 1) = SectionOf(m, at)
<1>1. /\ at \in Nat /\ at + 1 \in MediaLines /\ MediaLines \in SUBSET Nat
      /\ \A n : Lines(body, n) \in SUBSET Nat
  BY Positions DEF SectionsInv, MediaLines, Said
<1>2. at + 1 \notin Lines(body, m)
  <2> SUFFICES ASSUME at + 1 \in Lines(body, m)
               PROVE  FALSE
    OBVIOUS
  <2>1. at + 1 <= m \/ at + 1 < at + 1
    BY <1>1 DEF Lines, MediaLines
  <2>2. QED
    BY <2>1, <1>1
<1>3. \A what : SaidOf(m, at + 1, what) = SaidOf(m, at, what)
  <2> SUFFICES ASSUME NEW what, NEW i \in Lines(body, m)
               PROVE  i <= at + 1 <=> i <= at
    BY DEF SaidOf
  <2>1. i # at + 1 /\ i \in Nat
    BY <1>1, <1>2
  <2>2. QED
    BY <2>1, <1>1
<1>4. QED
  BY <1>3, SameSection

(* Any other line says something of the last section alone.                  *)
LEMMA SaysNothingOfOthers ==
  ASSUME SectionsInv, at < Len(body),
         NEW m \in MediaLines, m <= at,
         NEW n \in MediaLines, n <= at, m < n
  PROVE  SectionOf(m, at + 1) = SectionOf(m, at)
<1>1. /\ at \in Nat /\ MediaLines \in SUBSET Nat
      /\ \A k : Lines(body, k) \in SUBSET Nat
  BY Positions DEF SectionsInv
<1>2. at + 1 \notin Lines(body, m)
  <2> SUFFICES ASSUME at + 1 \in Lines(body, m)
               PROVE  FALSE
    OBVIOUS
  <2>1. n <= m \/ at + 1 < n
    BY DEF Lines, MediaLines
  <2>2. QED
    BY <2>1, <1>1
<1>3. \A what : SaidOf(m, at + 1, what) = SaidOf(m, at, what)
  <2> SUFFICES ASSUME NEW what, NEW i \in Lines(body, m)
               PROVE  i <= at + 1 <=> i <= at
    BY DEF SaidOf
  <2>1. i # at + 1 /\ i \in Nat
    BY <1>1, <1>2
  <2>2. QED
    BY <2>1, <1>1
<1>4. QED
  BY <1>3, SameSection

LEMMA SaysOfLast ==
  ASSUME SectionsInv, at < Len(body), body[at + 1].is # "media",
         NEW m \in MediaLines, m <= at, \A n \in MediaLines : n <= at => n <= m
  PROVE  \A what : SaidOf(m, at + 1, what) =
           SaidOf(m, at, what) \cup (IF body[at + 1].is = what THEN {at + 1} ELSE {})
<1>1. /\ at \in Nat /\ Len(body) \in Nat /\ MediaLines \in SUBSET Nat
      /\ \A k : Lines(body, k) \in SUBSET Nat
      /\ DOMAIN body = 1 .. Len(body)
  BY Positions DEF SectionsInv
<1>2. at + 1 \in DOMAIN body /\ at + 1 \notin MediaLines
  BY <1>1 DEF MediaLines, Said
<1>3. at + 1 \in Lines(body, m)
  <2>1. ASSUME NEW n \in MediaLines
        PROVE  n <= m \/ at + 1 < n
    <3>1. n \in Nat /\ n # at + 1
      BY <1>1, <1>2
    <3>2. QED
      BY <3>1, <1>1
  <2>2. at + 1 > m
    BY <1>1
  <2>3. QED
    BY <2>1, <2>2, <1>2 DEF Lines, MediaLines
<1>4. SUFFICES ASSUME NEW what, NEW i
               PROVE  i \in SaidOf(m, at + 1, what) <=>
                      i \in SaidOf(m, at, what) \/ (body[at + 1].is = what /\ i = at + 1)
  OBVIOUS
<1>5. CASE i = at + 1
  <2>1. ~(at + 1 <= at) /\ at + 1 <= at + 1
    BY <1>1
  <2>2. QED
    BY <2>1, <1>2, <1>3, <1>5 DEF SaidOf, Said
<1>6. CASE i # at + 1 /\ i \in Lines(body, m)
  <2>1. i <= at + 1 <=> i <= at
    BY <1>1, <1>6
  <2>2. QED
    BY <2>1, <1>6 DEF SaidOf
<1>7. CASE i # at + 1 /\ i \notin Lines(body, m)
  BY <1>7 DEF SaidOf
<1>8. QED
  BY <1>5, <1>6, <1>7

LEMMA SameBody ==
  ASSUME UNCHANGED body
  PROVE  /\ MediaLines' = MediaLines
         /\ Preamble(body)' = Preamble(body)
         /\ \A what : Said(body, what)' = Said(body, what)
         /\ \A m, n : SectionOf(m, n)' = SectionOf(m, n)
BY DEF MediaLines, Preamble, Said, SectionOf, ConnectionOf, DirectionOf, RtpmapOf, CryptoOf,
       MapsOf, SaidOf, Lines

(* The current section is that of the last media line read.                  *)
LEMMA CurrentIsLast ==
  ASSUME SectionsInv, sections # << >>
  PROVE  /\ Len(sections) \in 1 .. Len(sections)
         /\ Current = SectionOf(Current.line, at)
         /\ Current.line \in MediaLines /\ Current.line <= at
         /\ \A n \in MediaLines : n <= at => n <= Current.line
<1> DEFINE l == Len(sections)
<1>1. l \in Nat /\ l # 0
  BY DEF SectionsInv
<1>2. l \in 1 .. l
  BY <1>1
<1>3. Current = sections[l]
  BY DEF Current
<1> HIDE DEF l
<1>4. /\ \A s \in 1 .. l : sections[s].line \in MediaLines /\ sections[s].line <= at
      /\ \A s \in 1 .. l : sections[s] = SectionOf(sections[s].line, at)
      /\ \A s, t \in 1 .. l : s < t => sections[s].line < sections[t].line
      /\ \A m \in MediaLines : m <= at => \E s \in 1 .. l : sections[s].line = m
  BY DEF SectionsInv, l
<1>5. MediaLines \in SUBSET Nat
  BY Positions DEF SectionsInv
<1>6. ASSUME NEW n \in MediaLines, n <= at
      PROVE  n <= Current.line
  <2>1. PICK s \in 1 .. l : sections[s].line = n
    BY <1>4, <1>6
  <2>2. CASE s = l
    BY <2>1, <2>2, <1>3, <1>5
  <2>3. CASE s < l
    <3>1. n < Current.line
      BY <2>1, <2>3, <1>2, <1>3, <1>4
    <3>2. n \in Nat /\ Current.line \in Nat
      BY <1>2, <1>3, <1>4, <1>5
    <3>3. QED
      BY <3>1, <3>2
  <2>4. QED
    BY <2>2, <2>3, <1>1
<1>7. QED
  BY <1>2, <1>3, <1>4, <1>6 DEF l

LEMMA MediaReadKeepsSections ==
  ASSUME SectionsInv, ConnectedInv, ReadsMedia
  PROVE  SectionsInv'
<1> DEFINE l == Len(sections)
           new == NewSection(body[at + 1], at + 1)
<1>1. /\ at < Len(body) /\ body[at + 1].is = "media"
      /\ UNCHANGED body /\ at' = at + 1
      /\ sections' = Append(sections, new)
  BY DEF ReadsMedia, Line, LineRead
<1>2. /\ at \in Nat /\ Len(body) \in Nat /\ at + 1 \in MediaLines /\ MediaLines \in SUBSET Nat
      /\ l \in Nat /\ body \in Seq(Units)
      /\ \A m : Lines(body, m) \in SUBSET Nat
      /\ Preamble(body) \in SUBSET Nat
  BY <1>1, Positions DEF SectionsInv, MediaLines, Said
<1>3. /\ \E S : sections' \in Seq(S)
      /\ Len(sections') = l + 1
      /\ \A s \in 1 .. l : sections'[s] = sections[s]
      /\ sections'[l + 1] = new
  <2>1. PICK S : sections \in Seq(S)
    BY DEF SectionsInv
  <2> DEFINE T == S \cup {new}
  <2> HIDE DEF new
  <2>2. sections \in Seq(T) /\ new \in T
    BY <2>1, SeqMonotonic
  <2> HIDE DEF T
  <2>3. QED
    BY <2>2, <1>1, AppendProperties
<1>4. new = SectionOf(at + 1, at + 1)
  <2>1. \A what : SaidOf(at + 1, at + 1, what) = {}
    <3> SUFFICES ASSUME NEW i \in Lines(body, at + 1)
                 PROVE  ~(i <= at + 1)
      BY DEF SaidOf
    <3>1. i > at + 1 /\ i \in Nat
      BY <1>2 DEF Lines
    <3>2. QED
      BY <3>1, <1>2
  <2>2. connected = ConnectionOf(at + 1, at + 1)
    <3>1. \A i \in Preamble(body) : i <= at
      <4>1. \A i \in Preamble(body) : i < at + 1
        BY <1>2 DEF Preamble, MediaLines
      <4>2. QED
        BY <4>1, <1>2
    <3>2. {i \in Preamble(body) \cap Said(body, "connection") : i <= at} =
            Preamble(body) \cap Said(body, "connection")
      BY <3>1
    <3>3. QED
      BY <3>2, <2>1 DEF ConnectedInv, ConnectionOf
  <2>3. RtpmapOf(at + 1, at + 1) = << >>
    BY <2>1 DEF RtpmapOf
  <2>4. DirectionOf(at + 1, at + 1) = "sendrecv" /\ CryptoOf(at + 1, at + 1) = "none"
    BY <2>1 DEF DirectionOf, CryptoOf
  <2>5. QED
    BY <2>2, <2>3, <2>4 DEF NewSection, SectionOf
<1> HIDE DEF l, new
<1>5. /\ \A s \in 1 .. l : sections[s].line \in MediaLines /\ sections[s].line <= at
      /\ \A s \in 1 .. l : sections[s] = SectionOf(sections[s].line, at)
      /\ \A s, t \in 1 .. l : s < t => sections[s].line < sections[t].line
      /\ \A m \in MediaLines : m <= at => \E s \in 1 .. l : sections[s].line = m
  BY DEF SectionsInv, l
<1>6. new.line = at + 1
  BY DEF new, NewSection
<1>7. ASSUME NEW s \in 1 .. l + 1
      PROVE  /\ sections'[s].line \in MediaLines /\ sections'[s].line <= at + 1
             /\ sections'[s] = SectionOf(sections'[s].line, at + 1)
  <2>1. CASE s \in 1 .. l
    <3>1. sections'[s] = sections[s]
      BY <2>1, <1>3
    <3>2. SectionOf(sections[s].line, at + 1) = SectionOf(sections[s].line, at)
      BY <2>1, <1>1, <1>5, MediaSaysNothing
    <3>3. sections[s].line <= at + 1
      <4>1. sections[s].line \in Nat /\ sections[s].line <= at
        BY <2>1, <1>2, <1>5
      <4>2. QED
        BY <4>1, <1>2
    <3>4. QED
      BY <3>1, <3>2, <3>3, <2>1, <1>5
  <2>2. CASE s = l + 1
    BY <2>2, <1>2, <1>3, <1>4, <1>6
  <2>3. QED
    BY <2>1, <2>2, <1>2
<1>8. ASSUME NEW s \in 1 .. l + 1, NEW t \in 1 .. l + 1, s < t
      PROVE  sections'[s].line < sections'[t].line
  <2>1. s \in 1 .. l /\ sections'[s] = sections[s]
    BY <1>2, <1>3, <1>8
  <2>2. CASE t \in 1 .. l
    BY <2>1, <2>2, <1>3, <1>5, <1>8
  <2>3. CASE t = l + 1
    <3>1. sections[s].line \in Nat /\ sections[s].line <= at
      BY <2>1, <1>2, <1>5
    <3>2. sections'[t].line = at + 1
      BY <2>3, <1>3, <1>6
    <3>3. QED
      BY <3>1, <3>2, <2>1, <1>2
  <2>4. QED
    BY <2>2, <2>3, <1>2
<1>9. ASSUME NEW m \in MediaLines, m <= at + 1
      PROVE  \E s \in 1 .. l + 1 : sections'[s].line = m
  <2>1. CASE m = at + 1
    <3>1. l + 1 \in 1 .. l + 1
      BY <1>2
    <3>2. QED
      BY <3>1, <2>1, <1>3, <1>6
  <2>2. CASE m <= at
    <3>1. PICK s \in 1 .. l : sections[s].line = m
      BY <2>2, <1>5
    <3>2. s \in 1 .. l + 1
      BY <1>2
    <3>3. QED
      BY <3>1, <3>2, <1>3
  <2>3. QED
    BY <2>1, <2>2, <1>2, <1>9
<1>10. /\ \A s \in 1 .. Len(sections') :
            /\ sections'[s].line \in MediaLines /\ sections'[s].line <= at'
            /\ sections'[s] = SectionOf(sections'[s].line, at + 1)
       /\ \A s, t \in 1 .. Len(sections') : s < t => sections'[s].line < sections'[t].line
       /\ \A m \in MediaLines : m <= at' => \E s \in 1 .. Len(sections') : sections'[s].line = m
       /\ at' \in 0 .. Len(body)
  BY <1>1, <1>2, <1>3, <1>7, <1>8, <1>9
<1>11. \A s : SectionOf(sections[s].line, at)' = SectionOf(sections'[s].line, at + 1)
  BY <1>1 DEF SectionOf, ConnectionOf, DirectionOf, RtpmapOf, CryptoOf, MapsOf, SaidOf, Lines,
              Preamble, Said
<1>12. QED
  BY <1>1, <1>2, <1>3, <1>10, <1>11, SameBody DEF SectionsInv

(* An attribute changes the current section to what it is with that line.    *)
LEMMA LineKeepsSections ==
  ASSUME SectionsInv, at < Len(body), body[at + 1].is # "media",
         UNCHANGED body, at' = at + 1,
         NEW section,
         sections # << >> => section = SectionOf(Current.line, at + 1),
         sections' = IF sections = << >> THEN sections
                     ELSE [sections EXCEPT ![Len(sections)] = section]
  PROVE  SectionsInv'
<1> DEFINE l == Len(sections)
<1>1. /\ at \in Nat /\ Len(body) \in Nat /\ MediaLines \in SUBSET Nat
      /\ l \in Nat /\ body \in Seq(Units) /\ at + 1 \notin MediaLines
      /\ (sections = << >> => l = 0)
  BY Positions DEF SectionsInv, MediaLines, Said
<1>2. /\ \E S : sections' \in Seq(S)
      /\ Len(sections') = l
      /\ \A s \in 1 .. l : sections'[s] = IF s = l THEN section ELSE sections[s]
  <2>1. CASE sections = << >>
    BY <2>1, <1>1 DEF SectionsInv
  <2>2. CASE sections # << >>
    <3>1. PICK S : sections \in Seq(S)
      BY DEF SectionsInv
    <3> DEFINE T == S \cup {section}
    <3>2. sections \in Seq(T) /\ section \in T
      BY <3>1, SeqMonotonic
    <3>3. Len(sections) \in 1 .. Len(sections)
      BY <2>2, CurrentIsLast
    <3> HIDE DEF T
    <3>4. /\ [sections EXCEPT ![Len(sections)] = section] \in Seq(T)
          /\ Len([sections EXCEPT ![Len(sections)] = section]) = Len(sections)
          /\ \A s \in 1 .. Len(sections) :
               [sections EXCEPT ![Len(sections)] = section][s] =
                 IF s = Len(sections) THEN section ELSE sections[s]
      BY <3>2, <3>3, ExceptSeq
    <3>5. QED
      BY <3>4, <2>2
  <2>3. QED
    BY <2>1, <2>2
<1>c. Current = sections[l]
  BY DEF Current
<1> HIDE DEF l
<1>3. /\ \A s \in 1 .. l : sections[s].line \in MediaLines /\ sections[s].line <= at
      /\ \A s \in 1 .. l : sections[s] = SectionOf(sections[s].line, at)
      /\ \A s, t \in 1 .. l : s < t => sections[s].line < sections[t].line
      /\ \A m \in MediaLines : m <= at => \E s \in 1 .. l : sections[s].line = m
  BY DEF SectionsInv, l
<1>4. ASSUME NEW s \in 1 .. l
      PROVE  /\ sections'[s].line = sections[s].line
             /\ sections'[s] = SectionOf(sections[s].line, at + 1)
  <2>1. l \in 1 .. l /\ sections # << >>
    BY <1>1
  <2>2. CASE s = l
    <3>1. sections'[s] = SectionOf(sections[s].line, at + 1)
      BY <2>1, <2>2, <1>2, <1>c
    <3>2. SectionOf(sections[s].line, at + 1).line = sections[s].line
      BY DEF SectionOf
    <3>3. QED
      BY <3>1, <3>2
  <2>3. CASE s # l
    <3>1. sections[s].line < sections[l].line
      BY <2>1, <2>3, <1>1, <1>3
    <3>2. SectionOf(sections[s].line, at + 1) = SectionOf(sections[s].line, at)
      BY <3>1, <2>1, <1>3, SaysNothingOfOthers
    <3>3. sections'[s] = sections[s]
      BY <2>3, <1>2
    <3>4. QED
      BY <3>2, <3>3, <1>3
  <2>4. QED
    BY <2>2, <2>3
<1>5. ASSUME NEW m \in MediaLines, m <= at + 1
      PROVE  m <= at
  <2>1. m \in Nat /\ m # at + 1
    BY <1>1
  <2>2. QED
    BY <2>1, <1>1, <1>5
<1>6. ASSUME NEW s \in 1 .. l
      PROVE  sections[s].line <= at + 1
  <2>1. sections[s].line \in Nat /\ sections[s].line <= at
    BY <1>1, <1>3
  <2>2. QED
    BY <2>1, <1>1
<1>7. /\ \A s \in 1 .. Len(sections') :
           /\ sections'[s].line \in MediaLines /\ sections'[s].line <= at'
           /\ sections'[s] = SectionOf(sections'[s].line, at + 1)
      /\ \A s, t \in 1 .. Len(sections') : s < t => sections'[s].line < sections'[t].line
      /\ \A m \in MediaLines : m <= at' => \E s \in 1 .. Len(sections') : sections'[s].line = m
      /\ at' \in 0 .. Len(body)
  BY <1>1, <1>2, <1>3, <1>4, <1>5, <1>6
<1>8. \A s : SectionOf(sections[s].line, at)' = SectionOf(sections'[s].line, at + 1)
  BY DEF SectionOf, ConnectionOf, DirectionOf, RtpmapOf, CryptoOf, MapsOf, SaidOf, Lines,
         Preamble, Said
<1>9. \E S : sections' \in Seq(S)
  BY <1>2
<1>10. MediaLines' = MediaLines /\ body' \in Seq(Units) /\ at' \in 0 .. Len(body')
  BY <1>1, <1>7, SameBody
<1>11. QED
  BY <1>7, <1>8, <1>9, <1>10 DEF SectionsInv

(* What one more line makes of the current section.                          *)
LEMMA CurrentWithLine ==
  ASSUME SectionsInv, at < Len(body), body[at + 1].is # "media", sections # << >>
  PROVE  LET m == Current.line
             line == body[at + 1]
             old == SectionOf(m, at)
         IN /\ Current = old
            /\ ConnectionOf(m, at + 1) = (ConnectionOf(m, at) \/ line.is = "connection")
            /\ DirectionOf(m, at + 1) =
                 IF line.is = "direction" THEN line.direction ELSE DirectionOf(m, at)
            /\ CryptoOf(m, at + 1) = IF line.is = "crypto" THEN line.crypto ELSE CryptoOf(m, at)
            /\ RtpmapOf(m, at + 1) =
                 IF line.is = "rtpmap"
                 THEN [p \in DOMAIN RtpmapOf(m, at) \cup {line.payload} |->
                         IF p = line.payload THEN line.codec ELSE RtpmapOf(m, at)[p]]
                 ELSE RtpmapOf(m, at)
<1> DEFINE m == Current.line
           line == body[at + 1]
<1>1. /\ Current = SectionOf(m, at)
      /\ m \in MediaLines /\ m <= at /\ \A n \in MediaLines : n <= at => n <= m
  BY CurrentIsLast
<1>2. \A what : SaidOf(m, at + 1, what) =
        SaidOf(m, at, what) \cup (IF line.is = what THEN {at + 1} ELSE {})
  BY <1>1, SaysOfLast
<1>3. /\ body \in Seq(Units) /\ at \in Nat /\ Len(body) \in Nat
      /\ \A what : SaidOf(m, at, what) \in SUBSET (0 .. Len(body))
      /\ \A what : SaidOf(m, at + 1, what) \in SUBSET (0 .. Len(body))
      /\ \A p : MapsOf(m, at + 1, p) \in SUBSET (0 .. Len(body))
  BY Positions DEF SectionsInv
<1>4. \A what : \A i \in SaidOf(m, at, what) : i <= at + 1 /\ i # at + 1
  <2> SUFFICES ASSUME NEW what, NEW i \in SaidOf(m, at, what)
               PROVE  i <= at + 1 /\ i # at + 1
    OBVIOUS
  <2>1. i \in Nat /\ i <= at
    BY <1>3 DEF SaidOf
  <2>2. QED
    BY <2>1, <1>3
<1> HIDE DEF m, line
<1>5. ASSUME NEW what, line.is = what
      PROVE  SaidOf(m, at + 1, what) # {} /\ Latest(SaidOf(m, at + 1, what)) = at + 1
  <2>1. at + 1 \in SaidOf(m, at + 1, what) /\ \A i \in SaidOf(m, at + 1, what) : i <= at + 1
    BY <1>2, <1>4, <1>5, <1>3
  <2>2. QED
    BY <2>1, <1>3, LatestIs
<1>6. ConnectionOf(m, at + 1) = (ConnectionOf(m, at) \/ line.is = "connection")
  BY <1>2 DEF ConnectionOf
<1>7. DirectionOf(m, at + 1) = IF line.is = "direction" THEN line.direction ELSE DirectionOf(m, at)
  <2>1. CASE line.is = "direction"
    BY <2>1, <1>5 DEF DirectionOf, line
  <2>2. CASE line.is # "direction"
    BY <2>2, <1>2 DEF DirectionOf
  <2>3. QED
    BY <2>1, <2>2
<1>8. CryptoOf(m, at + 1) = IF line.is = "crypto" THEN line.crypto ELSE CryptoOf(m, at)
  <2>1. CASE line.is = "crypto"
    BY <2>1, <1>5 DEF CryptoOf, line
  <2>2. CASE line.is # "crypto"
    BY <2>2, <1>2 DEF CryptoOf
  <2>3. QED
    BY <2>1, <2>2
<1>9. CASE line.is # "rtpmap"
  <2>1. SaidOf(m, at + 1, "rtpmap") = SaidOf(m, at, "rtpmap")
    BY <1>2, <1>9
  <2>2. \A p : MapsOf(m, at + 1, p) = MapsOf(m, at, p)
    BY <2>1 DEF MapsOf
  <2>3. RtpmapOf(m, at + 1) = RtpmapOf(m, at)
    BY <2>1, <2>2 DEF RtpmapOf
  <2>4. QED
    BY <2>3, <1>1, <1>6, <1>7, <1>8, <1>9 DEF m, line
<1>10. CASE line.is = "rtpmap"
  <2> DEFINE old == RtpmapOf(m, at)
             mapped == {body[i].payload : i \in SaidOf(m, at + 1, "rtpmap")}
  <2>1. SaidOf(m, at + 1, "rtpmap") = SaidOf(m, at, "rtpmap") \cup {at + 1}
    BY <1>2, <1>10
  <2>2. DOMAIN old = {body[i].payload : i \in SaidOf(m, at, "rtpmap")}
    BY DEF RtpmapOf
  <2>3. mapped = DOMAIN old \cup {line.payload}
    BY <2>1, <2>2 DEF line
  <2>4. ASSUME NEW p \in mapped
        PROVE  body[Latest(MapsOf(m, at + 1, p))].codec =
                 IF p = line.payload THEN line.codec ELSE old[p]
    <3>1. CASE p = line.payload
      <4>1. at + 1 \in MapsOf(m, at + 1, p) /\ \A i \in MapsOf(m, at + 1, p) : i <= at + 1
        BY <3>1, <2>1, <1>3, <1>4 DEF MapsOf, line
      <4>2. Latest(MapsOf(m, at + 1, p)) = at + 1
        BY <4>1, <1>3, LatestIs
      <4>3. QED
        BY <4>2, <3>1 DEF line
    <3>2. CASE p # line.payload
      <4>1. MapsOf(m, at + 1, p) = MapsOf(m, at, p)
        BY <3>2, <2>1 DEF MapsOf, line
      <4>2. p \in DOMAIN old
        BY <3>2, <2>3
      <4>3. old[p] = body[Latest(MapsOf(m, at, p))].codec
        BY <4>2, <2>2 DEF RtpmapOf
      <4>4. QED
        BY <4>1, <4>3, <3>2
    <3>3. QED
      BY <3>1, <3>2
  <2>5. RtpmapOf(m, at + 1) = [p \in mapped |-> body[Latest(MapsOf(m, at + 1, p))].codec]
    BY DEF RtpmapOf
  <2> HIDE DEF mapped, old
  <2>6. RtpmapOf(m, at + 1) = [p \in mapped |-> IF p = line.payload THEN line.codec ELSE old[p]]
    BY <2>4, <2>5
  <2>7. QED
    BY <2>3, <2>6, <1>1, <1>6, <1>7, <1>8, <1>10 DEF m, line, old
<1>11. QED
  BY <1>9, <1>10

(* A line stands in the preamble when there is no section yet.               *)
LEMMA WhereTheLineIs ==
  ASSUME SectionsInv, at < Len(body)
  PROVE  /\ sections # << >> => at + 1 \notin Preamble(body)
         /\ sections = << >> /\ body[at + 1].is # "media" => at + 1 \in Preamble(body)
<1>1. /\ at \in Nat /\ Len(body) \in Nat /\ MediaLines \in SUBSET Nat
      /\ DOMAIN body = 1 .. Len(body) /\ at + 1 \in DOMAIN body
  BY Positions DEF SectionsInv
<1>2. CASE sections # << >>
  <2>1. Current.line \in MediaLines /\ Current.line <= at
    BY <1>2, CurrentIsLast
  <2>2. ~(at + 1 < Current.line)
    <3>1. Current.line \in Nat
      BY <2>1, <1>1
    <3>2. QED
      BY <3>1, <2>1, <1>1
  <2>3. QED
    BY <2>1, <2>2, <1>2 DEF Preamble, MediaLines
<1>3. CASE sections = << >> /\ body[at + 1].is # "media"
  <2>1. ASSUME NEW n \in MediaLines
        PROVE  at + 1 < n
    <3>1. ~(n <= at)
      BY <1>3 DEF SectionsInv
    <3>2. n # at + 1
      BY <1>3 DEF MediaLines, Said
    <3>3. QED
      BY <3>1, <3>2, <1>1
  <2>2. QED
    BY <2>1, <1>1, <1>3 DEF Preamble, MediaLines
<1>4. QED
  BY <1>2, <1>3

(* A line that is read leaves what is readable so.                           *)
LEMMA LineKeepsReadable ==
  ASSUME SectionsInv, ReadableInv, LineRead, at < Len(body),
         body[at + 1].is # "bad",
         body[at + 1].is = "unreadable" => sections = << >>
  PROVE  ReadableInv'
<1>1. UNCHANGED body /\ at' = at + 1 /\ at \in Nat
  <2>1. Len(body) \in Nat /\ at \in 0 .. Len(body)
    BY Positions DEF SectionsInv
  <2>2. at \in Nat
    BY <2>1
  <2>3. QED
    BY <2>2 DEF LineRead
<1>n. at \in Nat
  BY <1>1
<1>2. ASSUME NEW i \in 1 .. at + 1
      PROVE  body[i].is # "bad" /\ (body[i].is = "unreadable" => i \in Preamble(body))
  <2>1. CASE i \in 1 .. at
    BY <2>1 DEF ReadableInv
  <2>2. CASE i = at + 1
    BY <2>2, WhereTheLineIs
  <2>3. i \in 1 .. at \/ i = at + 1
    BY <1>n
  <2>4. QED
    BY <2>1, <2>2, <2>3
<1>3. QED
  BY <1>1, <1>2, SameBody DEF ReadableInv

(* Whether the session has a connection is for lines of the preamble alone.  *)
LEMMA LineKeepsConnected ==
  ASSUME SectionsInv, ConnectedInv, LineRead, at < Len(body),
         connected' = (connected \/ (body[at + 1].is = "connection" /\ sections = << >>))
  PROVE  ConnectedInv'
<1> DEFINE P == Preamble(body) \cap Said(body, "connection")
           heard == {i \in P : i <= at}
<1>1. UNCHANGED body /\ at' = at + 1 /\ at \in Nat /\ P \in SUBSET Nat
      /\ DOMAIN body = 1 .. Len(body) /\ Len(body) \in Nat
  BY Positions DEF LineRead, SectionsInv
<1>2. {i \in P : i <= at + 1} = heard \cup (P \cap {at + 1})
  <2> SUFFICES ASSUME NEW i \in P
               PROVE  i <= at + 1 <=> i <= at \/ i = at + 1
    OBVIOUS
  <2>1. i \in Nat
    BY <1>1
  <2> HIDE DEF P
  <2>2. QED
    BY <2>1, <1>1
<1>3. at + 1 \in P <=> body[at + 1].is = "connection" /\ sections = << >>
  <2>1. at + 1 \in DOMAIN body
    BY <1>1
  <2>2. QED
    BY <2>1, WhereTheLineIs DEF Said
<1>4. ConnectedInv' <=> connected' = ({i \in P : i <= at + 1} # {})
  BY <1>1, SameBody DEF ConnectedInv
<1>5. connected = (heard # {})
  BY DEF ConnectedInv
<1> HIDE DEF P, heard
<1>6. {i \in P : i <= at + 1} # {} <=> heard # {} \/ at + 1 \in P
  BY <1>2
<1>7. QED
  BY <1>3, <1>4, <1>5, <1>6

Parsed == SectionsInv /\ ReadableInv /\ ConnectedInv

LEMMA MediaRead ==
  ASSUME Parsed, ReadsMedia
  PROVE  Parsed'
<1>1. /\ at < Len(body) /\ body[at + 1].is = "media" /\ LineRead
      /\ UNCHANGED connected
  BY DEF ReadsMedia, Line
<1>2. connected' = (connected \/ (body[at + 1].is = "connection" /\ sections = << >>))
  BY <1>1 DEF Parsed, ConnectedInv
<1>3. QED
  BY <1>1, <1>2, MediaReadKeepsSections, LineKeepsReadable, LineKeepsConnected DEF Parsed

(* An attribute or connection of the current section.                        *)
LEMMA AmendmentRead ==
  ASSUME Parsed, sections # << >>, at < Len(body),
         body[at + 1].is \notin {"media", "bad", "unreadable"},
         NEW section, Amends(section),
         section = SectionOf(Current.line, at + 1)
  PROVE  Parsed'
<1>1. /\ LineRead /\ UNCHANGED <<connected, body>> /\ at' = at + 1
      /\ sections' = [sections EXCEPT ![Len(sections)] = section]
  BY DEF Amends, LineRead
<1>2. SectionsInv'
  BY <1>1, LineKeepsSections DEF Parsed
<1>3. connected' = (connected \/ (body[at + 1].is = "connection" /\ sections = << >>))
  BY <1>1 DEF Parsed, ConnectedInv
<1>4. QED
  BY <1>1, <1>2, <1>3, LineKeepsReadable, LineKeepsConnected DEF Parsed

LEMMA ConnectionRead ==
  ASSUME Parsed, ReadsConnection
  PROVE  Parsed'
<1>1. /\ at < Len(body) /\ body[at + 1].is = "connection" /\ sections # << >>
      /\ Amends([Current EXCEPT !.connected = TRUE])
  BY DEF ReadsConnection, Line
<1>2. [Current EXCEPT !.connected = TRUE] = SectionOf(Current.line, at + 1)
  <2> DEFINE m == Current.line
  <2>1. /\ Current = SectionOf(m, at)
        /\ ConnectionOf(m, at + 1) = TRUE
        /\ DirectionOf(m, at + 1) = DirectionOf(m, at)
        /\ CryptoOf(m, at + 1) = CryptoOf(m, at)
        /\ RtpmapOf(m, at + 1) = RtpmapOf(m, at)
    BY <1>1, CurrentWithLine DEF Parsed
  <2> DEFINE c == ConnectionOf(m, at + 1)
             before == ConnectionOf(m, at)
  <2>2. c = TRUE
    BY <2>1
  <2> HIDE DEF m
  <2>3. SectionOf(m, at + 1) = [kind |-> body[m].kind, open |-> body[m].open,
          savp |-> body[m].savp, payloads |-> body[m].payloads, connected |-> c, line |-> m,
          direction |-> DirectionOf(m, at), rtpmap |-> RtpmapOf(m, at), crypto |-> CryptoOf(m, at)]
    BY <2>1 DEF SectionOf
  <2>4. SectionOf(m, at) = [kind |-> body[m].kind, open |-> body[m].open,
          savp |-> body[m].savp, payloads |-> body[m].payloads, connected |-> before, line |-> m,
          direction |-> DirectionOf(m, at), rtpmap |-> RtpmapOf(m, at), crypto |-> CryptoOf(m, at)]
    BY DEF SectionOf
  <2> HIDE DEF c, before
  <2>5. [SectionOf(m, at) EXCEPT !.connected = c] = SectionOf(m, at + 1)
    BY <2>3, <2>4
  <2>6. [Current EXCEPT !.connected = c] = SectionOf(m, at + 1)
    BY <2>1, <2>5
  <2>7. QED
    BY <2>2, <2>6, Zenon DEF m
<1>3. QED
  BY <1>1, <1>2, AmendmentRead

LEMMA DirectionRead ==
  ASSUME Parsed, ReadsDirection
  PROVE  Parsed'
<1>1. /\ at < Len(body) /\ body[at + 1].is = "direction" /\ sections # << >>
      /\ Amends([Current EXCEPT !.direction = body[at + 1].direction])
  BY DEF ReadsDirection, Attribute, Line
<1>2. [Current EXCEPT !.direction = body[at + 1].direction] = SectionOf(Current.line, at + 1)
  BY <1>1, CurrentWithLine DEF Parsed, SectionOf, ConnectionOf
<1>3. QED
  BY <1>1, <1>2, AmendmentRead

LEMMA CryptoRead ==
  ASSUME Parsed, ReadsCrypto
  PROVE  Parsed'
<1>1. /\ at < Len(body) /\ body[at + 1].is = "crypto" /\ sections # << >>
      /\ Amends([Current EXCEPT !.crypto = body[at + 1].crypto])
  BY DEF ReadsCrypto, Attribute, Line
<1>2. [Current EXCEPT !.crypto = body[at + 1].crypto] = SectionOf(Current.line, at + 1)
  BY <1>1, CurrentWithLine DEF Parsed, SectionOf, ConnectionOf
<1>3. QED
  BY <1>1, <1>2, AmendmentRead

LEMMA RtpmapRead ==
  ASSUME Parsed, ReadsRtpmap
  PROVE  Parsed'
<1> DEFINE line == body[at + 1]
           mapped == DOMAIN Current.rtpmap \cup {line.payload}
           rtpmap == [p \in mapped |-> IF p = line.payload THEN line.codec ELSE Current.rtpmap[p]]
           section == [Current EXCEPT !.rtpmap = rtpmap]
<1>1. /\ at < Len(body) /\ line.is = "rtpmap" /\ sections # << >>
      /\ Amends(section)
  BY DEF ReadsRtpmap, Attribute, Line
<1>2. section = SectionOf(Current.line, at + 1)
  <2>1. Current.rtpmap = RtpmapOf(Current.line, at)
    BY <1>1, CurrentWithLine DEF Parsed, SectionOf
  <2>2. rtpmap = RtpmapOf(Current.line, at + 1)
    BY <2>1, <1>1, CurrentWithLine DEF Parsed
  <2> HIDE DEF rtpmap
  <2>3. QED
    BY <2>2, <1>1, CurrentWithLine DEF Parsed, SectionOf, ConnectionOf
<1> HIDE DEF section
<1>3. QED
  BY <1>1, <1>2, AmendmentRead DEF line

(* A line that changes no section.                                           *)
LEMMA LineSkipped ==
  ASSUME Parsed, LineRead, UNCHANGED sections, at < Len(body),
         body[at + 1].is \notin {"media", "bad"},
         sections # << >> => body[at + 1].is = "other",
         connected' = (connected \/ (body[at + 1].is = "connection" /\ sections = << >>))
  PROVE  Parsed'
<1>1. UNCHANGED body /\ at' = at + 1
  BY DEF LineRead
<1>2. ASSUME sections # << >>
      PROVE  Current = SectionOf(Current.line, at + 1)
    <2>1. body[at + 1].is = "other"
      BY <1>2
    <2>2. SectionOf(Current.line, at + 1) = SectionOf(Current.line, at)
      BY <2>1, <1>2, CurrentWithLine DEF Parsed, SectionOf, ConnectionOf
    <2>3. QED
      BY <2>2, <1>2, CurrentIsLast DEF Parsed
<1>3. sections' = IF sections = << >> THEN sections
                  ELSE [sections EXCEPT ![Len(sections)] = Current]
  <2>1. PICK S : sections \in Seq(S)
    BY DEF Parsed, SectionsInv
  <2>2. QED
    BY <2>1 DEF Current
<1>4. SectionsInv'
  BY <1>1, <1>2, <1>3, LineKeepsSections DEF Parsed
<1>5. QED
  BY <1>4, LineKeepsReadable, LineKeepsConnected DEF Parsed

LEMMA SessionConnectionRead ==
  ASSUME Parsed, ReadsSessionConnection
  PROVE  Parsed'
<1>1. /\ at < Len(body) /\ body[at + 1].is = "connection" /\ sections = << >>
      /\ LineRead /\ UNCHANGED sections /\ connected' = TRUE
  BY DEF ReadsSessionConnection, Line
<1>2. QED
  BY <1>1, LineSkipped

LEMMA OtherSkipped ==
  ASSUME Parsed, SkipsLine
  PROVE  Parsed'
<1>1. /\ at < Len(body) /\ LineRead /\ UNCHANGED <<connected, sections>>
      /\ \/ body[at + 1].is = "other"
         \/ sections = << >> /\ body[at + 1].is \in {"direction", "rtpmap", "crypto", "unreadable"}
  BY DEF SkipsLine, Line
<1>2. connected' = (connected \/ (body[at + 1].is = "connection" /\ sections = << >>))
  BY <1>1 DEF Parsed, ConnectedInv
<1>3. QED
  BY <1>1, <1>2, LineSkipped

-----------------------------------------------------------------------------
(* The judgement *)

(* When all lines have been read a section is what all of them make of it.   *)
LEMMA AllSaid ==
  ASSUME SectionsInv, at = Len(body), NEW m
  PROVE  /\ DirectionOf(m, at) = Direction(body, m)
         /\ \A p : CodecOf(RtpmapOf(m, at), p) = PayloadCodec(body, m, p)
         /\ ConnectionOf(m, at) <=>
              (Lines(body, m) \cup Preamble(body)) \cap Said(body, "connection") # {}
         /\ CryptoOf(m, at) = "good" <=>
              LET keys == Lines(body, m) \cap Said(body, "crypto")
              IN keys # {} /\ body[Latest(keys)].crypto = "good"
<1>1. \A what : SaidOf(m, at, what) = Lines(body, m) \cap Said(body, what)
  <2>1. Len(body) \in Nat /\ Lines(body, m) \in SUBSET (1 .. Len(body))
    BY Positions DEF SectionsInv
  <2>2. \A i \in Lines(body, m) : i <= at
    BY <2>1
  <2>3. QED
    BY <2>2 DEF SaidOf
<1>2. DirectionOf(m, at) = Direction(body, m)
  BY <1>1 DEF DirectionOf, Direction
<1>3. ConnectionOf(m, at) <=>
        (Lines(body, m) \cup Preamble(body)) \cap Said(body, "connection") # {}
  BY <1>1 DEF ConnectionOf
<1>4. CryptoOf(m, at) = "good" <=>
        LET keys == Lines(body, m) \cap Said(body, "crypto")
        IN keys # {} /\ body[Latest(keys)].crypto = "good"
  BY <1>1 DEF CryptoOf
<1>5. ASSUME NEW p
      PROVE  CodecOf(RtpmapOf(m, at), p) = PayloadCodec(body, m, p)
  <2> DEFINE said == {i \in Lines(body, m) \cap Said(body, "rtpmap") : body[i].payload = p}
  <2>1. MapsOf(m, at, p) = said
    BY <1>1 DEF MapsOf
  <2>2. p \in DOMAIN RtpmapOf(m, at) <=> said # {}
    BY <1>1 DEF RtpmapOf
  <2>3. p \in DOMAIN RtpmapOf(m, at) => RtpmapOf(m, at)[p] = body[Latest(MapsOf(m, at, p))].codec
    BY DEF RtpmapOf
  <2>4. PayloadCodec(body, m, p) = IF said # {} THEN body[Latest(said)].codec
                                   ELSE IF p = 0 THEN "pcmu" ELSE IF p = 8 THEN "pcma" ELSE None
    BY DEF PayloadCodec
  <2> HIDE DEF said
  <2>5. QED
    BY <2>1, <2>2, <2>3, <2>4 DEF CodecOf
<1>6. QED
  BY <1>2, <1>3, <1>4, <1>5

LEMMA JudgedByLines ==
  ASSUME SectionsInv, at = Len(body), NEW s \in 1 .. Len(sections)
  PROVE  LET m == sections[s].line
         IN /\ m \in MediaLines
            /\ sections[s].kind = body[m].kind
            /\ sections[s].open = body[m].open
            /\ sections[s].payloads = body[m].payloads
            /\ sections[s].direction = Direction(body, m)
            /\ Secured(sections[s]) <=> Protected(body, m)
            /\ \A codecs : Named(sections[s], codecs) = Offers(body, m, codecs)
            /\ \A p : CodecOf(sections[s].rtpmap, p) = PayloadCodec(body, m, p)
<1> DEFINE m == sections[s].line
<1>1. m \in MediaLines /\ sections[s] = SectionOf(m, at)
  BY DEF SectionsInv
<1>2. /\ DirectionOf(m, at) = Direction(body, m)
      /\ \A p : CodecOf(RtpmapOf(m, at), p) = PayloadCodec(body, m, p)
      /\ ConnectionOf(m, at) <=>
           (Lines(body, m) \cup Preamble(body)) \cap Said(body, "connection") # {}
      /\ CryptoOf(m, at) = "good" <=>
           LET keys == Lines(body, m) \cap Said(body, "crypto")
           IN keys # {} /\ body[Latest(keys)].crypto = "good"
  BY AllSaid
<1> HIDE DEF m
<1>3. /\ sections[s].kind = body[m].kind /\ sections[s].open = body[m].open
      /\ sections[s].savp = body[m].savp /\ sections[s].payloads = body[m].payloads
      /\ sections[s].direction = DirectionOf(m, at)
      /\ sections[s].rtpmap = RtpmapOf(m, at) /\ sections[s].crypto = CryptoOf(m, at)
  BY <1>1 DEF SectionOf
<1>4. sections[s].connected <=> ConnectionOf(m, at)
  BY <1>1 DEF SectionOf
<1>5. Secured(sections[s]) <=> Protected(body, m)
  BY <1>2, <1>3, <1>4 DEF Secured, Protected
<1>6. \A codecs : Named(sections[s], codecs) = Offers(body, m, codecs)
  BY <1>2, <1>3 DEF Named, Offers
<1>7. QED
  BY <1>1, <1>2, <1>3, <1>5, <1>6 DEF m

(* The last section of a kind is the one whose media line is last.           *)
LEMMA LastOfKind ==
  ASSUME SectionsInv, at = Len(body), NEW kind
  PROVE  /\ OfKind(kind) = {} <=> Open(body, kind) = {}
         /\ OfKind(kind) # {} =>
              /\ Latest(OfKind(kind)) \in 1 .. Len(sections)
              /\ sections[Latest(OfKind(kind))].line = Latest(Open(body, kind))
<1> DEFINE l == Len(sections)
<1>1. /\ l \in Nat /\ DOMAIN sections = 1 .. l
      /\ Len(body) \in Nat /\ MediaLines \in SUBSET (1 .. Len(body))
  BY Positions DEF SectionsInv
<1> HIDE DEF l
<1>2. /\ \A s \in 1 .. l : sections[s].line \in MediaLines
      /\ \A s, t \in 1 .. l : s < t => sections[s].line < sections[t].line
      /\ \A m \in MediaLines : m <= at => \E s \in 1 .. l : sections[s].line = m
  BY DEF SectionsInv, l
<1>3. \A s \in 1 .. l : s \in OfKind(kind) <=> sections[s].line \in Open(body, kind)
  <2>1. \A s \in 1 .. l : /\ sections[s].kind = body[sections[s].line].kind
                          /\ sections[s].open = body[sections[s].line].open
    BY JudgedByLines DEF l
  <2>2. QED
    BY <2>1, <1>1, <1>2 DEF OfKind, Open, MediaLines
<1>4. OfKind(kind) \in SUBSET (1 .. l) /\ Open(body, kind) \in SUBSET MediaLines
  BY <1>1 DEF OfKind, Open, MediaLines
<1>o. \A m \in Open(body, kind) : m \in MediaLines /\ m \in 1 .. Len(body)
  <2>1. MediaLines \in SUBSET (1 .. Len(body))
    BY <1>1
  <2>2. Open(body, kind) \in SUBSET MediaLines
    BY <1>4
  <2>3. QED
    BY <2>1, <2>2
<1>p. \A m \in Open(body, kind) : m \in Nat /\ m <= at /\ m \in 0 .. Len(body)
  <2> SUFFICES ASSUME NEW m \in Open(body, kind)
               PROVE  m \in Nat /\ m <= Len(body) /\ m \in 0 .. Len(body)
    OBVIOUS
  <2>1. m \in 1 .. Len(body) /\ Len(body) \in Nat
    BY <1>1, <1>o
  <2>2. QED
    BY <2>1
<1>5. \A m \in Open(body, kind) : \E s \in OfKind(kind) : sections[s].line = m
  <2> SUFFICES ASSUME NEW m \in Open(body, kind)
               PROVE  \E s \in OfKind(kind) : sections[s].line = m
    OBVIOUS
  <2>1. m \in MediaLines /\ m <= at
    BY <1>o, <1>p
  <2>2. PICK s \in 1 .. l : sections[s].line = m
    BY <2>1, <1>2
  <2>3. QED
    BY <2>2, <1>3
<1>6. OfKind(kind) = {} <=> Open(body, kind) = {}
  BY <1>3, <1>4, <1>5
<1>7. ASSUME OfKind(kind) # {}
      PROVE  /\ Latest(OfKind(kind)) \in 1 .. l
             /\ sections[Latest(OfKind(kind))].line = Latest(Open(body, kind))
  <2> DEFINE z == Latest(OfKind(kind))
             m == sections[z].line
  <2>1. z \in OfKind(kind) /\ \A s \in OfKind(kind) : s <= z
    <3>1. OfKind(kind) \in SUBSET (0 .. l)
      BY <1>1, <1>4
    <3>2. QED
      BY <3>1, <1>1, <1>7, HasLatest
  <2> HIDE DEF z
  <2>2. z \in 1 .. l /\ m \in Open(body, kind)
    BY <2>1, <1>3, <1>4
  <2>3. ASSUME NEW n \in Open(body, kind)
        PROVE  n <= m
    <3>1. PICK s \in OfKind(kind) : sections[s].line = n
      BY <1>5
    <3>2. s \in 1 .. l /\ s <= z
      BY <3>1, <2>1, <1>4
    <3>3. n \in Nat /\ m \in Nat
      BY <2>2, <1>p
    <3>4. CASE s = z
      BY <3>1, <3>3, <3>4
    <3>5. CASE s < z
      <4>1. n < m
        BY <3>1, <3>2, <3>5, <2>2, <1>2
      <4>2. QED
        BY <4>1, <3>3
    <3>6. QED
      BY <3>2, <3>4, <3>5, <2>2, <1>1
  <2>4. Open(body, kind) \in SUBSET (0 .. Len(body))
    BY <1>p
  <2> HIDE DEF m
  <2>5. Latest(Open(body, kind)) = m
    BY <2>2, <2>3, <2>4, <1>1, LatestIs
  <2>6. QED
    BY <2>2, <2>5 DEF m, z
<1>8. QED
  BY <1>6, <1>7 DEF l

LEMMA JudgementIsPromised ==
  ASSUME Parsed, at = Len(body)
  PROVE  Judgement = Promised(body)
<1> DEFINE l == Len(sections)
           audios == Open(body, "audio")
           videos == Open(body, "video")
           a == Latest(audios)
           v == Latest(videos)
           audio == sections[Latest(OfKind("audio"))]
           video == sections[Latest(OfKind("video"))]
           g711 == {"pcma", "pcmu"}
<1>1. SectionsInv /\ l \in Nat /\ DOMAIN sections = 1 .. l
  BY DEF Parsed, SectionsInv
<1>2. Readable(body)
  <2>1. Len(body) \in Nat /\ DOMAIN body = 1 .. Len(body)
    BY <1>1, Positions DEF SectionsInv
  <2>2. QED
    BY <2>1 DEF Parsed, ReadableInv, Readable, Said
<1>3. (\A i \in DOMAIN sections : Wanted(sections[i]) => Secured(sections[i]))
        <=> \A m \in audios \cup videos : Protected(body, m)
  <2>1. \A s \in 1 .. l :
          /\ Wanted(sections[s]) <=> sections[s].line \in audios \cup videos
          /\ Secured(sections[s]) <=> Protected(body, sections[s].line)
    <3> SUFFICES ASSUME NEW s \in 1 .. l
                 PROVE  /\ Wanted(sections[s]) <=> sections[s].line \in audios \cup videos
                        /\ Secured(sections[s]) <=> Protected(body, sections[s].line)
      OBVIOUS
    <3> DEFINE m == sections[s].line
    <3>1. /\ m \in MediaLines /\ sections[s].kind = body[m].kind /\ sections[s].open = body[m].open
          /\ Secured(sections[s]) <=> Protected(body, m)
      BY <1>1, JudgedByLines
    <3> HIDE DEF m
    <3>2. Wanted(sections[s]) <=> m \in audios \cup videos
      BY <3>1 DEF Wanted, Open, MediaLines
    <3>3. QED
      BY <3>1, <3>2 DEF m
  <2>2. \A m \in audios \cup videos : \E s \in 1 .. l : sections[s].line = m
    <3> SUFFICES ASSUME NEW m \in audios \cup videos
                 PROVE  \E s \in 1 .. l : sections[s].line = m
      OBVIOUS
    <3>1. m \in MediaLines
      BY DEF Open, MediaLines
    <3>2. m <= at
      <4>1. MediaLines \in SUBSET (1 .. Len(body)) /\ Len(body) \in Nat
        BY <1>1, Positions DEF SectionsInv
      <4>2. QED
        BY <4>1, <3>1
    <3>3. QED
      BY <3>1, <3>2, <1>1 DEF SectionsInv
  <2> HIDE DEF l, audios, videos
  <2>3. QED
    BY <2>1, <2>2, <1>1
<1>4. OfKind("video") # {} <=> videos # {}
  BY <1>1, LastOfKind
<1>5. OfKind("audio") # {} <=> audios # {}
  BY <1>1, LastOfKind
<1>6. ASSUME videos # {}
      PROVE  Named(video, {"h264"}) = Offers(body, v, {"h264"}) /\ video.direction = Direction(body, v)
  <2> DEFINE z == Latest(OfKind("video"))
  <2>1. z \in 1 .. l /\ sections[z].line = v
    BY <1>1, <1>4, <1>6, LastOfKind
  <2> HIDE DEF z, v, l
  <2>2. Named(sections[z], {"h264"}) = Offers(body, v, {"h264"}) /\ sections[z].direction = Direction(body, v)
    BY <2>1, <1>1, JudgedByLines DEF l
  <2>3. QED
    BY <2>2 DEF z
<1>7. ASSUME audios # {}
      PROVE  /\ Named(audio, g711) = Offers(body, a, g711)
             /\ AudioLeg(audio) =
                  [codec |-> PayloadCodec(body, a, body[a].payloads[Earliest(Offers(body, a, g711))]),
                   direction |-> Direction(body, a)]
  <2> DEFINE z == Latest(OfKind("audio"))
  <2>1. z \in 1 .. l /\ sections[z].line = a
    BY <1>1, <1>5, <1>7, LastOfKind
  <2> HIDE DEF z, a, l
  <2>2. /\ \A codecs : Named(sections[z], codecs) = Offers(body, a, codecs)
        /\ sections[z].direction = Direction(body, a)
        /\ sections[z].payloads = body[a].payloads
        /\ \A p : CodecOf(sections[z].rtpmap, p) = PayloadCodec(body, a, p)
    BY <2>1, <1>1, JudgedByLines DEF l
  <2>3. AudioLeg(sections[z]) =
          [codec |-> PayloadCodec(body, a, body[a].payloads[Earliest(Offers(body, a, g711))]),
           direction |-> Direction(body, a)]
    BY <2>2 DEF AudioLeg
  <2>4. QED
    BY <2>2, <2>3 DEF z
<1>8. Judgement =
        IF /\ \A i \in DOMAIN sections : Wanted(sections[i]) => Secured(sections[i])
           /\ OfKind("video") # {} /\ Named(video, {"h264"}) # {}
           /\ video.direction \in Transmits
           /\ OfKind("audio") # {} => Named(audio, g711) # {}
        THEN IF OfKind("audio") = {} THEN [codec |-> None, direction |-> None]
             ELSE AudioLeg(audio)
        ELSE Rejected
  BY DEF Judgement
<1>9. Promised(body) =
        IF /\ Readable(body)
           /\ \A m \in audios \cup videos : Protected(body, m)
           /\ videos # {} /\ Offers(body, v, {"h264"}) # {} /\ Direction(body, v) \in Transmits
           /\ audios # {} => Offers(body, a, g711) # {}
        THEN IF audios = {} THEN [codec |-> None, direction |-> None]
             ELSE [codec |-> PayloadCodec(body, a, body[a].payloads[Earliest(Offers(body, a, g711))]),
                   direction |-> Direction(body, a)]
        ELSE Rejected
  BY DEF Promised
<1> HIDE DEF l, audios, videos, a, v, audio, video, g711
<1>10. QED
  BY <1>2, <1>3, <1>4, <1>5, <1>6, <1>7, <1>8, <1>9

-----------------------------------------------------------------------------
(* The answer and the microphone *)

(* The body that is parsed is that of the first final answer; a microphone   *)
(* that is open goes by the outcome.                                         *)
AnswerInv ==
  /\ parser # "waiting" => FinalAnswers(handled) # {} /\ body = FinalAnswer(sent).body
  /\ microphone =>
       /\ parser = "done"
       /\ Direction(body, Latest(Open(body, "audio"))) \in Hears

LEMMA ParserAtRest ==
  ASSUME ParserInv, UNCHANGED parserVars
  PROVE  ParserInv'
<1>1. UNCHANGED <<parser, body, at, connected, sections, negotiated>>
  BY DEF parserVars
<1>2. SectionsInv' = SectionsInv
  BY <1>1 DEF SectionsInv, SectionOf, ConnectionOf, DirectionOf, RtpmapOf, CryptoOf, MapsOf,
              SaidOf, MediaLines
<1>3. ReadableInv' = ReadableInv /\ ConnectedInv' = ConnectedInv
  BY <1>1 DEF ReadableInv, ConnectedInv
<1>4. QED
  BY <1>1, <1>2, <1>3 DEF ParserInv

LEMMA ParseBegun ==
  ASSUME ParserInv, NEW lines \in Seq(Units), ParseBegins(lines)
  PROVE  ParserInv'
<1>1. /\ parser' = "parsing" /\ body' = lines /\ at' = 0 /\ connected' = FALSE
      /\ sections' = << >>
  BY DEF ParseBegins, ParserInv
<1>2. Len(lines) \in Nat /\ DOMAIN lines = 1 .. Len(lines)
  OBVIOUS
<1>3. \A i \in DOMAIN lines : ~(i <= 0)
  BY <1>2
<1>4. ReadableInv'
  BY <1>1 DEF ReadableInv
<1>5. ConnectedInv'
  BY <1>1, <1>3 DEF ConnectedInv, Said
<1>6. SectionsInv'
  <2>1. \E S : sections' \in Seq(S)
    BY <1>1, EmptySeq
  <2>2. Len(sections') = 0
    BY <1>1
  <2>3. \A m \in MediaLines' : ~(m <= at')
    BY <1>1, <1>3 DEF MediaLines, Said
  <2>4. body' \in Seq(Units) /\ at' \in 0 .. Len(body')
    BY <1>1, <1>2
  <2>5. QED
    BY <2>1, <2>2, <2>3, <2>4 DEF SectionsInv
<1>7. QED
  BY <1>1, <1>4, <1>5, <1>6 DEF ParserInv

LEMMA ParserSteps ==
  ASSUME ParserInv, ParserStep
  PROVE  /\ ParserInv'
         /\ parser = "parsing" /\ parser' \in {"parsing", "done"} /\ UNCHANGED body
<1>1. Parsed /\ parser = "parsing"
  BY DEF ParserInv, Parsed, ParserStep, ReadsMedia, ReadsSessionConnection, ReadsConnection,
         ReadsDirection, ReadsRtpmap, ReadsCrypto, SkipsLine, LineFails, Judges, Attribute, Line
<1>2. CASE /\ \/ ReadsMedia \/ ReadsSessionConnection \/ ReadsConnection
              \/ ReadsDirection \/ ReadsRtpmap \/ ReadsCrypto \/ SkipsLine
  <2>1. Parsed'
    BY <1>1, <1>2, MediaRead, SessionConnectionRead, ConnectionRead, DirectionRead, RtpmapRead,
       CryptoRead, OtherSkipped
  <2>2. LineRead
    BY <1>2 DEF ReadsMedia, ReadsSessionConnection, ReadsConnection, ReadsDirection,
                ReadsRtpmap, ReadsCrypto, SkipsLine, Amends
  <2>3. QED
    BY <2>1, <2>2, <1>1 DEF LineRead, ParserInv, Parsed
<1>3. CASE LineFails
  <2>1. parser' = "done" /\ negotiated' = Rejected /\ UNCHANGED body
    BY <1>3 DEF LineFails, readVars
  <2>2. ~ Readable(body)
    <3>1. at + 1 \in DOMAIN body /\ at < Len(body)
      <4>1. at < Len(body) /\ at \in 0 .. Len(body) /\ Len(body) \in Nat
            /\ DOMAIN body = 1 .. Len(body)
        BY <1>1, <1>3, Positions DEF LineFails, Attribute, Line, Parsed, SectionsInv
      <4>2. QED
        BY <4>1
    <3>2. CASE Line("bad")
      BY <3>1, <3>2 DEF Line, Readable, Said
    <3>3. CASE Attribute("unreadable")
      <4>1. at + 1 \notin Preamble(body)
        BY <3>1, <3>3, <1>1, WhereTheLineIs DEF Attribute, Parsed
      <4>2. QED
        BY <4>1, <3>1, <3>3 DEF Attribute, Line, Readable, Said
    <3>4. QED
      BY <3>2, <3>3, <1>3 DEF LineFails
  <2>3. Promised(body) = Rejected
    BY <2>2 DEF Promised
  <2>4. QED
    BY <2>1, <2>3, <1>1 DEF ParserInv
<1>4. CASE Judges
  <2>1. /\ at = Len(body) /\ parser' = "done" /\ negotiated' = Judgement /\ UNCHANGED body
    BY <1>4 DEF Judges, readVars
  <2>2. negotiated' = Promised(body)
    BY <2>1, <1>1, JudgementIsPromised
  <2>3. QED
    BY <2>1, <2>2, <1>1 DEF ParserInv
<1>5. QED
  BY <1>2, <1>3, <1>4 DEF ParserStep

(* The first final answer that is handled is the first that was sent.        *)
LEMMA FirstAnswer ==
  ASSUME StreamInv, ReaderInv, FinalAnswers(handled) # {}
  PROVE  /\ Earliest(FinalAnswers(handled)) \in 1 .. Len(sent)
         /\ Earliest(FinalAnswers(sent)) = Earliest(FinalAnswers(handled))
         /\ FinalAnswer(handled).body = FinalAnswer(sent).body
         /\ FinalAnswer(sent).body \in Seq(Units)
<1> DEFINE l == Len(handled)
           F == FinalAnswers(handled)
           G == FinalAnswers(sent)
           z == Earliest(F)
<1>1. /\ l \in Nat /\ Len(sent) \in Nat /\ l <= Len(sent)
      /\ DOMAIN handled = 1 .. l /\ DOMAIN sent = 1 .. Len(sent)
      /\ \A k \in 1 .. l : handled[k] = AsRead(sent[k])
      /\ \A k \in 1 .. Len(sent) : sent[k] \in Messages
  BY Ordered, Counted DEF ReaderInv, StreamInv
<1>2. \A k \in 1 .. l : handled[k].start = sent[k].start /\ handled[k].body = sent[k].body
  BY <1>1 DEF AsRead, Read
<1> HIDE DEF l
<1>3. /\ F \in SUBSET (1 .. l) /\ G \in SUBSET (1 .. Len(sent))
      /\ \A k \in 1 .. l : k \in F <=> k \in G
  <2>1. \A k \in 1 .. l : k \in 1 .. Len(sent)
    BY <1>1
  <2>2. QED
    BY <2>1, <1>1, <1>2 DEF FinalAnswers
<1>4. F \in SUBSET Nat /\ G \in SUBSET Nat
  BY <1>1, <1>3
<1> HIDE DEF F, G
<1>5. z \in F /\ \A k \in F : z <= k
  BY <1>4, HasEarliest DEF F
<1> HIDE DEF z
<1>6. z \in 1 .. l /\ z \in G /\ z \in 1 .. Len(sent)
  BY <1>1, <1>3, <1>5
<1>7. ASSUME NEW k \in G
      PROVE  z <= k
  <2>1. CASE k \in 1 .. l
    BY <2>1, <1>3, <1>5
  <2>2. CASE k \notin 1 .. l
    <3>1. k \in Nat /\ k # 0
      BY <1>1, <1>3
    <3>2. QED
      BY <3>1, <2>2, <1>1, <1>6
  <2>3. QED
    BY <2>1, <2>2
<1>8. Earliest(G) = z
  BY <1>4, <1>6, <1>7, EarliestIs
<1>9. FinalAnswer(handled) = handled[z] /\ FinalAnswer(sent) = sent[z]
  BY <1>8 DEF FinalAnswer, F, G, z
<1>10. sent[z].body \in Seq(Units)
  BY <1>1, <1>6, WellFormedMessages
<1>11. QED
  BY <1>2, <1>6, <1>8, <1>9, <1>10 DEF F, G, z

(* It remains so whatever else is sent and handled.                          *)
LEMMA AnswerStays ==
  ASSUME StreamInv, ReaderInv, [Next]_vars, FinalAnswers(handled) # {}
  PROVE  FinalAnswers(handled') # {} /\ FinalAnswer(sent') = FinalAnswer(sent)
<1>1. /\ Len(sent) \in Nat /\ Len(sent') \in Nat
      /\ DOMAIN sent = 1 .. Len(sent) /\ DOMAIN sent' = 1 .. Len(sent')
      /\ Len(sent) <= Len(sent')
      /\ \A k \in 1 .. Len(sent) : sent'[k] = sent[k]
  <2>1. Len(sent) \in Nat /\ DOMAIN sent = 1 .. Len(sent)
    BY Ordered DEF StreamInv
  <2>2. CASE ServerSends
    <3>1. StreamInv' /\ Len(sent') = Len(sent) + 1 /\ \A k \in 1 .. Len(sent) : sent'[k] = sent[k]
      BY <2>2, ServerKeepsStream
    <3>2. DOMAIN sent' = 1 .. Len(sent')
      BY <3>1 DEF StreamInv
    <3>3. QED
      BY <3>1, <3>2, <2>1
  <2>3. CASE UNCHANGED sent
    BY <2>1, <2>3
  <2>4. QED
    BY <2>2, <2>3 DEF Next, vars, serverVars, Receives, FramesMessage, FeedReturns, FeedRaises,
                      HandlesMessage, AnswerTaken, Parses, SetMicrophone
<1>2. DOMAIN handled \subseteq DOMAIN handled' /\ \A k \in DOMAIN handled : handled'[k] = handled[k]
  <2>1. CASE HandlesMessage
    <3>1. handled' = Append(handled, Head(framed))
      BY <2>1 DEF HandlesMessage
    <3>2. handled \in Seq(ReadMessages) /\ Head(framed) \in ReadMessages
      BY <2>1 DEF ReaderInv, HandlesMessage
    <3>3. QED
      BY <3>1, <3>2
  <2>2. CASE UNCHANGED handled
    BY <2>2
  <2>3. QED
    BY <2>1, <2>2 DEF Next, vars, readerVars, ServerSends, Receives, FramesMessage, FeedReturns, FeedRaises,
                      AnswerTaken, Parses, SetMicrophone
<1>3. FinalAnswers(handled') # {}
  BY <1>2 DEF FinalAnswers
<1> DEFINE z == Earliest(FinalAnswers(sent))
           G == FinalAnswers(sent')
<1>4. z \in 1 .. Len(sent) /\ z \in FinalAnswers(sent) /\ \A k \in FinalAnswers(sent) : z <= k
  <2>1. z \in 1 .. Len(sent)
    BY FirstAnswer
  <2>2. FinalAnswers(sent) \in SUBSET Nat
    <3>1. FinalAnswers(sent) \subseteq DOMAIN sent
      BY Zenon DEF FinalAnswers
    <3>2. QED
      BY <3>1, <1>1
  <2>3. FinalAnswers(sent) # {}
    <3>1. \A k \in DOMAIN handled : k \in DOMAIN sent /\ handled[k].start = sent[k].start
      <4>1. /\ Len(handled) \in Nat /\ Len(handled) <= Len(sent)
            /\ DOMAIN handled = 1 .. Len(handled)
            /\ \A k \in 1 .. Len(handled) : handled[k] = AsRead(sent[k])
        BY Counted DEF ReaderInv
      <4>2. QED
        BY <4>1, <1>1 DEF AsRead, Read
    <3>2. QED
      BY <3>1 DEF FinalAnswers
  <2>4. QED
    BY <2>1, <2>2, <2>3, HasEarliest
<1> HIDE DEF z
<1>5. /\ G \in SUBSET (1 .. Len(sent')) /\ z \in G
      /\ \A k \in 1 .. Len(sent) : k \in G => k \in FinalAnswers(sent)
  <2>1. \A k \in 1 .. Len(sent) : k \in 1 .. Len(sent')
    BY <1>1
  <2>2. QED
    BY <2>1, <1>1, <1>4 DEF FinalAnswers
<1> HIDE DEF G
<1>6. ASSUME NEW k \in G
      PROVE  z <= k
  <2>1. CASE k \in 1 .. Len(sent)
    BY <2>1, <1>4, <1>5
  <2>2. CASE k \notin 1 .. Len(sent)
    <3>1. k \in 1 .. Len(sent')
      BY <1>5
    <3>2. QED
      BY <3>1, <2>2, <1>1, <1>4
  <2>3. QED
    BY <2>1, <2>2
<1>7. G \in SUBSET Nat
  BY <1>1, <1>5
<1>8. Earliest(G) = z
  BY <1>5, <1>6, <1>7, EarliestIs
<1>9. FinalAnswer(sent') = sent'[z] /\ FinalAnswer(sent) = sent[z]
  BY <1>8 DEF FinalAnswer, G, z
<1>10. QED
  BY <1>1, <1>3, <1>4, <1>9

IInv == StreamInv /\ ReaderInv /\ ParserInv /\ AnswerInv

LEMMA Initially ==
  ASSUME Init
  PROVE  IInv
<1>1. ParserInv /\ AnswerInv
  BY DEF Init, ParserInit, ParserInv, AnswerInv
<1>2. QED
  BY <1>1, StreamInit DEF IInv

(* While nothing is parsed and the microphone is left alone.                 *)
LEMMA AnswerAtRest ==
  ASSUME IInv, [Next]_vars, UNCHANGED <<parserVars, microphone>>
  PROVE  AnswerInv'
<1>1. UNCHANGED <<parser, body, microphone>>
  BY DEF parserVars
<1>2. ASSUME parser # "waiting"
      PROVE  FinalAnswers(handled)' # {} /\ body = FinalAnswer(sent).body'
  <2>1. FinalAnswers(handled) # {} /\ body = FinalAnswer(sent).body
    BY <1>2 DEF IInv, AnswerInv
  <2>2. FinalAnswers(handled') # {} /\ FinalAnswer(sent') = FinalAnswer(sent)
    BY <2>1, AnswerStays DEF IInv
  <2>3. QED
    BY <2>1, <2>2, <1>1
<1>3. QED
  BY <1>1, <1>2 DEF IInv, AnswerInv

LEMMA Step ==
  ASSUME IInv, [Next]_vars
  PROVE  IInv'
<1>1. StreamInv' /\ ReaderInv'
  BY StreamStep DEF IInv
<1>2. CASE UNCHANGED <<parserVars, microphone>>
  BY <1>1, <1>2, ParserAtRest, AnswerAtRest DEF IInv
<1>3. CASE AnswerTaken
  <2>1. /\ FinalAnswers(handled) # {} /\ ParseBegins(FinalAnswer(handled).body)
        /\ UNCHANGED <<sent, handled, microphone>>
    BY <1>3 DEF AnswerTaken, serverVars, readerVars
  <2>2. FinalAnswer(handled).body = FinalAnswer(sent).body /\ FinalAnswer(sent).body \in Seq(Units)
    BY <2>1, FirstAnswer DEF IInv
  <2>3. ParserInv'
    BY <2>1, <2>2, ParseBegun DEF IInv
  <2>4. body' = FinalAnswer(sent).body /\ parser = "waiting"
    BY <2>1, <2>2 DEF ParseBegins
  <2>5. AnswerInv'
    BY <2>1, <2>4 DEF IInv, AnswerInv
  <2>6. QED
    BY <1>1, <2>3, <2>5 DEF IInv
<1>4. CASE Parses
  <2>1. ParserStep /\ UNCHANGED <<sent, handled, microphone>>
    BY <1>4 DEF Parses, serverVars, readerVars
  <2>2. ParserInv' /\ parser = "parsing" /\ parser' \in {"parsing", "done"} /\ UNCHANGED body
    BY <2>1, ParserSteps DEF IInv
  <2>3. AnswerInv'
    BY <2>1, <2>2 DEF IInv, AnswerInv
  <2>4. QED
    BY <1>1, <2>2, <2>3 DEF IInv
<1>5. CASE SetMicrophone
  <2>1. /\ parser = "done" /\ negotiated # Rejected /\ negotiated.codec # None
        /\ negotiated.direction \in Hears /\ UNCHANGED parserVars /\ UNCHANGED <<sent, handled>>
    BY <1>5 DEF SetMicrophone, serverVars, readerVars
  <2>2. negotiated = Promised(body)
    BY <2>1 DEF IInv, ParserInv
  <2>3. negotiated.direction = Direction(body, Latest(Open(body, "audio")))
    BY <2>1, <2>2 DEF Promised
  <2>4. ParserInv'
    BY <2>1, ParserAtRest DEF IInv
  <2>5. AnswerInv'
    BY <2>1, <2>3 DEF IInv, AnswerInv, parserVars
  <2>6. QED
    BY <1>1, <2>4, <2>5 DEF IInv
<1>6. QED
  BY <1>2, <1>3, <1>4, <1>5 DEF Next, vars, ServerSends, Receives, FramesMessage, FeedReturns,
                                FeedRaises, HandlesMessage

LEMMA Honoured ==
  ASSUME IInv
  PROVE  AnswerHonoured
<1>1. parser = "done" => negotiated = Promised(FinalAnswer(sent).body)
  BY DEF IInv, ParserInv, AnswerInv
<1>2. microphone => Direction(FinalAnswer(sent).body, Latest(Open(FinalAnswer(sent).body, "audio"))) \in Hears
  BY DEF IInv, AnswerInv
<1>3. QED
  BY <1>1, <1>2 DEF AnswerHonoured

(* feed and the read loop: however the stream of well-formed messages is cut *)
(* into reads, the read loop handles those that were sent, in their order    *)
(* and with their bodies, and while it reads on every one that has arrived.  *)
THEOREM StreamFramed == Spec => []FramedAsSent
<1>1. IInv => FramedAsSent
  BY Framed DEF IInv
<1>2. QED
  BY <1>1, Initially, Step, PTL DEF Spec

(* parse_answer and set_microphone: whatever lines the answer has, the call   *)
(* is the one that its lines allow by their positions, and the microphone is  *)
(* opened only towards a unit that said that it listens.                      *)
THEOREM AnswerIsHonoured == Spec => []AnswerHonoured
BY Initially, Step, Honoured, PTL DEF Spec

=============================================================================
