----------------------------- MODULE PhoneProofs -----------------------------
(***************************************************************************)
(* Proofs about Phone, for any set of PINs, any number of notifications    *)
(* under way and any of their sizes above three bytes.                     *)
(***************************************************************************)
EXTENDS Phone, SequenceTheorems, TLAPS

-----------------------------------------------------------------------------
(* Frames and the bytes they are cut into.                                 *)

Values == [1..4 -> {0, 1}]
Refusal == Response(LOGON, ErrorPin)

Answers ==
  {Response(LOGON, Success)} \cup {Response(op, ErrorPin) : op \in 1..9}
    \cup {PinAck(p) : p \in Pins}
Reports == {Report(v) : v \in Values}
Frames == Answers \cup Reports
StreamBytes == [of : Frames, at : 1..12]

LEMMA SameInterval ==
  ASSUME NEW m \in Nat, NEW n \in Nat \ {0}, 1..m = 1..n
  PROVE  m = n
<1>1. n \in 1..n /\ 1 \in 1..n
  OBVIOUS
<1>2. n \in 1..m /\ 1 \in 1..m
  BY <1>1
<1>3. m \in 1..m
  BY <1>2
<1>4. m \in 1..n
  BY <1>3
<1> QED
  BY <1>2, <1>4

LEMMA ReportFacts ==
  ASSUME NEW f \in Reports
  PROVE  /\ IsReport(f) /\ FrameLen(f) = 12
         /\ f.op = STATUS /\ f.data \in Values
         /\ f = Report(f.data)
         /\ ~IsPinAck(f)
<1>1. PICK v \in Values : f = Report(v)
  BY DEF Reports
<1>2. f.op = STATUS /\ f.data = v /\ f = Report(f.data)
  BY <1>1 DEF Report
<1>3. Len(v) = 4
  <2>1. v \in Seq({0, 1}) /\ DOMAIN v = 1..4
    BY SeqDef DEF Values
  <2>2. Len(v) \in Nat /\ 1..Len(v) = 1..4
    BY <2>1, LenProperties
  <2>3. 4 \in Nat \ {0}
    OBVIOUS
  <2> QED
    BY <2>2, <2>3, SameInterval
<1> QED
  BY <1>2, <1>3 DEF IsReport, FrameLen, IsPinAck, STATUS, PIN

LEMMA AnswerFacts ==
  ASSUME NEW f \in Answers
  PROVE  /\ ~IsReport(f) /\ FrameLen(f) = 5
         /\ f.op \in 1..9
         /\ f.op = LOGON /\ f.data[1] # Success => f = Refusal
         /\ IsPinAck(f) <=> \E p \in Pins : f = PinAck(p)
         /\ f.data[1] \in {Success, ErrorPin}
<1> USE DEF Success, ErrorPin, LOGON, PIN
<1>1. \A op, code : /\ Response(op, code).op = op
                    /\ Response(op, code).data = <<code>>
  BY DEF Response
<1>2. \A p : PinAck(p).op = PIN /\ PinAck(p).data = <<Success, p>>
  BY DEF PinAck
<1>3. /\ \A x : Len(<<x>>) = 1 /\ <<x>>[1] = x
      /\ \A x, y : Len(<<x, y>>) = 2 /\ <<x, y>>[1] = x
  OBVIOUS
<1>4. CASE f = Response(LOGON, Success)
  <2>1. f.op = 1 /\ f.data = <<0>> /\ Len(f.data) = 1 /\ f.data[1] = 0
    <3>1. f.op = 1 /\ f.data = <<0>>
      BY <1>1, <1>4
    <3> QED
      BY <3>1
  <2>2. ~(\E p \in Pins : f = PinAck(p))
    BY <1>2, <2>1
  <2>3. ~IsReport(f) /\ FrameLen(f) = 5 /\ ~IsPinAck(f)
    BY <2>1 DEF FrameLen, IsReport, IsPinAck
  <2>4. f.op \in 1..9 /\ (IsPinAck(f) <=> \E p \in Pins : f = PinAck(p))
    BY <2>1, <2>2, <2>3
  <2>5. f.op = LOGON /\ f.data[1] # Success => f = Refusal
    BY <2>1
  <2>6. f.data[1] \in {Success, ErrorPin}
    BY <2>1
  <2> QED
    BY <2>3, <2>4, <2>5, <2>6
<1>5. CASE \E op \in 1..9 : f = Response(op, ErrorPin)
  <2>1. PICK op \in 1..9 : f = Response(op, ErrorPin)
    BY <1>5
  <2>2. f.op = op /\ f.data = <<85>> /\ Len(f.data) = 1 /\ f.data[1] = 85
    <3>1. f.op = op /\ f.data = <<85>>
      BY <1>1, <2>1
    <3> QED
      BY <3>1
  <2>3. ~(\E p \in Pins : f = PinAck(p))
    BY <1>2, <1>3, <2>2
  <2>4. f.op = 1 => f = Refusal
    BY <2>1, <2>2 DEF Refusal
  <2>5. ~IsReport(f) /\ FrameLen(f) = 5 /\ ~IsPinAck(f)
    BY <2>2 DEF FrameLen, IsReport, IsPinAck
  <2>6. f.op \in 1..9 /\ (IsPinAck(f) <=> \E p \in Pins : f = PinAck(p))
    BY <2>2, <2>3, <2>5
  <2>7. f.op = LOGON /\ f.data[1] # Success => f = Refusal
    BY <2>2, <2>4
  <2>8. f.data[1] \in {Success, ErrorPin}
    BY <2>2
  <2> QED
    BY <2>5, <2>6, <2>7, <2>8
<1>6. CASE \E p \in Pins : f = PinAck(p)
  <2>1. PICK p \in Pins : f = PinAck(p)
    BY <1>6
  <2>2. f.op = 7 /\ f.data = <<0, p>> /\ Len(f.data) = 2 /\ f.data[1] = 0
    <3>1. f.op = 7 /\ f.data = <<0, p>>
      BY <1>2, <2>1
    <3> QED
      BY <3>1
  <2> QED
    BY <1>6, <2>2 DEF FrameLen, IsReport, IsPinAck
<1> QED
  BY <1>4, <1>5, <1>6 DEF Answers

LEMMA FrameFacts ==
  ASSUME NEW f \in Frames
  PROVE  /\ FrameLen(f) \in 5..12
         /\ IsReport(f) <=> f \in Reports
         /\ ~IsReport(f) <=> f \in Answers
         /\ f.op \in 1..9
         /\ IsPinAck(f) <=> \E p \in Pins : f = PinAck(p)
<1>1. CASE f \in Reports
  <2>1. ~(\E p \in Pins : f = PinAck(p))
    BY <1>1, ReportFacts DEF PinAck, PIN, STATUS
  <2> QED
    BY <1>1, <2>1, ReportFacts, AnswerFacts DEF STATUS
<1>2. CASE f \in Answers
  BY <1>2, ReportFacts, AnswerFacts
<1> QED
  BY <1>1, <1>2 DEF Frames

LEMMA BytesFacts ==
  ASSUME NEW f \in Frames
  PROVE  /\ Bytes(f) \in Seq(StreamBytes)
         /\ Len(Bytes(f)) = FrameLen(f)
         /\ Bytes(f) # <<>>
         /\ \A i \in 1..FrameLen(f) : Bytes(f)[i] = [of |-> f, at |-> i]
<1>1. FrameLen(f) \in 5..12
  BY FrameFacts
<1>2. Bytes(f) \in [1..FrameLen(f) -> StreamBytes]
  BY <1>1 DEF Bytes, StreamBytes
<1>3. Bytes(f) \in Seq(StreamBytes)
  BY <1>1, <1>2, SeqDef
<1>4. Len(Bytes(f)) \in Nat /\ 1..Len(Bytes(f)) = 1..FrameLen(f)
  BY <1>2, <1>3, LenProperties
<1>5. Len(Bytes(f)) = FrameLen(f)
  BY <1>1, <1>4, SameInterval
<1> QED
  BY <1>1, <1>3, <1>5, EmptySeq DEF Bytes

-----------------------------------------------------------------------------
(* The switch's bytes: what a turn of the main loop queues, sends and keeps. *)

Slots == {<<>>} \cup {<<f>> : f \in Answers}
ReportSlots == {<<>>} \cup {<<f>> : f \in Reports}
SlotBytes(s) == IF s = <<>> THEN <<>> ELSE Bytes(s[1])

StreamOK ==
  /\ ring \in Seq(StreamBytes)
  /\ slot \in Slots
  /\ report \in ReportSlots
  /\ copied \in {0, 3, 5} /\ (slot = <<>> => copied = 0)

Queued == ring \o SlotBytes(report)
Chunk ==
  IF busy THEN <<>>
  ELSE SubSeq(Queued, 1, IF Len(Queued) < Mtu THEN Len(Queued) ELSE Mtu)
Sent == Chunk # <<>> /\ notify /\ Len(air) < TxBuffers
Lost == IF Sent THEN <<>> ELSE Chunk

LEMMA TurnParts ==
  ASSUME Turn
  PROVE  /\ ring' = SubSeq(Queued, Len(Chunk) + 1, Len(Queued))
         /\ copied = Len(InSlot)
         /\ slot' = <<>> /\ copied' = 0
         /\ report' = IF flag THEN <<Report(relay)>> ELSE <<>>
         /\ flag' = FALSE
         /\ air' = IF Sent THEN Append(air, Chunk) ELSE air
         /\ busy' = (busy \/ Sent)
         /\ UNCHANGED <<relay, pin, notify, up, user, service, refused, bounds>>
         /\ Recall(HasReport(Lost), HasPinAck(Lost))
         /\ Deafen(HasLogon(Lost))
BY DEF Turn, Queued, Chunk, Sent, Lost, SlotBytes

LEMMA SlotFacts ==
  /\ \A s \in Slots \cup ReportSlots :
       SlotBytes(s) \in Seq(StreamBytes)
  /\ \A s \in Slots : s = <<>> \/ (s[1] \in Answers /\ s = <<s[1]>>)
  /\ \A s \in ReportSlots : s = <<>> \/ (s[1] \in Reports /\ s = <<s[1]>>)
<1>1. ASSUME NEW F, NEW s \in {<<f>> : f \in F}
      PROVE  s[1] \in F /\ s = <<s[1]>> /\ s # <<>>
  <2>1. PICK f \in F : s = <<f>>
    OBVIOUS
  <2>2. s[1] = f
    BY <2>1
  <2> QED
    BY <2>1, <2>2
<1>2. \A s \in Slots : s = <<>> \/ (s[1] \in Answers /\ s = <<s[1]>>)
  BY <1>1 DEF Slots
<1>3. \A s \in ReportSlots : s = <<>> \/ (s[1] \in Reports /\ s = <<s[1]>>)
  BY <1>1 DEF ReportSlots
<1>4. <<>> \in Seq(StreamBytes)
  BY EmptySeq
<1> QED
  BY <1>2, <1>3, <1>4, BytesFacts DEF SlotBytes, Frames

LEMMA SlotBytesFacts ==
  ASSUME NEW s \in Slots \cup ReportSlots
  PROVE  /\ SlotBytes(s) \in Seq(StreamBytes)
         /\ s = <<>> => SlotBytes(s) = <<>>
         /\ s # <<>> => /\ s[1] \in Frames
                        /\ Len(SlotBytes(s)) = FrameLen(s[1])
                        /\ FrameLen(s[1]) \in 5..12
                        /\ \A i \in 1..FrameLen(s[1]) :
                             SlotBytes(s)[i] = [of |-> s[1], at |-> i]
<1>1. s # <<>> => s[1] \in Frames
  BY SlotFacts DEF Frames
<1> QED
  BY <1>1, SlotFacts, BytesFacts, FrameFacts DEF SlotBytes

LEMMA MtuType == Mtu \in Nat /\ Mtu >= 4 /\ TxBuffers \in Nat \ {0}
BY PhoneAssumption

LEMMA QueuedFacts ==
  ASSUME StreamOK
  PROVE  /\ Queued \in Seq(StreamBytes)
         /\ SlotBytes(report) \in Seq(StreamBytes)
BY SlotBytesFacts, ConcatProperties DEF StreamOK, Queued

LEMMA ChunkFacts ==
  ASSUME StreamOK
  PROVE  /\ Chunk \in Seq(StreamBytes)
         /\ Len(Chunk) \in 0..Mtu /\ Len(Chunk) <= Len(Queued)
         /\ Len(Queued) \in Nat
         /\ Len(Chunk) \in {0, Mtu, Len(Queued)}
         /\ \A i \in 1..Len(Chunk) : Chunk[i] = Queued[i]
         /\ Chunk = <<>> <=> Len(Chunk) = 0
<1> DEFINE n == IF Len(Queued) < Mtu THEN Len(Queued) ELSE Mtu
<1>1. Queued \in Seq(StreamBytes) /\ Len(Queued) \in Nat
  BY QueuedFacts, LenProperties
<1>2. n \in Nat /\ n <= Len(Queued) /\ n <= Mtu /\ n \in {Mtu, Len(Queued)}
  BY <1>1, MtuType
<1>3. \A i \in 1..n : Queued[i] \in StreamBytes
  BY <1>1, <1>2, ElementOfSeq
<1> HIDE DEF n
<1>4. /\ SubSeq(Queued, 1, n) \in Seq(StreamBytes)
      /\ Len(SubSeq(Queued, 1, n)) = n
      /\ \A i \in 1..n : SubSeq(Queued, 1, n)[i] = Queued[i]
  BY <1>2, <1>3, SubSeqProperties
<1>5. <<>> \in Seq(StreamBytes) /\ Len(<<>>) = 0
  BY EmptySeq
<1>6. CASE busy
  BY <1>1, <1>5, <1>6, MtuType DEF Chunk
<1>7. CASE ~busy
  <2>1. Chunk = SubSeq(Queued, 1, n)
    BY <1>7 DEF Chunk, n
  <2> QED
    BY <1>1, <1>2, <1>4, <2>1, EmptySeq
<1> QED
  BY <1>6, <1>7

LEMMA RestFacts ==
  ASSUME StreamOK, NEW r, r = SubSeq(Queued, Len(Chunk) + 1, Len(Queued))
  PROVE  /\ r \in Seq(StreamBytes)
         /\ Len(r) = Len(Queued) - Len(Chunk)
         /\ \A i \in 1..Len(r) : r[i] = Queued[Len(Chunk) + i]
<1>1. /\ Queued \in Seq(StreamBytes) /\ Len(Queued) \in Nat
      /\ Len(Chunk) \in Nat /\ Len(Chunk) <= Len(Queued)
  BY QueuedFacts, ChunkFacts, LenProperties
<1>2. \A i \in (Len(Chunk) + 1)..Len(Queued) : Queued[i] \in StreamBytes
  BY <1>1, ElementOfSeq
<1>3. /\ r \in Seq(StreamBytes)
      /\ Len(r) = IF Len(Chunk) + 1 <= Len(Queued)
                  THEN Len(Queued) - (Len(Chunk) + 1) + 1 ELSE 0
      /\ \A i \in 1..(Len(Queued) - (Len(Chunk) + 1) + 1) :
           r[i] = Queued[Len(Chunk) + 1 + i - 1]
  BY <1>1, <1>2, SubSeqProperties
<1> QED
  BY <1>1, <1>3

(* What is in the slot, and what a step of its copy adds to the ring.       *)
LEMMA InSlotFacts ==
  ASSUME StreamOK
  PROVE  /\ InSlot = SlotBytes(slot) /\ InSlot \in Seq(StreamBytes)
         /\ slot = <<>> => Len(InSlot) = 0 /\ copied = 0
         /\ slot # <<>> => /\ Len(InSlot) = 5 /\ copied \in {0, 3, 5}
                           /\ slot[1] \in Answers /\ slot = <<slot[1]>>
                           /\ \A i \in 1..5 : InSlot[i] = [of |-> slot[1], at |-> i]
<1>1. InSlot = SlotBytes(slot)
  BY DEF InSlot, SlotBytes
<1>2. slot \in Slots \cup ReportSlots /\ slot \in Slots
  BY DEF StreamOK
<1>3. CASE slot = <<>>
  <2>1. Len(InSlot) = 0
    BY <1>1, <1>2, <1>3, SlotBytesFacts, EmptySeq
  <2> QED
    BY <1>1, <1>2, <1>3, <2>1, SlotBytesFacts DEF StreamOK
<1>4. CASE slot # <<>>
  <2>1. slot[1] \in Answers /\ slot = <<slot[1]>>
    BY <1>2, <1>4, SlotFacts
  <2>2. FrameLen(slot[1]) = 5
    BY <2>1, AnswerFacts
  <2>3. Len(InSlot) = 5 /\ \A i \in 1..5 : InSlot[i] = [of |-> slot[1], at |-> i]
    BY <1>1, <1>2, <1>4, <2>2, SlotBytesFacts
  <2> QED
    BY <1>1, <1>2, <1>4, <2>1, <2>3, SlotBytesFacts DEF StreamOK
<1> QED
  BY <1>3, <1>4

Piece == SubSeq(InSlot, copied + 1, copied')

LEMMA CopyFacts ==
  ASSUME StreamOK, Copy
  PROVE  /\ slot # <<>> /\ slot[1] \in Answers
         /\ (copied = 0 /\ copied' = 3) \/ (copied = 3 /\ copied' = 5)
         /\ ring' = ring \o Piece
         /\ Piece \in Seq(StreamBytes) /\ Len(Piece) = copied' - copied
         /\ \A i \in 1..Len(Piece) : Piece[i] = [of |-> slot[1], at |-> copied + i]
<1>1. slot # <<>> /\ Len(InSlot) = 5 /\ copied \in {0, 3}
  <2>1. copied < Len(InSlot)
    BY DEF Copy
  <2>2. slot # <<>>
    BY <2>1, InSlotFacts
  <2>3. Len(InSlot) = 5 /\ copied \in {0, 3, 5}
    BY <2>2, InSlotFacts, Zenon
  <2> QED
    BY <2>1, <2>2, <2>3
<1>2. copied' = (IF copied < 3 THEN 3 ELSE 5) /\ ring' = ring \o Piece
  BY <1>1 DEF Copy, Piece
<1>3. (copied = 0 /\ copied' = 3) \/ (copied = 3 /\ copied' = 5)
  BY <1>1, <1>2
<1>4. /\ InSlot \in Seq(StreamBytes) /\ slot[1] \in Answers
      /\ \A i \in 1..5 : InSlot[i] = [of |-> slot[1], at |-> i]
  BY <1>1, InSlotFacts
<1>5. copied \in Nat /\ copied' \in Nat /\ copied + 1 <= copied' /\ copied' <= 5
  BY <1>3
<1> DEFINE a == copied + 1
           b == copied'
<1>6. a \in 1..5 /\ b \in 1..5 /\ a <= b /\ b - a + 1 = copied' - copied
  <2>1. \A c, d : (c = 0 /\ d = 3) \/ (c = 3 /\ d = 5)
           => c + 1 \in 1..5 /\ d \in 1..5 /\ c + 1 <= d /\ d - (c + 1) + 1 = d - c
    OBVIOUS
  <2> QED
    BY <1>3, <2>1, Zenon
<1>7. \A i \in a..b : InSlot[i] \in StreamBytes
  <2>1. \A i \in 1..Len(InSlot) : InSlot[i] \in StreamBytes
    BY <1>4, ElementOfSeq
  <2>2. \A i \in a..b : i \in 1..5
    <3> HIDE DEF a, b
    <3> QED
      BY <1>6
  <2>3. 1..Len(InSlot) = 1..5
    BY <1>1
  <2> QED
    BY <2>1, <2>2, <2>3, Zenon
<1>8. Piece = SubSeq(InSlot, a, b)
  BY DEF Piece
<1> HIDE DEF a, b
<1>9. /\ Piece \in Seq(StreamBytes) /\ Len(Piece) = b - a + 1
      /\ \A i \in 1..(b - a + 1) : Piece[i] = InSlot[a + i - 1]
  BY <1>4, <1>6, <1>7, <1>8, SubSeqProperties
<1>10. ASSUME NEW i \in 1..Len(Piece)
       PROVE  Piece[i] = [of |-> slot[1], at |-> copied + i]
  <2>1. i \in 1..(b - a + 1) /\ a + i - 1 \in 1..5 /\ a + i - 1 = copied + i
    BY <1>3, <1>6, <1>9 DEF a
  <2> QED
    BY <1>4, <1>9, <2>1
<1> QED
  BY <1>1, <1>2, <1>3, <1>4, <1>6, <1>9, <1>10

-----------------------------------------------------------------------------
(* Every variable keeps its range.  The link's parts hold each other up: a  *)
(* switch sends only with notifications on, they are on only while there    *)
(* is a link, and an activity that has gone leaves nothing of it behind.    *)

StoredPins == Pins \cup {Blank, NoPin}

Requests ==
  {[op |-> CCCD]}
    \cup [op : {LOGON, STATUS}, pin : StoredPins, arg : {1}]
    \cup [op : 2..5, pin : StoredPins, arg : {0, 1}]
    \cup [op : {PIN}, pin : StoredPins, arg : Pins]
Ups == {<<>>} \cup {<<q>> : q \in Requests}

Notifications == {n \in Seq(StreamBytes) : Len(n) \in 1..Mtu}

SwitchOK ==
  /\ relay \in Values
  /\ pin \in Pins
  /\ flag \in BOOLEAN
  /\ StreamOK

LinkOK ==
  /\ busy \in BOOLEAN /\ notify \in BOOLEAN
  /\ up \in Ups
  /\ air \in Seq(Notifications) /\ Len(air) <= TxBuffers
  /\ conn \in Conns
  /\ app \in {"splash", "pair", "main"}
  /\ ~notify => ~busy
  /\ notify => Linked
  /\ up # <<>> => conn \in {"found", "live"}
  /\ app # "main" => conn = "closed"
  /\ conn = "closed" => air = <<>>

UserOK ==
  /\ screen \in {"home", "pass"}
  /\ stored \in StoredPins
  /\ text \in Pins \cup {Blank}
  /\ saved \subseteq Pins
  /\ cache \in Values
  /\ timer \in Nat

HistoryOK ==
  /\ missed \in 0..(1 + TxBuffers)
  /\ {astray, refused, deaf} \subseteq BOOLEAN

Types == SwitchOK /\ LinkOK /\ UserOK /\ HistoryOK

LEMMA RequestFacts ==
  /\ \A q \in Requests :
       /\ q.op \in 0..9
       /\ q.op \in 2..5 => q.arg \in {0, 1}
       /\ q.op = PIN => q.arg \in Pins
       /\ q.op \in {LOGON, PIN, STATUS, CCCD} \cup (2..5)
  /\ \A u \in Ups : u = <<>> \/ (u[1] \in Requests /\ u = <<u[1]>>)
  /\ \A s \in StoredPins, p \in Pins, v \in {0, 1}, r \in 1..4 :
       /\ [op |-> LOGON, pin |-> s, arg |-> 1] \in Requests
       /\ [op |-> STATUS, pin |-> s, arg |-> 1] \in Requests
       /\ [op |-> PIN, pin |-> s, arg |-> p] \in Requests
       /\ [op |-> r + 1, pin |-> s, arg |-> v] \in Requests
<1> USE DEF LOGON, PIN, STATUS, CCCD
<1>1. \A q \in Requests :
        /\ q.op \in 0..9
        /\ q.op \in 2..5 => q.arg \in {0, 1}
        /\ q.op = PIN => q.arg \in Pins
        /\ q.op \in {LOGON, PIN, STATUS, CCCD} \cup (2..5)
  BY DEF Requests
<1>2. ASSUME NEW u \in Ups, u # <<>>
      PROVE  u[1] \in Requests /\ u = <<u[1]>>
  <2>1. PICK q \in Requests : u = <<q>>
    BY <1>2 DEF Ups
  <2>2. u[1] = q
    BY <2>1
  <2> QED
    BY <2>1, <2>2
<1>3. ASSUME NEW s \in StoredPins, NEW p \in Pins, NEW v \in {0, 1},
             NEW r \in 1..4
      PROVE  /\ [op |-> LOGON, pin |-> s, arg |-> 1] \in Requests
             /\ [op |-> STATUS, pin |-> s, arg |-> 1] \in Requests
             /\ [op |-> PIN, pin |-> s, arg |-> p] \in Requests
             /\ [op |-> r + 1, pin |-> s, arg |-> v] \in Requests
  <2>1. r + 1 \in 2..5
    OBVIOUS
  <2> QED
    BY <2>1 DEF Requests
<1> QED
  BY <1>1, <1>2, <1>3

(* What becomes of the notifications under way.                             *)
LEMMA AirAppended ==
  ASSUME air \in Seq(Notifications), NEW n \in Notifications, air' = Append(air, n)
  PROVE  /\ air' \in Seq(Notifications)
         /\ Len(air) \in Nat /\ Len(air') = Len(air) + 1
         /\ \A i \in 1..Len(air) : air'[i] = air[i]
         /\ air'[Len(air')] = n
BY AppendProperties, LenProperties

LEMMA AirTail ==
  ASSUME air \in Seq(Notifications), air # <<>>, air' = Tail(air)
  PROVE  /\ air' \in Seq(Notifications)
         /\ Received \in Notifications /\ Received = air[1]
         /\ Len(air) \in Nat \ {0} /\ Len(air') = Len(air) - 1
         /\ \A i \in 1..Len(air') : air'[i] = air[i + 1]
<1>1. Len(air) \in Nat \ {0}
  BY EmptySeq
<1>2. Head(air) = air[1]
  OBVIOUS
<1> QED
  BY <1>1, <1>2, HeadTailProperties DEF Received

LEMMA AirHead ==
  ASSUME air \in Seq(Notifications), air # <<>>
  PROVE  Received \in Notifications /\ Received = air[1] /\ Len(air) \in Nat \ {0}
<1>1. Len(air) \in Nat \ {0}
  BY EmptySeq
<1>2. Head(air) = air[1]
  OBVIOUS
<1> QED
  BY <1>1, <1>2, HeadTailProperties DEF Received

LEMMA AirCut ==
  ASSUME air \in Seq(Notifications), NEW k \in 0..Len(air), air' = SubSeq(air, 1, k)
  PROVE  /\ air' \in Seq(Notifications)
         /\ Len(air) \in Nat /\ Len(air') = k
         /\ \A i \in 1..Len(air') : air'[i] = air[i]
<1>1. Len(air) \in Nat
  BY LenProperties
<1>2. k \in Int /\ k <= Len(air) /\ k >= 0
  BY <1>1
<1>3. \A i \in 1..k : air[i] \in Notifications
  BY <1>1, <1>2, ElementOfSeq
<1>4. /\ SubSeq(air, 1, k) \in Seq(Notifications)
      /\ Len(SubSeq(air, 1, k)) = IF 1 <= k THEN k - 1 + 1 ELSE 0
      /\ \A i \in 1..(k - 1 + 1) : SubSeq(air, 1, k)[i] = air[1 + i - 1]
  BY <1>2, <1>3, SubSeqProperties
<1> QED
  BY <1>1, <1>2, <1>4

LEMMA AirGone ==
  ASSUME air' = SubSeq(air, 1, 0)
  PROVE  air' = <<>> /\ air' \in Seq(Notifications) /\ Len(air') = 0
BY SubSeqEmpty, EmptySeq

LEMMA RecallType ==
  ASSUME HistoryOK, NEW u \in BOOLEAN, NEW h \in BOOLEAN, Recall(u, h),
         Len(air') \in Nat, Len(air') <= TxBuffers
  PROVE  missed' \in 0..(1 + TxBuffers) /\ astray' \in BOOLEAN
<1>1. missed' \in 0..(1 + TxBuffers)
  BY MtuType DEF Recall, HistoryOK
<1>2. astray' \in BOOLEAN
  BY Zenon DEF Recall
<1> QED
  BY <1>1, <1>2

LEMMA DeafType ==
  ASSUME NEW x, Deafen(x)
  PROVE  deaf' \in BOOLEAN
BY Zenon DEF Deafen

LEMMA HistoryParts ==
  /\ HistoryOK <=> /\ missed \in 0..(1 + TxBuffers) /\ astray \in BOOLEAN
                   /\ refused \in BOOLEAN /\ deaf \in BOOLEAN
  /\ HistoryOK' <=> /\ missed' \in 0..(1 + TxBuffers) /\ astray' \in BOOLEAN
                    /\ refused' \in BOOLEAN /\ deaf' \in BOOLEAN
<1>1. \A a, b, c : {a, b, c} \subseteq BOOLEAN
                 <=> a \in BOOLEAN /\ b \in BOOLEAN /\ c \in BOOLEAN
  BY Zenon
<1> QED
  BY <1>1, Zenon DEF HistoryOK

LEMMA WriteType ==
  ASSUME LinkOK, NEW q \in Requests, Write(q)
  PROVE  up' \in Ups /\ (up' # <<>> => conn \in {"found", "live"})
<1>1. <<q>> \in Ups
  BY DEF Ups
<1> QED
  BY <1>1 DEF Write, LinkOK

(* The activity goes.                                                       *)
LEMMA LeaveParts ==
  ASSUME NEW s, NEW h, Leave(s, h)
  PROVE  /\ app' = "splash" /\ conn' = "closed" /\ deaf' = FALSE
         /\ stored' = s /\ cache' = AllOff
         /\ up' = <<>> /\ air' = <<>> /\ air' \in Seq(Notifications)
         /\ Len(air') = 0
         /\ busy' = FALSE /\ notify' = FALSE
         /\ UNCHANGED <<switch, screen, text, saved, refused>>
         /\ Recall(TRUE, h)
BY AirGone DEF Leave, LinkLost

LEMMA AllOffType == AllOff \in Values
BY DEF AllOff, Values

LEMMA LeaveTypes ==
  ASSUME Types, NEW s \in StoredPins, NEW h \in BOOLEAN, Leave(s, h),
         timer' \in Nat
  PROVE  Types'
<1>0. /\ app' = "splash" /\ conn' = "closed" /\ deaf' = FALSE
      /\ stored' = s /\ cache' = AllOff
      /\ up' = <<>> /\ air' = <<>> /\ air' \in Seq(Notifications)
      /\ Len(air') = 0
      /\ busy' = FALSE /\ notify' = FALSE
      /\ UNCHANGED <<switch, screen, text, saved, refused>>
      /\ Recall(TRUE, h)
  BY LeaveParts, Zenon
<1>10. Len(air') \in Nat /\ Len(air') <= TxBuffers
  <2>1. Len(air') = 0
    BY <1>0, Zenon
  <2> QED
    BY <2>1, MtuType
<1>1. SwitchOK'
  BY <1>0 DEF Types, SwitchOK, StreamOK, switch
<1>2. LinkOK'
  <2>1. up' \in Ups /\ conn' \in Conns /\ app' \in {"splash", "pair", "main"}
    BY <1>0 DEF Ups, Conns
  <2>2. /\ busy' \in BOOLEAN /\ notify' \in BOOLEAN /\ ~notify' /\ ~busy'
    BY <1>0, Zenon
  <2> QED
    BY <1>0, <1>10, <2>1, <2>2, Zenon DEF LinkOK
<1>3. UserOK'
  BY <1>0, AllOffType, Zenon DEF Types, UserOK
<1>4. HistoryOK'
  <2>2. missed' \in 0..(1 + TxBuffers) /\ astray' \in BOOLEAN
    BY <1>0, <1>10, RecallType, Zenon DEF Types
  <2>3. refused' \in BOOLEAN /\ deaf' \in BOOLEAN
    BY <1>0, Zenon DEF Types, HistoryOK
  <2> QED
    BY <2>2, <2>3, HistoryParts, Zenon
<1> QED
  BY <1>1, <1>2, <1>3, <1>4 DEF Types

(* A request to the switch.                                                 *)
LEMMA ProcessTypes ==
  ASSUME SwitchOK, NEW q \in Requests, q.op # CCCD, Process(q),
         UNCHANGED <<copied, report, ring>>
  PROVE  SwitchOK' /\ (slot # <<>> => slot' # <<>>)
<1> DEFINE ok == q.pin = pin
<1>1. /\ relay' = IF ok /\ q.op \in 2..5 THEN [relay EXCEPT ![q.op - 1] = q.arg]
                  ELSE relay
      /\ pin' = IF ok /\ q.op = PIN THEN q.arg ELSE pin
      /\ flag' = (flag \/ (ok /\ q.op \in (2..5) \cup {STATUS}))
      /\ slot' = IF ok /\ q.op \in (2..5) \cup {STATUS} THEN slot
                 ELSE IF ok /\ q.op = PIN THEN <<PinAck(pin')>>
                 ELSE <<Response(q.op, IF ok THEN Success ELSE ErrorPin)>>
  BY DEF Process
<1> HIDE DEF ok
<1>2. relay' \in Values
  <2>1. q.op \in 2..5 => q.op - 1 \in 1..4 /\ q.arg \in {0, 1}
    BY RequestFacts
  <2> QED
    BY <1>1, <2>1 DEF SwitchOK, Values
<1>3. pin' \in Pins
  BY <1>1, RequestFacts DEF SwitchOK
<1>4. flag' \in BOOLEAN
  BY <1>1, Zenon DEF SwitchOK
<1>5. slot' \in Slots
  <2>1. slot \in Slots
    BY DEF SwitchOK, StreamOK
  <2>2. PinAck(pin') \in Answers
    BY <1>3 DEF Answers
  <2>3. q.op \in {LOGON, PIN, STATUS, CCCD} \cup (2..5) /\ q.op \in 0..9
    BY RequestFacts
  <2>4. ASSUME ok, q.op \notin (2..5) \cup {STATUS}, q.op # PIN
        PROVE  Response(q.op, IF ok THEN Success ELSE ErrorPin) \in Answers
    <3>1. q.op = LOGON
      BY <2>3, <2>4
    <3>2. (IF ok THEN Success ELSE ErrorPin) = Success
      BY <2>4
    <3> QED
      BY <3>1, <3>2 DEF Answers
  <2>5. ASSUME ~ok
        PROVE  Response(q.op, IF ok THEN Success ELSE ErrorPin) \in Answers
    <3>1. q.op \in 1..9
      BY <2>3 DEF CCCD
    <3>2. (IF ok THEN Success ELSE ErrorPin) = ErrorPin
      BY <2>5
    <3> QED
      BY <3>1, <3>2 DEF Answers
  <2> QED
    BY <1>1, <2>1, <2>2, <2>4, <2>5 DEF Slots
<1>6. slot # <<>> => slot' # <<>>
  BY <1>1
<1>7. copied' \in {0, 3, 5} /\ (slot' = <<>> => copied' = 0)
  BY <1>6 DEF SwitchOK, StreamOK
<1> QED
  BY <1>2, <1>3, <1>4, <1>5, <1>6, <1>7 DEF SwitchOK, StreamOK

\* An acknowledgement goes before it is copied, or is cleared uncopied.
HandleUnheard ==
  \/ Overwritten /\ IsPinAck(slot[1])
  \/ Discarded /\ pin' # pin

LEMMA HandleParts ==
  ASSUME Handle, up[1].op # CCCD
  PROVE  /\ Process(up[1])
         /\ UNCHANGED <<notify, copied, report, ring, stored>>
         /\ Recall(FALSE, HandleUnheard)
         /\ deaf' \in BOOLEAN
         /\ refused' = (refused \/ slot' = <<Refusal>>)
<1>1. /\ Process(up[1])
      /\ UNCHANGED <<notify, copied, report, ring, stored>>
      /\ Recall(FALSE, HandleUnheard)
      /\ refused' = (refused \/ slot' = <<Refusal>>)
  BY DEF Handle, Refusal, HandleUnheard
<1>2. deaf' \in BOOLEAN
  <2>1. \E x : Deafen(x)
    BY DEF Handle
  <2> QED
    BY <2>1, DeafType
<1> QED
  BY <1>1, <1>2

LEMMA HandleTypes ==
  ASSUME Types, Handle
  PROVE  Types'
<1> DEFINE q == up[1]
<1>1. /\ up # <<>> /\ up' = <<>>
      /\ UNCHANGED <<busy, air, app, screen, stored, text, saved, cache, conn,
                     timer>>
  BY DEF Handle, user, service
<1>2. q \in Requests
  BY <1>1, RequestFacts DEF Types, LinkOK
<1>3. /\ notify' \in BOOLEAN /\ SwitchOK' /\ HistoryOK'
      /\ notify => notify'
  <2>1. CASE q.op = CCCD
    <3>1. notify' = TRUE /\ UNCHANGED <<switch, history>>
      BY <2>1 DEF Handle
    <3> QED
      BY <3>1 DEF Types, SwitchOK, StreamOK, HistoryOK, switch, history
  <2>2. CASE q.op # CCCD
    <3>1. /\ Process(q)
          /\ UNCHANGED <<notify, copied, report, ring, stored>>
          /\ Recall(FALSE, HandleUnheard)
          /\ deaf' \in BOOLEAN
          /\ refused' = (refused \/ slot' = <<Refusal>>)
      BY <2>2, HandleParts
    <3>2. SwitchOK'
      BY <1>2, <2>2, <3>1, ProcessTypes DEF Types
    <3>3. HandleUnheard \in BOOLEAN
      BY Zenon DEF HandleUnheard
    <3>4. Len(air') \in Nat /\ Len(air') <= TxBuffers
      BY <1>1, LenProperties DEF Types, LinkOK
    <3>5. refused' \in BOOLEAN
      BY <3>1, Zenon
    <3>6. missed' \in 0..(1 + TxBuffers) /\ astray' \in BOOLEAN
      BY <3>1, <3>3, <3>4, RecallType DEF Types
    <3> QED
      BY <3>1, <3>2, <3>5, <3>6, HistoryParts, Zenon DEF Types, LinkOK
  <2> QED
    BY <2>1, <2>2
<1>4. LinkOK'
  <2>1. up' \in Ups /\ (conn \in {"found", "live"} => Linked)
    BY <1>1 DEF Ups, Linked
  <2>2. Linked' <=> Linked
    BY <1>1 DEF Linked
  <2> QED
    BY <1>1, <1>3, <2>1, <2>2, Zenon DEF Types, LinkOK
<1>5. UserOK'
  BY <1>1, Zenon DEF Types, UserOK
<1> QED
  BY <1>3, <1>4, <1>5, Zenon DEF Types

LEMMA TurnTypes ==
  ASSUME Types, Turn
  PROVE  Types'
<1>1. /\ ring' = SubSeq(Queued, Len(Chunk) + 1, Len(Queued))
      /\ slot' = <<>> /\ copied' = 0
      /\ report' = IF flag THEN <<Report(relay)>> ELSE <<>>
      /\ flag' = FALSE
      /\ air' = IF Sent THEN Append(air, Chunk) ELSE air
      /\ busy' = (busy \/ Sent)
      /\ UNCHANGED <<relay, pin, notify, up, user, service, refused, bounds>>
      /\ Recall(HasReport(Lost), HasPinAck(Lost))
      /\ Deafen(HasLogon(Lost))
  BY TurnParts, Zenon
<1>2. SwitchOK'
  <2>1. ring' \in Seq(StreamBytes)
    BY <1>1, RestFacts, Zenon DEF Types, SwitchOK
  <2>2. report' \in ReportSlots /\ slot' \in Slots
    <3>1. Report(relay) \in Reports
      BY DEF Types, SwitchOK, Reports
    <3> QED
      BY <1>1, <3>1 DEF ReportSlots, Slots
  <2>3. relay' \in Values /\ pin' \in Pins /\ flag' \in BOOLEAN
    BY <1>1, Zenon DEF Types, SwitchOK
  <2>4. copied' \in {0, 3, 5} /\ (slot' = <<>> => copied' = 0)
    BY <1>1
  <2> QED
    BY <2>1, <2>2, <2>3, <2>4, Zenon DEF SwitchOK, StreamOK
<1>3. /\ air' \in Seq(Notifications) /\ Len(air') \in Nat /\ Len(air') <= TxBuffers
      /\ air # air' => notify
  <2>1. /\ air \in Seq(Notifications) /\ Len(air) \in Nat /\ Len(air) <= TxBuffers
    BY LenProperties DEF Types, LinkOK
  <2>2. CASE Sent
    <3>1. Chunk \in Notifications
      BY <2>2, ChunkFacts DEF Types, SwitchOK, Sent, Notifications
    <3>2. /\ air' \in Seq(Notifications) /\ Len(air') = Len(air) + 1
      BY <1>1, <2>1, <2>2, <3>1, AirAppended
    <3>3. Len(air) < TxBuffers /\ notify
      BY <2>2 DEF Sent
    <3> QED
      BY <2>1, <3>2, <3>3, MtuType
  <2>3. CASE ~Sent
    BY <1>1, <2>1, <2>3
  <2> QED
    BY <2>2, <2>3
<1>4. LinkOK'
  <2>1. UNCHANGED <<app, conn, up, notify>> /\ (Linked' <=> Linked)
    BY <1>1 DEF user, service, Linked
  <2>2. busy' \in BOOLEAN /\ (~notify' => ~busy')
    BY <1>1, Zenon DEF Types, LinkOK, Sent
  <2>3. conn = "closed" => ~notify
    BY DEF Types, LinkOK, Linked
  <2> QED
    BY <1>3, <2>1, <2>2, <2>3, Zenon DEF Types, LinkOK
<1>5. UserOK'
  <2>1. UNCHANGED <<screen, stored, text, saved, cache, timer>>
    BY <1>1 DEF user, service
  <2> QED
    BY <2>1, Zenon DEF Types, UserOK
<1>6. HistoryOK'
  <2>1. HasReport(Lost) \in BOOLEAN /\ HasPinAck(Lost) \in BOOLEAN
    BY Zenon DEF HasReport, HasPinAck
  <2>2. missed' \in 0..(1 + TxBuffers) /\ astray' \in BOOLEAN
    BY <1>1, <1>3, <2>1, RecallType, Zenon DEF Types
  <2>3. refused' \in BOOLEAN /\ deaf' \in BOOLEAN
    BY <1>1, DeafType, HistoryParts, Zenon DEF Types
  <2> QED
    BY <2>2, <2>3, HistoryParts, Zenon
<1> QED
  BY <1>2, <1>4, <1>5, <1>6, Zenon DEF Types

LEMMA CopyTypes ==
  ASSUME Types, Copy
  PROVE  Types'
<1>1. /\ ring' = ring \o Piece /\ copied' \in {3, 5} /\ slot # <<>>
      /\ Piece \in Seq(StreamBytes) /\ ring \in Seq(StreamBytes)
  BY CopyFacts DEF Types, SwitchOK, StreamOK
<1>2. UNCHANGED <<relay, pin, flag, slot, report, busy, notify, up, air, app,
                  screen, stored, text, saved, cache, conn, timer, missed,
                  astray, refused, deaf>>
  BY DEF Copy, sender, user, service, history
<1>3. ring' \in Seq(StreamBytes)
  BY <1>1, ConcatProperties
<1>4. SwitchOK'
  BY <1>1, <1>2, <1>3 DEF Types, SwitchOK, StreamOK
<1>5. Linked' <=> Linked
  BY <1>2 DEF Linked
<1>6. LinkOK' /\ UserOK' /\ HistoryOK'
  BY <1>2, <1>5, Zenon DEF Types, LinkOK, UserOK, HistoryOK
<1> QED
  BY <1>4, <1>6, Zenon DEF Types

LEMMA DropTypes ==
  ASSUME Types, NEW clean \in BOOLEAN, NEW k \in 0..Len(air), Drop(clean, k)
  PROVE  Types'
<1>1. /\ Linked /\ deaf' = FALSE
      /\ up' = <<>> /\ air' = SubSeq(air, 1, k) /\ busy' = FALSE /\ notify' = FALSE
      /\ conn' \in {"off", "wait"}
      /\ UNCHANGED <<switch, user, timer, refused, inputs>>
      /\ Recall(\E i \in (k + 1)..Len(air) : HasReport(air[i]),
                \E i \in (k + 1)..Len(air) : HasPinAck(air[i]))
  BY DEF Drop, LinkLost
<1>2. /\ air' \in Seq(Notifications) /\ Len(air) \in Nat /\ Len(air') = k
      /\ Len(air) <= TxBuffers
  <2>1. /\ air \in Seq(Notifications) /\ Len(air) <= TxBuffers
    BY DEF Types, LinkOK
  <2> QED
    BY <1>1, <2>1, AirCut
<1>3. Len(air') \in Nat /\ Len(air') <= TxBuffers
  BY <1>2, MtuType
<1>4. SwitchOK'
  BY <1>1 DEF Types, SwitchOK, StreamOK, switch
<1>5. LinkOK'
  <2>1. /\ up' \in Ups /\ conn' \in Conns /\ app' = app
        /\ conn' # "closed" /\ conn # "closed"
    BY <1>1 DEF Ups, Conns, user, Linked
  <2>2. busy' \in BOOLEAN /\ notify' \in BOOLEAN /\ ~notify' /\ ~busy'
    BY <1>1, Zenon
  <2> QED
    BY <1>1, <1>2, <1>3, <2>1, <2>2, Zenon DEF Types, LinkOK
<1>6. UserOK'
  <2>1. UNCHANGED <<screen, stored, text, saved, cache, timer>>
    BY <1>1 DEF user
  <2> QED
    BY <2>1, Zenon DEF Types, UserOK
<1>7. HistoryOK'
  <2>1. /\ (\E i \in (k + 1)..Len(air) : HasReport(air[i])) \in BOOLEAN
        /\ (\E i \in (k + 1)..Len(air) : HasPinAck(air[i])) \in BOOLEAN
    BY Zenon
  <2>2. missed' \in 0..(1 + TxBuffers) /\ astray' \in BOOLEAN
    BY <1>1, <1>3, <2>1, RecallType, Zenon DEF Types
  <2>3. refused' \in BOOLEAN /\ deaf' \in BOOLEAN
    BY <1>1, HistoryParts, Zenon DEF Types
  <2> QED
    BY <2>2, <2>3, HistoryParts, Zenon
<1> QED
  BY <1>4, <1>5, <1>6, <1>7, Zenon DEF Types

(* Notifications that the phone takes and stays where it is.                *)
LEMMA StaysParts ==
  ASSUME Taken, Stays
  PROVE  /\ air # <<>> /\ app = "main" /\ air' = Tail(air) /\ busy' = FALSE
         /\ UNCHANGED <<switch, notify, app, screen, stored, text, saved, timer,
                        refused>>
         /\ astray' = (stored # pin /\ (astray \/ HasPinAck(Received)))
         /\ conn' = conn \/ (conn = "found" /\ conn' = "live")
         /\ deaf' = deaf \/ Deafen(HasLogon(Received))
<1>1. /\ air # <<>> /\ app = "main" /\ air' = Tail(air) /\ busy' = FALSE
      /\ UNCHANGED <<switch, notify, app, screen, stored, text, saved, timer,
                     refused>>
      /\ astray' = (stored # pin /\ (astray \/ HasPinAck(Received)))
  BY DEF Taken, Stays
<1>2. \/ conn' = (IF conn = "found" THEN "live" ELSE conn) /\ deaf' = deaf
      \/ conn' = conn /\ Deafen(HasLogon(Received))
  BY Zenon DEF Stays
<1> QED
  BY <1>1, <1>2

LEMMA StaysTypes ==
  ASSUME Types, Taken, Stays
  PROVE  /\ SwitchOK' /\ HistoryOK'
         /\ air' \in Seq(Notifications) /\ Len(air') <= TxBuffers
         /\ busy' = FALSE
         /\ UNCHANGED <<notify, app, screen, stored, text, saved, timer>>
         /\ conn' = conn \/ (conn = "found" /\ conn' = "live")
         /\ app = "main" /\ conn # "closed"
<1>1. /\ air # <<>> /\ app = "main" /\ air' = Tail(air) /\ busy' = FALSE
      /\ UNCHANGED <<switch, notify, app, screen, stored, text, saved, timer,
                     refused>>
      /\ astray' = (stored # pin /\ (astray \/ HasPinAck(Received)))
      /\ conn' = conn \/ (conn = "found" /\ conn' = "live")
      /\ deaf' = deaf \/ Deafen(HasLogon(Received))
  BY StaysParts, Zenon
<1>2. /\ air \in Seq(Notifications) /\ Len(air) <= TxBuffers /\ conn # "closed"
  BY <1>1 DEF Types, LinkOK
<1>3. /\ air' \in Seq(Notifications) /\ Len(air') = Len(air) - 1
      /\ Len(air) \in Nat \ {0}
  BY <1>1, <1>2, AirTail
<1>4. SwitchOK'
  BY <1>1 DEF Types, SwitchOK, StreamOK, switch
<1>5. missed' \in 0..(1 + TxBuffers)
  BY MtuType DEF Stays, Types, HistoryOK
<1>6. astray' \in BOOLEAN /\ refused' \in BOOLEAN /\ deaf' \in BOOLEAN
  BY <1>1, DeafType, HistoryParts, Zenon DEF Types
<1>7. HistoryOK'
  BY <1>5, <1>6, HistoryParts, Zenon
<1>8. Len(air') <= TxBuffers
  BY <1>2, <1>3, MtuType
<1>9. UNCHANGED <<notify, app, screen, stored, text, saved, timer>>
  BY <1>1
<1> QED
  BY <1>1, <1>2, <1>3, <1>4, <1>7, <1>8, <1>9, Zenon

LEMMA StaysTypesOK ==
  ASSUME Types, Taken, Stays,
         up' \in Ups, up' # <<>> => conn \in {"found", "live"},
         cache' \in Values
  PROVE  Types'
<1>1. /\ SwitchOK' /\ HistoryOK'
      /\ air' \in Seq(Notifications) /\ Len(air') <= TxBuffers
      /\ busy' = FALSE
      /\ UNCHANGED <<notify, app, screen, stored, text, saved, timer>>
      /\ conn' = conn \/ (conn = "found" /\ conn' = "live")
      /\ app = "main" /\ conn # "closed"
  BY StaysTypes, Zenon
<1>2. LinkOK'
  <2>1. busy' \in BOOLEAN /\ ~busy'
    BY <1>1, Zenon
  <2>2. /\ Linked' <=> Linked
        /\ conn' \in Conns /\ conn' # "closed"
        /\ conn \in {"found", "live"} => conn' \in {"found", "live"}
    BY <1>1 DEF Linked, Types, LinkOK, Conns
  <2> QED
    BY <1>1, <2>1, <2>2, Zenon DEF Types, LinkOK
<1>3. UserOK'
  BY <1>1, Zenon DEF Types, UserOK
<1> QED
  BY <1>1, <1>2, <1>3, Zenon DEF Types

LEMMA AcksBool == AcksIn(air) \in BOOLEAN /\ (air # <<>> => AcksIn(Tail(air)) \in BOOLEAN)
BY Zenon DEF AcksIn

LEMMA StoredFacts ==
  ASSUME Types
  PROVE  /\ stored \in StoredPins /\ NoPin \in StoredPins
         /\ text \in StoredPins
         /\ Request(STATUS, 1) \in Requests /\ Request(LOGON, 1) \in Requests
<1>1. stored \in StoredPins /\ text \in StoredPins /\ NoPin \in StoredPins
  BY DEF Types, UserOK, StoredPins
<1>2. Default \in Pins /\ 0 \in {0, 1} /\ 1 \in 1..4
  BY PhoneAssumption
<1> QED
  BY <1>1, <1>2, RequestFacts, Zenon DEF Request

LEMMA DiesTypes ==
  ASSUME Types, Dies
  PROVE  Types'
<1>1. Leave(stored, AcksIn(air)) /\ timer' \in Nat
  BY DEF Dies
<1> QED
  BY <1>1, LeaveTypes, StoredFacts, AcksBool, Zenon

LEMMA ReceiveTypes ==
  ASSUME Types, Receive
  PROVE  Types'
<1>1. Taken /\ timer \in Nat
  BY DEF Receive, ReceiveStatus, ReceiveLogon, ReceivePin, ReceiveOther,
     ReceiveStub, Types, UserOK
<1>2. /\ up \in Ups /\ (up # <<>> => conn \in {"found", "live"})
      /\ cache \in Values
  BY DEF Types, LinkOK, UserOK
<1>3. CASE ReceiveStatus
  <2>1. Stays /\ up' = up
    BY <1>3 DEF ReceiveStatus
  <2>2. cache' \in Values
    BY <1>2, <1>3 DEF ReceiveStatus, Values
  <2> QED
    BY <1>1, <1>2, <2>1, <2>2, StaysTypesOK, Zenon
<1>4. CASE ReceiveLogon
  <2>1. \/ Stays /\ Write(Request(STATUS, 1)) /\ cache' = cache
        \/ Leave(NoPin, AcksIn(air)) /\ timer' = timer
    BY <1>4 DEF ReceiveLogon
  <2>2. CASE Stays /\ Write(Request(STATUS, 1)) /\ cache' = cache
    <3>1. up' \in Ups /\ (up' # <<>> => conn \in {"found", "live"})
      BY <2>2, WriteType, StoredFacts, Zenon DEF Types
    <3> QED
      BY <1>1, <1>2, <2>2, <3>1, StaysTypesOK, Zenon
  <2>3. CASE Leave(NoPin, AcksIn(air)) /\ timer' = timer
    BY <1>1, <2>3, LeaveTypes, StoredFacts, AcksBool, Zenon
  <2> QED
    BY <2>1, <2>2, <2>3
<1>5. CASE ReceivePin
  <2>1. \/ Leave(text, AcksIn(Tail(air)) \/ ~HeardRight) /\ timer' = timer
        \/ Stays /\ UNCHANGED <<cache, up>>
    BY <1>5 DEF ReceivePin
  <2>2. CASE Leave(text, AcksIn(Tail(air)) \/ ~HeardRight) /\ timer' = timer
    <3>1. (AcksIn(Tail(air)) \/ ~HeardRight) \in BOOLEAN
      BY Zenon
    <3> QED
      BY <1>1, <2>2, <3>1, LeaveTypes, StoredFacts, Zenon
  <2>3. CASE Stays /\ UNCHANGED <<cache, up>>
    BY <1>1, <1>2, <2>3, StaysTypesOK, Zenon
  <2> QED
    BY <2>1, <2>2, <2>3
<1>6. CASE ReceiveOther
  <2>1. Stays /\ UNCHANGED <<cache, up>>
    BY <1>6 DEF ReceiveOther
  <2> QED
    BY <1>1, <1>2, <2>1, StaysTypesOK, Zenon
<1>7. CASE ReceiveStub
  BY <1>7, DiesTypes DEF ReceiveStub
<1> QED
  BY <1>3, <1>4, <1>5, <1>6, <1>7 DEF Receive

\* The login event while there is a client, or no main screen to use one.
LogonEvent ==
  /\ timer > 0 /\ timer' = timer - 1
  /\ up' = up \/ Write(Request(LOGON, 1))
  /\ \E x : Deafen(x)
  /\ UNCHANGED <<switch, sender, air, user, conn, missed, astray, refused>>

LEMMA LogonCases ==
  ASSUME LogonTimer
  PROVE  Dies \/ LogonEvent
<1>1. CASE app # "main" \/ HasClient
  BY <1>1 DEF LogonTimer, LogonEvent
<1>2. CASE ~(app # "main" \/ HasClient)
  BY <1>2 DEF LogonTimer
<1> QED
  BY <1>1, <1>2

LEMMA ConnectingTypes ==
  ASSUME Types, Connecting
  PROVE  Types'
<1>1. CASE Reconnect \/ Bind \/ LinkUp
  <2>1. /\ UNCHANGED <<switch, sender, up, air, user, timer, history>>
        /\ conn \in {"closed", "off", "wait"} /\ conn' \in {"wait", "up"}
        /\ conn = "closed" => app = "main"
    BY <1>1 DEF Reconnect, Bind, LinkUp
  <2>2. SwitchOK' /\ HistoryOK'
    BY <2>1 DEF Types, SwitchOK, StreamOK, HistoryOK, switch, history
  <2>3. UNCHANGED <<busy, notify, app, screen, stored, text, saved, cache>>
    BY <2>1 DEF sender, user
  <2>4. /\ conn' \in Conns /\ conn' # "closed"
        /\ conn \notin {"found", "live", "bare"}
        /\ ~Linked
    BY <2>1 DEF Conns, Linked
  <2>5. ~notify /\ up = <<>> /\ (app' # "main" => FALSE)
    BY <2>1, <2>3, <2>4 DEF Types, LinkOK
  <2>6. LinkOK'
    BY <2>1, <2>3, <2>4, <2>5, Zenon DEF Types, LinkOK
  <2>7. UserOK'
    BY <2>1, <2>3, <2>4, Zenon DEF Types, UserOK
  <2> QED
    BY <2>2, <2>6, <2>7, Zenon DEF Types
<1>2. CASE Discover
  <2>1. /\ UNCHANGED <<switch, sender, air, user, history>> /\ conn = "up"
        /\ \/ conn' = "found" /\ up' = <<[op |-> CCCD]>> /\ timer' = timer + 1
           \/ conn' = "bare" /\ up' = up /\ timer' = timer
    BY <1>2 DEF Discover
  <2>2. SwitchOK' /\ HistoryOK'
    BY <2>1 DEF Types, SwitchOK, StreamOK, HistoryOK, switch, history
  <2>3. UNCHANGED <<busy, notify, app, screen, stored, text, saved, cache>>
    BY <2>1 DEF sender, user
  <2>4. /\ conn' \in Conns /\ conn' # "closed" /\ Linked'
        /\ up' # <<>> => conn' \in {"found", "live"}
        /\ up' \in Ups
        /\ app = "main"
    <3>1. [op |-> CCCD] \in Requests
      BY DEF Requests
    <3>2. up = <<>> /\ up \in Ups /\ app = "main"
      BY <2>1 DEF Types, LinkOK
    <3>3. up' \in Ups
      BY <2>1, <3>1, <3>2 DEF Ups
    <3> QED
      BY <2>1, <3>2, <3>3 DEF Conns, Linked
  <2>5. LinkOK'
    BY <2>1, <2>3, <2>4, Zenon DEF Types, LinkOK
  <2>6. UserOK'
    <3>1. timer' \in Nat
      BY <2>1 DEF Types, UserOK
    <3> QED
      BY <2>3, <3>1, Zenon DEF Types, UserOK
  <2> QED
    BY <2>2, <2>5, <2>6, Zenon DEF Types
<1>3. CASE LogonTimer
  <2>1. \/ Dies
        \/ LogonEvent
    BY <1>3, LogonCases
  <2>2. ASSUME LogonEvent PROVE Types'
    <3>1. /\ timer > 0 /\ timer' = timer - 1
          /\ up' = up \/ Write(Request(LOGON, 1))
          /\ \E x : Deafen(x)
          /\ UNCHANGED <<switch, sender, air, user, conn, missed, astray, refused>>
      BY <2>2 DEF LogonEvent
    <3>2. deaf' \in BOOLEAN
      BY <3>1, DeafType
    <3>3. SwitchOK'
      BY <3>1 DEF Types, SwitchOK, StreamOK, switch
    <3>4. HistoryOK'
      BY <3>1, <3>2, HistoryParts, Zenon DEF Types
    <3>5. UNCHANGED <<busy, notify, app, screen, stored, text, saved, cache>>
      BY <3>1 DEF sender, user
    <3>6. up' \in Ups /\ (up' # <<>> => conn \in {"found", "live"})
      BY <3>1, WriteType, StoredFacts, Zenon DEF Types, LinkOK
    <3>7. Linked' <=> Linked
      BY <3>1 DEF Linked
    <3>8. LinkOK'
      BY <3>1, <3>5, <3>6, <3>7, Zenon DEF Types, LinkOK
    <3>9. timer' \in Nat
      BY <3>1 DEF Types, UserOK
    <3>10. UserOK'
      BY <3>5, <3>9, Zenon DEF Types, UserOK
    <3> QED
      BY <3>3, <3>4, <3>8, <3>10, Zenon DEF Types
  <2> QED
    BY <2>1, <2>2, DiesTypes
<1> QED
  BY <1>1, <1>2, <1>3 DEF Connecting

LEMMA UserTypes ==
  ASSUME Types, User
  PROVE  Types'
<1>1. ASSUME NEW r \in Used, Press(r) PROVE Types'
  <2>1. /\ relay' = [relay EXCEPT ![r] = 1 - @] /\ flag' = TRUE
        /\ UNCHANGED <<pin, slot, copied, report, ring, sender, up, air, user, service,
                       history>>
    BY <1>1 DEF Press
  <2>2. relay' \in Values
    BY <2>1, PhoneAssumption DEF Types, SwitchOK, Values
  <2>3. SwitchOK'
    BY <2>1, <2>2 DEF Types, SwitchOK, StreamOK
  <2>4. UNCHANGED <<busy, notify, app, screen, stored, text, saved, cache, conn,
                    timer, missed, astray, refused, deaf>>
    BY <2>1 DEF sender, user, service, history
  <2>5. Linked' <=> Linked
    BY <2>4 DEF Linked
  <2>6. LinkOK' /\ UserOK' /\ HistoryOK'
    BY <2>1, <2>4, <2>5, Zenon DEF Types, LinkOK, UserOK, HistoryOK
  <2> QED
    BY <2>3, <2>6, Zenon DEF Types
<1>2. CASE PinReset
  <2>1. /\ pin' = Default /\ Recall(FALSE, TRUE)
        /\ UNCHANGED <<relay, flag, slot, copied, report, ring, sender, up, air,
                       user, service, refused, deaf>>
    BY <1>2 DEF PinReset
  <2>2. SwitchOK'
    BY <2>1, PhoneAssumption DEF Types, SwitchOK, StreamOK
  <2>3. UNCHANGED <<busy, notify, app, screen, stored, text, saved, cache, conn,
                    timer>>
    BY <2>1 DEF sender, user, service
  <2>4. Linked' <=> Linked
    BY <2>3 DEF Linked
  <2>5. LinkOK' /\ UserOK'
    BY <2>1, <2>3, <2>4, Zenon DEF Types, LinkOK, UserOK
  <2>6. Len(air') \in Nat /\ Len(air') <= TxBuffers
    BY <2>1, LenProperties DEF Types, LinkOK
  <2>7. missed' \in 0..(1 + TxBuffers) /\ astray' \in BOOLEAN
    BY <2>1, <2>6, RecallType DEF Types
  <2> QED
    BY <2>1, <2>2, <2>5, <2>7, HistoryParts, Zenon DEF Types
<1>3. ASSUME NEW p \in Pins, Pair(p) PROVE Types'
  <2>1. /\ app = "pair" /\ app' = "main" /\ stored' = p /\ screen' = "home"
        /\ Recall(FALSE, TRUE)
        /\ UNCHANGED <<switch, sender, up, air, text, saved, cache, service,
                       refused, deaf>>
    BY <1>3 DEF Pair
  <2>2. SwitchOK'
    BY <2>1 DEF Types, SwitchOK, StreamOK, switch
  <2>3. UNCHANGED <<busy, notify, conn, timer>>
    BY <2>1 DEF sender, service
  <2>4. (Linked' <=> Linked) /\ app' \in {"splash", "pair", "main"}
        /\ ~(app' # "main") /\ screen' \in {"home", "pass"} /\ stored' \in StoredPins
    BY <2>1, <2>3 DEF Linked, StoredPins
  <2>5. LinkOK' /\ UserOK'
    BY <2>1, <2>3, <2>4, Zenon DEF Types, LinkOK, UserOK
  <2>6. Len(air') \in Nat /\ Len(air') <= TxBuffers
    BY <2>1, LenProperties DEF Types, LinkOK
  <2>7. missed' \in 0..(1 + TxBuffers) /\ astray' \in BOOLEAN
    BY <2>1, <2>6, RecallType DEF Types
  <2> QED
    BY <2>1, <2>2, <2>5, <2>7, HistoryParts, Zenon DEF Types
<1>4. CASE Crash
  BY <1>4, DiesTypes DEF Crash
<1>5. ASSUME InMain,
             screen' \in {"home", "pass"}, text' \in Pins \cup {Blank},
             saved' \subseteq Pins, cache' \in Values,
             up' \in Ups, up' # <<>> => conn \in {"found", "live"},
             missed' = missed \/ missed' = 1 + Len(air), astray' = astray
      PROVE  Types'
  <2>1. UNCHANGED <<relay, pin, flag, slot, copied, report, ring, busy, notify,
                    air, app, stored, conn, timer, refused, deaf>>
    BY <1>5 DEF InMain, switch, sender, service
  <2>2. SwitchOK'
    BY <2>1 DEF Types, SwitchOK, StreamOK
  <2>3. LinkOK'
    <3>1. Linked' <=> Linked
      BY <2>1 DEF Linked
    <3> QED
      BY <1>5, <2>1, <3>1, Zenon DEF Types, LinkOK
  <2>4. UserOK'
    BY <1>5, <2>1, Zenon DEF Types, UserOK
  <2>5. missed' \in 0..(1 + TxBuffers)
    <3>1. Len(air) \in Nat /\ Len(air) <= TxBuffers /\ missed \in 0..(1 + TxBuffers)
      BY LenProperties DEF Types, LinkOK, HistoryOK
    <3> QED
      BY <1>5, <3>1, MtuType
  <2>6. HistoryOK'
    BY <1>5, <2>1, <2>5, HistoryParts, Zenon DEF Types
  <2> QED
    BY <2>2, <2>3, <2>4, <2>6, Zenon DEF Types
<1>6. /\ up \in Ups /\ (up # <<>> => conn \in {"found", "live"})
      /\ cache \in Values /\ screen \in {"home", "pass"} /\ saved \subseteq Pins
      /\ text \in Pins \cup {Blank} /\ stored \in StoredPins
  BY DEF Types, LinkOK, UserOK
<1>7. ASSUME NEW r \in Used, Tap(r) PROVE Types'
  <2>1. /\ InMain /\ Write(Request(r + 1, 1 - cache[r]))
        /\ UNCHANGED <<screen, text, saved, cache, missed, astray>>
    BY <1>7 DEF Tap
  <2>2. Request(r + 1, 1 - cache[r]) \in Requests
    <3>1. r \in 1..4 /\ 1 - cache[r] \in {0, 1} /\ Default \in Pins
      BY <1>6, PhoneAssumption DEF Values
    <3> QED
      BY <1>6, <3>1, RequestFacts, Zenon DEF Request
  <2>3. up' \in Ups /\ (up' # <<>> => conn \in {"found", "live"})
    BY <2>1, <2>2, WriteType, Zenon DEF Types
  <2> QED
    BY <1>5, <1>6, <2>1, <2>3, Zenon
<1>8. CASE OpenHome
  <2>1. /\ InMain /\ Write(Request(STATUS, 1)) /\ screen' = "home"
        /\ cache' = AllOff /\ missed' = 1 + Len(air)
        /\ UNCHANGED <<text, saved, astray>>
    BY <1>8 DEF OpenHome
  <2>2. up' \in Ups /\ (up' # <<>> => conn \in {"found", "live"})
    BY <2>1, StoredFacts, WriteType, Zenon DEF Types
  <2>3. screen' \in {"home", "pass"} /\ cache' \in Values
    BY <2>1, AllOffType
  <2> QED
    BY <1>5, <1>6, <2>1, <2>2, <2>3, Zenon
<1>9. ASSUME NEW p \in Pins \cup {Blank}, OpenPass(p) \/ (p \in Pins /\ Type(p))
      PROVE  Types'
  <2>1. /\ InMain /\ text' = p /\ screen' \in {"home", "pass"}
        /\ UNCHANGED <<up, saved, cache, missed, astray>>
    BY <1>6, <1>9 DEF OpenPass, Type
  <2> QED
    BY <1>5, <1>6, <2>1, Zenon
<1>10. CASE Save
  <2>1. /\ InMain /\ text # Blank /\ Write(Request(PIN, text))
        /\ saved' = IF up' # up THEN saved \cup {text} ELSE saved
        /\ UNCHANGED <<screen, text, cache, missed, astray>>
    BY <1>10 DEF Save
  <2>2. text \in Pins
    BY <1>6, <2>1
  <2>3. Request(PIN, text) \in Requests
    <3>1. 0 \in {0, 1} /\ 1 \in 1..4
      OBVIOUS
    <3> QED
      BY <1>6, <2>2, <3>1, RequestFacts, Zenon DEF Request
  <2>4. up' \in Ups /\ (up' # <<>> => conn \in {"found", "live"})
    BY <2>1, <2>3, WriteType, Zenon DEF Types
  <2>5. saved' \subseteq Pins
    BY <1>6, <2>1, <2>2
  <2> QED
    BY <1>5, <1>6, <2>1, <2>4, <2>5, Zenon
<1> QED
  BY <1>1, <1>2, <1>3, <1>4, <1>7, <1>8, <1>9, <1>10 DEF User

LEMMA SplashTypes ==
  ASSUME Types, Splash
  PROVE  Types'
<1>1. /\ app = "splash" /\ app' = IF stored = NoPin THEN "pair" ELSE "main"
      /\ screen' = "home" /\ text' = Blank /\ saved' = {} /\ refused' = FALSE
      /\ UNCHANGED <<relay, pin, flag, slot, copied, report, ring, busy, notify,
                     up, air, stored, cache, conn, timer, missed, astray, deaf>>
  BY DEF Splash, switch, sender, service
<1>2. SwitchOK'
  BY <1>1 DEF Types, SwitchOK, StreamOK
<1>3. LinkOK'
  <2>1. (Linked' <=> Linked) /\ app' \in {"splash", "pair", "main"}
        /\ app # "main"
    BY <1>1 DEF Linked
  <2> QED
    BY <1>1, <2>1, Zenon DEF Types, LinkOK
<1>4. screen' \in {"home", "pass"} /\ text' \in Pins \cup {Blank}
      /\ saved' \subseteq Pins /\ refused' \in BOOLEAN
  BY <1>1
<1>5. UserOK' /\ HistoryOK'
  BY <1>1, <1>4, HistoryParts, Zenon DEF Types, UserOK
<1> QED
  BY <1>2, <1>3, <1>5, Zenon DEF Types

LEMMA GuardTypes ==
  ASSUME Types, SendGuard
  PROVE  Types'
<1>1. /\ busy' = FALSE
      /\ UNCHANGED <<relay, pin, flag, slot, copied, report, ring, notify, up,
                     air, app, screen, stored, text, saved, cache, conn, timer,
                     missed, astray, refused, deaf>>
  BY DEF SendGuard, switch, user, service, history
<1>2. SwitchOK'
  BY <1>1 DEF Types, SwitchOK, StreamOK
<1>3. (Linked' <=> Linked) /\ busy' \in BOOLEAN /\ ~busy'
  BY <1>1 DEF Linked
<1>4. LinkOK' /\ UserOK' /\ HistoryOK'
  BY <1>1, <1>3, Zenon DEF Types, LinkOK, UserOK, HistoryOK
<1> QED
  BY <1>2, <1>4, Zenon DEF Types

LEMMA InitTypes == Init => Types
<1> SUFFICES ASSUME Init PROVE Types
  OBVIOUS
<1>1. AllOff \in Values /\ Default \in Pins /\ TxBuffers \in Nat
  BY AllOffType, PhoneAssumption
<1>2. <<>> \in Seq(StreamBytes) /\ <<>> \in Seq(Notifications) /\ Len(<<>>) = 0
  BY EmptySeq
<1>3. SwitchOK
  BY <1>1, <1>2 DEF Init, SwitchOK, StreamOK, Slots, ReportSlots
<1>4. LinkOK
  <2>1. /\ busy = FALSE /\ notify = FALSE /\ up = <<>> /\ air = <<>>
        /\ conn = "closed" /\ app = "splash"
    BY DEF Init
  <2>2. /\ up \in Ups /\ conn \in Conns /\ app \in {"splash", "pair", "main"}
        /\ Len(air) = 0 /\ air \in Seq(Notifications)
    BY <1>2, <2>1 DEF Ups, Conns
  <2>3. Len(air) <= TxBuffers
    BY <1>1, <2>2
  <2>4. busy \in BOOLEAN /\ notify \in BOOLEAN /\ ~busy /\ ~notify
    BY <2>1, Zenon
  <2> QED
    BY <2>1, <2>2, <2>3, <2>4, Zenon DEF LinkOK
<1>5. UserOK
  BY <1>1 DEF Init, UserOK, StoredPins
<1>6. HistoryOK
  <2>1. astray = (stored = NoPin) /\ refused = FALSE /\ deaf = FALSE /\ missed = 1
    BY DEF Init
  <2>2. astray \in BOOLEAN /\ refused \in BOOLEAN /\ deaf \in BOOLEAN
    BY <2>1, Zenon
  <2>3. missed \in 0..(1 + TxBuffers)
    BY <1>1, <2>1
  <2> QED
    BY <2>2, <2>3, HistoryParts, Zenon
<1> QED
  BY <1>3, <1>4, <1>5, <1>6 DEF Types

LEMMA TypesStep ==
  ASSUME Types, Next
  PROVE  Types'
BY UserTypes, HandleTypes, CopyTypes, TurnTypes, GuardTypes, ConnectingTypes, ReceiveTypes,
   SplashTypes, DropTypes DEF Next

LEMMA TypesInvariant == Spec => []Types
<1>1. Types /\ [Next]_vars => Types'
  <2>1. ASSUME Types, Next PROVE Types'
    BY <2>1, TypesStep
  <2>2. ASSUME Types, UNCHANGED vars PROVE Types'
    <3>1. UNCHANGED <<relay, pin, flag, slot, copied, report, ring, busy, notify,
                      up, air, app, screen, stored, text, saved, cache, conn,
                      timer, missed, astray, refused, deaf>>
      BY <2>2 DEF vars, switch, sender, user, service, history
    <3>2. SwitchOK'
      BY <2>2, <3>1 DEF Types, SwitchOK, StreamOK
    <3>3. Linked' <=> Linked
      BY <3>1 DEF Linked
    <3>4. LinkOK' /\ UserOK' /\ HistoryOK'
      BY <2>2, <3>1, <3>3, Zenon DEF Types, LinkOK, UserOK, HistoryOK
    <3> QED
      BY <3>2, <3>4, Zenon DEF Types
  <2> QED
    BY <2>1, <2>2
<1> QED
  BY <1>1, InitTypes, PTL DEF Spec

(* Every variable keeps its range, through lost links, failed discoveries   *)
(* and an application that ends and starts again at any moment              *)
(* (BluetoothLeService.java, MainPresenter.java, ble_nus_app.c).            *)
THEOREM PhoneTypeCorrect == Spec => []TypeOK
<1>1. Types => TypeOK
  <2> SUFFICES ASSUME Types PROVE TypeOK
    OBVIOUS
  <2>1. {relay, cache} \subseteq [1..4 -> {0, 1}]
    BY DEF Types, SwitchOK, UserOK, Values
  <2>2. {flag, busy, notify, astray, refused, deaf} \subseteq BOOLEAN
    <3>1. /\ flag \in BOOLEAN /\ busy \in BOOLEAN /\ notify \in BOOLEAN
          /\ astray \in BOOLEAN /\ refused \in BOOLEAN /\ deaf \in BOOLEAN
      BY HistoryParts, Zenon DEF Types, SwitchOK, LinkOK
    <3> QED
      BY <3>1, Zenon
  <2>3. {Len(slot), Len(report), Len(up)} \subseteq {0, 1}
    <3>1. \A x : Len(<<x>>) = 1
      OBVIOUS
    <3>2. slot \in Slots /\ report \in ReportSlots /\ up \in Ups
      BY DEF Types, SwitchOK, StreamOK, LinkOK
    <3>3. Len(slot) \in {0, 1}
      BY <3>2 DEF Slots
    <3>4. Len(report) \in {0, 1}
      BY <3>2 DEF ReportSlots
    <3>5. Len(up) \in {0, 1}
      BY <3>2 DEF Ups
    <3> QED
      BY <3>3, <3>4, <3>5
  <2>4. \A i \in DOMAIN air : Len(air[i]) \in 1..Mtu
    <3>1. air \in Seq(Notifications)
      BY DEF Types, LinkOK
    <3>2. \A i \in DOMAIN air : air[i] \in Notifications
      BY <3>1, LenProperties, ElementOfSeq
    <3> QED
      BY <3>2 DEF Notifications
  <2>5. copied \in {0, 3, Len(InSlot)} /\ copied <= Len(InSlot)
    <3>1. CASE slot = <<>>
      BY <3>1, InSlotFacts DEF Types, SwitchOK
    <3>2. CASE slot # <<>>
      <4>1. Len(InSlot) = 5 /\ copied \in {0, 3, 5}
        BY <3>2, InSlotFacts, Zenon DEF Types, SwitchOK
      <4> QED
        BY <4>1
    <3> QED
      BY <3>1, <3>2
  <2> QED
    BY <2>1, <2>2, <2>3, <2>4, <2>5, Zenon
       DEF TypeOK, Types, SwitchOK, LinkOK, UserOK, HistoryOK, StoredPins
<1> QED
  BY <1>1, TypesInvariant, PTL

-----------------------------------------------------------------------------
(* What an action other than Handle, Copy and Turn does to the frames under  *)
(* way: none is added.                                                      *)

Other ==
  \/ User \/ SendGuard \/ Connecting \/ Receive \/ Splash
  \/ \E clean \in BOOLEAN, k \in 0..Len(air) : Drop(clean, k)

LEMMA NextCases == Next => Handle \/ Copy \/ Turn \/ Other
BY DEF Next, Other

Shrinks ==
  \A i \in 1..Len(air') : \E j \in 1..Len(air) : air'[i] = air[j]

LEMMA ShrinksLeave ==
  ASSUME NEW s, NEW h, Leave(s, h)
  PROVE  Shrinks
<1>1. Len(air') = 0
  BY LeaveParts, Zenon
<1>2. \A i \in 1..Len(air') : FALSE
  BY <1>1
<1> QED
  BY <1>2 DEF Shrinks

LEMMA ShrinksStays ==
  ASSUME Types, Taken, Stays
  PROVE  Shrinks
<1>1. air # <<>> /\ air' = Tail(air) /\ air \in Seq(Notifications)
  BY DEF Taken, Stays, Types, LinkOK
<1>2. /\ Len(air) \in Nat \ {0} /\ Len(air') = Len(air) - 1
      /\ \A i \in 1..Len(air') : air'[i] = air[i + 1]
  BY <1>1, AirTail
<1>3. \A i \in 1..Len(air') : i + 1 \in 1..Len(air)
  BY <1>2
<1> QED
  BY <1>2, <1>3 DEF Shrinks

LEMMA ShrinksDrop ==
  ASSUME Types, NEW clean \in BOOLEAN, NEW k \in 0..Len(air), Drop(clean, k)
  PROVE  Shrinks
<1>1. air' = SubSeq(air, 1, k) /\ air \in Seq(Notifications)
  BY DEF Drop, LinkLost, Types, LinkOK
<1>2. /\ Len(air) \in Nat /\ Len(air') = k
      /\ \A i \in 1..Len(air') : air'[i] = air[i]
  BY <1>1, AirCut
<1>3. \A i \in 1..Len(air') : i \in 1..Len(air)
  BY <1>2
<1> QED
  BY <1>2, <1>3 DEF Shrinks

(* The outcomes of a notification: the phone stays, or the activity goes.   *)
LEMMA ReceiveCases ==
  ASSUME Receive
  PROVE  /\ Taken
         /\ \/ Stays
            \/ ReceiveLogon /\ Codes # {Success}
                 /\ Leave(NoPin, AcksIn(air))
            \/ ReceivePin /\ screen = "pass"
                 /\ Leave(text, AcksIn(Tail(air)) \/ ~HeardRight)
            \/ ReceiveStub /\ Dies
BY DEF Receive, ReceiveStatus, ReceiveLogon, ReceivePin, ReceiveOther, ReceiveStub

LEMMA ShrinksOther ==
  ASSUME Types, Other
  PROVE  Shrinks
<1>1. ASSUME UNCHANGED air PROVE Shrinks
  BY <1>1 DEF Shrinks
<1>2. CASE Receive
  BY <1>2, ReceiveCases, ShrinksStays, ShrinksLeave, Zenon DEF Dies
<1>3. CASE \E clean \in BOOLEAN, k \in 0..Len(air) : Drop(clean, k)
  BY <1>3, ShrinksDrop
<1>4. CASE SendGuard \/ Splash
  BY <1>1, <1>4 DEF SendGuard, Splash
<1>5. CASE Connecting
  <2>1. UNCHANGED air \/ Leave(stored, AcksIn(air))
    BY <1>5, LogonCases
       DEF Connecting, Reconnect, Bind, LinkUp, Discover, LogonEvent, Dies
  <2> QED
    BY <1>1, <2>1, ShrinksLeave
<1>6. CASE User
  <2>1. UNCHANGED air \/ Leave(stored, AcksIn(air))
    BY <1>6 DEF User, Press, Tap, Pair, Type, OpenPass, PinReset, OpenHome, Save,
       Crash, InMain, Dies
  <2> QED
    BY <1>1, <2>1, ShrinksLeave
<1> QED
  BY <1>2, <1>3, <1>4, <1>5, <1>6 DEF Other

LEMMA OtherFrames ==
  ASSUME Types, Other
  PROVE  /\ UNCHANGED <<slot, copied, report, ring>>
         /\ Linked' => Linked \/ (slot = <<>> /\ report = <<>> /\ ring = <<>>)
         /\ \/ UNCHANGED refused
            \/ app = "splash"
<1> USE DEF switch
<1>1. ASSUME NEW s, NEW h, Leave(s, h)
      PROVE  UNCHANGED <<slot, copied, report, ring, refused>> /\ ~Linked'
  <2>1. conn' = "closed" /\ UNCHANGED <<switch, refused>>
    BY <1>1, LeaveParts, Zenon
  <2> QED
    BY <2>1 DEF Linked
<1>2. CASE Receive
  <2>1. CASE Stays
    <3>1. Taken /\ UNCHANGED <<switch, refused>>
      BY <1>2, <2>1, ReceiveCases DEF Stays
    <3>2. conn' = conn \/ (conn = "found" /\ conn' = "live")
      BY <2>1, <3>1, StaysParts, Zenon
    <3> QED
      BY <3>1, <3>2 DEF Linked
  <2> QED
    BY <1>1, <1>2, <2>1, ReceiveCases, Zenon DEF Dies
<1>3. CASE \E clean \in BOOLEAN, k \in 0..Len(air) : Drop(clean, k)
  BY <1>3 DEF Drop, Linked
<1>4. CASE SendGuard \/ Splash
  BY <1>4 DEF SendGuard, Splash, Linked, service, history
<1>5. CASE Connecting
  <2>1. CASE Reconnect \/ Bind \/ LinkUp \/ Discover
    BY <2>1 DEF Reconnect, Bind, LinkUp, Discover, Linked, history
  <2>2. CASE LogonTimer
    <3>1. CASE LogonEvent
      BY <3>1 DEF LogonEvent, Linked
    <3>2. CASE Dies
      BY <1>1, <3>2 DEF Dies
    <3> QED
      BY <2>2, <3>1, <3>2, LogonCases
  <2> QED
    BY <1>5, <2>1, <2>2 DEF Connecting
<1>6. CASE User
  <2>1. CASE Crash
    BY <1>1, <2>1 DEF Crash, Dies
  <2>2. CASE ~Crash
    BY <1>6, <2>2 DEF User, Press, Tap, Pair, Type, OpenPass, PinReset, OpenHome,
       Save, InMain, service, history, Linked
  <2> QED
    BY <2>1, <2>2
<1> QED
  BY <1>2, <1>3, <1>4, <1>5, <1>6 DEF Other

-----------------------------------------------------------------------------
(* The bytes stay in order: what is queued is made of whole frames from     *)
(* some byte of the first on, and a notification is a run of it.  Only an    *)
(* answer may go on with the bytes of another.                              *)

Succ(b, c) ==
  IF b.at < FrameLen(b.of)
  THEN c.at = b.at + 1 /\ (c.of = b.of \/ (b.of \in Answers /\ c.of \in Answers))
  ELSE c.at = 1
Chain(s) == \A i \in 1..(Len(s) - 1) : Succ(s[i], s[i + 1])
Ends(s) == Len(s) > 0 => s[Len(s)].at = FrameLen(s[Len(s)].of)

\* A notification that begins with a frame holds its status code.
Opens(n) == n[1].at = 1 => Len(n) >= 4

\* A response that is being copied ends in its header.
RingEnd ==
  IF copied = 3
  THEN Len(ring) > 0 /\ ring[Len(ring)].at = 3 /\ ring[Len(ring)].of \in Answers
  ELSE Ends(ring)

Coherent ==
  /\ Chain(ring) /\ RingEnd
  /\ \A i \in 1..Len(air) : Chain(air[i]) /\ Opens(air[i])

LEMMA SliceChain ==
  ASSUME NEW s \in Seq(StreamBytes), NEW t \in Seq(StreamBytes), NEW k \in Nat,
         k + Len(t) <= Len(s), \A i \in 1..Len(t) : t[i] = s[k + i],
         Chain(s)
  PROVE  /\ Chain(t)
         /\ k + Len(t) = Len(s) /\ Ends(s) => Ends(t)
<1>1. Len(s) \in Nat /\ Len(t) \in Nat
  BY LenProperties
<1>2. ASSUME NEW i \in 1..(Len(t) - 1) PROVE Succ(t[i], t[i + 1])
  <2>1. /\ i \in 1..Len(t) /\ i + 1 \in 1..Len(t)
        /\ k + i \in 1..(Len(s) - 1) /\ k + (i + 1) = (k + i) + 1
    BY <1>1
  <2>2. t[i] = s[k + i] /\ t[i + 1] = s[(k + i) + 1]
    BY <2>1
  <2>3. Succ(s[k + i], s[(k + i) + 1])
    BY <2>1, Zenon DEF Chain
  <2> QED
    BY <2>2, <2>3, Zenon
<1>3. ASSUME k + Len(t) = Len(s), Ends(s), Len(t) > 0
      PROVE  t[Len(t)].at = FrameLen(t[Len(t)].of)
  <2>1. t[Len(t)] = s[Len(s)] /\ Len(s) > 0
    BY <1>1, <1>3
  <2> QED
    BY <1>3, <2>1 DEF Ends
<1> QED
  BY <1>2, <1>3 DEF Chain, Ends

LEMMA ConcatChain ==
  ASSUME NEW s \in Seq(StreamBytes), NEW t \in Seq(StreamBytes),
         Chain(s), Chain(t),
         Len(s) > 0 /\ Len(t) > 0 => Succ(s[Len(s)], t[1])
  PROVE  /\ Chain(s \o t)
         /\ Len(t) > 0 => Len(s \o t) > 0 /\ (s \o t)[Len(s \o t)] = t[Len(t)]
         /\ Ends(s) /\ Ends(t) => Ends(s \o t)
<1> DEFINE u == s \o t
<1>1. /\ Len(s) \in Nat /\ Len(t) \in Nat
      /\ Len(u) = Len(s) + Len(t)
      /\ \A i \in 1..(Len(s) + Len(t)) :
           u[i] = IF i <= Len(s) THEN s[i] ELSE t[i - Len(s)]
  BY ConcatProperties, LenProperties
<1> HIDE DEF u
<1>3. ASSUME NEW i \in 1..(Len(u) - 1) PROVE Succ(u[i], u[i + 1])
  <2>1. CASE i < Len(s)
    <3>1. u[i] = s[i] /\ u[i + 1] = s[i + 1] /\ i \in 1..(Len(s) - 1)
      BY <1>1, <2>1
    <3> QED
      BY <3>1 DEF Chain
  <2>2. CASE i = Len(s)
    <3>1. u[i] = s[Len(s)] /\ u[i + 1] = t[1] /\ Len(t) > 0 /\ Len(s) > 0
      BY <1>1, <2>2
    <3> QED
      BY <3>1, Zenon
  <2>3. CASE i > Len(s)
    <3>1. /\ u[i] = t[i - Len(s)] /\ u[i + 1] = t[i + 1 - Len(s)]
          /\ i - Len(s) \in 1..(Len(t) - 1) /\ i + 1 - Len(s) = (i - Len(s)) + 1
      BY <1>1, <2>3
    <3> QED
      BY <3>1 DEF Chain
  <2> QED
    BY <1>1, <2>1, <2>2, <2>3
<1>4. Len(t) > 0 => Len(u) > 0 /\ u[Len(u)] = t[Len(t)]
  BY <1>1
<1>5. Len(t) = 0 /\ Len(u) > 0 => Len(s) > 0 /\ u[Len(u)] = s[Len(s)]
  BY <1>1
<1>6. Ends(s) /\ Ends(t) => Ends(u)
  <2>1. Len(t) = 0 \/ Len(t) > 0
    BY <1>1
  <2> QED
    BY <1>4, <1>5, <2>1, Zenon DEF Ends
<1> QED
  BY <1>3, <1>4, <1>6 DEF Chain, u

\* A frame may follow what ends with one.
LEMMA EndsSucc ==
  ASSUME NEW s \in Seq(StreamBytes), Ends(s), Len(s) > 0, NEW c, c.at = 1
  PROVE  Succ(s[Len(s)], c)
<1>1. Len(s) \in 1..Len(s)
  BY LenProperties
<1>2. s[Len(s)] \in StreamBytes
  BY <1>1, ElementOfSeq
<1>3. s[Len(s)].at \in 1..12 /\ s[Len(s)].at = FrameLen(s[Len(s)].of)
  BY <1>2 DEF Ends, StreamBytes
<1>4. ~(s[Len(s)].at < FrameLen(s[Len(s)].of))
  BY <1>3
<1> QED
  BY <1>4, Zenon DEF Succ

LEMMA EmptyChain == Chain(<<>>) /\ Ends(<<>>) /\ Len(<<>>) = 0
BY EmptySeq DEF Chain, Ends

LEMMA SlotChain ==
  ASSUME NEW s \in Slots \cup ReportSlots
  PROVE  /\ Chain(SlotBytes(s)) /\ Ends(SlotBytes(s))
         /\ Len(SlotBytes(s)) > 0 => SlotBytes(s)[1].at = 1
<1>1. CASE s = <<>>
  BY <1>1, EmptyChain, SlotBytesFacts
<1>2. CASE s # <<>>
  <2> DEFINE b == SlotBytes(s)
             f == s[1]
             n == FrameLen(f)
  <2>1. /\ Len(b) = n /\ n \in 5..12
        /\ \A i \in 1..n : b[i] = [of |-> f, at |-> i]
    BY <1>2, SlotBytesFacts
  <2> HIDE DEF b, f
  <2>2. ASSUME NEW i \in 1..(Len(b) - 1) PROVE Succ(b[i], b[i + 1])
    <3>1. /\ i \in 1..n /\ i + 1 \in 1..n /\ i < n
      BY <2>1
    <3>2. b[i].of = f /\ b[i].at = i /\ b[i + 1].of = f /\ b[i + 1].at = i + 1
      BY <2>1, <3>1
    <3> QED
      BY <3>1, <3>2 DEF Succ
  <2>3. b[Len(b)].at = FrameLen(b[Len(b)].of) /\ b[1].at = 1
    <3>1. Len(b) \in 1..n /\ 1 \in 1..n
      BY <2>1
    <3> QED
      BY <2>1, <3>1
  <2> QED
    BY <2>2, <2>3 DEF Chain, Ends, b
<1> QED
  BY <1>1, <1>2

LEMMA QueuedChain ==
  ASSUME StreamOK, Chain(ring), Ends(ring)
  PROVE  Chain(Queued) /\ Ends(Queued)
<1> DEFINE b == SlotBytes(report)
<1>1. report \in Slots \cup ReportSlots /\ ring \in Seq(StreamBytes)
  BY DEF StreamOK
<1>2. b \in Seq(StreamBytes)
  BY QueuedFacts
<1>3. Chain(b) /\ Ends(b) /\ (Len(b) > 0 => b[1].at = 1)
  BY <1>1, SlotChain
<1> HIDE DEF b
<1>4. Len(ring) > 0 /\ Len(b) > 0 => Succ(ring[Len(ring)], b[1])
  BY <1>1, <1>3, EndsSucc
<1>5. Chain(ring \o b) /\ (Ends(ring) /\ Ends(b) => Ends(ring \o b))
  BY <1>1, <1>2, <1>3, <1>4, ConcatChain
<1> QED
  BY <1>3, <1>5 DEF Queued, b

(* A piece of an answer goes on where the answer before it stopped.          *)
LEMMA CoherentCopy ==
  ASSUME Types, Coherent, Copy
  PROVE  Coherent'
<1> DEFINE f == slot[1]
           n == Len(Piece)
<1>1. /\ f \in Answers
      /\ (copied = 0 /\ copied' = 3) \/ (copied = 3 /\ copied' = 5)
      /\ ring' = ring \o Piece
      /\ Piece \in Seq(StreamBytes) /\ n = copied' - copied
      /\ \A i \in 1..n : Piece[i] = [of |-> f, at |-> copied + i]
      /\ ring \in Seq(StreamBytes) /\ air' = air
  BY CopyFacts DEF Types, SwitchOK, StreamOK, Copy
<1>2. FrameLen(f) = 5
  BY <1>1, AnswerFacts
<1> HIDE DEF f
<1>3. /\ n > 0 /\ n \in Nat /\ copied \in Nat /\ copied' = copied + n
      /\ copied + n <= 5
  BY <1>1
<1>4. \A i \in 1..n : Piece[i].of = f /\ Piece[i].at = copied + i
  <2>1. ASSUME NEW i \in 1..n PROVE Piece[i].of = f /\ Piece[i].at = copied + i
    <3>1. Piece[i] = [of |-> f, at |-> copied + i]
      BY <1>1, Zenon
    <3> QED
      BY <3>1
  <2> QED
    BY <2>1
<1>5. Chain(Piece)
  <2>1. ASSUME NEW i \in 1..(n - 1) PROVE Succ(Piece[i], Piece[i + 1])
    <3>1. i \in 1..n /\ i + 1 \in 1..n /\ copied + i < 5 /\ copied + (i + 1) = (copied + i) + 1
      BY <1>3
    <3>2. /\ Piece[i].of = f /\ Piece[i].at = copied + i
          /\ Piece[i + 1].of = f /\ Piece[i + 1].at = (copied + i) + 1
      BY <1>4, <3>1
    <3> QED
      BY <1>2, <3>1, <3>2 DEF Succ
  <2> QED
    BY <2>1 DEF Chain
<1>6. Piece[1].of = f /\ Piece[1].at = copied + 1
      /\ Piece[n].of = f /\ Piece[n].at = copied'
  <2>1. 1 \in 1..n /\ n \in 1..n
    BY <1>3
  <2> QED
    BY <1>3, <1>4, <2>1
<1>7. ASSUME Len(ring) > 0 PROVE Succ(ring[Len(ring)], Piece[1])
  <2>1. CASE copied = 0
    <3>1. Ends(ring) /\ Piece[1].at = 1
      BY <1>6, <2>1 DEF Coherent, RingEnd
    <3> QED
      BY <1>1, <1>7, <3>1, EndsSucc
  <2>2. CASE copied = 3
    <3>1. ring[Len(ring)].at = 3 /\ ring[Len(ring)].of \in Answers /\ Piece[1].at = 4
      BY <1>6, <2>2 DEF Coherent, RingEnd
    <3>2. FrameLen(ring[Len(ring)].of) = 5
      BY <3>1, AnswerFacts
    <3>3. ring[Len(ring)].at < FrameLen(ring[Len(ring)].of)
          /\ Piece[1].at = ring[Len(ring)].at + 1
      BY <3>1, <3>2
    <3>4. Piece[1].of \in Answers
      BY <1>1, <1>6
    <3> QED
      BY <3>1, <3>3, <3>4, Zenon DEF Succ
  <2> QED
    BY <1>1, <2>1, <2>2
<1>8. /\ Chain(ring') /\ Len(ring') > 0 /\ ring'[Len(ring')] = Piece[n]
  BY <1>1, <1>3, <1>5, <1>7, ConcatChain DEF Coherent
<1>9. RingEnd'
  <2>1. CASE copied' = 3
    BY <1>1, <1>6, <1>8, <2>1 DEF RingEnd
  <2>2. CASE copied' = 5
    BY <1>1, <1>2, <1>6, <1>8, <2>2 DEF RingEnd, Ends
  <2> QED
    BY <1>1, <2>1, <2>2
<1> QED
  BY <1>1, <1>8, <1>9 DEF Coherent

(* The first four bytes of a run that begins with a frame.                  *)
LEMMA FrameHead ==
  ASSUME NEW s \in Seq(StreamBytes), Chain(s), Len(s) > 0, s[1].at = 1
  PROVE  /\ s[1].of \in Frames
         /\ Len(s) >= 2 => s[2].at = 2 /\ s[2].of \in Frames
         /\ Len(s) >= 3 => s[3].at = 3 /\ s[3].of \in Frames
         /\ Len(s) >= 4 => s[4].at = 4 /\ s[4].of \in Frames
<1>1. Len(s) \in Nat
  BY LenProperties
<1>2. ASSUME NEW i \in 1..Len(s)
      PROVE  s[i].of \in Frames /\ FrameLen(s[i].of) \in 5..12
  <2>1. s[i] \in StreamBytes
    BY <1>1, ElementOfSeq
  <2> QED
    BY <2>1, FrameFacts DEF StreamBytes
<1>3. ASSUME NEW i \in 1..4, i + 1 <= Len(s), s[i].at = i
      PROVE  s[i + 1].at = i + 1
  <2>1. i \in 1..(Len(s) - 1) /\ i \in 1..Len(s)
    BY <1>1, <1>3
  <2>2. s[i].at < FrameLen(s[i].of)
    <3>1. FrameLen(s[i].of) \in 5..12
      BY <1>2, <2>1, Zenon
    <3>2. \A d \in 5..12 : i < d
      OBVIOUS
    <3>3. i < FrameLen(s[i].of)
      BY <3>1, <3>2, Zenon
    <3> QED
      BY <1>3, <3>3, Zenon
  <2>3. Succ(s[i], s[i + 1])
    BY <2>1 DEF Chain
  <2> QED
    BY <1>3, <2>2, <2>3 DEF Succ
<1>4. Len(s) >= 2 => s[2].at = 2
  BY <1>1, <1>3
<1>5. Len(s) >= 3 => s[3].at = 3
  BY <1>1, <1>3, <1>4
<1>6. Len(s) >= 4 => s[4].at = 4
  BY <1>1, <1>3, <1>5
<1>7. /\ 1 \in 1..Len(s) /\ (Len(s) >= 2 => 2 \in 1..Len(s))
      /\ (Len(s) >= 3 => 3 \in 1..Len(s)) /\ (Len(s) >= 4 => 4 \in 1..Len(s))
  BY <1>1
<1> QED
  BY <1>2, <1>4, <1>5, <1>6, <1>7, Zenon

(* A run that begins with a frame and is cut by nothing but its end is not  *)
(* shorter than the frame's head.                                           *)
LEMMA OpensRun ==
  ASSUME NEW s \in Seq(StreamBytes), Chain(s), Len(s) > 0, Len(s) < 4 => Ends(s)
  PROVE  Opens(s)
<1>1. Len(s) \in Nat
  BY LenProperties
<1> SUFFICES ASSUME s[1].at = 1, Len(s) < 4 PROVE FALSE
  BY <1>1 DEF Opens
<1>2. Len(s) = 1 \/ Len(s) = 2 \/ Len(s) = 3
  <2>1. \A n \in Nat : n > 0 /\ n < 4 => n = 1 \/ n = 2 \/ n = 3
    OBVIOUS
  <2> QED
    BY <1>1, <2>1, Zenon
<1>3. /\ s[1].of \in Frames
      /\ Len(s) >= 2 => s[2].at = 2 /\ s[2].of \in Frames
      /\ Len(s) >= 3 => s[3].at = 3 /\ s[3].of \in Frames
  BY FrameHead, Zenon
<1>4. s[Len(s)].of \in Frames /\ s[Len(s)].at \in 1..3
  <2>1. CASE Len(s) = 1
    BY <1>3, <2>1
  <2>2. CASE Len(s) = 2
    BY <1>3, <2>2
  <2>3. CASE Len(s) = 3
    BY <1>3, <2>3
  <2> QED
    BY <1>2, <2>1, <2>2, <2>3
<1>5. s[Len(s)].at = FrameLen(s[Len(s)].of)
  <2>1. Len(s) < 4
    BY <1>2
  <2> QED
    BY <2>1, Zenon DEF Ends
<1>6. FrameLen(s[Len(s)].of) \in 5..12
  BY <1>4, FrameFacts
<1> QED
  BY <1>4, <1>5, <1>6

LEMMA CoherentTurn ==
  ASSUME Types, Coherent, Turn
  PROVE  Coherent'
<1>1. /\ ring' = SubSeq(Queued, Len(Chunk) + 1, Len(Queued))
      /\ air' = IF Sent THEN Append(air, Chunk) ELSE air
  BY TurnParts, Zenon
<1>2. StreamOK /\ air \in Seq(Notifications) /\ Chain(Queued) /\ Ends(Queued)
  <2>1. StreamOK /\ air \in Seq(Notifications)
    BY DEF Types, SwitchOK, LinkOK
  <2>2. copied = 0 \/ copied = 5
    <3>1. copied = Len(InSlot)
      BY TurnParts, Zenon
    <3> QED
      BY <2>1, <3>1, InSlotFacts
  <2>3. Chain(ring) /\ Ends(ring)
    BY <2>2 DEF Coherent, RingEnd
  <2> QED
    BY <2>1, <2>3, QueuedChain
<1>3. /\ Queued \in Seq(StreamBytes) /\ Chunk \in Seq(StreamBytes)
      /\ Len(Chunk) \in 0..Mtu /\ Len(Chunk) <= Len(Queued)
      /\ Len(Queued) \in Nat /\ Len(Chunk) \in Nat
      /\ Len(Chunk) \in {0, Mtu, Len(Queued)}
      /\ \A i \in 1..Len(Chunk) : Chunk[i] = Queued[i]
      /\ Chunk = <<>> <=> Len(Chunk) = 0
  BY <1>2, QueuedFacts, ChunkFacts, MtuType
<1>4. /\ ring' \in Seq(StreamBytes) /\ Len(ring') = Len(Queued) - Len(Chunk)
      /\ \A i \in 1..Len(ring') : ring'[i] = Queued[Len(Chunk) + i]
  BY <1>1, <1>2, RestFacts
<1>5. Chain(ring') /\ Ends(ring')
  <2>1. Len(Chunk) + Len(ring') = Len(Queued) /\ Len(Chunk) + Len(ring') <= Len(Queued)
    BY <1>3, <1>4
  <2>2. \A s, t \in Seq(StreamBytes), k \in Nat :
          k + Len(t) <= Len(s) /\ (\A i \in 1..Len(t) : t[i] = s[k + i]) /\ Chain(s)
            => Chain(t) /\ (k + Len(t) = Len(s) /\ Ends(s) => Ends(t))
    BY SliceChain
  <2>3. Queued \in Seq(StreamBytes) /\ ring' \in Seq(StreamBytes) /\ Len(Chunk) \in Nat
    BY <1>3, <1>4
  <2>4. \A i \in 1..Len(ring') : ring'[i] = Queued[Len(Chunk) + i]
    BY <1>4
  <2> QED
    BY <1>2, <2>1, <2>2, <2>3, <2>4, Zenon
<1>6. Chain(Chunk) /\ (Len(Chunk) = Len(Queued) /\ Ends(Queued) => Ends(Chunk))
  <2>1. 0 \in Nat /\ 0 + Len(Chunk) <= Len(Queued)
        /\ (Len(Chunk) = Len(Queued) => 0 + Len(Chunk) = Len(Queued))
        /\ \A i \in 1..Len(Chunk) : Chunk[i] = Queued[0 + i]
    BY <1>3
  <2>2. Queued \in Seq(StreamBytes) /\ Chunk \in Seq(StreamBytes)
    BY <1>3
  <2> QED
    BY <1>2, <2>1, <2>2, SliceChain, Zenon
<1>7. ASSUME Chunk # <<>> PROVE Opens(Chunk)
  <2>1. Len(Chunk) # 0 /\ Len(Chunk) \in Nat /\ Mtu >= 4 /\ Mtu \in Nat
    BY <1>3, <1>7, MtuType, Zenon
  <2>2. Len(Chunk) = Mtu \/ Len(Chunk) = Len(Queued)
    BY <1>3, <2>1
  <2>3. Len(Chunk) > 0 /\ (Len(Chunk) < 4 => Len(Chunk) = Len(Queued))
    BY <2>1, <2>2
  <2>4. Chunk \in Seq(StreamBytes)
    BY <1>3
  <2> QED
    BY <1>2, <1>6, <2>3, <2>4, OpensRun, Zenon
<1>8. \A i \in 1..Len(air') : Chain(air'[i]) /\ Opens(air'[i])
  <2>1. CASE Sent
    <3>1. Chunk \in Notifications /\ Chunk # <<>>
      BY <1>3, <2>1 DEF Sent, Notifications
    <3>2. /\ Len(air) \in Nat /\ Len(air') = Len(air) + 1
          /\ \A i \in 1..Len(air) : air'[i] = air[i]
          /\ air'[Len(air')] = Chunk
      BY <1>1, <1>2, <2>1, <3>1, AirAppended
    <3>3. \A i \in 1..Len(air') : i \in 1..Len(air) \/ i = Len(air')
      BY <3>2
    <3> QED
      BY <1>6, <1>7, <3>1, <3>2, <3>3 DEF Coherent
  <2>2. CASE ~Sent
    BY <1>1, <2>2 DEF Coherent
  <2> QED
    BY <2>1, <2>2
<1>9. copied' = 0
  BY TurnParts, Zenon
<1> QED
  BY <1>5, <1>8, <1>9 DEF Coherent, RingEnd

LEMMA CoherentInit == Init => Coherent
<1> SUFFICES ASSUME Init PROVE Coherent
  OBVIOUS
<1>1. ring = <<>> /\ air = <<>> /\ copied = 0
  BY DEF Init
<1> QED
  BY <1>1, EmptyChain DEF Coherent, RingEnd

LEMMA CoherentStep ==
  ASSUME Types, Coherent, Next
  PROVE  Coherent'
<1>1. CASE Handle
  <2>1. UNCHANGED <<copied, ring, air>>
    BY <1>1 DEF Handle, switch
  <2> QED
    BY <2>1 DEF Coherent, RingEnd
<1>2. CASE Other
  <2>1. ring' = ring /\ copied' = copied /\ Shrinks
    BY <1>2, OtherFrames, ShrinksOther
  <2> QED
    BY <2>1 DEF Coherent, RingEnd, Shrinks
<1> QED
  BY <1>1, <1>2, CoherentCopy, CoherentTurn, NextCases, Zenon

-----------------------------------------------------------------------------
(* Runs of bytes, and notifications, none of which is of a frame in F.      *)

Free(n, F) == \A i \in 1..Len(n) : n[i].of \notin F
AllFree(a, F) == \A i \in 1..Len(a) : Free(a[i], F)

LEMMA ConcatFree ==
  ASSUME NEW s \in Seq(StreamBytes), NEW t \in Seq(StreamBytes), NEW F,
         Free(s, F), Free(t, F)
  PROVE  Free(s \o t, F)
<1>1. /\ Len(s) \in Nat /\ Len(t) \in Nat /\ Len(s \o t) = Len(s) + Len(t)
      /\ \A i \in 1..(Len(s) + Len(t)) :
           (s \o t)[i] = IF i <= Len(s) THEN s[i] ELSE t[i - Len(s)]
  BY ConcatProperties, LenProperties
<1>2. ASSUME NEW i \in 1..(Len(s) + Len(t)) PROVE (s \o t)[i].of \notin F
  <2>1. CASE i <= Len(s)
    BY <1>1, <2>1 DEF Free
  <2>2. CASE i > Len(s)
    <3>1. i - Len(s) \in 1..Len(t) /\ (s \o t)[i] = t[i - Len(s)]
      BY <1>1, <2>2
    <3> QED
      BY <3>1 DEF Free
  <2> QED
    BY <1>1, <2>1, <2>2
<1> QED
  BY <1>1, <1>2 DEF Free

LEMMA QueuedFree ==
  ASSUME StreamOK, NEW F, Free(ring, F), report # <<>> => report[1] \notin F
  PROVE  Free(Queued, F)
<1> DEFINE b == SlotBytes(report)
<1>1. report \in Slots \cup ReportSlots /\ ring \in Seq(StreamBytes)
      /\ b \in Seq(StreamBytes)
  BY QueuedFacts DEF StreamOK
<1>2. Free(b, F)
  <2>1. CASE report = <<>>
    <3>1. Len(b) = 0
      BY <1>1, <2>1, SlotBytesFacts, EmptySeq
    <3> QED
      BY <3>1 DEF Free
  <2>2. CASE report # <<>>
    <3>1. ASSUME NEW i \in 1..Len(b) PROVE b[i].of = report[1]
      <4>1. b[i] = [of |-> report[1], at |-> i]
        BY <1>1, <2>2, SlotBytesFacts
      <4> QED
        BY <4>1
    <3> QED
      BY <2>2, <3>1 DEF Free
  <2> QED
    BY <2>1, <2>2
<1> HIDE DEF b
<1>3. Free(ring \o b, F)
  BY <1>1, <1>2, ConcatFree
<1> QED
  BY <1>3 DEF Queued, b

LEMMA CopyFree ==
  ASSUME Types, Copy, NEW F, Free(ring, F), slot[1] \notin F
  PROVE  Free(ring', F)
<1>1. /\ ring \in Seq(StreamBytes) /\ Piece \in Seq(StreamBytes)
      /\ ring' = ring \o Piece
      /\ \A i \in 1..Len(Piece) : Piece[i] = [of |-> slot[1], at |-> copied + i]
  BY CopyFacts DEF Types, SwitchOK, StreamOK
<1>2. ASSUME NEW i \in 1..Len(Piece) PROVE Piece[i].of = slot[1]
  <2>1. Piece[i] = [of |-> slot[1], at |-> copied + i]
    BY <1>1, Zenon
  <2> QED
    BY <2>1
<1>3. Free(Piece, F)
  BY <1>2 DEF Free
<1> QED
  BY <1>1, <1>3, ConcatFree

LEMMA TurnSplit ==
  ASSUME StreamOK, Turn
  PROVE  /\ \A i \in 1..Len(Chunk) : i \in 1..Len(Queued) /\ Chunk[i] = Queued[i]
         /\ \A i \in 1..Len(ring') : /\ Len(Chunk) + i \in 1..Len(Queued)
                                     /\ ring'[i] = Queued[Len(Chunk) + i]
         /\ \A i \in 1..Len(Queued) :
              \/ i \in 1..Len(Chunk)
              \/ i - Len(Chunk) \in 1..Len(ring')
         /\ Len(Chunk) \in Nat /\ Len(ring') \in Nat
         /\ Len(Queued) = Len(Chunk) + Len(ring')
         /\ Chunk \in Seq(StreamBytes) /\ ring' \in Seq(StreamBytes)
<1>1. ring' = SubSeq(Queued, Len(Chunk) + 1, Len(Queued))
  BY TurnParts, Zenon
<1>2. /\ Chunk \in Seq(StreamBytes)
      /\ Len(Chunk) \in Nat /\ Len(Chunk) <= Len(Queued) /\ Len(Queued) \in Nat
      /\ \A i \in 1..Len(Chunk) : Chunk[i] = Queued[i]
  BY ChunkFacts, MtuType
<1>3. /\ ring' \in Seq(StreamBytes) /\ Len(ring') = Len(Queued) - Len(Chunk)
      /\ \A i \in 1..Len(ring') : ring'[i] = Queued[Len(Chunk) + i]
  BY <1>1, RestFacts
<1> DEFINE c == Len(Chunk)
           q == Len(Queued)
           r == Len(ring')
<1>4. r \in Nat /\ c \in Nat /\ q = c + r
  BY <1>2, <1>3, LenProperties
<1> HIDE DEF c, q, r
<1>5. /\ \A i \in 1..c : i \in 1..q
      /\ \A i \in 1..r : c + i \in 1..q
      /\ \A i \in 1..q : i \in 1..c \/ i - c \in 1..r
  BY <1>4
<1> QED
  BY <1>2, <1>3, <1>4, <1>5, Zenon DEF c, q, r

LEMMA TurnAir ==
  ASSUME Types, Turn
  PROVE  \/ /\ Sent /\ notify
            /\ Len(air) \in Nat /\ Len(air') = Len(air) + 1
            /\ \A i \in 1..Len(air) : air'[i] = air[i]
            /\ air'[Len(air')] = Chunk
         \/ ~Sent /\ air' = air
<1>1. CASE Sent
  <2>1. air' = Append(air, Chunk) /\ StreamOK /\ air \in Seq(Notifications)
    BY <1>1, TurnParts DEF Types, SwitchOK, LinkOK
  <2>2. Chunk \in Notifications /\ notify
    BY <1>1, <2>1, ChunkFacts, MtuType DEF Sent, Notifications
  <2> QED
    BY <1>1, <2>1, <2>2, AirAppended
<1>2. CASE ~Sent
  BY <1>2, TurnParts
<1> QED
  BY <1>1, <1>2

LEMMA TurnFree ==
  ASSUME Types, Turn, NEW F, Free(Queued, F)
  PROVE  Free(Chunk, F) /\ Free(ring', F)
BY TurnSplit DEF Types, SwitchOK, Free

LEMMA TurnAllFree ==
  ASSUME Types, Turn, NEW F, AllFree(air, F), Sent => Free(Chunk, F)
  PROVE  AllFree(air', F)
<1>1. CASE Sent
  <2>1. /\ Len(air) \in Nat /\ Len(air') = Len(air) + 1
        /\ \A i \in 1..Len(air) : air'[i] = air[i]
        /\ air'[Len(air')] = Chunk
    BY <1>1, TurnAir
  <2>2. \A i \in 1..Len(air') : i \in 1..Len(air) \/ i = Len(air')
    BY <2>1
  <2> QED
    BY <1>1, <2>1, <2>2 DEF AllFree
<1>2. CASE ~Sent
  BY <1>2, TurnAir
<1> QED
  BY <1>1, <1>2

LEMMA ShrinksFree ==
  ASSUME Shrinks, NEW F, AllFree(air, F)
  PROVE  AllFree(air', F)
BY DEF Shrinks, AllFree

-----------------------------------------------------------------------------
(* A refusal is under way only if one has been given since the application  *)
(* started: the link that carried an older one has been closed since.       *)

Trusted ==
  ~refused =>
    /\ AllFree(air, {Refusal})
    /\ Linked => slot # <<Refusal>> /\ Free(ring, {Refusal})

LEMMA TrustedInit == Init => Trusted
<1> SUFFICES ASSUME Init PROVE Trusted
  OBVIOUS
<1>1. air = <<>> /\ ~Linked
  BY DEF Init, Linked
<1> QED
  BY <1>1, EmptySeq DEF Trusted, AllFree

LEMMA TrustedHandle ==
  ASSUME Types, Trusted, Handle
  PROVE  Trusted'
<1>1. UNCHANGED <<ring, air, conn>> /\ (refused => refused')
  BY DEF Handle, switch, service, history
<1>2. slot' = slot \/ refused' \/ slot' # <<Refusal>>
  BY DEF Handle, switch, Refusal
<1> QED
  BY <1>1, <1>2 DEF Trusted, Linked

LEMMA TrustedCopy ==
  ASSUME Types, Trusted, Copy
  PROVE  Trusted'
<1>1. UNCHANGED <<slot, air, conn, refused>>
  BY DEF Copy, service, history
<1>2. slot # <<Refusal>> => slot[1] \notin {Refusal}
  <2>1. slot[1] \in Answers /\ slot = <<slot[1]>>
    <3>1. slot # <<>> /\ slot \in Slots
      BY CopyFacts DEF Types, SwitchOK, StreamOK
    <3> QED
      BY <3>1, SlotFacts
  <2> QED
    BY <2>1
<1>3. Free(ring, {Refusal}) /\ slot # <<Refusal>> => Free(ring', {Refusal})
  BY <1>2, CopyFree
<1> QED
  BY <1>1, <1>3 DEF Trusted, Linked

LEMMA TrustedTurn ==
  ASSUME Types, Trusted, Turn
  PROVE  Trusted'
<1>1. refused' = refused /\ conn' = conn /\ slot' = <<>>
  BY TurnParts DEF service
<1>2. StreamOK /\ (notify => Linked)
  BY DEF Types, SwitchOK, LinkOK
<1> SUFFICES ASSUME ~refused PROVE
      /\ AllFree(air', {Refusal})
      /\ Linked => Free(ring', {Refusal})
  BY <1>1, EmptySeq DEF Trusted, Linked
<1>3. ASSUME Linked PROVE Free(Queued, {Refusal})
  <2>1. Free(ring, {Refusal})
    BY <1>3 DEF Trusted
  <2>3. report # <<>> => report[1] # Refusal
    <3>1. Refusal \in Answers
      BY DEF Refusal, Answers, LOGON
    <3> QED
      BY <1>2, <3>1, SlotFacts, ReportFacts, AnswerFacts DEF StreamOK
  <2> QED
    BY <1>2, <2>1, <2>3, QueuedFree
<1>4. Sent => Linked
  BY <1>2 DEF Sent
<1>5. AllFree(air, {Refusal})
  BY DEF Trusted
<1> QED
  BY <1>3, <1>4, <1>5, TurnFree, TurnAllFree

LEMMA TrustedOther ==
  ASSUME Types, Trusted, Other
  PROVE  Trusted'
<1>1. /\ UNCHANGED <<slot, report, ring>>
      /\ Linked' => Linked \/ (slot = <<>> /\ ring = <<>>)
      /\ UNCHANGED refused \/ app = "splash"
      /\ Shrinks
  BY OtherFrames, ShrinksOther, Zenon
<1>2. Free(<<>>, {Refusal}) /\ <<>> # <<Refusal>>
  BY EmptySeq DEF Free
<1>3. CASE UNCHANGED refused
  <2>1. ~refused => AllFree(air', {Refusal})
    BY <1>1, ShrinksFree DEF Trusted
  <2> QED
    BY <1>1, <1>2, <1>3, <2>1 DEF Trusted
<1>4. CASE app = "splash"
  <2>1. air = <<>> /\ ~Linked
    BY <1>4 DEF Types, LinkOK, Linked
  <2>2. AllFree(air, {Refusal})
    BY <2>1, EmptySeq DEF AllFree
  <2>3. AllFree(air', {Refusal})
    BY <1>1, <2>2, ShrinksFree
  <2> QED
    BY <1>1, <1>2, <2>1, <2>3 DEF Trusted
<1> QED
  BY <1>1, <1>3, <1>4

LEMMA ReceivedFacts ==
  ASSUME Types, Taken
  PROVE  /\ Received = air[1] /\ Received \in Seq(StreamBytes)
         /\ Len(Received) \in Nat /\ Len(Received) > 0
         /\ Len(air) \in Nat /\ 1 \in 1..Len(air)
<1>1. air # <<>> /\ air \in Seq(Notifications)
  BY DEF Taken, Types, LinkOK
<1>2. Head(air) = air[1] /\ Len(air) \in Nat /\ Len(air) > 0
  BY <1>1, HeadTailProperties, EmptySeq, LenProperties
<1>3. air[1] \in Notifications
  BY <1>1, <1>2, ElementOfSeq
<1>4. Len(air[1]) \in Nat /\ Len(air[1]) > 0
  BY <1>3, MtuType DEF Notifications
<1> QED
  BY <1>2, <1>3, <1>4 DEF Received, Notifications

(* What reads as a refused login, from a frame's first byte on, is one, or   *)
(* its opcode and its status code are of two frames.                         *)
LEMMA RefusalRead ==
  ASSUME Types, Coherent, Taken, LOGON \in Opcodes, Codes # {Success},
         Received[1].at = 1, Received[2].of = Received[4].of
  PROVE  /\ Received[2].of = Refusal
         /\ Received = air[1] /\ 1 \in 1..Len(air) /\ 2 \in 1..Len(Received)
<1> DEFINE f == Received[2].of
<1>1. /\ Received = air[1] /\ 1 \in 1..Len(air)
      /\ Received \in Seq(StreamBytes) /\ Len(Received) \in Nat /\ Len(Received) > 0
  BY ReceivedFacts
<1>2. Chain(Received) /\ Opens(Received)
  BY <1>1, Zenon DEF Coherent
<1>3. Len(Received) >= 4
  BY <1>2 DEF Opens
<1>4. f \in Frames /\ Received[2].at = 2 /\ Received[4].at = 4
  <2>1. Len(Received) >= 2
    BY <1>1, <1>3
  <2> QED
    BY <1>1, <1>2, <1>3, <2>1, FrameHead, Zenon
<1>5. Opcodes = {f.op}
  <2>1. Opcodes = Reads(Received[2])
    BY <1>1, <1>3 DEF Opcodes
  <2> QED
    BY <1>4, <2>1 DEF Reads
<1>6. f.op = LOGON
  BY <1>5
<1>7. f \in Answers /\ ~IsReport(f)
  BY <1>4, <1>6, FrameFacts, ReportFacts DEF LOGON, STATUS
<1>8. Codes = {f.data[1]}
  <2>1. Codes = Reads(Received[4])
    BY <1>1, <1>3 DEF Codes
  <2>2. Received[4].of = f /\ Received[4].at = 4
    BY <1>4
  <2> QED
    BY <1>7, <2>1, <2>2 DEF Reads
<1>9. f.data[1] # Success
  BY <1>8
<1>10. 2 \in 1..Len(Received)
  BY <1>1, <1>3
<1> QED
  BY <1>1, <1>6, <1>7, <1>9, <1>10, AnswerFacts

LEMMA OnlyLogonForgets ==
  ASSUME Types, Next, stored # NoPin, stored' = NoPin
  PROVE  ReceiveLogon /\ Codes # {Success} /\ Taken
<1>1. NoPin \notin Pins \cup {Blank} /\ text \in Pins \cup {Blank}
  BY PhoneAssumption DEF Types, UserOK
<1>2. ASSUME NEW s, NEW h, Leave(s, h) PROVE s = NoPin
  BY <1>2, LeaveParts, Zenon
<1> SUFFICES ASSUME ~Receive PROVE FALSE
  <2>1. CASE Receive
    <3>1. ~Stays
      BY DEF Stays
    <3> QED
      BY <1>1, <1>2, <2>1, <3>1, ReceiveCases DEF Dies
  <2> QED
    BY <2>1
<1>3. CASE Handle \/ Copy \/ Turn
  BY <1>3, TurnParts DEF Handle, Copy, user
<1>4. CASE SendGuard \/ Splash \/ \E clean \in BOOLEAN, k \in 0..Len(air) : Drop(clean, k)
  BY <1>4 DEF SendGuard, Splash, Drop, user
<1>5. CASE Connecting
  BY <1>2, <1>5, LogonCases
     DEF Connecting, Reconnect, Bind, LinkUp, Discover, LogonEvent, Dies, user
<1>6. CASE User
  <2>1. ~Crash
    BY <1>2 DEF Crash, Dies
  <2> QED
    BY <1>1, <1>6, <2>1 DEF User, Press, Tap, Pair, Type, OpenPass, PinReset,
       OpenHome, Save, InMain, user
<1> QED
  BY <1>3, <1>4, <1>5, <1>6 DEF Next

FramesInv == Types /\ Coherent /\ Trusted

(* The bytes on their way keep their order, and no refusal is among them    *)
(* unless one has been given.                                               *)
LEMMA FramesInvariant == Spec => []FramesInv
<1>1. Init => Coherent /\ Trusted
  BY CoherentInit, TrustedInit
<1>2. Types /\ Coherent /\ Trusted /\ [Next]_vars => Coherent' /\ Trusted'
  <2>1. ASSUME Types, Coherent, Trusted, Next PROVE Coherent' /\ Trusted'
    BY <2>1, CoherentStep, TrustedHandle, TrustedCopy, TrustedTurn, TrustedOther,
       NextCases, Zenon
  <2>2. ASSUME Coherent, Trusted, UNCHANGED vars PROVE Coherent' /\ Trusted'
    <3>1. UNCHANGED <<ring, copied, air, slot, refused, conn>>
      BY <2>2 DEF vars, switch, service, history
    <3> QED
      BY <2>2, <3>1 DEF Coherent, RingEnd, Trusted, Linked
  <2> QED
    BY <2>1, <2>2
<1> QED
  BY <1>1, <1>2, TypesInvariant, PTL DEF Spec, FramesInv

(* The phone forgets its switch only if that has refused a login since the  *)
(* activity started, or if the notification begins in the middle of a frame *)
(* or has its opcode and its status code from two responses, one written    *)
(* over the other (MainPresenter.java:261-265, ble_nus_app.c:446-454): a    *)
(* refusal is the one frame whose opcode and code read as a refused login,  *)
(* and none of its bytes is under way before one has been given.            *)
THEOREM ForgetsOnlyIfRefused == Spec => ForgetsOnlyIfRefusedOrGarbled
<1>1. FramesInv /\ [Next]_vars
        => [(stored # NoPin /\ stored' = NoPin)
              => \/ refused
                 \/ Received[1].at # 1
                 \/ Received[2].of # Received[4].of]_vars
  <2> SUFFICES ASSUME FramesInv, Next, stored # NoPin, stored' = NoPin, ~refused,
                      Received[1].at = 1, Received[2].of = Received[4].of
               PROVE  FALSE
    OBVIOUS
  <2>1. Types /\ Coherent /\ Trusted
    BY DEF FramesInv
  <2>2. ReceiveLogon /\ Codes # {Success} /\ Taken
    BY <2>1, OnlyLogonForgets
  <2>3. LOGON \in Opcodes
    BY <2>2 DEF ReceiveLogon
  <2>4. /\ Received[2].of = Refusal
        /\ Received = air[1] /\ 1 \in 1..Len(air) /\ 2 \in 1..Len(Received)
    BY <2>1, <2>2, <2>3, RefusalRead
  <2> QED
    BY <2>1, <2>4 DEF Trusted, AllFree, Free
<1> QED
  BY <1>1, FramesInvariant, PTL DEF Spec, ForgetsOnlyIfRefusedOrGarbled

-----------------------------------------------------------------------------
(* Acknowledgements of a PIN change.  Those under way stand for PINs that   *)
(* the activity has sent: an older activity's went with its link.  As long  *)
(* as none has been lost, one is under way while the PINs differ.           *)

PinAcks == {PinAck(p) : p \in Pins}
Unasked(S) == {PinAck(p) : p \in Pins \ S}

LEMMA PinAckFacts ==
  /\ \A p, q : PinAck(p) = PinAck(q) => p = q
  /\ \A p, op, code : PinAck(p) # Response(op, code)
  /\ \A p : PinAck(p) \notin Reports
  /\ \A f \in Frames : IsPinAck(f) <=> f \in PinAcks
<1>1. \A p : PinAck(p).data = <<Success, p>>
  BY DEF PinAck
<1>2. \A op, code : Response(op, code).data = <<code>>
  BY DEF Response
<1>3. \A x, y, z : <<x, y>> # <<z>>
  <2>1. \A x, y, z : Len(<<x, y>>) = 2 /\ Len(<<z>>) = 1
    OBVIOUS
  <2> QED
    BY <2>1
<1>4. \A p : PinAck(p).data[2] = p
  <2>1. \A x, y : <<x, y>>[2] = y
    OBVIOUS
  <2> QED
    BY <1>1, <2>1, Zenon
<1>5. ASSUME NEW p, NEW q, PinAck(p) = PinAck(q) PROVE p = q
  <2>1. PinAck(p).data[2] = PinAck(q).data[2]
    BY <1>5
  <2>2. PinAck(p).data[2] = p /\ PinAck(q).data[2] = q
    BY <1>4
  <2> QED
    BY <2>1, <2>2
<1>6. \A p, op, code : PinAck(p) # Response(op, code)
  BY <1>1, <1>2, <1>3, Zenon
<1>7. \A p : PinAck(p) \notin Reports
  <2>1. \A p : PinAck(p).op = 7
    BY DEF PinAck, PIN
  <2>2. \A f \in Reports : f.op = 9
    BY ReportFacts DEF STATUS
  <2> QED
    BY <2>1, <2>2
<1>8. \A f \in Frames : IsPinAck(f) <=> f \in PinAcks
  <2>1. \A f \in Frames : IsPinAck(f) <=> \E p \in Pins : f = PinAck(p)
    BY FrameFacts, Zenon
  <2> QED
    BY <2>1, Zenon DEF PinAcks
<1> QED
  BY <1>5, <1>6, <1>7, <1>8

LEMMA FreeSubset ==
  ASSUME NEW F, NEW G, G \subseteq F
  PROVE  /\ \A n : Free(n, F) => Free(n, G)
         /\ \A a : AllFree(a, F) => AllFree(a, G)
<1>1. \A n : Free(n, F) => Free(n, G)
  BY DEF Free
<1> QED
  BY <1>1 DEF AllFree

LEMMA FreeMeans ==
  ASSUME NEW n \in Seq(StreamBytes)
  PROVE  /\ HasPinAck(n) <=> ~Free(n, PinAcks)
         /\ HasReport(n) <=> ~Free(n, Reports)
<1>1. DOMAIN n = 1..Len(n) /\ \A i \in 1..Len(n) : n[i].of \in Frames
  <2>1. DOMAIN n = 1..Len(n) /\ \A i \in 1..Len(n) : n[i] \in StreamBytes
    BY LenProperties, ElementOfSeq
  <2> QED
    BY <2>1 DEF StreamBytes
<1>2. \A f \in Frames : (IsPinAck(f) <=> f \in PinAcks) /\ (IsReport(f) <=> f \in Reports)
  BY PinAckFacts, FrameFacts
<1> QED
  BY <1>1, <1>2, Zenon DEF HasPinAck, HasReport, Free

LEMMA AcksMeans ==
  ASSUME NEW a \in Seq(Notifications)
  PROVE  AcksIn(a) <=> ~AllFree(a, PinAcks)
<1>1. DOMAIN a = 1..Len(a) /\ \A i \in 1..Len(a) : a[i] \in Notifications
  BY LenProperties, ElementOfSeq
<1>2. \A n \in Notifications : HasPinAck(n) <=> ~Free(n, PinAcks)
  BY FreeMeans DEF Notifications
<1> QED
  BY <1>1, <1>2, Zenon DEF AcksIn, AllFree

AcksSaved ==
  /\ AllFree(air, Unasked(saved))
  /\ Linked => /\ Free(ring, Unasked(saved))
               /\ slot # <<>> => slot[1] \notin Unasked(saved)
  /\ up # <<>> /\ up[1].op = PIN => up[1].arg \in saved

\* None of an acknowledgement is to copy, in the stream or on the air.
NoAck ==
  /\ copied < Len(InSlot) => slot[1] \notin PinAcks
  /\ Free(ring, PinAcks)
  /\ AllFree(air, PinAcks)
AckComing == ~astray /\ stored # NoPin /\ stored # pin => ~NoAck

LEMMA AcksInit == Init => AcksSaved /\ AckComing
<1> SUFFICES ASSUME Init PROVE AcksSaved /\ AckComing
  OBVIOUS
<1>1. air = <<>> /\ ~Linked /\ up = <<>>
  BY DEF Init, Linked
<1>2. AllFree(air, Unasked(saved))
  BY <1>1, EmptySeq DEF AllFree
<1>3. astray \/ stored = NoPin \/ stored = pin
  BY DEF Init
<1> QED
  BY <1>1, <1>2, <1>3 DEF AcksSaved, AckComing

LEMMA ProcessSlot ==
  ASSUME NEW q, Process(q), slot' # slot
  PROVE  \/ pin' = q.arg /\ q.op = PIN /\ slot' = <<PinAck(pin')>>
         \/ pin' = pin /\ \E op, code : slot' = <<Response(op, code)>>
BY DEF Process, PIN, STATUS

LEMMA ProcessPin ==
  ASSUME NEW q, Process(q), pin' # pin
  PROVE  slot' = <<PinAck(pin')>> /\ q.op = PIN /\ pin' = q.arg
BY DEF Process, PIN, STATUS

LEMMA AcksHandle ==
  ASSUME Types, AcksSaved, AckComing, Handle
  PROVE  AcksSaved' /\ AckComing'
<1> DEFINE q == up[1]
<1>1. /\ UNCHANGED <<ring, air, conn, saved, stored>>
      /\ up # <<>> /\ up' = <<>>
  BY DEF Handle, switch, service, user
<1>2. CASE q.op = CCCD
  <2>1. UNCHANGED <<slot, copied, pin, astray>>
    BY <1>2 DEF Handle, switch, history
  <2> QED
    BY <1>1, <2>1 DEF AcksSaved, AckComing, NoAck, InSlot, Linked
<1>3. CASE q.op # CCCD
  <2>1. Process(q) /\ copied' = copied /\ Recall(FALSE, HandleUnheard)
    BY <1>3, HandleParts
  <2>0. StreamOK /\ StreamOK'
    <3>1. Types'
      BY HandleTypes
    <3> QED
      BY <3>1 DEF Types, SwitchOK
  <2>2. \A x : <<x>>[1] = x
    OBVIOUS
  <2>3. AcksSaved'
    <3>1. CASE slot' = slot
      BY <1>1, <3>1 DEF AcksSaved, Linked
    <3>2. CASE slot' # slot /\ \E op, code : slot' = <<Response(op, code)>>
      <4>1. slot'[1] \notin Unasked(saved)
        BY <2>2, <3>2, PinAckFacts DEF Unasked
      <4> QED
        BY <1>1, <4>1 DEF AcksSaved, Linked
    <3>3. CASE slot' # slot /\ q.op = PIN /\ slot' = <<PinAck(q.arg)>>
      <4>1. q.arg \in saved
        BY <1>1, <3>3 DEF AcksSaved
      <4>2. slot'[1] \notin Unasked(saved)
        BY <2>2, <3>3, <4>1, PinAckFacts DEF Unasked
      <4> QED
        BY <1>1, <4>2 DEF AcksSaved, Linked
    <3> QED
      BY <2>1, <3>1, <3>2, <3>3, ProcessSlot
  <2>4. AckComing'
    <3> SUFFICES ASSUME ~astray', stored' # NoPin, stored' # pin', NoAck' PROVE FALSE
      BY DEF AckComing
    <3>0. ~astray /\ ~HandleUnheard
      BY <2>1, Zenon DEF Recall
    <3>1. pin' = pin
      <4>1. ASSUME pin' # pin PROVE FALSE
        <5>1. slot' = <<PinAck(pin')>> /\ pin' = q.arg /\ q.op = PIN
          BY <2>1, <4>1, ProcessPin
        <5>2. slot'[1] = PinAck(pin') /\ slot' # <<>>
          BY <5>1
        <5>3. PinAck(pin') \in PinAcks
          <6>1. pin' \in Pins
            BY <1>1, <5>1, RequestFacts DEF Types, LinkOK
          <6> QED
            BY <6>1 DEF PinAcks
        <5>4. ~(slot # <<>> /\ copied = Len(InSlot))
          BY <3>0, <4>1 DEF HandleUnheard, Discarded
        <5>5. copied \in {0, 3}
          <6>1. CASE slot = <<>>
            BY <2>0, <6>1, InSlotFacts
          <6>2. CASE slot # <<>>
            BY <2>0, <5>4, <6>2, InSlotFacts
          <6> QED
            BY <6>1, <6>2
        <5>6. Len(InSlot') = 5
          <6>1. (slot # <<>> => Len(InSlot) = 5)'
            BY <2>0, InSlotFacts, PTL
          <6> QED
            BY <5>2, <6>1
        <5>7. copied' < Len(InSlot')
          BY <2>1, <5>5, <5>6
        <5> QED
          BY <5>2, <5>3, <5>7 DEF NoAck
      <4> QED
        BY <4>1
    <3>3. ~NoAck
      BY <1>1, <3>0, <3>1 DEF AckComing
    <3>4. copied < Len(InSlot) /\ slot[1] \in PinAcks
      BY <1>1, <3>3 DEF NoAck
    <3>5. slot' # slot
      <4>1. slot' = slot => InSlot' = InSlot
        BY DEF InSlot
      <4> QED
        BY <2>1, <3>4, <4>1 DEF NoAck
    <3>6. IsPinAck(slot[1])
      <4>1. slot # <<>>
        <5>1. slot = <<>> => Len(InSlot) = 0 /\ copied = 0
          BY <2>0, InSlotFacts
        <5> QED
          BY <3>4, <5>1
      <4>2. slot[1] \in Frames
        BY <2>0, <4>1, InSlotFacts DEF Frames
      <4> QED
        BY <3>4, <4>2, PinAckFacts
    <3> QED
      BY <3>0, <3>4, <3>5, <3>6 DEF HandleUnheard, Overwritten
  <2> QED
    BY <2>3, <2>4
<1> QED
  BY <1>2, <1>3

(* The frames that a turn queues, and where they go.                        *)
LEMMA QueuedBytes ==
  ASSUME StreamOK
  PROVE  /\ Len(ring) \in Nat /\ Len(Queued) \in Nat /\ Len(ring) <= Len(Queued)
         /\ \A i \in 1..Len(ring) : Queued[i] = ring[i]
         /\ \A i \in (Len(ring) + 1)..Len(Queued) :
              report # <<>> /\ Queued[i].of = report[1]
         /\ report # <<>> => Len(Queued) > 0 /\ Queued[Len(Queued)].of = report[1]
<1> DEFINE r == SlotBytes(report)
<1>1. /\ Len(ring) \in Nat /\ Len(r) \in Nat
      /\ Len(Queued) = Len(ring) + Len(r)
      /\ \A i \in 1..(Len(ring) + Len(r)) :
           Queued[i] = IF i <= Len(ring) THEN ring[i] ELSE r[i - Len(ring)]
  BY QueuedFacts, ConcatProperties, LenProperties DEF StreamOK, Queued
<1>2. /\ report = <<>> => Len(r) = 0
      /\ report # <<>> => Len(r) > 0
      /\ \A i \in 1..Len(r) : r[i].of = report[1]
  <2>0. report \in Slots \cup ReportSlots
    BY DEF StreamOK
  <2>1. CASE report = <<>>
    <3>1. Len(r) = 0
      BY <2>0, <2>1, SlotBytesFacts, EmptySeq
    <3> QED
      BY <2>1, <3>1
  <2>2. CASE report # <<>>
    <3>1. /\ Len(r) = FrameLen(report[1]) /\ FrameLen(report[1]) \in 5..12
          /\ \A i \in 1..FrameLen(report[1]) : r[i] = [of |-> report[1], at |-> i]
      BY <2>0, <2>2, SlotBytesFacts
    <3>2. ASSUME NEW i \in 1..Len(r) PROVE r[i].of = report[1]
      <4>1. r[i] = [of |-> report[1], at |-> i]
        BY <3>1, Zenon
      <4> QED
        BY <4>1
    <3>3. Len(r) > 0
      BY <3>1
    <3> QED
      BY <2>2, <3>2, <3>3
  <2> QED
    BY <2>1, <2>2
<1> HIDE DEF r
<1>3. \A i \in 1..Len(ring) : Queued[i] = ring[i]
  BY <1>1
<1>4. ASSUME NEW i \in (Len(ring) + 1)..Len(Queued)
      PROVE  report # <<>> /\ Queued[i].of = report[1]
  <2>1. i - Len(ring) \in 1..Len(r) /\ Queued[i] = r[i - Len(ring)]
    BY <1>1
  <2>2. Len(r) # 0
    BY <1>1, <2>1
  <2> QED
    BY <1>2, <2>1, <2>2
<1>5. Len(Queued) \in Nat /\ Len(ring) <= Len(Queued)
  BY <1>1
<1>6. ASSUME report # <<>> PROVE Len(Queued) > 0 /\ Queued[Len(Queued)].of = report[1]
  <2>1. Len(Queued) \in (Len(ring) + 1)..Len(Queued) /\ Len(Queued) > 0
    BY <1>1, <1>2, <1>6
  <2> QED
    BY <1>4, <2>1
<1> QED
  BY <1>1, <1>3, <1>4, <1>5, <1>6

LEMMA QueuedParts ==
  ASSUME StreamOK, NEW F, Free(Queued, F)
  PROVE  Free(ring, F) /\ (report # <<>> => report[1] \notin F)
<1>1. \A i \in 1..Len(ring) : i \in 1..Len(Queued)
  BY QueuedBytes
<1>2. report # <<>> => Len(Queued) \in 1..Len(Queued)
  BY QueuedBytes
<1> QED
  BY <1>1, <1>2, QueuedBytes DEF Free

(* What a step of the copy adds to the ring, it takes from the slot.        *)
LEMMA CopyBytes ==
  ASSUME Types, Copy
  PROVE  /\ Len(ring) \in Nat /\ Len(ring') \in Nat /\ Len(ring) < Len(ring')
         /\ \A i \in 1..Len(ring) : ring'[i] = ring[i]
         /\ \A i \in (Len(ring) + 1)..Len(ring') : ring'[i].of = slot[1]
         /\ slot # <<>> /\ slot[1] \in Answers
<1> DEFINE n == Len(Piece)
<1>1. /\ slot # <<>> /\ slot[1] \in Answers
      /\ (copied = 0 /\ copied' = 3) \/ (copied = 3 /\ copied' = 5)
      /\ ring' = ring \o Piece
      /\ Piece \in Seq(StreamBytes) /\ ring \in Seq(StreamBytes)
      /\ n = copied' - copied
      /\ \A i \in 1..n : Piece[i] = [of |-> slot[1], at |-> copied + i]
  BY CopyFacts DEF Types, SwitchOK, StreamOK
<1>2. n \in Nat /\ n > 0
  BY <1>1
<1>3. ASSUME NEW i \in 1..n PROVE Piece[i].of = slot[1]
  <2>1. Piece[i] = [of |-> slot[1], at |-> copied + i]
    BY <1>1, Zenon
  <2> QED
    BY <2>1
<1>4. /\ Len(ring) \in Nat
      /\ Len(ring') = Len(ring) + n
      /\ \A i \in 1..(Len(ring) + n) :
           ring'[i] = IF i <= Len(ring) THEN ring[i] ELSE Piece[i - Len(ring)]
  BY <1>1, ConcatProperties, LenProperties
<1> HIDE DEF n
<1>5. Len(ring') \in Nat /\ Len(ring) < Len(ring')
  BY <1>2, <1>4
<1>6. \A i \in 1..Len(ring) : ring'[i] = ring[i]
  BY <1>2, <1>4
<1>7. ASSUME NEW i \in (Len(ring) + 1)..Len(ring') PROVE ring'[i].of = slot[1]
  <2>1. i - Len(ring) \in 1..n /\ ring'[i] = Piece[i - Len(ring)]
    BY <1>2, <1>4
  <2> QED
    BY <1>3, <2>1
<1> QED
  BY <1>1, <1>4, <1>5, <1>6, <1>7

LEMMA AcksCopy ==
  ASSUME Types, AcksSaved, AckComing, Copy
  PROVE  AcksSaved' /\ AckComing'
<1>1. UNCHANGED <<slot, air, up, conn, saved, stored, pin, astray>>
  BY DEF Copy, user, service, history
<1>2. slot # <<>>
  BY CopyBytes
<1>3. AcksSaved'
  <2>1. Linked => Free(ring', Unasked(saved))
    BY <1>2, CopyFree DEF AcksSaved
  <2> QED
    BY <1>1, <2>1 DEF AcksSaved, Linked
<1>4. ASSUME Free(ring', PinAcks) PROVE Free(ring, PinAcks) /\ slot[1] \notin PinAcks
  <2>1. \A i \in 1..Len(ring) : i \in 1..Len(ring') /\ ring'[i] = ring[i]
    BY CopyBytes
  <2>2. Len(ring') \in 1..Len(ring') /\ Len(ring') \in (Len(ring) + 1)..Len(ring')
    BY CopyBytes
  <2>3. ring'[Len(ring')].of = slot[1]
    BY <2>2, CopyBytes
  <2> QED
    BY <1>4, <2>1, <2>2, <2>3 DEF Free
<1>5. NoAck' => NoAck
  BY <1>1, <1>4 DEF NoAck
<1> QED
  BY <1>1, <1>3, <1>5 DEF AckComing

LEMMA TurnGathers ==
  ASSUME StreamOK, Turn, NEW F, Free(Chunk, F), Free(ring', F)
  PROVE  Free(Queued, F)
<1>1. ASSUME NEW i \in 1..Len(Queued) PROVE Queued[i].of \notin F
  <2>1. CASE i \in 1..Len(Chunk)
    BY <2>1, TurnSplit DEF Free
  <2>2. CASE i - Len(Chunk) \in 1..Len(ring')
    <3>1. ring'[i - Len(Chunk)] = Queued[Len(Chunk) + (i - Len(Chunk))]
      BY <2>2, TurnSplit
    <3>2. Len(Chunk) + (i - Len(Chunk)) = i
      BY TurnSplit
    <3> QED
      BY <2>2, <3>1, <3>2 DEF Free
  <2> QED
    BY <2>1, <2>2, TurnSplit
<1> QED
  BY <1>1 DEF Free

LEMMA TurnAllFreeBack ==
  ASSUME Types, Turn, NEW F, AllFree(air', F)
  PROVE  AllFree(air, F) /\ (Sent => Free(Chunk, F))
<1>1. CASE Sent
  <2>1. /\ Len(air) \in Nat /\ Len(air') = Len(air) + 1
        /\ \A i \in 1..Len(air) : air'[i] = air[i]
        /\ air'[Len(air')] = Chunk
    BY <1>1, TurnAir
  <2>2. Len(air') \in 1..Len(air') /\ \A i \in 1..Len(air) : i \in 1..Len(air')
    BY <2>1
  <2> QED
    BY <2>1, <2>2 DEF AllFree
<1>2. CASE ~Sent
  BY <1>2, TurnAir
<1> QED
  BY <1>1, <1>2

LEMMA AcksTurn ==
  ASSUME Types, AcksSaved, AckComing, Turn
  PROVE  AcksSaved' /\ AckComing'
<1>0. ~(copied < Len(InSlot))
  <2>1. copied = Len(InSlot) /\ copied \in Nat
    BY TurnParts DEF Types, SwitchOK, StreamOK
  <2> QED
    BY <2>1
<1>1. /\ UNCHANGED <<conn, saved, stored, pin, up>> /\ slot' = <<>>
      /\ Recall(HasReport(Lost), HasPinAck(Lost))
  BY TurnParts DEF service, user
<1>2. StreamOK /\ (notify => Linked)
  BY DEF Types, SwitchOK, LinkOK
<1>3. AcksSaved'
  <2> DEFINE F == Unasked(saved)
  <2>1. ASSUME Linked PROVE Free(Queued, F)
    <3>1. report # <<>> => report[1] \notin F
      BY <1>2, SlotFacts, PinAckFacts DEF StreamOK, Unasked
    <3> QED
      BY <1>2, <2>1, <3>1, QueuedFree DEF AcksSaved
  <2>2. Sent => Linked
    BY <1>2 DEF Sent
  <2>3. AllFree(air, F)
    BY DEF AcksSaved
  <2> HIDE DEF F
  <2>4. AllFree(air', F) /\ (Linked => Free(ring', F))
    BY <2>1, <2>2, <2>3, TurnFree, TurnAllFree
  <2>5. F' = F
    BY <1>1 DEF F, Unasked
  <2> QED
    BY <1>1, <2>4, <2>5 DEF AcksSaved, Linked, F
<1>4. AckComing'
  <2> SUFFICES ASSUME ~astray', stored' # NoPin, stored' # pin', NoAck' PROVE FALSE
    BY DEF AckComing
  <2>1. ~astray /\ ~HasPinAck(Lost)
    BY <1>1, Zenon DEF Recall
  <2>2. ~NoAck
    BY <1>1, <2>1 DEF AckComing
  <2>3. AllFree(air, PinAcks) /\ (Sent => Free(Chunk, PinAcks)) /\ Free(ring', PinAcks)
    BY TurnAllFreeBack DEF NoAck
  <2>4. ~Sent => Free(Chunk, PinAcks)
    <3>1. Chunk \in Seq(StreamBytes)
      BY <1>2, ChunkFacts
    <3> QED
      BY <2>1, <3>1, FreeMeans DEF Lost
  <2>5. Free(Queued, PinAcks)
    BY <1>2, <2>3, <2>4, TurnGathers
  <2> QED
    BY <1>0, <1>2, <2>2, <2>3, <2>5, QueuedParts DEF NoAck
<1> QED
  BY <1>3, <1>4

(* What the other actions do to a request under way and to the history of   *)
(* sent PINs.                                                               *)
LEMMA OtherSaved ==
  ASSUME Types, Other
  PROVE  /\ saved \subseteq saved' \/ app = "splash"
         /\ \/ up' = up \/ up' = <<>>
            \/ up'[1].op # PIN
            \/ up'[1].arg \in saved'
<1>0. \A x : <<x>>[1] = x
  OBVIOUS
<1>1. ASSUME NEW s, NEW h, Leave(s, h)
      PROVE  saved' = saved /\ up' = <<>>
  BY <1>1, LeaveParts, Zenon
<1>2. ASSUME NEW op, NEW arg, op # PIN, Write(Request(op, arg))
      PROVE  up' = up \/ up'[1].op # PIN
  <2>1. Request(op, arg).op = op
    BY DEF Request
  <2> QED
    BY <1>0, <1>2, <2>1 DEF Write
<1>3. CASE Receive
  <2>1. CASE Stays
    <3>1. saved' = saved
      BY <2>1 DEF Stays
    <3>2. up' = up \/ Write(Request(STATUS, 1)) \/ \E s, h : Leave(s, h)
      BY <1>3 DEF Receive, ReceiveStatus, ReceiveLogon, ReceivePin, ReceiveOther,
         ReceiveStub, Dies
    <3> QED
      BY <1>1, <1>2, <3>1, <3>2 DEF STATUS, PIN
  <2> QED
    BY <1>1, <1>3, <2>1, ReceiveCases, Zenon DEF Dies
<1>4. CASE SendGuard \/ Splash \/ \E clean \in BOOLEAN, k \in 0..Len(air) : Drop(clean, k)
  BY <1>4 DEF SendGuard, Splash, Drop, LinkLost, user
<1>5. CASE Connecting
  <2>1. CASE Discover
    <3>1. saved' = saved /\ (up' = up \/ up' = <<[op |-> CCCD]>>)
      BY <2>1 DEF Discover, user
    <3>2. up' = <<[op |-> CCCD]>> => up'[1].op # PIN
      BY <1>0 DEF CCCD, PIN
    <3> QED
      BY <3>1, <3>2
  <2>2. CASE LogonTimer
    <3>1. CASE LogonEvent
      <4>1. saved' = saved /\ (up' = up \/ Write(Request(LOGON, 1)))
        BY <3>1 DEF LogonEvent, user
      <4> QED
        BY <1>2, <4>1 DEF LOGON, PIN
    <3>2. CASE Dies
      BY <1>1, <3>2 DEF Dies
    <3> QED
      BY <2>2, <3>1, <3>2, LogonCases
  <2>3. CASE Reconnect \/ Bind \/ LinkUp
    BY <2>3 DEF Reconnect, Bind, LinkUp, user
  <2> QED
    BY <1>5, <2>1, <2>2, <2>3 DEF Connecting
<1>6. CASE User
  <2>1. ASSUME NEW r \in Used, Tap(r)
        PROVE  saved' = saved /\ (up' = up \/ up'[1].op # PIN)
    <3>1. r + 1 # PIN
      BY PhoneAssumption DEF PIN
    <3>2. saved' = saved /\ Write(Request(r + 1, 1 - cache[r]))
      BY <2>1 DEF Tap
    <3> QED
      BY <1>2, <3>1, <3>2
  <2>2. CASE OpenHome
    <3>1. saved' = saved /\ Write(Request(STATUS, 1))
      BY <2>2 DEF OpenHome
    <3> QED
      BY <1>2, <3>1 DEF STATUS, PIN
  <2>3. CASE Save
    <3>1. CASE up' = up
      BY <2>3, <3>1 DEF Save
    <3>2. CASE up' # up
      <4>1. up' = <<Request(PIN, text)>> /\ saved' = saved \cup {text}
        BY <2>3, <3>2 DEF Save, Write
      <4>2. up'[1].arg = text
        BY <1>0, <4>1 DEF Request
      <4> QED
        BY <4>1, <4>2
    <3> QED
      BY <3>1, <3>2
  <2>4. CASE Crash
    BY <1>1, <2>4 DEF Crash, Dies
  <2>5. CASE PinReset \/ (\E r \in Used : Press(r))
             \/ (\E p \in Pins : Pair(p) \/ Type(p))
             \/ (\E p \in Pins \cup {Blank} : OpenPass(p))
    BY <2>5 DEF PinReset, Press, Pair, Type, OpenPass, user
  <2> QED
    BY <1>6, <2>1, <2>2, <2>3, <2>4, <2>5 DEF User
<1> QED
  BY <1>3, <1>4, <1>5, <1>6 DEF Other

LEMMA AcksSavedOther ==
  ASSUME Types, AcksSaved, Other
  PROVE  AcksSaved'
<1>1. /\ UNCHANGED <<slot, ring>>
      /\ Linked' => Linked \/ (slot = <<>> /\ ring = <<>>)
      /\ Shrinks
  BY OtherFrames, ShrinksOther, Zenon
<1>2. /\ saved \subseteq saved' \/ app = "splash"
      /\ \/ up' = up \/ up' = <<>>
         \/ up'[1].op # PIN
         \/ up'[1].arg \in saved'
  BY OtherSaved, Zenon
<1>3. app = "splash" => air = <<>> /\ ~Linked /\ up = <<>>
  BY DEF Types, LinkOK, Linked
<1>4. saved \subseteq saved' => Unasked(saved') \subseteq Unasked(saved)
  BY DEF Unasked
<1>5. AllFree(air, Unasked(saved'))
  <2>1. CASE app = "splash"
    BY <1>3, <2>1, EmptySeq DEF AllFree
  <2>2. CASE app # "splash"
    BY <1>2, <1>4, <2>2, FreeSubset DEF AcksSaved
  <2> QED
    BY <2>1, <2>2
<1>6. AllFree(air', Unasked(saved'))
  BY <1>1, <1>5, ShrinksFree
<1>7. ASSUME Linked'
      PROVE  /\ Free(ring', Unasked(saved'))
             /\ slot' # <<>> => slot'[1] \notin Unasked(saved')
  <2>1. CASE slot = <<>> /\ ring = <<>>
    BY <1>1, <2>1, EmptySeq DEF Free
  <2>2. CASE Linked
    <3>1. saved \subseteq saved'
      BY <1>2, <1>3, <2>2
    <3>2. Free(ring, Unasked(saved)) /\ (slot # <<>> => slot[1] \notin Unasked(saved))
      BY <2>2 DEF AcksSaved
    <3> QED
      BY <1>1, <1>4, <3>1, <3>2, FreeSubset
  <2> QED
    BY <1>1, <1>7, <2>1, <2>2
<1>8. up' # <<>> /\ up'[1].op = PIN => up'[1].arg \in saved'
  BY <1>2, <1>3 DEF AcksSaved
<1> QED
  BY <1>6, <1>7, <1>8, Zenon DEF AcksSaved

(* An acknowledgement goes only with a stored PIN that may lack it.         *)
LEMMA OtherPins ==
  ASSUME Types, AcksSaved, Other,
         ~astray', stored' # NoPin, stored' # pin'
  PROVE  /\ ~astray /\ stored' = stored /\ pin' = pin
         /\ AllFree(air', PinAcks) => AllFree(air, PinAcks)
<1>1. ASSUME NEW u, NEW h, Recall(u, h) PROVE ~astray /\ ~h
  BY <1>1, Zenon DEF Recall
<1>2. air \in Seq(Notifications)
  BY DEF Types, LinkOK
<1>3. ASSUME Leave(stored, AcksIn(air))
      PROVE  /\ ~astray /\ stored' = stored /\ pin' = pin
             /\ AllFree(air, PinAcks)
  <2>1. stored' = stored /\ UNCHANGED switch /\ Recall(TRUE, AcksIn(air))
    BY <1>3, LeaveParts, Zenon
  <2>2. ~astray /\ ~AcksIn(air)
    BY <1>1, <2>1, Zenon
  <2> QED
    BY <1>2, <2>1, <2>2, AcksMeans DEF switch
<1>4. CASE Receive
  <2>0. Taken
    BY <1>4, ReceiveCases, Zenon
  <2>1. CASE Stays
    <3>1. stored' = stored /\ pin' = pin /\ air' = Tail(air) /\ air # <<>>
      BY <2>0, <2>1 DEF Stays, Taken, switch
    <3>2. ~astray /\ ~HasPinAck(Received)
      BY <2>1, <3>1, Zenon DEF Stays
    <3>3. Free(air[1], PinAcks)
      BY <2>0, <3>2, ReceivedFacts, FreeMeans
    <3>4. /\ Len(air) \in Nat /\ Len(air') = Len(air) - 1
          /\ \A i \in 1..Len(air') : air'[i] = air[i + 1]
      BY <1>2, <3>1, AirTail
    <3>5. ASSUME AllFree(air', PinAcks), NEW i \in 1..Len(air)
          PROVE  Free(air[i], PinAcks)
      <4>1. CASE i = 1
        BY <3>3, <4>1
      <4>2. CASE i > 1
        <5>1. i - 1 \in 1..Len(air') /\ (i - 1) + 1 = i
          BY <3>4, <4>2
        <5>2. air'[i - 1] = air[i]
          BY <3>4, <5>1
        <5> QED
          BY <3>5, <5>1, <5>2 DEF AllFree
      <4> QED
        BY <3>4, <4>1, <4>2
    <3> QED
      BY <3>1, <3>2, <3>5 DEF AllFree
  <2>2. CASE Leave(NoPin, AcksIn(air))
    BY <2>2, LeaveParts, Zenon
  <2>3. CASE Leave(text, AcksIn(Tail(air)) \/ ~HeardRight)
    <3>1. stored' = text /\ UNCHANGED switch
          /\ Recall(TRUE, AcksIn(Tail(air)) \/ ~HeardRight)
      BY <2>3, LeaveParts, Zenon
    <3>2. HeardRight
      BY <1>1, <3>1, Zenon
    <3>3. Received[1].of = PinAck(pin) /\ saved = {text}
      BY <3>2 DEF HeardRight
    <3>4. PinAck(pin) \notin Unasked(saved)
      <4>1. Received = air[1] /\ 1 \in 1..Len(air) /\ 1 \in 1..Len(Received)
        BY <2>0, ReceivedFacts
      <4> QED
        BY <3>3, <4>1 DEF AcksSaved, AllFree, Free
    <3>5. pin \in Pins
      BY DEF Types, SwitchOK
    <3>6. pin = text
      BY <3>3, <3>4, <3>5 DEF Unasked
    <3> QED
      BY <3>1, <3>6 DEF switch
  <2>4. CASE Leave(stored, AcksIn(air))
    BY <1>3, <2>4, Zenon
  <2> QED
    BY <1>4, <2>1, <2>2, <2>3, <2>4, ReceiveCases, Zenon DEF Dies
<1>5. ASSUME NEW clean \in BOOLEAN, NEW k \in 0..Len(air), Drop(clean, k)
      PROVE  /\ ~astray /\ stored' = stored /\ pin' = pin
             /\ AllFree(air', PinAcks) => AllFree(air, PinAcks)
  <2>1. /\ UNCHANGED <<switch, user>> /\ air' = SubSeq(air, 1, k)
        /\ Recall(\E i \in (k + 1)..Len(air) : HasReport(air[i]),
                  \E i \in (k + 1)..Len(air) : HasPinAck(air[i]))
    BY <1>5 DEF Drop, LinkLost
  <2>2. ~astray /\ ~(\E i \in (k + 1)..Len(air) : HasPinAck(air[i]))
    BY <1>1, <2>1
  <2>3. /\ Len(air) \in Nat /\ Len(air') = k
        /\ \A i \in 1..Len(air') : air'[i] = air[i]
    BY <1>2, <2>1, AirCut
  <2>4. ASSUME AllFree(air', PinAcks), NEW i \in 1..Len(air)
        PROVE  Free(air[i], PinAcks)
    <3>1. CASE i <= k
      BY <2>3, <2>4, <3>1 DEF AllFree
    <3>2. CASE i > k
      <4>1. i \in (k + 1)..Len(air) /\ air[i] \in Seq(StreamBytes)
        BY <1>2, <2>3, <3>2, ElementOfSeq DEF Notifications
      <4> QED
        BY <2>2, <4>1, FreeMeans
    <3> QED
      BY <2>3, <3>1, <3>2
  <2> QED
    BY <2>1, <2>2, <2>4 DEF AllFree, switch, user
<1>6. CASE SendGuard \/ Splash
  BY <1>6 DEF SendGuard, Splash, switch, user, history
<1>7. CASE Connecting
  <2>1. CASE LogonTimer
    <3>1. CASE Dies
      BY <1>3, <3>1 DEF Dies
    <3>2. CASE LogonEvent
      BY <3>2 DEF LogonEvent, switch, user
    <3> QED
      BY <2>1, <3>1, <3>2, LogonCases
  <2>2. CASE Reconnect \/ Bind \/ LinkUp \/ Discover
    BY <2>2 DEF Reconnect, Bind, LinkUp, Discover, switch, user, history
  <2> QED
    BY <1>7, <2>1, <2>2 DEF Connecting
<1>8. CASE User
  <2>1. CASE Crash
    BY <1>3, <2>1 DEF Crash, Dies
  <2>2. CASE PinReset \/ \E p \in Pins : Pair(p)
    BY <1>1, <2>2 DEF PinReset, Pair
  <2>3. CASE \E r \in Used : Press(r)
    BY <2>3 DEF Press, user, history
  <2>4. CASE (\E r \in Used : Tap(r)) \/ (\E p \in Pins : Type(p)) \/ OpenHome \/ Save
             \/ (\E p \in Pins \cup {Blank} : OpenPass(p))
    BY <2>4 DEF Tap, Type, OpenHome, Save, OpenPass, InMain, switch
  <2> QED
    BY <1>8, <2>1, <2>2, <2>3, <2>4 DEF User
<1> QED
  BY <1>4, <1>5, <1>6, <1>7, <1>8 DEF Other

LEMMA AcksOther ==
  ASSUME Types, AcksSaved, AckComing, Other
  PROVE  AcksSaved' /\ AckComing'
<1>1. ASSUME ~astray', stored' # NoPin, stored' # pin', NoAck' PROVE FALSE
  <2>1. /\ ~astray /\ stored' = stored /\ pin' = pin
        /\ AllFree(air', PinAcks) => AllFree(air, PinAcks)
    BY <1>1, OtherPins
  <2>2. slot' = slot /\ copied' = copied /\ ring' = ring
    BY OtherFrames
  <2>3. NoAck
    BY <1>1, <2>1, <2>2 DEF NoAck, InSlot
  <2> QED
    BY <1>1, <2>1, <2>3 DEF AckComing
<1> QED
  BY <1>1, AcksSavedOther DEF AckComing

PinsInv == Types /\ AcksSaved /\ AckComing

LEMMA PinsInvariant == Spec => []PinsInv
<1>1. Types /\ AcksSaved /\ AckComing /\ [Next]_vars => AcksSaved' /\ AckComing'
  <2>1. ASSUME Types, AcksSaved, AckComing, Next PROVE AcksSaved' /\ AckComing'
    BY <2>1, AcksHandle, AcksCopy, AcksTurn, AcksOther, NextCases, Zenon
  <2>2. ASSUME AcksSaved, AckComing, UNCHANGED vars PROVE AcksSaved' /\ AckComing'
    <3>1. UNCHANGED <<ring, air, slot, copied, conn, up, saved, stored, pin, astray>>
      BY <2>2 DEF vars, switch, user, service, history
    <3> QED
      BY <2>2, <3>1 DEF AcksSaved, AckComing, NoAck, InSlot, Linked
  <2> QED
    BY <2>1, <2>2
<1> QED
  BY <1>1, AcksInit, TypesInvariant, PTL DEF Spec, PinsInv

(* When nothing is under way, the phone's PIN is the switch's, but for the  *)
(* changes whose acknowledgement the phone cannot have taken in as sent     *)
(* (ChangePassFragment.java:114, 136-141) or that was discarded uncopied    *)
(* (ble_nus_app.c:446-454): until then an acknowledgement is still to be    *)
(* copied, in the stream or on the air, and it stands for a PIN that the    *)
(* activity in place has sent.                                              *)
THEOREM PinsAgree == Spec => []PinsAgreeWhenQuiet
<1>1. PinsInv => PinsAgreeWhenQuiet
  <2> SUFFICES ASSUME PinsInv, stored # NoPin, Quiet, ~astray PROVE stored = pin
    BY DEF PinsAgreeWhenQuiet
  <2>1. NoAck
    <3>1. ~(copied < Len(InSlot))
      BY InSlotFacts DEF Quiet, PinsInv, Types, SwitchOK
    <3> QED
      BY <3>1, EmptySeq DEF Quiet, NoAck, Free, AllFree
  <2> QED
    BY <2>1 DEF PinsInv, AckComing
<1> QED
  BY <1>1, PinsInvariant, PTL

-----------------------------------------------------------------------------
(* Reports.  A change of a relay is in the flag, in the newest report on    *)
(* its way or in the cache, unless a report is known to be lost.            *)

\* The last report in s, if there is one, carries v.
Shows(s, v) ==
  \A i \in 1..Len(s) :
    IsReport(s[i].of) /\ (\A j \in (i + 1)..Len(s) : ~IsReport(s[j].of))
      => s[i].of.data = v

\* No report is behind the i-th notification.
Newest(i) ==
  /\ report = <<>> /\ Free(ring, Reports)
  /\ \A j \in (i + 1)..Len(air) : Free(air[j], Reports)

ReportsCurrent ==
  ~flag =>
    /\ report # <<>> => report[1].data = relay
    /\ report = <<>> => Shows(ring, relay)
    /\ \A i \in 1..Len(air) : i >= missed /\ Newest(i) => Shows(air[i], relay)
    /\ missed = 0 /\ Newest(0) => cache = relay

LEMMA SliceShows ==
  ASSUME NEW s \in Seq(StreamBytes), NEW t \in Seq(StreamBytes), NEW k \in Nat, NEW v,
         k + Len(t) <= Len(s), \A i \in 1..Len(t) : t[i] = s[k + i],
         \A j \in (k + Len(t) + 1)..Len(s) : ~IsReport(s[j].of),
         Shows(s, v)
  PROVE  Shows(t, v)
<1>1. Len(s) \in Nat /\ Len(t) \in Nat
  BY LenProperties
<1> SUFFICES ASSUME NEW i \in 1..Len(t), IsReport(t[i].of),
                    \A j \in (i + 1)..Len(t) : ~IsReport(t[j].of)
             PROVE  t[i].of.data = v
  BY DEF Shows
<1>2. k + i \in 1..Len(s) /\ t[i] = s[k + i]
  BY <1>1
<1>3. ASSUME NEW j \in (k + i + 1)..Len(s) PROVE ~IsReport(s[j].of)
  <2>1. CASE j <= k + Len(t)
    <3>1. j - k \in (i + 1)..Len(t) /\ k + (j - k) = j /\ j - k \in 1..Len(t)
      BY <1>1, <2>1
    <3>2. t[j - k] = s[j]
      BY <3>1
    <3> QED
      BY <3>1, <3>2
  <2>2. CASE j > k + Len(t)
    <3>1. j \in (k + Len(t) + 1)..Len(s)
      BY <1>1, <2>2
    <3> QED
      BY <3>1
  <2> QED
    BY <1>1, <2>1, <2>2
<1> QED
  BY <1>2, <1>3 DEF Shows

LEMMA ReportBytes ==
  ASSUME NEW n \in Seq(StreamBytes)
  PROVE  /\ Len(n) \in Nat
         /\ Free(n, Reports) <=> \A i \in 1..Len(n) : ~IsReport(n[i].of)
<1>1. Len(n) \in Nat /\ \A i \in 1..Len(n) : n[i].of \in Frames
  <2>1. Len(n) \in Nat /\ \A i \in 1..Len(n) : n[i] \in StreamBytes
    BY LenProperties, ElementOfSeq
  <2> QED
    BY <2>1 DEF StreamBytes
<1>2. \A f \in Frames : IsReport(f) <=> f \in Reports
  BY FrameFacts
<1> QED
  BY <1>1, <1>2, Zenon DEF Free

LEMMA QueuedShows ==
  ASSUME StreamOK, NEW v,
         report # <<>> => report[1].data = v,
         report = <<>> => Shows(ring, v)
  PROVE  Shows(Queued, v)
<1>1. /\ Len(ring) \in Nat /\ Len(Queued) \in Nat /\ Len(ring) <= Len(Queued)
      /\ \A i \in 1..Len(ring) : Queued[i] = ring[i]
      /\ \A i \in (Len(ring) + 1)..Len(Queued) :
           report # <<>> /\ Queued[i].of = report[1]
      /\ report # <<>> => Len(Queued) > 0 /\ Queued[Len(Queued)].of = report[1]
  BY QueuedBytes
<1>2. report # <<>> => IsReport(report[1])
  BY SlotFacts, ReportFacts DEF StreamOK
<1> SUFFICES ASSUME NEW i \in 1..Len(Queued), IsReport(Queued[i].of),
                    \A j \in (i + 1)..Len(Queued) : ~IsReport(Queued[j].of)
             PROVE  Queued[i].of.data = v
  BY DEF Shows
<1>3. CASE report # <<>>
  <2>1. i = Len(Queued)
    <3>1. ASSUME i < Len(Queued) PROVE FALSE
      <4>1. Len(Queued) \in (i + 1)..Len(Queued)
        BY <1>1, <3>1
      <4> QED
        BY <1>1, <1>2, <1>3, <4>1
    <3> QED
      BY <1>1, <3>1
  <2> QED
    BY <1>1, <1>3, <2>1
<1>4. CASE report = <<>>
  <2>1. i \in 1..Len(ring)
    <3>1. ASSUME i > Len(ring) PROVE FALSE
      <4>1. i \in (Len(ring) + 1)..Len(Queued)
        BY <1>1, <3>1
      <4> QED
        BY <1>1, <1>2, <1>4, <4>1
    <3> QED
      BY <1>1, <3>1
  <2>2. IsReport(ring[i].of) /\ Queued[i] = ring[i]
    BY <1>1, <2>1
  <2>3. ASSUME NEW j \in (i + 1)..Len(ring) PROVE ~IsReport(ring[j].of)
    <3>1. j \in (i + 1)..Len(Queued) /\ Queued[j] = ring[j]
      BY <1>1, <2>1
    <3> QED
      BY <3>1
  <2> QED
    BY <1>4, <2>1, <2>2, <2>3 DEF Shows
<1> QED
  BY <1>3, <1>4

LEMMA ReportsInit == Init => ReportsCurrent
<1> SUFFICES ASSUME Init PROVE ReportsCurrent
  OBVIOUS
<1>1. ring = <<>> /\ air = <<>> /\ report = <<>> /\ missed = 1
  BY DEF Init
<1>2. Shows(ring, relay) /\ Len(air) = 0
  BY <1>1, EmptySeq DEF Shows
<1> QED
  BY <1>1, <1>2 DEF ReportsCurrent

LEMMA ReportsHandle ==
  ASSUME Types, ReportsCurrent, Handle
  PROVE  ReportsCurrent'
<1>1. UNCHANGED <<report, ring, air, cache>> /\ missed' = missed
      /\ (~flag' => ~flag /\ relay' = relay)
  <2>1. CASE up[1].op = CCCD
    BY <2>1 DEF Handle, switch, user, history
  <2>2. CASE up[1].op # CCCD
    BY <2>2 DEF Handle, Process, Recall, user
  <2> QED
    BY <2>1, <2>2
<1> QED
  BY <1>1 DEF ReportsCurrent, Newest

LEMMA ReportsCopy ==
  ASSUME Types, ReportsCurrent, Copy
  PROVE  ReportsCurrent'
<1>1. UNCHANGED <<relay, flag, report, air, missed, cache>>
  BY DEF Copy, user, history
<1>2. /\ Len(ring) \in Nat /\ Len(ring') \in Nat /\ Len(ring) < Len(ring')
      /\ \A i \in 1..Len(ring) : ring'[i] = ring[i]
      /\ \A i \in (Len(ring) + 1)..Len(ring') : ring'[i].of = slot[1]
      /\ slot[1] \in Answers
  BY CopyBytes
<1>3. ~IsReport(slot[1])
  BY <1>2, AnswerFacts
<1>4. ASSUME NEW i \in 1..Len(ring'), IsReport(ring'[i].of)
      PROVE  i \in 1..Len(ring) /\ ring'[i] = ring[i]
  <2>1. i \in 1..Len(ring) \/ i \in (Len(ring) + 1)..Len(ring')
    BY <1>2
  <2>2. i \notin (Len(ring) + 1)..Len(ring')
    BY <1>2, <1>3, <1>4
  <2> QED
    BY <1>2, <2>1, <2>2
<1>5. ASSUME NEW v, Shows(ring, v) PROVE Shows(ring', v)
  <2> SUFFICES ASSUME NEW i \in 1..Len(ring'), IsReport(ring'[i].of),
                      \A j \in (i + 1)..Len(ring') : ~IsReport(ring'[j].of)
               PROVE  ring'[i].of.data = v
    BY DEF Shows
  <2>1. i \in 1..Len(ring) /\ ring'[i] = ring[i]
    BY <1>4
  <2>2. ASSUME NEW j \in (i + 1)..Len(ring) PROVE ~IsReport(ring[j].of)
    <3>1. j \in (i + 1)..Len(ring') /\ j \in 1..Len(ring)
      BY <1>2, <2>1
    <3> QED
      BY <1>2, <3>1
  <2> QED
    BY <1>5, <2>1, <2>2 DEF Shows
<1>6. ASSUME NEW i, Newest(i)' PROVE Newest(i)
  <2>1. \A j \in 1..Len(ring) : j \in 1..Len(ring') /\ ring'[j] = ring[j]
    BY <1>2
  <2> QED
    BY <1>1, <1>6, <2>1 DEF Newest, Free
<1> QED
  BY <1>1, <1>5, <1>6 DEF ReportsCurrent

LEMMA ReportsTurn ==
  ASSUME Types, ReportsCurrent, Turn
  PROVE  ReportsCurrent'
<1>1. /\ report' = (IF flag THEN <<Report(relay)>> ELSE <<>>)
      /\ UNCHANGED <<relay, cache>>
      /\ missed' = IF HasReport(Lost) THEN 1 + Len(air') ELSE missed
  BY TurnParts DEF user, Recall
<1>2. StreamOK /\ missed \in Nat /\ Len(air') \in Nat
  <2>1. StreamOK /\ missed \in Nat /\ Len(air) \in Nat
    BY LenProperties, MtuType DEF Types, SwitchOK, LinkOK, HistoryOK
  <2> QED
    BY <2>1, TurnAir
<1>3. CASE flag
  <2>1. report' # <<>> /\ report'[1].data = relay'
    <3>1. report'[1] = Report(relay) /\ report' # <<>>
      BY <1>1, <1>3
    <3> QED
      BY <1>1, <3>1 DEF Report
  <2> QED
    BY <2>1 DEF ReportsCurrent, Newest
<1>4. CASE ~flag
  <2>1. report' = <<>>
    BY <1>1, <1>4
  <2>2. Shows(Queued, relay)
    BY <1>2, <1>4, QueuedShows DEF ReportsCurrent
  <2>3. /\ Len(Queued) = Len(Chunk) + Len(ring')
        /\ Queued \in Seq(StreamBytes) /\ Chunk \in Seq(StreamBytes)
        /\ ring' \in Seq(StreamBytes)
        /\ Len(Chunk) \in Nat /\ Len(ring') \in Nat
        /\ \A i \in 1..Len(Chunk) : Chunk[i] = Queued[i]
        /\ \A i \in 1..Len(ring') : ring'[i] = Queued[Len(Chunk) + i]
    BY <1>2, TurnSplit, QueuedFacts
  <2>4. Shows(ring', relay)
    <3>1. /\ Len(Chunk) + Len(ring') <= Len(Queued)
          /\ \A j \in (Len(Chunk) + Len(ring') + 1)..Len(Queued) :
               ~IsReport(Queued[j].of)
      BY <2>3
    <3>2. \A t \in Seq(StreamBytes) :
            /\ Len(Chunk) + Len(t) <= Len(Queued)
            /\ \A i \in 1..Len(t) : t[i] = Queued[Len(Chunk) + i]
            /\ \A j \in (Len(Chunk) + Len(t) + 1)..Len(Queued) : ~IsReport(Queued[j].of)
            => Shows(t, relay)
      BY <2>2, <2>3, SliceShows
    <3> QED
      BY <2>3, <3>1, <3>2, Zenon
  <2>5. Free(ring', Reports) => Shows(Chunk, relay)
    <3> SUFFICES ASSUME Free(ring', Reports) PROVE Shows(Chunk, relay)
      OBVIOUS
    <3>1. ASSUME NEW j \in (0 + Len(Chunk) + 1)..Len(Queued)
          PROVE  ~IsReport(Queued[j].of)
      <4>1. j - Len(Chunk) \in 1..Len(ring') /\ Len(Chunk) + (j - Len(Chunk)) = j
        BY <2>3
      <4>2. ring'[j - Len(Chunk)] = Queued[j]
        BY <2>3, <4>1
      <4>3. \A i \in 1..Len(ring') : ~IsReport(ring'[i].of)
        BY <2>3, ReportBytes
      <4> QED
        BY <4>1, <4>2, <4>3
    <3>2. 0 \in Nat /\ 0 + Len(Chunk) <= Len(Queued)
          /\ \A i \in 1..Len(Chunk) : Chunk[i] = Queued[0 + i]
      BY <2>3
    <3> QED
      BY <2>2, <2>3, <3>1, <3>2, SliceShows, Zenon
  <2>6. /\ Len(air) \in Nat
        /\ \/ Sent /\ Len(air') = Len(air) + 1 /\ air'[Len(air')] = Chunk
           \/ ~Sent /\ Len(air') = Len(air)
        /\ \A j \in 1..Len(air) : air'[j] = air[j]
    <3>1. Len(air) \in Nat
      BY LenProperties DEF Types, LinkOK
    <3> QED
      BY <3>1, TurnAir
  <2>7. ASSUME NEW i \in 0..Len(air), Newest(i)', ~HasReport(Lost)
        PROVE  Newest(i)
    <3>1. /\ Free(ring', Reports)
          /\ \A j \in (i + 1)..Len(air') : Free(air'[j], Reports)
      BY <2>7 DEF Newest
    <3>2. Free(Chunk, Reports)
      <4>1. CASE Sent
        <5>1. Len(air') \in (i + 1)..Len(air') /\ air'[Len(air')] = Chunk
          BY <2>6, <4>1
        <5> QED
          BY <3>1, <5>1
      <4>2. CASE ~Sent
        <5>1. ~HasReport(Chunk)
          BY <2>7, <4>2 DEF Lost
        <5> QED
          BY <2>3, <5>1, FreeMeans
      <4> QED
        BY <4>1, <4>2
    <3>3. Free(Queued, Reports)
      BY <1>2, <3>1, <3>2, TurnGathers
    <3>4. Free(ring, Reports) /\ (report # <<>> => report[1] \notin Reports)
      BY <1>2, <3>3, QueuedParts
    <3>5. report = <<>>
      BY <1>2, <3>4, SlotFacts DEF StreamOK
    <3>6. \A j \in (i + 1)..Len(air) : Free(air[j], Reports)
      <4>1. \A j \in (i + 1)..Len(air) : j \in (i + 1)..Len(air') /\ j \in 1..Len(air)
        BY <2>6
      <4> QED
        BY <2>6, <3>1, <4>1
    <3> QED
      BY <3>4, <3>5, <3>6 DEF Newest
  <2>8. ASSUME NEW i \in 1..Len(air'), i >= missed', Newest(i)'
        PROVE  Shows(air'[i], relay)
    <3>1. ~HasReport(Lost) /\ missed' = missed
      BY <1>1, <1>2, <2>8
    <3>2. CASE i \in 1..Len(air)
      <4>1. Newest(i)
        BY <2>6, <2>7, <2>8, <3>1, <3>2
      <4> QED
        BY <1>4, <2>6, <2>8, <3>1, <3>2, <4>1 DEF ReportsCurrent
    <3>3. CASE i \notin 1..Len(air)
      <4>1. i = Len(air') /\ air'[i] = Chunk
        BY <2>6, <3>3
      <4>2. Free(ring', Reports)
        BY <2>8 DEF Newest
      <4> QED
        BY <2>5, <4>1, <4>2
    <3> QED
      BY <3>2, <3>3
  <2>9. ASSUME missed' = 0, Newest(0)' PROVE cache = relay
    <3>1. ~HasReport(Lost) /\ missed = 0
      BY <1>1, <1>2, <2>9
    <3>2. Newest(0)
      BY <2>6, <2>7, <2>9, <3>1
    <3> QED
      BY <1>4, <3>1, <3>2 DEF ReportsCurrent
  <2> QED
    BY <1>1, <2>1, <2>4, <2>8, <2>9 DEF ReportsCurrent
<1> QED
  BY <1>3, <1>4

(* What becomes of a report that the phone takes in.                        *)
LEMMA StaysNotLeave ==
  ASSUME Taken, Stays, NEW s, NEW h
  PROVE  ~Leave(s, h)
BY DEF Taken, Stays, Leave

LEMMA FreshFacts ==
  ASSUME Types, Taken, Fresh
  PROVE  /\ Received[1].of \in Reports
         /\ Len(Received) > 11
         /\ \A i \in 1..12 : Received[i] = [of |-> Received[1].of, at |-> i]
         /\ \A j \in 13..Len(Received) : ~IsReport(Received[j].of)
<1> DEFINE f == Received[1].of
           n == Received
<1>1. n \in Seq(StreamBytes) /\ Len(n) \in Nat /\ Len(n) > 0
      /\ \A i \in 1..Len(n) : n[i] \in StreamBytes
  BY ReceivedFacts, ElementOfSeq
<1>2. f \in Reports /\ FrameLen(f) = 12
  <2>1. f \in Frames
    BY <1>1 DEF StreamBytes
  <2>2. IsReport(f)
    BY DEF Fresh
  <2> QED
    BY <2>1, <2>2, FrameFacts, ReportFacts
<1> HIDE DEF n
<1>3. Len(n) >= 12 /\ SubSeq(n, 1, 12) = Bytes(f)
  BY <1>2 DEF Fresh, Starts, n
<1> HIDE DEF f
<1>4. ASSUME NEW i \in 1..12 PROVE n[i] = [of |-> f, at |-> i]
  <2>1. \A k \in 1..12 : n[k] \in StreamBytes
    BY <1>1, <1>3
  <2>2. SubSeq(n, 1, 12)[i] = n[i]
    <3>1. \A k \in 1..(12 - 1 + 1) : SubSeq(n, 1, 12)[k] = n[1 + k - 1]
      BY <2>1, SubSeqProperties
    <3> QED
      BY <3>1
  <2>3. Bytes(f)[i] = [of |-> f, at |-> i]
    BY <1>2, BytesFacts DEF Frames
  <2> QED
    BY <1>3, <2>2, <2>3
<1>5. ASSUME NEW j \in 13..Len(n) PROVE ~IsReport(n[j].of)
  <2> DEFINE t == SubSeq(n, 13, Len(n))
  <2>1. \A k \in 13..Len(n) : n[k] \in StreamBytes
    BY <1>1
  <2>2. /\ t \in Seq(StreamBytes)
        /\ Len(t) = IF 13 <= Len(n) THEN Len(n) - 13 + 1 ELSE 0
        /\ \A k \in 1..(Len(n) - 13 + 1) : t[k] = n[13 + k - 1]
    BY <1>1, <2>1, SubSeqProperties
  <2>3. ~HasReport(t)
    BY DEF Fresh, n
  <2>4. DOMAIN t = 1..Len(t)
    BY <2>2, LenProperties
  <2> HIDE DEF t
  <2>5. j - 12 \in 1..Len(t) /\ j - 12 \in 1..(Len(n) - 13 + 1) /\ 13 + (j - 12) - 1 = j
    BY <1>1, <2>2
  <2>6. t[j - 12] = n[j]
    BY <2>2, <2>5
  <2> QED
    BY <2>3, <2>4, <2>5, <2>6 DEF HasReport
<1> QED
  BY <1>1, <1>2, <1>3, <1>4, <1>5 DEF n, f

LEMMA FreshCache ==
  ASSUME Types, Receive, Stays, Fresh
  PROVE  cache' = Received[1].of.data
<1> DEFINE f == Received[1].of
<1>1. Taken
  BY ReceiveCases, Zenon
<1>2. /\ f \in Reports /\ Len(Received) > 11
      /\ \A i \in 1..12 : Received[i] = [of |-> f, at |-> i]
  BY <1>1, FreshFacts
<1>3. IsReport(f) /\ f.op = STATUS /\ f.data \in Values
  BY <1>2, ReportFacts
<1> HIDE DEF f
<1>4. Opcodes = {STATUS}
  <2>1. Received[2] = [of |-> f, at |-> 2] /\ Len(Received) \in Nat
    BY <1>1, <1>2, ReceivedFacts
  <2>2. Opcodes = Reads(Received[2])
    BY <1>2, <2>1 DEF Opcodes
  <2>3. Received[2].of = f /\ Received[2].at = 2
    BY <2>1
  <2> QED
    BY <1>3, <2>2, <2>3 DEF Reads
<1>5. ReceiveStatus
  <2>1. LOGON \notin Opcodes /\ PIN \notin Opcodes /\ Opcodes \ {STATUS, LOGON, PIN} = {}
        /\ Opcodes # {}
    BY <1>4 DEF LOGON, PIN, STATUS
  <2> QED
    BY <2>1 DEF Receive, ReceiveLogon, ReceivePin, ReceiveOther, ReceiveStub
<1>6. cache' \in {v \in [1..4 -> {0, 1}] : \A r \in 1..4 :
                    \E x \in Reads(Received[7 + r]) : v[r] = 0 <=> x = 0}
  <2>1. screen = "home"
    BY DEF Fresh
  <2> QED
    BY <1>2, <1>5, <2>1 DEF ReceiveStatus
<1>7. ASSUME NEW r \in 1..4 PROVE cache'[r] = f.data[r]
  <2>1. 7 + r \in 1..12 /\ 7 + r \in 8..11 /\ (7 + r) - 7 = r
    OBVIOUS
  <2>2. Received[7 + r].of = f /\ Received[7 + r].at = 7 + r
    <3>1. Received[7 + r] = [of |-> f, at |-> 7 + r]
      BY <1>2, <2>1, Zenon
    <3> QED
      BY <3>1
  <2>3. Reads(Received[7 + r]) = {f.data[r]}
    BY <1>3, <2>1, <2>2 DEF Reads
  <2>4. cache'[r] = 0 <=> f.data[r] = 0
    BY <1>6, <2>3
  <2>5. cache'[r] \in {0, 1} /\ f.data[r] \in {0, 1}
    BY <1>3, <1>6 DEF Values
  <2> QED
    BY <2>4, <2>5
<1>8. cache' \in [1..4 -> {0, 1}] /\ f.data \in [1..4 -> {0, 1}]
  BY <1>3, <1>6 DEF Values
<1>9. cache' = f.data
  <2>1. \A g, h \in [1..4 -> {0, 1}] : (\A r \in 1..4 : g[r] = h[r]) => g = h
    OBVIOUS
  <2> QED
    BY <1>7, <1>8, <2>1
<1> QED
  BY <1>9 DEF f

LEMMA ReportsStays ==
  ASSUME Types, ReportsCurrent, Receive, Stays
  PROVE  ReportsCurrent'
<1>1. /\ Taken /\ air # <<>> /\ air' = Tail(air)
      /\ UNCHANGED <<relay, flag, report, ring>>
  BY ReceiveCases DEF Stays, Taken, switch
<1>2. air \in Seq(Notifications) /\ missed \in Nat
  BY MtuType DEF Types, LinkOK, HistoryOK
<1>3. /\ Received = air[1] /\ Len(air) \in Nat \ {0} /\ Len(air') = Len(air) - 1
      /\ \A i \in 1..Len(air') : air'[i] = air[i + 1]
  BY <1>1, <1>2, AirTail
<1>4. missed' = IF missed > 1 THEN missed - 1
                ELSE IF Fresh THEN 0
                ELSE IF HasReport(Received) \/ Len(Received) > 11 THEN 1 ELSE missed
  BY <1>2 DEF Stays
<1> SUFFICES ASSUME ~flag
             PROVE  /\ \A i \in 1..Len(air') :
                         i >= missed' /\ Newest(i)' => Shows(air'[i], relay)
                    /\ missed' = 0 /\ Newest(0)' => cache' = relay
  BY <1>1 DEF ReportsCurrent
<1>5. ASSUME NEW i \in 0..Len(air'), Newest(i)' PROVE Newest(i + 1)
  <2>1. ASSUME NEW j \in (i + 1 + 1)..Len(air) PROVE Free(air[j], Reports)
    <3>1. j - 1 \in (i + 1)..Len(air') /\ j - 1 \in 1..Len(air') /\ (j - 1) + 1 = j
      BY <1>3
    <3>2. air'[j - 1] = air[j]
      BY <1>3, <3>1
    <3> QED
      BY <1>5, <3>1, <3>2 DEF Newest
  <2> QED
    BY <1>1, <1>5, <2>1 DEF Newest
<1>6. ASSUME NEW i \in 1..Len(air'), i >= missed', Newest(i)'
      PROVE  Shows(air'[i], relay)
  <2>1. i + 1 \in 1..Len(air) /\ i + 1 >= missed
    BY <1>2, <1>3, <1>4, <1>6
  <2>2. Newest(i + 1)
    BY <1>3, <1>5, <1>6
  <2>3. Shows(air[i + 1], relay)
    BY <2>1, <2>2 DEF ReportsCurrent
  <2> QED
    BY <1>3, <2>3
<1>7. ASSUME missed' = 0, Newest(0)' PROVE cache' = relay
  <2>1. missed <= 1 /\ (Fresh \/ (~HasReport(Received) /\ Len(Received) <= 11 /\ missed = 0))
    <3>1. Len(Received) \in Nat
      BY <1>1, ReceivedFacts
    <3> QED
      BY <1>2, <1>4, <1>7, <3>1
  <2>2. Newest(1)
    BY <1>3, <1>5, <1>7
  <2>3. CASE Fresh
    <3>1. Shows(air[1], relay)
      BY <1>3, <2>1, <2>2 DEF ReportsCurrent
    <3>2. /\ Received[1].of \in Reports /\ Len(Received) > 11
          /\ \A i \in 1..12 : Received[i] = [of |-> Received[1].of, at |-> i]
          /\ \A j \in 13..Len(Received) : ~IsReport(Received[j].of)
      BY <1>1, <2>3, FreshFacts
    <3>3. Received[12].of = Received[1].of /\ IsReport(Received[12].of)
      <4>1. Received[12] = [of |-> Received[1].of, at |-> 12]
        BY <3>2
      <4> QED
        BY <3>2, <4>1, ReportFacts
    <3>4. 12 \in 1..Len(Received) /\ 12 + 1 = 13
      BY <1>1, <3>2, ReceivedFacts
    <3>5. Received[12].of.data = relay
      BY <1>3, <3>1, <3>2, <3>3, <3>4 DEF Shows
    <3> QED
      BY <2>3, <3>3, <3>5, FreshCache
  <2>4. CASE ~Fresh
    <3>1. ~HasReport(Received) /\ Len(Received) <= 11 /\ missed = 0
      BY <2>1, <2>4
    <3>2. Free(air[1], Reports)
      BY <1>1, <3>1, ReceivedFacts, FreeMeans
    <3>3. Newest(0)
      <4>1. ASSUME NEW j \in (0 + 1)..Len(air) PROVE Free(air[j], Reports)
        <5>1. j = 1 \/ j \in (1 + 1)..Len(air)
          BY <1>3
        <5> QED
          BY <2>2, <3>2, <5>1 DEF Newest
      <4> QED
        BY <2>2, <4>1 DEF Newest
    <3>4. cache = relay
      BY <3>1, <3>3 DEF ReportsCurrent
    <3>5. ~(Len(Received) > 11)
      BY <1>1, <3>1, ReceivedFacts
    <3>6. cache' = cache
      BY <1>1, <3>5, StaysNotLeave DEF Receive, ReceiveStatus, ReceiveLogon,
         ReceivePin, ReceiveOther, ReceiveStub, Dies
    <3> QED
      BY <3>4, <3>6
  <2> QED
    BY <2>3, <2>4
<1> QED
  BY <1>6, <1>7

LEMMA ReportsDrop ==
  ASSUME Types, ReportsCurrent, NEW clean \in BOOLEAN, NEW k \in 0..Len(air),
         Drop(clean, k)
  PROVE  ReportsCurrent'
<1>1. /\ UNCHANGED <<relay, flag, report, ring, cache>> /\ air' = SubSeq(air, 1, k)
      /\ missed' = IF \E i \in (k + 1)..Len(air) : HasReport(air[i])
                   THEN 1 + Len(air') ELSE missed
  BY DEF Drop, LinkLost, Recall, switch, user
<1>2. air \in Seq(Notifications)
  BY DEF Types, LinkOK
<1>3. /\ Len(air) \in Nat /\ Len(air') = k
      /\ \A i \in 1..Len(air') : air'[i] = air[i]
  BY <1>1, <1>2, AirCut
<1>4. CASE \E i \in (k + 1)..Len(air) : HasReport(air[i])
  <2>1. missed' # 0 /\ \A i \in 1..Len(air') : ~(i >= missed')
    BY <1>1, <1>3, <1>4
  <2> QED
    BY <1>1, <2>1 DEF ReportsCurrent
<1>5. CASE ~(\E i \in (k + 1)..Len(air) : HasReport(air[i]))
  <2>1. missed' = missed
    BY <1>1, <1>5
  <2>2. ASSUME NEW j \in (k + 1)..Len(air) PROVE Free(air[j], Reports)
    <3>1. air[j] \in Seq(StreamBytes)
      BY <1>2, <1>3, ElementOfSeq DEF Notifications
    <3> QED
      BY <1>5, <3>1, FreeMeans
  <2>3. ASSUME NEW i \in 0..k, Newest(i)' PROVE Newest(i)
    <3>1. ASSUME NEW j \in (i + 1)..Len(air) PROVE Free(air[j], Reports)
      <4>1. CASE j <= k
        <5>1. j \in (i + 1)..Len(air') /\ j \in 1..Len(air')
          BY <1>3, <4>1
        <5> QED
          BY <1>3, <2>3, <5>1 DEF Newest
      <4>2. CASE j > k
        <5>1. j \in (k + 1)..Len(air)
          BY <1>3, <4>2
        <5> QED
          BY <2>2, <5>1
      <4> QED
        BY <1>3, <4>1, <4>2
    <3> QED
      BY <1>1, <2>3, <3>1 DEF Newest
  <2>4. \A i \in 1..Len(air') : i \in 0..k /\ i \in 1..Len(air)
    BY <1>3
  <2>5. 0 \in 0..k
    BY <1>3
  <2> QED
    BY <1>1, <1>3, <2>1, <2>3, <2>4, <2>5 DEF ReportsCurrent
<1> QED
  BY <1>4, <1>5

LEMMA OtherReports ==
  ASSUME Types, Other
  PROVE  /\ UNCHANGED <<report, ring>>
         /\ ~flag' => ~flag /\ relay' = relay
         /\ \/ UNCHANGED <<air, missed, cache>>
            \/ missed' = 1 + Len(air')
            \/ \E clean \in BOOLEAN, k \in 0..Len(air) : Drop(clean, k)
            \/ Receive /\ Stays
<1>1. ASSUME NEW s, NEW h, Leave(s, h)
      PROVE  /\ UNCHANGED <<report, ring, flag, relay>>
             /\ missed' = 1 + Len(air')
  <2>1. UNCHANGED switch /\ Recall(TRUE, h)
    BY <1>1, LeaveParts, Zenon
  <2> QED
    BY <2>1 DEF switch, Recall
<1>2. CASE Receive
  <2>1. CASE Stays
    BY <1>2, <2>1 DEF Stays, switch
  <2> QED
    BY <1>1, <1>2, <2>1, ReceiveCases, Zenon DEF Dies
<1>3. CASE \E clean \in BOOLEAN, k \in 0..Len(air) : Drop(clean, k)
  <2>1. UNCHANGED switch
    BY <1>3 DEF Drop
  <2>2. UNCHANGED <<report, ring, flag, relay>>
    BY <2>1 DEF switch
  <2> QED
    BY <1>3, <2>2, Zenon
<1>4. CASE SendGuard \/ Splash
  BY <1>4 DEF SendGuard, Splash, switch, user, history
<1>5. CASE Connecting
  <2>1. CASE LogonTimer
    <3>1. CASE Dies
      BY <1>1, <3>1 DEF Dies
    <3>2. CASE LogonEvent
      BY <3>2 DEF LogonEvent, switch, user
    <3> QED
      BY <2>1, <3>1, <3>2, LogonCases
  <2>2. CASE Reconnect \/ Bind \/ LinkUp \/ Discover
    BY <2>2 DEF Reconnect, Bind, LinkUp, Discover, switch, user, history
  <2> QED
    BY <1>5, <2>1, <2>2 DEF Connecting
<1>6. CASE User
  <2>1. CASE Crash
    BY <1>1, <2>1 DEF Crash, Dies
  <2>2. CASE PinReset \/ \E p \in Pins : Pair(p)
    BY <2>2 DEF PinReset, Pair, Recall, switch, user
  <2>3. CASE \E r \in Used : Press(r)
    BY <2>3 DEF Press, user, history
  <2>4. CASE OpenHome
    BY <2>4 DEF OpenHome, InMain, switch
  <2>5. CASE (\E r \in Used : Tap(r)) \/ (\E p \in Pins : Type(p)) \/ Save
             \/ (\E p \in Pins \cup {Blank} : OpenPass(p))
    BY <2>5 DEF Tap, Type, Save, OpenPass, InMain, switch
  <2> QED
    BY <1>6, <2>1, <2>2, <2>3, <2>4, <2>5 DEF User
<1> QED
  BY <1>2, <1>3, <1>4, <1>5, <1>6 DEF Other

LEMMA ReportsOther ==
  ASSUME Types, ReportsCurrent, Other
  PROVE  ReportsCurrent'
<1>1. /\ UNCHANGED <<report, ring>>
      /\ ~flag' => ~flag /\ relay' = relay
  BY OtherReports
<1>2. CASE UNCHANGED <<air, missed, cache>>
  BY <1>1, <1>2 DEF ReportsCurrent, Newest
<1>3. CASE missed' = 1 + Len(air')
  <2>1. Len(air') \in Nat
    <3>1. Types'
      BY TypesStep DEF Other, Next
    <3> QED
      BY <3>1, LenProperties DEF Types, LinkOK
  <2>2. missed' # 0 /\ \A i \in 1..Len(air') : ~(i >= missed')
    BY <1>3, <2>1
  <2> QED
    BY <1>1, <2>2 DEF ReportsCurrent
<1> QED
  BY <1>2, <1>3, OtherReports, ReportsDrop, ReportsStays, Zenon

ReportsInv == Types /\ ReportsCurrent

LEMMA ReportsInvariant == Spec => []ReportsInv
<1>1. Types /\ ReportsCurrent /\ [Next]_vars => ReportsCurrent'
  <2>1. ASSUME Types, ReportsCurrent, Next PROVE ReportsCurrent'
    BY <2>1, ReportsHandle, ReportsCopy, ReportsTurn, ReportsOther, NextCases, Zenon
  <2>2. ASSUME ReportsCurrent, UNCHANGED vars PROVE ReportsCurrent'
    <3>1. UNCHANGED <<flag, report, ring, air, missed, cache, relay>>
      BY <2>2 DEF vars, switch, user, history
    <3> QED
      BY <2>2, <3>1 DEF ReportsCurrent, Newest
  <2> QED
    BY <2>1, <2>2
<1> QED
  BY <1>1, ReportsInit, TypesInvariant, PTL DEF Spec, ReportsInv

(* When nothing is under way, the home screen shows the relays as they are, *)
(* but for the reports that did not get to it as whole notifications of the *)
(* link in place (SetupFragment.java:81): a report that the switch sends is *)
(* newer than any before it on its way, and the last one shows the relays.  *)
THEOREM CacheAgrees == Spec => []CacheAgreesWhenQuiet
<1>1. ReportsInv => CacheAgreesWhenQuiet
  <2> SUFFICES ASSUME ReportsInv, Quiet, missed = 0 PROVE cache = relay
    BY DEF CacheAgreesWhenQuiet
  <2>1. ~flag /\ Newest(0)
    BY EmptySeq DEF Quiet, Newest, Free
  <2> QED
    BY <2>1 DEF ReportsInv, ReportsCurrent
<1> QED
  BY <1>1, ReportsInvariant, PTL
=============================================================================
