-------------------------- MODULE FrameParserProofs --------------------------
(***************************************************************************)
(* Proofs about FrameParser, for every start code, every width of a byte   *)
(* and every size of the receive buffer.                                   *)
(***************************************************************************)
EXTENDS FrameParser, WellFoundedInduction, TLAPS

Heard == [byte : Byte, idle : BOOLEAN]

\* The bytes received since the frame's start code, it included.
Inside ==
  CASE state = "start" -> 0
    [] state = "opcode" -> 1
    [] state = "length" -> 2
    [] state = "data" -> 3 + Len(buf)
    [] state = "crc" -> 3 + len

\* A frame under way is still in memory from its start code on, and some byte
\* of those in memory found the parser awaiting one.
Placed ==
  /\ state # "start" =>
       /\ Inside <= Len(heard)
       /\ heard[Len(heard) - Inside + 1].idle
  /\ heard # <<>> => \E i \in 1..Len(heard) : heard[i].idle

-----------------------------------------------------------------------------
(* What is remembered of the stream.                                       *)

LEMMA FrameMaxType == FrameMax \in Nat /\ FrameMax >= 5 /\ FrameMax = LenMax + 4
BY FrameParserAssumption DEF FrameMax

(* One more byte is remembered, the others keep their distance to it, and   *)
(* only the one FrameMax bytes ago is forgotten.                            *)
LEMMA Hearing ==
  ASSUME heard \in Seq(Heard), Len(heard) <= FrameMax, NEW c \in Byte, Hear(c)
  PROVE  /\ heard' \in Seq(Heard)
         /\ Len(heard') \in 1..FrameMax
         /\ Len(heard') \in {Len(heard), Len(heard) + 1}
         /\ heard'[Len(heard')] = [byte |-> c, idle |-> state = "start"]
         /\ \A k \in 1..(FrameMax - 1) : k <= Len(heard) =>
              /\ k + 1 <= Len(heard')
              /\ heard'[Len(heard') - k] = heard[Len(heard) - k + 1]
<1> DEFINE x == [byte |-> c, idle |-> state = "start"]
           h == Append(heard, x)
<1>1. x \in Heard
  BY DEF Heard
<1> HIDE DEF x
<1>2. /\ h \in Seq(Heard)
      /\ Len(h) = Len(heard) + 1
      /\ h[Len(heard) + 1] = x
      /\ \A i \in 1..Len(heard) : h[i] = heard[i]
  BY <1>1
<1>3. CASE Len(h) > FrameMax
  <2>1. heard' = Tail(h)
    BY <1>3 DEF Hear, h, x
  <2>2. /\ Tail(h) \in Seq(Heard)
        /\ Len(Tail(h)) = Len(heard)
        /\ \A i \in 1..Len(heard) : Tail(h)[i] = h[i + 1]
    BY <1>2
  <2>3. Len(heard) = FrameMax
    BY <1>2, <1>3, FrameMaxType
  <2> HIDE DEF h
  <2>4. heard'[Len(heard')] = x
    BY <1>2, <2>1, <2>2, <2>3, FrameMaxType
  <2>5. ASSUME NEW k \in 1..(FrameMax - 1), k <= Len(heard)
        PROVE  /\ k + 1 <= Len(heard')
               /\ heard'[Len(heard') - k] = heard[Len(heard) - k + 1]
    BY <1>2, <2>1, <2>2, <2>3, <2>5, FrameMaxType
  <2> QED
    BY <2>1, <2>2, <2>3, <2>4, <2>5, FrameMaxType DEF x
<1>4. CASE Len(h) <= FrameMax
  <2>1. heard' = h
    BY <1>2, <1>4, FrameMaxType DEF Hear, h, x
  <2> HIDE DEF h
  <2>2. ASSUME NEW k \in 1..(FrameMax - 1), k <= Len(heard)
        PROVE  /\ k + 1 <= Len(heard')
               /\ heard'[Len(heard') - k] = heard[Len(heard) - k + 1]
    BY <1>2, <2>1, <2>2
  <2> QED
    BY <1>2, <1>4, <2>1, <2>2 DEF x
<1> QED
  BY <1>2, <1>3, <1>4, FrameMaxType

-----------------------------------------------------------------------------
(* Every byte keeps the parser's fields in range.                          *)

ParserTypeOK ==
  /\ state \in {"start", "opcode", "length", "data", "crc"}
  /\ opcode \in Byte
  /\ len \in Byte
  /\ crc \in Byte
  /\ buf \in Seq(Byte)
  /\ Len(buf) <= LenMax
  /\ state \in {"opcode", "length"} => buf = <<>>
  /\ state = "data" => (Len(buf) < len \/ buf = <<>>)
  /\ state = "crc" => Len(buf) = len
  /\ got \subseteq [opcode : Byte, data : Seq(Byte)]

LEMMA ByteType == /\ Byte \subseteq Nat /\ 0 \in Byte
                  /\ \A a, b \in Byte : (a + b) % Modulus \in Byte
BY FrameParserAssumption DEF Byte

LEMMA ParserStep ==
  ASSUME ParserTypeOK, NEW c \in Byte,
         WaitStart(c) \/ GetOpcode(c) \/ GetLength(c) \/ GetData(c) \/ CrcCheck(c)
  PROVE  ParserTypeOK'
<1> USE ByteType DEF Goto
<1>1. CASE WaitStart(c)
  <2>1. CASE c = Start
    <3>1. /\ state' = "opcode" /\ len' = 0 /\ crc' = 0 /\ buf' = <<>>
          /\ opcode' = opcode /\ got' = {}
      BY <1>1, <2>1 DEF WaitStart
    <3>2. buf' \in Seq(Byte) /\ Len(buf') = 0 /\ 0 <= LenMax
      BY <3>1, FrameParserAssumption
    <3> QED
      BY <3>1, <3>2 DEF ParserTypeOK
  <2>2. CASE c # Start
    BY <1>1, <2>2 DEF WaitStart, ParserTypeOK
  <2> QED
    BY <2>1, <2>2
<1>2. CASE GetOpcode(c)
  BY <1>2 DEF GetOpcode, ParserTypeOK
<1>3. CASE GetLength(c)
  BY <1>3 DEF GetLength, ParserTypeOK
<1>4. CASE GetData(c)
  <2>1. CASE Len(buf) >= len \/ len > LenMax
    BY <1>4, <2>1 DEF GetData, ParserTypeOK
  <2>2. CASE ~(Len(buf) >= len \/ len > LenMax)
    <3>1. /\ buf' = Append(buf, c) /\ crc' = (crc + c) % Modulus
          /\ state' = IF Len(buf) + 1 = len THEN "crc" ELSE "data"
          /\ UNCHANGED <<opcode, len>> /\ got' = {}
      BY <1>4, <2>2 DEF GetData
    <3>2. buf' \in Seq(Byte) /\ Len(buf') = Len(buf) + 1 /\ Len(buf) \in Nat
      BY <3>1 DEF ParserTypeOK
    <3>3. Len(buf') <= len /\ len <= LenMax /\ len \in Nat /\ LenMax \in Nat
      BY <2>2, <3>2, FrameParserAssumption DEF ParserTypeOK
    <3>4. crc' \in Byte
      BY <3>1 DEF ParserTypeOK
    <3>5. /\ state' \in {"data", "crc"}
          /\ state' = "data" => Len(buf') < len'
          /\ state' = "crc" => Len(buf') = len'
      BY <3>1, <3>2, <3>3
    <3>6. opcode' \in Byte /\ len' \in Byte /\ Len(buf') <= LenMax
      BY <3>1, <3>2, <3>3 DEF ParserTypeOK
    <3> QED
      BY <3>1, <3>2, <3>4, <3>5, <3>6 DEF ParserTypeOK
  <2> QED
    BY <2>1, <2>2
<1>5. CASE CrcCheck(c)
  BY <1>5 DEF CrcCheck, ParserTypeOK
<1> QED
  BY <1>1, <1>2, <1>3, <1>4, <1>5

LEMMA Split == TypeOK <=> /\ ParserTypeOK
                          /\ heard \in Seq(Heard)
                          /\ Len(heard) <= FrameMax
BY DEF TypeOK, ParserTypeOK, Heard

-----------------------------------------------------------------------------
(* Every byte keeps the frame under way placed.                            *)

LEMMA InsideStep ==
  ASSUME ParserTypeOK, NEW c \in Byte,
         WaitStart(c) \/ GetOpcode(c) \/ GetLength(c) \/ GetData(c) \/ CrcCheck(c)
  PROVE  /\ Inside \in 0..(FrameMax - 1)
         /\ state # "start" => Inside >= 1
         /\ state' # "start" => Inside' = Inside + 1
<1> USE ByteType, FrameMaxType DEF Goto
<1>1. /\ Len(buf) \in Nat /\ LenMax \in Nat /\ len \in Nat
      /\ Len(buf) <= LenMax
      /\ state = "crc" => Len(buf) = len
  BY FrameParserAssumption DEF ParserTypeOK
<1>2. Inside \in 0..(FrameMax - 1) /\ (state # "start" => Inside >= 1)
  BY <1>1 DEF Inside, ParserTypeOK
<1>3. ASSUME state' # "start" PROVE Inside' = Inside + 1
  <2>1. CASE WaitStart(c)
    BY <1>3, <2>1 DEF WaitStart, Inside
  <2>2. CASE GetOpcode(c)
    BY <2>2 DEF GetOpcode, Inside
  <2>3. CASE GetLength(c)
    <3>1. buf = <<>> /\ buf' = buf /\ state = "length" /\ state' = "data"
      BY <2>3 DEF GetLength, ParserTypeOK
    <3> QED
      BY <3>1 DEF Inside
  <2>4. CASE GetData(c)
    <3>1. /\ buf' = Append(buf, c) /\ len' = len
          /\ state = "data"
          /\ state' = IF Len(buf) + 1 = len THEN "crc" ELSE "data"
      BY <1>3, <2>4 DEF GetData
    <3>2. Len(buf') = Len(buf) + 1
      BY <3>1 DEF ParserTypeOK
    <3> QED
      BY <1>1, <3>1, <3>2 DEF Inside
  <2>5. CASE CrcCheck(c)
    BY <1>3, <2>5 DEF CrcCheck
  <2> QED
    BY <2>1, <2>2, <2>3, <2>4, <2>5
<1> QED
  BY <1>2, <1>3

LEMMA PlacedStep ==
  ASSUME TypeOK, Placed, NEW c \in Byte, Receive(c)
  PROVE  Placed'
<1>1. /\ ParserTypeOK /\ heard \in Seq(Heard) /\ Len(heard) <= FrameMax
      /\ WaitStart(c) \/ GetOpcode(c) \/ GetLength(c) \/ GetData(c) \/ CrcCheck(c)
      /\ Hear(c)
  BY Split DEF Receive
<1>2. /\ heard' \in Seq(Heard)
      /\ Len(heard') \in 1..FrameMax
      /\ heard'[Len(heard')] = [byte |-> c, idle |-> state = "start"]
      /\ \A k \in 1..(FrameMax - 1) : k <= Len(heard) =>
           /\ k + 1 <= Len(heard')
           /\ heard'[Len(heard') - k] = heard[Len(heard) - k + 1]
  BY <1>1, Hearing
<1>3. /\ Inside \in 0..(FrameMax - 1)
      /\ state # "start" => Inside >= 1
      /\ state' # "start" => Inside' = Inside + 1
  BY <1>1, InsideStep
<1>4. CASE state = "start"
  <2>1. Inside = 0
    BY <1>4 DEF Inside
  <2>2. heard'[Len(heard')].idle
    <3>1. [byte |-> c, idle |-> state = "start"].idle = (state = "start")
      OBVIOUS
    <3> QED
      BY <1>2, <1>4, <3>1, Zenon
  <2>3. state' # "start" => Inside' <= Len(heard')
                            /\ heard'[Len(heard') - Inside' + 1].idle
    <3>1. Len(heard') - (0 + 1) + 1 = Len(heard') /\ 0 + 1 <= Len(heard')
      BY <1>2
    <3> QED
      BY <1>3, <2>1, <2>2, <3>1
  <2>4. \E i \in 1..Len(heard') : heard'[i].idle
    BY <1>2, <2>2
  <2> QED
    BY <2>3, <2>4 DEF Placed
<1>5. CASE state # "start"
  <2>1. /\ Inside \in 1..(FrameMax - 1) /\ Inside <= Len(heard)
        /\ heard[Len(heard) - Inside + 1].idle
    BY <1>3, <1>5 DEF Placed
  <2>2. /\ Inside + 1 <= Len(heard')
        /\ heard'[Len(heard') - Inside].idle
    BY <1>2, <2>1
  <2>3. Len(heard') - Inside \in 1..Len(heard')
    BY <1>2, <2>1, <2>2, FrameMaxType
  <2>4. Len(heard') - (Inside + 1) + 1 = Len(heard') - Inside
    BY <1>2, <2>1, FrameMaxType
  <2> QED
    BY <1>3, <2>2, <2>3, <2>4 DEF Placed
<1> QED
  BY <1>4, <1>5

LEMMA ParserInvariant == Spec => [](TypeOK /\ Placed)
<1>1. Init => TypeOK /\ Placed
  <2> SUFFICES ASSUME Init PROVE TypeOK /\ Placed
    OBVIOUS
  <2>1. heard = <<>> /\ Len(heard) = 0 /\ heard \in Seq(Heard)
    BY DEF Init
  <2>2. buf = <<>> /\ Len(buf) = 0 /\ buf \in Seq(Byte)
    BY DEF Init
  <2>3. ParserTypeOK
    BY <2>2, ByteType, FrameParserAssumption DEF Init, ParserTypeOK
  <2> QED
    BY <2>1, <2>3, Split, FrameMaxType DEF Init, Placed
<1>2. TypeOK /\ Placed /\ [Next]_vars => (TypeOK /\ Placed)'
  <2>1. ASSUME TypeOK, Placed, NEW c \in Byte, Receive(c)
        PROVE  (TypeOK /\ Placed)'
    <3>1. /\ ParserTypeOK /\ heard \in Seq(Heard) /\ Len(heard) <= FrameMax
          /\ WaitStart(c) \/ GetOpcode(c) \/ GetLength(c) \/ GetData(c)
             \/ CrcCheck(c)
          /\ Hear(c)
      BY <2>1, Split DEF Receive
    <3>2. ParserTypeOK'
      BY <3>1, ParserStep
    <3>3. heard' \in Seq(Heard) /\ Len(heard') <= FrameMax
      <4>1. heard' \in Seq(Heard) /\ Len(heard') \in 1..FrameMax
        BY <3>1, Hearing, Zenon
      <4> QED
        BY <4>1, FrameMaxType
    <3>4. TypeOK'
      BY ONLY <3>2, <3>3, Zenon DEF TypeOK, ParserTypeOK, Heard
    <3> QED
      BY <2>1, <3>4, PlacedStep
  <2>2. ASSUME TypeOK, Placed, UNCHANGED vars
        PROVE  (TypeOK /\ Placed)'
    BY <2>2 DEF TypeOK, Placed, Inside, vars, parser, FrameMax
  <2> QED
    BY <2>1, <2>2 DEF Next
<1> QED
  BY <1>1, <1>2, PTL DEF Spec

(* The parser's fields keep their ranges: no stream of bytes makes it store *)
(* beyond its buffer or beyond the length a frame announces                 *)
(* (ble_nus_app.c:163-178).                                                 *)
THEOREM ParserTypeCorrect == Spec => []TypeOK
BY ParserInvariant, PTL

(* However a frame is cut, the parser awaits a start code again within the  *)
(* length of the longest frame (ble_nus_app.c:139-195).                     *)
THEOREM ParserResyncs == Spec => []ResyncsWithinAFrame
<1>1. Placed => ResyncsWithinAFrame
  <2>1. ASSUME Placed, Len(heard) = FrameMax
        PROVE  \E i \in 1..FrameMax : heard[i].idle
    <3>1. heard # <<>>
      BY <2>1, FrameMaxType
    <3> QED
      BY <2>1, <3>1 DEF Placed
  <2> QED
    BY <2>1 DEF ResyncsWithinAFrame
<1> QED
  BY <1>1, ParserInvariant, PTL

-----------------------------------------------------------------------------
(* What is recognised.  The parser holds no more of a frame than the bytes  *)
(* received since its start code say: the two theorems at the end compare   *)
(* what it passes on with those bytes.                                      *)

\* The k-th last byte of h.
Ago(h, k) == h[Len(h) - k + 1]

\* s adds up the bytes of b as the parser does, from the first on.
Adds(s, b) ==
  /\ s[0] = 0
  /\ \A i \in 1..Len(b) : s[i] = (s[i - 1] + b[i]) % Modulus

\* What is kept of the frame under way is what was received of it.
Recorded ==
  state # "start" =>
    /\ Ago(heard, Inside).byte = Start
    /\ Inside >= 2 => opcode = Ago(heard, Inside - 1).byte
    /\ Inside >= 3 => len = Ago(heard, Inside - 2).byte
    /\ \A i \in 1..Len(buf) : buf[i] = Ago(heard, Inside - 2 - i).byte
    /\ \E s \in [0..Len(buf) -> Byte] : Adds(s, buf) /\ crc = s[Len(buf)]
    /\ state = "crc" => len # 0

\* The start code k bytes ago was awaited, and what follows it is a frame so
\* far: its length fits the buffer and its payload has not ended.
Opened(h, k) ==
  /\ Ago(h, k).idle
  /\ Ago(h, k).byte = Start
  /\ k >= 3 => /\ Ago(h, k - 2).byte \in 1..LenMax
               /\ k <= 3 + Ago(h, k - 2).byte

\* Then it is the frame under way.
Tracked ==
  \A k \in 1..Len(heard) : Opened(heard, k) => state # "start" /\ Inside = k

LEMMA Aged ==
  ASSUME TypeOK, NEW c \in Byte, Hear(c)
  PROVE  /\ Ago(heard', 1).byte = c
         /\ Ago(heard', 1).idle = (state = "start")
         /\ \A k \in 1..(FrameMax - 1) :
              k <= Len(heard) => Ago(heard', k + 1) = Ago(heard, k)
         /\ \A k \in 1..Len(heard') :
              k = 1 \/ (k - 1 \in 1..(FrameMax - 1) /\ k - 1 \in 1..Len(heard))
<1>1. heard \in Seq(Heard) /\ Len(heard) <= FrameMax /\ Len(heard) \in Nat
  BY Split
<1>2. /\ Len(heard') \in 1..FrameMax
      /\ Len(heard') \in {Len(heard), Len(heard) + 1}
      /\ heard'[Len(heard')] = [byte |-> c, idle |-> state = "start"]
      /\ \A k \in 1..(FrameMax - 1) : k <= Len(heard) =>
           /\ k + 1 <= Len(heard')
           /\ heard'[Len(heard') - k] = heard[Len(heard) - k + 1]
  BY <1>1, Hearing
<1>3. Ago(heard', 1) = [byte |-> c, idle |-> state = "start"]
  <2>1. Len(heard') - 1 + 1 = Len(heard')
    BY <1>2, FrameMaxType
  <2> QED
    BY <1>2, <2>1 DEF Ago
<1>4. /\ Ago(heard', 1).byte = c
      /\ Ago(heard', 1).idle = (state = "start")
  <2>1. [byte |-> c, idle |-> state = "start"].byte = c
    OBVIOUS
  <2>2. [byte |-> c, idle |-> state = "start"].idle = (state = "start")
    OBVIOUS
  <2> QED
    BY <1>3, <2>1, <2>2, Zenon
<1>5. ASSUME NEW k \in 1..(FrameMax - 1), k <= Len(heard)
      PROVE  Ago(heard', k + 1) = Ago(heard, k)
  <2>1. Len(heard') - (k + 1) + 1 = Len(heard') - k
    BY <1>2, FrameMaxType
  <2>2. heard'[Len(heard') - k] = heard[Len(heard) - k + 1]
    BY <1>2, <1>5
  <2>3. Ago(heard', k + 1) = heard'[Len(heard') - k]
    BY <2>1, Zenon DEF Ago
  <2> QED
    BY <2>2, <2>3, Zenon DEF Ago
<1>6. ASSUME NEW k \in 1..Len(heard'), k # 1
      PROVE  k - 1 \in 1..(FrameMax - 1) /\ k - 1 \in 1..Len(heard)
  BY <1>1, <1>2, <1>6, FrameMaxType
<1> QED
  BY <1>4, <1>5, <1>6, Zenon

-----------------------------------------------------------------------------
(* Sums.                                                                    *)

(* Nothing adds up to nothing.                                              *)
LEMMA AddsNothing ==
  \E s \in [0..0 -> Byte] : Adds(s, <<>>) /\ s[0] = 0
<1> DEFINE s == [i \in 0..0 |-> 0]
<1>1. s \in [0..0 -> Byte] /\ s[0] = 0
  BY ByteType
<1>2. Adds(s, <<>>)
  BY <1>1 DEF Adds
<1> QED
  BY <1>1, <1>2

(* One more byte is added with it.                                          *)
LEMMA AddsByte ==
  ASSUME NEW b \in Seq(Byte), NEW c \in Byte, NEW s \in [0..Len(b) -> Byte], Adds(s, b)
  PROVE  \E t \in [0..(Len(b) + 1) -> Byte] :
           Adds(t, Append(b, c)) /\ t[Len(b) + 1] = (s[Len(b)] + c) % Modulus
<1> DEFINE n == Len(b)
           a == Append(b, c)
           t == [i \in 0..(n + 1) |-> IF i = n + 1 THEN (s[n] + c) % Modulus ELSE s[i]]
<1>1. n \in Nat /\ Len(a) = n + 1 /\ a[n + 1] = c /\ \A i \in 1..n : a[i] = b[i]
  OBVIOUS
<1>2. (s[n] + c) % Modulus \in Byte
  <2>1. s[n] \in Byte
    BY <1>1
  <2> HIDE DEF n
  <2> QED
    BY <2>1, ByteType
<1>3. t \in [0..(n + 1) -> Byte]
  <2> HIDE DEF n
  <2>1. \A i \in 0..(n + 1) : i = n + 1 \/ i \in 0..n
    BY <1>1
  <2>2. s \in [0..n -> Byte]
    BY DEF n
  <2> QED
    BY <1>2, <2>1, <2>2
<1>4. t[n + 1] = (s[n] + c) % Modulus /\ \A i \in 0..n : t[i] = s[i]
  <2> HIDE DEF n
  <2>1. n + 1 \in 0..(n + 1) /\ \A i \in 0..n : i \in 0..(n + 1) /\ i # n + 1
    BY <1>1
  <2> QED
    BY <2>1
<1>5. Adds(t, a)
  <2>1. t[0] = 0
    <3>1. s[0] = 0 /\ 0 \in 0..n
      BY <1>1 DEF Adds
    <3> HIDE DEF t, n
    <3> QED
      BY <1>4, <3>1
  <2>2. ASSUME NEW i \in 1..(n + 1) PROVE t[i] = (t[i - 1] + a[i]) % Modulus
    <3> HIDE DEF t, a
    <3>1. CASE i = n + 1
      <4>1. i - 1 = n /\ n \in 0..n
        BY <1>1, <3>1
      <4> HIDE DEF n
      <4> QED
        BY <1>1, <1>4, <3>1, <4>1
    <3>2. CASE i # n + 1
      <4>1. i \in 1..n /\ i \in 0..n /\ i - 1 \in 0..n
        BY <1>1, <3>2
      <4>2. s[i] = (s[i - 1] + b[i]) % Modulus
        BY <4>1 DEF Adds
      <4> HIDE DEF n
      <4> QED
        BY <1>1, <1>4, <4>1, <4>2
    <3> QED
      BY <3>1, <3>2
  <2> HIDE DEF t, a, n
  <2> QED
    BY <1>1, <2>1, <2>2 DEF Adds
<1> QED
  BY <1>3, <1>4, <1>5

-----------------------------------------------------------------------------
(* Every byte is recorded where the frame under way has it.                 *)

LEMMA ReceiveFacts ==
  ASSUME TypeOK, Placed, NEW c \in Byte, Receive(c)
  PROVE  /\ ParserTypeOK
         /\ WaitStart(c) \/ GetOpcode(c) \/ GetLength(c) \/ GetData(c) \/ CrcCheck(c)
         /\ Hear(c)
         /\ Inside \in 0..(FrameMax - 1)
         /\ state' # "start" => Inside' = Inside + 1
         /\ state # "start" => Inside >= 1 /\ Inside <= Len(heard)
         /\ Len(buf) \in Nat /\ len \in Nat /\ LenMax \in Nat
<1>1. /\ ParserTypeOK
      /\ WaitStart(c) \/ GetOpcode(c) \/ GetLength(c) \/ GetData(c) \/ CrcCheck(c)
      /\ Hear(c)
  BY Split DEF Receive
<1>2. /\ Inside \in 0..(FrameMax - 1)
      /\ state # "start" => Inside >= 1
      /\ state' # "start" => Inside' = Inside + 1
  BY <1>1, InsideStep
<1>3. Len(buf) \in Nat /\ len \in Nat /\ LenMax \in Nat
  BY <1>1, ByteType, FrameParserAssumption DEF ParserTypeOK
<1> QED
  BY <1>1, <1>2, <1>3 DEF Placed

LEMMA RecordedStep ==
  ASSUME TypeOK, Placed, Recorded, NEW c \in Byte, Receive(c)
  PROVE  Recorded'
<1>1. /\ ParserTypeOK
      /\ WaitStart(c) \/ GetOpcode(c) \/ GetLength(c) \/ GetData(c) \/ CrcCheck(c)
      /\ Hear(c)
      /\ Inside \in 0..(FrameMax - 1)
      /\ state' # "start" => Inside' = Inside + 1
      /\ state # "start" => Inside >= 1 /\ Inside <= Len(heard)
      /\ Len(buf) \in Nat /\ len \in Nat /\ LenMax \in Nat
  BY ReceiveFacts
<1>2. /\ Ago(heard', 1).byte = c
      /\ \A k \in 1..(FrameMax - 1) :
           k <= Len(heard) => Ago(heard', k + 1) = Ago(heard, k)
  BY <1>1, Aged, Zenon
<1> SUFFICES ASSUME state' # "start"
             PROVE  /\ Ago(heard', Inside').byte = Start
                    /\ Inside' >= 2 => opcode' = Ago(heard', Inside' - 1).byte
                    /\ Inside' >= 3 => len' = Ago(heard', Inside' - 2).byte
                    /\ \A i \in 1..Len(buf') :
                         buf'[i] = Ago(heard', Inside' - 2 - i).byte
                    /\ \E s \in [0..Len(buf') -> Byte] :
                         Adds(s, buf') /\ crc' = s[Len(buf')]
                    /\ state' = "crc" => len' # 0
  BY DEF Recorded
<1>3. ASSUME buf' = <<>>, crc' = 0
      PROVE  /\ \A i \in 1..Len(buf') : buf'[i] = Ago(heard', Inside' - 2 - i).byte
             /\ \E s \in [0..Len(buf') -> Byte] :
                  Adds(s, buf') /\ crc' = s[Len(buf')]
  <2>1. Len(buf') = 0
    BY <1>3
  <2> QED
    BY <1>3, <2>1, AddsNothing
<1>4. CASE state = "start"
  <2>1. /\ state' = "opcode" /\ c = Start /\ buf' = <<>> /\ crc' = 0
        /\ Inside' = 0 + 1
    BY <1>1, <1>4 DEF WaitStart, GetOpcode, GetLength, GetData, CrcCheck, Goto, Inside
  <2> QED
    BY <1>2, <1>3, <2>1
<1>5. CASE state # "start"
  <2>1. /\ Inside \in 1..(FrameMax - 1) /\ Inside <= Len(heard)
        /\ Inside' = Inside + 1 /\ FrameMax \in Nat
    BY <1>1, <1>5, FrameMaxType
  <2>2. /\ Ago(heard, Inside).byte = Start
        /\ Inside >= 2 => opcode = Ago(heard, Inside - 1).byte
        /\ Inside >= 3 => len = Ago(heard, Inside - 2).byte
        /\ \A i \in 1..Len(buf) : buf[i] = Ago(heard, Inside - 2 - i).byte
        /\ \E s \in [0..Len(buf) -> Byte] : Adds(s, buf) /\ crc = s[Len(buf)]
    BY <1>5 DEF Recorded
  <2>3. Ago(heard', Inside').byte = Start
    BY <1>2, <2>1, <2>2
  <2>4. CASE GetOpcode(c)
    <3>1. /\ state = "opcode" /\ state' = "length" /\ opcode' = c
          /\ len' = len /\ buf' = buf /\ crc' = crc
      BY <2>4 DEF GetOpcode, Goto
    <3>2. Inside = 1 /\ buf = <<>>
      BY <1>1, <3>1 DEF Inside, ParserTypeOK
    <3>3. Inside' - 1 = 1 /\ ~(Inside' >= 3)
      BY <2>1, <3>2
    <3>4. Len(buf') = 0
      BY <3>1, <3>2
    <3>5. /\ \A i \in 1..Len(buf') : buf'[i] = Ago(heard', Inside' - 2 - i).byte
          /\ \E s \in [0..Len(buf') -> Byte] : Adds(s, buf') /\ crc' = s[Len(buf')]
      <4>1. 1..Len(buf') = {}
        BY <3>4
      <4> QED
        BY <2>2, <3>1, <4>1
    <3> QED
      BY <1>2, <2>3, <3>1, <3>3, <3>5
  <2>5. CASE GetLength(c)
    <3>1. /\ state = "length" /\ state' = "data" /\ opcode' = opcode
          /\ len' = c /\ buf' = buf /\ crc' = crc
      BY <2>5 DEF GetLength, Goto
    <3>2. Inside = 2 /\ buf = <<>>
      BY <1>1, <3>1 DEF Inside, ParserTypeOK
    <3>3. Inside' - 1 = 1 + 1 /\ Inside' - 2 = 1 /\ Inside - 1 = 1 /\ 1 \in 1..(FrameMax - 1)
          /\ 1 <= Len(heard)
      BY <2>1, <3>2
    <3>4. Len(buf') = 0
      BY <3>1, <3>2
    <3>5. /\ \A i \in 1..Len(buf') : buf'[i] = Ago(heard', Inside' - 2 - i).byte
          /\ \E s \in [0..Len(buf') -> Byte] : Adds(s, buf') /\ crc' = s[Len(buf')]
      <4>1. 1..Len(buf') = {}
        BY <3>4
      <4> QED
        BY <2>2, <3>1, <4>1
    <3>6. opcode' = Ago(heard', Inside' - 1).byte
      BY <1>2, <2>2, <3>1, <3>2, <3>3
    <3> QED
      BY <1>2, <2>3, <3>1, <3>3, <3>5, <3>6
  <2>6. CASE GetData(c)
    <3>1. /\ state = "data" /\ state' = IF Len(buf) + 1 = len THEN "crc" ELSE "data"
          /\ opcode' = opcode /\ len' = len
          /\ buf' = Append(buf, c) /\ crc' = (crc + c) % Modulus
      BY <2>6 DEF GetData, Goto
    <3>2. Inside = 3 + Len(buf)
      BY <3>1 DEF Inside
    <3>3. buf \in Seq(Byte)
      BY <1>1 DEF ParserTypeOK
    <3>4. /\ Len(buf') = Len(buf) + 1 /\ buf'[Len(buf) + 1] = c
          /\ \A i \in 1..Len(buf) : buf'[i] = buf[i]
      BY <3>1, <3>3
    <3>5. opcode' = Ago(heard', Inside' - 1).byte
      <4>1. /\ Inside' - 1 = (Inside - 1) + 1 /\ Inside - 1 \in 1..(FrameMax - 1)
            /\ Inside - 1 <= Len(heard) /\ Inside >= 2
        BY <1>1, <2>1, <3>2
      <4> QED
        BY <1>2, <2>2, <3>1, <4>1
    <3>6. len' = Ago(heard', Inside' - 2).byte
      <4>1. /\ Inside' - 2 = (Inside - 2) + 1 /\ Inside - 2 \in 1..(FrameMax - 1)
            /\ Inside - 2 <= Len(heard) /\ Inside >= 3
        BY <1>1, <2>1, <3>2
      <4> QED
        BY <1>2, <2>2, <3>1, <4>1
    <3>7. ASSUME NEW i \in 1..Len(buf')
          PROVE  buf'[i] = Ago(heard', Inside' - 2 - i).byte
      <4>1. CASE i = Len(buf) + 1
        <5>1. Inside' - 2 - i = 1
          BY <1>1, <2>1, <3>2, <4>1
        <5> QED
          BY <1>2, <3>4, <4>1, <5>1
      <4>2. CASE i # Len(buf) + 1
        <5>1. i \in 1..Len(buf)
          BY <1>1, <3>4, <4>2
        <5>2. /\ Inside' - 2 - i = (Inside - 2 - i) + 1
              /\ Inside - 2 - i \in 1..(FrameMax - 1)
              /\ Inside - 2 - i <= Len(heard)
          BY <1>1, <2>1, <3>2, <5>1
        <5> QED
          BY <1>2, <2>2, <3>4, <5>1, <5>2
      <4> QED
        BY <4>1, <4>2
    <3>8. \E s \in [0..Len(buf') -> Byte] : Adds(s, buf') /\ crc' = s[Len(buf')]
      <4>1. PICK s \in [0..Len(buf) -> Byte] : Adds(s, buf) /\ crc = s[Len(buf)]
        BY <2>2
      <4>2. \E t \in [0..(Len(buf) + 1) -> Byte] :
              Adds(t, Append(buf, c)) /\ t[Len(buf) + 1] = (s[Len(buf)] + c) % Modulus
        BY <3>3, <4>1, AddsByte
      <4> QED
        BY <3>1, <3>4, <4>1, <4>2
    <3>9. state' = "crc" => len' # 0
      BY <1>1, <3>1
    <3> QED
      BY <2>3, <3>5, <3>6, <3>7, <3>8, <3>9
  <2> QED
    BY <1>1, <1>5, <2>4, <2>5, <2>6 DEF WaitStart, CrcCheck, Goto
<1> QED
  BY <1>4, <1>5

(* A frame that opened is the one under way until its payload ends.         *)
LEMMA TrackedStep ==
  ASSUME TypeOK, Placed, Recorded, Tracked, NEW c \in Byte, Receive(c)
  PROVE  Tracked'
<1>1. /\ ParserTypeOK
      /\ WaitStart(c) \/ GetOpcode(c) \/ GetLength(c) \/ GetData(c) \/ CrcCheck(c)
      /\ Hear(c)
      /\ Inside \in 0..(FrameMax - 1)
      /\ state' # "start" => Inside' = Inside + 1
      /\ state # "start" => Inside >= 1 /\ Inside <= Len(heard)
      /\ Len(buf) \in Nat /\ len \in Nat /\ LenMax \in Nat
  BY ReceiveFacts
<1>2. /\ Ago(heard', 1).byte = c
      /\ Ago(heard', 1).idle = (state = "start")
      /\ \A k \in 1..(FrameMax - 1) :
           k <= Len(heard) => Ago(heard', k + 1) = Ago(heard, k)
      /\ \A k \in 1..Len(heard') :
           k = 1 \/ (k - 1 \in 1..(FrameMax - 1) /\ k - 1 \in 1..Len(heard))
  BY <1>1, Aged, Zenon
<1> SUFFICES ASSUME NEW k \in 1..Len(heard'), Opened(heard', k)
             PROVE  state' # "start" /\ Inside' = k
  BY DEF Tracked
<1>3. CASE k = 1
  <2>1. state = "start" /\ c = Start
    BY <1>2, <1>3 DEF Opened
  <2>2. state' = "opcode"
    BY <1>1, <2>1 DEF WaitStart, GetOpcode, GetLength, GetData, CrcCheck, Goto
  <2>3. Inside = 0
    BY <2>1 DEF Inside
  <2> QED
    BY <1>1, <1>3, <2>2, <2>3
<1>4. CASE k # 1
  <2> DEFINE j == k - 1
  <2>1. /\ j \in 1..(FrameMax - 1) /\ j \in 1..Len(heard) /\ k = j + 1
        /\ j \in Nat /\ j >= 1
    <3>1. k \in Int
      OBVIOUS
    <3>2. j \in 1..(FrameMax - 1) /\ j \in 1..Len(heard)
      BY <1>2, <1>4
    <3> QED
      BY <3>1, <3>2, FrameMaxType
  <2>2. \A m \in 1..j : m \in 1..(FrameMax - 1) /\ m <= Len(heard)
    <3>1. Len(heard) \in Nat
      BY Split
    <3> QED
      BY <2>1, <3>1, FrameMaxType
  <2> HIDE DEF j
  <2>3. Ago(heard', k) = Ago(heard, j)
    BY <1>2, <2>1, <2>2
  <2>4. ASSUME j >= 2
        PROVE  /\ k >= 3
               /\ j >= 3 => Ago(heard', k - 2) = Ago(heard, j - 2)
               /\ j = 2 => k - 2 = 1
    <3>1. k >= 3 /\ (j >= 3 => j - 2 \in 1..j /\ k - 2 = (j - 2) + 1) /\ (j = 2 => k - 2 = 1)
      BY <2>1, <2>4
    <3> QED
      BY <1>2, <2>2, <3>1
  <2>5. k >= 3 => /\ Ago(heard', k - 2).byte \in 1..LenMax
                  /\ k <= 3 + Ago(heard', k - 2).byte
    BY DEF Opened
  <2>6. Opened(heard, j)
    <3>1. Ago(heard, j).idle /\ Ago(heard, j).byte = Start
      BY <2>3 DEF Opened
    <3>2. j >= 3 => /\ Ago(heard, j - 2).byte \in 1..LenMax
                    /\ j <= 3 + Ago(heard, j - 2).byte
      BY <1>1, <2>1, <2>4, <2>5
    <3> QED
      BY <3>1, <3>2 DEF Opened
  <2>7. state # "start" /\ Inside = j
    BY <2>1, <2>6 DEF Tracked
  <2>8. ASSUME j >= 3 PROVE /\ len \in 1..LenMax /\ j + 1 <= 3 + len
    <3>1. len = Ago(heard, j - 2).byte
      BY <2>7, <2>8 DEF Recorded
    <3> QED
      BY <2>1, <2>4, <2>5, <2>8, <3>1
  <2>9. state' # "start"
    <3>1. CASE state \in {"opcode", "length"}
      BY <1>1, <2>7, <3>1 DEF WaitStart, GetOpcode, GetLength, GetData, CrcCheck, Goto
    <3>2. CASE state = "data"
      <4>1. j = 3 + Len(buf)
        BY <2>7, <3>2 DEF Inside
      <4>2. ~(Len(buf) >= len \/ len > LenMax)
        BY <1>1, <2>1, <2>8, <4>1
      <4> QED
        BY <1>1, <3>2, <4>2 DEF WaitStart, GetOpcode, GetLength, GetData, CrcCheck, Goto
    <3>3. CASE state = "crc"
      <4>1. j = 3 + len
        BY <2>7, <3>3 DEF Inside
      <4> QED
        BY <1>1, <2>1, <2>8, <4>1
    <3> QED
      BY <1>1, <2>7, <3>1, <3>2, <3>3 DEF ParserTypeOK
  <2> QED
    BY <1>1, <2>1, <2>7, <2>9
<1> QED
  BY <1>3, <1>4

-----------------------------------------------------------------------------
(* The sender's sum is the parser's.                                        *)

\* f is the recursive function PayloadSum evaluates.
SumOf(h, f) ==
  f = [i \in 3..(Len(h) - 1) |->
         IF i = 3 THEN 0 ELSE (f[i - 1] + h[i].byte) % Modulus]

(* A nonempty set of numbers has a least element.                           *)
LEMMA Least ==
  ASSUME NEW T \in SUBSET Nat, T # {}
  PROVE  \E n \in T : \A m \in T : n <= m
<1>1. PICK n \in T : \A m \in T : <<m, n>> \notin OpToRel(<, Nat)
  BY WFMin, NatLessThanWellFounded, Zenon
<1>2. \A m \in T : ~(m < n)
  BY <1>1, Zenon DEF OpToRel
<1> QED
  BY <1>2

(* Whatever function satisfies the recursion, and one does, it ends in the  *)
(* sum of the payload: there is no first byte at which the two differ.      *)
LEMMA SumIsAdds ==
  ASSUME NEW h, NEW b \in Seq(Byte), Len(h) = Len(b) + 4,
         \A i \in 1..Len(b) : h[i + 3].byte = b[i],
         NEW s \in [0..Len(b) -> Byte], Adds(s, b)
  PROVE  PayloadSum(h) = s[Len(b)]
<1> DEFINE n == Len(b)
<1>1. /\ n \in Nat /\ Len(h) - 1 = n + 3
      /\ s[0] = 0
      /\ \A i \in 1..n : s[i] = (s[i - 1] + h[i + 3].byte) % Modulus
  <2>1. \A i \in 1..n : s[i] = (s[i - 1] + h[i + 3].byte) % Modulus
    BY DEF Adds
  <2> QED
    BY <2>1 DEF Adds
<1>2. SUFFICES s[n] = PayloadSum(h)
  BY DEF n
<1> HIDE DEF n
<1>3. PayloadSum(h) = (CHOOSE f : SumOf(h, f))[Len(h) - 1]
  BY DEF PayloadSum, SumOf
<1>4. \E f : SumOf(h, f)
  <2> DEFINE g == [i \in 3..(n + 3) |-> s[i - 3]]
  <2>1. ASSUME NEW i \in 3..(n + 3)
        PROVE  g[i] = IF i = 3 THEN 0 ELSE (g[i - 1] + h[i].byte) % Modulus
    <3>1. CASE i = 3
      BY <1>1, <3>1
    <3>2. CASE i # 3
      <4>1. i - 3 \in 1..n /\ i - 1 \in 3..(n + 3) /\ (i - 3) - 1 = (i - 1) - 3 /\ (i - 3) + 3 = i
        BY <1>1, <3>2
      <4>2. s[i - 3] = (s[(i - 3) - 1] + h[(i - 3) + 3].byte) % Modulus
        BY <1>1, <4>1
      <4>3. g[i] = s[i - 3] /\ g[i - 1] = s[(i - 1) - 3]
        BY <4>1
      <4> HIDE DEF g
      <4> QED
        BY <3>2, <4>1, <4>2, <4>3
    <3> QED
      BY <3>1, <3>2
  <2>2. g = [i \in 3..(n + 3) |-> g[i]]
    OBVIOUS
  <2> HIDE DEF g
  <2>3. g = [i \in 3..(n + 3) |->
               IF i = 3 THEN 0 ELSE (g[i - 1] + h[i].byte) % Modulus]
    BY <2>1, <2>2
  <2>4. SumOf(h, g)
    BY <1>1, <2>3 DEF SumOf
  <2> QED
    BY <2>4
<1>5. ASSUME NEW f, SumOf(h, f) PROVE f[n + 3] = s[n]
  <2>1. \A i \in 3..(n + 3) :
          f[i] = IF i = 3 THEN 0 ELSE (f[i - 1] + h[i].byte) % Modulus
    BY <1>1, <1>5 DEF SumOf
  <2> DEFINE T == {k \in 0..n : f[k + 3] # s[k]}
  <2>2. ASSUME T # {} PROVE FALSE
    <3>1. T \in SUBSET Nat
      OBVIOUS
    <3>2. PICK k \in T : \A m \in T : k <= m
      <4> HIDE DEF T
      <4> QED
        BY <2>2, <3>1, Least
    <3>3. k \in 0..n /\ f[k + 3] # s[k]
      OBVIOUS
    <3>4. CASE k = 0
      <4>1. 3 \in 3..(n + 3) /\ k + 3 = 3
        BY <1>1, <3>4
      <4>2. f[3] = 0
        BY <2>1, <4>1, Zenon
      <4> QED
        BY <1>1, <3>3, <3>4, <4>1, <4>2
    <3>5. CASE k # 0
      <4>1. /\ k - 1 \in 0..n /\ ~(k <= k - 1) /\ k \in 1..n
            /\ k + 3 \in 3..(n + 3) /\ k + 3 # 3 /\ (k + 3) - 1 = (k - 1) + 3
        <5>1. n \in Nat /\ k \in 0..n
          BY <1>1, <3>3
        <5> HIDE DEF T
        <5> QED
          BY <3>5, <5>1
      <4>2. f[(k - 1) + 3] = s[k - 1]
        BY <3>2, <4>1
      <4>3. f[k + 3] = (f[(k + 3) - 1] + h[k + 3].byte) % Modulus
        BY <2>1, <4>1
      <4>4. s[k] = (s[k - 1] + h[k + 3].byte) % Modulus
        BY <1>1, <4>1
      <4> QED
        BY <3>3, <4>1, <4>2, <4>3, <4>4
    <3> QED
      BY <3>4, <3>5
  <2>3. n \in 0..n
    BY <1>1
  <2> QED
    BY <2>2, <2>3
<1>6. SumOf(h, CHOOSE f : SumOf(h, f))
  BY <1>4
<1> QED
  BY <1>1, <1>3, <1>5, <1>6

-----------------------------------------------------------------------------
(* A frame recognised is the frame received, and the reverse.               *)

\* Last(n), of any bytes remembered.
Recent(h, n) == SubSeq(h, Len(h) - n + 1, Len(h))

(* The last n bytes, counted from the first of them and from the last.      *)
LEMMA RecentFacts ==
  ASSUME NEW h \in Seq(Heard), NEW n \in 1..Len(h)
  PROVE  Len(Recent(h, n)) = n /\ \A j \in 1..n : Recent(h, n)[j] = Ago(h, n - j + 1)
<1> DEFINE a == Len(h) - n + 1
<1>1. Len(h) \in Nat /\ a \in 1..Len(h) /\ Len(h) - a + 1 = n
  OBVIOUS
<1>2. /\ Len(SubSeq(h, a, Len(h))) = n
      /\ \A j \in 1..n : SubSeq(h, a, Len(h))[j] = h[a + j - 1]
  BY <1>1
<1>3. \A j \in 1..n : a + j - 1 = Len(h) - (n - j + 1) + 1
  OBVIOUS
<1> QED
  BY <1>2, <1>3 DEF Recent, Ago

(* What the byte that ends a frame finds.                                   *)
Framed == TypeOK /\ Placed /\ Recorded /\ Tracked

(* With its sum, the frame under way is the last bytes received.            *)
LEMMA Complete ==
  ASSUME Framed, NEW c \in Byte, Receive(c), state = "crc",
         NEW m, m = Len(buf) + 4, NEW l, l = Recent(heard', m)
  PROVE  /\ m \in 5..Len(heard') /\ m <= FrameMax /\ Len(l) = m /\ Inside = m - 1
         /\ l[1].byte = Start /\ l[2].byte = opcode /\ l[3].byte = m - 4
         /\ \A i \in 1..Len(buf) : l[i + 3].byte = buf[i]
         /\ l[m].byte = c
         /\ PayloadSum(l) = crc
<1>1. TypeOK /\ Placed /\ Recorded
  BY DEF Framed
<1>2. /\ ParserTypeOK /\ Hear(c)
      /\ Inside \in 0..(FrameMax - 1) /\ Inside >= 1 /\ Inside <= Len(heard)
      /\ Len(buf) \in Nat /\ len \in Nat /\ LenMax \in Nat
  BY <1>1, ReceiveFacts
<1>3. heard \in Seq(Heard) /\ Len(heard) <= FrameMax /\ Len(heard) \in Nat
  BY <1>1, Split
<1>4. /\ heard' \in Seq(Heard) /\ Len(heard') \in Nat
      /\ \A k \in 1..(FrameMax - 1) : k <= Len(heard) => k + 1 <= Len(heard')
  <2>1. /\ heard' \in Seq(Heard) /\ Len(heard') \in 1..FrameMax
        /\ \A k \in 1..(FrameMax - 1) : k <= Len(heard) =>
             /\ k + 1 <= Len(heard')
             /\ heard'[Len(heard') - k] = heard[Len(heard) - k + 1]
    BY <1>2, <1>3, Hearing, Zenon
  <2> QED
    BY <2>1
<1>5. /\ Ago(heard', 1).byte = c
      /\ \A k \in 1..(FrameMax - 1) :
           k <= Len(heard) => Ago(heard', k + 1) = Ago(heard, k)
  BY <1>1, <1>2, Aged, Zenon
<1>6. /\ Len(buf) = len /\ len # 0 /\ Len(buf) <= LenMax /\ Inside = 3 + len
      /\ buf \in Seq(Byte)
  BY <1>1, <1>2 DEF Recorded, ParserTypeOK, Inside
<1>7. /\ m \in Nat /\ Inside = m - 1 /\ m >= 5 /\ m <= FrameMax
  BY <1>2, <1>6, FrameMaxType
<1>8. m <= Len(heard')
  BY <1>2, <1>4, <1>7
<1>9. Len(l) = m /\ \A j \in 1..m : l[j] = Ago(heard', m - j + 1)
  <2>1. m \in 1..Len(heard')
    BY <1>4, <1>7, <1>8
  <2> QED
    BY <1>4, <2>1, RecentFacts
<1>10. ASSUME NEW j \in 1..(m - 1) PROVE l[j] = Ago(heard, m - j)
  <2>1. /\ j \in 1..m /\ m - j + 1 = (m - j) + 1
        /\ m - j \in 1..(FrameMax - 1) /\ m - j <= Len(heard)
    BY <1>2, <1>3, <1>7, FrameMaxType
  <2> QED
    BY <1>5, <1>9, <2>1
<1>11. /\ Ago(heard, Inside).byte = Start
       /\ opcode = Ago(heard, Inside - 1).byte
       /\ len = Ago(heard, Inside - 2).byte
       /\ \A i \in 1..Len(buf) : buf[i] = Ago(heard, Inside - 2 - i).byte
  BY <1>1, <1>6, <1>2 DEF Recorded
<1>12. l[1].byte = Start /\ l[2].byte = opcode /\ l[3].byte = m - 4
  <2>1. /\ 1 \in 1..(m - 1) /\ 2 \in 1..(m - 1) /\ 3 \in 1..(m - 1)
        /\ m - 1 = Inside /\ m - 2 = Inside - 1 /\ m - 3 = Inside - 2
        /\ len = m - 4
    BY <1>6, <1>7
  <2> QED
    BY <1>10, <1>11, <2>1
<1>13. ASSUME NEW i \in 1..Len(buf) PROVE l[i + 3].byte = buf[i]
  <2>1. i + 3 \in 1..(m - 1) /\ m - (i + 3) = Inside - 2 - i
    BY <1>2, <1>7
  <2> QED
    BY <1>10, <1>11, <2>1
<1>14. l[m].byte = c
  <2>1. m \in 1..m /\ m - m + 1 = 1
    BY <1>7
  <2> QED
    BY <1>5, <1>9, <2>1
<1>15. PayloadSum(l) = crc
  <2>1. PICK s \in [0..Len(buf) -> Byte] : Adds(s, buf) /\ crc = s[Len(buf)]
    BY <1>1 DEF Recorded
  <2>2. Len(l) = Len(buf) + 4
    BY <1>9
  <2>3. PayloadSum(l) = s[Len(buf)]
    BY <1>6, <1>13, <2>1, <2>2, SumIsAdds
  <2> QED
    BY <2>1, <2>3
<1>16. m \in 5..Len(heard')
  BY <1>4, <1>7, <1>8
<1> QED
  BY <1>7, <1>9, <1>12, <1>13, <1>14, <1>15, <1>16

LEMMA InventedStep ==
  ASSUME Framed, NEW c \in Byte, Receive(c)
  PROVE  NothingInvented'
<1> SUFFICES ASSUME NEW f \in got'
             PROVE  \E n \in WholeFrames' : Decoded(Last(n)') = f
  BY DEF NothingInvented
<1>1. state = "crc" /\ crc = c /\ f = [opcode |-> opcode, data |-> buf]
  BY DEF Receive, WaitStart, GetOpcode, GetLength, GetData, CrcCheck
<1>2. PICK m : m = Len(buf) + 4
  OBVIOUS
<1>3. PICK l : l = Recent(heard', m)
  OBVIOUS
<1>4. Last(m)' = l
  BY <1>3 DEF Last, Recent
<1>5. /\ m \in 5..Len(heard') /\ m <= FrameMax /\ Len(l) = m
      /\ l[1].byte = Start /\ l[2].byte = opcode /\ l[3].byte = m - 4
      /\ \A i \in 1..Len(buf) : l[i + 3].byte = buf[i]
      /\ l[m].byte = c
      /\ PayloadSum(l) = crc
  <2>1. state = "crc"
    BY <1>1
  <2>2. \A x, y : x = Len(buf) + 4 /\ y = Recent(heard', x) =>
          /\ x \in 5..Len(heard') /\ x <= FrameMax /\ Len(y) = x /\ Inside = x - 1
          /\ y[1].byte = Start /\ y[2].byte = opcode /\ y[3].byte = x - 4
          /\ \A i \in 1..Len(buf) : y[i + 3].byte = buf[i]
          /\ y[x].byte = c
          /\ PayloadSum(y) = crc
    BY <2>1, Complete
  <2> QED
    BY <1>2, <1>3, <2>2, Zenon
<1>6. m \in 5..FrameMax /\ Len(l) - 4 = Len(buf)
  BY <1>2, <1>5, FrameMaxType, Split DEF Framed, ParserTypeOK
<1>7. WellFormed(l)
  BY <1>1, <1>5, <1>6 DEF WellFormed
<1>8. m \in WholeFrames'
  BY <1>4, <1>5, <1>7 DEF WholeFrames
<1>9. Decoded(l) = f
  <2>1. buf = [i \in 1..Len(buf) |-> buf[i]]
    BY Split DEF Framed, ParserTypeOK
  <2>2. [i \in 1..(Len(l) - 4) |-> l[i + 3].byte] = buf
    BY <1>5, <1>6, <2>1
  <2> QED
    BY <1>1, <1>5, <2>2 DEF Decoded
<1> QED
  BY <1>4, <1>8, <1>9

LEMMA MissedStep ==
  ASSUME Framed, NEW c \in Byte, Receive(c)
  PROVE  NothingMissed'
<1> SUFFICES ASSUME NEW m \in WholeFrames', Last(m)'[1].idle
             PROVE  Decoded(Last(m)') \in got'
  BY DEF NothingMissed
<1>1. PICK l : l = Recent(heard', m)
  OBVIOUS
<1>2. Last(m)' = l
  BY <1>1 DEF Last, Recent
<1>3. m \in 5..Len(heard') /\ WellFormed(l) /\ l[1].idle
  BY <1>2 DEF WholeFrames
<1>4. TypeOK /\ Placed /\ Recorded /\ Tracked
  BY DEF Framed
<1>5. /\ ParserTypeOK /\ Hear(c)
      /\ WaitStart(c) \/ GetOpcode(c) \/ GetLength(c) \/ GetData(c) \/ CrcCheck(c)
      /\ Len(buf) \in Nat /\ len \in Nat /\ LenMax \in Nat
  BY <1>4, ReceiveFacts
<1>6. /\ heard \in Seq(Heard) /\ Len(heard) <= FrameMax /\ Len(heard) \in Nat
      /\ heard' \in Seq(Heard) /\ Len(heard') \in Nat
      /\ Len(heard') <= Len(heard) + 1 /\ Len(heard') <= FrameMax
  <2>1. heard \in Seq(Heard) /\ Len(heard) <= FrameMax /\ Len(heard) \in Nat
    BY <1>4, Split
  <2>2. /\ heard' \in Seq(Heard) /\ Len(heard') \in 1..FrameMax
        /\ Len(heard') \in {Len(heard), Len(heard) + 1}
    BY <1>5, <2>1, Hearing, Zenon
  <2> QED
    BY <2>1, <2>2, FrameMaxType
<1>7. m \in 1..Len(heard') /\ m \in Nat /\ m >= 5 /\ m - 1 \in 1..(FrameMax - 1)
      /\ m - 1 <= Len(heard)
  BY <1>3, <1>6, FrameMaxType
<1>8. Len(l) = m /\ \A j \in 1..m : l[j] = Ago(heard', m - j + 1)
  BY <1>1, <1>6, <1>7, RecentFacts
<1>9. /\ Ago(heard', 1).byte = c
      /\ \A k \in 1..(FrameMax - 1) :
           k <= Len(heard) => Ago(heard', k + 1) = Ago(heard, k)
  BY <1>4, <1>5, Aged, Zenon
<1>10. l[1] = Ago(heard, m - 1) /\ l[3] = Ago(heard, m - 3) /\ l[m].byte = c
  <2>1. /\ 1 \in 1..m /\ 3 \in 1..m /\ m \in 1..m
        /\ m - 1 + 1 = (m - 1) + 1 /\ m - 3 + 1 = (m - 3) + 1 /\ m - m + 1 = 1
        /\ m - 3 \in 1..(FrameMax - 1) /\ m - 3 <= Len(heard)
    BY <1>6, <1>7, FrameMaxType
  <2> QED
    BY <1>7, <1>8, <1>9, <2>1
<1>11. /\ m \in 5..FrameMax /\ l[1].byte = Start /\ l[3].byte = m - 4
       /\ l[m].byte = PayloadSum(l)
  BY <1>3, <1>8 DEF WellFormed
<1>12. state # "start" /\ Inside = m - 1
  <2>1. Opened(heard, m - 1)
    <3>1. Ago(heard, (m - 1) - 2).byte = m - 4
      <4>1. (m - 1) - 2 = m - 3
        BY <1>7
      <4> QED
        BY <1>10, <1>11, <4>1
    <3>2. m - 4 \in 1..LenMax /\ m - 1 <= 3 + (m - 4)
      BY <1>5, <1>11, FrameMaxType
    <3> QED
      BY <1>3, <1>10, <1>11, <3>1, <3>2 DEF Opened
  <2>2. m - 1 \in 1..Len(heard)
    BY <1>6, <1>7
  <2> QED
    BY <1>4, <2>1, <2>2 DEF Tracked
<1>13. len = m - 4
  <2>1. Inside >= 3 /\ Inside - 2 = m - 3
    BY <1>7, <1>12
  <2> QED
    BY <1>4, <1>10, <1>11, <1>12, <2>1 DEF Recorded
<1>14. state = "crc"
  <2>1. state \notin {"opcode", "length"}
    BY <1>7, <1>12 DEF Inside
  <2>2. ASSUME state = "data" PROVE FALSE
    <3>1. m - 1 = 3 + Len(buf) /\ (Len(buf) < len \/ buf = <<>>)
      BY <1>5, <1>12, <2>2 DEF Inside, ParserTypeOK
    <3> QED
      BY <1>5, <1>7, <1>13, <3>1
  <2> QED
    BY <1>5, <1>12, <2>1, <2>2 DEF ParserTypeOK
<1>15. m = Len(buf) + 4
  BY <1>5, <1>7, <1>13, <1>14 DEF ParserTypeOK
<1>16. /\ l[2].byte = opcode
       /\ \A i \in 1..Len(buf) : l[i + 3].byte = buf[i]
       /\ PayloadSum(l) = crc
  BY <1>1, <1>14, <1>15, Complete
<1>17. got' = {[opcode |-> opcode, data |-> buf]}
  BY <1>5, <1>10, <1>11, <1>14, <1>16
     DEF WaitStart, GetOpcode, GetLength, GetData, CrcCheck
<1>18. Decoded(l) = [opcode |-> opcode, data |-> buf]
  <2>1. buf = [i \in 1..Len(buf) |-> buf[i]] /\ Len(l) - 4 = Len(buf)
    BY <1>5, <1>8, <1>15 DEF ParserTypeOK
  <2>2. [i \in 1..(Len(l) - 4) |-> l[i + 3].byte] = buf
    BY <1>16, <2>1
  <2> QED
    BY <1>16, <2>2 DEF Decoded
<1> QED
  BY <1>2, <1>17, <1>18

LEMMA FramedInvariant == Spec => [](Framed /\ NothingInvented /\ NothingMissed)
<1>1. Init /\ TypeOK /\ Placed => Framed /\ NothingInvented /\ NothingMissed
  <2> SUFFICES ASSUME Init, TypeOK, Placed
               PROVE  Framed /\ NothingInvented /\ NothingMissed
    OBVIOUS
  <2>1. heard = <<>> /\ Len(heard) = 0 /\ state = "start" /\ got = {}
    BY DEF Init
  <2>2. 1..Len(heard) = {} /\ 5..Len(heard) = {}
    BY <2>1
  <2>3. Recorded /\ Tracked
    BY <2>1, <2>2 DEF Recorded, Tracked
  <2>4. NothingInvented /\ NothingMissed
    BY <2>1, <2>2 DEF NothingInvented, NothingMissed, WholeFrames
  <2> QED
    BY <2>3, <2>4 DEF Framed
<1>2. /\ Framed /\ NothingInvented /\ NothingMissed /\ [Next]_vars
      /\ TypeOK' /\ Placed'
      => (Framed /\ NothingInvented /\ NothingMissed)'
  <2>1. ASSUME Framed, TypeOK', Placed', NEW c \in Byte, Receive(c)
        PROVE  (Framed /\ NothingInvented /\ NothingMissed)'
    <3>1. TypeOK /\ Placed /\ Recorded /\ Tracked
      BY <2>1 DEF Framed
    <3>2. Recorded' /\ Tracked'
      BY <2>1, <3>1, RecordedStep, TrackedStep
    <3>3. NothingInvented' /\ NothingMissed'
      BY <2>1, InventedStep, MissedStep
    <3> QED
      BY <2>1, <3>2, <3>3 DEF Framed
  <2>2. ASSUME Framed, NothingInvented, NothingMissed, TypeOK', Placed', UNCHANGED vars
        PROVE  (Framed /\ NothingInvented /\ NothingMissed)'
    <3>1. UNCHANGED <<state, opcode, len, crc, buf, got, heard>>
      BY <2>2 DEF vars, parser
    <3>2. Recorded' /\ Tracked'
      BY <2>2, <3>1 DEF Framed, Recorded, Tracked, Opened, Ago, Inside, Adds
    <3>3. NothingInvented' /\ NothingMissed'
      <4>1. \A n : Last(n)' = Last(n)
        BY <3>1, Zenon DEF Last
      <4>2. WholeFrames' = WholeFrames
        BY <3>1, <4>1, Zenon DEF WholeFrames
      <4> QED
        BY <2>2, <3>1, <4>1, <4>2, Zenon DEF NothingInvented, NothingMissed
    <3> QED
      BY <2>2, <3>2, <3>3 DEF Framed
  <2> QED
    BY <2>1, <2>2 DEF Next
<1> QED
  BY <1>1, <1>2, ParserInvariant, PTL DEF Spec

(* A frame is passed on only when its last byte ends a whole one, with that *)
(* opcode and that payload, and its sum is right (ble_nus_app.c:181-192).   *)
THEOREM ParserInventsNothing == Spec => []NothingInvented
BY FramedInvariant, PTL

(* A whole frame that began while the parser awaited a start code is passed *)
(* on with its last byte, whatever was received before                      *)
(* (ble_nus_app.c:139-195).                                                 *)
THEOREM ParserMissesNothing == Spec => []NothingMissed
BY FramedInvariant, PTL
=============================================================================
