----------------------------- MODULE FrameParser -----------------------------
(***************************************************************************)
(* BLE_NUS_ParserPacket (ble_nus_app.c): frames are recognised in the      *)
(* stream of bytes a phone writes, one byte at a time.  A frame is a start *)
(* code, an opcode, a length, that many payload bytes and their sum.  The  *)
(* stream may be anything: frames are cut by disconnections, and nothing   *)
(* resets the parser between connections.                                  *)
(***************************************************************************)
EXTENDS Integers, Sequences

CONSTANTS
  Modulus,  \* values of a byte, 256
  Start,    \* the start code, 0xCA
  LenMax    \* lenMax: the size of BLE_NUS__ProtoRecv_Buff, 32

ASSUME FrameParserAssumption ==
  /\ Modulus \in Nat \ {0}
  /\ Start \in 0..(Modulus - 1)
  /\ LenMax \in 1..(Modulus - 1)

Byte == 0..(Modulus - 1)

VARIABLES
  state,   \* BLE_NUS__ParserPacket.state
  opcode,  \* .opcode
  len,     \* .len
  crc,     \* .crc
  buf,     \* the bytes stored in ProtoRecv_Buff for this frame; .cnt of them
  got,     \* the frames the last byte completed: at most one
  \* History, read by the properties only.
  heard    \* the last bytes received, and whether the parser awaited a start

parser == <<state, opcode, len, crc, buf>>
vars == <<parser, got, heard>>

-----------------------------------------------------------------------------
\* BLE_NUS_TaskInit.
Init ==
  /\ state = "start"
  /\ opcode = 0
  /\ len = 0
  /\ crc = 0
  /\ buf = <<>>
  /\ got = {}
  /\ heard = <<>>

Goto(s) == state' = s

\* The longest a frame can be.
FrameMax == LenMax + 4

Hear(c) ==
  LET h == Append(heard, [byte |-> c, idle |-> state = "start"])
  IN  heard' = IF Len(h) > FrameMax THEN Tail(h) ELSE h

\* Faulty variant of WaitStart: what the last frame stored is kept.
WaitStartKept(c) ==
  /\ state = "start"
  /\ IF c = Start
     THEN Goto("opcode") /\ len' = 0 /\ UNCHANGED <<crc, buf>>
     ELSE UNCHANGED <<state, len, crc, buf>>
  /\ got' = {}
  /\ UNCHANGED opcode

WaitStart(c) ==
  /\ state = "start"
  /\ IF c = Start
     THEN Goto("opcode") /\ len' = 0 /\ crc' = 0 /\ buf' = <<>>
     ELSE UNCHANGED <<state, len, crc, buf>>
  /\ got' = {}
  /\ UNCHANGED opcode

GetOpcode(c) ==
  /\ state = "opcode"
  /\ opcode' = c
  /\ Goto("length")
  /\ got' = {}
  /\ UNCHANGED <<len, crc, buf>>

GetLength(c) ==
  /\ state = "length"
  /\ len' = c
  /\ Goto("data")
  /\ got' = {}
  /\ UNCHANGED <<opcode, crc, buf>>

\* Faulty variants of GetData: a byte stored whatever the length announced,
\* and a length of zero that leaves the parser waiting for data.
GetDataUnbounded(c) ==
  /\ state = "data"
  /\ IF Len(buf) >= len
     THEN Goto("start") /\ UNCHANGED <<crc, buf>>
     ELSE /\ crc' = (crc + c) % Modulus
          /\ buf' = Append(buf, c)
          /\ Goto(IF Len(buf) + 1 = len THEN "crc" ELSE "data")
  /\ got' = {}
  /\ UNCHANGED <<opcode, len>>

GetDataWaits(c) ==
  /\ state = "data"
  /\ IF Len(buf) >= len \/ len > LenMax
     THEN UNCHANGED <<state, crc, buf>>
     ELSE /\ crc' = (crc + c) % Modulus
          /\ buf' = Append(buf, c)
          /\ Goto(IF Len(buf) + 1 = len THEN "crc" ELSE "data")
  /\ got' = {}
  /\ UNCHANGED <<opcode, len>>

\* A length of zero, or beyond the buffer, is noticed with the next byte,
\* which is dropped with it.
GetData(c) ==
  /\ state = "data"
  /\ IF Len(buf) >= len \/ len > LenMax
     THEN Goto("start") /\ UNCHANGED <<crc, buf>>
     ELSE /\ crc' = (crc + c) % Modulus
          /\ buf' = Append(buf, c)
          /\ Goto(IF Len(buf) + 1 = len THEN "crc" ELSE "data")
  /\ got' = {}
  /\ UNCHANGED <<opcode, len>>

CrcCheck(c) ==
  /\ state = "crc"
  /\ Goto("start")
  /\ got' = IF crc = c THEN {[opcode |-> opcode, data |-> buf]} ELSE {}
  /\ UNCHANGED <<opcode, len, crc, buf>>

\* BLE_NUS_Rx_Callback, called for each byte of a write by nus_data_handler.
Receive(c) ==
  /\ Hear(c)
  /\ \/ WaitStart(c) \/ GetOpcode(c) \/ GetLength(c) \/ GetData(c)
     \/ CrcCheck(c)

Next == \E c \in Byte : Receive(c)

Spec == Init /\ [][Next]_vars

-----------------------------------------------------------------------------
(* Properties.                                                             *)

\* The parser's fields keep their ranges.  No frame, whatever length it
\* announces and wherever it was cut, stores beyond the receive buffer or
\* beyond its own length (ble_nus_app.c:163-178).
TypeOK ==
  /\ state \in {"start", "opcode", "length", "data", "crc"}
  /\ opcode \in Byte
  /\ len \in Byte
  /\ crc \in Byte
  /\ buf \in Seq(Byte)
  /\ Len(buf) <= LenMax
  /\ state \in {"opcode", "length"} => buf = <<>>
  /\ state = "data" => (Len(buf) < len \/ buf = <<>>)
  /\ state = "crc" => Len(buf) = len
  /\ got \subseteq [opcode : Byte, data : Seq(Byte)]
  /\ heard \in Seq([byte : Byte, idle : BOOLEAN])
  /\ Len(heard) <= FrameMax

\* The last n bytes received.
Last(n) == SubSeq(heard, Len(heard) - n + 1, Len(heard))

\* The sum of the payload of h, the bytes of a frame, as the sender adds it up.
PayloadSum(h) ==
  LET sum[i \in 3..(Len(h) - 1)] ==
        IF i = 3 THEN 0 ELSE (sum[i - 1] + h[i].byte) % Modulus
  IN  sum[Len(h) - 1]

\* h is a whole frame with a payload the buffer can hold.
WellFormed(h) ==
  /\ Len(h) \in 5..FrameMax
  /\ h[1].byte = Start
  /\ h[3].byte = Len(h) - 4
  /\ h[Len(h)].byte = PayloadSum(h)

Decoded(h) ==
  [opcode |-> h[2].byte, data |-> [i \in 1..(Len(h) - 4) |-> h[i + 3].byte]]

WholeFrames == {n \in 5..Len(heard) : WellFormed(Last(n))}

\* A frame is recognised only where a whole one, header, payload and sum, has
\* just been received, and it is passed on with that opcode and payload:
\* nothing is made up of the rest of one frame and the start of another
\* unless those bytes together are a frame.
NothingInvented ==
  \A f \in got : \E n \in WholeFrames : Decoded(Last(n)) = f

\* A whole frame that began while the parser awaited a start code is
\* recognised with its last byte, whatever was received before it.
NothingMissed ==
  \A n \in WholeFrames : Last(n)[1].idle => Decoded(Last(n)) \in got

\* A frame cut short, by a disconnection or by a length nothing follows,
\* swallows a bounded number of the bytes that come next: the parser awaits
\* a start code again within the longest frame, so that the state it keeps
\* across connections cannot block it for good.
ResyncsWithinAFrame ==
  Len(heard) = FrameMax => \E i \in 1..FrameMax : heard[i].idle
=============================================================================
